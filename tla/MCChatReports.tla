---------------------------- MODULE MCChatReports ----------------------------
(* An instance of ChatReports for TLC: two accounts on a socket each. *)
EXTENDS ChatReports

CONSTANTS a1, a2, s1, s2

OneSocketEach == [s \in {s1, s2} |-> IF s = s1 THEN a1 ELSE a2]
=============================================================================
