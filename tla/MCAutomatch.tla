---------------------------- MODULE MCAutomatch ----------------------------
(* Instances of Automatch for TLC. *)
EXTENDS Automatch, TLC

CONSTANTS c1, c2, c3, k1, k2, k3

\* Two connections of one account.
SharedAccount == [c \in Client |-> IF c = c2 THEN k2 ELSE k1]

\* The accept gate and everything that may end an offer.
GateOps == {"queue", "cancel", "answer", "hangup"}

\* Matches, and the rooms around them.
RoomOps == {"queue", "answer", "enter", "leave", "hangup"}

AllOps == GateOps \cup RoomOps

Symmetry == Permutations(MatchId)
=============================================================================
