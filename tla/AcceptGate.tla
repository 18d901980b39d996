----------------------------- MODULE AcceptGate -----------------------------
(***************************************************************************)
(* What the accept gate promises about one match: two players are offered  *)
(* it, each may say yes while the offer is open, and it becomes a match    *)
(* only if both do.  An offer that fell never becomes a match.             *)
(***************************************************************************)
CONSTANTS Client, MatchId

VARIABLES
  phase,  \* phase[m]: "open", "matched" or "over"
  pair,   \* pair[m]: the two players while m is open
  said    \* said[m]: those of them who have said yes

vars == <<phase, pair, said>>

Init ==
  /\ phase = [m \in MatchId |-> "over"]
  /\ pair = [m \in MatchId |-> {}]
  /\ said = [m \in MatchId |-> {}]

Offer(m, c, d) ==
  /\ phase[m] = "over"
  /\ c # d
  /\ phase' = [phase EXCEPT ![m] = "open"]
  /\ pair' = [pair EXCEPT ![m] = {c, d}]
  /\ UNCHANGED said

\* The first yes.
Say(m, c) ==
  /\ phase[m] = "open"
  /\ c \in pair[m] /\ said[m] = {}
  /\ said' = [said EXCEPT ![m] = {c}]
  /\ UNCHANGED <<phase, pair>>

Finish(m, next) ==
  /\ phase' = [phase EXCEPT ![m] = next]
  /\ pair' = [pair EXCEPT ![m] = {}]
  /\ said' = [said EXCEPT ![m] = {}]

\* The yes of the other one.
Match(m, c) ==
  /\ phase[m] = "open"
  /\ c \in pair[m] /\ said[m] = pair[m] \ {c}
  /\ Finish(m, "matched")

\* Declined, cancelled, lapsed, or a player is gone.
Fall(m) == phase[m] = "open" /\ Finish(m, "over")

\* The match is over, or its room could not be had.
End(m) == phase[m] = "matched" /\ Finish(m, "over")

Next ==
  \E m \in MatchId :
    \/ \E c, d \in Client : Offer(m, c, d)
    \/ \E c \in Client : Say(m, c) \/ Match(m, c)
    \/ Fall(m) \/ End(m)

Spec == Init /\ [][Next]_vars
=============================================================================
