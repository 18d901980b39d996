---------------------------- MODULE TicketLedger ----------------------------
(***************************************************************************)
(* What the automatch queue promises about tickets: each that is pushed    *)
(* was asked for, one that is drawn for a match is out until it is put     *)
(* back or spent, and it is put back once.  No match, however it ends and  *)
(* whoever settles it, makes a ticket.                                     *)
(***************************************************************************)
EXTENDS Naturals

CONSTANTS
  Who,  \* who has tickets
  Slip  \* what a drawn ticket is out for

VARIABLES
  asking,   \* who has asked for a ticket it has not got yet
  waiting,  \* waiting[w]: the tickets of w in the queue
  out       \* <<w, n>>: a ticket of w is out for n

vars == <<asking, waiting, out>>

Init ==
  /\ asking \in SUBSET Who
  /\ waiting = [w \in Who |-> 0]
  /\ out = {}

\* A request makes one ticket.
Enqueue(w) ==
  /\ w \in asking
  /\ asking' = asking \ {w}
  /\ waiting' = [waiting EXCEPT ![w] = @ + 1]
  /\ UNCHANGED out

Drawn(S) == {s[1] : s \in S}

\* One ticket each, for something none of theirs is out for.
Draw(S) ==
  /\ S \cap out = {}
  /\ \A s, t \in S : s[1] = t[1] => s = t
  /\ \A w \in Drawn(S) : waiting[w] > 0
  /\ waiting' = [w \in Who |-> IF w \in Drawn(S) THEN waiting[w] - 1 ELSE waiting[w]]
  /\ out' = out \cup S
  /\ UNCHANGED asking

PutBack(w, n) ==
  /\ <<w, n>> \in out
  /\ waiting' = [waiting EXCEPT ![w] = @ + 1]
  /\ out' = out \ {<<w, n>>}
  /\ UNCHANGED asking

\* Played, declined, or its owner is gone; and anybody asks, or gives that up.
Spend(S) ==
  /\ out' = out \ S
  /\ asking' \in SUBSET Who
  /\ UNCHANGED waiting

\* w queues no more; S may be out with it.
Withdraw(w, S) ==
  /\ waiting' = [waiting EXCEPT ![w] = 0]
  /\ out' = out \ S
  /\ asking' \in SUBSET Who

Next ==
  \/ \E w \in Who : Enqueue(w) \/ \E n \in Slip : PutBack(w, n)
  \/ \E S \in SUBSET (Who \X Slip) : Draw(S) \/ Spend(S) \/ \E w \in Who : Withdraw(w, S)

Spec == Init /\ [][Next]_vars
=============================================================================
