--------------------------- MODULE MCPairSelection ---------------------------
(* Instances of PairSelection for TLC. *)
EXTENDS PairSelection

CONSTANTS k1, k2, k3, t1, t2

NoneBlocked == [k \in Queuer |-> {}]

Ice   == [keys |-> <<t1>>,     relay |-> {"ice"}]
Host  == [keys |-> <<t2, t1>>, relay |-> {"endpoint", "ice"}]
Guest == [keys |-> <<t1, t2>>, relay |-> {}]

\* Only k2 can carry a match with either of the others.
Kinds == [k \in Queuer |-> CASE k = k1 -> {Ice} [] k = k2 -> {Host} [] k = k3 -> {Guest}]

Unmeasured == {-1, 2}
=============================================================================
