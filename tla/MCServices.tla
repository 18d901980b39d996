----------------------------- MODULE MCServices -----------------------------
(* Instances, for TLC, of the parts of the server that no other part reads: *)
(* HubTalk, SignalRelay, DelayFloor, Accounts, ChatReports, MatchHistory,   *)
(* the mailboxes of HttpRooms and PairSelection.  They share no state: a    *)
(* behaviour of all of them is one of each, side by side.  So every         *)
(* behaviour here is one of a single part, which `part` names, while the    *)
(* others rest in one of their initial states.                              *)
EXTENDS HubTalk, SignalRelay, DelayFloor, Accounts, ChatReports, MatchHistory,
        HttpRooms, PairSelection

CONSTANTS
  c1, c2, c3, host, guest, game, person,
  a1, a2, s3,
  w1, w2, x1, x2, y1, y2, z1, z2,   \* pairs of codes, rooms, requests, ...
  k1, k2, k3, k4, t1, t2

VARIABLE part

-----------------------------------------------------------------------------
(* Values of the constants *)

OneHost == [l \in {y1, y2} |-> host]

\* Clamped, dropped, in every tier, and past what delay and runway can cover.
RoundTrips == {-7, 0, 40, 60, 90, 130, 190, 260, 900, 5000}
FrameLengths == {16683, 20000}
AuthoredNumbers == {0, 12, 30}

\* Two sockets of one account and one of another.
Signed == [s \in {x1, x2, s3} |-> IF s = s3 THEN a2 ELSE a1]

Rungs == <<1, 2, 3>>

\* Who knows neither can only play with an endpoint, and k2 has blocked k3.
Ice      == [keys |-> <<t1>>,     relay |-> {"ice"}]
Endpoint == [keys |-> <<t2, t1>>, relay |-> {"endpoint", "ice"}]
Neither  == [keys |-> <<t1, t2>>, relay |-> {}]

Kinds == [k \in Queuer |-> IF k = k1 THEN {Ice} ELSE IF k = k3 THEN {Neither} ELSE {Endpoint}]
Blocked == [k \in Queuer |-> IF k = k2 THEN {k3} ELSE {}]

Interchangeable ==
  UNION {Permutations(S) : S \in {{w1, w2}, {x1, x2}, {y1, y2}, {z1, z2}}}

-----------------------------------------------------------------------------

Part == {"talk", "relay", "floor", "accounts", "reports", "history", "mailboxes",
         "queue"}

Init ==
  /\ part \in Part
  /\ TalkInit     /\ (part # "talk" => \A c \in Client : title[c] = RoomTitle)
  /\ RelayInit    /\ (part # "relay" => \A l \in Lobby : ~room[l].closed)
  /\ FloorInit    /\ (part # "floor" => offer = CHOOSE o \in OfferedLink : TRUE)
  /\ AccountsInit /\ ReportsInit /\ HistoryInit /\ HttpInit /\ QueueInit

Next ==
  /\ UNCHANGED part
  /\ \/ /\ part = "talk" /\ TalkNext
        /\ UNCHANGED <<relayVars, offer, accountVars, reportVars, historyVars, httpVars, queueVars>>
     \/ /\ part = "relay" /\ RelayNext
        /\ UNCHANGED <<talkVars, offer, accountVars, reportVars, historyVars, httpVars, queueVars>>
     \/ /\ part = "floor" /\ Report
        /\ UNCHANGED <<talkVars, relayVars, accountVars, reportVars, historyVars, httpVars, queueVars>>
     \/ /\ part = "accounts" /\ AccountsNext
        /\ UNCHANGED <<talkVars, relayVars, offer, reportVars, historyVars, httpVars, queueVars>>
     \/ /\ part = "reports" /\ ReportsNext
        /\ UNCHANGED <<talkVars, relayVars, offer, accountVars, historyVars, httpVars, queueVars>>
     \/ /\ part = "history" /\ HistoryNext
        /\ UNCHANGED <<talkVars, relayVars, offer, accountVars, reportVars, httpVars, queueVars>>
     \/ /\ part = "mailboxes" /\ HttpNext
        /\ UNCHANGED <<talkVars, relayVars, offer, accountVars, reportVars, historyVars, queueVars>>
     \/ /\ part = "queue" /\ QueueNext
        /\ UNCHANGED <<talkVars, relayVars, offer, accountVars, reportVars, historyVars, httpVars>>

Spec ==
  Init /\ [][Next]_<<part, talkVars, relayVars, offer, accountVars, reportVars, historyVars,
                     httpVars, queueVars>>

-----------------------------------------------------------------------------

\* Every part's state has the shape of its data structures; a mailbox never
\* holds more than its limit, and an account's ticket is in one place
\* (SignalStore::push_to, Queue::pair).
TypeOK ==
  /\ TalkTypeOK /\ RelayTypeOK /\ AccountsTypeOK /\ ReportsTypeOK /\ HistoryTypeOK
  /\ offer \in OfferedLink
  /\ HttpTypeOK /\ QueueTypeOK
=============================================================================
