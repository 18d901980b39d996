--------------------------- MODULE AutomatchProofs ---------------------------
(***************************************************************************)
(* Proofs about Automatch, for any connections, accounts and match ids.    *)
(*                                                                         *)
(* An offer is in the queue, or with the one task that took it out, or it  *)
(* is the room of its match; never two of these.  Every scope either moves *)
(* a task on with what it holds, or takes an offer out of the queue.       *)
(* So a ticket that is out is out with one offer or one task, and whoever  *)
(* that task has put back it no longer has in hand (InHandSound).          *)
(***************************************************************************)
EXTENDS Automatch, TLAPS

-----------------------------------------------------------------------------
(* Tasks *)

\* What Gated says of one task.
Sane(x, t) ==
  /\ t \in Task
  /\ t.charge \cap t.o.yes \subseteq {x}
  /\ t.at \in {"form", "gone"} => x \in Client /\ t.o \in Offer /\ both_yes(t.o)
  /\ t.at \in {"start", "drop"} => x \in MatchId /\ t.o \in Offer
  /\ x \in MatchId => t.at \in {"idle", "start", "drop", "settle", "requeue"}
  /\ x = Ticker => t.at \in {"idle", "settle", "requeue"}
  /\ x \in MatchId /\ t.o # NoOffer => t.o.m = x
  /\ t.o # NoOffer => AccountOf[t.o.a] # AccountOf[t.o.b]
  /\ t.at = "requeue" => t.who \in Client
  /\ t.at = "destroy" => t.lid \in MatchId

LEMMA SaneTasks == Gated => \A x \in Actor : Sane(x, task[x])
BY DEF Gated, TypeOK, AccepterUncharged, TasksOK, Sane, Holds

LEMMA SaneGated ==
  ASSUME task \in [Actor -> Task], \A x \in Actor : Sane(x, task[x])
  PROVE  AccepterUncharged /\ TasksOK
BY DEF AccepterUncharged, TasksOK, Sane, Holds

\* A task without an offer.
LEMMA AtFacts ==
  ASSUME NEW step \in Step
  PROVE  /\ At(step) \in Task /\ At(step).at = step /\ At(step).o = NoOffer
         /\ At(step).charge = {} /\ At(step).lid = NoMatch
BY DEF At, Task

LEMMA AtSane ==
  ASSUME NEW x \in Actor, NEW step \in Step,
         step \notin {"form", "gone", "start", "drop", "requeue", "destroy"},
         x \in Client \/ step = "idle"
  PROVE  Sane(x, At(step))
BY AtFacts, AutomatchConstants DEF Sane

LEMMA IdleSane ==
  ASSUME NEW x \in Actor
  PROVE  Sane(x, Idle) /\ Idle.o = NoOffer /\ Idle.at = "idle"
BY AtFacts, AtSane DEF Idle, Step

\* A handler that is done, or has left its room.
LEMMA DoneSane ==
  ASSUME NEW x \in Actor
  PROVE  /\ Sane(x, Done(x)) /\ Done(x).o = NoOffer
         /\ x \in Client => Sane(x, Left(x)) /\ Left(x).o = NoOffer
<1>1. "leave" \in Step /\ "remove" \in Step
  BY DEF Step
<1> QED
  BY <1>1, IdleSane, AtFacts, AtSane DEF Done, Left

\* A task that holds an offer.
LEMMA WithFacts ==
  ASSUME NEW step \in Step, NEW o \in Offer \cup {NoOffer},
         NEW charge \in SUBSET Client, NEW todo \in SUBSET Client
  PROVE  /\ With(step, o) \in Task /\ With(step, o).at = step /\ With(step, o).o = o
         /\ With(step, o).charge = {}
         /\ Settle(o, charge, todo) \in Task /\ Settle(o, charge, todo).at = "settle"
         /\ Settle(o, charge, todo).o = o /\ Settle(o, charge, todo).charge = charge
<1>1. At(step) \in Task /\ At("settle") \in Task
  BY AtFacts DEF Step
<1> QED
  BY <1>1 DEF With, Settle, At, Task, Step

\* An offer is no NoOffer.
LEMMA OfferFacts ==
  ASSUME NEW o \in Offer
  PROVE  /\ o # NoOffer /\ o.m \in MatchId /\ o.m # NoMatch
         /\ o.a \in Client /\ o.b \in Client
         /\ Sides(o) \in SUBSET Client /\ o.yes \in SUBSET Client
         /\ \A c \in Client : c \in Sides(o) => Other(o, c) \in Client
BY AutomatchConstants DEF Offer, NoOffer, Sides, Other

LEMMA SettleSane ==
  ASSUME NEW x \in Actor, NEW o \in Offer, NEW charge \in SUBSET Client,
         NEW todo \in SUBSET Client, charge \cap o.yes \subseteq {x},
         x \in MatchId => o.m = x, AccountOf[o.a] # AccountOf[o.b]
  PROVE  Sane(x, Settle(o, charge, todo)) /\ Settle(o, charge, todo).o = o
BY WithFacts, AutomatchConstants DEF Sane, Step

-----------------------------------------------------------------------------
(* The kinds of steps *)

\* A task moves on: it keeps its offer, or is done with it, and no room fills.
LEMMA TaskMoves ==
  ASSUME Gated, NEW x \in Actor, NEW t, task' = [task EXCEPT ![x] = t], Sane(x, t),
         t.o = NoOffer \/ t.o.m = task[x].o.m,
         offers' = offers,
         rooms' \in [MatchId -> SUBSET Client], \A m \in MatchId : rooms'[m] \subseteq rooms[m],
         conn' \in [Client -> {"off", "up", "closing"}],
         lobbyOf' \in [Client -> MatchId \cup {NoMatch, Hosted}],
         hosted' \subseteq Client, tickets' \in [Client -> Nat], cool' \subseteq Account,
         MatchSeatsAgree', RunningIsPresent'
  PROVE  Gated'
<1>1. task \in [Actor -> Task] /\ t \in Task
  BY DEF Gated, TypeOK, Sane
<1>2. task' \in [Actor -> Task] /\ \A y \in Actor : Sane(y, task'[y])
  BY <1>1, SaneTasks
<1>3. TypeOK'
  BY <1>2 DEF TypeOK, Gated
<1>4. AccepterUncharged' /\ TasksOK'
  BY <1>2 DEF AccepterUncharged, TasksOK, Sane, Holds
<1>5. \A y \in Actor, m \in MatchId : Holds(y, m)' => Holds(y, m)
  BY <1>1, AutomatchConstants DEF Holds, NoOffer
<1>6. OfferSettledOnce'
  <2>1. OfferSettledOnce
    BY DEF Gated
  <2>2. \A o \in offers : o \in Offer /\ o.m \in MatchId
    BY DEF Gated, TypeOK, Offer
  <2>3. \A m \in MatchId : rooms[m] = {} => rooms'[m] = {}
    OBVIOUS
  <2>4. Client \cup {Ticker} \subseteq Actor
    BY DEF Actor
  <2> QED
    BY <1>5, <2>1, <2>2, <2>3, <2>4 DEF OfferSettledOnce
<1>7. TwoAccounts'
  BY DEF TwoAccounts, Gated
<1> QED
  BY <1>3, <1>4, <1>6, <1>7 DEF Gated

\* The same, when nothing but the task and the counters change.
LEMMA OnlyTaskMoves ==
  ASSUME Gated, NEW x \in Actor, NEW t, task' = [task EXCEPT ![x] = t], Sane(x, t),
         t.o = NoOffer \/ t.o.m = task[x].o.m,
         x \in Client /\ conn[x] = "off" => t.at = "idle",
         UNCHANGED <<conn, lobbyOf, rooms, offers>>,
         hosted' \subseteq Client, tickets' \in [Client -> Nat], cool' \subseteq Account
  PROVE  Gated'
<1>1. MatchSeatsAgree'
  BY DEF Gated, MatchSeatsAgree
<1>2. task \in [Actor -> Task] /\ Client \subseteq Actor
  BY DEF Gated, TypeOK, Actor
<1>3. RunningIsPresent'
  BY <1>2 DEF Gated, RunningIsPresent
<1> QED
  BY <1>1, <1>3, TaskMoves DEF Gated, TypeOK

\* A task that has nobody's place to fill takes o out of the queue.
LEMMA TaskTakes ==
  ASSUME Gated, NEW x \in Client \cup {Ticker}, NEW t, task' = [task EXCEPT ![x] = t],
         Sane(x, t), NEW o \in offers, t.o.m = o.m,
         x \in Client => conn[x] # "off",
         offers' = Taken(o), UNCHANGED <<conn, lobbyOf, hosted, rooms, cool>>,
         tickets' \in [Client -> Nat]
  PROVE  Gated'
<1>1. task \in [Actor -> Task] /\ t \in Task /\ x \in Actor
  BY DEF Gated, TypeOK, Sane, Actor
<1>2. task' \in [Actor -> Task] /\ \A y \in Actor : Sane(y, task'[y])
  BY <1>1, SaneTasks
<1>3. TypeOK'
  BY <1>2 DEF TypeOK, Gated, Taken
<1>4. AccepterUncharged' /\ TasksOK'
  BY <1>2 DEF AccepterUncharged, TasksOK, Sane, Holds
<1>5. \A y \in Actor, m \in MatchId :
        Holds(y, m)' => (y # x /\ Holds(y, m)) \/ (y = x /\ m = o.m)
  BY <1>1 DEF Holds
<1>6. OfferSettledOnce'
  <2>1. OfferSettledOnce
    BY DEF Gated
  <2>2. \A p \in offers : p \in Offer /\ p.m \in MatchId
    BY DEF Gated, TypeOK, Offer
  <2>3. offers' \subseteq offers /\ \A p \in offers' : p.m # o.m
    BY <2>1 DEF OfferSettledOnce, Taken
  <2>4. Client \cup {Ticker} \subseteq Actor
    BY DEF Actor
  <2>5. \A p, q \in offers' : p.m = q.m => p = q
    BY <2>1, <2>3 DEF OfferSettledOnce
  <2>6. \A p \in offers', y \in Actor : ~Holds(y, p.m)'
    BY <1>5, <2>1, <2>2, <2>3 DEF OfferSettledOnce
  <2>7. \A y, z \in Actor, m \in MatchId : Holds(y, m)' /\ Holds(z, m)' => y = z
    BY <1>5, <2>1 DEF OfferSettledOnce
  <2>8. \A p \in offers' : rooms'[p.m] = {}
    BY <2>1, <2>3 DEF OfferSettledOnce
  <2>9. \A y \in Client \cup {Ticker}, m \in MatchId : Holds(y, m)' => rooms'[m] = {}
    BY <1>5, <2>1, <2>4 DEF OfferSettledOnce
  <2> QED
    BY <2>5, <2>6, <2>7, <2>8, <2>9 DEF OfferSettledOnce, Holds
<1>7. TwoAccounts'
  BY DEF TwoAccounts, Gated, Taken
<1>8. MatchSeatsAgree'
  BY DEF Gated, MatchSeatsAgree
<1>9. RunningIsPresent'
  BY <1>1 DEF Gated, RunningIsPresent, Actor
<1> QED
  BY <1>3, <1>4, <1>6, <1>7, <1>8, <1>9 DEF Gated

\* A task that runs is that of a connection in the map.
LEMMA Running ==
  ASSUME Gated, NEW c \in Client, task[c].at # "idle" \/ conn[c] = "up" \/ lobbyOf[c] # NoMatch
  PROVE  conn[c] # "off"
BY DEF Gated, RunningIsPresent

\* Every step of the task of x leaves the others' alone, and x's is a Task.
LEMMA TaskType ==
  ASSUME Gated, NEW x \in Actor
  PROVE  task[x] \in Task /\ Sane(x, task[x]) /\ Client \subseteq Actor /\ Ticker \in Actor
BY SaneTasks DEF Gated, TypeOK, Actor

-----------------------------------------------------------------------------
(* Connections and rooms *)

LEMMA ConnectKeeps == ASSUME Gated, NEW c \in Client, Connect(c) PROVE Gated'
<1>1. TypeOK'
  BY DEF Connect, Gated, TypeOK
<1>2. OfferSettledOnce' /\ AccepterUncharged' /\ TwoAccounts' /\ MatchSeatsAgree' /\ TasksOK'
  BY DEF Connect, Gated, OfferSettledOnce, Holds, AccepterUncharged, TwoAccounts,
         MatchSeatsAgree, TasksOK
<1>3. RunningIsPresent'
  BY DEF Connect, Gated, RunningIsPresent, TypeOK
<1> QED
  BY <1>1, <1>2, <1>3 DEF Gated

LEMMA HangUpKeeps == ASSUME Gated, NEW c \in Client, HangUp(c) PROVE Gated'
<1>1. c \in Actor /\ "unqueue" \in Step
  BY TaskType DEF Step, Actor
<1>2. Sane(c, At("unqueue")) /\ At("unqueue").o = NoOffer
  BY <1>1, AtSane, AtFacts
<1>3. MatchSeatsAgree'
  BY DEF HangUp, Gated, MatchSeatsAgree
<1>4. RunningIsPresent'
  BY <1>1 DEF HangUp, Gated, RunningIsPresent, TypeOK, Actor
<1>5. conn' \in [Client -> {"off", "up", "closing"}]
  BY DEF HangUp, Gated, TypeOK
<1> QED
  BY <1>1, <1>2, <1>3, <1>4, <1>5, TaskMoves DEF HangUp, Gated, TypeOK

LEMMA RemoveKeeps == ASSUME Gated, NEW c \in Client, Remove(c) PROVE Gated'
<1>1. c \in Actor /\ task \in [Actor -> Task]
  BY DEF Gated, TypeOK, Actor
<1>2. MatchSeatsAgree'
  BY AutomatchConstants DEF Remove, Gated, MatchSeatsAgree, TypeOK
<1>3. RunningIsPresent'
  BY <1>1, IdleSane DEF Remove, Gated, RunningIsPresent, TypeOK, Actor
<1>4. /\ conn' \in [Client -> {"off", "up", "closing"}]
      /\ lobbyOf' \in [Client -> MatchId \cup {NoMatch, Hosted}]
  BY DEF Remove, Gated, TypeOK
<1> QED
  BY <1>1, <1>2, <1>3, <1>4, IdleSane, TaskMoves DEF Remove, Gated, TypeOK

LEMMA EnterSeatKeeps == ASSUME Gated, NEW c \in Client, EnterSeat(c) PROVE Gated'
<1>1. c \in Actor /\ task \in [Actor -> Task] /\ conn[c] # "off"
  BY Running DEF Gated, TypeOK, Actor, EnterSeat
<1>2. MatchSeatsAgree'
  BY AutomatchConstants DEF EnterSeat, Gated, MatchSeatsAgree, TypeOK
<1>3. RunningIsPresent'
  BY <1>1 DEF EnterSeat, Gated, RunningIsPresent, TypeOK, Actor
<1>4. lobbyOf' \in [Client -> MatchId \cup {NoMatch, Hosted}] /\ hosted' \subseteq Client
  BY DEF EnterSeat, Gated, TypeOK
<1> QED
  BY <1>1, <1>2, <1>3, <1>4, IdleSane, TaskMoves DEF EnterSeat, Gated, TypeOK

LEMMA EvictKeeps == ASSUME Gated, NEW c \in Client, Evict(c) PROVE Gated'
<1>1. TypeOK'
  BY DEF Evict, Gated, TypeOK
<1>2. OfferSettledOnce' /\ AccepterUncharged' /\ TwoAccounts' /\ TasksOK'
  BY DEF Evict, Gated, OfferSettledOnce, Holds, AccepterUncharged, TwoAccounts, TasksOK
<1>3. MatchSeatsAgree' /\ RunningIsPresent'
  BY AutomatchConstants DEF Evict, Gated, MatchSeatsAgree, RunningIsPresent, TypeOK
<1> QED
  BY <1>1, <1>2, <1>3 DEF Gated

LEMMA LeaveKeeps == ASSUME Gated, NEW c \in Client, Leave(c) PROVE Gated'
<1> DEFINE t == IF lobbyOf[c] \in MatchId THEN [At("destroy") EXCEPT !.lid = lobbyOf[c]]
                ELSE Left(c)
<1>1. c \in Actor /\ task \in [Actor -> Task] /\ conn[c] # "off"
  BY Running DEF Gated, TypeOK, Actor, Leave, Handles
<1>2. Sane(c, t) /\ t.o = NoOffer
  <2>1. CASE lobbyOf[c] \in MatchId
    <3>1. /\ t \in Task /\ t.at = "destroy" /\ t.o = NoOffer /\ t.charge = {}
          /\ t.lid \in MatchId
      BY <2>1 DEF At, Task, Step
    <3> QED BY <3>1, AutomatchConstants DEF Sane
  <2>2. CASE lobbyOf[c] \notin MatchId
    BY <2>2, <1>1, DoneSane
  <2> QED BY <2>1, <2>2
<1>3. task' = [task EXCEPT ![c] = t]
  BY DEF Leave
<1> HIDE DEF t
<1>4. MatchSeatsAgree'
  BY AutomatchConstants DEF Leave, Gated, MatchSeatsAgree, TypeOK
<1>5. RunningIsPresent'
  BY <1>1, <1>3 DEF Leave, Gated, RunningIsPresent, TypeOK, Actor
<1>6. lobbyOf' \in [Client -> MatchId \cup {NoMatch, Hosted}] /\ hosted' \subseteq Client
  BY DEF Leave, Gated, TypeOK
<1> QED
  BY <1>1, <1>2, <1>3, <1>4, <1>5, <1>6, TaskMoves DEF Leave, Gated, TypeOK

\* A room is destroyed by a task that has no offer, or is done with the match.
LEMMA DestroyKeeps ==
  ASSUME Gated, NEW m \in MatchId, destroy_lobby(m), NEW x \in Actor, NEW t,
         task' = [task EXCEPT ![x] = t], Sane(x, t),
         t.o = NoOffer \/ t.o.m = task[x].o.m,
         x \in Client => conn[x] # "off",
         UNCHANGED <<conn, hosted, tickets, offers, cool>>
  PROVE  Gated'
<1>1. task \in [Actor -> Task]
  BY DEF Gated, TypeOK
<1>2. MatchSeatsAgree'
  BY AutomatchConstants DEF destroy_lobby, Gated, MatchSeatsAgree, TypeOK
<1>3. RunningIsPresent'
  BY <1>1 DEF destroy_lobby, Gated, RunningIsPresent, TypeOK, Actor
<1>4. /\ lobbyOf' \in [Client -> MatchId \cup {NoMatch, Hosted}]
      /\ rooms' \in [MatchId -> SUBSET Client] /\ \A n \in MatchId : rooms'[n] \subseteq rooms[n]
  BY DEF destroy_lobby, Gated, TypeOK
<1> QED
  BY <1>1, <1>2, <1>3, <1>4, TaskMoves DEF Gated, TypeOK

LEMMA DestroyRoomKeeps == ASSUME Gated, NEW c \in Client, DestroyRoom(c) PROVE Gated'
<1>1. c \in Actor /\ Sane(c, task[c]) /\ conn[c] # "off"
  <2>1. c \in Actor
    BY DEF Actor
  <2>2. conn[c] # "off"
    BY Running DEF DestroyRoom
  <2> QED BY <2>1, <2>2, TaskType
<1>2. task[c].lid \in MatchId
  BY <1>1 DEF Sane, DestroyRoom
<1> QED
  BY <1>1, <1>2, DoneSane, DestroyKeeps DEF DestroyRoom

LEMMA DropRoomKeeps == ASSUME Gated, NEW m \in MatchId, DropRoom(m) PROVE Gated'
<1> DEFINE o == task[m].o
<1>1. m \in Actor /\ Sane(m, task[m]) /\ m \notin Client
  BY TaskType, AutomatchConstants DEF Actor
<1>2. o \in Offer /\ o # NoOffer /\ o.m = m /\ AccountOf[o.a] # AccountOf[o.b]
  BY <1>1, OfferFacts DEF Sane, DropRoom
<1>3. Sane(m, Settle(o, {}, Sides(o))) /\ Settle(o, {}, Sides(o)).o = o
  BY <1>1, <1>2, OfferFacts, SettleSane
<1> QED
  BY <1>1, <1>2, <1>3, DestroyKeeps DEF DropRoom

-----------------------------------------------------------------------------
(* The queue *)

\* The scopes of a request to queue, and the ends of a request that is refused.
LEMMA QueueKeeps ==
  ASSUME Gated, NEW c \in Client,
         \/ EnterCheck(c) \/ EnterRefused(c)
         \/ QueueStart(c) \/ QueueAccount(c) \/ QueueCooldown(c) \/ QueueRoom(c)
         \/ QueueRefused(c) \/ QueuePush(c) \/ FormRefused(c)
  PROVE  Gated'
<1>1. c \in Actor /\ task \in [Actor -> Task]
  BY DEF Actor, Gated, TypeOK
<1>2. conn[c] # "off"
  BY Running DEF EnterCheck, EnterRefused, QueueStart, QueueAccount, QueueCooldown,
                 QueueRoom, QueueRefused, QueuePush, FormRefused, Handles
<1>3. \E step \in {"idle", "enter", "q_account", "q_cooldown", "q_room", "q_push"} :
        task' = [task EXCEPT ![c] = At(step)]
  BY DEF EnterCheck, EnterRefused, QueueStart, QueueAccount, QueueCooldown,
         QueueRoom, QueueRefused, QueuePush, FormRefused, Idle
<1>4. PICK step \in {"idle", "enter", "q_account", "q_cooldown", "q_room", "q_push"} :
        task' = [task EXCEPT ![c] = At(step)]
  BY <1>3
<1>5. Sane(c, At(step)) /\ At(step).o = NoOffer
  <2>1. step \in Step /\ step \notin {"form", "gone", "start", "drop", "requeue", "destroy"}
    BY DEF Step
  <2> QED BY <1>1, <2>1, AtSane, AtFacts
<1>6. UNCHANGED <<conn, lobbyOf, hosted, rooms, offers, cool>> /\ tickets' \in [Client -> Nat]
  BY DEF EnterCheck, EnterRefused, QueueStart, QueueAccount, QueueCooldown,
         QueueRoom, QueueRefused, QueuePush, FormRefused, Gated, TypeOK
<1> QED
  BY <1>1, <1>2, <1>4, <1>5, <1>6, OnlyTaskMoves DEF Gated, TypeOK

\* An offer of the queue, with no task that holds it.
LEMMA QueuedOffer ==
  ASSUME Gated, NEW o \in offers
  PROVE  o \in Offer /\ AccountOf[o.a] # AccountOf[o.b]
BY DEF Gated, TypeOK, TwoAccounts

LEMMA RemovePlayerKeeps ==
  ASSUME Gated, NEW c \in Client, conn[c] # "off", remove_player(c)
  PROVE  Gated'
<1>1. c \in Actor /\ c \notin MatchId
  BY AutomatchConstants DEF Actor
<1>2. tickets' \in [Client -> Nat]
  BY DEF remove_player, Gated, TypeOK
<1>3. CASE OffersOf(c) = {} /\ task' = [task EXCEPT ![c] = Done(c)] /\ offers' = offers
  BY <1>1, <1>2, <1>3, DoneSane, OnlyTaskMoves DEF remove_player, Gated, TypeOK
<1>4. ASSUME NEW o \in OffersOf(c), offers' = Taken(o),
             task' = [task EXCEPT ![c] = Settle(o, {c}, {Other(o, c)})]
      PROVE  Gated'
  <2>1. o \in offers /\ o \in Offer /\ AccountOf[o.a] # AccountOf[o.b] /\ c \in Sides(o)
    BY <1>4, QueuedOffer DEF OffersOf
  <2>2. Sane(c, Settle(o, {c}, {Other(o, c)})) /\ Settle(o, {c}, {Other(o, c)}).o = o
    <3>1. {Other(o, c)} \in SUBSET Client /\ {c} \in SUBSET Client
      BY <2>1, OfferFacts
    <3> QED BY <1>1, <2>1, <3>1, SettleSane
  <2> QED BY <1>2, <1>4, <2>1, <2>2, TaskTakes DEF remove_player
<1> QED
  BY <1>3, <1>4 DEF remove_player

\* Two tickets of two accounts become an offer under an id nobody holds.
LEMMA PairKeeps ==
  ASSUME Gated, NEW a \in Client, NEW b \in Client, NEW m \in MatchId, Pair(a, b, m)
  PROVE  Gated'
<1> DEFINE o == [m |-> m, a |-> a, b |-> b, yes |-> {}]
<1>1. /\ tickets[a] > 0 /\ tickets[b] > 0 /\ AccountOf[a] # AccountOf[b] /\ MatchIdFree(m)
      /\ offers' = offers \cup {o}
      /\ tickets' = [tickets EXCEPT ![a] = @ - 1, ![b] = @ - 1]
      /\ UNCHANGED <<conn, lobbyOf, hosted, rooms, cool, task>>
  BY DEF Pair, Pairable
<1>2. o \in Offer /\ o.m = m /\ o.a = a /\ o.b = b
  BY DEF Offer
<1> HIDE DEF o
<1>3. TypeOK'
  <2>1. tickets' \in [Client -> Nat]
    BY <1>1 DEF Gated, TypeOK
  <2> QED BY <1>1, <1>2, <2>1 DEF Gated, TypeOK
<1>4. OfferSettledOnce'
  <2>1. OfferSettledOnce /\ \A p \in offers : p \in Offer /\ p.m \in MatchId
    BY DEF Gated, TypeOK, Offer
  <2>2. rooms[m] = {} /\ (\A p \in offers : p.m # m) /\ \A x \in Actor : task[x].o.m # m
    BY <1>1 DEF MatchIdFree
  <2> QED
    BY <1>1, <1>2, <2>1, <2>2 DEF OfferSettledOnce, Holds
<1>5. TwoAccounts'
  BY <1>1, <1>2 DEF TwoAccounts, Gated
<1>6. AccepterUncharged' /\ TasksOK' /\ MatchSeatsAgree' /\ RunningIsPresent'
  BY <1>1 DEF Gated, AccepterUncharged, TasksOK, Holds, MatchSeatsAgree, RunningIsPresent
<1> QED
  BY <1>3, <1>4, <1>5, <1>6 DEF Gated

-----------------------------------------------------------------------------
(* Answers *)

LEMMA AcceptKeeps ==
  ASSUME Gated, NEW c \in Client, NEW o \in offers, Accept(c, o)
  PROVE  Gated'
<1> DEFINE p == [o EXCEPT !.yes = @ \cup {c}]
<1>1. /\ o \in Offer /\ AccountOf[o.a] # AccountOf[o.b]
      /\ c \in Actor /\ c \notin MatchId /\ conn[c] # "off"
  BY QueuedOffer, AutomatchConstants DEF Actor, Accept, Handles
<1>2. p \in Offer /\ p.m = o.m /\ p.a = o.a /\ p.b = o.b
  BY <1>1 DEF Offer
<1>3. CASE both_yes(p)
  <2>1. offers' = Taken(o) /\ task' = [task EXCEPT ![c] = With("form", p)]
    BY <1>3 DEF Accept
  <2> HIDE DEF p
  <2>2. /\ With("form", p) \in Task /\ With("form", p).at = "form"
        /\ With("form", p).o = p /\ With("form", p).charge = {}
    BY <1>2, WithFacts DEF Step
  <2>3. Sane(c, With("form", p))
    BY <1>1, <1>2, <1>3, <2>2, AutomatchConstants DEF Sane
  <2>4. UNCHANGED <<conn, lobbyOf, hosted, rooms, cool>> /\ tickets' \in [Client -> Nat]
    BY DEF Accept, Gated, TypeOK
  <2> QED BY <1>1, <1>2, <2>1, <2>2, <2>3, <2>4, TaskTakes
<1>4. CASE ~both_yes(p)
  <2>1. /\ offers' = (offers \ {o}) \cup {p}
        /\ UNCHANGED <<conn, lobbyOf, hosted, rooms, tickets, cool, task>>
    BY <1>4 DEF Accept
  <2> HIDE DEF p
  <2>2. TypeOK'
    BY <1>2, <2>1 DEF Gated, TypeOK
  <2>3. OfferSettledOnce'
    BY <1>2, <2>1 DEF Gated, OfferSettledOnce, Holds
  <2>4. TwoAccounts'
    BY <1>1, <1>2, <2>1 DEF Gated, TwoAccounts
  <2>5. AccepterUncharged' /\ TasksOK' /\ MatchSeatsAgree' /\ RunningIsPresent'
    BY <2>1 DEF Gated, AccepterUncharged, TasksOK, Holds, MatchSeatsAgree, RunningIsPresent
  <2> QED BY <2>2, <2>3, <2>4, <2>5 DEF Gated
<1> QED BY <1>3, <1>4

LEMMA DeclineKeeps ==
  ASSUME Gated, NEW c \in Client, NEW o \in offers, Decline(c, o)
  PROVE  Gated'
<1>1. /\ o \in Offer /\ AccountOf[o.a] # AccountOf[o.b] /\ c \in Sides(o)
      /\ c \in Actor /\ c \notin MatchId /\ conn[c] # "off"
  BY QueuedOffer, AutomatchConstants DEF Actor, Decline, Handles, OffersOf
<1>2. {Other(o, c)} \in SUBSET Client /\ {c} \in SUBSET Client
  BY <1>1, OfferFacts
<1>3. Sane(c, Settle(o, {c}, {Other(o, c)})) /\ Settle(o, {c}, {Other(o, c)}).o = o
  BY <1>1, <1>2, SettleSane
<1>4. tickets' \in [Client -> Nat]
  BY DEF Decline, Gated, TypeOK
<1> QED
  BY <1>1, <1>3, <1>4, TaskTakes DEF Decline

LEMMA ExpireKeeps ==
  ASSUME Gated, NEW o \in offers, Expire(o)
  PROVE  Gated'
<1>1. /\ o \in Offer /\ AccountOf[o.a] # AccountOf[o.b]
      /\ Ticker \in Actor /\ Ticker \notin MatchId /\ Ticker \notin Client
  BY QueuedOffer, AutomatchConstants DEF Actor
<1>2. /\ Lapsed(o) \in SUBSET Client /\ o.yes \in SUBSET Client
      /\ Lapsed(o) \cap o.yes = {}
  BY <1>1, OfferFacts DEF Lapsed
<1>3. Sane(Ticker, Settle(o, Lapsed(o), o.yes)) /\ Settle(o, Lapsed(o), o.yes).o = o
  BY <1>1, <1>2, SettleSane
<1>4. tickets' \in [Client -> Nat]
  BY DEF Expire, Gated, TypeOK
<1> QED
  BY <1>1, <1>3, <1>4, TaskTakes DEF Expire

-----------------------------------------------------------------------------
(* Settling *)

\* A task of a settlement goes on to t, with the offer it has.
LEMMA SettlingKeeps ==
  ASSUME Gated, NEW x \in Actor, task[x].at \in {"settle", "requeue"},
         NEW charge \in SUBSET Client, charge \subseteq task[x].charge,
         NEW todo \in SUBSET Client, NEW step \in {"settle", "requeue"},
         NEW who \in Client \cup {NoClient}, step = "requeue" => who \in Client,
         task' = [task EXCEPT ![x] = [task[x] EXCEPT !.at = step, !.charge = charge,
                                                     !.todo = todo, !.who = who]],
         UNCHANGED <<conn, lobbyOf, hosted, rooms, offers>>,
         tickets' \in [Client -> Nat], cool' \subseteq Account
  PROVE  Gated'
<1> DEFINE t == [task[x] EXCEPT !.at = step, !.charge = charge, !.todo = todo, !.who = who]
<1>1. task[x] \in Task /\ Sane(x, task[x])
  BY TaskType
<1>2. /\ t \in Task /\ t.at = step /\ t.charge = charge /\ t.who = who /\ t.o = task[x].o
  BY <1>1 DEF Task, Step
<1>3. task' = [task EXCEPT ![x] = t]
  OBVIOUS
<1> HIDE DEF t
<1>4. Sane(x, t)
  BY <1>1, <1>2 DEF Sane
<1>5. x \in Client => conn[x] # "off"
  BY Running
<1> QED
  BY <1>2, <1>3, <1>4, <1>5, OnlyTaskMoves DEF Gated, TypeOK

LEMMA SettleStepKeeps == ASSUME Gated, NEW x \in Actor, SettleStep(x) PROVE Gated'
<1>1. task[x] \in Task /\ Sane(x, task[x]) /\ task \in [Actor -> Task]
  BY TaskType DEF Gated, TypeOK
<1>2. /\ task[x].charge \in SUBSET Client /\ task[x].todo \in SUBSET Client
      /\ task[x].who \in Client \cup {NoClient}
      /\ task[x] = [at |-> task[x].at, o |-> task[x].o, charge |-> task[x].charge,
                    todo |-> task[x].todo, who |-> task[x].who, lid |-> task[x].lid]
  BY <1>1 DEF Task
<1>3. ASSUME NEW c \in Client, Strike(x, c) PROVE Gated'
  <2>1. task' = [task EXCEPT ![x] = [task[x] EXCEPT
                   !.at = "settle", !.charge = task[x].charge \ {c},
                   !.todo = task[x].todo, !.who = task[x].who]]
    <3>1. [task[x] EXCEPT !.charge = task[x].charge \ {c}]
            = [task[x] EXCEPT !.at = "settle", !.charge = task[x].charge \ {c},
                              !.todo = task[x].todo, !.who = task[x].who]
      BY <1>2, <1>3 DEF Strike
    <3> QED BY <1>1, <1>3, <3>1 DEF Strike
  <2>2. cool' \subseteq Account /\ tickets' \in [Client -> Nat]
    BY <1>3, AutomatchConstants DEF Strike, Gated, TypeOK
  <2>3. task[x].at = "settle" /\ UNCHANGED <<conn, lobbyOf, hosted, rooms, offers>>
    BY <1>3 DEF Strike
  <2>4. task[x].charge \ {c} \in SUBSET Client /\ task[x].charge \ {c} \subseteq task[x].charge
    BY <1>2
  <2> QED
    BY <1>2, <2>1, <2>2, <2>3, <2>4, SettlingKeeps
<1>4. ASSUME NEW c \in Client, Look(x, c) PROVE Gated'
  <2>1. /\ task[x].at = "settle" /\ UNCHANGED <<conn, lobbyOf, hosted, rooms, offers>>
        /\ cool' \subseteq Account /\ tickets' \in [Client -> Nat]
        /\ task[x].todo \ {c} \in SUBSET Client
    BY <1>2, <1>4 DEF Look, Gated, TypeOK
  <2>2. CASE Present(c)
    <3>1. [task[x] EXCEPT !.at = "requeue", !.who = c, !.todo = task[x].todo \ {c}]
            = [task[x] EXCEPT !.at = "requeue", !.charge = task[x].charge,
                              !.todo = task[x].todo \ {c}, !.who = c]
      BY <1>2
    <3>2. task' = [task EXCEPT ![x] = [task[x] EXCEPT
                     !.at = "requeue", !.charge = task[x].charge,
                     !.todo = task[x].todo \ {c}, !.who = c]]
      BY <1>1, <1>4, <2>2, <3>1 DEF Look, Remaining
    <3>3. c \in Client \cup {NoClient} /\ "requeue" \in {"settle", "requeue"}
      OBVIOUS
    <3> QED BY <1>2, <2>1, <3>2, <3>3, SettlingKeeps
  <2>3. CASE ~Present(c)
    <3>1. [task[x] EXCEPT !.todo = task[x].todo \ {c}]
            = [task[x] EXCEPT !.at = "settle", !.charge = task[x].charge,
                              !.todo = task[x].todo \ {c}, !.who = task[x].who]
      BY <1>2, <2>1
    <3>2. task' = [task EXCEPT ![x] = [task[x] EXCEPT
                     !.at = "settle", !.charge = task[x].charge,
                     !.todo = task[x].todo \ {c}, !.who = task[x].who]]
      BY <1>1, <1>4, <2>3, <3>1 DEF Look, Remaining
    <3> QED BY <1>2, <2>1, <3>2, SettlingKeeps
  <2> QED BY <2>2, <2>3
<1>5. CASE Requeue(x)
  <2>0. task[x].at = "requeue" /\ task[x].who \in Client
    BY <1>1, <1>5 DEF Requeue, Sane
  <2>1. /\ UNCHANGED <<conn, lobbyOf, hosted, rooms, offers>>
        /\ cool' \subseteq Account /\ tickets' \in [Client -> Nat]
    BY <1>5, <2>0 DEF Requeue, Gated, TypeOK
  <2>2. [task[x] EXCEPT !.at = "settle", !.who = NoClient]
          = [task[x] EXCEPT !.at = "settle", !.charge = task[x].charge,
                            !.todo = task[x].todo, !.who = NoClient]
    BY <1>2
  <2>3. task' = [task EXCEPT ![x] = [task[x] EXCEPT
                   !.at = "settle", !.charge = task[x].charge,
                   !.todo = task[x].todo, !.who = NoClient]]
    BY <1>1, <1>5, <2>2 DEF Requeue
  <2>4. NoClient \in Client \cup {NoClient} /\ "settle" \in {"settle", "requeue"}
    OBVIOUS
  <2> QED BY <1>2, <2>0, <2>1, <2>3, <2>4, SettlingKeeps
<1>6. CASE Settled(x)
  <2>1. x \in Client => conn[x] # "off"
    BY <1>6, Running DEF Settled
  <2> QED BY <1>6, <2>1, DoneSane, OnlyTaskMoves DEF Settled, Gated, TypeOK
<1> QED
  BY <1>3, <1>4, <1>5, <1>6 DEF SettleStep

LEMMA CooldownEndsKeeps == ASSUME Gated, NEW k \in Account, CooldownEnds(k) PROVE Gated'
<1>1. TypeOK'
  BY DEF CooldownEnds, Gated, TypeOK
<1>2. UNCHANGED <<conn, lobbyOf, rooms, offers, task>>
  BY DEF CooldownEnds
<1>3. OfferSettledOnce'
  BY <1>2 DEF Gated, OfferSettledOnce, Holds
<1>4. AccepterUncharged' /\ TwoAccounts' /\ MatchSeatsAgree' /\ RunningIsPresent'
  BY <1>2 DEF Gated, AccepterUncharged, TwoAccounts, MatchSeatsAgree, RunningIsPresent
<1>5. TasksOK'
  BY <1>2 DEF Gated, TasksOK, Holds
<1> QED
  BY <1>1, <1>3, <1>4, <1>5 DEF Gated

-----------------------------------------------------------------------------
(* Forming and starting a match *)

\* What form_match knows of the offer it has taken.
LEMMA Forming ==
  ASSUME Gated, NEW c \in Client, task[c].at \in {"form", "gone"}
  PROVE  /\ task[c].o \in Offer /\ task[c].o.m \in MatchId
         /\ AccountOf[task[c].o.a] # AccountOf[task[c].o.b]
         /\ rooms[task[c].o.m] = {}
         /\ \A o \in offers : o.m # task[c].o.m
         /\ \A x \in Actor : task[x].o.m = task[c].o.m => x = c
         /\ c \in Actor /\ c \notin MatchId /\ conn[c] # "off"
<1>0. c \in Actor
  BY DEF Actor
<1>1. Sane(c, task[c]) /\ c \in Actor
  BY <1>0, TaskType
<1>2. /\ task[c].o \in Offer /\ task[c].o.m \in MatchId
      /\ AccountOf[task[c].o.a] # AccountOf[task[c].o.b]
  BY <1>1, OfferFacts DEF Sane
<1>3. OfferSettledOnce
  BY DEF Gated
<1> QED
  BY <1>1, <1>2, <1>3, Running, AutomatchConstants DEF OfferSettledOnce, Holds

LEMMA FormGoneKeeps ==
  ASSUME Gated, NEW c \in Client, FormGone(c)
  PROVE  Gated'
<1> DEFINE t == [task[c] EXCEPT !.at = "gone"]
<1>1. /\ c \in Actor /\ conn[c] # "off" /\ task[c].at = "form"
      /\ task[c] \in Task /\ Sane(c, task[c]) /\ task \in [Actor -> Task]
  BY Forming, TaskType DEF FormGone, Gated, TypeOK
<1>2. /\ t \in Task /\ t.at = "gone" /\ t.o = task[c].o /\ t.charge = task[c].charge
  BY <1>1 DEF Task, Step
<1>3. task' = [task EXCEPT ![c] = t]
  BY <1>1 DEF FormGone
<1> HIDE DEF t
<1>4. Sane(c, t)
  BY <1>1, <1>2, AutomatchConstants DEF Sane
<1> QED
  BY <1>1, <1>2, <1>3, <1>4, OnlyTaskMoves DEF FormGone, Gated, TypeOK

LEMMA FormSurvivorKeeps ==
  ASSUME Gated, NEW c \in Client, FormSurvivor(c)
  PROVE  Gated'
<1> DEFINE o == task[c].o
<1>1. /\ o \in Offer /\ AccountOf[o.a] # AccountOf[o.b]
      /\ c \in Actor /\ c \notin MatchId /\ conn[c] # "off"
  BY Forming DEF FormSurvivor
<1>2. {survivor(o)} \in SUBSET Client
  BY <1>1, OfferFacts DEF survivor, gone, Other
<1>3. Sane(c, Settle(o, {}, {survivor(o)})) /\ Settle(o, {}, {survivor(o)}).o = o
  BY <1>1, <1>2, SettleSane
<1> QED
  BY <1>1, <1>3, OnlyTaskMoves DEF FormSurvivor, Gated, TypeOK

\* The room is built, seats both, and is handed to the task of the match.
LEMMA FormRoomKeeps ==
  ASSUME Gated, NEW c \in Client, FormRoom(c)
  PROVE  Gated'
<1> DEFINE o == task[c].o
           t == With("start", o)
<1>1. /\ task[c].at = "form" /\ \A d \in Sides(o) : Present(d)
      /\ rooms' = [rooms EXCEPT ![o.m] = Sides(o)]
      /\ lobbyOf' = [d \in Client |-> IF d \in Sides(o) THEN o.m ELSE lobbyOf[d]]
      /\ task' = [task EXCEPT ![c] = Idle, ![o.m] = t]
      /\ UNCHANGED <<conn, hosted, tickets, offers, cool>>
  BY DEF FormRoom
<1>2. /\ o \in Offer /\ o.m \in MatchId /\ AccountOf[o.a] # AccountOf[o.b]
      /\ rooms[o.m] = {}
      /\ \A p \in offers : p.m # o.m
      /\ \A x \in Actor : task[x].o.m = o.m => x = c
      /\ c \in Actor /\ c \notin MatchId
  BY <1>1, Forming
<1>3. Sides(o) \in SUBSET Client /\ o.m \in Actor /\ o.m # c /\ o.m \notin Client
  BY <1>2, OfferFacts, AutomatchConstants DEF Actor
<1>4. t \in Task /\ t.at = "start" /\ t.o = o /\ t.charge = {}
  <2>1. "start" \in Step /\ o \in Offer \cup {NoOffer} /\ {} \in SUBSET Client
    BY <1>2 DEF Step
  <2> HIDE DEF o
  <2> QED BY <2>1, WithFacts
<1>5. Sane(o.m, t) /\ Sane(c, Idle) /\ Idle.o = NoOffer /\ Idle.at = "idle"
  BY <1>2, <1>3, <1>4, IdleSane, AutomatchConstants DEF Sane
<1>6. task \in [Actor -> Task]
  BY DEF Gated, TypeOK
<1> HIDE DEF o, t
<1>7. /\ task' \in [Actor -> Task] /\ \A y \in Actor : Sane(y, task'[y])
      /\ task'[c] = Idle /\ task'[o.m] = t
      /\ \A y \in Actor : y # c /\ y # o.m => task'[y] = task[y]
  BY <1>1, <1>2, <1>3, <1>5, <1>6, SaneTasks DEF Sane
<1>8. TypeOK'
  BY <1>1, <1>2, <1>3, <1>7 DEF Gated, TypeOK
<1>9. AccepterUncharged' /\ TasksOK'
  BY <1>7 DEF AccepterUncharged, TasksOK, Sane, Holds
<1>10. \A y \in Actor, m \in MatchId :
         Holds(y, m)' => (y = o.m /\ m = o.m) \/ (Holds(y, m) /\ m # o.m)
  BY <1>2, <1>4, <1>5, <1>7, AutomatchConstants DEF Holds, NoOffer
<1>11. OfferSettledOnce'
  <2>1. OfferSettledOnce /\ \A p \in offers : p \in Offer /\ p.m \in MatchId
    BY DEF Gated, TypeOK, Offer
  <2>2. \A m \in MatchId : m # o.m => rooms'[m] = rooms[m]
    BY <1>1, <1>2 DEF Gated, TypeOK
  <2>3. o.m \notin Client \cup {Ticker} /\ Client \cup {Ticker} \subseteq Actor
    BY <1>2, <1>3, AutomatchConstants DEF Actor
  <2>4. \A p \in offers', y \in Actor : ~Holds(y, p.m)'
    BY <1>1, <1>2, <1>10, <2>1 DEF OfferSettledOnce
  <2>5. \A y, z \in Actor, m \in MatchId : Holds(y, m)' /\ Holds(z, m)' => y = z
    BY <1>10, <2>1 DEF OfferSettledOnce
  <2>6. \A p \in offers' : rooms'[p.m] = {}
    BY <1>1, <1>2, <2>1, <2>2 DEF OfferSettledOnce
  <2>7. \A y \in Client \cup {Ticker}, m \in MatchId : Holds(y, m)' => rooms'[m] = {}
    BY <1>10, <2>1, <2>2, <2>3 DEF OfferSettledOnce
  <2>8. \A p, q \in offers' : p.m = q.m => p = q
    BY <1>1, <2>1 DEF OfferSettledOnce
  <2> QED
    BY <2>4, <2>5, <2>6, <2>7, <2>8 DEF OfferSettledOnce, Holds
<1>12. TwoAccounts'
  <2>1. \A m \in MatchId, d, e \in Client :
          {d, e} \subseteq rooms'[m] /\ d # e => AccountOf[d] # AccountOf[e]
    BY <1>1, <1>2 DEF Gated, TypeOK, TwoAccounts, Sides
  <2> QED BY <1>1, <2>1 DEF Gated, TwoAccounts
<1>13. MatchSeatsAgree'
  BY <1>1, <1>2 DEF Gated, TypeOK, MatchSeatsAgree
<1>14. RunningIsPresent'
  <2> SUFFICES ASSUME NEW d \in Client, conn'[d] = "off"
               PROVE  task'[d].at = "idle" /\ lobbyOf'[d] = NoMatch
    BY DEF RunningIsPresent
  <2>1. task[d].at = "idle" /\ lobbyOf[d] = NoMatch /\ conn[d] = "off"
    BY <1>1 DEF Gated, RunningIsPresent
  <2>2. d \notin Sides(o) /\ d # o.m /\ d \in Actor
    BY <1>1, <1>3, <2>1 DEF Present, Actor
  <2> QED BY <1>1, <1>5, <1>7, <2>1, <2>2
<1> QED
  BY <1>8, <1>9, <1>11, <1>12, <1>13, <1>14 DEF Gated

\* The task of match m: its match runs, its room is gone, or no relay is proven.
LEMMA StartKeeps ==
  ASSUME Gated, NEW m \in MatchId, StartOk(m) \/ StartGone(m) \/ StartUnproven(m)
  PROVE  Gated'
<1>1. /\ m \in Actor /\ m \notin Client /\ task[m].at = "start"
      /\ task[m] \in Task /\ Sane(m, task[m]) /\ task \in [Actor -> Task]
  BY TaskType, AutomatchConstants DEF StartOk, StartGone, StartUnproven, Actor, Gated, TypeOK
<1>2. CASE StartOk(m) \/ StartGone(m)
  BY <1>1, <1>2, IdleSane, OnlyTaskMoves DEF StartOk, StartGone, Gated, TypeOK
<1>3. CASE StartUnproven(m)
  <2> DEFINE t == [task[m] EXCEPT !.at = "drop"]
  <2>1. t \in Task /\ t.at = "drop" /\ t.o = task[m].o /\ t.charge = task[m].charge
    BY <1>1 DEF Task, Step
  <2>2. task' = [task EXCEPT ![m] = t]
    BY <1>1, <1>3 DEF StartUnproven
  <2> HIDE DEF t
  <2>3. Sane(m, t)
    BY <1>1, <2>1, AutomatchConstants DEF Sane
  <2> QED
    BY <1>1, <1>3, <2>1, <2>2, <2>3, OnlyTaskMoves DEF StartUnproven, Gated, TypeOK
<1> QED BY <1>2, <1>3

-----------------------------------------------------------------------------
(* The theorems *)

LEMMA GatedInit == Init => Gated
<1> SUFFICES ASSUME Init PROVE Gated
  OBVIOUS
<1>1. task \in [Actor -> Task] /\ \A x \in Actor : Sane(x, task[x]) /\ task[x].o = NoOffer
                                                  /\ task[x].at = "idle"
  BY IdleSane DEF Init, Sane
<1>2. AccepterUncharged /\ TasksOK
  BY <1>1, SaneGated
<1>3. TypeOK
  BY <1>1 DEF Init, TypeOK
<1>4. OfferSettledOnce /\ TwoAccounts
  BY <1>1, AutomatchConstants DEF Init, OfferSettledOnce, Holds, NoOffer, TwoAccounts
<1>5. MatchSeatsAgree /\ RunningIsPresent
  BY <1>1, AutomatchConstants DEF Init, MatchSeatsAgree, RunningIsPresent, Actor
<1> QED BY <1>2, <1>3, <1>4, <1>5 DEF Gated

LEMMA GatedNext == Gated /\ [Next]_vars => Gated'
<1> SUFFICES ASSUME Gated, [Next]_vars PROVE Gated'
  OBVIOUS
<1> USE DEF Actor
<1>1. ASSUME NEW c \in Client, HandlerStep(c) PROVE Gated'
  <2>1. SettleStep(c) => Gated'
    BY SettleStepKeeps
  <2>2. Unqueue(c) => Gated'
    BY Running, RemovePlayerKeeps DEF Unqueue
  <2> QED
    BY <1>1, <2>1, <2>2, EnterSeatKeeps, QueueKeeps, FormRoomKeeps, FormGoneKeeps,
       FormSurvivorKeeps, LeaveKeeps, DestroyRoomKeeps, RemoveKeeps
    DEF HandlerStep
<1>2. ASSUME NEW c \in Client, ClientStep(c) PROVE Gated'
  <2>1. Cancel(c) => Gated'
    BY RemovePlayerKeeps DEF Cancel, Handles
  <2> QED
    BY <1>2, <2>1, ConnectKeeps, HangUpKeeps, QueueKeeps, EvictKeeps, LeaveKeeps,
       AcceptKeeps, DeclineKeeps
    DEF ClientStep
<1>3. ASSUME NEW m \in MatchId, StartStep(m) \/ ExpireMatch(m) PROVE Gated'
  BY <1>3, StartKeeps, DropRoomKeeps, SettleStepKeeps, ExpireKeeps DEF StartStep, ExpireMatch
<1>4. CASE SettleStep(Ticker)
  BY <1>4, SettleStepKeeps
<1>5. CASE UNCHANGED vars
  <2> USE <1>5 DEF vars
  <2>1. TypeOK' /\ AccepterUncharged' /\ TwoAccounts'
    BY DEF Gated, TypeOK, AccepterUncharged, TwoAccounts
  <2>2. OfferSettledOnce'
    BY DEF Gated, OfferSettledOnce, Holds
  <2>3. MatchSeatsAgree' /\ RunningIsPresent' /\ TasksOK'
    BY DEF Gated, MatchSeatsAgree, RunningIsPresent, TasksOK, Holds
  <2> QED BY <2>1, <2>2, <2>3 DEF Gated
<1> QED
  BY <1>1, <1>2, <1>3, <1>4, <1>5, PairKeeps, CooldownEndsKeeps DEF Next

\* What every holder of an offer may rely on after it has released the lock of
\* the queue: settle_declined, form_match, and the task that starts the match.
THEOREM GatedAlways == Spec => []Gated
BY GatedInit, GatedNext, PTL DEF Spec

\* Every structure of the queue and every handler keeps its shape.
THEOREM AutomatchTypes == Spec => []TypeOK
<1>1. Gated => TypeOK  BY DEF Gated
<1> QED BY <1>1, GatedAlways, PTL

\* An offer is dealt with once, whoever of two players, their cancels, their
\* closing sockets and the ticker takes it out of QueueInner.pending first.
THEOREM OfferSettledOnceAlways == Spec => []OfferSettledOnce
<1>1. Gated => OfferSettledOnce  BY DEF Gated
<1> QED BY <1>1, GatedAlways, PTL

\* Who had said yes is charged only by itself: settle_declined and take_expired.
THEOREM AccepterUnchargedAlways == Spec => []AccepterUncharged
<1>1. Gated => AccepterUncharged  BY DEF Gated
<1> QED BY <1>1, GatedAlways, PTL

\* find_pair never lets an account meet itself, and nothing later does.
THEOREM TwoAccountsAlways == Spec => []TwoAccounts
<1>1. Gated => TwoAccounts  BY DEF Gated
<1> QED BY <1>1, GatedAlways, PTL

\* A lobby_id that names a match's room is that of one seated there: form_match,
\* client_leave and destroy_lobby, each in a lock scope of its own.
THEOREM MatchSeatsAgreeAlways == Spec => []MatchSeatsAgree
<1>1. Gated => MatchSeatsAgree  BY DEF Gated
<1> QED BY <1>1, GatedAlways, PTL

-----------------------------------------------------------------------------
(* The queue implements AcceptGate *)

Busy == {"form", "gone", "start", "drop"}

\* The task of x makes a match of m.
Making(x, m) ==
  \/ x = m /\ task[x].at \in {"start", "drop"}
  \/ x \in Client /\ task[x].at \in {"form", "gone"} /\ Holds(x, m)

LEMMA MatchedMaking ==
  ASSUME NEW m \in MatchId
  PROVE  /\ Matched(m) <=> rooms[m] # {} \/ \E x \in Actor : Making(x, m)
         /\ Matched(m)' <=> rooms'[m] # {} \/ \E x \in Actor : Making(x, m)'
BY DEF Matched, Making, Actor, Holds

\* Who makes a match of m holds its offer; nobody else does, and the queue has
\* it no more.
LEMMA MakingHolds ==
  ASSUME Gated, NEW m \in MatchId
  PROVE  /\ \A x \in Actor : Making(x, m) => Holds(x, m)
         /\ \A x, y \in Actor : Holds(x, m) /\ Holds(y, m) => x = y
         /\ Open(m) # {} => ~Matched(m) /\ \A x \in Actor : ~Holds(x, m)
<1>1. \A x \in Actor : Making(x, m) => Holds(x, m)
  BY SaneTasks, OfferFacts DEF Making, Sane, Holds
<1>2. OfferSettledOnce
  BY DEF Gated
<1>3. Open(m) # {} => rooms[m] = {} /\ \A x \in Actor : ~Holds(x, m)
  BY <1>2 DEF OfferSettledOnce, Open
<1> QED BY <1>1, <1>2, <1>3, MatchedMaking DEF OfferSettledOnce

\* An offer of the queue is the only one of its match.
LEMMA OpenOffer ==
  ASSUME Gated, NEW o \in offers
  PROVE  /\ o.m \in MatchId /\ o \in Offer /\ Open(o.m) = {o}
         /\ \A k \in MatchId \ {o.m} : o \notin Open(k)
<1>1. \A p \in offers : p.m = o.m => p = o
  BY DEF Gated, OfferSettledOnce
<1>2. o \in Offer /\ o.m \in MatchId
  BY QueuedOffer, OfferFacts
<1> QED BY <1>1, <1>2 DEF Open

SameGate(m) == Open(m)' = Open(m) /\ (Matched(m)' <=> Matched(m))

\* What a step does to the gate of match m.
Offered(m) ==
  /\ Open(m) = {} /\ ~Matched(m)
  /\ \E c, d \in Client :
       c # d /\ Open(m)' = {[m |-> m, a |-> c, b |-> d, yes |-> {}]}

Answered(m) ==
  \E o \in Open(m), c \in Client :
    /\ Open(m) = {o} /\ c \in Sides(o) /\ o.yes = {} /\ o \in Offer
    /\ Open(m)' = {[o EXCEPT !.yes = {c}]}

Made(m) ==
  \E o \in Open(m), c \in Client :
    /\ Open(m) = {o} /\ c \in Sides(o) /\ o.yes = Sides(o) \ {c}
    /\ Open(m)' = {} /\ Matched(m)'

Ended(m) ==
  /\ Open(m) # {} \/ Matched(m)
  /\ Open(m)' = {} /\ ~Matched(m)'

GateChange ==
  \/ \A k \in MatchId : SameGate(k)
  \/ \E m \in MatchId :
       /\ \A k \in MatchId \ {m} : SameGate(k)
       /\ Offered(m) \/ Answered(m) \/ Made(m) \/ Ended(m)

\* A task that makes no match before or after its step, and leaves the offers.
LEMMA GateQuiet ==
  ASSUME NEW x \in Actor, offers' = offers, rooms' = rooms,
         \A y \in Actor \ {x} : task'[y] = task[y],
         task[x].at \notin Busy, task'[x].at \notin Busy
  PROVE  GateChange
<1>1. \A m \in MatchId, y \in Actor : Making(y, m)' <=> Making(y, m)
  BY DEF Making, Busy, Holds
<1>2. \A m \in MatchId : SameGate(m)
  BY <1>1, MatchedMaking DEF SameGate, Open
<1> QED BY <1>2 DEF GateChange

\* An offer falls: the task that takes it out makes no match.
LEMMA GateFall ==
  ASSUME Gated, NEW x \in Actor, NEW o \in offers, offers' = Taken(o), rooms' = rooms,
         \A y \in Actor \ {x} : task'[y] = task[y],
         task[x].at \notin Busy, task'[x].at \notin Busy
  PROVE  GateChange
<1>1. /\ o.m \in MatchId /\ Open(o.m) = {o}
      /\ \A k \in MatchId \ {o.m} : o \notin Open(k)
  BY OpenOffer
<1>2. \A k \in MatchId, y \in Actor : Making(y, k)' <=> Making(y, k)
  BY DEF Making, Busy, Holds
<1>3. \A k \in MatchId : Matched(k)' <=> Matched(k)
  BY <1>2, MatchedMaking
<1>4. Open(o.m)' = {} /\ \A k \in MatchId \ {o.m} : Open(k)' = Open(k)
  BY <1>1 DEF Open, Taken
<1>5. ~Matched(o.m)
  BY <1>1, MakingHolds
<1>6. Ended(o.m)
  BY <1>1, <1>3, <1>4, <1>5 DEF Ended
<1> QED BY <1>1, <1>3, <1>4, <1>6 DEF GateChange, SameGate

\* The task that makes a match of m gives it up, and m has no room then.
LEMMA GateEnd ==
  ASSUME Gated, NEW x \in Actor, NEW m \in MatchId, Making(x, m), offers' = offers,
         rooms'[m] = {}, \A k \in MatchId \ {m} : rooms'[k] = rooms[k],
         \A y \in Actor \ {x} : task'[y] = task[y], task'[x].at \notin Busy
  PROVE  GateChange
<1>1. Holds(x, m) /\ (\A y \in Actor : Making(y, m) => y = x) /\ Matched(m)
  BY MakingHolds, MatchedMaking
<1>2. \A k \in MatchId, y \in Actor \ {x} : Making(y, k)' <=> Making(y, k)
  BY DEF Making, Holds
<1>3. \A k \in MatchId : ~Making(x, k)'
  BY DEF Making, Busy
<1>4. \A k \in MatchId \ {m} : ~Making(x, k)
  BY <1>1, MakingHolds DEF Holds
<1>5. ~Matched(m)'
  BY <1>1, <1>2, <1>3, MatchedMaking
<1>6. \A k \in MatchId \ {m} : Matched(k)' <=> Matched(k)
  BY <1>2, <1>3, <1>4, MatchedMaking
<1>7. Open(m) = {} /\ \A k \in MatchId : Open(k)' = Open(k)
  BY <1>1, MakingHolds DEF Open
<1>8. Ended(m)
  BY <1>1, <1>5, <1>7 DEF Ended
<1> QED BY <1>6, <1>7, <1>8 DEF GateChange, SameGate

\* Where a task goes that ends or carries no offer.
LEMMA QuietPlaces ==
  /\ Idle.at = "idle" /\ \A x : Done(x).at \in {"idle", "leave"} /\ Left(x).at \in {"idle", "remove"}
  /\ \A o, charge, todo : Settle(o, charge, todo).at = "settle"
  /\ \A step, o : With(step, o).at = step /\ With(step, o).o = o
  /\ \A step, l : At(step).at = step /\ [At(step) EXCEPT !.lid = l].at = step
BY DEF Idle, Done, Left, Settle, With, At

\* The scopes of connections, hosted rooms and requests to queue.
LEMMA GateOfClients ==
  ASSUME Gated, NEW c \in Client,
         \/ Connect(c) \/ HangUp(c) \/ Remove(c) \/ EnterCheck(c) \/ EnterSeat(c)
         \/ EnterRefused(c) \/ Evict(c) \/ Leave(c) \/ QueueStart(c) \/ QueueAccount(c)
         \/ QueueCooldown(c) \/ QueueRoom(c) \/ QueueRefused(c) \/ QueuePush(c)
  PROVE  GateChange
<1>1. c \in Actor /\ task \in [Actor -> Task]
  BY DEF Actor, Gated, TypeOK
<1>2. UNCHANGED <<offers, rooms>>
  BY DEF Connect, HangUp, Remove, EnterCheck, EnterSeat, EnterRefused, Evict, Leave,
         QueueStart, QueueAccount, QueueCooldown, QueueRoom, QueueRefused, QueuePush
<1>3. CASE Connect(c) \/ Evict(c)
  BY <1>2, <1>3, MatchedMaking DEF Connect, Evict, GateChange, SameGate, Open, Matched, Holds
<1>4. CASE ~(Connect(c) \/ Evict(c))
  <2>1. task[c].at \notin Busy
    BY <1>4 DEF HangUp, Remove, EnterCheck, EnterSeat, EnterRefused, Leave, Handles, Busy,
           QueueStart, QueueAccount, QueueCooldown, QueueRoom, QueueRefused, QueuePush
  <2>2. \A y \in Actor \ {c} : task'[y] = task[y]
    BY <1>1, <1>4 DEF HangUp, Remove, EnterCheck, EnterSeat, EnterRefused, Leave,
           QueueStart, QueueAccount, QueueCooldown, QueueRoom, QueueRefused, QueuePush
  <2>3. task'[c].at \notin Busy
    <3>1. CASE Leave(c)
      <4>1. \/ task' = [task EXCEPT ![c] = [At("destroy") EXCEPT !.lid = lobbyOf[c]]]
            \/ task' = [task EXCEPT ![c] = Left(c)]
        BY <3>1 DEF Leave
      <4>2. /\ [At("destroy") EXCEPT !.lid = lobbyOf[c]].at = "destroy"
            /\ Left(c).at \in {"idle", "remove"}
        BY QuietPlaces
      <4> QED BY <1>1, <4>1, <4>2 DEF Busy
    <3>2. CASE ~Leave(c)
      <4>1. \E step \in {"unqueue", "idle", "enter", "q_account", "q_cooldown", "q_room", "q_push"} :
              task' = [task EXCEPT ![c] = At(step)]
        BY <1>4, <3>2 DEF HangUp, Remove, EnterCheck, EnterSeat, EnterRefused, Idle,
             QueueStart, QueueAccount, QueueCooldown, QueueRoom, QueueRefused, QueuePush
      <4>2. \A step : At(step).at = step
        BY QuietPlaces
      <4> QED BY <1>1, <4>1, <4>2 DEF Busy
    <3> QED BY <3>1, <3>2
  <2> QED BY <1>1, <1>2, <2>1, <2>2, <2>3, GateQuiet
<1> QED BY <1>3, <1>4

\* The scopes of a settlement.
LEMMA GateOfSettling ==
  ASSUME Gated, NEW x \in Actor, SettleStep(x)
  PROVE  GateChange
<1>1. task \in [Actor -> Task] /\ task[x] \in Task
  BY DEF Gated, TypeOK
<1>2. UNCHANGED <<offers, rooms>> /\ task[x].at \in {"settle", "requeue"}
  BY DEF SettleStep, Strike, Look, Requeue, Settled
<1>3. /\ \A y \in Actor \ {x} : task'[y] = task[y]
      /\ task'[x].at \in {"settle", "requeue", "idle", "leave"}
  <2>1. ASSUME NEW c \in Client, Strike(x, c)
        PROVE  /\ \A y \in Actor \ {x} : task'[y] = task[y]
               /\ task'[x].at \in {"settle", "requeue"}
    <3>1. [task[x] EXCEPT !.charge = @ \ {c}].at = task[x].at
      BY <1>1 DEF Task
    <3> QED BY <1>1, <1>2, <2>1, <3>1 DEF Strike
  <2>2. ASSUME NEW c \in Client, Look(x, c)
        PROVE  /\ \A y \in Actor \ {x} : task'[y] = task[y]
               /\ task'[x].at \in {"settle", "requeue"}
    <3> DEFINE rest == task[x].todo \ {c}
               t == [task[x] EXCEPT !.at = "requeue", !.who = c, !.todo = rest]
               u == [task[x] EXCEPT !.todo = rest]
    <3>1. t.at = "requeue" /\ u.at = task[x].at
      BY <1>1 DEF Task
    <3>2. task' = [task EXCEPT ![x] = t] \/ task' = [task EXCEPT ![x] = u]
      BY <1>1, <2>2 DEF Look, Remaining
    <3> HIDE DEF t, u
    <3> QED BY <1>1, <1>2, <3>1, <3>2
  <2>3. CASE Requeue(x)
    <3>1. [task[x] EXCEPT !.at = "settle", !.who = NoClient].at = "settle"
      BY <1>1 DEF Task
    <3> QED BY <1>1, <2>3, <3>1 DEF Requeue
  <2>4. CASE Settled(x)
    <3>1. Done(x).at \in {"idle", "leave"}
      BY QuietPlaces
    <3> QED BY <1>1, <2>4, <3>1 DEF Settled
  <2> QED BY <2>1, <2>2, <2>3, <2>4 DEF SettleStep
<1> QED BY <1>2, <1>3, GateQuiet DEF Busy

\* An offer is declined, cancelled or lapses.
LEMMA GateOfFalls ==
  ASSUME Gated
  PROVE  /\ \A c \in Client, o \in offers : Decline(c, o) => GateChange
         /\ \A c \in Client : Cancel(c) \/ Unqueue(c) => GateChange
         /\ \A o \in offers : Expire(o) => GateChange
<1>1. task \in [Actor -> Task] /\ Client \subseteq Actor /\ Ticker \in Actor
  BY DEF Actor, Gated, TypeOK
<1>2. ASSUME NEW x \in Actor, NEW o \in offers, offers' = Taken(o), rooms' = rooms, NEW charge,
             NEW todo, task' = [task EXCEPT ![x] = Settle(o, charge, todo)],
             task[x].at \in {"idle", "unqueue"}
      PROVE  GateChange
  <2>1. task'[x].at = "settle" /\ \A y \in Actor \ {x} : task'[y] = task[y]
    BY <1>1, <1>2, QuietPlaces
  <2> QED BY <1>2, <2>1, GateFall DEF Busy
<1>3. ASSUME NEW c \in Client, NEW o \in offers, Decline(c, o)
      PROVE  GateChange
  <2> DEFINE charge == {c}  todo == {Other(o, c)}
  <2>1. /\ task' = [task EXCEPT ![c] = Settle(o, charge, todo)] /\ offers' = Taken(o)
        /\ rooms' = rooms /\ task[c].at = "idle" /\ c \in Actor
    BY <1>1, <1>3 DEF Decline, Handles
  <2> HIDE DEF charge, todo
  <2> QED BY <1>2, <2>1
<1>4. ASSUME NEW c \in Client, Cancel(c) \/ Unqueue(c)
      PROVE  GateChange
  <2>1. task[c].at \in {"idle", "unqueue"} /\ remove_player(c) /\ rooms' = rooms /\ c \in Actor
    BY <1>1, <1>4 DEF Cancel, Unqueue, Handles, remove_player
  <2>2. CASE task' = [task EXCEPT ![c] = Done(c)] /\ offers' = offers
    <3>1. task'[c].at \in {"idle", "leave"} /\ \A y \in Actor \ {c} : task'[y] = task[y]
      BY <1>1, <2>1, <2>2, QuietPlaces
    <3> QED BY <2>1, <2>2, <3>1, GateQuiet DEF Busy
  <2>3. ASSUME NEW o \in OffersOf(c), offers' = Taken(o),
               task' = [task EXCEPT ![c] = Settle(o, {c}, {Other(o, c)})]
        PROVE  GateChange
    <3> DEFINE charge == {c}  todo == {Other(o, c)}
    <3>1. o \in offers /\ task' = [task EXCEPT ![c] = Settle(o, charge, todo)]
      BY <2>3 DEF OffersOf
    <3> HIDE DEF charge, todo
    <3> QED BY <1>2, <2>1, <2>3, <3>1
  <2> QED BY <2>1, <2>2, <2>3 DEF remove_player
<1>5. ASSUME NEW o \in offers, Expire(o)
      PROVE  GateChange
  <2> DEFINE charge == Lapsed(o)  todo == o.yes
  <2>1. /\ task' = [task EXCEPT ![Ticker] = Settle(o, charge, todo)] /\ offers' = Taken(o)
        /\ rooms' = rooms /\ task[Ticker].at = "idle"
    BY <1>5 DEF Expire
  <2> HIDE DEF charge, todo
  <2> QED BY <1>1, <1>2, <2>1
<1> QED BY <1>3, <1>4, <1>5

\* form_match with a room it cannot have, or without one of the players.
LEMMA GateOfForming ==
  ASSUME Gated, NEW c \in Client, FormRefused(c) \/ FormGone(c) \/ FormSurvivor(c)
  PROVE  GateChange
<1>1. /\ task \in [Actor -> Task] /\ task[c] \in Task /\ c \in Actor
      /\ task[c].o.m \in MatchId /\ rooms[task[c].o.m] = {} /\ task[c].at \in {"form", "gone"}
  BY Forming, TaskType DEF FormRefused, FormGone, FormSurvivor, Gated, TypeOK
<1>2. UNCHANGED <<offers, rooms>> /\ Making(c, task[c].o.m)
  BY <1>1 DEF FormRefused, FormGone, FormSurvivor, Making, Holds
<1>3. CASE FormRefused(c) \/ FormSurvivor(c)
  <2>1. \A y \in Actor \ {c} : task'[y] = task[y]
    BY <1>1, <1>3 DEF FormRefused, FormSurvivor
  <2>2. task'[c].at \in {"idle", "settle"}
    BY <1>1, <1>3, QuietPlaces DEF FormRefused, FormSurvivor
  <2> QED BY <1>1, <1>2, <2>1, <2>2, GateEnd DEF Busy
<1>4. CASE FormGone(c)
  <2>1. task'[c].at = "gone" /\ task'[c].o = task[c].o /\ task[c].at = "form"
    BY <1>1, <1>4 DEF FormGone, Task
  <2>2. \A y \in Actor \ {c} : task'[y] = task[y]
    BY <1>1, <1>4 DEF FormGone
  <2>3. \A m \in MatchId, y \in Actor : Making(y, m)' <=> Making(y, m)
    BY <2>1, <2>2 DEF Making, Holds
  <2>4. \A m \in MatchId : SameGate(m)
    BY <1>2, <2>3, MatchedMaking DEF SameGate, Open
  <2> QED BY <2>4 DEF GateChange
<1> QED BY <1>3, <1>4

\* form_match hands the match to its task, with its room.
LEMMA GateOfRoom ==
  ASSUME Gated, NEW c \in Client, FormRoom(c)
  PROVE  GateChange
<1>1. PICK o : o = task[c].o
  OBVIOUS
<1>2. /\ task[c].at = "form" /\ offers' = offers
      /\ rooms' = [rooms EXCEPT ![o.m] = Sides(o)]
      /\ task' = [task EXCEPT ![c] = Idle, ![o.m] = With("start", o)]
  BY <1>1 DEF FormRoom
<1>3. /\ o.m \in MatchId /\ c \in Actor /\ c \notin MatchId /\ o.m \in Actor /\ o.m # c
      /\ o.m \notin Client /\ \A x \in Actor : Holds(x, o.m) => x = c
      /\ task \in [Actor -> Task] /\ rooms \in [MatchId -> SUBSET Client]
  BY <1>1, <1>2, Forming, AutomatchConstants DEF Holds, Actor, Gated, TypeOK
<1>4. /\ rooms'[o.m] # {} /\ \A k \in MatchId \ {o.m} : rooms'[k] = rooms[k]
      /\ task'[c].at = "idle"
      /\ \A y \in Actor \ {c, o.m} : task'[y] = task[y]
  BY <1>2, <1>3, QuietPlaces DEF Sides
<1>5. Matched(o.m) /\ Matched(o.m)'
  <2>1. Making(c, o.m)
    BY <1>1, <1>2 DEF Making, Holds
  <2> QED BY <1>3, <1>4, <2>1, MatchedMaking
<1>6. ASSUME NEW k \in MatchId, k # o.m
      PROVE  Matched(k)' <=> Matched(k)
  <2>1. ~Making(c, k) /\ ~Making(c, k)' /\ ~Making(o.m, k) /\ ~Making(o.m, k)'
    BY <1>1, <1>3, <1>4, <1>6 DEF Making, Holds
  <2>2. \A y \in Actor \ {c, o.m} : Making(y, k)' <=> Making(y, k)
    BY <1>4 DEF Making, Holds
  <2> QED BY <1>4, <1>6, <2>1, <2>2, MatchedMaking
<1>7. \A k \in MatchId : SameGate(k)
  BY <1>2, <1>5, <1>6 DEF SameGate, Open
<1> QED BY <1>7 DEF GateChange

\* The task of match m: its match runs, or is given up.
LEMMA GateOfStart ==
  ASSUME Gated, NEW m \in MatchId,
         StartOk(m) \/ StartGone(m) \/ StartUnproven(m) \/ DropRoom(m)
  PROVE  GateChange
<1>1. /\ m \in Actor /\ m \notin Client /\ task \in [Actor -> Task] /\ task[m] \in Task
      /\ rooms \in [MatchId -> SUBSET Client] /\ task[m].at \in {"start", "drop"}
      /\ offers' = offers
  BY AutomatchConstants DEF StartOk, StartGone, StartUnproven, DropRoom, Actor, Gated, TypeOK
<1>2. Making(m, m)
  BY <1>1 DEF Making
<1>3. \A y \in Actor \ {m} : task'[y] = task[y]
  BY <1>1 DEF StartOk, StartGone, StartUnproven, DropRoom
<1>4. CASE StartGone(m)
  <2>1. task'[m].at = "idle" /\ rooms' = rooms /\ rooms[m] = {}
    BY <1>1, <1>4, QuietPlaces DEF StartGone
  <2> QED BY <1>1, <1>2, <1>3, <2>1, GateEnd DEF Busy
<1>5. CASE DropRoom(m)
  <2>1. /\ task'[m].at = "settle" /\ rooms'[m] = {}
        /\ \A k \in MatchId \ {m} : rooms'[k] = rooms[k]
    BY <1>1, <1>5, QuietPlaces DEF DropRoom, destroy_lobby
  <2> QED BY <1>1, <1>2, <1>3, <2>1, GateEnd DEF Busy
<1>6. CASE StartOk(m) \/ StartUnproven(m)
  <2>1. rooms' = rooms /\ rooms[m] # {}
    BY <1>6 DEF StartOk, StartUnproven
  <2>2. \A k \in MatchId \ {m} : ~Making(m, k) /\ ~Making(m, k)'
    BY <1>1 DEF Making
  <2>3. \A k \in MatchId, y \in Actor \ {m} : Making(y, k)' <=> Making(y, k)
    BY <1>3 DEF Making, Holds
  <2>4. \A k \in MatchId : Matched(k)' <=> Matched(k)
    BY <2>1, <2>2, <2>3, MatchedMaking
  <2>5. \A k \in MatchId : SameGate(k)
    BY <1>1, <2>4 DEF SameGate, Open
  <2> QED BY <2>5 DEF GateChange
<1> QED BY <1>4, <1>5, <1>6

\* The room of a match goes with the first of its players who does.
LEMMA GateOfDestroy ==
  ASSUME Gated, NEW c \in Client, DestroyRoom(c)
  PROVE  GateChange
<1>1. /\ c \in Actor /\ task \in [Actor -> Task] /\ Sane(c, task[c])
      /\ rooms \in [MatchId -> SUBSET Client]
  BY SaneTasks DEF Actor, Gated, TypeOK
<1>2. PICK l \in MatchId : l = task[c].lid
  BY <1>1 DEF Sane, DestroyRoom
<1>3. /\ offers' = offers /\ task[c].at = "destroy"
      /\ rooms'[l] = {} /\ \A k \in MatchId \ {l} : rooms'[k] = rooms[k]
      /\ \A y \in Actor \ {c} : task'[y] = task[y]
  BY <1>1, <1>2 DEF DestroyRoom, destroy_lobby
<1>4. task'[c].at \in {"idle", "remove"}
  BY <1>1, QuietPlaces DEF DestroyRoom
<1>5. \A k \in MatchId, y \in Actor : Making(y, k)' <=> Making(y, k)
  BY <1>3, <1>4 DEF Making, Holds
<1>6. \A k \in MatchId : Open(k)' = Open(k)
  BY <1>3 DEF Open
<1>7. \A k \in MatchId \ {l} : SameGate(k)
  BY <1>3, <1>5, <1>6, MatchedMaking DEF SameGate
<1>8. CASE Matched(l)' <=> Matched(l)
  BY <1>6, <1>7, <1>8 DEF GateChange, SameGate
<1>9. CASE ~(Matched(l)' <=> Matched(l))
  <2>1. Matched(l) /\ ~Matched(l)'
    BY <1>3, <1>5, <1>9, MatchedMaking
  <2>2. Ended(l)
    BY <1>6, <2>1, MakingHolds DEF Ended
  <2> QED BY <1>7, <2>2 DEF GateChange
<1> QED BY <1>8, <1>9

\* Two tickets become an offer.
LEMMA GateOfPair ==
  ASSUME Gated, NEW a \in Client, NEW b \in Client, NEW m \in MatchId, Pair(a, b, m)
  PROVE  GateChange
<1> DEFINE o == [m |-> m, a |-> a, b |-> b, yes |-> {}]
<1>1. /\ offers' = offers \cup {o} /\ UNCHANGED <<rooms, task>> /\ a # b /\ MatchIdFree(m)
  BY DEF Pair, Pairable
<1>2. \A k \in MatchId : Matched(k)' <=> Matched(k)
  BY <1>1 DEF Matched, Holds
<1>3. Open(m) = {} /\ Open(m)' = {o} /\ \A k \in MatchId \ {m} : Open(k)' = Open(k)
  BY <1>1 DEF MatchIdFree, Open
<1>4. ~Matched(m)
  BY <1>1 DEF MatchIdFree, Matched, Holds, Actor
<1>5. Offered(m)
  BY <1>1, <1>3, <1>4 DEF Offered
<1> QED BY <1>2, <1>3, <1>5 DEF GateChange, SameGate

\* A yes: the first, the second, or one said again.
LEMMA GateOfAccept ==
  ASSUME Gated, HalfAnswered, NEW c \in Client, NEW o \in offers, Accept(c, o)
  PROVE  GateChange
<1> DEFINE p == [o EXCEPT !.yes = @ \cup {c}]
<1>1. /\ o.m \in MatchId /\ o \in Offer /\ Open(o.m) = {o}
      /\ \A k \in MatchId \ {o.m} : o \notin Open(k)
  BY OpenOffer
<1>2. /\ c \in Sides(o) /\ rooms' = rooms /\ task[c].at = "idle" /\ c \in Actor
      /\ task \in [Actor -> Task]
  BY DEF Accept, Handles, OffersOf, Actor, Gated, TypeOK
<1>3. /\ p.m = o.m /\ p.yes = o.yes \cup {c} /\ Sides(p) = Sides(o)
      /\ o.yes \subseteq Sides(o) /\ o.yes # Sides(o)
  BY <1>1 DEF Offer, Sides, HalfAnswered, both_yes
<1>4. CASE both_yes(p)
  <2>1. offers' = Taken(o) /\ task' = [task EXCEPT ![c] = With("form", p)]
    BY <1>4 DEF Accept
  <2>2. o.yes = Sides(o) \ {c}
    BY <1>2, <1>3, <1>4 DEF both_yes, Sides
  <2> HIDE DEF p
  <2>3. /\ task'[c].at = "form" /\ task'[c].o = p
        /\ \A y \in Actor \ {c} : task'[y] = task[y]
    BY <1>2, <2>1, QuietPlaces
  <2>4. Open(o.m)' = {} /\ \A k \in MatchId \ {o.m} : Open(k)' = Open(k)
    BY <1>1, <2>1 DEF Open, Taken
  <2>5. Making(c, o.m)' /\ \A k \in MatchId \ {o.m} : ~Making(c, k)' /\ ~Making(c, k)
    BY <1>2, <1>3, <2>3, AutomatchConstants DEF Making, Holds
  <2>6. \A k \in MatchId, y \in Actor \ {c} : Making(y, k)' <=> Making(y, k)
    BY <2>3 DEF Making, Holds
  <2>7. Matched(o.m)' /\ \A k \in MatchId \ {o.m} : Matched(k)' <=> Matched(k)
    BY <1>1, <1>2, <2>5, <2>6, MatchedMaking
  <2>8. Made(o.m)
    BY <1>1, <1>2, <2>2, <2>4, <2>7 DEF Made
  <2> QED BY <1>1, <2>4, <2>7, <2>8 DEF GateChange, SameGate
<1>5. CASE ~both_yes(p)
  <2>1. offers' = (offers \ {o}) \cup {p} /\ task' = task
    BY <1>5 DEF Accept
  <2>2. \A k \in MatchId : Matched(k)' <=> Matched(k)
    BY <1>2, <2>1 DEF Matched, Holds
  <2>3. CASE c \in o.yes
    <3>1. p = o
      BY <1>1, <2>3 DEF Offer
    <3> HIDE DEF p
    <3>2. offers' = offers
      BY <2>1, <3>1
    <3> QED BY <2>2, <3>2 DEF GateChange, SameGate, Open
  <2>4. CASE c \notin o.yes
    <3>1. o.yes = {}
      BY <1>2, <1>3, <1>5, <2>4 DEF both_yes, Sides
    <3>2. p = [o EXCEPT !.yes = {c}]
      BY <1>1, <3>1 DEF Offer
    <3> HIDE DEF p
    <3>3. Open(o.m)' = {p} /\ \A k \in MatchId \ {o.m} : Open(k)' = Open(k)
      BY <1>1, <1>3, <2>1 DEF Open
    <3>4. Answered(o.m)
      BY <1>1, <1>2, <3>1, <3>2, <3>3 DEF Answered
    <3> QED BY <1>1, <2>2, <3>3, <3>4 DEF GateChange, SameGate
  <2> QED BY <2>3, <2>4
<1> QED BY <1>4, <1>5

\* What any step does to the gates of all matches.
LEMMA GateChanges ==
  ASSUME Gated, HalfAnswered, [Next]_vars
  PROVE  GateChange
<1> USE DEF Actor
<1>1. ASSUME NEW c \in Client, HandlerStep(c) PROVE GateChange
  BY <1>1, GateOfSettling, GateOfClients, GateOfFalls, GateOfForming, GateOfRoom, GateOfDestroy
  DEF HandlerStep
<1>2. ASSUME NEW c \in Client, ClientStep(c) PROVE GateChange
  BY <1>2, GateOfClients, GateOfFalls, GateOfAccept DEF ClientStep
<1>3. ASSUME NEW m \in MatchId, StartStep(m) \/ ExpireMatch(m) PROVE GateChange
  BY <1>3, GateOfStart, GateOfSettling, GateOfFalls DEF StartStep, ExpireMatch
<1>4. ASSUME UNCHANGED <<rooms, offers, task>> PROVE GateChange
  BY <1>4 DEF GateChange, SameGate, Open, Matched, Holds
<1>5. CASE UNCHANGED vars \/ \E k \in Account : CooldownEnds(k)
  BY <1>4, <1>5 DEF vars, CooldownEnds
<1> QED
  BY <1>1, <1>2, <1>3, <1>5, GateOfSettling, GateOfPair DEF Next

LEMMA HalfAnsweredStep ==
  ASSUME Gated, Gated', HalfAnswered, [Next]_vars
  PROVE  HalfAnswered'
<1> SUFFICES ASSUME NEW p \in offers' PROVE p.yes \subseteq Sides(p) /\ ~both_yes(p)
  BY DEF HalfAnswered
<1>1. p \in Offer /\ p.m \in MatchId /\ p \in Open(p.m)'
  BY OfferFacts DEF Gated, TypeOK, Open
<1>2. CASE SameGate(p.m) \/ Made(p.m) \/ Ended(p.m)
  BY <1>1, <1>2 DEF SameGate, Made, Ended, Open, HalfAnswered
<1>3. CASE Offered(p.m)
  BY <1>1, <1>3 DEF Offered, Sides, both_yes
<1>4. CASE Answered(p.m)
  <2>1. PICK o \in offers, c \in Client :
          c \in Sides(o) /\ o \in Offer /\ p = [o EXCEPT !.yes = {c}]
    BY <1>1, <1>4 DEF Answered, Open
  <2>2. p.yes = {c} /\ Sides(p) = Sides(o)
    BY <2>1 DEF Offer, Sides
  <2>3. o.a # o.b
    BY QueuedOffer
  <2> QED BY <2>1, <2>2, <2>3 DEF Sides, both_yes
<1> QED BY <1>1, <1>2, <1>3, <1>4, GateChanges DEF GateChange

\* Only the two players of an offer answer it, and one with both answers has
\* left the queue.
THEOREM HalfAnsweredAlways == Spec => []HalfAnswered
<1>1. Init => HalfAnswered
  BY DEF Init, HalfAnswered
<1> QED BY <1>1, HalfAnsweredStep, GatedAlways, PTL DEF Spec

\* What the gate shows of a match, before and after a step.
LEMMA BarFacts ==
  /\ phaseBar = [m \in MatchId |-> phaseBar[m]]
  /\ pairBar = [m \in MatchId |-> pairBar[m]]
  /\ saidBar = [m \in MatchId |-> saidBar[m]]
  /\ phaseBar' = [m \in MatchId |-> phaseBar'[m]]
  /\ pairBar' = [m \in MatchId |-> pairBar'[m]]
  /\ saidBar' = [m \in MatchId |-> saidBar'[m]]
  /\ \A m \in MatchId :
       /\ phaseBar[m] = IF Open(m) # {} THEN "open" ELSE IF Matched(m) THEN "matched" ELSE "over"
       /\ phaseBar'[m] = IF Open(m)' # {} THEN "open"
                         ELSE IF Matched(m)' THEN "matched" ELSE "over"
       /\ \A o : Open(m) = {o} => pairBar[m] = Sides(o) /\ saidBar[m] = o.yes
       /\ \A o : Open(m)' = {o} => pairBar'[m] = Sides(o) /\ saidBar'[m] = o.yes
       /\ Open(m) = {} => pairBar[m] = {} /\ saidBar[m] = {}
       /\ Open(m)' = {} => pairBar'[m] = {} /\ saidBar'[m] = {}
BY DEF phaseBar, pairBar, saidBar

\* A gate that is left alone looks the same.
LEMMA SameBars ==
  ASSUME NEW m \in MatchId, SameGate(m)
  PROVE  phaseBar'[m] = phaseBar[m] /\ pairBar'[m] = pairBar[m] /\ saidBar'[m] = saidBar[m]
BY DEF SameGate, phaseBar, pairBar, saidBar

\* A step of the queue is a step of the gate, or leaves it alone.
LEMMA GateRefines ==
  ASSUME Gated, GateChange
  PROVE  [Gate!Next]_(Gate!vars)
<1>1. CASE \A k \in MatchId : SameGate(k)
  <2>1. \A m \in MatchId :
          phaseBar'[m] = phaseBar[m] /\ pairBar'[m] = pairBar[m] /\ saidBar'[m] = saidBar[m]
    BY <1>1, SameBars
  <2>2. phaseBar' = phaseBar /\ pairBar' = pairBar /\ saidBar' = saidBar
    BY <2>1, BarFacts
  <2> QED BY <2>2 DEF Gate!vars
<1>2. ASSUME NEW m \in MatchId, \A k \in MatchId \ {m} : SameGate(k),
             Offered(m) \/ Answered(m) \/ Made(m) \/ Ended(m)
      PROVE  Gate!Next
  <2>0. ASSUME NEW ph, NEW pa, NEW sa,
               phaseBar'[m] = ph, pairBar'[m] = pa, saidBar'[m] = sa
        PROVE  /\ phaseBar' = [phaseBar EXCEPT ![m] = ph]
               /\ pairBar' = [pairBar EXCEPT ![m] = pa]
               /\ saidBar' = [saidBar EXCEPT ![m] = sa]
    <3>1. \A k \in MatchId \ {m} :
            phaseBar'[k] = phaseBar[k] /\ pairBar'[k] = pairBar[k] /\ saidBar'[k] = saidBar[k]
      BY <1>2, SameBars
    <3> QED BY <2>0, <3>1, BarFacts
  <2>00. /\ phaseBar = [phaseBar EXCEPT ![m] = phaseBar[m]]
         /\ pairBar = [pairBar EXCEPT ![m] = pairBar[m]]
         /\ saidBar = [saidBar EXCEPT ![m] = saidBar[m]]
    BY BarFacts
  <2>1. CASE Offered(m)
    <3>1. PICK c \in Client, d \in Client :
            /\ Open(m) = {} /\ ~Matched(m) /\ c # d
            /\ Open(m)' = {[m |-> m, a |-> c, b |-> d, yes |-> {}]}
      BY <2>1 DEF Offered
    <3>2. PICK o : o = [m |-> m, a |-> c, b |-> d, yes |-> {}]
      OBVIOUS
    <3>3. Open(m)' = {o} /\ Sides(o) = {c, d} /\ o.yes = {}
      BY <3>1, <3>2 DEF Sides
    <3>4. /\ phaseBar[m] = "over" /\ saidBar[m] = {}
          /\ phaseBar'[m] = "open" /\ pairBar'[m] = {c, d} /\ saidBar'[m] = {}
      BY <3>1, <3>3, BarFacts
    <3>5. /\ phaseBar' = [phaseBar EXCEPT ![m] = "open"]
          /\ pairBar' = [pairBar EXCEPT ![m] = {c, d}]
          /\ saidBar' = [saidBar EXCEPT ![m] = {}]
      BY <2>0, <3>4
    <3>6. saidBar' = saidBar
      BY <2>00, <3>4, <3>5
    <3>7. Gate!Offer(m, c, d)
      BY <3>1, <3>4, <3>5, <3>6 DEF Gate!Offer
    <3> QED BY <3>7 DEF Gate!Next
  <2>2. CASE Answered(m)
    <3>1. PICK o \in Open(m), c \in Client :
            /\ Open(m) = {o} /\ c \in Sides(o) /\ o.yes = {} /\ o \in Offer
            /\ Open(m)' = {[o EXCEPT !.yes = {c}]}
      BY <2>2 DEF Answered
    <3>2. PICK p : p = [o EXCEPT !.yes = {c}]
      OBVIOUS
    <3>3. Open(m)' = {p} /\ Sides(p) = Sides(o) /\ p.yes = {c}
      BY <3>1, <3>2 DEF Sides, Offer
    <3>4. /\ phaseBar[m] = "open" /\ pairBar[m] = Sides(o) /\ saidBar[m] = {}
          /\ phaseBar'[m] = "open" /\ pairBar'[m] = Sides(o) /\ saidBar'[m] = {c}
      BY <3>1, <3>3, BarFacts
    <3>5. /\ phaseBar' = [phaseBar EXCEPT ![m] = "open"]
          /\ pairBar' = [pairBar EXCEPT ![m] = Sides(o)]
          /\ saidBar' = [saidBar EXCEPT ![m] = {c}]
      BY <2>0, <3>4
    <3>6. phaseBar' = phaseBar /\ pairBar' = pairBar
      BY <2>00, <3>4, <3>5
    <3>7. Gate!Say(m, c)
      BY <3>1, <3>4, <3>5, <3>6 DEF Gate!Say
    <3> QED BY <3>7 DEF Gate!Next
  <2>3. CASE Made(m)
    <3>1. PICK o \in Open(m), c \in Client :
            /\ Open(m) = {o} /\ c \in Sides(o) /\ o.yes = Sides(o) \ {c}
            /\ Open(m)' = {} /\ Matched(m)'
      BY <2>3 DEF Made
    <3>2. /\ phaseBar[m] = "open" /\ pairBar[m] = Sides(o) /\ saidBar[m] = Sides(o) \ {c}
          /\ phaseBar'[m] = "matched" /\ pairBar'[m] = {} /\ saidBar'[m] = {}
      BY <3>1, BarFacts
    <3>3. Gate!Match(m, c)
      BY <2>0, <3>1, <3>2 DEF Gate!Match, Gate!Finish
    <3> QED BY <3>3 DEF Gate!Next
  <2>4. CASE Ended(m)
    <3>1. /\ phaseBar[m] \in {"open", "matched"}
          /\ phaseBar'[m] = "over" /\ pairBar'[m] = {} /\ saidBar'[m] = {}
      BY <2>4, BarFacts DEF Ended
    <3>2. Gate!Finish(m, "over")
      BY <2>0, <3>1 DEF Gate!Finish
    <3>3. Gate!Fall(m) \/ Gate!End(m)
      BY <3>1, <3>2 DEF Gate!Fall, Gate!End
    <3> QED BY <3>3 DEF Gate!Next
  <2> QED BY <1>2, <2>1, <2>2, <2>3, <2>4
<1> QED BY <1>1, <1>2 DEF GateChange

\* Nothing but the two acceptances of one open offer makes a match, and an offer
\* that fell makes none, whatever the players, their sockets, the ticker and the
\* tasks that settle and start do in between.
THEOREM ImplementsAcceptGateAlways == Spec => ImplementsAcceptGate
<1>1. Init => Gate!Init
  BY AutomatchConstants, IdleSane
  DEF Init, Gate!Init, phaseBar, pairBar, saidBar, Open, Matched, Actor
<1>2. Gated /\ HalfAnswered /\ [Next]_vars => [Gate!Next]_(Gate!vars)
  BY GateChanges, GateRefines
<1> QED BY <1>1, <1>2, GatedAlways, HalfAnsweredAlways, PTL
        DEF Spec, ImplementsAcceptGate, Gate!Spec

-----------------------------------------------------------------------------
(* No ticket is put back twice: TicketLedger *)

\* What a task has in hand: nothing outside a match in the making or a settlement,
\* and whoever it has found connected is looked up no more.
InHandOK(t) ==
  /\ t.at \in {"settle", "requeue"} => t.o \in Offer
  /\ t.at \notin {"settle", "requeue"} => t.todo = {}
  /\ t.at # "requeue" => t.who = NoClient
  /\ t.at = "requeue" => t.who \notin t.todo

\* The inductive invariant of tickets, beyond Gated.
InHandSound == \A x \in Actor : InHandOK(task[x])

\* Task t has the ticket of c that is out for m.
Bears(t, c, m) == t.o.m = m /\ c \in InHand(t)

LedgerStep == InHandSound' /\ [Ledger!Next]_(Ledger!vars)

LEMMA OutFacts ==
  /\ outBar \subseteq Client \X MatchId /\ outBar' \subseteq Client \X MatchId
  /\ \A c \in Client, m \in MatchId :
       /\ <<c, m>> \in outBar <=> \/ \E o \in offers : o.m = m /\ c \in Sides(o)
                                \/ \E x \in Actor : Bears(task[x], c, m)
       /\ <<c, m>> \in outBar' <=> \/ \E o \in offers' : o.m = m /\ c \in Sides(o)
                                 \/ \E x \in Actor : Bears(task'[x], c, m)
BY DEF outBar, Bears, Holds

\* Tickets may go at any time.
LEMMA OutShrinks ==
  ASSUME outBar' \subseteq outBar, UNCHANGED tickets
  PROVE  Ledger!Next
<1> DEFINE S == outBar \ outBar'
<1>1. S \in SUBSET (Client \X MatchId) /\ outBar' = outBar \ S
  BY OutFacts
<1>2. askingBar' \in SUBSET Client
  BY DEF askingBar
<1>3. Ledger!Spend(S)
  BY <1>1, <1>2 DEF Ledger!Spend
<1> QED
  BY <1>1, <1>3 DEF Ledger!Next

\* One task moves on and has no more in hand than before.
LEMMA HandShrinks ==
  ASSUME Gated, InHandSound, NEW x \in Actor, NEW t, task' = [task EXCEPT ![x] = t],
         InHandOK(t), UNCHANGED offers,
         \A c \in Client, m \in MatchId : Bears(t, c, m) => Bears(task[x], c, m)
  PROVE  InHandSound' /\ outBar' \subseteq outBar
<1>1. /\ task'[x] = t /\ \A y \in Actor \ {x} : task'[y] = task[y]
  BY DEF Gated, TypeOK
<1>2. InHandSound'
  BY <1>1 DEF InHandSound
<1>3. ASSUME NEW c \in Client, NEW m \in MatchId, <<c, m>> \in outBar'
      PROVE  <<c, m>> \in outBar
  BY <1>1, <1>3, OutFacts
<1> QED
  BY <1>2, <1>3, OutFacts

\* A task takes an offer out of the queue, and has no more than it in hand.
LEMMA HandTakes ==
  ASSUME Gated, InHandSound, NEW x \in Actor, NEW t, task' = [task EXCEPT ![x] = t],
         InHandOK(t), NEW o \in offers, offers' = Taken(o),
         t.o.m = o.m, InHand(t) \subseteq Sides(o)
  PROVE  InHandSound' /\ outBar' \subseteq outBar
<1>1. /\ task'[x] = t /\ \A y \in Actor \ {x} : task'[y] = task[y]
  BY DEF Gated, TypeOK
<1>2. InHandSound'
  BY <1>1 DEF InHandSound
<1>3. ASSUME NEW c \in Client, NEW m \in MatchId, <<c, m>> \in outBar'
      PROVE  <<c, m>> \in outBar
  BY <1>1, <1>3, OutFacts DEF Taken, Bears
<1> QED
  BY <1>2, <1>3, OutFacts

\* What tasks have in hand when they begin, end, make a match or settle an offer.
LEMMA EmptyHands ==
  /\ \A step \in Step \ {"form", "gone", "start", "drop", "settle", "requeue"} :
       \A l \in MatchId \cup {NoMatch} :
         LET t == [At(step) EXCEPT !.lid = l] IN
         InHandOK(t) /\ InHandOK(At(step)) /\ InHand(t) = {} /\ InHand(At(step)) = {}
  /\ \A x : InHandOK(Done(x)) /\ InHand(Done(x)) = {}
  /\ \A x : InHandOK(Left(x)) /\ InHand(Left(x)) = {}
  /\ InHandOK(Idle) /\ InHand(Idle) = {}
<1>1. ASSUME NEW step \in Step \ {"form", "gone", "start", "drop", "settle", "requeue"},
             NEW l \in MatchId \cup {NoMatch}
      PROVE  LET t == [At(step) EXCEPT !.lid = l] IN
             InHandOK(t) /\ InHandOK(At(step)) /\ InHand(t) = {} /\ InHand(At(step)) = {}
  BY DEF At, InHandOK, InHand
<1>2. \A step \in {"idle", "leave", "remove"} : InHandOK(At(step)) /\ InHand(At(step)) = {}
  BY DEF At, InHandOK, InHand
<1> QED
  BY <1>1, <1>2 DEF Done, Left, Idle

LEMMA FullHands ==
  ASSUME NEW o \in Offer, NEW charge \in SUBSET Client, NEW todo \in SUBSET Client
  PROVE  /\ InHandOK(Settle(o, charge, todo)) /\ InHand(Settle(o, charge, todo)) = todo
         /\ Settle(o, charge, todo).o = o
         /\ \A step \in {"form", "start"} :
              /\ InHandOK(With(step, o)) /\ InHand(With(step, o)) = Sides(o)
              /\ With(step, o).o = o
<1>1. \A step : With(step, o) = [at |-> step, o |-> o, charge |-> {}, todo |-> {},
                                who |-> NoClient, lid |-> NoMatch]
  BY DEF With, At
<1>2. LET t == Settle(o, charge, todo) IN
      t.at = "settle" /\ t.o = o /\ t.todo = todo /\ t.who = NoClient
  BY DEF Settle, With, At
<1> QED
  BY <1>1, <1>2, AutomatchConstants DEF InHandOK, InHand

\* A task that ends with nothing in hand.
LEMMA HandsEmpty ==
  ASSUME Gated, InHandSound, NEW x \in Actor, NEW t, task' = [task EXCEPT ![x] = t],
         InHandOK(t), InHand(t) = {}, UNCHANGED <<offers, tickets>>
  PROVE  LedgerStep
<1>1. \A c \in Client, m \in MatchId : Bears(t, c, m) => Bears(task[x], c, m)
  BY DEF Bears
<1>2. InHandSound' /\ outBar' \subseteq outBar
  BY <1>1, HandShrinks
<1> QED BY <1>2, OutShrinks DEF LedgerStep

\* The steps that leave tasks, tickets and offers alone.
LEMMA LedgerRests ==
  ASSUME InHandSound, UNCHANGED <<offers, tickets, task>>
  PROVE  LedgerStep
<1>1. InHandSound'
  BY DEF InHandSound
<1>2. outBar' \subseteq outBar
  BY DEF outBar, Holds
<1> QED BY <1>1, <1>2, OutShrinks DEF LedgerStep

\* Connections, rooms, the gates of the queue, and the tasks that end there.
LEMMA LedgerOfClients ==
  ASSUME Gated, InHandSound, NEW c \in Client,
         \/ Connect(c) \/ HangUp(c) \/ Remove(c) \/ EnterCheck(c) \/ EnterSeat(c)
         \/ EnterRefused(c) \/ Evict(c) \/ Leave(c) \/ DestroyRoom(c) \/ QueueStart(c)
         \/ QueueAccount(c) \/ QueueCooldown(c) \/ QueueRoom(c) \/ QueueRefused(c)
         \/ FormRefused(c)
  PROVE  LedgerStep
<1>0. c \in Actor
  BY DEF Actor
<1>1. CASE Connect(c) \/ Evict(c)
  BY <1>1, LedgerRests DEF Connect, Evict
<1>2. CASE Leave(c)
  <2>1. UNCHANGED <<offers, tickets>>
    BY <1>2 DEF Leave
  <2>2. CASE lobbyOf[c] \in MatchId
    <3> DEFINE t == [At("destroy") EXCEPT !.lid = lobbyOf[c]]
    <3>1. InHandOK(t) /\ InHand(t) = {}
      BY <2>2, EmptyHands DEF Step
    <3>2. task' = [task EXCEPT ![c] = t]
      BY <1>2, <2>2 DEF Leave
    <3> HIDE DEF t
    <3> QED BY <1>0, <2>1, <3>1, <3>2, HandsEmpty
  <2>3. CASE lobbyOf[c] \notin MatchId
    <3>1. task' = [task EXCEPT ![c] = Left(c)]
      BY <1>2, <2>3 DEF Leave
    <3> QED BY <1>0, <2>1, <3>1, EmptyHands, HandsEmpty
  <2> QED BY <2>2, <2>3
<1>3. CASE DestroyRoom(c)
  BY <1>0, <1>3, EmptyHands, HandsEmpty DEF DestroyRoom
<1>4. CASE ~(Connect(c) \/ Evict(c) \/ Leave(c) \/ DestroyRoom(c))
  <2>1. /\ UNCHANGED <<offers, tickets>>
        /\ \E step \in {"unqueue", "idle", "enter", "q_account", "q_cooldown", "q_room", "q_push"} :
              task' = [task EXCEPT ![c] = At(step)]
    BY <1>4 DEF HangUp, Remove, EnterCheck, EnterSeat, EnterRefused, Idle, QueueStart,
         QueueAccount, QueueCooldown, QueueRoom, QueueRefused, FormRefused
  <2>2. PICK step \in {"unqueue", "idle", "enter", "q_account", "q_cooldown", "q_room", "q_push"} :
           task' = [task EXCEPT ![c] = At(step)]
    BY <2>1
  <2>3. InHandOK(At(step)) /\ InHand(At(step)) = {}
    BY EmptyHands DEF Step
  <2> QED BY <1>0, <2>1, <2>2, <2>3, HandsEmpty
<1> QED BY <1>1, <1>2, <1>3, <1>4

\* A request gets its ticket.
LEMMA LedgerOfPush ==
  ASSUME Gated, InHandSound, NEW c \in Client, QueuePush(c)
  PROVE  LedgerStep
<1>0. c \in Actor /\ task \in [Actor -> Task] /\ Client \subseteq Actor
  BY DEF Actor, Gated, TypeOK
<1>1. /\ task[c].at = "q_push" /\ task' = [task EXCEPT ![c] = Idle]
      /\ tickets' = [tickets EXCEPT ![c] = @ + 1] /\ offers' = offers
  BY DEF QueuePush
<1>2. InHandOK(Idle) /\ InHand(Idle) = {}
  BY EmptyHands
<1>3. InHandSound' /\ outBar' \subseteq outBar
  <2>1. \A d \in Client, m \in MatchId : Bears(Idle, d, m) => Bears(task[c], d, m)
    BY <1>2 DEF Bears
  <2> QED BY <1>0, <1>1, <1>2, <2>1, HandShrinks
<1>4. outBar \subseteq outBar'
  <2>1. InHand(task[c]) = {}
    BY <1>0, <1>1 DEF InHandSound, InHandOK, InHand
  <2>2. \A x \in Actor : x # c => task'[x] = task[x]
    BY <1>0, <1>1
  <2> SUFFICES ASSUME NEW d \in Client, NEW m \in MatchId, <<d, m>> \in outBar
               PROVE <<d, m>> \in outBar'
    BY OutFacts
  <2> QED BY <1>1, <2>1, <2>2, OutFacts DEF Bears
<1>5. c \in askingBar /\ askingBar' = askingBar \ {c}
  <2>1. Idle.at = "idle"
    BY QuietPlaces
  <2>2. task'[c] = Idle /\ \A d \in Client \ {c} : task'[d] = task[d]
    BY <1>0, <1>1
  <2> QED BY <1>1, <2>1, <2>2 DEF askingBar
<1>6. Ledger!Enqueue(c)
  BY <1>1, <1>3, <1>4, <1>5 DEF Ledger!Enqueue
<1> QED BY <1>3, <1>6 DEF Ledger!Next, LedgerStep

\* The scopes of a settlement but one put nobody back.
LEMMA LedgerOfSettling ==
  ASSUME Gated, InHandSound, NEW x \in Actor,
         (\E c \in Client : Strike(x, c) \/ Look(x, c)) \/ Settled(x)
  PROVE  LedgerStep
<1>1. task[x] \in Task /\ InHandOK(task[x])
  BY TaskType DEF InHandSound
<1>2. ASSUME NEW t, task' = [task EXCEPT ![x] = t], InHandOK(t), UNCHANGED <<offers, tickets>>,
             t.o = task[x].o, InHand(t) \subseteq InHand(task[x])
      PROVE  LedgerStep
  <2>1. \A c \in Client, m \in MatchId : Bears(t, c, m) => Bears(task[x], c, m)
    BY <1>2 DEF Bears
  <2>2. InHandSound' /\ outBar' \subseteq outBar
    BY <1>2, <2>1, HandShrinks
  <2> QED BY <1>2, <2>2, OutShrinks DEF LedgerStep
<1>3. ASSUME NEW c \in Client, Strike(x, c) PROVE LedgerStep
  <2> DEFINE t == [task[x] EXCEPT !.charge = @ \ {c}]
  <2>1. /\ task' = [task EXCEPT ![x] = t] /\ UNCHANGED <<offers, tickets>>
        /\ task \in [Actor -> Task]
    BY <1>3 DEF Strike, Gated, TypeOK
  <2>2. /\ t.at = task[x].at /\ t.o = task[x].o
        /\ t.todo = task[x].todo /\ t.who = task[x].who
    BY <1>1 DEF Task
  <2> HIDE DEF t
  <2>3. InHandOK(t) /\ InHand(t) = InHand(task[x])
    BY <1>1, <2>2 DEF InHandOK, InHand
  <2> QED BY <1>2, <2>1, <2>2, <2>3
<1>4. ASSUME NEW c \in Client, Look(x, c) PROVE LedgerStep
  <2> DEFINE rest == task[x].todo \ {c}
             t == [task[x] EXCEPT !.at = "requeue", !.who = c, !.todo = rest]
             u == [task[x] EXCEPT !.todo = rest]
  <2>1. /\ task' = [task EXCEPT ![x] = t] \/ task' = [task EXCEPT ![x] = u]
        /\ UNCHANGED <<offers, tickets>> /\ task[x].at = "settle" /\ c \in task[x].todo
    BY <1>4 DEF Look, Remaining, Gated, TypeOK
  <2>2. /\ t.at = "requeue" /\ t.o = task[x].o /\ t.todo = rest /\ t.who = c
        /\ u.at = task[x].at /\ u.o = task[x].o /\ u.todo = rest /\ u.who = task[x].who
    BY <1>1 DEF Task
  <2> HIDE DEF t, u
  <2>3. task[x].who = NoClient /\ task[x].o \in Offer
    BY <1>1, <2>1 DEF InHandOK
  <2>4. InHandOK(t) /\ InHand(t) \subseteq InHand(task[x])
    BY <2>1, <2>2, <2>3, AutomatchConstants DEF InHandOK, InHand
  <2>5. InHandOK(u) /\ InHand(u) \subseteq InHand(task[x])
    BY <2>1, <2>2, <2>3 DEF InHandOK, InHand
  <2> QED BY <1>2, <2>1, <2>2, <2>4, <2>5
<1>5. CASE Settled(x)
  <2>1. task' = [task EXCEPT ![x] = Done(x)] /\ UNCHANGED <<offers, tickets>>
    BY <1>5 DEF Settled
  <2> QED BY <2>1, EmptyHands, HandsEmpty
<1> QED BY <1>3, <1>4, <1>5

\* An offer is with one task, and no longer in the queue.
LEMMA OneBearer ==
  ASSUME Gated, NEW x \in Actor, task[x].o \in Offer
  PROVE  /\ task[x].o.m \in MatchId
         /\ \A o \in offers : o.m # task[x].o.m
         /\ \A y \in Actor : task[y].o.m = task[x].o.m => y = x
<1>1. task[x].o.m \in MatchId /\ OfferSettledOnce
  BY OfferFacts DEF Gated
<1> QED
  BY <1>1 DEF OfferSettledOnce, Holds

\* Who was found connected is put back, and is not to be put back again.
LEMMA LedgerOfRequeue ==
  ASSUME Gated, InHandSound, NEW x \in Actor, Requeue(x)
  PROVE  LedgerStep
<1> DEFINE c == task[x].who
           m == task[x].o.m
           t == [task[x] EXCEPT !.at = "settle", !.who = NoClient]
<1>1. /\ task[x].at = "requeue" /\ offers' = offers
      /\ tickets' = [tickets EXCEPT ![c] = @ + 1]
      /\ task' = [task EXCEPT ![x] = t] /\ task \in [Actor -> Task]
  BY DEF Requeue, Gated, TypeOK
<1>2. task[x] \in Task /\ Sane(x, task[x]) /\ InHandOK(task[x])
  BY TaskType DEF InHandSound
<1>3. /\ t.at = "settle" /\ t.o = task[x].o /\ t.todo = task[x].todo /\ t.who = NoClient
  BY <1>2 DEF Task
<1>4. /\ c \in Client /\ c \notin task[x].todo /\ task[x].o \in Offer
  BY <1>1, <1>2 DEF Sane, InHandOK
<1>5. /\ m \in MatchId
      /\ \A o \in offers : o.m # m
      /\ \A y \in Actor : task[y].o.m = m => y = x
  BY <1>4, OneBearer
<1> HIDE DEF t
<1>6. task'[x] = t /\ \A y \in Actor \ {x} : task'[y] = task[y]
  BY <1>1
<1>7. InHandOK(t) /\ InHand(t) = task[x].todo /\ InHand(task[x]) = task[x].todo \cup {c}
  BY <1>1, <1>2, <1>3, <1>4, AutomatchConstants DEF InHandOK, InHand
<1>8. InHandSound'
  BY <1>6, <1>7 DEF InHandSound
<1>9. outBar' = outBar \ {<<c, m>>} /\ <<c, m>> \in outBar
  <2>1. <<c, m>> \in outBar
    BY <1>4, <1>5, <1>7, OutFacts DEF Bears
  <2>2. ASSUME NEW d \in Client, NEW k \in MatchId
        PROVE  <<d, k>> \in outBar' <=> <<d, k>> \in outBar /\ ~(d = c /\ k = m)
    <3>1. CASE k # m
      <4>1. \A y \in Actor : Bears(task'[y], d, k) <=> Bears(task[y], d, k)
        BY <1>3, <1>6, <3>1 DEF Bears
      <4> QED BY <1>1, <3>1, <4>1, OutFacts
    <3>2. CASE k = m
      <4>1. \A y \in Actor : Bears(task[y], d, k) <=> y = x /\ d \in task[x].todo \cup {c}
        BY <1>5, <1>7, <3>2 DEF Bears
      <4>2. \A y \in Actor : Bears(task'[y], d, k) <=> y = x /\ d \in task[x].todo
        BY <1>3, <1>5, <1>6, <1>7, <3>2 DEF Bears
      <4> QED BY <1>1, <1>4, <1>5, <3>2, <4>1, <4>2, OutFacts
    <3> QED BY <3>1, <3>2
  <2> HIDE DEF c, m
  <2>3. outBar' \subseteq Client \X MatchId /\ outBar \subseteq Client \X MatchId
    BY OutFacts
  <2> QED BY <2>1, <2>2, <2>3
<1>10. askingBar' = askingBar
  <2>1. t.at = "settle" /\ task[x].at = "requeue"
    BY <1>1, <1>3
  <2> QED BY <1>6, <2>1 DEF askingBar, Actor
<1>11. Ledger!PutBack(c, m)
  BY <1>1, <1>9, <1>10 DEF Ledger!PutBack
<1> QED BY <1>4, <1>5, <1>8, <1>11 DEF Ledger!Next, LedgerStep

\* An offer is declined, cancelled or lapses, and some of its players are to be
\* put back.
LEMMA LedgerOfFalls ==
  ASSUME Gated, HalfAnswered, InHandSound
  PROVE  /\ \A c \in Client, o \in offers : Decline(c, o) => LedgerStep
         /\ \A c \in Client : Cancel(c) \/ Unqueue(c) => LedgerStep
         /\ \A o \in offers : Expire(o) => LedgerStep
<1>1. ASSUME NEW x \in Actor, NEW o \in offers, offers' = Taken(o), NEW charge \in SUBSET Client,
             NEW todo \in SUBSET Sides(o), task' = [task EXCEPT ![x] = Settle(o, charge, todo)]
      PROVE  InHandSound' /\ outBar' \subseteq outBar
  <2>1. o \in Offer /\ todo \in SUBSET Client
    BY QueuedOffer, OfferFacts
  <2>2. /\ InHandOK(Settle(o, charge, todo)) /\ InHand(Settle(o, charge, todo)) = todo
        /\ Settle(o, charge, todo).o = o
    BY <2>1, FullHands
  <2> QED BY <1>1, <2>2, HandTakes
<1>2. ASSUME NEW c \in Client, NEW o \in offers, c \in Sides(o)
      PROVE  /\ c \in Actor /\ {c} \in SUBSET Client /\ {Other(o, c)} \in SUBSET Sides(o)
  BY DEF Actor, Other, Sides
<1>3. ASSUME NEW c \in Client, NEW o \in offers, Decline(c, o)
      PROVE  LedgerStep
  <2>1. /\ offers' = Taken(o) /\ tickets' = tickets /\ c \in Sides(o)
        /\ task' = [task EXCEPT ![c] = Settle(o, {c}, {Other(o, c)})]
    BY <1>3 DEF Decline, OffersOf
  <2>2. InHandSound' /\ outBar' \subseteq outBar
    BY <1>1, <1>2, <2>1
  <2> QED BY <2>1, <2>2, OutShrinks DEF LedgerStep
<1>4. ASSUME NEW c \in Client, Cancel(c) \/ Unqueue(c)
      PROVE  LedgerStep
  <2>1. remove_player(c) /\ c \in Actor
    BY <1>4 DEF Cancel, Unqueue, Actor
  <2>2. InHandSound' /\ outBar' \subseteq outBar
    <3>1. CASE task' = [task EXCEPT ![c] = Done(c)] /\ offers' = offers
      <4>1. \A d \in Client, m \in MatchId : Bears(Done(c), d, m) => Bears(task[c], d, m)
        BY EmptyHands DEF Bears
      <4> QED BY <2>1, <3>1, <4>1, EmptyHands, HandShrinks
    <3>2. ASSUME NEW o \in OffersOf(c), offers' = Taken(o),
                 task' = [task EXCEPT ![c] = Settle(o, {c}, {Other(o, c)})]
          PROVE  InHandSound' /\ outBar' \subseteq outBar
      <4>1. o \in offers /\ c \in Sides(o)
        BY <3>2 DEF OffersOf
      <4> QED BY <1>1, <1>2, <3>2, <4>1
    <3> QED BY <2>1, <3>1, <3>2 DEF remove_player
  <2> DEFINE S == outBar \ outBar'
  <2>3. S \in SUBSET (Client \X MatchId) /\ outBar' = outBar \ S
    BY <2>2, OutFacts
  <2>4. askingBar' \in SUBSET Client
    BY DEF askingBar
  <2>5. Ledger!Withdraw(c, S)
    BY <2>1, <2>3, <2>4 DEF Ledger!Withdraw, remove_player
  <2> QED BY <2>2, <2>3, <2>5 DEF Ledger!Next, LedgerStep
<1>5. ASSUME NEW o \in offers, Expire(o)
      PROVE  LedgerStep
  <2>1. /\ offers' = Taken(o) /\ tickets' = tickets /\ Ticker \in Actor
        /\ task' = [task EXCEPT ![Ticker] = Settle(o, Lapsed(o), o.yes)]
    BY <1>5 DEF Expire, Actor
  <2>2. Lapsed(o) \in SUBSET Client /\ o.yes \in SUBSET Sides(o)
    BY QueuedOffer, OfferFacts DEF Lapsed, HalfAnswered
  <2>3. InHandSound' /\ outBar' \subseteq outBar
    BY <1>1, <2>1, <2>2
  <2> QED BY <2>1, <2>3, OutShrinks DEF LedgerStep
<1> QED BY <1>3, <1>4, <1>5

\* A match is given up: one of its players is gone.
LEMMA LedgerOfForming ==
  ASSUME Gated, InHandSound, NEW c \in Client, FormGone(c) \/ FormSurvivor(c)
  PROVE  LedgerStep
<1> DEFINE o == task[c].o
<1>0. c \in Actor
  BY DEF Actor
<1>1. /\ task[c].at \in {"form", "gone"} /\ UNCHANGED <<offers, tickets>>
      /\ task \in [Actor -> Task] /\ task[c] \in Task
  BY <1>0 DEF FormGone, FormSurvivor, Gated, TypeOK
<1>2. o \in Offer /\ InHandOK(task[c]) /\ InHand(task[c]) = Sides(o)
  BY <1>0, <1>1, Forming DEF InHandSound, InHand
<1>3. \E t : /\ task' = [task EXCEPT ![c] = t] /\ InHandOK(t)
             /\ InHand(t) \subseteq Sides(o) /\ t.o = o
  <2>1. CASE FormGone(c)
    <3> DEFINE t == [task[c] EXCEPT !.at = "gone"]
    <3>1. task' = [task EXCEPT ![c] = t]
      BY <1>1, <2>1 DEF FormGone
    <3>2. t.at = "gone" /\ t.o = o /\ t.todo = task[c].todo /\ t.who = task[c].who
      BY <1>1 DEF Task
    <3> HIDE DEF t
    <3>3. InHandOK(t) /\ InHand(t) = Sides(o)
      BY <1>1, <1>2, <3>2 DEF InHandOK, InHand
    <3> QED BY <3>1, <3>2, <3>3
  <2>2. CASE FormSurvivor(c)
    <3> DEFINE todo == {survivor(o)}
    <3>1. task' = [task EXCEPT ![c] = Settle(o, {}, todo)]
      BY <2>2 DEF FormSurvivor
    <3>2. todo \subseteq Sides(o) /\ todo \in SUBSET Client
      BY <1>2, OfferFacts DEF survivor, gone, Other, Sides
    <3> HIDE DEF todo
    <3>3. /\ InHandOK(Settle(o, {}, todo)) /\ InHand(Settle(o, {}, todo)) = todo
          /\ Settle(o, {}, todo).o = o
      BY <1>2, <3>2, FullHands
    <3> QED BY <3>1, <3>2, <3>3
  <2> QED BY <1>1, <2>1, <2>2 DEF FormGone, FormSurvivor
<1>4. PICK t : /\ task' = [task EXCEPT ![c] = t] /\ InHandOK(t)
               /\ InHand(t) \subseteq Sides(o) /\ t.o = o
  BY <1>3
<1>5. \A d \in Client, m \in MatchId : Bears(t, d, m) => Bears(task[c], d, m)
  BY <1>2, <1>4 DEF Bears
<1>6. InHandSound' /\ outBar' \subseteq outBar
  BY <1>0, <1>1, <1>4, <1>5, HandShrinks
<1> QED BY <1>1, <1>6, OutShrinks DEF LedgerStep

\* The room of a match is made: the task that starts it has the tickets.
LEMMA LedgerOfRoom ==
  ASSUME Gated, InHandSound, NEW c \in Client, FormRoom(c)
  PROVE  LedgerStep
<1> DEFINE o == task[c].o
           t == With("start", o)
<1>1. /\ task[c].at = "form" /\ UNCHANGED <<offers, tickets>>
      /\ task' = [task EXCEPT ![c] = Idle, ![o.m] = t] /\ task \in [Actor -> Task]
  BY DEF FormRoom, Gated, TypeOK
<1>2. o \in Offer /\ o.m \in MatchId /\ c \in Actor /\ c \notin MatchId /\ o.m \in Actor
  BY <1>1, Forming DEF Actor
<1>3. InHandOK(t) /\ InHand(t) = Sides(o) /\ t.o = o
  BY <1>2, FullHands
<1>4. InHand(task[c]) = Sides(o)
  BY <1>1 DEF InHand
<1>5. InHandOK(Idle) /\ InHand(Idle) = {}
  BY EmptyHands
<1> HIDE DEF t
<1>6. /\ task'[c] = Idle /\ task'[o.m] = t
      /\ \A y \in Actor : y # c /\ y # o.m => task'[y] = task[y]
  BY <1>1, <1>2
<1>7. InHandSound'
  BY <1>3, <1>5, <1>6 DEF InHandSound
<1>8. ASSUME NEW d \in Client, NEW k \in MatchId, NEW y \in Actor, Bears(task'[y], d, k)
      PROVE  \E x \in Actor : Bears(task[x], d, k)
  <2>1. CASE y = o.m
    BY <1>2, <1>3, <1>4, <1>6, <1>8, <2>1 DEF Bears
  <2>2. CASE y = c
    BY <1>5, <1>6, <1>8, <2>2 DEF Bears
  <2>3. CASE y # o.m /\ y # c
    BY <1>6, <1>8, <2>3
  <2> QED BY <2>1, <2>2, <2>3
<1>9. ASSUME NEW d \in Client, NEW k \in MatchId, <<d, k>> \in outBar'
      PROVE  <<d, k>> \in outBar
  BY <1>1, <1>8, <1>9, OutFacts
<1>10. outBar' \subseteq outBar
  BY <1>9, OutFacts
<1> QED BY <1>1, <1>7, <1>10, OutShrinks DEF LedgerStep

\* A match starts, its room is gone, or no relay carries it and both are put back.
LEMMA LedgerOfStart ==
  ASSUME Gated, InHandSound, NEW m \in MatchId,
         StartOk(m) \/ StartGone(m) \/ StartUnproven(m) \/ DropRoom(m)
  PROVE  LedgerStep
<1> DEFINE o == task[m].o
<1>0. m \in Actor
  BY DEF Actor
<1>1. /\ task[m].at \in {"start", "drop"} /\ UNCHANGED <<offers, tickets>>
      /\ task \in [Actor -> Task] /\ task[m] \in Task
  BY <1>0 DEF StartOk, StartGone, StartUnproven, DropRoom, Gated, TypeOK
<1>2. o \in Offer /\ InHandOK(task[m]) /\ InHand(task[m]) = Sides(o)
  BY <1>0, <1>1, TaskType DEF InHandSound, InHand, Sane
<1>3. CASE StartOk(m) \/ StartGone(m)
  <2>1. task' = [task EXCEPT ![m] = Idle]
    BY <1>3 DEF StartOk, StartGone
  <2> QED BY <1>0, <1>1, <2>1, EmptyHands, HandsEmpty
<1>4. ASSUME NEW t, task' = [task EXCEPT ![m] = t], InHandOK(t),
             InHand(t) = Sides(o), t.o = o
      PROVE  LedgerStep
  <2>1. \A d \in Client, k \in MatchId : Bears(t, d, k) => Bears(task[m], d, k)
    BY <1>2, <1>4 DEF Bears
  <2>2. InHandSound' /\ outBar' \subseteq outBar
    BY <1>0, <1>1, <1>4, <2>1, HandShrinks
  <2> QED BY <1>1, <2>2, OutShrinks DEF LedgerStep
<1>5. CASE StartUnproven(m)
  <2> DEFINE t == [task[m] EXCEPT !.at = "drop"]
  <2>1. task' = [task EXCEPT ![m] = t]
    BY <1>1, <1>5 DEF StartUnproven
  <2>2. t.at = "drop" /\ t.o = o /\ t.todo = task[m].todo /\ t.who = task[m].who
    BY <1>1 DEF Task
  <2> HIDE DEF t
  <2>3. InHandOK(t) /\ InHand(t) = Sides(o)
    BY <1>1, <1>2, <2>2 DEF InHandOK, InHand
  <2> QED BY <1>4, <2>1, <2>2, <2>3
<1>6. CASE DropRoom(m)
  <2> DEFINE todo == Sides(o)
  <2>1. task' = [task EXCEPT ![m] = Settle(o, {}, todo)]
    BY <1>6 DEF DropRoom
  <2>2. todo \in SUBSET Client
    BY <1>2, OfferFacts
  <2>3. /\ InHandOK(Settle(o, {}, todo)) /\ InHand(Settle(o, {}, todo)) = todo
        /\ Settle(o, {}, todo).o = o
    BY <1>2, <2>2, FullHands
  <2> QED BY <1>4, <2>1, <2>3
<1> QED BY <1>3, <1>4, <1>5, <1>6

\* Two tickets leave the queue, and are out for a match nothing refers to.
LEMMA LedgerOfPair ==
  ASSUME Gated, InHandSound, NEW a \in Client, NEW b \in Client, NEW m \in MatchId,
         Pair(a, b, m)
  PROVE  LedgerStep
<1> DEFINE o == [m |-> m, a |-> a, b |-> b, yes |-> {}]
           S == {<<a, m>>, <<b, m>>}
<1>1. /\ offers' = offers \cup {o} /\ task' = task /\ a # b /\ MatchIdFree(m)
      /\ tickets[a] > 0 /\ tickets[b] > 0 /\ tickets \in [Client -> Nat]
      /\ tickets' = [tickets EXCEPT ![a] = @ - 1, ![b] = @ - 1]
  BY DEF Pair, Pairable, Gated, TypeOK
<1>2. o.m = m /\ Sides(o) = {a, b}
  BY DEF Sides
<1> HIDE DEF o
<1>3. InHandSound'
  BY <1>1 DEF InHandSound
<1>4. outBar' = outBar \cup S /\ S \cap outBar = {}
  <2>1. ASSUME NEW d \in Client, NEW k \in MatchId
        PROVE  /\ <<d, k>> \in outBar' <=> <<d, k>> \in outBar \/ (k = m /\ d \in {a, b})
               /\ k = m => <<d, k>> \notin outBar
    <3>1. k = m => <<d, k>> \notin outBar
      BY <1>1, OutFacts DEF MatchIdFree, Bears
    <3> QED BY <1>1, <1>2, <3>1, OutFacts
  <2> QED BY <2>1, OutFacts
<1>5. Ledger!Drawn(S) = {a, b}
  BY DEF Ledger!Drawn
<1>6. tickets' = [w \in Client |-> IF w \in {a, b} THEN tickets[w] - 1 ELSE tickets[w]]
  BY <1>1
<1>7. askingBar' = askingBar
  BY <1>1 DEF askingBar
<1>8. S \in SUBSET (Client \X MatchId) /\ \A s, t \in S : s[1] = t[1] => s = t
  BY <1>1
<1> HIDE DEF S
<1>9. Ledger!Draw(S)
  BY <1>1, <1>4, <1>5, <1>6, <1>7, <1>8 DEF Ledger!Draw
<1> QED BY <1>3, <1>8, <1>9 DEF Ledger!Next, LedgerStep

\* An answer leaves both tickets out.
LEMMA LedgerOfAccept ==
  ASSUME Gated, InHandSound, NEW c \in Client, NEW o \in offers, Accept(c, o)
  PROVE  LedgerStep
<1> DEFINE p == [o EXCEPT !.yes = @ \cup {c}]
<1>1. c \in Actor /\ o \in Offer /\ tickets' = tickets /\ o.yes \in SUBSET Client
  BY QueuedOffer, OfferFacts DEF Accept, Actor
<1>2. p \in Offer /\ p.m = o.m /\ Sides(p) = Sides(o)
  BY <1>1 DEF Offer, Sides
<1>3. \/ offers' = Taken(o) /\ task' = [task EXCEPT ![c] = With("form", p)]
      \/ offers' = (offers \ {o}) \cup {p} /\ task' = task
  BY DEF Accept
<1> HIDE DEF p
<1>4. CASE offers' = Taken(o) /\ task' = [task EXCEPT ![c] = With("form", p)]
  <2>1. /\ InHandOK(With("form", p)) /\ InHand(With("form", p)) = Sides(o)
        /\ With("form", p).o = p
    BY <1>2, FullHands
  <2>2. InHandSound' /\ outBar' \subseteq outBar
    BY <1>1, <1>2, <1>4, <2>1, HandTakes
  <2> QED BY <1>1, <2>2, OutShrinks DEF LedgerStep
<1>5. CASE offers' = (offers \ {o}) \cup {p} /\ task' = task
  <2>1. InHandSound'
    BY <1>5 DEF InHandSound
  <2>2. ASSUME NEW d \in Client, NEW k \in MatchId, <<d, k>> \in outBar'
        PROVE  <<d, k>> \in outBar
    BY <1>2, <1>5, <2>2, OutFacts
  <2>3. outBar' \subseteq outBar
    BY <2>2, OutFacts
  <2> QED BY <1>1, <2>1, <2>3, OutShrinks DEF LedgerStep
<1> QED BY <1>3, <1>4, <1>5

\* Every step is one of the ledger's, or leaves it alone.
LEMMA LedgerSteps ==
  ASSUME Gated, HalfAnswered, InHandSound, [Next]_vars
  PROVE  LedgerStep
<1> USE DEF Actor
<1>1. ASSUME NEW x \in Actor, SettleStep(x) PROVE LedgerStep
  BY <1>1, LedgerOfSettling, LedgerOfRequeue DEF SettleStep
<1>2. ASSUME NEW c \in Client, HandlerStep(c) PROVE LedgerStep
  BY <1>1, <1>2, LedgerOfClients, LedgerOfPush, LedgerOfFalls, LedgerOfForming, LedgerOfRoom
  DEF HandlerStep
<1>3. ASSUME NEW c \in Client, ClientStep(c) PROVE LedgerStep
  BY <1>3, LedgerOfClients, LedgerOfFalls, LedgerOfAccept DEF ClientStep
<1>4. ASSUME NEW m \in MatchId, StartStep(m) \/ ExpireMatch(m) PROVE LedgerStep
  BY <1>1, <1>4, LedgerOfStart, LedgerOfFalls DEF StartStep, ExpireMatch
<1>5. CASE UNCHANGED vars \/ \E k \in Account : CooldownEnds(k)
  BY <1>5, LedgerRests DEF vars, CooldownEnds
<1> QED
  BY <1>1, <1>2, <1>3, <1>4, <1>5, LedgerOfPair DEF Next

\* What tasks have in hand is sound: nobody is both found and to be looked up,
\* and only the settlement of an offer has anybody to put back.
THEOREM InHandSoundAlways == Spec => []InHandSound
<1>1. Init => InHandSound
  BY EmptyHands DEF Init, InHandSound
<1>2. Gated /\ HalfAnswered /\ InHandSound /\ [Next]_vars => InHandSound'
  BY LedgerSteps DEF LedgerStep
<1> QED BY <1>1, <1>2, GatedAlways, HalfAnsweredAlways, PTL DEF Spec

\* A ticket that left the queue comes back at most once, from the offer that
\* took it, whichever of the handlers, the ticker and the start tasks settles
\* that offer, and whoever hangs up, cancels or queues again in between.
THEOREM ImplementsTicketLedgerAlways == Spec => ImplementsTicketLedger
<1>1. Init => Ledger!Init
  <2>1. InHand(Idle) = {} /\ Idle.at = "idle"
    BY EmptyHands, QuietPlaces
  <2> QED BY <2>1 DEF Init, Ledger!Init, askingBar, outBar, Actor
<1>2. Gated /\ HalfAnswered /\ InHandSound /\ [Next]_vars => [Ledger!Next]_(Ledger!vars)
  BY LedgerSteps DEF LedgerStep
<1> QED BY <1>1, <1>2, GatedAlways, HalfAnsweredAlways, InHandSoundAlways, PTL
        DEF Spec, ImplementsTicketLedger, Ledger!Spec
=============================================================================
