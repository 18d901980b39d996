------------------------------ MODULE Automatch ------------------------------
(***************************************************************************)
(* Matchmaking (src/src/automatch.rs and the automatch half of             *)
(* src/src/ws_lobby.rs): tickets wait in a queue, two of them become an    *)
(* offer, both players answer it, and a room is built for the match.       *)
(*                                                                         *)
(* The queue has a mutex of its own, never held together with the hub's,   *)
(* so what a handler learns under one is stale under the other.  Every     *)
(* action is ONE lock scope (or one database write).  Three kinds of tasks *)
(* run: the handler of each connection, the 1 Hz ticker, and one task per  *)
(* formed match that starts it.                                            *)
(*                                                                         *)
(* Abstracted: the gates of find_pair on titles, blocks, relays, round     *)
(* trips and recent opponents may hold any pair back at any time, so the   *)
(* order of the queue does not matter here and tickets are counted.        *)
(* Hosted rooms are those of LobbyHub; here only who sits in one.  Of a    *)
(* strike only the cooldown it causes is kept.                             *)
(***************************************************************************)
EXTENDS Naturals, FiniteSets, FiniteSetsExt

CONSTANTS
  Client,     \* player ids, one per connection
  Account,    \* signed-in accounts
  AccountOf,  \* the account of each connection
  MatchId,    \* match uuids; a match's room is named by its match
  NoClient, NoMatch,
  Hosted,     \* lobby_id of a client in a hosted room
  Ticker,     \* the 1 Hz driver
  QUEUE_MAX,  \* config.automatch_queue_max
  MaxTokens,  \* bound: tickets of one connection, queued, offered or in flight
  Ops         \* the operations the clients of this instance use

ASSUME AutomatchConstants ==
  /\ AccountOf \in [Client -> Account]
  /\ QUEUE_MAX \in Nat
  /\ MaxTokens \in Nat
  /\ NoClient \notin Client
  /\ NoMatch \notin MatchId /\ Hosted \notin MatchId /\ Hosted # NoMatch
  /\ Ticker \notin Client \cup MatchId
  /\ Client \cap MatchId = {}

VARIABLES
  conn,     \* conn[c]: "off", "up", or "closing" once its read loop ended
  lobbyOf,  \* ClientMeta.lobby_id: a match's room, Hosted or NoMatch
  hosted,   \* the clients seated in hosted rooms
  rooms,    \* rooms[m]: who is seated in the room of match m, {} without one
  tickets,  \* tickets[c]: QueueInner.tickets of connection c
  offers,   \* QueueInner.pending
  cool,     \* the accounts on a dodge cooldown
  task      \* task[x]: where the task of x stands

vars == <<conn, lobbyOf, hosted, rooms, tickets, offers, cool, task>>

-----------------------------------------------------------------------------
(* Offers and tasks *)

Actor == Client \cup {Ticker} \cup MatchId

\* A decline settles an offer at once, so only acceptances are recorded.
Offer == [m : MatchId, a : Client, b : Client, yes : SUBSET Client]

NoOffer == [m |-> NoMatch, a |-> NoClient, b |-> NoClient, yes |-> {}]

Sides(o)    == {o.a, o.b}
Other(o, c) == IF c = o.a THEN o.b ELSE o.a
OffersOf(c) == {o \in offers : c \in Sides(o)}

Step == {"idle", "q_account", "q_cooldown", "q_room", "q_push", "enter",
         "form", "gone", "start", "drop", "settle", "requeue",
         "unqueue", "leave", "destroy", "remove"}

\* charge: who gets a strike; todo: who is to be put back in the queue; who:
\* the one among them found connected and about to be.
Task == [at     : Step,
         o      : Offer \cup {NoOffer},
         charge : SUBSET Client,
         todo   : SUBSET Client,
         who    : Client \cup {NoClient},
         lid    : MatchId \cup {NoMatch}]

At(step) == [at |-> step, o |-> NoOffer, charge |-> {}, todo |-> {},
             who |-> NoClient, lid |-> NoMatch]

Idle == At("idle")

With(step, o) == [At(step) EXCEPT !.o = o]

\* settle_declined and its like: charge the dodgers, requeue the others.
Settle(o, charge, todo) ==
  [With("settle", o) EXCEPT !.charge = charge, !.todo = todo]

TypeOK ==
  /\ conn \in [Client -> {"off", "up", "closing"}]
  /\ lobbyOf \in [Client -> MatchId \cup {NoMatch, Hosted}]
  /\ hosted \subseteq Client
  /\ rooms \in [MatchId -> SUBSET Client]
  /\ tickets \in [Client -> Nat]
  /\ offers \subseteq Offer
  /\ cool \subseteq Account
  /\ task \in [Actor -> Task]

Init ==
  /\ conn = [c \in Client |-> "off"]
  /\ lobbyOf = [c \in Client |-> NoMatch]
  /\ hosted = {}
  /\ rooms = [m \in MatchId |-> {}]
  /\ tickets = [c \in Client |-> 0]
  /\ offers = {}
  /\ cool = {}
  /\ task = [x \in Actor |-> Idle]

\* c's connection has read a message of kind op.
Handles(c, op) == op \in Ops /\ conn[c] = "up" /\ task[c].at = "idle"

\* Where x goes once an offer is settled: a closing connection on to
\* client_leave, any other back to its loop.
Done(x) == IF x \in Client /\ conn[x] = "closing" THEN At("leave") ELSE Idle

\* Where c goes once it has left its room.
Left(c) == IF conn[c] = "closing" THEN At("remove") ELSE Idle

\* What a task still has to do with client c.
Names(t, c) == c \in Sides(t.o) \cup t.charge \cup t.todo \cup {t.who}

\* Mutant of Present: nobody is taken for connected.
PresentNever(c) == FALSE

\* `g.clients.contains_key'.
Present(c) == conn[c] # "off"

\* A uuid nothing refers to.
MatchIdFree(m) ==
  /\ rooms[m] = {} /\ task[m].at = "idle"
  /\ \A o \in offers : o.m # m
  /\ \A x \in Actor : task[x].o.m # m /\ task[x].lid # m
  /\ \A c \in Client : lobbyOf[c] # m

-----------------------------------------------------------------------------
(* Connections and hosted rooms *)

\* A new connection has an id nothing refers to.
Connect(c) ==
  /\ conn[c] = "off"
  /\ tickets[c] = 0 /\ OffersOf(c) = {} /\ c \notin hosted
  /\ \A m \in MatchId : c \notin rooms[m]
  /\ \A x \in Actor : ~Names(task[x], c)
  /\ conn' = [conn EXCEPT ![c] = "up"]
  /\ UNCHANGED <<lobbyOf, hosted, rooms, tickets, offers, cool, task>>

HangUp(c) ==
  /\ Handles(c, "hangup")
  /\ conn' = [conn EXCEPT ![c] = "closing"]
  /\ task' = [task EXCEPT ![c] = At("unqueue")]
  /\ UNCHANGED <<lobbyOf, hosted, rooms, tickets, offers, cool>>

\* `g.clients.remove(&player_id)'.
Remove(c) ==
  /\ task[c].at = "remove"
  /\ conn' = [conn EXCEPT ![c] = "off"]
  /\ lobbyOf' = [lobbyOf EXCEPT ![c] = NoMatch]
  /\ task' = [task EXCEPT ![c] = Idle]
  /\ UNCHANGED <<hosted, rooms, tickets, offers, cool>>

\* create or join: lobby_id is checked in one scope ...
EnterCheck(c) ==
  /\ Handles(c, "enter")
  /\ lobbyOf[c] = NoMatch
  /\ c \notin hosted
  /\ task' = [task EXCEPT ![c] = At("enter")]
  /\ UNCHANGED <<conn, lobbyOf, hosted, rooms, tickets, offers, cool>>

\* ... and the seat taken in a later one, or refused.  Neither asks the queue.
EnterSeat(c) ==
  /\ task[c].at = "enter"
  /\ hosted' = hosted \cup {c}
  /\ lobbyOf' = [lobbyOf EXCEPT ![c] = Hosted]
  /\ task' = [task EXCEPT ![c] = Idle]
  /\ UNCHANGED <<conn, rooms, tickets, offers, cool>>

EnterRefused(c) ==
  /\ task[c].at = "enter"
  /\ task' = [task EXCEPT ![c] = Idle]
  /\ UNCHANGED <<conn, lobbyOf, hosted, rooms, tickets, offers, cool>>

\* c is kicked, or its hosted room is destroyed: its lobby_id is cleared,
\* whichever room that names.
Evict(c) ==
  /\ c \in hosted
  /\ hosted' = hosted \ {c}
  /\ lobbyOf' = [lobbyOf EXCEPT ![c] = NoMatch]
  /\ UNCHANGED <<conn, rooms, tickets, offers, cool, task>>

\* client_leave.  A match's room has no host; it goes, one scope later, with
\* the first of its two players who does (`automatch_emptied').
Leave(c) ==
  /\ \/ Handles(c, "leave") /\ lobbyOf[c] # NoMatch
     \/ task[c].at = "leave"
  /\ lobbyOf' = [lobbyOf EXCEPT ![c] = NoMatch]
  /\ hosted' = IF lobbyOf[c] = Hosted THEN hosted \ {c} ELSE hosted
  /\ task' = [task EXCEPT ![c] = IF lobbyOf[c] \in MatchId
                                   THEN [At("destroy") EXCEPT !.lid = lobbyOf[c]]
                                   ELSE Left(c)]
  /\ UNCHANGED <<conn, rooms, tickets, offers, cool>>

\* Mutant of destroy_lobby: the lobby_id of its members is kept.
destroy_lobby_only(m) ==
  /\ rooms' = [rooms EXCEPT ![m] = {}]
  /\ UNCHANGED lobbyOf

\* destroy_lobby of match m's room.
destroy_lobby(m) ==
  /\ rooms' = [rooms EXCEPT ![m] = {}]
  /\ lobbyOf' = [c \in Client |-> IF c \in rooms[m] THEN NoMatch ELSE lobbyOf[c]]

DestroyRoom(c) ==
  /\ task[c].at = "destroy"
  /\ destroy_lobby(task[c].lid)
  /\ task' = [task EXCEPT ![c] = Left(c)]
  /\ UNCHANGED <<conn, hosted, tickets, offers, cool>>

-----------------------------------------------------------------------------
(* Queueing *)

\* Everything that is or may become a ticket of c.
Tokens(c) ==
  tickets[c] + Cardinality(OffersOf(c))
             + Cardinality({x \in Actor : Names(task[x], c)})

\* Queue::waiting.
waiting == FoldSet(LAMBDA c, n : tickets[c] + n, 0, Client)

\* handle_automatch_queue, first scope: the account and the lobby_id.
QueueStart(c) ==
  /\ Handles(c, "queue")
  /\ Tokens(c) < MaxTokens
  /\ lobbyOf[c] = NoMatch
  /\ task' = [task EXCEPT ![c] = At("q_account")]
  /\ UNCHANGED <<conn, lobbyOf, hosted, rooms, tickets, offers, cool>>

is_queued_account(k) ==
  \E c \in Client : AccountOf[c] = k /\ (tickets[c] > 0 \/ OffersOf(c) # {})

\* Under the queue's lock: no ticket and no offer of the account.
QueueAccount(c) ==
  /\ task[c].at = "q_account"
  /\ ~is_queued_account(AccountOf[c])
  /\ task' = [task EXCEPT ![c] = At("q_cooldown")]
  /\ UNCHANGED <<conn, lobbyOf, hosted, rooms, tickets, offers, cool>>

\* The database: no cooldown left.
QueueCooldown(c) ==
  /\ task[c].at = "q_cooldown"
  /\ AccountOf[c] \notin cool
  /\ task' = [task EXCEPT ![c] = At("q_room")]
  /\ UNCHANGED <<conn, lobbyOf, hosted, rooms, tickets, offers, cool>>

\* Under the queue's lock again: there is room.
QueueRoom(c) ==
  /\ task[c].at = "q_room"
  /\ waiting < QUEUE_MAX
  /\ task' = [task EXCEPT ![c] = At("q_push")]
  /\ UNCHANGED <<conn, lobbyOf, hosted, rooms, tickets, offers, cool>>

\* A gate refuses: one of the three above, or one on mods, titles, endpoint.
QueueRefused(c) ==
  /\ task[c].at \in {"q_account", "q_cooldown", "q_room"}
  /\ task' = [task EXCEPT ![c] = Idle]
  /\ UNCHANGED <<conn, lobbyOf, hosted, rooms, tickets, offers, cool>>

QueuePush(c) ==
  /\ task[c].at = "q_push"
  /\ tickets' = [tickets EXCEPT ![c] = @ + 1]
  /\ task' = [task EXCEPT ![c] = Idle]
  /\ UNCHANGED <<conn, lobbyOf, hosted, rooms, offers, cool>>

-----------------------------------------------------------------------------
(* Offers *)

\* Mutant of Pairable: neither the tickets nor their accounts are compared.
PairableAny(a, b) == TRUE

\* The hard gate of find_pair_pass that tickets alone decide.
Pairable(a, b) == AccountOf[a] # AccountOf[b]

\* One round of the loop of Queue::pair, run by the ticker and by whoever has
\* just queued.  a is the older ticket.
Pair(a, b, m) ==
  /\ tickets[a] > 0 /\ tickets[b] > 0
  /\ Pairable(a, b)
  /\ MatchIdFree(m)
  /\ tickets' = [tickets EXCEPT ![a] = @ - 1, ![b] = @ - 1]
  /\ offers' = offers \cup {[m |-> m, a |-> a, b |-> b, yes |-> {}]}
  /\ UNCHANGED <<conn, lobbyOf, hosted, rooms, cool, task>>

\* Mutant of Taken: an answered offer stays in the queue.
TakenNot(o) == offers

\* `g.pending.remove(idx)'.
Taken(o) == offers \ {o}

\* Mutant of both_yes: one acceptance is enough.
both_yes_one(o) == o.yes # {}

both_yes(o) == o.yes = Sides(o)

\* handle_automatch_accept: yes.  A player in two offers answers one of them.
Accept(c, o) ==
  LET p == [o EXCEPT !.yes = @ \cup {c}] IN
  /\ Handles(c, "answer")
  /\ o \in OffersOf(c)
  /\ IF both_yes(p)
       THEN /\ offers' = Taken(o)
            /\ task' = [task EXCEPT ![c] = With("form", p)]
       ELSE /\ offers' = (offers \ {o}) \cup {p}
            /\ UNCHANGED task
  /\ UNCHANGED <<conn, lobbyOf, hosted, rooms, tickets, cool>>

\* handle_automatch_accept: no.  It settles the offer, even over an earlier yes.
Decline(c, o) ==
  /\ Handles(c, "answer")
  /\ o \in OffersOf(c)
  /\ offers' = Taken(o)
  /\ task' = [task EXCEPT ![c] = Settle(o, {c}, {Other(o, c)})]
  /\ UNCHANGED <<conn, lobbyOf, hosted, rooms, tickets, cool>>

\* Queue::remove_player: every ticket of c, and the first offer it is half of.
remove_player(c) ==
  /\ tickets' = [tickets EXCEPT ![c] = 0]
  /\ \/ \E o \in OffersOf(c) :
          /\ offers' = Taken(o)
          /\ task' = [task EXCEPT ![c] = Settle(o, {c}, {Other(o, c)})]
     \/ /\ OffersOf(c) = {}
        /\ task' = [task EXCEPT ![c] = Done(c)]
        /\ UNCHANGED offers
  /\ UNCHANGED <<conn, lobbyOf, hosted, rooms, cool>>

Cancel(c) == Handles(c, "cancel") /\ remove_player(c)

\* The cleanup of a closed connection begins with the queue.
Unqueue(c) == task[c].at = "unqueue" /\ remove_player(c)

\* Mutant of Lapsed: both sides pay whatever they said.
LapsedBoth(o) == Sides(o)

\* Whoever did not answer pays.
Lapsed(o) == Sides(o) \ o.yes

\* The ticker finds o past its deadline.  take_expired takes all of them at
\* once; one that it settles later is one that lapsed later.
Expire(o) ==
  /\ o \in offers
  /\ task[Ticker].at = "idle"
  /\ offers' = Taken(o)
  /\ task' = [task EXCEPT ![Ticker] = Settle(o, Lapsed(o), o.yes)]
  /\ UNCHANGED <<conn, lobbyOf, hosted, rooms, tickets, cool>>

-----------------------------------------------------------------------------
(* Settling an offer that came to nothing *)

\* record_strike.
Strike(x, c) ==
  /\ task[x].at = "settle"
  /\ c \in task[x].charge
  /\ cool' = cool \cup {AccountOf[c]}
  /\ task' = [task EXCEPT ![x].charge = @ \ {c}]
  /\ UNCHANGED <<conn, lobbyOf, hosted, rooms, tickets, offers>>

CooldownEnds(k) ==
  /\ k \in cool
  /\ cool' = cool \ {k}
  /\ UNCHANGED <<conn, lobbyOf, hosted, rooms, tickets, offers, task>>

\* Mutant of Remaining: whoever was looked up is looked up again.
RemainingAll(x, c) == task[x].todo

\* Who is still to be looked up after c.
Remaining(x, c) == task[x].todo \ {c}

\* still_here, under the hub's lock ...
Look(x, c) ==
  /\ task[x].at = "settle" /\ task[x].charge = {}
  /\ c \in task[x].todo
  /\ task' = [task EXCEPT ![x] =
                IF Present(c) THEN [@ EXCEPT !.at = "requeue", !.who = c, !.todo = Remaining(x, c)]
                ELSE [@ EXCEPT !.todo = Remaining(x, c)]]
  /\ UNCHANGED <<conn, lobbyOf, hosted, rooms, tickets, offers, cool>>

\* ... and requeue_front under the queue's.
Requeue(x) ==
  LET c == task[x].who IN
  /\ task[x].at = "requeue"
  /\ tickets' = [tickets EXCEPT ![c] = @ + 1]
  /\ task' = [task EXCEPT ![x] = [@ EXCEPT !.at = "settle", !.who = NoClient]]
  /\ UNCHANGED <<conn, lobbyOf, hosted, rooms, offers, cool>>

Settled(x) ==
  /\ task[x].at = "settle" /\ task[x].charge = {} /\ task[x].todo = {}
  /\ task' = [task EXCEPT ![x] = Done(x)]
  /\ UNCHANGED <<conn, lobbyOf, hosted, rooms, tickets, offers, cool>>

-----------------------------------------------------------------------------
(* Forming and starting a match *)

\* form_match: the room, and the lobby_id of both, whatever it was.
FormRoom(c) ==
  LET o == task[c].o IN
  /\ task[c].at = "form"
  /\ \A d \in Sides(o) : Present(d)
  /\ rooms' = [rooms EXCEPT ![o.m] = Sides(o)]
  /\ lobbyOf' = [d \in Client |-> IF d \in Sides(o) THEN o.m ELSE lobbyOf[d]]
  /\ task' = [task EXCEPT ![c] = Idle, ![o.m] = With("start", o)]
  /\ UNCHANGED <<conn, hosted, tickets, offers, cool>>

\* The server is full of rooms or the ruleset is gone: nobody is requeued.
FormRefused(c) ==
  /\ task[c].at = "form"
  /\ task' = [task EXCEPT ![c] = Idle]
  /\ UNCHANGED <<conn, lobbyOf, hosted, rooms, tickets, offers, cool>>

\* One side has dropped ...
FormGone(c) ==
  /\ task[c].at = "form"
  /\ \E d \in Sides(task[c].o) : ~Present(d)
  /\ task' = [task EXCEPT ![c].at = "gone"]
  /\ UNCHANGED <<conn, lobbyOf, hosted, rooms, tickets, offers, cool>>

\* `if contains_key(a) { a } else { b }', and the survivor is the other one.
gone(o)     == IF Present(o.a) THEN o.a ELSE o.b
survivor(o) == Other(o, gone(o))

\* ... and the survivor is to go back to the queue, in the next scopes.
FormSurvivor(c) ==
  LET o == task[c].o IN
  /\ task[c].at = "gone"
  /\ task' = [task EXCEPT ![c] = Settle(o, {}, {survivor(o)})]
  /\ UNCHANGED <<conn, lobbyOf, hosted, rooms, tickets, offers, cool>>

\* The task of match m: start_lobby succeeds ...
StartOk(m) ==
  /\ task[m].at = "start"
  /\ rooms[m] # {}
  /\ task' = [task EXCEPT ![m] = Idle]
  /\ UNCHANGED <<conn, lobbyOf, hosted, rooms, tickets, offers, cool>>

\* ... or the room is gone, and destroying it again does nothing ...
StartGone(m) ==
  /\ task[m].at = "start"
  /\ rooms[m] = {}
  /\ task' = [task EXCEPT ![m] = Idle]
  /\ UNCHANGED <<conn, lobbyOf, hosted, rooms, tickets, offers, cool>>

\* ... or no relay was proven before the deadline ...
StartUnproven(m) ==
  /\ task[m].at = "start"
  /\ rooms[m] # {}
  /\ task' = [task EXCEPT ![m].at = "drop"]
  /\ UNCHANGED <<conn, lobbyOf, hosted, rooms, tickets, offers, cool>>

\* ... and the room is destroyed and both go back to the queue.
DropRoom(m) ==
  /\ task[m].at = "drop"
  /\ destroy_lobby(m)
  /\ task' = [task EXCEPT ![m] = Settle(task[m].o, {}, Sides(task[m].o))]
  /\ UNCHANGED <<conn, hosted, tickets, offers, cool>>

-----------------------------------------------------------------------------
(* Specification *)

\* The scopes that end the settling of an offer.
SettleStep(x) ==
  \/ \E c \in Client : Strike(x, c) \/ Look(x, c)
  \/ Requeue(x) \/ Settled(x)

\* The scopes a connection's handler runs once its message is accepted.
HandlerStep(c) ==
  \/ SettleStep(c)
  \/ EnterSeat(c) \/ EnterRefused(c)
  \/ QueueAccount(c) \/ QueueCooldown(c) \/ QueueRoom(c) \/ QueueRefused(c)
  \/ QueuePush(c)
  \/ FormRoom(c) \/ FormRefused(c) \/ FormGone(c) \/ FormSurvivor(c)
  \/ Unqueue(c)
  \/ task[c].at = "leave" /\ Leave(c)
  \/ DestroyRoom(c)
  \/ Remove(c)

\* The scopes of the task that starts match m.
StartStep(m) ==
  StartOk(m) \/ StartGone(m) \/ StartUnproven(m) \/ DropRoom(m) \/ SettleStep(m)

\* The ticker lapses the offer of match m.
ExpireMatch(m) == \E o \in offers : o.m = m /\ Expire(o)

\* What a client, its network, another room's host or the clock decides.
ClientStep(c) ==
  \/ Connect(c) \/ HangUp(c) \/ EnterCheck(c) \/ Evict(c)
  \/ task[c].at = "idle" /\ Leave(c)
  \/ QueueStart(c) \/ Cancel(c)
  \/ \E o \in offers : Accept(c, o) \/ Decline(c, o)

Next ==
  \/ \E c \in Client : HandlerStep(c) \/ ClientStep(c)
  \/ \E a, b \in Client, m \in MatchId : Pair(a, b, m)
  \/ \E m \in MatchId : StartStep(m) \/ ExpireMatch(m)
  \/ SettleStep(Ticker)
  \/ \E k \in Account : CooldownEnds(k)

\* A task once begun runs on, and the ticker runs every second.  It settles
\* every lapsed offer it finds, so none is passed over for another for ever.
Fairness ==
  /\ \A c \in Client : WF_vars(HandlerStep(c))
  /\ \A m \in MatchId : WF_vars(StartStep(m)) /\ SF_vars(ExpireMatch(m))
  /\ WF_vars(SettleStep(Ticker))

Spec == Init /\ [][Next]_vars

FairSpec == Spec /\ Fairness

-----------------------------------------------------------------------------
(* Safety *)

\* Task x holds the offer of match m: it settles it or makes a match of it.
Holds(x, m) == task[x].o.m = m

\* An offer is dealt with once: by the second answer, by a decline, by a cancel,
\* by a closing connection or by the ticker, whoever takes it out of the queue
\* first, and by nobody while it is still in there.
OfferSettledOnce ==
  /\ \A o, p \in offers : o.m = p.m => o = p
  /\ \A o \in offers, x \in Actor : ~Holds(x, o.m)
  /\ \A x, y \in Actor, m \in MatchId : Holds(x, m) /\ Holds(y, m) => x = y
  /\ \A o \in offers : rooms[o.m] = {}
  /\ \A x \in Client \cup {Ticker}, m \in MatchId : Holds(x, m) => rooms[m] = {}

\* Whoever had accepted is charged for a failed offer by nobody but itself, by
\* declining, cancelling or closing its connection after all.
AccepterUncharged ==
  \A x \in Actor : task[x].charge \cap task[x].o.yes \subseteq {x}

\* The players of an offer or a match are two accounts, whatever connections
\* and however many tickets an account has ("never the same account").
TwoAccounts ==
  /\ \A o \in offers : AccountOf[o.a] # AccountOf[o.b]
  /\ \A m \in MatchId, c, d \in Client :
       {c, d} \subseteq rooms[m] /\ c # d => AccountOf[c] # AccountOf[d]

\* A client whose lobby_id names a match's room is seated in it.
MatchSeatsAgree ==
  \A c \in Client, m \in MatchId : lobbyOf[c] = m => c \in rooms[m]

\* A connection is in the map until its cleanup has left every lock scope: a
\* task that still runs for c finds it there.
RunningIsPresent ==
  \A c \in Client : conn[c] = "off" => task[c].at = "idle" /\ lobbyOf[c] = NoMatch

-----------------------------------------------------------------------------
(* The inductive invariant of the safety properties *)

\* What each kind of task carries.  form_match runs in a handler, with an offer
\* both accepted; the task that starts match m carries the offer of m.
TasksOK ==
  \A x \in Actor :
    /\ task[x].at \in {"form", "gone"} =>
         x \in Client /\ task[x].o \in Offer /\ both_yes(task[x].o)
    /\ task[x].at \in {"start", "drop"} => x \in MatchId /\ task[x].o \in Offer
    /\ x \in MatchId => task[x].at \in {"idle", "start", "drop", "settle", "requeue"}
    /\ x = Ticker => task[x].at \in {"idle", "settle", "requeue"}
    /\ x \in MatchId /\ task[x].o # NoOffer => Holds(x, x)
    /\ task[x].o # NoOffer => AccountOf[task[x].o.a] # AccountOf[task[x].o.b]
    /\ task[x].at = "requeue" => task[x].who \in Client
    /\ task[x].at = "destroy" => task[x].lid \in MatchId

\* The inductive invariant: what an offer's holder may rely on after it has
\* released the queue's lock.
Gated ==
  /\ TypeOK
  /\ OfferSettledOnce
  /\ AccepterUncharged
  /\ TwoAccounts
  /\ MatchSeatsAgree
  /\ RunningIsPresent
  /\ TasksOK

-----------------------------------------------------------------------------
(* Liveness, under FairSpec *)

\* Every offer ends, answered or not.
OfferEnds ==
  \A m \in MatchId : (\E o \in offers : o.m = m) ~> (\A o \in offers : o.m # m)

\* Whoever loses an offer, or a match no relay could carry, through no fault
\* of its own gets back into the queue, unless it has closed its connection.
InnocentRequeued ==
  \A x \in Actor, c \in Client :
    (c \in task[x].todo /\ conn[c] = "up") ~> (tickets[c] > 0 \/ conn[c] # "up")

-----------------------------------------------------------------------------
(* Refinement: each offer goes through the accept gate of AcceptGate *)

\* Somebody is making a match of m, or its room stands or is to be started.
Matched(m) ==
  \/ rooms[m] # {} \/ task[m].at \in {"start", "drop"}
  \/ \E x \in Client : task[x].at \in {"form", "gone"} /\ Holds(x, m)

Open(m) == {o \in offers : o.m = m}

phaseBar == [m \in MatchId |-> IF Open(m) # {} THEN "open"
                               ELSE IF Matched(m) THEN "matched" ELSE "over"]
pairBar  == [m \in MatchId |-> UNION {Sides(o) : o \in Open(m)}]
saidBar  == [m \in MatchId |-> UNION {o.yes : o \in Open(m)}]

Gate == INSTANCE AcceptGate WITH phase <- phaseBar, pair <- pairBar, said <- saidBar

\* What the refinement needs beyond Gated: only the two players answer an offer,
\* and it leaves the queue with the second yes.
HalfAnswered == \A o \in offers : o.yes \subseteq Sides(o) /\ ~both_yes(o)

\* Nothing but two acceptances of one offer makes a match.
ImplementsAcceptGate == Gate!Spec

-----------------------------------------------------------------------------
(* Refinement: no ticket is put back twice, as TicketLedger promises *)

\* Whose tickets task t has in hand: of both players while it makes their match,
\* then of those it is to put back.
InHand(t) ==
  IF t.at \in {"form", "gone", "start", "drop"}
  THEN Sides(t.o)
  ELSE t.todo \cup ({t.who} \ {NoClient})

askingBar == {c \in Client : task[c].at \in {"q_account", "q_cooldown", "q_room", "q_push"}}

outBar ==
  {s \in Client \X MatchId :
      \/ \E o \in offers : o.m = s[2] /\ s[1] \in Sides(o)
      \/ \E x \in Actor : Holds(x, s[2]) /\ s[1] \in InHand(task[x])}

Ledger == INSTANCE TicketLedger
            WITH Who <- Client, Slip <- MatchId,
                 asking <- askingBar, waiting <- tickets, out <- outBar

\* Who is to be put back is looked up and pushed in scopes of its own, while
\* the offer is gone from the queue: a ticket comes back at most once, and only
\* from an offer that took it (settle_declined, form_match, the start task).
ImplementsTicketLedger == Ledger!Spec

-----------------------------------------------------------------------------
(* What the repository says and the code does not keep *)

\* docs/AUTOMATCH.md: automatch_requeue with reason peer_left, "You accepted,
\* they did not. Back to the front of the queue, ticket intact".
PeerLeftRequeues ==
  [][\A c \in Client : FormSurvivor(c) =>
       {d \in Sides(task[c].o) : Present(d)} \subseteq task'[c].todo]_vars
=============================================================================
