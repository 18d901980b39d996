------------------------------ MODULE HttpRooms ------------------------------
(***************************************************************************)
(* The HTTP surface: game-filtered rooms (src/src/rooms.rs), the signal    *)
(* mailboxes of their players (src/src/signal.rs), the routes that serve   *)
(* both (src/src/routes/mod.rs) and the janitor of src/src/main.rs.        *)
(*                                                                         *)
(* The rooms and the mailboxes have a mutex each, and no route holds both: *)
(* a post checks the room and pushes later, a poll checks the room and     *)
(* drains later, a leave changes the room and clears later.  An action is  *)
(* one lock scope.  Requests run concurrently, also those of one player.   *)
(*                                                                         *)
(* Abstracted: time, to whether a member's last heartbeat is too old and   *)
(* whether a room has gone without an update for too long; the checks of   *)
(* join on game, version and code, which may refuse anybody; a session id  *)
(* is a random u32, here any of SessionId, possibly one used before.       *)
(***************************************************************************)
EXTENDS Naturals, Sequences, FiniteSets, SequencesExt

CONSTANTS
  Player,
  RoomId,
  Request,     \* requests in progress, each on a task of its own
  SessionId,
  NoPlayer, NoRoom, NoSession,
  SlotCount,   \* slot_count of every room
  MAX_QUEUED,  \* MAX_QUEUED_PER_PLAYER
  MaxPosts,    \* bound: signals delivered to mailboxes
  Ops          \* what happens in this instance besides create, join and leave

ASSUME HttpConstants ==
  /\ SlotCount \in Nat /\ SlotCount >= 2 /\ SlotCount <= 8
  /\ MAX_QUEUED \in Nat \ {0}
  /\ MaxPosts \in Nat
  /\ NoPlayer \notin Player
  /\ NoSession \notin SessionId

VARIABLES
  rooms,   \* RoomRegistry.rooms
  late,    \* late[r]: the members of r whose heartbeat has timed out
  idle,    \* the rooms whose updated_at has timed out
  told,    \* told[r]: who was handed which slot with r's present session id
  mail,    \* SignalStore.queues
  posts,   \* signals delivered to mailboxes so far
  got,     \* got[p]: the last signal p was handed
  req      \* what each request has still to do

httpVars == <<rooms, late, idle, told, mail, posts, got, req>>

-----------------------------------------------------------------------------
(* Rooms and requests *)

Slot == 0 .. SlotCount - 1

\* Room.members by local_slot; a member is ready or not.
Room == [status  : {"open", "starting", "running"},
         host    : Player,
         seat    : [Slot -> Player \cup {NoPlayer}],
         ready   : SUBSET Player,
         session : SessionId \cup {NoSession}]

ASSUME NoRoomIsNoRoom == NoRoom \notin Room

Members(r) == {r.seat[s] : s \in Slot} \ {NoPlayer}

SlotsOf(r, p) == {s \in Slot : r.seat[s] = p}

Live == {r \in RoomId : rooms[r] # NoRoom}

Envelope == [room : RoomId, n : Nat]

Work == [at   : {"idle", "push", "drain", "clear"},
         who  : Player \cup {NoPlayer},
         room : RoomId \cup {NoRoom},
         to   : SUBSET Player]

Idle == [at |-> "idle", who |-> NoPlayer, room |-> NoRoom, to |-> {}]

HttpTypeOK ==
  /\ rooms \in [RoomId -> Room \cup {NoRoom}]
  /\ late \in [RoomId -> SUBSET Player]
  /\ idle \subseteq RoomId
  /\ told \in [RoomId -> SUBSET (Player \X Slot)]
  /\ mail \in [Player -> Seq(Envelope)]
  /\ \A p \in Player : Len(mail[p]) <= MAX_QUEUED
  /\ posts \in 0 .. MaxPosts
  /\ got \in [Player -> [RoomId -> Nat]]
  /\ req \in [Request -> Work]

HttpInit ==
  /\ rooms = [r \in RoomId |-> NoRoom]
  /\ late = [r \in RoomId |-> {}]
  /\ idle = {}
  /\ told = [r \in RoomId |-> {}]
  /\ mail = [p \in Player |-> <<>>]
  /\ posts = 0
  /\ got = [p \in Player |-> [r \in RoomId |-> 0]]
  /\ req = [q \in Request |-> Idle]

\* A uuid nothing refers to.
RoomIdFree(r) ==
  /\ rooms[r] = NoRoom
  /\ \A q \in Request : req[q].room # r
  /\ \A p \in Player : \A i \in DOMAIN mail[p] : mail[p][i].room # r

MailUnchanged == UNCHANGED <<mail, posts, got>>

\* Room r becomes x, and p, whose request it was, is alive.
Update(r, x, p) ==
  /\ rooms' = [rooms EXCEPT ![r] = x]
  /\ late' = [late EXCEPT ![r] = @ \ {p}]
  /\ idle' = idle \ {r}

\* RoomView::from_room: p is told its slot with the session id there is; what
\* was told under an earlier one is no longer of account.
Tell(r, x, p) ==
  told' = [told EXCEPT ![r] =
             IF x.session = NoSession THEN {}
             ELSE (IF x.session = rooms[r].session THEN @ ELSE {})
                    \cup {<<p, s>> : s \in SlotsOf(x, p)}]

-----------------------------------------------------------------------------
(* The registry: one lock scope each *)

Create(p, r) ==
  /\ RoomIdFree(r)
  /\ Update(r, [status |-> "open", host |-> p,
                seat |-> [s \in Slot |-> IF s = 0 THEN p ELSE NoPlayer],
                ready |-> {}, session |-> NoSession], p)
  /\ told' = [told EXCEPT ![r] = {}]
  /\ got' = [d \in Player |-> [got[d] EXCEPT ![r] = 0]]
  /\ UNCHANGED <<mail, posts, req>>

\* The smallest local_slot nobody has.
IsFree(r, s) ==
  /\ r.seat[s] = NoPlayer
  /\ \A t \in Slot : t < s => r.seat[t] # NoPlayer

Join(p, r, s) ==
  /\ r \in Live
  /\ rooms[r].status = "open"
  /\ p \notin Members(rooms[r])
  /\ IsFree(rooms[r], s)
  /\ Update(r, [rooms[r] EXCEPT !.seat[s] = p], p)
  /\ UNCHANGED <<told, req>> /\ MailUnchanged

\* Mutant of Reopened: the session id outlives the line-up it was for.
ReopenedSameSession(r) ==
  IF r.status = "starting" THEN [r EXCEPT !.status = "open"] ELSE r

\* A room that was starting takes players again, and will start another session.
Reopened(r) ==
  IF r.status = "starting" THEN [r EXCEPT !.status = "open", !.session = NoSession]
  ELSE r

\* "Leaving resets ready barrier."
Left(r, p) ==
  Reopened([r EXCEPT !.seat = [s \in Slot |-> IF r.seat[s] = p THEN NoPlayer ELSE r.seat[s]],
                     !.ready = {}])

\* leave_room, first scope: the host's departure dissolves the room.
Leave(q, p, r) ==
  /\ req[q] = Idle
  /\ r \in Live /\ p \in Members(rooms[r])
  /\ IF rooms[r].host = p
       THEN /\ rooms' = [rooms EXCEPT ![r] = NoRoom]
            /\ late' = [late EXCEPT ![r] = {}]
            /\ idle' = idle \ {r}
            /\ told' = [told EXCEPT ![r] = {}]
       ELSE LET x == Left(rooms[r], p) IN
            /\ Update(r, x, p)
            /\ told' = [told EXCEPT ![r] = IF x.session = NoSession THEN {} ELSE @]
  /\ req' = [req EXCEPT ![q] = [at |-> "clear", who |-> p, room |-> NoRoom, to |-> {}]]
  /\ MailUnchanged

all_ready(r) == Cardinality(Members(r)) = SlotCount /\ Members(r) \subseteq r.ready

\* Mutant of Started: every vote draws a session id.
StartedAnew(r, id) == [r EXCEPT !.status = "starting", !.session = id]

Started(r, id) ==
  [r EXCEPT !.status = "starting", !.session = IF @ = NoSession THEN id ELSE @]

SetReady(p, r, ready, id) ==
  LET voted == [rooms[r] EXCEPT !.ready = IF ready THEN @ \cup {p} ELSE @ \ {p}]
      x     == IF all_ready(voted) THEN Started(voted, id) ELSE Reopened(voted) IN
  /\ r \in Live /\ p \in Members(rooms[r])
  /\ rooms[r].status \in {"open", "starting"}
  /\ Update(r, x, p)
  /\ Tell(r, x, p)
  /\ UNCHANGED req /\ MailUnchanged

Heartbeat(p, r) ==
  /\ r \in Live /\ p \in Members(rooms[r])
  /\ Update(r, rooms[r], p)
  /\ UNCHANGED <<told, req>> /\ MailUnchanged

MarkRunning(p, r) ==
  LET x == [rooms[r] EXCEPT !.status = "running"] IN
  /\ r \in Live
  /\ rooms[r].host = p
  /\ rooms[r].status = "starting"
  /\ rooms' = [rooms EXCEPT ![r] = x]
  /\ idle' = idle \ {r}
  /\ Tell(r, x, p)
  /\ UNCHANGED <<late, req>> /\ MailUnchanged

GetRoom(p, r) ==
  /\ r \in Live /\ p \in Members(rooms[r])
  /\ Tell(r, rooms[r], p)
  /\ UNCHANGED <<rooms, late, idle, req>> /\ MailUnchanged

-----------------------------------------------------------------------------
(* Time and the janitor *)

\* The clock: a member falls silent, or a room sees no update for too long.
FallSilent(p, r) ==
  /\ r \in Live /\ p \in Members(rooms[r]) \ late[r]
  /\ late' = [late EXCEPT ![r] = @ \cup {p}]
  /\ UNCHANGED <<rooms, idle, told, req>> /\ MailUnchanged

FallIdle(r) ==
  /\ r \in Live \ idle
  /\ idle' = idle \cup {r}
  /\ UNCHANGED <<rooms, late, told, req>> /\ MailUnchanged

\* The silent are dropped; the votes, the status and the session are kept.
Dropped(r, silent) ==
  [r EXCEPT !.seat = [s \in Slot |-> IF r.seat[s] \in silent THEN NoPlayer ELSE r.seat[s]],
            !.ready = @ \ silent]

\* Mutant of Dead: a room may lose its host.
DeadOnlyEmpty(r) == Members(Dropped(rooms[r], late[r])) = {} \/ r \in idle

\* A room goes with its host, hence with its last member, or when it is idle.
Dead(r) == rooms[r].host \notin Members(Dropped(rooms[r], late[r])) \/ r \in idle

\* purge_stale, every five seconds.
PurgeStale ==
  /\ \E r \in Live : late[r] # {} \/ r \in idle
  /\ rooms' = [r \in RoomId |-> IF r \notin Live \/ Dead(r) THEN NoRoom
                                ELSE Dropped(rooms[r], late[r])]
  /\ told' = [r \in RoomId |-> IF r \notin Live \/ Dead(r) THEN {} ELSE told[r]]
  /\ late' = [r \in RoomId |-> {}]
  /\ idle' = {}
  /\ UNCHANGED req /\ MailUnchanged

-----------------------------------------------------------------------------
(* Signals *)

\* Mutant of push_to: nothing is evicted.
push_to_unbounded(box, e) == Append(box, e)

\* SignalStore::push_to: a full mailbox loses its oldest signal.
push_to(box, e) == Append(IF Len(box) >= MAX_QUEUED THEN Tail(box) ELSE box, e)

\* post_signal: the sender and the target are members, by the rooms' lock ...
PostSignal(q, p, r, to) ==
  /\ req[q] = Idle
  /\ posts < MaxPosts
  /\ r \in Live /\ p \in Members(rooms[r])
  /\ \/ \E t \in Members(rooms[r]) : to = {t}
     \/ to = Members(rooms[r]) \ {p}
  /\ req' = [req EXCEPT ![q] = [at |-> "push", who |-> p, room |-> r, to |-> to]]
  /\ UNCHANGED <<rooms, late, idle, told>> /\ MailUnchanged

\* ... and the signal goes into their mailboxes, by the mailboxes' lock.
PushSignal(q) ==
  LET e == [room |-> req[q].room, n |-> posts + 1] IN
  /\ req[q].at = "push"
  /\ posts < MaxPosts
  /\ posts' = posts + 1
  /\ mail' = [p \in Player |-> IF p \in req[q].to THEN push_to(mail[p], e) ELSE mail[p]]
  /\ req' = [req EXCEPT ![q] = Idle]
  /\ UNCHANGED <<rooms, late, idle, told, got>>

\* get_signals: the caller is a member ...
GetSignals(q, p, r) ==
  /\ req[q] = Idle
  /\ r \in Live /\ p \in Members(rooms[r])
  /\ req' = [req EXCEPT ![q] = [at |-> "drain", who |-> p, room |-> r, to |-> {}]]
  /\ UNCHANGED <<rooms, late, idle, told>> /\ MailUnchanged

\* Mutants of Others: everything stays in the mailbox, or nothing does.
OthersAll(box, r)  == box
OthersNone(box, r) == <<>>

\* The signals of other rooms, pushed back one by one in the order they were in.
Others(box, r) ==
  LET others[i \in 0 .. Len(box)] ==
        IF i = 0 THEN <<>>
        ELSE IF box[i].room = r THEN others[i - 1] ELSE push_to(others[i - 1], box[i])
  IN  others[Len(box)]

\* ... and is handed what its mailbox holds for that room.
Drain(q) ==
  LET p      == req[q].who
      r      == req[q].room
      handed == {e.n : e \in {f \in ToSet(mail[p]) : f.room = r}} IN
  /\ req[q].at = "drain"
  /\ mail' = [mail EXCEPT ![p] = Others(@, r)]
  /\ got' = IF handed = {} THEN got ELSE [got EXCEPT ![p][r] = Max(handed)]
  /\ req' = [req EXCEPT ![q] = Idle]
  /\ UNCHANGED <<rooms, late, idle, told, posts>>

\* leave_room, second scope: the whole mailbox, whichever rooms it is for.
Clear(q) ==
  /\ req[q].at = "clear"
  /\ mail' = [mail EXCEPT ![req[q].who] = <<>>]
  /\ req' = [req EXCEPT ![q] = Idle]
  /\ UNCHANGED <<rooms, late, idle, told, posts, got>>

-----------------------------------------------------------------------------
(* Specification *)

RequestStep(q) == PushSignal(q) \/ Drain(q) \/ Clear(q)

MemberStep(p, r) ==
  \/ Create(p, r)
  \/ \E s \in Slot : Join(p, r, s)
  \/ \E q \in Request : Leave(q, p, r)

StartStep(p, r) ==
  \/ \E ready \in BOOLEAN, id \in SessionId : SetReady(p, r, ready, id)
  \/ MarkRunning(p, r) \/ GetRoom(p, r)

SignalStep(p, r) ==
  \E q \in Request :
    GetSignals(q, p, r) \/ \E to \in SUBSET Player : PostSignal(q, p, r, to)

TimeStep(p, r) == Heartbeat(p, r) \/ FallSilent(p, r) \/ FallIdle(r)

HttpNext ==
  \/ \E p \in Player, r \in RoomId :
       \/ MemberStep(p, r)
       \/ "start" \in Ops /\ StartStep(p, r)
       \/ "signal" \in Ops /\ SignalStep(p, r)
       \/ "time" \in Ops /\ TimeStep(p, r)
  \/ \E q \in Request : RequestStep(q)
  \/ PurgeStale

HttpSpec == HttpInit /\ [][HttpNext]_httpVars

\* The janitor's interval ticks for as long as the process runs.
HttpFairSpec == HttpSpec /\ WF_httpVars(PurgeStale)

-----------------------------------------------------------------------------
(* Safety *)

\* Those who were handed a session id of a room may start the session from
\* what they were handed: no two were given one slot, and nobody two.
BootstrapsAgree ==
  \A r \in RoomId : \A x, y \in told[r] : x[1] = y[1] <=> x[2] = y[2]

\* "you_are_sim_authority" goes with slot 0: to the host and to nobody else,
\* whoever is dropped, leaves and joins.
AuthorityIsHost ==
  \A r \in Live :
    /\ rooms[r].seat[0] = rooms[r].host
    /\ \A x \in told[r] : x[2] = 0 => x[1] = rooms[r].host

\* A session once started goes on under its id: late votes, polls and departures
\* do not hand the ones who ask later another id than those who asked before.
SessionStable ==
  [][\A r \in RoomId :
       (/\ r \in Live /\ rooms'[r] # NoRoom
        /\ rooms[r].status # "open" /\ rooms'[r].status # "open")
         => rooms'[r].session = rooms[r].session]_httpVars

\* A mailbox hands out the signals of a room once, in the order they came in,
\* though polls of one room take the others' out and put them back
\* (routes::get_signals, SignalStore::push_to).
SignalsInOrder ==
  \A p \in Player :
    /\ \A i, j \in DOMAIN mail[p] : i < j => mail[p][i].n < mail[p][j].n
    /\ \A i \in DOMAIN mail[p] : mail[p][i].n > got[p][mail[p][i].room]

\* The task whose turn it is to clear p's mailbox has just done so.
Clears(p) == \E q \in Request : req[q].at = "clear" /\ req[q].who = p /\ req'[q] = Idle

\* What becomes of the signals in the mailboxes in one step.
KeepsSignals ==
  \A p \in Player : \A e \in ToSet(mail[p]) :
    e \in ToSet(mail'[p]) \/ got'[p][e.room] >= e.n \/ Clears(p)
    \/ (e = Head(mail[p]) /\ Len(mail[p]) = MAX_QUEUED /\ Len(mail'[p]) = MAX_QUEUED)

\* A signal leaves its mailbox by being handed out, by a leave of its owner, or as
\* the oldest of a full mailbox when another comes in; never when a poll of another
\* room takes it out and puts it back (routes::get_signals, SignalStore::push_to).
SignalsKept == [][KeepsSignals]_httpVars

-----------------------------------------------------------------------------
(* Liveness, under HttpFairSpec *)

\* A host that has fallen silent takes its room with it, unless it is heard from
\* again: nobody is left waiting in a room nobody can start.
SilentHostEnds ==
  \A r \in RoomId :
    (r \in Live /\ rooms[r].host \in late[r])
      ~> (r \notin Live \/ rooms[r].host \in Members(rooms[r]) \ late[r])
=============================================================================
