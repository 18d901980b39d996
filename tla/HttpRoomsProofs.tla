--------------------------- MODULE HttpRoomsProofs ---------------------------
(***************************************************************************)
(* Proofs about the rooms and the mailboxes of HttpRooms, for any number   *)
(* of players, rooms, requests and slots, and mailboxes of any size.       *)
(*                                                                         *)
(* What was told of a session and who sits where are tied by one fact:     *)
(* while there is a session nobody takes a seat.  A seat that was told is  *)
(* then its owner's or empty, and who was told a seat has no other.        *)
(*                                                                         *)
(* A poll puts back what is not for its room one signal at a time.  What   *)
(* is back after i of them is told by induction over i, and an induction   *)
(* here is one over a set: a set of numbers with 0 and with every number's *)
(* successor has them all.                                                 *)
(***************************************************************************)
EXTENDS HttpRooms, TLAPS, WellFoundedInduction

-----------------------------------------------------------------------------
(* The inductive invariant *)

\* Nobody has two seats.
OneSeat(seat) ==
  \A s, t \in Slot : seat[s] = seat[t] /\ seat[s] # NoPlayer => s = t

\* There is a session exactly while the room takes no players.
SessionByStatus(x) == x.status = "open" <=> x.session = NoSession

\* What was told in T agrees with the seats: the seat is still its owner's, or
\* empty, and the owner has no other.
ToldSeats(seat, T) ==
  \A p \in Player, s \in Slot :
    <<p, s>> \in T =>
      /\ seat[s] = p \/ seat[s] = NoPlayer
      /\ \A t \in Slot : seat[t] = p => t = s

\* What was told in T agrees with itself.
ToldOnce(T) ==
  \A p, q \in Player, s, t \in Slot :
    <<p, s>> \in T /\ <<q, t>> \in T => (p = q <=> s = t)

Sound(x, T) ==
  /\ x \in Room
  /\ T \in SUBSET (Player \X Slot)
  /\ x.seat[0] = x.host
  /\ OneSeat(x.seat)
  /\ SessionByStatus(x)
  /\ x.session = NoSession => T = {}
  /\ ToldSeats(x.seat, T)
  /\ ToldOnce(T)

RoomsInv ==
  /\ rooms \in [RoomId -> Room \cup {NoRoom}]
  /\ told \in [RoomId -> SUBSET (Player \X Slot)]
  /\ \A r \in RoomId : IF rooms[r] = NoRoom THEN told[r] = {}
                       ELSE Sound(rooms[r], told[r])

-----------------------------------------------------------------------------
(* Rooms: what the helpers keep *)

LEMMA SlotZero == 0 \in Slot /\ Slot \subseteq Nat
BY HttpConstants DEF Slot

\* A new room is sound, nobody having been told anything.
LEMMA NewSound ==
  ASSUME NEW p \in Player
  PROVE  Sound([status |-> "open", host |-> p,
                seat |-> [s \in Slot |-> IF s = 0 THEN p ELSE NoPlayer],
                ready |-> {}, session |-> NoSession], {})
BY SlotZero, HttpConstants DEF Sound, Room, OneSeat, SessionByStatus, ToldSeats, ToldOnce

\* A player nobody knows takes a seat nobody has, in a room without a session.
LEMMA JoinSound ==
  ASSUME NEW x, NEW T, Sound(x, T), NEW p \in Player, NEW s \in Slot,
         x.status = "open", p \notin Members(x), IsFree(x, s)
  PROVE  Sound([x EXCEPT !.seat[s] = p], T)
<1> DEFINE y == [x EXCEPT !.seat[s] = p]
<1>1. y \in Room
  BY DEF Sound, Room
<1>2. /\ y.seat = [x.seat EXCEPT ![s] = p] /\ y.host = x.host
      /\ y.status = x.status /\ y.session = x.session
  BY DEF Sound, Room
<1>3. x.seat \in [Slot -> Player \cup {NoPlayer}] /\ x.host \in Player
  BY DEF Sound, Room
<1>4. s # 0
  BY <1>3, HttpConstants DEF Sound, IsFree
<1>5. y.seat[0] = y.host
  BY <1>2, <1>3, <1>4, SlotZero DEF Sound
<1>6. \A t \in Slot : x.seat[t] # p
  BY HttpConstants DEF Members
<1>7. OneSeat(y.seat)
  BY <1>2, <1>3, <1>6 DEF OneSeat, Sound
<1>8. T = {}
  BY DEF Sound, SessionByStatus
<1>9. ToldSeats(y.seat, T) /\ ToldOnce(T)
  BY <1>8 DEF ToldSeats, ToldOnce
<1>10. SessionByStatus(y)
  BY <1>2 DEF Sound, SessionByStatus
<1> QED
  BY <1>1, <1>2, <1>5, <1>7, <1>8, <1>9, <1>10 DEF Sound

\* Seats fall vacant, the host's aside, and nothing told is contradicted.
LEMMA VacateSound ==
  ASSUME NEW x, NEW T, Sound(x, T), NEW y \in Room,
         NEW Gone, x.host \notin Gone,
         y.seat = [s \in Slot |-> IF x.seat[s] \in Gone THEN NoPlayer ELSE x.seat[s]],
         y.host = x.host, y.status = x.status, y.session = x.session
  PROVE  Sound(y, T)
<1>1. x.seat \in [Slot -> Player \cup {NoPlayer}] /\ x.host \in Player
  BY DEF Sound, Room
<1>2. \A s \in Slot : y.seat[s] = x.seat[s] \/ y.seat[s] = NoPlayer
  OBVIOUS
<1>3. y.seat[0] = y.host
  BY SlotZero DEF Sound
<1>4. OneSeat(y.seat)
  BY <1>2 DEF OneSeat, Sound
<1>5. SessionByStatus(y)
  BY DEF Sound, SessionByStatus
<1>6. ToldSeats(x.seat, T)
  BY DEF Sound
<1>7. ToldSeats(y.seat, T)
  BY <1>2, <1>6, HttpConstants DEF ToldSeats
<1> QED
  BY <1>3, <1>4, <1>5, <1>7 DEF Sound

\* A room that changes neither seats nor host, nor status or session.
LEMMA SameSound ==
  ASSUME NEW x, NEW T, Sound(x, T), NEW y \in Room,
         y.seat = x.seat, y.host = x.host, y.session = x.session,
         SessionByStatus(y)
  PROVE  Sound(y, T)
BY DEF Sound

\* A room that reopens has no session, and starts from nothing told.
LEMMA ReopenSound ==
  ASSUME NEW x, NEW T, Sound(x, T)
  PROVE  /\ Reopened(x) \in Room
         /\ Reopened(x).session = NoSession => Sound(Reopened(x), {})
         /\ Reopened(x).session # NoSession => Reopened(x) = x
<1>1. CASE x.status = "starting"
  <2> DEFINE y == [x EXCEPT !.status = "open", !.session = NoSession]
  <2>1. /\ y \in Room /\ y.seat = x.seat /\ y.host = x.host
        /\ y.status = "open" /\ y.session = NoSession
    BY DEF Sound, Room
  <2>2. Sound(y, {})
    BY <2>1 DEF Sound, SessionByStatus, ToldSeats, ToldOnce
  <2>3. Reopened(x) = y
    BY <1>1 DEF Reopened
  <2> QED BY <2>1, <2>2, <2>3
<1>2. CASE x.status # "starting"
  BY <1>2 DEF Reopened, Sound
<1> QED BY <1>1, <1>2

\* The room all are ready in starts: under its session, or under a new one.
LEMMA StartSound ==
  ASSUME NEW x, NEW T, Sound(x, T), NEW id \in SessionId,
         x.status \in {"open", "starting"}
  PROVE  /\ Sound(Started(x, id), T)
         /\ Started(x, id).session # NoSession
         /\ Started(x, id).session # x.session => x.session = NoSession
<1> DEFINE y == Started(x, id)
<1>1. /\ y \in Room /\ y.seat = x.seat /\ y.host = x.host
      /\ y.status = "starting"
      /\ y.session = IF x.session = NoSession THEN id ELSE x.session
  BY DEF Started, Sound, Room
<1>2. y.session # NoSession
  BY <1>1, HttpConstants
<1>3. Sound(y, T)
  BY <1>1, <1>2 DEF Sound, SessionByStatus
<1> QED
  BY <1>1, <1>2, <1>3

\* A player is told the seat it has.
LEMMA TellSound ==
  ASSUME NEW x, NEW T, Sound(x, T), NEW p \in Player, x.session # NoSession
  PROVE  Sound(x, T \cup {<<p, s>> : s \in SlotsOf(x, p)})
<1> DEFINE U == T \cup {<<p, s>> : s \in SlotsOf(x, p)}
<1>1. U \in SUBSET (Player \X Slot)
  BY DEF Sound, SlotsOf
<1>2. \A q \in Player, s \in Slot :
        <<q, s>> \in U <=> <<q, s>> \in T \/ (q = p /\ x.seat[s] = p)
  BY DEF SlotsOf
<1>3. \A s, t \in Slot : x.seat[s] = p /\ x.seat[t] = p => s = t
  BY HttpConstants DEF Sound, OneSeat
<1>4. ToldSeats(x.seat, T) /\ ToldOnce(T)
  BY DEF Sound
<1> HIDE DEF U
<1>5. ToldSeats(x.seat, U)
  BY <1>2, <1>3, <1>4 DEF ToldSeats
<1>6. ToldOnce(U)
  <2> SUFFICES ASSUME NEW q1 \in Player, NEW q2 \in Player, NEW s \in Slot, NEW t \in Slot,
                      <<q1, s>> \in U, <<q2, t>> \in U
               PROVE  q1 = q2 <=> s = t
    BY DEF ToldOnce
  <2>1. CASE <<q1, s>> \in T /\ <<q2, t>> \in T
    BY <2>1, <1>4 DEF ToldOnce
  <2>2. CASE <<q1, s>> \in T /\ q2 = p /\ x.seat[t] = p
    BY <2>2, <1>4, HttpConstants DEF ToldSeats
  <2>3. CASE <<q2, t>> \in T /\ q1 = p /\ x.seat[s] = p
    BY <2>3, <1>4, HttpConstants DEF ToldSeats
  <2>4. CASE q1 = p /\ x.seat[s] = p /\ q2 = p /\ x.seat[t] = p
    BY <2>4, <1>3
  <2> QED
    BY <1>2, <2>1, <2>2, <2>3, <2>4
<1> QED
  BY <1>1, <1>5, <1>6 DEF Sound, U

-----------------------------------------------------------------------------
(* The invariant is kept *)

\* What one room of the registry becomes, the others being left alone.
LEMMA OneRoomChanges ==
  ASSUME RoomsInv, NEW r \in RoomId, NEW x \in Room \cup {NoRoom}, NEW T,
         rooms' = [rooms EXCEPT ![r] = x], told' = [told EXCEPT ![r] = T],
         IF x = NoRoom THEN T = {} ELSE Sound(x, T)
  PROVE  RoomsInv'
<1>1. T \in SUBSET (Player \X Slot)
  BY DEF Sound
<1> QED
  BY <1>1 DEF RoomsInv

\* A live room is sound.
LEMMA LiveSound ==
  ASSUME RoomsInv, NEW r \in Live
  PROVE  r \in RoomId /\ Sound(rooms[r], told[r]) /\ rooms[r] \in Room
BY DEF Live, RoomsInv, Sound

\* The room a request was about becomes x, and its player is told of it.
LEMMA ToldRoomChanges ==
  ASSUME RoomsInv, NEW r \in Live, NEW x, NEW p \in Player,
         rooms' = [rooms EXCEPT ![r] = x], Tell(r, x, p),
         x.session = NoSession => Sound(x, {}),
         x.session # NoSession => Sound(x, told[r]),
         x.session # NoSession /\ x.session # rooms[r].session => told[r] = {}
  PROVE  RoomsInv'
<1> USE LiveSound
<1>1. x \in Room /\ x # NoRoom
  BY NoRoomIsNoRoom DEF Sound
<1>2. CASE x.session = NoSession
  <2>1. told' = [told EXCEPT ![r] = {}]
    BY <1>2 DEF Tell
  <2> QED BY <1>1, <1>2, <2>1, OneRoomChanges
<1>3. CASE x.session # NoSession
  <2> DEFINE U == told[r] \cup {<<p, s>> : s \in SlotsOf(x, p)}
  <2>1. told' = [told EXCEPT ![r] = U]
    BY <1>3 DEF Tell, RoomsInv
  <2>2. Sound(x, U)
    BY <1>3, TellSound
  <2> HIDE DEF U
  <2> QED BY <1>1, <2>1, <2>2, OneRoomChanges
<1> QED BY <1>2, <1>3

\* A vote that does not complete the line-up, or completes it.
LEMMA SetReadyKeeps ==
  ASSUME RoomsInv, NEW p \in Player, NEW r \in RoomId, NEW ready \in BOOLEAN,
         NEW id \in SessionId, SetReady(p, r, ready, id)
  PROVE  RoomsInv'
<1> DEFINE voted == [rooms[r] EXCEPT !.ready = IF ready THEN @ \cup {p} ELSE @ \ {p}]
           x     == IF all_ready(voted) THEN Started(voted, id) ELSE Reopened(voted)
<1>1. /\ r \in Live /\ rooms[r].status \in {"open", "starting"}
      /\ rooms' = [rooms EXCEPT ![r] = x] /\ Tell(r, x, p)
  BY DEF SetReady, Update
<1>2. Sound(rooms[r], told[r]) /\ rooms[r] \in Room
  BY <1>1, LiveSound
<1>3. /\ voted \in Room /\ voted.seat = rooms[r].seat /\ voted.host = rooms[r].host
      /\ voted.status = rooms[r].status /\ voted.session = rooms[r].session
  BY <1>2 DEF Room
<1>4. Sound(voted, told[r])
  BY <1>2, <1>3, SameSound DEF Sound, SessionByStatus
<1> HIDE DEF voted
<1>5. CASE all_ready(voted)
  <2>1. /\ Sound(x, told[r]) /\ x.session # NoSession
        /\ x.session # voted.session => voted.session = NoSession
    BY <1>1, <1>3, <1>4, <1>5, StartSound
  <2>2. x.session # rooms[r].session => told[r] = {}
    BY <1>2, <1>3, <2>1 DEF Sound
  <2> HIDE DEF x
  <2> QED BY <1>1, <2>1, <2>2, ToldRoomChanges
<1>6. CASE ~all_ready(voted)
  <2>1. /\ x.session = NoSession => Sound(x, {})
        /\ x.session # NoSession => x = voted
    BY <1>4, <1>6, ReopenSound
  <2> HIDE DEF x
  <2> QED BY <1>1, <1>3, <1>4, <2>1, ToldRoomChanges
<1> QED BY <1>5, <1>6

\* The host's departure ends the room; another's may reopen it.
LEMMA LeaveKeeps ==
  ASSUME RoomsInv, NEW q \in Request, NEW p \in Player, NEW r \in RoomId, Leave(q, p, r)
  PROVE  RoomsInv'
<1>1. r \in Live /\ Sound(rooms[r], told[r]) /\ rooms[r] \in Room
  BY LiveSound DEF Leave
<1>2. CASE rooms[r].host = p
  BY <1>2, OneRoomChanges DEF Leave
<1>3. CASE rooms[r].host # p
  <2> DEFINE gone == [rooms[r] EXCEPT
                        !.seat = [s \in Slot |-> IF rooms[r].seat[s] = p THEN NoPlayer
                                                 ELSE rooms[r].seat[s]],
                        !.ready = {}]
             x    == Left(rooms[r], p)
             T    == IF x.session = NoSession THEN {} ELSE told[r]
  <2>1. /\ rooms' = [rooms EXCEPT ![r] = x] /\ told' = [told EXCEPT ![r] = T]
    BY <1>3 DEF Leave, Update, RoomsInv
  <2>2. /\ gone \in Room
        /\ gone.seat = [s \in Slot |-> IF rooms[r].seat[s] \in {p} THEN NoPlayer
                                       ELSE rooms[r].seat[s]]
        /\ gone.host = rooms[r].host /\ gone.status = rooms[r].status
        /\ gone.session = rooms[r].session
    BY <1>1 DEF Room
  <2>3. x = Reopened(gone)
    BY DEF Left
  <2> HIDE DEF gone, x
  <2>4. Sound(gone, told[r])
    BY <1>1, <1>3, <2>2, VacateSound
  <2>5. Sound(x, T)
    BY <2>3, <2>4, ReopenSound
  <2>6. x \in Room /\ x # NoRoom
    BY <2>5, NoRoomIsNoRoom DEF Sound
  <2> HIDE DEF T
  <2> QED BY <2>1, <2>5, <2>6, OneRoomChanges
<1> QED BY <1>2, <1>3

\* The silent lose their seats; a room without its host is no more.
LEMMA PurgeStaleKeeps ==
  ASSUME RoomsInv, PurgeStale
  PROVE  RoomsInv'
<1> SUFFICES ASSUME NEW r \in RoomId
             PROVE  /\ rooms'[r] \in Room \cup {NoRoom}
                    /\ told'[r] \in SUBSET (Player \X Slot)
                    /\ IF rooms'[r] = NoRoom THEN told'[r] = {}
                       ELSE Sound(rooms'[r], told'[r])
  BY DEF PurgeStale, RoomsInv
<1>1. CASE r \notin Live \/ Dead(r)
  BY <1>1 DEF PurgeStale
<1>2. CASE r \in Live /\ ~Dead(r)
  <2> DEFINE x == Dropped(rooms[r], late[r])
  <2>1. rooms'[r] = x /\ told'[r] = told[r]
    BY <1>2 DEF PurgeStale
  <2>2. Sound(rooms[r], told[r]) /\ rooms[r] \in Room
    BY <1>2, LiveSound
  <2>3. /\ x \in Room
        /\ x.seat = [s \in Slot |-> IF rooms[r].seat[s] \in late[r] THEN NoPlayer
                                    ELSE rooms[r].seat[s]]
        /\ x.host = rooms[r].host /\ x.status = rooms[r].status
        /\ x.session = rooms[r].session
    BY <2>2 DEF Dropped, Room
  <2>4. rooms[r].host \in Members(x)
    BY <1>2 DEF Dead
  <2> HIDE DEF x
  <2>5. rooms[r].host \notin late[r]
    BY <2>3, <2>4 DEF Members
  <2>6. Sound(x, told[r])
    BY <2>2, <2>3, <2>5, VacateSound
  <2>7. x # NoRoom /\ told[r] \in SUBSET (Player \X Slot)
    BY <2>3, <2>6, NoRoomIsNoRoom DEF Sound
  <2> QED BY <2>1, <2>3, <2>6, <2>7
<1> QED BY <1>1, <1>2

LEMMA RoomsInvInit == HttpInit => RoomsInv
BY DEF HttpInit, RoomsInv

LEMMA RoomsInvNext == RoomsInv /\ [HttpNext]_httpVars => RoomsInv'
<1> SUFFICES ASSUME RoomsInv, [HttpNext]_httpVars PROVE RoomsInv'
  OBVIOUS
<1> DEFINE Quiet == UNCHANGED <<rooms, told>>
<1>0. Quiet => RoomsInv'
  BY DEF RoomsInv
<1>1. ASSUME NEW p \in Player, NEW r \in RoomId, Create(p, r) PROVE RoomsInv'
  <2> DEFINE x == [status |-> "open", host |-> p,
                   seat |-> [s \in Slot |-> IF s = 0 THEN p ELSE NoPlayer],
                   ready |-> {}, session |-> NoSession]
  <2>1. Sound(x, {})
    BY NewSound
  <2>2. rooms' = [rooms EXCEPT ![r] = x] /\ told' = [told EXCEPT ![r] = {}]
    BY <1>1 DEF Create, Update
  <2> HIDE DEF x
  <2>3. x \in Room /\ x # NoRoom
    BY <2>1, NoRoomIsNoRoom DEF Sound
  <2> QED BY <2>1, <2>2, <2>3, OneRoomChanges
<1>2. ASSUME NEW p \in Player, NEW r \in RoomId, NEW s \in Slot, Join(p, r, s)
      PROVE  RoomsInv'
  <2> DEFINE x == [rooms[r] EXCEPT !.seat[s] = p]
  <2>1. /\ r \in Live /\ rooms[r].status = "open" /\ p \notin Members(rooms[r])
        /\ IsFree(rooms[r], s)
        /\ rooms' = [rooms EXCEPT ![r] = x] /\ told' = told
    BY <1>2 DEF Join, Update
  <2>2. Sound(x, told[r])
    BY <2>1, LiveSound, JoinSound
  <2> HIDE DEF x
  <2>3. x \in Room /\ x # NoRoom /\ told' = [told EXCEPT ![r] = told[r]]
    BY <2>1, <2>2, NoRoomIsNoRoom DEF Sound, RoomsInv
  <2> QED BY <2>1, <2>2, <2>3, OneRoomChanges
<1>3. ASSUME NEW p \in Player, NEW r \in RoomId, MarkRunning(p, r) PROVE RoomsInv'
  <2> DEFINE x == [rooms[r] EXCEPT !.status = "running"]
  <2>1. /\ r \in Live /\ rooms[r].status = "starting"
        /\ rooms' = [rooms EXCEPT ![r] = x] /\ Tell(r, x, p)
    BY <1>3 DEF MarkRunning
  <2>2. Sound(rooms[r], told[r]) /\ rooms[r] \in Room
    BY <2>1, LiveSound
  <2>3. /\ x \in Room /\ x.seat = rooms[r].seat /\ x.host = rooms[r].host
        /\ x.status = "running" /\ x.session = rooms[r].session
    BY <2>2 DEF Room
  <2> HIDE DEF x
  <2>4. Sound(x, told[r]) /\ x.session # NoSession
    BY <2>1, <2>2, <2>3, SameSound DEF Sound, SessionByStatus
  <2> QED BY <2>1, <2>3, <2>4, ToldRoomChanges
<1>4. ASSUME NEW p \in Player, NEW r \in RoomId, GetRoom(p, r) PROVE RoomsInv'
  <2>1. r \in Live /\ Tell(r, rooms[r], p) /\ rooms' = rooms
    BY <1>4 DEF GetRoom
  <2>2. Sound(rooms[r], told[r])
    BY <2>1, LiveSound
  <2>3. rooms' = [rooms EXCEPT ![r] = rooms[r]]
    BY <2>1 DEF RoomsInv
  <2>4. rooms[r].session = NoSession => Sound(rooms[r], {})
    BY <2>2 DEF Sound
  <2> QED BY <2>1, <2>2, <2>3, <2>4, ToldRoomChanges
<1>5. ASSUME NEW p \in Player, NEW r \in RoomId, Heartbeat(p, r) PROVE RoomsInv'
  BY <1>0, <1>5 DEF Heartbeat, Update, RoomsInv
<1>6. ASSUME NEW p \in Player, NEW r \in RoomId, FallSilent(p, r) \/ FallIdle(r)
      PROVE  RoomsInv'
  BY <1>0, <1>6 DEF FallSilent, FallIdle
<1>7. ASSUME NEW p \in Player, NEW r \in RoomId, SignalStep(p, r) PROVE RoomsInv'
  BY <1>0, <1>7 DEF SignalStep, GetSignals, PostSignal
<1>8. ASSUME NEW q \in Request, RequestStep(q) PROVE RoomsInv'
  BY <1>0, <1>8 DEF RequestStep, PushSignal, Drain, Clear
<1>9. CASE UNCHANGED httpVars
  BY <1>0, <1>9 DEF httpVars
<1> QED
  BY <1>1, <1>2, <1>3, <1>4, <1>5, <1>6, <1>7, <1>8, <1>9,
     SetReadyKeeps, LeaveKeeps, PurgeStaleKeeps
  DEF HttpNext, MemberStep, StartStep, TimeStep

\* The registry is sound in every state: rooms.rs, every lock scope.
THEOREM RoomsInvAlways == HttpSpec => []RoomsInv
BY RoomsInvInit, RoomsInvNext, PTL DEF HttpSpec

-----------------------------------------------------------------------------
(* What follows *)

\* Of those who were handed the session id of a room no two have one slot, and
\* nobody two: bootstrap_for and RoomView::from_room, whoever is dropped by the
\* janitor, leaves or votes in between.
THEOREM BootstrapsAgreeAlways == HttpSpec => []BootstrapsAgree
<1>1. RoomsInv => BootstrapsAgree
  <2> SUFFICES ASSUME RoomsInv, NEW r \in RoomId, NEW x \in told[r], NEW y \in told[r]
               PROVE  x[1] = y[1] <=> x[2] = y[2]
    BY DEF BootstrapsAgree
  <2>1. Sound(rooms[r], told[r])
    BY DEF RoomsInv
  <2>2. /\ x[1] \in Player /\ x[2] \in Slot /\ x = <<x[1], x[2]>>
        /\ y[1] \in Player /\ y[2] \in Slot /\ y = <<y[1], y[2]>>
    BY <2>1 DEF Sound
  <2>3. ToldOnce(told[r]) /\ <<x[1], x[2]>> \in told[r] /\ <<y[1], y[2]>> \in told[r]
    BY <2>1, <2>2 DEF Sound
  <2> QED
    BY <2>2, <2>3 DEF ToldOnce
<1> QED
  BY <1>1, RoomsInvAlways, PTL

\* Slot 0, which is the simulation's authority, is the host's and is told to
\* nobody else: leave and purge_stale dissolve a room that loses its host.
THEOREM AuthorityIsHostAlways == HttpSpec => []AuthorityIsHost
<1>1. RoomsInv => AuthorityIsHost
  <2> SUFFICES ASSUME RoomsInv, NEW r \in Live
               PROVE  /\ rooms[r].seat[0] = rooms[r].host
                      /\ \A x \in told[r] : x[2] = 0 => x[1] = rooms[r].host
    BY DEF AuthorityIsHost
  <2>1. Sound(rooms[r], told[r]) /\ rooms[r] \in Room
    BY LiveSound
  <2>2. rooms[r].seat[0] = rooms[r].host /\ rooms[r].host \in Player
    BY <2>1 DEF Sound, Room
  <2>3. ASSUME NEW x \in told[r], x[2] = 0 PROVE x[1] = rooms[r].host
    <3>1. x[1] \in Player /\ x = <<x[1], x[2]>> /\ ToldSeats(rooms[r].seat, told[r])
      BY <2>1 DEF Sound
    <3> QED
      BY <2>2, <2>3, <3>1, SlotZero, HttpConstants DEF ToldSeats
  <2> QED BY <2>2, <2>3
<1> QED
  BY <1>1, RoomsInvAlways, PTL

\* What one step does to the session of a room that was and is started.
StableIn(r) ==
  (/\ r \in Live /\ rooms'[r] # NoRoom
   /\ rooms[r].status # "open" /\ rooms'[r].status # "open")
    => rooms'[r].session = rooms[r].session

LEMMA SetReadyStable ==
  ASSUME RoomsInv, NEW p \in Player, NEW r \in RoomId, NEW ready \in BOOLEAN,
         NEW id \in SessionId, SetReady(p, r, ready, id)
  PROVE  StableIn(r)
<1> DEFINE voted == [rooms[r] EXCEPT !.ready = IF ready THEN @ \cup {p} ELSE @ \ {p}]
           x     == IF all_ready(voted) THEN Started(voted, id) ELSE Reopened(voted)
<1>1. r \in Live /\ rooms'[r] = x
  BY DEF SetReady, Update, RoomsInv
<1>2. Sound(rooms[r], told[r]) /\ rooms[r] \in Room
  BY <1>1, LiveSound
<1>3. /\ voted \in Room
      /\ voted.status = rooms[r].status /\ voted.session = rooms[r].session
  BY <1>2 DEF Room
<1> HIDE DEF voted
<1>4. CASE all_ready(voted)
  BY <1>1, <1>2, <1>3, <1>4 DEF StableIn, Started, Room, Sound, SessionByStatus
<1>5. CASE ~all_ready(voted)
  BY <1>1, <1>3, <1>5 DEF StableIn, Reopened, Room
<1> QED BY <1>4, <1>5

LEMMA LeaveStable ==
  ASSUME RoomsInv, NEW q \in Request, NEW p \in Player, NEW r \in RoomId, Leave(q, p, r)
  PROVE  StableIn(r)
<1>1. r \in Live /\ rooms[r] \in Room
  BY LiveSound DEF Leave
<1>2. CASE rooms[r].host = p
  BY <1>2 DEF Leave, StableIn, RoomsInv
<1>3. CASE rooms[r].host # p
  <2> DEFINE gone == [rooms[r] EXCEPT
                        !.seat = [s \in Slot |-> IF rooms[r].seat[s] = p THEN NoPlayer
                                                 ELSE rooms[r].seat[s]],
                        !.ready = {}]
  <2>1. gone \in Room /\ gone.status = rooms[r].status /\ gone.session = rooms[r].session
    BY <1>1 DEF Room
  <2>2. rooms'[r] = Reopened(gone)
    BY <1>3 DEF Leave, Left, Update, RoomsInv
  <2> HIDE DEF gone
  <2> QED BY <2>1, <2>2 DEF StableIn, Reopened, Room
<1> QED BY <1>2, <1>3

\* A session goes on under its id: set_ready draws one only for a room without,
\* and leave and set_ready take it away only with the "starting" status.
THEOREM SessionStableAlways == HttpSpec => SessionStable
<1>1. ASSUME RoomsInv, [HttpNext]_httpVars PROVE \A r \in RoomId : StableIn(r)
  <2> SUFFICES ASSUME NEW r \in RoomId PROVE StableIn(r)
    OBVIOUS
  <2>1. rooms'[r] = rooms[r] => StableIn(r)
    BY DEF StableIn
  <2>2. ASSUME NEW p \in Player, NEW o \in RoomId, Create(p, o) PROVE StableIn(r)
    BY <2>1, <2>2, <1>1 DEF Create, Update, RoomIdFree, StableIn, Live, RoomsInv
  <2>3. ASSUME NEW p \in Player, NEW o \in RoomId, NEW s \in Slot, Join(p, o, s)
        PROVE  StableIn(r)
    <3>1. CASE o = r
      BY <1>1, <2>3, <3>1 DEF Join, Update, StableIn, RoomsInv
    <3>2. CASE o # r
      BY <1>1, <2>1, <2>3, <3>2 DEF Join, Update, RoomsInv
    <3> QED BY <3>1, <3>2
  <2>4. ASSUME NEW q \in Request, NEW p \in Player, NEW o \in RoomId, Leave(q, p, o)
        PROVE  StableIn(r)
    <3>1. CASE o # r
      <4>1. \/ rooms' = [rooms EXCEPT ![o] = NoRoom]
            \/ rooms' = [rooms EXCEPT ![o] = Left(rooms[o], p)]
        BY <2>4 DEF Leave, Update
      <4> QED BY <1>1, <2>1, <3>1, <4>1 DEF RoomsInv
    <3> QED BY <1>1, <2>4, <3>1, LeaveStable
  <2>5. ASSUME NEW p \in Player, NEW o \in RoomId, NEW ready \in BOOLEAN,
               NEW id \in SessionId, SetReady(p, o, ready, id)
        PROVE  StableIn(r)
    <3>1. CASE o # r
      <4>1. PICK x : rooms' = [rooms EXCEPT ![o] = x]
        BY <2>5 DEF SetReady, Update
      <4> QED BY <1>1, <2>1, <3>1, <4>1 DEF RoomsInv
    <3> QED BY <1>1, <2>5, <3>1, SetReadyStable
  <2>6. ASSUME NEW p \in Player, NEW o \in RoomId, MarkRunning(p, o) PROVE StableIn(r)
    <3>1. CASE o = r
      <4>1. rooms[r] \in Room /\ rooms'[r] = [rooms[r] EXCEPT !.status = "running"]
        BY <1>1, <2>6, <3>1, LiveSound DEF MarkRunning, RoomsInv
      <4> QED BY <4>1 DEF StableIn, Room
    <3>2. CASE o # r
      BY <1>1, <2>1, <2>6, <3>2 DEF MarkRunning, RoomsInv
    <3> QED BY <3>1, <3>2
  <2>7. CASE PurgeStale
    <3>1. CASE r \in Live /\ ~Dead(r)
      <4>1. rooms[r] \in Room /\ rooms'[r] = Dropped(rooms[r], late[r])
        BY <1>1, <2>7, <3>1, LiveSound DEF PurgeStale
      <4> QED BY <4>1 DEF StableIn, Dropped, Room
    <3> QED BY <2>7, <3>1 DEF PurgeStale, StableIn
  <2>8. ASSUME NEW p \in Player, NEW o \in RoomId,
               GetRoom(p, o) \/ Heartbeat(p, o) \/ FallSilent(p, o) \/ FallIdle(o)
        PROVE  StableIn(r)
    <3>1. rooms' = rooms
      BY <1>1, <2>8 DEF GetRoom, Heartbeat, FallSilent, FallIdle, Update, RoomsInv
    <3> QED BY <2>1, <3>1
  <2>9. ASSUME NEW p \in Player, NEW o \in RoomId, SignalStep(p, o) PROVE StableIn(r)
    BY <2>1, <2>9 DEF SignalStep, GetSignals, PostSignal
  <2>10. ASSUME NEW q \in Request, RequestStep(q) PROVE StableIn(r)
    BY <2>1, <2>10 DEF RequestStep, PushSignal, Drain, Clear
  <2>11. CASE UNCHANGED httpVars
    BY <2>1, <2>11 DEF httpVars
  <2> QED
    BY <1>1, <2>2, <2>3, <2>4, <2>5, <2>6, <2>7, <2>8, <2>9, <2>10, <2>11
    DEF HttpNext, MemberStep, StartStep, TimeStep
<1>2. RoomsInv /\ [HttpNext]_httpVars
        => [\A r \in RoomId :
              (/\ r \in Live /\ rooms'[r] # NoRoom
               /\ rooms[r].status # "open" /\ rooms'[r].status # "open")
                => rooms'[r].session = rooms[r].session]_httpVars
  BY <1>1 DEF StableIn
<1> QED
  BY <1>2, RoomsInvAlways, PTL DEF HttpSpec, SessionStable

-----------------------------------------------------------------------------
(* Induction over the numbers *)

LEMMA LeastOf ==
  ASSUME NEW T \in SUBSET Nat, T # {}
  PROVE  \E n \in T : \A m \in T : n <= m
<1>1. PICK n \in T : \A m \in T : ~(<<m, n>> \in OpToRel(<, Nat))
  BY NatLessThanWellFounded, WFMin
<1>2. \A m \in T : ~(m < n)
  BY <1>1 DEF OpToRel
<1> QED BY <1>2

LEMMA EveryNumber ==
  ASSUME NEW S \in SUBSET Nat, 0 \in S, \A n \in S : n + 1 \in S
  PROVE  S = Nat
<1> SUFFICES ASSUME Nat \ S # {} PROVE FALSE
  OBVIOUS
<1>1. PICK n \in Nat \ S : \A m \in Nat \ S : n <= m
  BY LeastOf
<1>2. n # 0 /\ n - 1 \in Nat
  OBVIOUS
<1>3. n - 1 \in S
  BY <1>1, <1>2
<1> QED BY <1>2, <1>3

\* A set of numbers no greater than some number has a greatest.
LEMMA GreatestOf ==
  ASSUME NEW T \in SUBSET Nat, T # {}, NEW b \in Nat, \A n \in T : n <= b
  PROVE  Max(T) \in T /\ \A n \in T : n <= Max(T)
<1> DEFINE gaps == {b - n : n \in T}
<1>0. PICK t \in T : TRUE
  OBVIOUS
<1>1. gaps \in SUBSET Nat /\ gaps # {}
  <2>1. \A n \in T : b - n \in Nat
    OBVIOUS
  <2>2. b - t \in gaps
    BY <1>0
  <2> QED BY <2>1, <2>2
<1>2. PICK g \in gaps : \A h \in gaps : g <= h
  BY <1>1, LeastOf
<1>3. PICK n \in T : g = b - n
  BY <1>2
<1>4. ASSUME NEW m \in T PROVE n >= m
  <2>1. b - m \in gaps /\ m \in Nat /\ n \in Nat
    OBVIOUS
  <2>2. b - n <= b - m
    BY <1>2, <1>3, <2>1
  <2> QED BY <2>1, <2>2
<1> QED BY <1>4 DEF Max

-----------------------------------------------------------------------------
(* What a poll puts back *)

\* A mailbox in the order its signals came in.
Ascending(box) == \A i, j \in 1 .. Len(box) : i < j => box[i].n < box[j].n

\* The signals put back of the first i.
Back(s, box, r, i) ==
  /\ s \in Seq(Envelope) /\ Len(s) <= i
  /\ \A j \in 1 .. Len(s) : \E k \in 1 .. i : s[j] = box[k] /\ box[k].room # r
  /\ \A k \in 1 .. i : box[k].room # r => \E j \in 1 .. Len(s) : s[j] = box[k]
  /\ Ascending(box) => Ascending(s)

\* A mailbox that is not full takes a signal and loses none.
LEMMA PushRoom ==
  ASSUME NEW s \in Seq(Envelope), NEW e \in Envelope, Len(s) < MAX_QUEUED
  PROVE  /\ push_to(s, e) = Append(s, e) /\ push_to(s, e) \in Seq(Envelope)
         /\ Len(push_to(s, e)) = Len(s) + 1
         /\ \A j \in 1 .. Len(s) : push_to(s, e)[j] = s[j]
         /\ push_to(s, e)[Len(s) + 1] = e
BY HttpConstants DEF push_to

\* One signal more.
LEMMA BackNext ==
  ASSUME NEW box \in Seq(Envelope), Len(box) <= MAX_QUEUED, NEW r,
         NEW i \in 1 .. Len(box), NEW s, Back(s, box, r, i - 1),
         NEW t, t = IF box[i].room = r THEN s ELSE push_to(s, box[i])
  PROVE  Back(t, box, r, i)
<1>1. /\ s \in Seq(Envelope) /\ Len(s) <= i - 1 /\ i # 0 /\ i \in Nat
      /\ \A j \in 1 .. Len(s) : \E k \in 1 .. i - 1 : s[j] = box[k] /\ box[k].room # r
      /\ \A k \in 1 .. i - 1 : box[k].room # r => \E j \in 1 .. Len(s) : s[j] = box[k]
      /\ Ascending(box) => Ascending(s)
      /\ Len(s) \in Nat
  BY DEF Back
<1>2. CASE box[i].room = r
  <2>1. \A k \in 1 .. i : k # i => k \in 1 .. i - 1
    BY <1>1
  <2>2. \A k \in 1 .. i - 1 : k \in 1 .. i
    BY <1>1
  <2>3. \A k \in 1 .. i : box[k].room # r => \E j \in 1 .. Len(t) : t[j] = box[k]
    BY <1>1, <1>2, <2>1
  <2>4. \A j \in 1 .. Len(t) : \E k \in 1 .. i : t[j] = box[k] /\ box[k].room # r
    BY <1>1, <1>2, <2>2
  <2> QED BY <1>1, <1>2, <2>3, <2>4 DEF Back
<1>3. CASE box[i].room # r
  <2>1. t = push_to(s, box[i])
    BY <1>3
  <2>2. box[i] \in Envelope /\ Len(s) < MAX_QUEUED
    BY <1>1, HttpConstants
  <2>3. /\ t \in Seq(Envelope) /\ Len(t) = Len(s) + 1
        /\ \A j \in 1 .. Len(s) : t[j] = s[j]
        /\ t[Len(s) + 1] = box[i]
    BY <1>1, <2>1, <2>2, PushRoom
  <2>4. \A j \in 1 .. Len(t) : j \in 1 .. Len(s) \/ j = Len(s) + 1
    BY <1>1, <2>3
  <2>5. \A j \in 1 .. Len(t) : \E k \in 1 .. i : t[j] = box[k] /\ box[k].room # r
    <3>1. \A k \in 1 .. i - 1 : k \in 1 .. i
      BY <1>1
    <3>2. \A j \in 1 .. Len(s) : \E k \in 1 .. i : t[j] = box[k] /\ box[k].room # r
      BY <1>1, <2>3, <3>1
    <3>3. t[Len(s) + 1] = box[i] /\ i \in 1 .. i
      BY <1>1, <2>3
    <3> QED BY <1>3, <2>4, <3>2, <3>3
  <2>6. ASSUME NEW k \in 1 .. i, box[k].room # r
        PROVE  \E j \in 1 .. Len(t) : t[j] = box[k]
    <3>1. CASE k = i
      BY <1>1, <2>3, <3>1
    <3>2. CASE k # i
      <4>1. PICK j \in 1 .. Len(s) : s[j] = box[k]
        BY <1>1, <2>6, <3>2
      <4> QED BY <1>1, <2>3, <4>1
    <3> QED BY <3>1, <3>2
  <2>7. ASSUME Ascending(box) PROVE Ascending(t)
    <3>1. SUFFICES ASSUME NEW j \in 1 .. Len(t), NEW l \in 1 .. Len(t), j < l
                   PROVE  t[j].n < t[l].n
      BY DEF Ascending
    <3>2. CASE l \in 1 .. Len(s)
      <4>1. j \in 1 .. Len(s)
        BY <1>1, <3>1, <3>2
      <4> QED BY <1>1, <2>3, <2>7, <3>1, <3>2, <4>1 DEF Ascending
    <3>3. CASE l = Len(s) + 1
      <4>1. j \in 1 .. Len(s)
        BY <1>1, <2>4, <3>1, <3>3
      <4>2. PICK k \in 1 .. i - 1 : s[j] = box[k]
        BY <1>1, <4>1
      <4>3. box[k].n < box[i].n
        <5>1. k \in 1 .. Len(box) /\ k < i
          BY <1>1
        <5> QED BY <2>7, <5>1 DEF Ascending
      <4> QED BY <2>3, <3>3, <4>1, <4>2, <4>3
    <3> QED BY <2>4, <3>2, <3>3
  <2>8. Len(t) <= i
    BY <1>1, <2>3
  <2> QED BY <2>3, <2>5, <2>6, <2>7, <2>8 DEF Back
<1> QED BY <1>2, <1>3

\* The loop of get_signals, signal by signal.
Rest(o, box, r, i) ==
  IF i = 0 THEN <<>>
  ELSE IF box[i].room = r THEN o[i - 1] ELSE push_to(o[i - 1], box[i])

\* Such a function as Others is defined by exists, and it puts back what it should.
LEMMA RestExists ==
  ASSUME NEW box \in Seq(Envelope), Len(box) <= MAX_QUEUED, NEW r
  PROVE  \E o : o = [i \in 0 .. Len(box) |-> Rest(o, box, r, i)]
<1> DEFINE Upto(n) == \E o : /\ DOMAIN o = 0 .. n /\ o = [i \in 0 .. n |-> o[i]]
                             /\ \A i \in 0 .. n : o[i] = Rest(o, box, r, i)
           S == {n \in Nat : Upto(n)}
<1>1. 0 \in S
  <2>1. PICK o : o = [i \in 0 .. 0 |-> << >>]
    OBVIOUS
  <2>2. \A i \in 0 .. 0 : o[i] = Rest(o, box, r, i)
    BY <2>1 DEF Rest
  <2>3. Upto(0)
    BY <2>1, <2>2
  <2> QED BY <2>3
<1>2. ASSUME NEW n \in S PROVE n + 1 \in S
  <2>1. PICK o : /\ DOMAIN o = 0 .. n
                 /\ \A i \in 0 .. n : o[i] = Rest(o, box, r, i)
    OBVIOUS
  <2>2. PICK p : p = [i \in 0 .. n + 1 |-> IF i = n + 1 THEN Rest(o, box, r, n + 1) ELSE o[i]]
    OBVIOUS
  <2>3. \A i \in 0 .. n : p[i] = o[i]
    BY <2>2
  <2>4. ASSUME NEW i \in 0 .. n + 1 PROVE p[i] = Rest(p, box, r, i)
    <3>1. i # 0 => p[i - 1] = o[i - 1]
      BY <2>3
    <3>2. Rest(p, box, r, i) = Rest(o, box, r, i)
      BY <3>1 DEF Rest
    <3>3. CASE i = n + 1
      BY <2>2, <3>2, <3>3
    <3>4. CASE i # n + 1
      BY <2>1, <2>3, <3>2, <3>4
    <3> QED BY <3>3, <3>4
  <2>5. DOMAIN p = 0 .. n + 1 /\ p = [i \in 0 .. n + 1 |-> p[i]]
    BY <2>2
  <2>6. Upto(n + 1)
    BY <2>4, <2>5
  <2> QED BY <2>6
<1>3. S = Nat
  <2> HIDE DEF S
  <2>1. S \in SUBSET Nat
    BY DEF S
  <2> QED BY <1>1, <1>2, <2>1, EveryNumber
<1>4. Upto(Len(box))
  BY <1>3
<1>5. PICK o : /\ o = [i \in 0 .. Len(box) |-> o[i]]
               /\ \A i \in 0 .. Len(box) : o[i] = Rest(o, box, r, i)
  BY <1>4
<1>6. o = [i \in 0 .. Len(box) |-> Rest(o, box, r, i)]
  BY <1>5
<1> QED BY <1>6

\* What a poll puts back is what is not for its room, in the order it was in.
LEMMA OthersBack ==
  ASSUME NEW box \in Seq(Envelope), Len(box) <= MAX_QUEUED, NEW r
  PROVE  Back(Others(box, r), box, r, Len(box))
<1> DEFINE o == CHOOSE f : f = [i \in 0 .. Len(box) |-> Rest(f, box, r, i)]
<1>0. Others(box, r) = o[Len(box)]
  BY DEF Others, Rest
<1>1. o = [i \in 0 .. Len(box) |-> Rest(o, box, r, i)]
  BY RestExists
<1> HIDE DEF o
<1>2. \A i \in 0 .. Len(box) : o[i] = Rest(o, box, r, i)
  BY <1>1
<1> DEFINE S == {n \in Nat : n <= Len(box) => Back(o[n], box, r, n)}
<1>3. 0 \in S
  <2>1. o[0] = <<>>
    BY <1>2 DEF Rest
  <2>2. Back(<<>>, box, r, 0)
    BY DEF Back, Ascending
  <2> QED BY <2>1, <2>2
<1>4. ASSUME NEW n \in S PROVE n + 1 \in S
  <2> SUFFICES ASSUME n + 1 <= Len(box) PROVE Back(o[n + 1], box, r, n + 1)
    OBVIOUS
  <2>1. Back(o[n], box, r, n) /\ n + 1 \in 1 .. Len(box) /\ (n + 1) - 1 = n
    OBVIOUS
  <2>2. o[n + 1] = IF box[n + 1].room = r THEN o[n] ELSE push_to(o[n], box[n + 1])
    BY <1>2, <2>1 DEF Rest
  <2> QED BY <2>1, <2>2, BackNext
<1>5. S = Nat
  <2> HIDE DEF S
  <2>1. S \in SUBSET Nat
    BY DEF S
  <2> QED BY <1>3, <1>4, <2>1, EveryNumber
<1>6. Len(box) \in S
  BY <1>5
<1> QED BY <1>0, <1>6

-----------------------------------------------------------------------------
(* The invariant of the mailboxes *)

\* A mailbox and what was handed out of it, when n signals were delivered.
BoxSound(box, g, n) ==
  /\ box \in Seq(Envelope) /\ Len(box) <= MAX_QUEUED
  /\ g \in [RoomId -> Nat] /\ \A r \in RoomId : g[r] <= n
  /\ Ascending(box)
  /\ \A i \in 1 .. Len(box) : box[i].n <= n /\ box[i].n > g[box[i].room]

\* A request that goes on has a player and a room to go on with.
WorkSound(w) ==
  /\ w \in Work
  /\ w.at \in {"push", "drain"} => w.room \in RoomId
  /\ w.at \in {"drain", "clear"} => w.who \in Player

MailInv ==
  /\ mail \in [Player -> Seq(Envelope)]
  /\ posts \in 0 .. MaxPosts
  /\ got \in [Player -> [RoomId -> Nat]]
  /\ req \in [Request -> Work] /\ \A q \in Request : WorkSound(req[q])
  /\ \A p \in Player : BoxSound(mail[p], got[p], posts)

LEMMA BoxTypes ==
  ASSUME NEW box, NEW g, NEW n \in Nat, BoxSound(box, g, n)
  PROVE  /\ box \in Seq(Envelope) /\ Len(box) \in Nat
         /\ \A i \in 1 .. Len(box) :
              /\ box[i] \in Envelope /\ box[i].n \in Nat /\ box[i].room \in RoomId
              /\ g[box[i].room] \in Nat
              /\ box[i].n <= n /\ box[i].n > g[box[i].room]
<1>1. box \in Seq(Envelope) /\ Len(box) \in Nat
  BY DEF BoxSound
<1>2. \A i \in 1 .. Len(box) : box[i] \in Envelope
  BY <1>1
<1>3. \A i \in 1 .. Len(box) : box[i].n \in Nat /\ box[i].room \in RoomId
  BY <1>2 DEF Envelope
<1> QED BY <1>1, <1>2, <1>3 DEF BoxSound

\* A mailbox loses its oldest signal.
LEMMA TailSound ==
  ASSUME NEW box, NEW g, NEW n \in Nat, BoxSound(box, g, n), Len(box) >= 1
  PROVE  /\ BoxSound(Tail(box), g, n) /\ Len(Tail(box)) = Len(box) - 1
         /\ \A i \in 2 .. Len(box) : \E j \in 1 .. Len(Tail(box)) : Tail(box)[j] = box[i]
<1> DEFINE t == Tail(box)
<1>1. /\ t \in Seq(Envelope) /\ Len(t) = Len(box) - 1 /\ Len(box) \in Nat
      /\ \A j \in 1 .. Len(t) : t[j] = box[j + 1] /\ j + 1 \in 1 .. Len(box)
  BY BoxTypes
<1> HIDE DEF t
<1>2. \A j \in 1 .. Len(t) : t[j].n <= n /\ t[j].n > g[t[j].room]
  BY <1>1, BoxTypes
<1>3. Ascending(t)
  <2>1. Ascending(box)
    BY DEF BoxSound
  <2>2. ASSUME NEW i \in 1 .. Len(t), NEW j \in 1 .. Len(t), i < j PROVE t[i].n < t[j].n
    <3>1. /\ i + 1 \in 1 .. Len(box) /\ j + 1 \in 1 .. Len(box) /\ i + 1 < j + 1
          /\ t[i] = box[i + 1] /\ t[j] = box[j + 1]
      BY <1>1, <2>2
    <3>2. box[i + 1].n < box[j + 1].n
      BY <2>1, <3>1 DEF Ascending
    <3> QED BY <3>1, <3>2
  <2> QED BY <2>2 DEF Ascending
<1>4. BoxSound(t, g, n)
  BY <1>1, <1>2, <1>3, HttpConstants DEF BoxSound
<1>5. ASSUME NEW i \in 2 .. Len(box) PROVE \E j \in 1 .. Len(t) : t[j] = box[i]
  <2>1. i - 1 \in 1 .. Len(t) /\ (i - 1) + 1 = i
    BY <1>1
  <2> QED BY <1>1, <2>1
<1> QED BY <1>1, <1>4, <1>5 DEF t

\* A mailbox that is not full takes a signal newer than all others.
LEMMA AppendSound ==
  ASSUME NEW box, NEW g, NEW n \in Nat, BoxSound(box, g, n), Len(box) < MAX_QUEUED,
         NEW e \in Envelope, e.n = n + 1
  PROVE  /\ BoxSound(Append(box, e), g, n + 1) /\ Len(Append(box, e)) = Len(box) + 1
         /\ \A i \in 1 .. Len(box) : Append(box, e)[i] = box[i] /\ i \in 1 .. Len(Append(box, e))
<1> DEFINE t == Append(box, e)
<1>1. /\ t \in Seq(Envelope) /\ Len(t) = Len(box) + 1 /\ Len(box) \in Nat
      /\ \A j \in 1 .. Len(box) : t[j] = box[j]
      /\ t[Len(box) + 1] = e
  BY BoxTypes
<1> HIDE DEF t
<1>2. \A j \in 1 .. Len(t) : j \in 1 .. Len(box) \/ j = Len(box) + 1
  BY <1>1
<1>3. e.room \in RoomId
  BY DEF Envelope
<1>4. g[e.room] \in Nat /\ g[e.room] <= n /\ \A r \in RoomId : g[r] <= n + 1
  BY <1>3 DEF BoxSound
<1>5. \A j \in 1 .. Len(t) : t[j].n <= n + 1 /\ t[j].n > g[t[j].room]
  <2>1. \A j \in 1 .. Len(box) : t[j].n <= n + 1 /\ t[j].n > g[t[j].room]
    BY <1>1, BoxTypes
  <2>2. e.n <= n + 1 /\ e.n > g[e.room]
    BY <1>4
  <2> QED BY <1>1, <1>2, <2>1, <2>2
<1>6. ASSUME NEW i \in 1 .. Len(t), NEW j \in 1 .. Len(t), i < j
      PROVE  t[i].n < t[j].n
  <2>1. i \in 1 .. Len(box)
    BY <1>1, <1>6
  <2>2. CASE j \in 1 .. Len(box)
    BY <1>1, <1>6, <2>1, <2>2 DEF BoxSound, Ascending
  <2>3. CASE j = Len(box) + 1
    <3>1. box[i].n \in Nat /\ box[i].n <= n
      BY <2>1, BoxTypes
    <3> QED BY <1>1, <2>1, <2>3, <3>1
  <2> QED BY <1>2, <2>2, <2>3
<1>7. Ascending(t)
  BY <1>6 DEF Ascending
<1>8. g \in [RoomId -> Nat] /\ Len(t) <= MAX_QUEUED
  BY <1>1, HttpConstants DEF BoxSound
<1>9. BoxSound(t, g, n + 1)
  BY <1>1, <1>4, <1>5, <1>7, <1>8 DEF BoxSound
<1> QED BY <1>1, <1>9 DEF t

\* A signal comes in: nothing is lost but the oldest of a full mailbox.
LEMMA PushSound ==
  ASSUME NEW box, NEW g, NEW n \in Nat, BoxSound(box, g, n),
         NEW e \in Envelope, e.n = n + 1
  PROVE  /\ BoxSound(push_to(box, e), g, n + 1)
         /\ \A i \in 1 .. Len(box) :
              \/ \E j \in 1 .. Len(push_to(box, e)) : push_to(box, e)[j] = box[i]
              \/ /\ i = 1 /\ Len(box) = MAX_QUEUED
                 /\ Len(push_to(box, e)) = MAX_QUEUED
<1>1. Len(box) \in Nat /\ Len(box) <= MAX_QUEUED /\ MAX_QUEUED \in Nat \ {0}
  BY BoxTypes, HttpConstants DEF BoxSound
<1>2. CASE Len(box) < MAX_QUEUED
  <2>1. push_to(box, e) = Append(box, e)
    BY <1>1, <1>2 DEF push_to
  <2> QED BY <1>2, <2>1, AppendSound
<1>3. CASE Len(box) = MAX_QUEUED
  <2> DEFINE t == Tail(box)
  <2>1. push_to(box, e) = Append(t, e)
    BY <1>1, <1>3 DEF push_to
  <2>0. Len(box) >= 1
    BY <1>1, <1>3
  <2>2. /\ BoxSound(t, g, n) /\ Len(t) = Len(box) - 1
        /\ \A i \in 2 .. Len(box) : \E j \in 1 .. Len(t) : t[j] = box[i]
    BY <2>0, TailSound
  <2> HIDE DEF t
  <2>3. /\ BoxSound(Append(t, e), g, n + 1) /\ Len(Append(t, e)) = Len(t) + 1
        /\ \A i \in 1 .. Len(t) : Append(t, e)[i] = t[i] /\ i \in 1 .. Len(Append(t, e))
    BY <1>1, <1>3, <2>2, AppendSound
  <2>4. \A i \in 1 .. Len(box) : i = 1 \/ i \in 2 .. Len(box)
    BY <1>1
  <2>5. \A i \in 2 .. Len(box) : \E j \in 1 .. Len(Append(t, e)) : Append(t, e)[j] = box[i]
    BY <2>2, <2>3
  <2>6. BoxSound(Append(t, e), g, n + 1) /\ Len(Append(t, e)) = MAX_QUEUED
    BY <1>1, <1>3, <2>2, <2>3
  <2> HIDE DEF t
  <2>7. \A i \in 1 .. Len(box) : \/ \E j \in 1 .. Len(Append(t, e)) : Append(t, e)[j] = box[i]
                               \/ i = 1
    BY <2>4, <2>5
  <2> QED BY <1>3, <2>1, <2>6, <2>7
<1> QED BY <1>1, <1>2, <1>3

\* What was handed out of a mailbox for room r.
Handed(box, r) == {e.n : e \in {f \in ToSet(box) : f.room = r}}

LEMMA HandedNumbers ==
  ASSUME NEW box, NEW g, NEW n \in Nat, BoxSound(box, g, n), NEW r
  PROVE  /\ Handed(box, r) \in SUBSET Nat /\ \A k \in Handed(box, r) : k <= n
         /\ \A i \in 1 .. Len(box) : box[i].room = r => box[i].n \in Handed(box, r)
<1>1. DOMAIN box = 1 .. Len(box)
  BY BoxTypes
<1>2. \A e \in ToSet(box) : e.n \in Nat /\ e.n <= n
  BY <1>1, BoxTypes DEF ToSet
<1>3. \A i \in 1 .. Len(box) : box[i] \in ToSet(box)
  BY <1>1 DEF ToSet
<1>4. \A i \in 1 .. Len(box) : box[i].room = r => box[i].n \in Handed(box, r)
  BY <1>3 DEF Handed
<1> QED BY <1>2, <1>4 DEF Handed

\* A poll for room r: what is for r is handed out, the rest is back in its order.
LEMMA DrainSound ==
  ASSUME NEW box, NEW g, NEW n \in Nat, BoxSound(box, g, n), NEW r \in RoomId,
         NEW h, h = IF Handed(box, r) = {} THEN g ELSE [g EXCEPT ![r] = Max(Handed(box, r))]
  PROVE  /\ BoxSound(Others(box, r), h, n)
         /\ \A i \in 1 .. Len(box) :
              \/ \E j \in 1 .. Len(Others(box, r)) : Others(box, r)[j] = box[i]
              \/ h[box[i].room] >= box[i].n
<1> DEFINE t == Others(box, r)
<1>1. box \in Seq(Envelope) /\ Len(box) \in Nat /\ Len(box) <= MAX_QUEUED /\ MAX_QUEUED \in Nat
  BY BoxTypes, HttpConstants DEF BoxSound
<1>2. Back(t, box, r, Len(box))
  BY <1>1, OthersBack
<1> HIDE DEF t
<1>3. /\ t \in Seq(Envelope) /\ Len(t) <= MAX_QUEUED /\ Ascending(t)
      /\ \A j \in 1 .. Len(t) : \E k \in 1 .. Len(box) : t[j] = box[k] /\ box[k].room # r
      /\ \A k \in 1 .. Len(box) : box[k].room # r => \E j \in 1 .. Len(t) : t[j] = box[k]
  BY <1>1, <1>2 DEF Back, BoxSound
<1>4. g \in [RoomId -> Nat] /\ \A k \in RoomId : g[k] <= n
  BY DEF BoxSound
<1>5. /\ Handed(box, r) \in SUBSET Nat /\ \A k \in Handed(box, r) : k <= n
      /\ \A i \in 1 .. Len(box) : box[i].room = r => box[i].n \in Handed(box, r)
  BY HandedNumbers
<1>6. Handed(box, r) # {} =>
        /\ Max(Handed(box, r)) \in Handed(box, r)
        /\ \A k \in Handed(box, r) : k <= Max(Handed(box, r))
  BY <1>5, GreatestOf
<1>7. /\ h \in [RoomId -> Nat] /\ \A k \in RoomId : h[k] <= n
      /\ \A k \in RoomId : k # r => h[k] = g[k]
      /\ \A k \in Handed(box, r) : h[r] >= k
  <2> HIDE DEF Handed
  <2>1. CASE Handed(box, r) = {}
    BY <1>4, <2>1
  <2>2. CASE Handed(box, r) # {}
    <3>1. PICK m \in Nat : /\ m = Max(Handed(box, r)) /\ m <= n
                           /\ \A k \in Handed(box, r) : k <= m
      BY <1>5, <1>6, <2>2
    <3>2. h = [g EXCEPT ![r] = m]
      BY <2>2, <3>1
    <3> QED BY <1>4, <1>5, <3>1, <3>2
  <2> QED BY <2>1, <2>2
<1>8. \A j \in 1 .. Len(t) : t[j].n <= n /\ t[j].n > h[t[j].room]
  <2> SUFFICES ASSUME NEW j \in 1 .. Len(t)
               PROVE  t[j].n <= n /\ t[j].n > h[t[j].room]
    OBVIOUS
  <2>1. PICK k \in 1 .. Len(box) : t[j] = box[k] /\ box[k].room # r
    BY <1>3
  <2>2. /\ box[k].room \in RoomId /\ box[k].n <= n /\ box[k].n > g[box[k].room]
    BY BoxTypes
  <2> QED BY <1>7, <2>1, <2>2
<1>9. BoxSound(t, h, n)
  BY <1>3, <1>7, <1>8 DEF BoxSound
<1>10. \A i \in 1 .. Len(box) :
         (\E j \in 1 .. Len(t) : t[j] = box[i]) \/ h[box[i].room] >= box[i].n
  BY <1>3, <1>5, <1>7
<1> QED BY <1>9, <1>10 DEF t

-----------------------------------------------------------------------------
(* The mailboxes in a step *)

\* What KeepsSignals says of the signals of p, by where they are in its mailbox.
BoxKept(p) ==
  \A i \in 1 .. Len(mail[p]) :
    \/ \E j \in 1 .. Len(mail'[p]) : mail'[p][j] = mail[p][i]
    \/ got'[p][mail[p][i].room] >= mail[p][i].n
    \/ Clears(p)
    \/ i = 1 /\ Len(mail[p]) = MAX_QUEUED /\ Len(mail'[p]) = MAX_QUEUED

MailStep == MailInv' /\ \A p \in Player : BoxKept(p)

LEMMA MailTypes ==
  ASSUME MailInv
  PROVE  /\ posts \in Nat
         /\ \A p \in Player : mail[p] \in Seq(Envelope) /\ Len(mail[p]) \in Nat
BY HttpConstants, BoxTypes DEF MailInv

\* No mailbox is touched; the requests may be.
LEMMA MailRests ==
  ASSUME MailInv, mail' = mail, posts' = posts, got' = got,
         \/ req' = req
         \/ \E q \in Request : \E w : WorkSound(w) /\ req' = [req EXCEPT ![q] = w]
  PROVE  MailStep
<1>1. req' \in [Request -> Work] /\ \A q \in Request : WorkSound(req'[q])
  <2>1. CASE req' = req
    BY <2>1 DEF MailInv
  <2>2. CASE \E q \in Request : \E w : WorkSound(w) /\ req' = [req EXCEPT ![q] = w]
    BY <2>2 DEF MailInv, WorkSound
  <2> QED BY <2>1, <2>2
<1>2. \A p \in Player : BoxKept(p)
  BY MailTypes DEF BoxKept
<1>3. MailInv'
  BY <1>1 DEF MailInv, WorkSound
<1> QED BY <1>2, <1>3 DEF MailStep

\* A new room: nothing is in a mailbox or on its way for it.
LEMMA CreateMail ==
  ASSUME MailInv, NEW p \in Player, NEW r \in RoomId, Create(p, r)
  PROVE  MailStep
<1>1. /\ mail' = mail /\ posts' = posts /\ req' = req
      /\ got' = [d \in Player |-> [got[d] EXCEPT ![r] = 0]]
      /\ \A d \in Player : \A i \in DOMAIN mail[d] : mail[d][i].room # r
  BY DEF Create, RoomIdFree
<1>2. ASSUME NEW d \in Player PROVE BoxSound(mail[d], got'[d], posts)
  <2>1. BoxSound(mail[d], got[d], posts) /\ posts \in Nat
    BY MailTypes DEF MailInv
  <2>2. \A i \in 1 .. Len(mail[d]) : mail[d][i].room \in RoomId /\ mail[d][i].room # r
    BY <1>1, <2>1, BoxTypes
  <2>3. got[d] \in [RoomId -> Nat] /\ got'[d] = [got[d] EXCEPT ![r] = 0]
    BY <1>1 DEF MailInv
  <2> QED BY <2>1, <2>2, <2>3 DEF BoxSound
<1>3. got' \in [Player -> [RoomId -> Nat]]
  BY <1>1 DEF MailInv
<1>4. MailInv'
  BY <1>1, <1>2, <1>3 DEF MailInv, WorkSound
<1>5. \A d \in Player : BoxKept(d)
  BY <1>1, MailTypes DEF BoxKept
<1> QED BY <1>4, <1>5 DEF MailStep

LEMMA IdleSound == WorkSound(Idle)
BY DEF WorkSound, Idle, Work

LEMMA PushMail ==
  ASSUME MailInv, NEW q \in Request, PushSignal(q)
  PROVE  MailStep
<1> DEFINE e == [room |-> req[q].room, n |-> posts + 1]
<1>1. /\ req[q].at = "push" /\ posts < MaxPosts /\ posts' = posts + 1
      /\ mail' = [p \in Player |-> IF p \in req[q].to THEN push_to(mail[p], e) ELSE mail[p]]
      /\ req' = [req EXCEPT ![q] = Idle] /\ got' = got
  BY DEF PushSignal
<1>2. e \in Envelope /\ e.n = posts + 1 /\ posts \in Nat
  BY <1>1, MailTypes DEF MailInv, WorkSound, Envelope
<1> HIDE DEF e
<1>3. ASSUME NEW p \in Player
      PROVE  BoxSound(mail'[p], got[p], posts + 1) /\ BoxKept(p)
  <2>1. BoxSound(mail[p], got[p], posts)
    BY DEF MailInv
  <2>2. CASE p \in req[q].to
    <3>1. mail'[p] = push_to(mail[p], e)
      BY <1>1, <2>2
    <3>2. BoxSound(push_to(mail[p], e), got[p], posts + 1)
      BY <1>2, <2>1, PushSound
    <3>3. \A i \in 1 .. Len(mail[p]) :
            \/ \E j \in 1 .. Len(push_to(mail[p], e)) : push_to(mail[p], e)[j] = mail[p][i]
            \/ /\ i = 1 /\ Len(mail[p]) = MAX_QUEUED
               /\ Len(push_to(mail[p], e)) = MAX_QUEUED
      BY <1>2, <2>1, PushSound
    <3>4. BoxKept(p)
      BY <3>1, <3>3 DEF BoxKept
    <3> QED BY <3>1, <3>2, <3>4
  <2>3. CASE p \notin req[q].to
    <3>1. mail'[p] = mail[p]
      BY <1>1, <2>3
    <3>2. \A r \in RoomId : got[p][r] <= posts => got[p][r] <= posts + 1
      BY <1>2, <2>1 DEF BoxSound
    <3>3. \A i \in 1 .. Len(mail[p]) : mail[p][i].n <= posts + 1
      BY <1>2, <2>1, BoxTypes
    <3> QED BY <2>1, <3>1, <3>2, <3>3 DEF BoxSound, BoxKept
  <2> QED BY <2>2, <2>3
<1>4. req' \in [Request -> Work] /\ \A k \in Request : WorkSound(req'[k])
  BY <1>1, IdleSound DEF MailInv, WorkSound
<1>5. mail' \in [Player -> Seq(Envelope)]
  BY <1>1, <1>3 DEF BoxSound
<1>6. posts' \in 0 .. MaxPosts
  BY <1>1, <1>2, HttpConstants
<1>7. MailInv'
  BY <1>1, <1>3, <1>4, <1>5, <1>6 DEF MailInv, WorkSound
<1> QED BY <1>3, <1>7 DEF MailStep

LEMMA DrainMail ==
  ASSUME MailInv, NEW q \in Request, Drain(q)
  PROVE  MailStep
<1> DEFINE p == req[q].who
           r == req[q].room
           H == Handed(mail[p], r)
           h == IF H = {} THEN got[p] ELSE [got[p] EXCEPT ![r] = Max(H)]
<1>1. p \in Player /\ r \in RoomId /\ posts \in Nat
  BY MailTypes DEF Drain, MailInv, WorkSound
<1>2. BoxSound(mail[p], got[p], posts)
  BY <1>1 DEF MailInv
<1>3. /\ mail' = [mail EXCEPT ![p] = Others(mail[p], r)] /\ posts' = posts
      /\ req' = [req EXCEPT ![q] = Idle]
      /\ got' = IF H = {} THEN got ELSE [got EXCEPT ![p][r] = Max(H)]
  BY <1>1 DEF Drain, Handed, MailInv
<1>4. got' = [got EXCEPT ![p] = h]
  <2> HIDE DEF H, p, r
  <2> QED BY <1>1, <1>3 DEF MailInv
<1>5. /\ BoxSound(Others(mail[p], r), h, posts)
      /\ \A i \in 1 .. Len(mail[p]) :
           \/ \E j \in 1 .. Len(Others(mail[p], r)) : Others(mail[p], r)[j] = mail[p][i]
           \/ h[mail[p][i].room] >= mail[p][i].n
  <2> HIDE DEF h
  <2>1. h = IF H = {} THEN got[p] ELSE [got[p] EXCEPT ![r] = Max(H)]
    BY DEF h
  <2> HIDE DEF p, r
  <2> QED BY <1>1, <1>2, <2>1, DrainSound
<1> HIDE DEF p, r, H, h
<1>6. ASSUME NEW d \in Player
      PROVE  BoxSound(mail'[d], got'[d], posts) /\ BoxKept(d)
  <2>1. CASE d = p
    <3>1. mail'[p] = Others(mail[p], r) /\ got'[p] = h
      BY <1>1, <1>3, <1>4 DEF MailInv
    <3> QED BY <1>5, <2>1, <3>1 DEF BoxKept
  <2>2. CASE d # p
    <3>1. mail'[d] = mail[d] /\ got'[d] = got[d]
      BY <1>3, <1>4, <2>2 DEF MailInv
    <3> QED BY <3>1, MailTypes DEF MailInv, BoxKept
  <2> QED BY <2>1, <2>2
<1>7. req' \in [Request -> Work] /\ \A k \in Request : WorkSound(req'[k])
  BY <1>3, IdleSound DEF MailInv, WorkSound
<1>8. mail' \in [Player -> Seq(Envelope)] /\ got' \in [Player -> [RoomId -> Nat]]
  BY <1>3, <1>4, <1>5 DEF MailInv, BoxSound
<1>9. MailInv'
  BY <1>3, <1>6, <1>7, <1>8 DEF MailInv, WorkSound
<1> QED BY <1>6, <1>9 DEF MailStep

LEMMA ClearMail ==
  ASSUME MailInv, NEW q \in Request, Clear(q)
  PROVE  MailStep
<1> DEFINE p == req[q].who
<1>1. p \in Player
  BY DEF Clear, MailInv, WorkSound
<1>2. /\ mail' = [mail EXCEPT ![p] = <<>>] /\ posts' = posts /\ got' = got
      /\ req' = [req EXCEPT ![q] = Idle] /\ req[q].at = "clear"
  BY DEF Clear
<1>3. Clears(p)
  BY <1>2 DEF Clears, MailInv
<1> HIDE DEF p
<1>4. ASSUME NEW d \in Player
      PROVE  BoxSound(mail'[d], got[d], posts) /\ BoxKept(d)
  <2>1. BoxSound(mail[d], got[d], posts)
    BY DEF MailInv
  <2>2. CASE d = p
    <3>1. mail'[d] = <<>>
      BY <1>1, <1>2, <2>2 DEF MailInv
    <3> QED BY <1>3, <2>1, <2>2, <3>1, HttpConstants DEF BoxSound, Ascending, BoxKept
  <2>3. CASE d # p
    <3>1. mail'[d] = mail[d]
      BY <1>2, <2>3 DEF MailInv
    <3> QED BY <2>1, <3>1, MailTypes DEF BoxKept
  <2> QED BY <2>2, <2>3
<1>5. req' \in [Request -> Work] /\ \A k \in Request : WorkSound(req'[k])
  BY <1>2, IdleSound DEF MailInv, WorkSound
<1>6. mail' \in [Player -> Seq(Envelope)]
  BY <1>2, <1>4 DEF MailInv, BoxSound
<1>7. MailInv'
  BY <1>2, <1>4, <1>5, <1>6 DEF MailInv, WorkSound
<1> QED BY <1>4, <1>7 DEF MailStep

LEMMA MailInit == HttpInit => MailInv
<1> SUFFICES ASSUME HttpInit PROVE MailInv
  OBVIOUS
<1>1. ASSUME NEW p \in Player PROVE BoxSound(mail[p], got[p], posts)
  <2>1. mail[p] = <<>> /\ got[p] = [r \in RoomId |-> 0] /\ posts = 0
    BY DEF HttpInit
  <2> QED BY <2>1, HttpConstants DEF BoxSound, Ascending
<1>2. \A q \in Request : WorkSound(req[q])
  BY IdleSound DEF HttpInit, WorkSound
<1> QED BY <1>1, <1>2, IdleSound, HttpConstants DEF HttpInit, MailInv, WorkSound

LEMMA MailNext == MailInv /\ [HttpNext]_httpVars => MailStep
<1> SUFFICES ASSUME MailInv, [HttpNext]_httpVars PROVE MailStep
  OBVIOUS
<1>1. ASSUME NEW p \in Player, NEW r \in RoomId,
             \/ \E s \in Slot : Join(p, r, s)
             \/ StartStep(p, r) \/ TimeStep(p, r)
      PROVE  MailStep
  <2>1. UNCHANGED <<mail, posts, got, req>>
    BY <1>1 DEF Join, StartStep, SetReady, MarkRunning, GetRoom, TimeStep, Heartbeat,
                FallSilent, FallIdle, MailUnchanged
  <2> QED BY <2>1, MailRests
<1>2. ASSUME NEW q \in Request, NEW p \in Player, NEW r \in RoomId, Leave(q, p, r)
      PROVE  MailStep
  <2> DEFINE w == [at |-> "clear", who |-> p, room |-> NoRoom, to |-> {}]
  <2>1. WorkSound(w)
    BY DEF WorkSound, Work
  <2> QED BY <1>2, <2>1, MailRests DEF Leave, MailUnchanged
<1>3. ASSUME NEW q \in Request, NEW p \in Player, NEW r \in RoomId, GetSignals(q, p, r)
      PROVE  MailStep
  <2> DEFINE w == [at |-> "drain", who |-> p, room |-> r, to |-> {}]
  <2>1. WorkSound(w)
    BY DEF WorkSound, Work
  <2> QED BY <1>3, <2>1, MailRests DEF GetSignals, MailUnchanged
<1>4. ASSUME NEW q \in Request, NEW p \in Player, NEW r \in RoomId,
             NEW to \in SUBSET Player, PostSignal(q, p, r, to)
      PROVE  MailStep
  <2> DEFINE w == [at |-> "push", who |-> p, room |-> r, to |-> to]
  <2>1. WorkSound(w)
    BY DEF WorkSound, Work
  <2> QED BY <1>4, <2>1, MailRests DEF PostSignal, MailUnchanged
<1>5. CASE PurgeStale
  BY <1>5, MailRests DEF PurgeStale, MailUnchanged
<1>6. CASE UNCHANGED httpVars
  BY <1>6, MailRests DEF httpVars
<1> QED
  BY <1>1, <1>2, <1>3, <1>4, <1>5, <1>6, CreateMail, PushMail, DrainMail, ClearMail
  DEF HttpNext, MemberStep, SignalStep, RequestStep

\* Every mailbox is sound in every state: signal.rs, every lock scope.
THEOREM MailInvAlways == HttpSpec => []MailInv
<1>1. MailInv /\ [HttpNext]_httpVars => MailInv'
  BY MailNext DEF MailStep
<1> QED BY <1>1, MailInit, PTL DEF HttpSpec

\* A mailbox hands out the signals of a room once and in the order they came in:
\* what a poll puts back keeps its order and comes after what was handed out
\* (routes::get_signals, SignalStore::push_to).
THEOREM SignalsInOrderAlways == HttpSpec => []SignalsInOrder
<1>1. MailInv => SignalsInOrder
  <2> SUFFICES ASSUME MailInv, NEW p \in Player
               PROVE  /\ \A i, j \in DOMAIN mail[p] : i < j => mail[p][i].n < mail[p][j].n
                      /\ \A i \in DOMAIN mail[p] : mail[p][i].n > got[p][mail[p][i].room]
    BY DEF SignalsInOrder
  <2>1. BoxSound(mail[p], got[p], posts) /\ DOMAIN mail[p] = 1 .. Len(mail[p])
    BY MailTypes DEF MailInv
  <2> QED BY <2>1 DEF BoxSound, Ascending
<1> QED BY <1>1, MailInvAlways, PTL

\* A signal is lost only as the oldest of a full mailbox when another comes in, or
\* with the mailbox of a player who leaves a room: a poll for one room loses none
\* of another's (SignalStore::push_to, routes::get_signals, routes::leave_room).
THEOREM SignalsKeptAlways == HttpSpec => SignalsKept
<1>1. MailInv /\ [HttpNext]_httpVars => [KeepsSignals]_httpVars
  <2> SUFFICES ASSUME MailInv, [HttpNext]_httpVars, NEW p \in Player, NEW e \in ToSet(mail[p])
               PROVE  \/ e \in ToSet(mail'[p]) \/ got'[p][e.room] >= e.n \/ Clears(p)
                      \/ /\ e = Head(mail[p]) /\ Len(mail[p]) = MAX_QUEUED
                         /\ Len(mail'[p]) = MAX_QUEUED
    BY DEF KeepsSignals
  <2>1. BoxKept(p) /\ mail'[p] \in Seq(Envelope) /\ mail[p] \in Seq(Envelope)
    BY MailNext, MailTypes DEF MailStep, MailInv
  <2>2. /\ DOMAIN mail[p] = 1 .. Len(mail[p])
        /\ \A j \in 1 .. Len(mail'[p]) : mail'[p][j] \in ToSet(mail'[p])
    BY <2>1 DEF ToSet
  <2>3. PICK i \in 1 .. Len(mail[p]) : mail[p][i] = e
    BY <2>2 DEF ToSet
  <2>4. i = 1 => e = Head(mail[p])
    BY <2>1, <2>3
  <2> QED BY <2>1, <2>2, <2>3, <2>4 DEF BoxKept
<1> QED BY <1>1, MailInvAlways, PTL DEF HttpSpec, SignalsKept

\* Who is late and which rooms are idle are players and rooms.
LateTypes == late \in [RoomId -> SUBSET Player] /\ idle \subseteq RoomId

LEMMA UpdateTypes ==
  ASSUME LateTypes, NEW r \in RoomId, NEW x, NEW p, Update(r, x, p)
  PROVE  LateTypes'
BY DEF LateTypes, Update

LEMMA LateNext == LateTypes /\ [HttpNext]_httpVars => LateTypes'
<1> SUFFICES ASSUME LateTypes, [HttpNext]_httpVars PROVE LateTypes'
  OBVIOUS
<1>1. ASSUME NEW p \in Player, NEW r \in RoomId, MemberStep(p, r)
      PROVE  LateTypes'
  BY <1>1, UpdateTypes DEF MemberStep, Create, Join, Leave, LateTypes
<1>2. ASSUME NEW p \in Player, NEW r \in RoomId, StartStep(p, r)
      PROVE  LateTypes'
  <2>1. CASE \E ready \in BOOLEAN, id \in SessionId : SetReady(p, r, ready, id)
    BY <2>1, UpdateTypes DEF SetReady
  <2>2. CASE MarkRunning(p, r) \/ GetRoom(p, r)
    BY <2>2 DEF MarkRunning, GetRoom, LateTypes
  <2> QED BY <1>2, <2>1, <2>2 DEF StartStep
<1>3. ASSUME NEW p \in Player, NEW r \in RoomId, SignalStep(p, r)
      PROVE  LateTypes'
  BY <1>3 DEF SignalStep, GetSignals, PostSignal, LateTypes
<1>4. ASSUME NEW p \in Player, NEW r \in RoomId, TimeStep(p, r)
      PROVE  LateTypes'
  BY <1>4, UpdateTypes DEF TimeStep, Heartbeat, FallSilent, FallIdle, LateTypes
<1>5. ASSUME NEW q \in Request, RequestStep(q) PROVE LateTypes'
  BY <1>5 DEF RequestStep, PushSignal, Drain, Clear, LateTypes
<1>6. CASE PurgeStale
  BY <1>6 DEF PurgeStale, LateTypes
<1>7. CASE UNCHANGED httpVars
  BY <1>7 DEF httpVars, LateTypes
<1> QED BY <1>1, <1>2, <1>3, <1>4, <1>5, <1>6, <1>7 DEF HttpNext

\* Every part of the state has the shape of its data structure, and no mailbox is
\* over its limit (SignalStore::push_to): type correctness of the whole module.
THEOREM HttpTypesAlways == HttpSpec => []HttpTypeOK
<1>1. RoomsInv /\ MailInv /\ LateTypes => HttpTypeOK
  BY DEF RoomsInv, MailInv, BoxSound, LateTypes, HttpTypeOK
<1>2. HttpInit => LateTypes
  BY DEF HttpInit, LateTypes
<1> QED BY <1>1, <1>2, LateNext, RoomsInvAlways, MailInvAlways, PTL DEF HttpSpec
=============================================================================
