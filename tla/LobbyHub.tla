------------------------------ MODULE LobbyHub ------------------------------
(***************************************************************************)
(* The hub of hosted waiting rooms (src/src/ws_lobby.rs).                  *)
(*                                                                         *)
(* Every WebSocket connection is one task.  It reads a message, runs the   *)
(* handler to its end and only then reads the next one.  All shared state  *)
(* sits behind one mutex, `hub.inner', but a handler takes and releases    *)
(* that mutex several times, and other tasks run between two scopes.       *)
(* Each action below is ONE lock scope with everything the code does in    *)
(* it; task[c] says which scope the handler of connection c runs next and  *)
(* which locals it carries there.                                          *)
(*                                                                         *)
(* Abstracted: names, endpoints, passwords, countries, offers and all      *)
(* message payloads.  A gate on them (block list, disc, game, version,     *)
(* password) may refuse at any time.  Replies that change no state (the    *)
(* early-return errors of the handlers) are stuttering steps.  A player id *)
(* and a lobby id are fresh uuids in the code: here an id may be used      *)
(* again once nothing in the state refers to it.                           *)
(***************************************************************************)
EXTENDS Naturals, FiniteSets

CONSTANTS
  Client,               \* player ids, one per connection
  LobbyId,              \* lobby uuids
  NoClient, NoLobby,    \* None
  MAX_SLOTS,            \* player seats a room can have
  MAX_SPECTATORS,       \* gallery seats of a room that allows spectators
  SPECTATOR_SLOT_BASE,  \* first seat index of the gallery
  MAX_LOBBIES,          \* rooms the server admits
  MaxSession,           \* u32::MAX, where next_session saturates
  MaxAsks,              \* bound: swap dialogs open at a time
  Ops                   \* the operations the clients of this instance use

ASSUME HubConstants ==
  /\ MAX_SLOTS \in Nat /\ MAX_SLOTS >= 2
  /\ MAX_SPECTATORS \in Nat
  /\ SPECTATOR_SLOT_BASE \in Nat /\ SPECTATOR_SLOT_BASE >= MAX_SLOTS
  /\ MAX_LOBBIES \in Nat
  /\ MaxSession \in Nat /\ MaxSession >= 1
  /\ MaxAsks \in Nat
  /\ NoClient \notin Client
  /\ NoLobby \notin LobbyId

VARIABLES
  conn,        \* conn[c]: "off", "up", or "closing" once its read loop ended
  lobbyOf,     \* ClientMeta.lobby_id
  pendingMod,  \* ClientMeta.pending_mod_lobby
  lobbies,     \* HubInner.lobbies; NoRoom where the map has no entry
  nextSession, \* HubInner.next_session
  asks,        \* seat_swap_ask dialogs open at the occupants
  task         \* task[c]: where the handler of c stands

vars == <<conn, lobbyOf, pendingMod, lobbies, nextSession, asks, task>>

-----------------------------------------------------------------------------
(* Seats and rooms *)

PlayerSeat  == 0 .. (MAX_SLOTS - 1)
GallerySeat == SPECTATOR_SLOT_BASE .. (SPECTATOR_SLOT_BASE + MAX_SPECTATORS - 1)
Seat        == PlayerSeat \cup GallerySeat

is_spectator_seat(s) == s >= SPECTATOR_SLOT_BASE

\* ready and proven are the `ready' flag and the "direct, under 120 s old"
\* path report of a Slot; a Slot moves between seats as a whole, so they are
\* kept by occupant.  caps: match_caps is set (sanitize_match_caps puts every
\* object it accepts on relay "host" over "ice").
Room == [host    : Client \cup {NoClient},
         open    : SUBSET Seat,
         seat    : [Seat -> Client \cup {NoClient}],
         ready   : SUBSET Client,
         proven  : SUBSET Client,
         caps    : BOOLEAN,
         session : Nat,
         started : BOOLEAN]

NoRoom == [host    |-> NoClient,
           open    |-> {},
           seat    |-> [s \in Seat |-> NoClient],
           ready   |-> {},
           proven  |-> {},
           caps    |-> FALSE,
           session |-> 0,
           started |-> FALSE]

Live == {l \in LobbyId : lobbies[l] # NoRoom}

Players(r)    == {r.seat[s] : s \in PlayerSeat} \ {NoClient}
Spectators(r) == {r.seat[s] : s \in GallerySeat} \ {NoClient}
Members(r)    == Players(r) \cup Spectators(r)

seat_of(r, c)   == CHOOSE s \in Seat : r.seat[s] = c
FreeSeats(r)    == {s \in r.open : r.seat[s] = NoClient}
player_count(r) == Cardinality({s \in PlayerSeat : r.seat[s] # NoClient})

\* The lowest free player seat, else the lowest free gallery seat.
IsFirstFree(r, s) == s \in FreeSeats(r) /\ \A t \in FreeSeats(r) : s <= t

clear_lobby_ice_paths(r) == [r EXCEPT !.proven = {}]

\* `for s in lobby.slots.iter_mut().flatten() { s.ready = false; }'
UnreadyPlayers(r) == [r EXCEPT !.ready = @ \ Players(r)]

\* Mutants of Reseated: one of its two effects is forgotten.
ReseatedStillReady(r)  == clear_lobby_ice_paths(r)
ReseatedStillProven(r) == UnreadyPlayers(r)

\* A change of the roster or of its order: unready the players, forget paths.
Reseated(r) == clear_lobby_ice_paths(UnreadyPlayers(r))

Vacated(r, c) ==
  [r EXCEPT !.seat  = [s \in Seat |-> IF r.seat[s] = c THEN NoClient ELSE r.seat[s]],
            !.ready = @ \ {c}]

Swapped(r, s, t) == [r EXCEPT !.seat[s] = r.seat[t], !.seat[t] = r.seat[s]]

-----------------------------------------------------------------------------
(* Tasks *)

Step == {"idle", "create", "join", "joined", "need_mods", "prepare", "commit",
         "leave", "destroy", "remove"}

Task == [at   : Step,
         lid  : LobbyId \cup {NoLobby},
         sid  : Nat,
         caps : BOOLEAN,
         via  : {"none", "host", "ice"}]

At(step, l) ==
  [at |-> step, lid |-> l, sid |-> 0, caps |-> FALSE, via |-> "none"]

Idle == At("idle", NoLobby)

Ask == [asker : Client, occupant : Client, from : Seat, to : Seat]

TypeOK ==
  /\ conn \in [Client -> {"off", "up", "closing"}]
  /\ lobbyOf \in [Client -> LobbyId \cup {NoLobby}]
  /\ pendingMod \in [Client -> LobbyId \cup {NoLobby}]
  /\ lobbies \in [LobbyId -> Room]
  /\ nextSession \in 1 .. MaxSession
  /\ asks \subseteq Ask
  /\ task \in [Client -> Task]

Init ==
  /\ conn = [c \in Client |-> "off"]
  /\ lobbyOf = [c \in Client |-> NoLobby]
  /\ pendingMod = [c \in Client |-> NoLobby]
  /\ lobbies = [l \in LobbyId |-> NoRoom]
  /\ nextSession = 1
  /\ asks = {}
  /\ task = [c \in Client |-> Idle]

\* c's connection has read a message of kind op.
Handles(c, op) == op \in Ops /\ conn[c] = "up" /\ task[c].at = "idle"

\* c is seated somewhere the hub still knows: the guard of every room handler.
InRoom(c, l) == lobbyOf[c] = l /\ l \in Live

Hosts(c, l) == InRoom(c, l) /\ lobbies[l].host = c

\* Mutant of NotSeated: the already_in_lobby check is missing.
NotSeatedUnchecked(c) == TRUE

\* The already_in_lobby check of create and join.
NotSeated(c) == lobbyOf[c] = NoLobby

\* Where a handler that is done goes: a closing connection goes on to its
\* removal, any other reads its next message.
Done(c) == IF conn[c] = "closing" THEN At("remove", NoLobby) ELSE Idle

-----------------------------------------------------------------------------
(* Connecting *)

Connect(c) ==
  /\ conn[c] = "off"
  /\ conn' = [conn EXCEPT ![c] = "up"]
  /\ lobbyOf' = [lobbyOf EXCEPT ![c] = NoLobby]
  /\ pendingMod' = [pendingMod EXCEPT ![c] = NoLobby]
  /\ UNCHANGED <<lobbies, nextSession, asks, task>>

\* The read loop ends between two messages; the cleanup runs client_leave.
HangUp(c) ==
  /\ Handles(c, "hangup")
  /\ conn' = [conn EXCEPT ![c] = "closing"]
  /\ task' = [task EXCEPT ![c] = At("leave", NoLobby)]
  /\ UNCHANGED <<lobbyOf, pendingMod, lobbies, nextSession, asks>>

\* `g.clients.remove(&player_id)', the last scope of the cleanup.
Remove(c) ==
  /\ task[c].at = "remove"
  /\ conn' = [conn EXCEPT ![c] = "off"]
  /\ lobbyOf' = [lobbyOf EXCEPT ![c] = NoLobby]
  /\ pendingMod' = [pendingMod EXCEPT ![c] = NoLobby]
  /\ asks' = {a \in asks : a.asker # c /\ a.occupant # c}
  /\ task' = [task EXCEPT ![c] = Idle]
  /\ UNCHANGED <<lobbies, nextSession>>

-----------------------------------------------------------------------------
(* Creating a room *)

\* A uuid nothing refers to.
Fresh(l) ==
  /\ l \notin Live
  /\ \A c \in Client : lobbyOf[c] # l /\ pendingMod[c] # l /\ task[c].lid # l

\* First scope: refuse a seated client and a full server.  (The room's uuid is
\* drawn in the last scope; drawn here, it is one no other handler can draw.)
CreateCheck(c, l) ==
  /\ Handles(c, "create")
  /\ NotSeated(c)
  /\ Cardinality(Live) < MAX_LOBBIES
  /\ Fresh(l)
  /\ task' = [task EXCEPT ![c] = At("create", l)]
  /\ UNCHANGED <<conn, lobbyOf, pendingMod, lobbies, nextSession, asks>>

\* Mutant of NextSid: no increment at all.
NextSidStuck(n) == n

\* `saturating_add(1)' on a u32.
NextSid(n) == IF n < MaxSession THEN n + 1 ELSE n

NewRoom(c, n, gallery, caps) ==
  LET open == 0 .. (n - 1) \cup (IF gallery THEN GallerySeat ELSE {})
  IN  [NoRoom EXCEPT !.host    = c,
                     !.open    = open,
                     !.seat    = [NoRoom.seat EXCEPT ![0] = c],
                     !.caps    = caps,
                     !.session = nextSession]

\* Last scope: the room, its session id and the host's seat 0.
CreateInsert(c) ==
  LET l == task[c].lid IN
  /\ task[c].at = "create"
  /\ \E n \in 2 .. MAX_SLOTS, gallery, caps \in BOOLEAN :
       lobbies' = [lobbies EXCEPT ![l] = NewRoom(c, n, gallery, caps)]
  /\ lobbyOf' = [lobbyOf EXCEPT ![c] = l]
  /\ nextSession' = NextSid(nextSession)
  /\ task' = [task EXCEPT ![c] = Idle]
  /\ UNCHANGED <<conn, pendingMod, asks>>

-----------------------------------------------------------------------------
(* Joining a room *)

JoinCheck(c, l) ==
  /\ Handles(c, "join")
  /\ l \in Live
  /\ NotSeated(c)
  /\ task' = [task EXCEPT ![c] = At("join", l)]
  /\ UNCHANGED <<conn, lobbyOf, pendingMod, lobbies, nextSession, asks>>

\* Gone, blocked, wrong disc, game, version or password, or full.
JoinRefused(c) ==
  /\ task[c].at = "join"
  /\ task' = [task EXCEPT ![c] = Idle]
  /\ UNCHANGED <<conn, lobbyOf, pendingMod, lobbies, nextSession, asks>>

\* The caps list packages the joiner lacks; asked before the room is full.
JoinNeedMods(c) ==
  /\ task[c].at = "join"
  /\ "mods" \in Ops
  /\ task[c].lid \in Live
  /\ lobbies[task[c].lid].caps
  /\ task' = [task EXCEPT ![c].at = "need_mods"]
  /\ UNCHANGED <<conn, lobbyOf, pendingMod, lobbies, nextSession, asks>>

Joined(r, c, s) == Reseated([r EXCEPT !.seat[s] = c])

\* seat_joiner_locked: seat, unready, forget paths, record the membership.
JoinSeat(c) ==
  LET l == task[c].lid IN
  /\ task[c].at = "join"
  /\ l \in Live
  /\ \E s \in Seat :
       /\ IsFirstFree(lobbies[l], s)
       /\ lobbies' = [lobbies EXCEPT ![l] = Joined(@, c, s)]
  /\ lobbyOf' = [lobbyOf EXCEPT ![c] = l]
  /\ task' = [task EXCEPT ![c].at = "joined"]
  /\ UNCHANGED <<conn, pendingMod, nextSession, asks>>

\* Mutant of SettledPending: a seated joiner keeps its pending lobby.
SettledPendingKept(c) ==
  IF task[c].at = "joined" THEN pendingMod[c] ELSE task[c].lid

\* pending_mod_lobby after the outcome of a join.
SettledPending(c) ==
  IF task[c].at = "joined" THEN NoLobby ELSE task[c].lid

\* The scope after the outcome.
JoinSettle(c) ==
  /\ task[c].at \in {"joined", "need_mods"}
  /\ pendingMod' = [pendingMod EXCEPT ![c] = SettledPending(c)]
  /\ task' = [task EXCEPT ![c] = Idle]
  /\ UNCHANGED <<conn, lobbyOf, lobbies, nextSession, asks>>

\* mod_xfer_cancel.
ModXferCancel(c) ==
  /\ Handles(c, "mods")
  /\ pendingMod[c] # NoLobby
  /\ pendingMod' = [pendingMod EXCEPT ![c] = NoLobby]
  /\ UNCHANGED <<conn, lobbyOf, lobbies, nextSession, asks, task>>

-----------------------------------------------------------------------------
(* Leaving, closing and kicking *)

\* Mutant of EndsRoom: a host leaves like a guest.
EndsRoomNever(r, c) == FALSE

\* Whose departure ends a hosted room.
EndsRoom(r, c) == r.host = c

\* client_leave, from a `leave' message or from the cleanup of a connection.
\* A guest's seat is vacated here; a host keeps its seat until the room is
\* destroyed in the next scope.
ClientLeave(c) ==
  LET l == lobbyOf[c] IN
  /\ \/ Handles(c, "leave") /\ l # NoLobby
     \/ task[c].at = "leave"
  /\ lobbyOf' = [lobbyOf EXCEPT ![c] = NoLobby]
  /\ IF l \in Live /\ EndsRoom(lobbies[l], c)
       THEN /\ task' = [task EXCEPT ![c] = At("destroy", l)]
            /\ UNCHANGED lobbies
       ELSE /\ task' = [task EXCEPT ![c] = Done(c)]
            /\ lobbies' = IF l \in Live
                            THEN [lobbies EXCEPT ![l] = clear_lobby_ice_paths(Vacated(@, c))]
                            ELSE lobbies
  /\ UNCHANGED <<conn, pendingMod, nextSession, asks>>

\* The `close' message: the host's check; lobby_id is kept.
CloseCheck(c) ==
  /\ Handles(c, "close")
  /\ Hosts(c, lobbyOf[c])
  /\ task' = [task EXCEPT ![c] = At("destroy", lobbyOf[c])]
  /\ UNCHANGED <<conn, lobbyOf, pendingMod, lobbies, nextSession, asks>>

\* Mutant of member_ids: the gallery is forgotten.
member_ids_players(r) == Players(r)

member_ids(r) == Members(r)

\* destroy_lobby: the room and the lobby_id of everybody seated in it.
DestroyLobby(c) ==
  LET l == task[c].lid IN
  /\ task[c].at = "destroy"
  /\ lobbies' = [lobbies EXCEPT ![l] = NoRoom]
  /\ lobbyOf' = [d \in Client |-> IF d \in member_ids(lobbies[l]) THEN NoLobby ELSE lobbyOf[d]]
  /\ task' = [task EXCEPT ![c] = Done(c)]
  /\ UNCHANGED <<conn, pendingMod, nextSession, asks>>

Kick(c, s) ==
  LET l      == lobbyOf[c]
      victim == lobbies[l].seat[s]
  IN
  /\ Handles(c, "kick")
  /\ Hosts(c, l)
  /\ s \in lobbies[l].open
  /\ victim \notin {NoClient, c}
  /\ lobbies' = [lobbies EXCEPT ![l] = Reseated(Vacated(@, victim))]
  /\ lobbyOf' = [lobbyOf EXCEPT ![victim] = NoLobby]
  /\ UNCHANGED <<conn, pendingMod, nextSession, asks, task>>

-----------------------------------------------------------------------------
(* Changing seats *)

\* The host moves or swaps any two seats, across tables too, its own included.
Move(c, s, t) ==
  LET l == lobbyOf[c] IN
  /\ Handles(c, "move")
  /\ Hosts(c, l)
  /\ s # t /\ {s, t} \subseteq lobbies[l].open
  /\ lobbies[l].seat[s] # NoClient
  /\ lobbies' = [lobbies EXCEPT ![l] = Reseated(Swapped(@, s, t))]
  /\ UNCHANGED <<conn, lobbyOf, pendingMod, nextSession, asks, task>>

\* A client takes a free seat of either table for itself.
SeatMove(c, t) ==
  LET l == lobbyOf[c] IN
  /\ Handles(c, "seat_move")
  /\ InRoom(c, l)
  /\ c \in Members(lobbies[l])
  /\ t \in FreeSeats(lobbies[l])
  /\ lobbies' = [lobbies EXCEPT ![l] = Reseated(Swapped(@, seat_of(@, c), t))]
  /\ UNCHANGED <<conn, lobbyOf, pendingMod, nextSession, asks, task>>

\* A client asks the occupant of a taken seat to trade.
SeatSwapRequest(c, t) ==
  LET l    == lobbyOf[c]
      from == seat_of(lobbies[l], c)
  IN
  /\ Handles(c, "swap")
  /\ InRoom(c, l)
  /\ c \in Members(lobbies[l])
  /\ t \in lobbies[l].open
  /\ lobbies[l].seat[t] \notin {NoClient, c}
  /\ Cardinality(asks) < MaxAsks
  /\ asks' = asks \cup {[asker |-> c, occupant |-> lobbies[l].seat[t],
                         from |-> from, to |-> t]}
  /\ UNCHANGED <<conn, lobbyOf, pendingMod, lobbies, nextSession, task>>

\* Mutant of Traded: the paths survive a trade across the tables.
TradedStillProven(r, mine, theirs) == UnreadyPlayers(Swapped(r, mine, theirs))

\* The trade both agreed to: relay slots change only across the tables.
Traded(r, mine, theirs) ==
  LET swapped == UnreadyPlayers(Swapped(r, mine, theirs))
  IN  IF is_spectator_seat(mine) # is_spectator_seat(theirs)
        THEN clear_lobby_ice_paths(swapped)
        ELSE swapped

\* The occupant answers a dialog.  The server looks only at who asked: it
\* trades the seats the two hold now, if both are seated in the answerer's room.
SeatSwapAnswer(c, a, accept) ==
  LET l == lobbyOf[c] IN
  /\ Handles(c, "swap")
  /\ a.occupant = c
  /\ asks' = asks \ {a}
  /\ lobbies' =
       IF accept /\ InRoom(c, l) /\ {c, a.asker} \subseteq Members(lobbies[l])
         THEN [lobbies EXCEPT ![l] = Traded(@, seat_of(@, c), seat_of(@, a.asker))]
         ELSE lobbies
  /\ UNCHANGED <<conn, lobbyOf, pendingMod, nextSession, task>>

-----------------------------------------------------------------------------
(* Ready votes, path reports and match settings *)

SetReady(c, vote) ==
  LET l == lobbyOf[c] IN
  /\ Handles(c, "ready")
  /\ InRoom(c, l)
  /\ c \in Players(lobbies[l])
  /\ lobbies' = [lobbies EXCEPT ![l].ready = IF vote THEN @ \cup {c} ELSE @ \ {c}]
  /\ UNCHANGED <<conn, lobbyOf, pendingMod, nextSession, asks, task>>

\* A report counts for a player seat only; "relay" and "fail" prove nothing.
PathReport(c, direct) ==
  LET l == lobbyOf[c] IN
  /\ Handles(c, "path")
  /\ InRoom(c, l)
  /\ c \in Players(lobbies[l])
  /\ lobbies' = [lobbies EXCEPT ![l].proven = IF direct THEN @ \cup {c} ELSE @ \ {c}]
  /\ UNCHANGED <<conn, lobbyOf, pendingMod, nextSession, asks, task>>

\* HOST_RELAY_PATH_FRESH (120 s) passes for c's report.
PathAges(c, l) ==
  /\ c \in lobbies[l].proven
  /\ lobbies' = [lobbies EXCEPT ![l].proven = @ \ {c}]
  /\ UNCHANGED <<conn, lobbyOf, pendingMod, nextSession, asks, task>>

\* A changed endpoint voids the players' reports unless the room is on ICE.
SetHostEndpoint(c) ==
  LET l == lobbyOf[c] IN
  /\ Handles(c, "endpoint")
  /\ Hosts(c, l)
  /\ ~lobbies[l].caps
  /\ lobbies' = [lobbies EXCEPT ![l].proven = @ \ Players(lobbies[l])]
  /\ UNCHANGED <<conn, lobbyOf, pendingMod, nextSession, asks, task>>

SetMatchCaps(c) ==
  LET l == lobbyOf[c] IN
  /\ Handles(c, "caps")
  /\ Hosts(c, l)
  /\ lobbies' = [lobbies EXCEPT ![l].caps = TRUE]
  /\ UNCHANGED <<conn, lobbyOf, pendingMod, nextSession, asks, task>>

-----------------------------------------------------------------------------
(* Starting a match *)

\* handle_start: the host check.  caps: the message carries fresh match_caps.
StartCheck(c, caps) ==
  LET l == lobbyOf[c] IN
  /\ Handles(c, "start")
  /\ Hosts(c, l)
  /\ task' = [task EXCEPT ![c] = [At("prepare", l) EXCEPT !.caps = caps]]
  /\ UNCHANGED <<conn, lobbyOf, pendingMod, lobbies, nextSession, asks>>

\* host_relay_decision for caps that ask for the host relay over ICE: the
\* advertised endpoint does not matter, and three or more need no proof.
host_relay_decision(r, caps) ==
  /\ caps
  /\ Spectators(r) = {}
  /\ player_count(r) > 2 \/ Players(r) \ {r.host} \subseteq r.proven

\* "none" is the refusal `relay_unavailable'.
start_transport(r, caps) ==
  CASE host_relay_decision(r, caps) -> "host"
    [] ~host_relay_decision(r, caps) /\ Spectators(r) = {} /\ player_count(r) = 2 -> "ice"
    [] OTHER -> "none"

Startable(r, caps) == player_count(r) >= 2 /\ start_transport(r, caps) # "none"

\* The caps a start is judged by: the fresh ones, else the room's.
CapsFor(c) == task[c].caps \/ lobbies[task[c].lid].caps

\* Phase 1 of start_lobby: validate, choose the transport, allocate the id.
StartPrepare(c) ==
  LET l == task[c].lid IN
  /\ task[c].at = "prepare"
  /\ l \in Live
  /\ Startable(lobbies[l], CapsFor(c))
  /\ nextSession' = NextSid(nextSession)
  /\ task' = [task EXCEPT ![c].at = "commit", ![c].sid = nextSession,
                          ![c].via = start_transport(lobbies[l], CapsFor(c))]
  /\ UNCHANGED <<conn, lobbyOf, pendingMod, lobbies, asks>>

\* gone, need_players or relay_unavailable.
StartRefused(c) ==
  LET l == task[c].lid IN
  /\ task[c].at = "prepare"
  /\ l \notin Live \/ ~Startable(lobbies[l], CapsFor(c))
  /\ task' = [task EXCEPT ![c] = Idle]
  /\ UNCHANGED <<conn, lobbyOf, pendingMod, lobbies, nextSession, asks>>

\* Mutant of Launched: the rematch keeps the session of the last match.
LaunchedSameSession(r, t) ==
  [UnreadyPlayers(r) EXCEPT !.caps = @ \/ t.caps, !.started = TRUE]

\* The room after a launch: fresh caps, a session id of its own, nobody ready.
Launched(r, t) ==
  [UnreadyPlayers(r) EXCEPT !.caps = @ \/ t.caps, !.session = t.sid, !.started = TRUE]

\* Phase 3: commit and build the launch for whoever is seated NOW.  Nothing of
\* phase 1 is checked again but that the room still exists.
StartCommit(c) ==
  LET l == task[c].lid IN
  /\ task[c].at = "commit"
  /\ lobbies' = IF l \in Live THEN [lobbies EXCEPT ![l] = Launched(@, task[c])] ELSE lobbies
  /\ task' = [task EXCEPT ![c] = Idle]
  /\ UNCHANGED <<conn, lobbyOf, pendingMod, nextSession, asks>>

-----------------------------------------------------------------------------
(* Specification *)

\* The scopes a handler runs once its message is accepted.
HandlerStep(c) ==
  \/ CreateInsert(c)
  \/ JoinRefused(c) \/ JoinNeedMods(c) \/ JoinSeat(c) \/ JoinSettle(c)
  \/ StartPrepare(c) \/ StartRefused(c) \/ StartCommit(c)
  \/ task[c].at = "leave" /\ ClientLeave(c)
  \/ DestroyLobby(c)
  \/ Remove(c)

\* What a client, its network or the clock decides.
ClientStep(c) ==
  \/ Connect(c) \/ HangUp(c)
  \/ \E l \in LobbyId : CreateCheck(c, l) \/ JoinCheck(c, l) \/ PathAges(c, l)
  \/ ModXferCancel(c)
  \/ task[c].at = "idle" /\ ClientLeave(c)
  \/ CloseCheck(c)
  \/ \E s \in Seat : Kick(c, s) \/ SeatMove(c, s) \/ SeatSwapRequest(c, s)
  \/ \E s, t \in Seat : Move(c, s, t)
  \/ \E a \in asks, accept \in BOOLEAN : SeatSwapAnswer(c, a, accept)
  \/ \E b \in BOOLEAN : SetReady(c, b) \/ PathReport(c, b) \/ StartCheck(c, b)
  \/ SetHostEndpoint(c) \/ SetMatchCaps(c)

Next == \E c \in Client : HandlerStep(c) \/ ClientStep(c)

\* A handler once begun runs on: tokio polls every ready task, and the hub's
\* mutex is fair (first come, first served) and never held across an await.
Fairness == \A c \in Client : WF_vars(HandlerStep(c))

Spec == Init /\ [][Next]_vars

FairSpec == Spec /\ Fairness

-----------------------------------------------------------------------------
(* Safety *)

\* No client sits in two seats, of one room or of two: create and join look at
\* lobby_id in one lock scope and seat in a later one.
OneSeat ==
  \A l, m \in LobbyId, s, t \in Seat :
    (lobbies[l].seat[s] = lobbies[m].seat[t] /\ lobbies[l].seat[s] # NoClient)
      => (l = m /\ s = t)

\* The two records of membership, ClientMeta.lobby_id and the rooms' tables,
\* agree; they differ only for a host whose handler is about to destroy the
\* room (client_leave clears lobby_id one scope before destroy_lobby).
MembershipAgrees ==
  \A c \in Client, l \in LobbyId :
    /\ lobbyOf[c] = l => c \in Members(lobbies[l])
    /\ c \in Members(lobbies[l]) /\ lobbyOf[c] # l =>
         /\ lobbies[l].host = c
         /\ task[c].at = "destroy" /\ task[c].lid = l

\* A room never outlives its host: the host of a listed room is seated in it
\* and connected, so somebody can start, rearrange or close the room.
HostPresent ==
  \A l \in Live :
    /\ lobbies[l].host \in Members(lobbies[l])
    /\ conn[lobbies[l].host] # "off"

\* Session ids handed out below the u32 ceiling are never shared, between two
\* rooms or between a room and a start still under way ("Fresh session_id per
\* match so a rematch's UDP HELLO/BYE cannot be confused").
SessionsDistinct ==
  /\ \A l, m \in Live : l # m /\ lobbies[l].session = lobbies[m].session
                          => lobbies[l].session = MaxSession
  /\ \A l \in Live, c \in Client :
       task[c].at = "commit" /\ task[c].sid = lobbies[l].session
         => task[c].sid = MaxSession

\* A client seated in a room does not wait for that room's mods any more, save
\* in the scope between its seating and the cleanup that join does after it:
\* mod_signal relays for whoever is pending.
PendingModSettled ==
  \A c \in Client :
    lobbyOf[c] # NoLobby /\ pendingMod[c] = lobbyOf[c] => task[c].at = "joined"

\* Only a player seat holds a path report.  host_relay_decision reads the
\* player table alone, so a report carried through the gallery and back would
\* vouch for a path measured under another relay slot.
ProofsArePlayers ==
  \A l \in LobbyId : lobbies[l].proven \subseteq Players(lobbies[l])

\* "Membership change invalidates prior ICE path pairs": whoever joins, leaves
\* or is kicked takes every path report of the room with it.
MembershipVoidsProofs ==
  [][\A l \in LobbyId :
       l \in Live /\ lobbies'[l] # NoRoom /\ Members(lobbies'[l]) # Members(lobbies[l])
         => lobbies'[l].proven = {}]_vars

\* A Ready vote is for the line-up it was given for: a step that puts somebody
\* into a player seat they did not hold leaves no player of the room ready.
NewcomersUnready ==
  [][\A l \in LobbyId :
       (/\ l \in Live /\ lobbies'[l] # NoRoom
        /\ \E s \in PlayerSeat :
             lobbies'[l].seat[s] \notin {NoClient, lobbies[l].seat[s]})
         => lobbies'[l].ready \cap Players(lobbies'[l]) = {}]_vars

\* The start of c commits to a room that still exists.
Commits(c) ==
  task[c].at = "commit" /\ task'[c].at = "idle" /\ task[c].lid \in Live

\* Each match of a room runs under a later session id than the one before it,
\* up to the ceiling.
SessionAdvances ==
  [][\A c \in Client : Commits(c) =>
       \/ lobbies'[task[c].lid].session > lobbies[task[c].lid].session
       \/ lobbies'[task[c].lid].session = MaxSession]_vars

-----------------------------------------------------------------------------
(* The inductive invariant of the membership properties *)

\* Nobody sits twice in room r.
Inj(r) ==
  \A s, t \in Seat : r.seat[s] = r.seat[t] /\ r.seat[s] # NoClient => s = t

\* What a handler between two scopes may rely on.  A seat is taken two scopes
\* after lobby_id was looked at, a host's room is destroyed one scope after its
\* lobby_id was cleared, and a client is removed after it has left.
TaskOK ==
  \A c \in Client :
    /\ conn[c] = "off" => lobbyOf[c] = NoLobby /\ task[c].at = "idle"
    /\ task[c].at \in {"create", "join", "need_mods", "remove"} => lobbyOf[c] = NoLobby
    /\ task[c].at \in {"create", "join", "joined", "need_mods", "destroy"}
         => task[c].lid \in LobbyId
    /\ task[c].at = "destroy" =>
         /\ lobbyOf[c] \in {NoLobby, task[c].lid}
         /\ lobbies[task[c].lid].host \in {NoClient, c}
    /\ task[c].at = "create" =>
         /\ lobbies[task[c].lid] = NoRoom
         /\ \A d \in Client :
              /\ lobbyOf[d] # task[c].lid
              /\ pendingMod[d] # task[c].lid
              /\ d # c => task[d].lid # task[c].lid

\* Each room seats nobody twice, and its host somewhere.
RoomsOK ==
  \A l \in LobbyId :
    /\ Inj(lobbies[l])
    /\ lobbies[l] # NoRoom => lobbies[l].host \in Members(lobbies[l])

\* The inductive invariant behind OneSeat, MembershipAgrees and HostPresent:
\* what create, join, leave and the cleanup keep true between their scopes.
Membership == TypeOK /\ RoomsOK /\ MembershipAgrees /\ TaskOK

\* n was handed out as a session id before `next': it lies below it, or both are
\* the u32 ceiling, which is handed out for ever.
Drawn(n, next) == n \in 1 .. next /\ (n = next => n = MaxSession)

Committing == {c \in Client : task[c].at = "commit"}

\* The inductive invariant behind SessionsDistinct and SessionAdvances.  A host
\* between two scopes of a start has its room: only the handler of the host
\* destroys a room, and that one is busy.
SessionsOK ==
  /\ SessionsDistinct
  /\ \A c, d \in Committing : c # d /\ task[c].sid = task[d].sid => task[c].sid = MaxSession
  /\ \A c \in Client : task[c].at \in {"prepare", "commit"} =>
       task[c].lid \in Live /\ lobbies[task[c].lid].host = c
  /\ \A l \in Live : Drawn(lobbies[l].session, nextSession)
  /\ \A c \in Committing :
       /\ Drawn(task[c].sid, nextSession)
       /\ lobbies[task[c].lid].session < task[c].sid \/ task[c].sid = MaxSession

-----------------------------------------------------------------------------
(* Liveness, under FairSpec *)

\* The room of a host whose socket closed goes with it.
RoomOfClosingHostEnds ==
  \A c \in Client, l \in LobbyId :
    (l \in Live /\ lobbies[l].host = c /\ conn[c] = "closing")
      ~> (lobbies[l].host # c)

-----------------------------------------------------------------------------
(* Refinement: the rooms' tables implement RoomMembership *)

hostBar == [l \in LobbyId |-> lobbies[l].host]

\* The room whose tables name c.
roomBar ==
  [c \in Client |-> IF \E l \in LobbyId : c \in Members(lobbies[l])
                      THEN CHOOSE l \in LobbyId : c \in Members(lobbies[l])
                      ELSE NoLobby]

RM == INSTANCE RoomMembership WITH hostOf <- hostBar, roomOf <- roomBar

\* Every step of the hub is a step of RoomMembership or leaves it alone.
ImplementsRoomMembership == RM!Spec

-----------------------------------------------------------------------------
(* What the repository says and the code does not keep *)

\* docs/WS_LOBBY.md, `start': "requires seated player_count >= 2".
LaunchNeedsPlayers ==
  [][\A c \in Client : Commits(c) => player_count(lobbies[task[c].lid]) >= 2]_vars
=============================================================================
