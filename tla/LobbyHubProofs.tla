--------------------------- MODULE LobbyHubProofs ---------------------------
(***************************************************************************)
(* Proofs about LobbyHub, for any number of clients, rooms, seats and      *)
(* sessions.                                                               *)
(***************************************************************************)
EXTENDS LobbyHub, TLAPS

-----------------------------------------------------------------------------
(* Rooms *)

\* Seat 0 and the seats a new room opens are seats.
LEMMA SeatFacts ==
  /\ 0 \in Seat /\ 0 \in PlayerSeat
  /\ \A n \in 2 .. MAX_SLOTS : 0 .. (n - 1) \subseteq Seat
BY HubConstants DEF Seat, PlayerSeat

\* The absent room is a Room record.
LEMMA NoRoomType == NoRoom \in Room
BY DEF NoRoom, Room

\* The helpers on rooms return rooms.
LEMMA RoomHelpers ==
  ASSUME NEW r \in Room
  PROVE  /\ UnreadyPlayers(r) \in Room
         /\ clear_lobby_ice_paths(r) \in Room
         /\ Reseated(r) \in Room
         /\ \A c \in Client : Vacated(r, c) \in Room
         /\ \A s, t \in Seat : Swapped(r, s, t) \in Room
         /\ \A s, t \in Seat : Traded(r, s, t) \in Room
         /\ \A c \in Client, s \in Seat : Joined(r, c, s) \in Room
<1>1. ASSUME NEW q \in Room PROVE UnreadyPlayers(q) \in Room
  BY DEF UnreadyPlayers, Room
<1>2. ASSUME NEW q \in Room PROVE clear_lobby_ice_paths(q) \in Room
  BY DEF clear_lobby_ice_paths, Room
<1>3. ASSUME NEW q \in Room PROVE Reseated(q) \in Room
  BY <1>1, <1>2 DEF Reseated
<1>4. ASSUME NEW c \in Client PROVE Vacated(r, c) \in Room
  BY DEF Vacated, Room
<1>5. ASSUME NEW s \in Seat, NEW t \in Seat PROVE Swapped(r, s, t) \in Room
  BY DEF Swapped, Room
<1>6. ASSUME NEW s \in Seat, NEW t \in Seat PROVE Traded(r, s, t) \in Room
  BY <1>1, <1>2, <1>5 DEF Traded
<1>7. ASSUME NEW c \in Client, NEW s \in Seat PROVE Joined(r, c, s) \in Room
  <2>1. [r EXCEPT !.seat[s] = c] \in Room  BY DEF Room
  <2> QED BY <2>1, <1>3 DEF Joined
<1> QED BY <1>1, <1>2, <1>3, <1>4, <1>5, <1>6, <1>7

-----------------------------------------------------------------------------
(* Type correctness *)

\* Handler states are Task records.
LEMMA TaskType ==
  /\ Idle \in Task
  /\ \A st \in Step, l \in LobbyId \cup {NoLobby} : At(st, l) \in Task
  /\ \A c : Done(c) \in Task
BY DEF Idle, At, Task, Step, Done

\* A saturating u32 stays in its range.
LEMMA NextSidType ==
  ASSUME NEW n \in 1 .. MaxSession
  PROVE  NextSid(n) \in 1 .. MaxSession /\ n \in Nat
BY HubConstants DEF NextSid

\* A created room is a Room record.
LEMMA NewRoomType ==
  ASSUME NEW c \in Client, NEW n \in 2 .. MAX_SLOTS, NEW gallery \in BOOLEAN,
         NEW caps \in BOOLEAN, nextSession \in 1 .. MaxSession
  PROVE  NewRoom(c, n, gallery, caps) \in Room
<1>1. 0 .. (n - 1) \cup (IF gallery THEN GallerySeat ELSE {}) \subseteq Seat
  BY SeatFacts DEF Seat
<1>2. [NoRoom.seat EXCEPT ![0] = c] \in [Seat -> Client \cup {NoClient}]
  BY SeatFacts DEF NoRoom
<1>3. nextSession \in Nat  BY NextSidType
<1> QED BY <1>1, <1>2, <1>3, NoRoomType DEF NewRoom, Room, NoRoom

\* Replacing one room by a room keeps the type of the map.
LEMMA LobbiesType ==
  ASSUME lobbies \in [LobbyId -> Room], NEW l \in LobbyId, NEW r \in Room,
         lobbies' = [lobbies EXCEPT ![l] = r]
  PROVE  lobbies' \in [LobbyId -> Room]
OBVIOUS

\* Every step keeps the shapes of the hub's data structures.
LEMMA TypeStep == TypeOK /\ [Next]_vars => TypeOK'
<1> SUFFICES ASSUME TypeOK, [Next]_vars PROVE TypeOK'
  OBVIOUS
<1> USE DEF TypeOK
<1>1. ASSUME NEW c \in Client, HandlerStep(c) PROVE TypeOK'
  <2>0. task[c] \in Task /\ task[c].lid \in LobbyId \cup {NoLobby}
    BY DEF Task
  <2>1. CASE CreateInsert(c)
    <3>1. PICK n \in 2 .. MAX_SLOTS, gallery, caps \in BOOLEAN :
            lobbies' = [lobbies EXCEPT ![task[c].lid] = NewRoom(c, n, gallery, caps)]
      BY <2>1 DEF CreateInsert
    <3>2. lobbies' \in [LobbyId -> Room]
      BY <3>1, NewRoomType
    <3> QED BY <2>0, <2>1, <3>2, TaskType, NextSidType DEF CreateInsert
  <2>2. CASE JoinRefused(c)
    BY <2>2, TaskType DEF JoinRefused
  <2>3. CASE JoinNeedMods(c)
    <3>1. [task[c] EXCEPT !.at = "need_mods"] \in Task
      BY <2>0 DEF Task, Step
    <3> QED BY <2>3, <3>1 DEF JoinNeedMods
  <2>4. CASE JoinSeat(c)
    <3>1. PICK s \in Seat :
            lobbies' = [lobbies EXCEPT ![task[c].lid] = Joined(@, c, s)]
      BY <2>4 DEF JoinSeat
    <3>2. task[c].lid \in LobbyId
      BY <2>4 DEF JoinSeat, Live
    <3>3. lobbies' \in [LobbyId -> Room]
      BY <3>1, <3>2, RoomHelpers
    <3>4. [task[c] EXCEPT !.at = "joined"] \in Task
      BY <2>0 DEF Task, Step
    <3> QED BY <2>4, <3>2, <3>3, <3>4 DEF JoinSeat
  <2>5. CASE JoinSettle(c)
    BY <2>0, <2>5, TaskType DEF JoinSettle, SettledPending
  <2>6. CASE StartPrepare(c)
    <3>1. start_transport(lobbies[task[c].lid], CapsFor(c)) \in {"none", "host", "ice"}
      BY DEF start_transport
    <3>2. [task[c] EXCEPT !.at = "commit", !.sid = nextSession,
                          !.via = start_transport(lobbies[task[c].lid], CapsFor(c))]
            \in Task
      BY <2>0, <3>1, NextSidType DEF Task, Step
    <3>3. task' \in [Client -> Task]
      BY <2>6, <3>2 DEF StartPrepare
    <3> QED BY <2>6, <3>3, NextSidType DEF StartPrepare
  <2>7. CASE StartRefused(c)
    BY <2>7, TaskType DEF StartRefused
  <2>8. CASE StartCommit(c)
    <3>1. ASSUME task[c].lid \in Live
          PROVE  Launched(lobbies[task[c].lid], task[c]) \in Room
      <4>1. UnreadyPlayers(lobbies[task[c].lid]) \in Room
        BY <3>1, RoomHelpers DEF Live
      <4> QED BY <2>0, <4>1 DEF Launched, Room, Task
    <3>2. lobbies' \in [LobbyId -> Room]
      BY <2>8, <3>1 DEF StartCommit, Live
    <3> QED BY <2>8, <3>2, TaskType DEF StartCommit
  <2>9. CASE ClientLeave(c)
    <3>1. lobbyOf[c] \in Live =>
            clear_lobby_ice_paths(Vacated(lobbies[lobbyOf[c]], c)) \in Room
      BY RoomHelpers DEF Live
    <3>2. lobbies' \in [LobbyId -> Room]
      BY <2>9, <3>1 DEF ClientLeave, Live
    <3>3. task' \in [Client -> Task]
      BY <2>9, TaskType DEF ClientLeave, Step
    <3> QED BY <2>9, <3>2, <3>3 DEF ClientLeave
  <2>10. CASE DestroyLobby(c)
    BY <2>10, NoRoomType, TaskType DEF DestroyLobby
  <2>11. CASE Remove(c)
    BY <2>11, TaskType DEF Remove
  <2> QED BY <1>1, <2>1, <2>2, <2>3, <2>4, <2>5, <2>6, <2>7, <2>8, <2>9, <2>10, <2>11
        DEF HandlerStep
<1>2. ASSUME NEW c \in Client, ClientStep(c) PROVE TypeOK'
  <2>1. CASE Connect(c) \/ HangUp(c)
    BY <2>1, TaskType DEF Connect, HangUp, Step
  <2>2. CASE \E l \in LobbyId : CreateCheck(c, l) \/ JoinCheck(c, l)
    BY <2>2, TaskType DEF CreateCheck, JoinCheck, Step
  <2>3. CASE \E l \in LobbyId : PathAges(c, l)
    <3>1. PICK l \in LobbyId : PathAges(c, l)
      BY <2>3
    <3>2. [lobbies[l] EXCEPT !.proven = @ \ {c}] \in Room
      BY DEF Room
    <3> QED BY <3>1, <3>2 DEF PathAges
  <2>4. CASE ModXferCancel(c)
    BY <2>4 DEF ModXferCancel
  <2>5. CASE ClientLeave(c)
    <3>1. lobbyOf[c] \in Live =>
            clear_lobby_ice_paths(Vacated(lobbies[lobbyOf[c]], c)) \in Room
      BY RoomHelpers DEF Live
    <3>2. lobbies' \in [LobbyId -> Room]
      BY <2>5, <3>1 DEF ClientLeave, Live
    <3>3. task' \in [Client -> Task]
      BY <2>5, TaskType DEF ClientLeave, Step
    <3> QED BY <2>5, <3>2, <3>3 DEF ClientLeave
  <2>6. CASE CloseCheck(c)
    BY <2>6, TaskType DEF CloseCheck, Step
  <2>7. CASE \E s \in Seat : Kick(c, s)
    <3>1. PICK s \in Seat : Kick(c, s)
      BY <2>7
    <3>2. lobbyOf[c] \in LobbyId
      BY <3>1 DEF Kick, Hosts, InRoom, Live
    <3>3. lobbies[lobbyOf[c]].seat[s] \in Client
      BY <3>1, <3>2 DEF Kick, Room
    <3> QED BY <3>1, <3>2, <3>3, RoomHelpers DEF Kick
  <2>8. CASE \E s \in Seat : SeatMove(c, s)
    <3>1. PICK t \in Seat : SeatMove(c, t)
      BY <2>8
    <3>2. lobbyOf[c] \in LobbyId
      BY <3>1 DEF SeatMove, InRoom, Live
    <3>3. seat_of(lobbies[lobbyOf[c]], c) \in Seat
      BY <3>1 DEF SeatMove, Members, Players, Spectators, seat_of, Seat
    <3> QED BY <3>1, <3>2, <3>3, RoomHelpers DEF SeatMove
  <2>9. CASE \E s \in Seat : SeatSwapRequest(c, s)
    <3>1. PICK t \in Seat : SeatSwapRequest(c, t)
      BY <2>9
    <3>2. lobbyOf[c] \in LobbyId /\ lobbies[lobbyOf[c]].seat[t] \in Client
      BY <3>1 DEF SeatSwapRequest, InRoom, Live, Room
    <3>3. seat_of(lobbies[lobbyOf[c]], c) \in Seat
      BY <3>1 DEF SeatSwapRequest, Members, Players, Spectators, seat_of, Seat
    <3> QED BY <3>1, <3>2, <3>3 DEF SeatSwapRequest, Ask
  <2>10. CASE \E s, t \in Seat : Move(c, s, t)
    <3>1. PICK s \in Seat, t \in Seat : Move(c, s, t)
      BY <2>10
    <3>2. lobbyOf[c] \in LobbyId
      BY <3>1 DEF Move, Hosts, InRoom, Live
    <3> QED BY <3>1, <3>2, RoomHelpers DEF Move
  <2>11. CASE \E a \in asks, accept \in BOOLEAN : SeatSwapAnswer(c, a, accept)
    <3>1. PICK a \in asks, accept \in BOOLEAN : SeatSwapAnswer(c, a, accept)
      BY <2>11
    <3>2. CASE accept /\ InRoom(c, lobbyOf[c])
               /\ {c, a.asker} \subseteq Members(lobbies[lobbyOf[c]])
      <4>1. lobbyOf[c] \in LobbyId
        BY <3>2 DEF InRoom, Live
      <4>2. seat_of(lobbies[lobbyOf[c]], c) \in Seat
            /\ seat_of(lobbies[lobbyOf[c]], a.asker) \in Seat
        BY <3>2 DEF Members, Players, Spectators, seat_of, Seat
      <4>3. lobbies' \in [LobbyId -> Room]
        BY <3>1, <3>2, <4>1, <4>2, RoomHelpers DEF SeatSwapAnswer
      <4> QED BY <3>1, <4>3 DEF SeatSwapAnswer
    <3> QED BY <3>1, <3>2 DEF SeatSwapAnswer
  <2>12. CASE \E b \in BOOLEAN : SetReady(c, b) \/ PathReport(c, b)
    <3>1. PICK b \in BOOLEAN : SetReady(c, b) \/ PathReport(c, b)
      BY <2>12
    <3> DEFINE r == lobbies[lobbyOf[c]]
    <3>2. lobbyOf[c] \in LobbyId
      BY <3>1 DEF SetReady, PathReport, InRoom, Live
    <3>3. /\ [r EXCEPT !.ready = IF b THEN @ \cup {c} ELSE @ \ {c}] \in Room
          /\ [r EXCEPT !.proven = IF b THEN @ \cup {c} ELSE @ \ {c}] \in Room
      <4>1. PICK q \in Room : q = r
        BY <3>2
      <4>2. PICK R \in SUBSET Client : R = IF b THEN q.ready \cup {c} ELSE q.ready \ {c}
        BY DEF Room
      <4>3. PICK P \in SUBSET Client : P = IF b THEN q.proven \cup {c} ELSE q.proven \ {c}
        BY DEF Room
      <4>4. [q EXCEPT !.ready = R] \in Room /\ [q EXCEPT !.proven = P] \in Room
        BY DEF Room
      <4> QED BY <4>1, <4>2, <4>3, <4>4
    <3> QED BY <3>1, <3>2, <3>3 DEF SetReady, PathReport
  <2>13. CASE \E b \in BOOLEAN : StartCheck(c, b)
    <3>1. ASSUME NEW b \in BOOLEAN, NEW l \in LobbyId
          PROVE  [At("prepare", l) EXCEPT !.caps = b] \in Task
      BY DEF At, Task, Step
    <3> QED BY <2>13, <3>1 DEF StartCheck, Hosts, InRoom, Live
  <2>14. CASE SetHostEndpoint(c) \/ SetMatchCaps(c)
    <3> DEFINE r == lobbies[lobbyOf[c]]
    <3>1. lobbyOf[c] \in LobbyId
      BY <2>14 DEF SetHostEndpoint, SetMatchCaps, Hosts, InRoom, Live
    <3>2. /\ [r EXCEPT !.proven = @ \ Players(r)] \in Room
          /\ [r EXCEPT !.caps = TRUE] \in Room
      BY <3>1 DEF Room
    <3> QED BY <2>14, <3>1, <3>2 DEF SetHostEndpoint, SetMatchCaps
  <2> QED BY <1>2, <2>1, <2>2, <2>3, <2>4, <2>5, <2>6, <2>7, <2>8, <2>9, <2>10,
             <2>11, <2>12, <2>13, <2>14 DEF ClientStep
<1>3. CASE UNCHANGED vars
  BY <1>3 DEF vars
<1> QED BY <1>1, <1>2, <1>3 DEF Next

\* Every state the hub reaches has the shapes of its data structures.
THEOREM TypeCorrect == Spec => []TypeOK
<1>1. Init => TypeOK
  BY HubConstants, NoRoomType, TaskType DEF Init, TypeOK
<1> QED BY <1>1, TypeStep, PTL DEF Spec

-----------------------------------------------------------------------------
(* Who is in a room *)

\* The members of a room are those its seats name.
LEMMA MembersAreSeated ==
  ASSUME NEW r, NEW c
  PROVE  c \in Members(r) <=> c # NoClient /\ \E s \in Seat : r.seat[s] = c
BY DEF Members, Players, Spectators, Seat

\* Nobody is in the absent room.
LEMMA NoRoomEmpty ==
  Members(NoRoom) = {} /\ Inj(NoRoom) /\ NoRoom.host = NoClient
BY DEF Members, Players, Spectators, Seat, NoRoom, Inj

\* seat_of finds the seat of a member.
LEMMA SeatOf ==
  ASSUME NEW r, NEW c, c \in Members(r)
  PROVE  seat_of(r, c) \in Seat /\ r.seat[seat_of(r, c)] = c
BY MembersAreSeated DEF seat_of

\* Members and Inj read only the seats.
LEMMA SameSeats ==
  ASSUME NEW r, NEW q, q.seat = r.seat
  PROVE  Members(q) = Members(r) /\ (Inj(r) => Inj(q))
BY DEF Members, Players, Spectators, Inj

\* Unreadying and forgetting paths move nobody.
LEMMA ReseatedSeats ==
  ASSUME NEW r \in Room
  PROVE  /\ UnreadyPlayers(r).seat = r.seat /\ UnreadyPlayers(r).host = r.host
         /\ clear_lobby_ice_paths(r).seat = r.seat /\ clear_lobby_ice_paths(r).host = r.host
         /\ Reseated(r).seat = r.seat /\ Reseated(r).host = r.host
<1>1. ASSUME NEW q \in Room
      PROVE  /\ UnreadyPlayers(q).seat = q.seat /\ UnreadyPlayers(q).host = q.host
             /\ clear_lobby_ice_paths(q).seat = q.seat
             /\ clear_lobby_ice_paths(q).host = q.host
  BY DEF UnreadyPlayers, clear_lobby_ice_paths, Room
<1> QED BY <1>1, RoomHelpers DEF Reseated

\* A swap keeps the members, and keeps them apart.
LEMMA SwappedMembers ==
  ASSUME NEW r \in Room, NEW s \in Seat, NEW t \in Seat, Inj(r)
  PROVE  /\ Swapped(r, s, t).host = r.host
         /\ Members(Swapped(r, s, t)) = Members(r)
         /\ Inj(Swapped(r, s, t))
<1> DEFINE q == Swapped(r, s, t)
<1>1. /\ q.host = r.host
      /\ \A u \in Seat : q.seat[u] = IF u = t THEN r.seat[s]
                                     ELSE IF u = s THEN r.seat[t] ELSE r.seat[u]
  BY DEF Swapped, Room
<1> HIDE DEF q
<1>2. Members(q) = Members(r)
  <2>1. ASSUME NEW c PROVE c \in Members(q) <=> c \in Members(r)
    <3>1. (\E u \in Seat : q.seat[u] = c) <=> (\E u \in Seat : r.seat[u] = c)
      BY <1>1
    <3> QED BY <3>1, MembersAreSeated
  <2> QED BY <2>1
<1>3. Inj(q)
  BY <1>1 DEF Inj
<1> QED BY <1>1, <1>2, <1>3 DEF q

\* A trade moves two members and no one else.
LEMMA TradedMembers ==
  ASSUME NEW r \in Room, NEW s \in Seat, NEW t \in Seat, Inj(r)
  PROVE  /\ Traded(r, s, t).host = r.host
         /\ Members(Traded(r, s, t)) = Members(r)
         /\ Inj(Traded(r, s, t))
<1>1. Swapped(r, s, t) \in Room /\ UnreadyPlayers(Swapped(r, s, t)) \in Room
  BY RoomHelpers
<1>2. /\ Traded(r, s, t).seat = Swapped(r, s, t).seat
      /\ Traded(r, s, t).host = Swapped(r, s, t).host
  BY <1>1, ReseatedSeats DEF Traded
<1> QED BY <1>2, SwappedMembers, SameSeats

\* Unreadying and forgetting paths keep host and members.
LEMMA ReseatedMembers ==
  ASSUME NEW r \in Room
  PROVE  /\ Reseated(r).host = r.host
         /\ Members(Reseated(r)) = Members(r)
         /\ Inj(r) => Inj(Reseated(r))
         /\ clear_lobby_ice_paths(r).host = r.host
         /\ Members(clear_lobby_ice_paths(r)) = Members(r)
         /\ Inj(r) => Inj(clear_lobby_ice_paths(r))
BY ReseatedSeats, SameSeats

\* Vacating takes out one member.
LEMMA VacatedMembers ==
  ASSUME NEW r \in Room, NEW c \in Client, Inj(r)
  PROVE  /\ Vacated(r, c).host = r.host
         /\ Members(Vacated(r, c)) = Members(r) \ {c}
         /\ Inj(Vacated(r, c))
<1> DEFINE q == Vacated(r, c)
<1>1. /\ q.host = r.host
      /\ \A u \in Seat : q.seat[u] = IF r.seat[u] = c THEN NoClient ELSE r.seat[u]
  BY DEF Vacated, Room
<1> HIDE DEF q
<1>2. Members(q) = Members(r) \ {c}
  BY <1>1, MembersAreSeated, HubConstants
<1>3. Inj(q)
  BY <1>1 DEF Inj
<1> QED BY <1>1, <1>2, <1>3 DEF q

\* Joining adds one member.
LEMMA JoinedMembers ==
  ASSUME NEW r \in Room, NEW c \in Client, NEW s \in Seat, r.seat[s] = NoClient,
         Inj(r), c \notin Members(r)
  PROVE  /\ Joined(r, c, s).host = r.host
         /\ Members(Joined(r, c, s)) = Members(r) \cup {c}
         /\ Inj(Joined(r, c, s))
<1> DEFINE q == [r EXCEPT !.seat[s] = c]
<1>1. /\ q \in Room
      /\ q.host = r.host
      /\ \A u \in Seat : q.seat[u] = IF u = s THEN c ELSE r.seat[u]
  BY DEF Room
<1>2. Joined(r, c, s) = Reseated(q)
  BY DEF Joined
<1> HIDE DEF q
<1>3. Members(q) = Members(r) \cup {c}
  BY <1>1, MembersAreSeated, HubConstants
<1>4. Inj(q)
  BY <1>1, MembersAreSeated, HubConstants DEF Inj
<1> QED BY <1>1, <1>2, <1>3, <1>4, ReseatedMembers

\* The creator is the only member of a new room.
LEMMA NewRoomMembers ==
  ASSUME NEW c \in Client, NEW n, NEW gallery, NEW caps
  PROVE  /\ NewRoom(c, n, gallery, caps).host = c
         /\ Members(NewRoom(c, n, gallery, caps)) = {c}
         /\ Inj(NewRoom(c, n, gallery, caps))
<1> DEFINE q == NewRoom(c, n, gallery, caps)
<1>1. /\ q.host = c
      /\ \A u \in Seat : q.seat[u] = IF u = 0 THEN c ELSE NoClient
  BY SeatFacts DEF NewRoom, NoRoom
<1> HIDE DEF q
<1>2. Members(q) = {c}
  BY <1>1, SeatFacts, MembersAreSeated, HubConstants
<1>3. Inj(q)
  BY <1>1 DEF Inj
<1> QED BY <1>1, <1>2, <1>3 DEF q

-----------------------------------------------------------------------------
(* The membership invariant *)

\* The rooms keep their hosts and their members.
SameRooms ==
  \A m \in LobbyId :
    /\ lobbies'[m].host = lobbies[m].host
    /\ Members(lobbies'[m]) = Members(lobbies[m])
    /\ Inj(lobbies'[m])
    /\ lobbies'[m] = NoRoom <=> lobbies[m] = NoRoom

\* A room is live exactly while it names a host.
LEMMA HostOfRoom ==
  ASSUME Membership, NEW l \in LobbyId
  PROVE  /\ lobbies[l] # NoRoom <=> lobbies[l].host # NoClient
         /\ lobbies[l] # NoRoom => lobbies[l].host \in Client
         /\ lobbies[l] \in Room
         /\ Members(lobbies[l]) \subseteq Client
<1>1. lobbies[l] \in Room  BY DEF Membership, TypeOK
<1>2. Members(lobbies[l]) \subseteq Client
  BY <1>1 DEF Members, Players, Spectators, Room, Seat
<1> QED BY <1>1, <1>2, NoRoomEmpty, HubConstants DEF Membership, RoomsOK

\* Replacing a live room by one with its host and its members.
LEMMA RoomKept ==
  ASSUME Membership, NEW l \in LobbyId, lobbies[l] # NoRoom, NEW q \in Room,
         q.host = lobbies[l].host, Members(q) = Members(lobbies[l]), Inj(q),
         lobbies' = [lobbies EXCEPT ![l] = q]
  PROVE  SameRooms
<1>1. q # NoRoom
  BY HostOfRoom, NoRoomEmpty
<1>2. ASSUME NEW m \in LobbyId PROVE lobbies'[m] = IF m = l THEN q ELSE lobbies[m]
  BY DEF Membership, TypeOK
<1> QED BY <1>1, <1>2 DEF SameRooms, Membership, RoomsOK

\* A step that leaves the map alone keeps every room.
LEMMA RoomsUnchanged ==
  ASSUME Membership, UNCHANGED lobbies
  PROVE  SameRooms
BY DEF SameRooms, Membership, RoomsOK

\* Only the rooms change, and not in who is in them.
LEMMA MembershipKept ==
  ASSUME Membership, TypeOK', SameRooms, UNCHANGED <<conn, lobbyOf, pendingMod, task>>
  PROVE  Membership'
<1>1. RoomsOK'
  BY DEF Membership, RoomsOK, SameRooms
<1>2. MembershipAgrees'
  BY DEF Membership, MembershipAgrees, SameRooms
<1>3. TaskOK'
  BY DEF Membership, TypeOK, Task, TaskOK, SameRooms
<1> QED BY <1>1, <1>2, <1>3 DEF Membership

\* A step that changes no more of the rooms than that, and one task.
LEMMA TaskMoves ==
  ASSUME Membership, TypeOK', SameRooms, UNCHANGED lobbyOf, TaskOK',
         \A c \in Client : task[c].at = "destroy" => UNCHANGED (task[c])
  PROVE  Membership'
<1>1. RoomsOK'
  BY DEF Membership, RoomsOK, SameRooms
<1>2. MembershipAgrees'
  BY DEF Membership, MembershipAgrees, SameRooms
<1> QED BY <1>1, <1>2 DEF Membership

\* The steps that only rewrite one live room leave its members alone.
LEMMA RewritesKeep ==
  ASSUME Membership, NEW c \in Client,
         \/ \E l \in LobbyId : PathAges(c, l)
         \/ \E t \in Seat : SeatMove(c, t)
         \/ \E s, t \in Seat : Move(c, s, t)
         \/ \E a \in asks, accept \in BOOLEAN : SeatSwapAnswer(c, a, accept)
         \/ \E b \in BOOLEAN : SetReady(c, b) \/ PathReport(c, b)
         \/ SetHostEndpoint(c) \/ SetMatchCaps(c)
         \/ StartCommit(c)
  PROVE  SameRooms
<1> USE DEF Live
<1>0. ASSUME NEW l \in LobbyId
      PROVE  lobbies[l] \in Room /\ Inj(lobbies[l])
  BY DEF Membership, TypeOK, RoomsOK
<1>1. CASE \E l \in LobbyId : PathAges(c, l)
  <2>1. PICK l \in LobbyId : PathAges(c, l)
    BY <1>1
  <2> DEFINE q == [lobbies[l] EXCEPT !.proven = @ \ {c}]
  <2>2. q \in Room /\ q.host = lobbies[l].host /\ q.seat = lobbies[l].seat
    BY <1>0 DEF Room
  <2>3. lobbies[l] # NoRoom
    BY <2>1 DEF PathAges, NoRoom
  <2>4. lobbies' = [lobbies EXCEPT ![l] = q]
    BY <2>1 DEF PathAges
  <2> HIDE DEF q
  <2> QED BY <1>0, <2>2, <2>3, <2>4, SameSeats, RoomKept
<1>2. CASE \E t \in Seat : SeatMove(c, t)
  <2>1. PICK t \in Seat : SeatMove(c, t)
    BY <1>2
  <2> DEFINE l == lobbyOf[c]  r == lobbies[l]  q == Swapped(r, seat_of(r, c), t)
  <2>2. l \in LobbyId /\ r # NoRoom /\ c \in Members(r)
    BY <2>1 DEF SeatMove, InRoom
  <2>3. q \in Room /\ q.host = r.host /\ Members(q) = Members(r) /\ Inj(q)
    BY <1>0, <2>2, SeatOf, SwappedMembers, RoomHelpers
  <2>4. /\ Reseated(q) \in Room /\ Reseated(q).host = r.host
        /\ Members(Reseated(q)) = Members(r) /\ Inj(Reseated(q))
    BY <2>3, RoomHelpers, ReseatedMembers
  <2>5. lobbies' = [lobbies EXCEPT ![l] = Reseated(q)]
    BY <2>1 DEF SeatMove
  <2> HIDE DEF q
  <2> QED BY <2>2, <2>4, <2>5, RoomKept
<1>3. CASE \E s, t \in Seat : Move(c, s, t)
  <2>1. PICK s \in Seat, t \in Seat : Move(c, s, t)
    BY <1>3
  <2> DEFINE l == lobbyOf[c]  r == lobbies[l]  q == Swapped(r, s, t)
  <2>2. l \in LobbyId /\ r # NoRoom
    BY <2>1 DEF Move, Hosts, InRoom
  <2>3. q \in Room /\ q.host = r.host /\ Members(q) = Members(r) /\ Inj(q)
    BY <1>0, <2>2, SwappedMembers, RoomHelpers
  <2>4. /\ Reseated(q) \in Room /\ Reseated(q).host = r.host
        /\ Members(Reseated(q)) = Members(r) /\ Inj(Reseated(q))
    BY <2>3, RoomHelpers, ReseatedMembers
  <2>5. lobbies' = [lobbies EXCEPT ![l] = Reseated(q)]
    BY <2>1 DEF Move
  <2> HIDE DEF q
  <2> QED BY <2>2, <2>4, <2>5, RoomKept
<1>4. CASE \E a \in asks, accept \in BOOLEAN : SeatSwapAnswer(c, a, accept)
  <2>1. PICK a \in asks, accept \in BOOLEAN : SeatSwapAnswer(c, a, accept)
    BY <1>4
  <2> DEFINE l == lobbyOf[c]  r == lobbies[l]
             q == Traded(r, seat_of(r, c), seat_of(r, a.asker))
  <2>2. CASE accept /\ InRoom(c, l) /\ {c, a.asker} \subseteq Members(r)
    <3>1. l \in LobbyId /\ r # NoRoom /\ c \in Members(r) /\ a.asker \in Members(r)
      BY <2>2 DEF InRoom
    <3>5. seat_of(r, c) \in Seat /\ seat_of(r, a.asker) \in Seat
      BY <3>1, SeatOf
    <3>6. r \in Room /\ Inj(r)
      BY <1>0, <3>1
    <3>2. q \in Room /\ q.host = r.host /\ Members(q) = Members(r) /\ Inj(q)
      BY <3>5, <3>6, TradedMembers, RoomHelpers
    <3>3. lobbies' = [lobbies EXCEPT ![l] = q]
      BY <2>1, <2>2 DEF SeatSwapAnswer
    <3> HIDE DEF q
    <3> QED BY <3>1, <3>2, <3>3, RoomKept
  <2>3. CASE ~(accept /\ InRoom(c, l) /\ {c, a.asker} \subseteq Members(r))
    BY <2>1, <2>3, RoomsUnchanged DEF SeatSwapAnswer
  <2> QED BY <2>2, <2>3
<1>5. CASE \E b \in BOOLEAN : SetReady(c, b) \/ PathReport(c, b)
  <2>1. PICK b \in BOOLEAN : SetReady(c, b) \/ PathReport(c, b)
    BY <1>5
  <2> DEFINE l == lobbyOf[c]  r == lobbies[l]
             q1 == [r EXCEPT !.ready = IF b THEN @ \cup {c} ELSE @ \ {c}]
             q2 == [r EXCEPT !.proven = IF b THEN @ \cup {c} ELSE @ \ {c}]
  <2>2. l \in LobbyId /\ r # NoRoom
    BY <2>1 DEF SetReady, PathReport, InRoom
  <2>3. /\ q1 \in Room /\ q1.host = r.host /\ q1.seat = r.seat
        /\ q2 \in Room /\ q2.host = r.host /\ q2.seat = r.seat
    BY <1>0, <2>2 DEF Room
  <2>4. \/ lobbies' = [lobbies EXCEPT ![l] = q1]
        \/ lobbies' = [lobbies EXCEPT ![l] = q2]
    BY <2>1 DEF SetReady, PathReport
  <2> HIDE DEF q1, q2
  <2> QED BY <1>0, <2>2, <2>3, <2>4, SameSeats, RoomKept
<1>6. CASE SetHostEndpoint(c) \/ SetMatchCaps(c)
  <2> DEFINE l == lobbyOf[c]  r == lobbies[l]
             q1 == [r EXCEPT !.proven = @ \ Players(r)]
             q2 == [r EXCEPT !.caps = TRUE]
  <2>1. l \in LobbyId /\ r # NoRoom
    BY <1>6 DEF SetHostEndpoint, SetMatchCaps, Hosts, InRoom
  <2>2. /\ q1 \in Room /\ q1.host = r.host /\ q1.seat = r.seat
        /\ q2 \in Room /\ q2.host = r.host /\ q2.seat = r.seat
    BY <1>0, <2>1 DEF Room
  <2>3. \/ lobbies' = [lobbies EXCEPT ![l] = q1]
        \/ lobbies' = [lobbies EXCEPT ![l] = q2]
    BY <1>6 DEF SetHostEndpoint, SetMatchCaps
  <2> HIDE DEF q1, q2
  <2> QED BY <1>0, <2>1, <2>2, <2>3, SameSeats, RoomKept
<1>7. CASE StartCommit(c)
  <2> DEFINE l == task[c].lid  r == lobbies[l]  q == Launched(r, task[c])
  <2>1. CASE l \in Live
    <3>1. l \in LobbyId /\ r # NoRoom /\ r \in Room /\ Inj(r)
      BY <1>0, <2>1
    <3>2. task[c] \in Task
      BY DEF Membership, TypeOK
    <3>3. UnreadyPlayers(r) \in Room
      BY <3>1, RoomHelpers
    <3>4. q \in Room /\ q.host = UnreadyPlayers(r).host /\ q.seat = UnreadyPlayers(r).seat
      BY <3>2, <3>3 DEF Launched, Room, Task
    <3>5. q.host = r.host /\ q.seat = r.seat
      BY <3>1, <3>4, ReseatedSeats
    <3>6. lobbies' = [lobbies EXCEPT ![l] = q]
      BY <1>7, <2>1 DEF StartCommit
    <3> HIDE DEF q
    <3> QED BY <3>1, <3>4, <3>5, <3>6, SameSeats, RoomKept
  <2>2. CASE l \notin Live
    BY <1>7, <2>2, RoomsUnchanged DEF StartCommit
  <2> QED BY <2>1, <2>2
<1> QED BY <1>1, <1>2, <1>3, <1>4, <1>5, <1>6, <1>7

\* The invariant holds of a hub that has just started.
LEMMA MembershipInit == Init => Membership
<1> SUFFICES ASSUME Init PROVE Membership
  OBVIOUS
<1>1. TypeOK
  BY HubConstants, NoRoomType, TaskType DEF Init, TypeOK
<1>2. RoomsOK
  BY NoRoomEmpty DEF Init, RoomsOK
<1>3. MembershipAgrees
  BY NoRoomEmpty, HubConstants DEF Init, MembershipAgrees
<1>4. TaskOK
  BY DEF Init, TaskOK, Idle, At
<1> QED BY <1>1, <1>2, <1>3, <1>4 DEF Membership

\* A handler in mid-join or mid-create is seated nowhere.
LEMMA UnseatedTask ==
  ASSUME Membership, NEW c \in Client, lobbyOf[c] = NoLobby, task[c].at # "destroy"
  PROVE  \A l \in LobbyId : c \notin Members(lobbies[l])
BY HubConstants DEF Membership, MembershipAgrees

\* No client is in two rooms: its lobby_id names at most one, and the room a
\* host is about to destroy is the one its lobby_id named.
LEMMA MembersApart ==
  ASSUME Membership, NEW l \in LobbyId, NEW m \in LobbyId, l # m
  PROVE  Members(lobbies[l]) \cap Members(lobbies[m]) = {}
<1> SUFFICES ASSUME NEW c \in Members(lobbies[l]), c \in Members(lobbies[m])
             PROVE  FALSE
  OBVIOUS
<1>1. c \in Client
  BY HostOfRoom
<1> QED BY <1>1, HubConstants DEF Membership, MembershipAgrees, TaskOK

\* client_leave, whether a message or the cleanup asked for it.
LEMMA MembershipLeave ==
  ASSUME Membership, TypeOK', NEW c \in Client, ClientLeave(c)
  PROVE  Membership'
<1> DEFINE l == lobbyOf[c]  r == lobbies[l]
<1> USE DEF Live
<1>0. /\ TypeOK /\ RoomsOK /\ MembershipAgrees /\ TaskOK
      /\ \A m \in LobbyId : lobbies[m] \in Room
  BY DEF Membership, TypeOK
<1>1. /\ task[c].at \in {"idle", "leave"} /\ conn[c] # "off"
      /\ \A d \in Client : lobbyOf'[d] = IF d = c THEN NoLobby ELSE lobbyOf[d]
      /\ \A d \in Client : d # c => task'[d] = task[d]
      /\ UNCHANGED <<conn, pendingMod>>
  BY <1>0 DEF ClientLeave, Handles, TypeOK, TaskOK
<1>2. \A m \in LobbyId : c \in Members(lobbies[m]) => m = l
  BY <1>0, <1>1 DEF MembershipAgrees
<1>3. CASE l \in Live /\ r.host = c
  <2>1. /\ task'[c].at = "destroy" /\ task'[c].lid = l /\ l \in LobbyId
        /\ UNCHANGED lobbies
    BY <1>0, <1>3 DEF ClientLeave, EndsRoom, TypeOK, At
  <2>2. RoomsOK'
    BY <1>0, <2>1 DEF RoomsOK
  <2>3. MembershipAgrees'
    BY <1>0, <1>1, <1>2, <1>3, <2>1, HubConstants DEF MembershipAgrees
  <2>4. TaskOK'
    BY <1>0, <1>1, <1>3, <2>1, HubConstants DEF TaskOK
  <2> QED BY <2>2, <2>3, <2>4 DEF Membership
<1>4. CASE ~(l \in Live /\ r.host = c)
  <2>1. task'[c].at \in {"idle", "remove"} /\ task'[c].lid = NoLobby
    BY <1>0, <1>4 DEF ClientLeave, EndsRoom, TypeOK, Done, Idle, At
  <2>2. \A m \in LobbyId :
          lobbies'[m] = IF m = l /\ l \in Live
                          THEN clear_lobby_ice_paths(Vacated(r, c)) ELSE lobbies[m]
    BY <1>0, <1>4 DEF ClientLeave, EndsRoom, TypeOK
  <2>3. ASSUME NEW m \in LobbyId
        PROVE  /\ lobbies'[m].host = lobbies[m].host
               /\ Members(lobbies'[m]) = Members(lobbies[m]) \ {c}
               /\ Inj(lobbies'[m])
               /\ lobbies'[m] = NoRoom <=> lobbies[m] = NoRoom
    <3>1. CASE m = l /\ l \in Live
      <4>1. /\ Vacated(r, c) \in Room /\ Vacated(r, c).host = r.host
            /\ Members(Vacated(r, c)) = Members(r) \ {c} /\ Inj(Vacated(r, c))
        BY <1>0, <3>1, VacatedMembers, RoomHelpers DEF RoomsOK
      <4>2. /\ lobbies'[m].host = r.host
            /\ Members(lobbies'[m]) = Members(r) \ {c} /\ Inj(lobbies'[m])
        BY <2>2, <3>1, <4>1, ReseatedMembers
      <4>3. r.host # NoClient /\ r # NoRoom
        BY <3>1, HostOfRoom
      <4> QED BY <3>1, <4>2, <4>3, NoRoomEmpty
    <3>2. CASE ~(m = l /\ l \in Live)
      BY <1>0, <1>2, <2>2, <3>2, NoRoomEmpty DEF RoomsOK
    <3> QED BY <3>1, <3>2
  <2> HIDE DEF l
  <2>4. RoomsOK'
    <3>1. \A m \in LobbyId : m \in Live => lobbies[m].host # c
      BY <1>0, <1>2, <1>4 DEF RoomsOK, l
    <3> QED BY <1>0, <2>3, <3>1 DEF RoomsOK
  <2>5. MembershipAgrees'
    BY <1>0, <1>1, <1>2, <2>1, <2>3, HubConstants DEF MembershipAgrees
  <2>6. TaskOK'
    BY <1>0, <1>1, <2>1, <2>3, HubConstants DEF TaskOK
  <2> QED BY <2>4, <2>5, <2>6 DEF Membership
<1> QED BY <1>3, <1>4

\* The scopes of a running handler.
LEMMA MembershipHandler ==
  ASSUME Membership, TypeOK', NEW c \in Client, HandlerStep(c)
  PROVE  Membership'
<1> USE DEF Live
<1>0. /\ TypeOK /\ RoomsOK /\ MembershipAgrees /\ TaskOK
      /\ task[c] \in Task
      /\ \A l \in LobbyId : lobbies[l] \in Room
  BY DEF Membership, TypeOK
<1>1. CASE CreateInsert(c)
  <2> DEFINE l == task[c].lid
  <2>1. PICK n, gallery, caps :
          lobbies' = [lobbies EXCEPT ![l] = NewRoom(c, n, gallery, caps)]
    BY <1>1 DEF CreateInsert
  <2> DEFINE q == NewRoom(c, n, gallery, caps)
  <2>2. /\ l \in LobbyId /\ lobbies[l] = NoRoom
        /\ lobbyOf[c] = NoLobby /\ task[c].at = "create"
        /\ \A d \in Client : lobbyOf[d] # l /\ (d # c => task[d].lid # l)
    BY <1>0, <1>1 DEF CreateInsert, TaskOK
  <2>3. q.host = c /\ Members(q) = {c} /\ Inj(q)
    BY NewRoomMembers
  <2>4. \A m \in LobbyId : lobbies'[m] = IF m = l THEN q ELSE lobbies[m]
    BY <1>0, <2>1 DEF TypeOK
  <2>5. /\ \A d \in Client : lobbyOf'[d] = IF d = c THEN l ELSE lobbyOf[d]
        /\ \A d \in Client : task'[d] = IF d = c THEN Idle ELSE task[d]
        /\ UNCHANGED <<conn, pendingMod>>
    BY <1>0, <1>1 DEF CreateInsert, TypeOK
  <2>6. \A m \in LobbyId : c \notin Members(lobbies[m])
    BY <2>2, UnseatedTask
  <2> HIDE DEF q, l
  <2>7. RoomsOK'
    BY <1>0, <2>3, <2>4 DEF RoomsOK
  <2>8. MembershipAgrees'
    BY <1>0, <2>2, <2>3, <2>4, <2>5, <2>6, NoRoomEmpty DEF MembershipAgrees
  <2>9. conn[c] # "off"
    BY <1>0, <2>2 DEF TaskOK
  <2>10. TaskOK'
    BY <1>0, <2>2, <2>3, <2>4, <2>5, <2>9 DEF TaskOK, Idle, At, l
  <2> QED BY <2>7, <2>8, <2>10 DEF Membership
<1>2. CASE JoinRefused(c) \/ JoinNeedMods(c) \/ JoinSettle(c)
  <2>1. SameRooms
    BY <1>2, RoomsUnchanged DEF JoinRefused, JoinNeedMods, JoinSettle
  <2>2. /\ task[c].at \in {"join", "joined", "need_mods"}
        /\ \A d \in Client : d # c => task'[d] = task[d]
        /\ \/ task'[c].at = "idle" /\ task'[c].lid = NoLobby
           \/ task[c].at = "join" /\ task'[c].at = "need_mods" /\ task'[c].lid = task[c].lid
        /\ \A d \in Client : \/ pendingMod'[d] = pendingMod[d]
                             \/ pendingMod'[d] \in {NoLobby, task[c].lid}
        /\ UNCHANGED <<lobbyOf, conn, lobbies>>
    BY <1>0, <1>2 DEF JoinRefused, JoinNeedMods, JoinSettle, SettledPending,
                      TypeOK, Task, Idle, At
  <2>3. TaskOK'
    BY <1>0, <2>2, HubConstants DEF TaskOK
  <2> QED BY <2>1, <2>2, <2>3, TaskMoves
<1>3. CASE JoinSeat(c)
  <2> DEFINE l == task[c].lid  r == lobbies[l]
  <2>1. PICK s \in Seat : /\ s \in FreeSeats(r)
                          /\ lobbies' = [lobbies EXCEPT ![l] = Joined(r, c, s)]
    BY <1>3 DEF JoinSeat, IsFirstFree
  <2> DEFINE q == Joined(r, c, s)
  <2>2. /\ l \in LobbyId /\ r # NoRoom /\ r \in Room /\ r.seat[s] = NoClient
        /\ lobbyOf[c] = NoLobby /\ task[c].at = "join"
    BY <1>0, <1>3, <2>1 DEF JoinSeat, TaskOK, FreeSeats
  <2>3. \A m \in LobbyId : c \notin Members(lobbies[m])
    BY <2>2, UnseatedTask
  <2>4. q.host = r.host /\ Members(q) = Members(r) \cup {c} /\ Inj(q)
    BY <1>0, <2>2, <2>3, JoinedMembers DEF RoomsOK
  <2>5. \A m \in LobbyId : lobbies'[m] = IF m = l THEN q ELSE lobbies[m]
    BY <1>0, <2>1 DEF TypeOK
  <2>6. /\ \A d \in Client : lobbyOf'[d] = IF d = c THEN l ELSE lobbyOf[d]
        /\ \A d \in Client : d # c => task'[d] = task[d]
        /\ task'[c].at = "joined" /\ task'[c].lid = l
        /\ UNCHANGED <<conn, pendingMod>>
    BY <1>0, <1>3 DEF JoinSeat, TypeOK, Task
  <2>7. r.host # NoClient /\ q # NoRoom
    BY <2>2, <2>4, HostOfRoom, NoRoomEmpty
  <2> HIDE DEF q
  <2>8. RoomsOK'
    BY <1>0, <2>2, <2>4, <2>5 DEF RoomsOK
  <2>9. MembershipAgrees'
    BY <1>0, <2>2, <2>3, <2>4, <2>5, <2>6 DEF MembershipAgrees
  <2>10. TaskOK'
    BY <1>0, <2>2, <2>4, <2>5, <2>6 DEF TaskOK
  <2> QED BY <2>8, <2>9, <2>10 DEF Membership
<1>4. CASE StartPrepare(c) \/ StartRefused(c)
  <2>1. SameRooms
    BY <1>4, RoomsUnchanged DEF StartPrepare, StartRefused
  <2>2. /\ task[c].at = "prepare"
        /\ \A d \in Client : d # c => task'[d] = task[d]
        /\ task'[c].at \in {"commit", "idle"} /\ task'[c].lid \in {task[c].lid, NoLobby}
        /\ UNCHANGED <<lobbyOf, pendingMod, conn, lobbies>>
    BY <1>0, <1>4 DEF StartPrepare, StartRefused, TypeOK, Task, Idle, At
  <2>3. TaskOK'
    BY <1>0, <2>2, HubConstants DEF TaskOK
  <2> QED BY <2>1, <2>2, <2>3, TaskMoves
<1>5. CASE StartCommit(c)
  <2>1. SameRooms
    BY <1>5, RewritesKeep
  <2>2. /\ task[c].at = "commit"
        /\ \A d \in Client : task'[d] = IF d = c THEN Idle ELSE task[d]
        /\ UNCHANGED <<lobbyOf, pendingMod, conn>>
    BY <1>0, <1>5 DEF StartCommit, TypeOK
  <2>3. TaskOK'
    BY <1>0, <2>1, <2>2, HubConstants DEF TaskOK, SameRooms, Idle, At
  <2> QED BY <2>1, <2>2, <2>3, TaskMoves
<1>6. CASE task[c].at = "leave" /\ ClientLeave(c)
  BY <1>6, MembershipLeave
<1>7. CASE DestroyLobby(c)
  <2> DEFINE l == task[c].lid  r == lobbies[l]
  <2>1. /\ l \in LobbyId /\ task[c].at = "destroy"
        /\ lobbyOf[c] \in {NoLobby, l} /\ conn[c] # "off"
    BY <1>0, <1>7 DEF DestroyLobby, TaskOK
  <2>2. \A m \in LobbyId : lobbies'[m] = IF m = l THEN NoRoom ELSE lobbies[m]
    BY <1>0, <1>7 DEF DestroyLobby, TypeOK
  <2>3. /\ \A d \in Client : lobbyOf'[d] = IF d \in Members(r) THEN NoLobby ELSE lobbyOf[d]
        /\ \A d \in Client : d # c => task'[d] = task[d]
        /\ task'[c].at \in {"idle", "remove"} /\ task'[c].lid = NoLobby
        /\ UNCHANGED <<conn, pendingMod>>
    BY <1>0, <1>7 DEF DestroyLobby, member_ids, TypeOK, Done, Idle, At
  <2>4. lobbyOf'[c] = NoLobby
    BY <1>0, <2>1, <2>3 DEF MembershipAgrees
  <2>5. \A m \in LobbyId : m # l => Members(r) \cap Members(lobbies[m]) = {}
    BY <2>1, MembersApart
  <2> HIDE DEF l
  <2>6. RoomsOK'
    BY <1>0, <2>2, NoRoomEmpty DEF RoomsOK
  <2>7. MembershipAgrees'
    BY <1>0, <2>1, <2>2, <2>3, <2>5, NoRoomEmpty, HubConstants DEF MembershipAgrees, l
  <2>8. TaskOK'
    BY <1>0, <2>1, <2>2, <2>3, <2>4, NoRoomEmpty, HubConstants DEF TaskOK, l
  <2> QED BY <2>6, <2>7, <2>8 DEF Membership
<1>8. CASE Remove(c)
  <2>1. SameRooms
    BY <1>8, RoomsUnchanged DEF Remove
  <2>2. /\ task[c].at = "remove" /\ lobbyOf[c] = NoLobby
        /\ \A d \in Client : d # c => task'[d] = task[d]
        /\ task'[c].at = "idle" /\ task'[c].lid = NoLobby
        /\ \A d \in Client : lobbyOf'[d] = lobbyOf[d]
        /\ \A d \in Client : d # c => conn'[d] = conn[d]
        /\ \A d \in Client : pendingMod'[d] \in {NoLobby, pendingMod[d]}
        /\ UNCHANGED lobbies
    BY <1>0, <1>8 DEF Remove, TypeOK, TaskOK, Idle, At
  <2>3. TaskOK'
    BY <1>0, <2>2, HubConstants DEF TaskOK
  <2>4. lobbyOf' = lobbyOf
    BY <1>0, <2>2, <1>8 DEF Remove, TypeOK
  <2> QED BY <2>1, <2>2, <2>3, <2>4, TaskMoves
<1> QED BY <1>1, <1>2, <1>3, <1>4, <1>5, <1>6, <1>7, <1>8 DEF HandlerStep

\* Messages, hang-ups and the clock.
LEMMA MembershipClient ==
  ASSUME Membership, TypeOK', NEW c \in Client, ClientStep(c)
  PROVE  Membership'
<1> USE DEF Live
<1>0. /\ TypeOK /\ RoomsOK /\ MembershipAgrees /\ TaskOK
      /\ task[c] \in Task
      /\ \A l \in LobbyId : lobbies[l] \in Room
  BY DEF Membership, TypeOK
<1>1. CASE Connect(c)
  <2>1. SameRooms
    BY <1>1, RoomsUnchanged DEF Connect
  <2>2. /\ lobbyOf[c] = NoLobby /\ task[c].at = "idle" /\ lobbyOf' = lobbyOf
        /\ \A d \in Client : d # c => conn'[d] = conn[d]
        /\ conn'[c] = "up"
        /\ \A d \in Client : pendingMod'[d] \in {NoLobby, pendingMod[d]}
        /\ UNCHANGED <<lobbies, task>>
    BY <1>0, <1>1 DEF Connect, TypeOK, TaskOK
  <2>3. TaskOK'
    BY <1>0, <2>2, HubConstants DEF TaskOK
  <2> QED BY <2>1, <2>2, <2>3, TaskMoves
<1>2. CASE HangUp(c)
  <2>1. SameRooms
    BY <1>2, RoomsUnchanged DEF HangUp
  <2>2. /\ task[c].at = "idle" /\ conn'[c] = "closing"
        /\ task'[c].at = "leave" /\ task'[c].lid = NoLobby
        /\ \A d \in Client : d # c => task'[d] = task[d] /\ conn'[d] = conn[d]
        /\ UNCHANGED <<lobbies, lobbyOf, pendingMod>>
    BY <1>0, <1>2 DEF HangUp, Handles, TypeOK, At
  <2>3. TaskOK'
    BY <1>0, <2>2, HubConstants DEF TaskOK
  <2> QED BY <2>1, <2>2, <2>3, TaskMoves
<1>3. CASE \E l \in LobbyId : CreateCheck(c, l)
  <2>1. PICK l \in LobbyId : CreateCheck(c, l)
    BY <1>3
  <2>2. SameRooms
    BY <2>1, RoomsUnchanged DEF CreateCheck
  <2>3. /\ task[c].at = "idle" /\ conn[c] = "up" /\ lobbyOf[c] = NoLobby
        /\ task'[c].at = "create" /\ task'[c].lid = l /\ lobbies[l] = NoRoom
        /\ \A d \in Client : lobbyOf[d] # l /\ pendingMod[d] # l /\ task[d].lid # l
        /\ \A d \in Client : d # c => task'[d] = task[d]
        /\ UNCHANGED <<conn, lobbies, lobbyOf, pendingMod>>
    BY <1>0, <2>1 DEF CreateCheck, Handles, NotSeated, Fresh, TypeOK, At
  <2>4. TaskOK'
    BY <1>0, <2>3, HubConstants DEF TaskOK
  <2> QED BY <2>2, <2>3, <2>4, TaskMoves
<1>4. CASE \E l \in LobbyId : JoinCheck(c, l)
  <2>1. PICK l \in LobbyId : JoinCheck(c, l)
    BY <1>4
  <2>2. SameRooms
    BY <2>1, RoomsUnchanged DEF JoinCheck
  <2>3. /\ task[c].at = "idle" /\ conn[c] = "up" /\ lobbyOf[c] = NoLobby
        /\ task'[c].at = "join" /\ task'[c].lid = l /\ lobbies[l] # NoRoom
        /\ \A d \in Client : d # c => task'[d] = task[d]
        /\ UNCHANGED <<conn, lobbies, lobbyOf, pendingMod>>
    BY <1>0, <2>1 DEF JoinCheck, Handles, NotSeated, TypeOK, At
  <2>4. TaskOK'
    BY <1>0, <2>3, HubConstants DEF TaskOK
  <2> QED BY <2>2, <2>3, <2>4, TaskMoves
<1>5. CASE ModXferCancel(c)
  <2>1. SameRooms
    BY <1>5, RoomsUnchanged DEF ModXferCancel
  <2>2. /\ \A d \in Client : pendingMod'[d] \in {NoLobby, pendingMod[d]}
        /\ UNCHANGED <<conn, lobbies, lobbyOf, task>>
    BY <1>0, <1>5 DEF ModXferCancel, TypeOK
  <2>3. TaskOK'
    BY <1>0, <2>2, HubConstants DEF TaskOK
  <2> QED BY <2>1, <2>2, <2>3, TaskMoves
<1>6. CASE task[c].at = "idle" /\ ClientLeave(c)
  BY <1>6, MembershipLeave
<1>7. CASE CloseCheck(c) \/ \E b \in BOOLEAN : StartCheck(c, b)
  <2>1. SameRooms
    BY <1>7, RoomsUnchanged DEF CloseCheck, StartCheck
  <2>2. /\ task[c].at = "idle" /\ conn[c] = "up"
        /\ lobbyOf[c] \in LobbyId /\ lobbies[lobbyOf[c]] # NoRoom
        /\ lobbies[lobbyOf[c]].host = c
        /\ task'[c].at \in {"destroy", "prepare"} /\ task'[c].lid = lobbyOf[c]
        /\ \A d \in Client : d # c => task'[d] = task[d]
        /\ UNCHANGED <<conn, lobbies, lobbyOf, pendingMod>>
    BY <1>0, <1>7 DEF CloseCheck, StartCheck, Handles, Hosts, InRoom, TypeOK, At
  <2>3. TaskOK'
    BY <1>0, <2>2, HubConstants DEF TaskOK
  <2> QED BY <2>1, <2>2, <2>3, TaskMoves
<1>8. CASE \E s \in Seat : Kick(c, s)
  <2>1. PICK s \in Seat : Kick(c, s)
    BY <1>8
  <2> DEFINE l == lobbyOf[c]  r == lobbies[l]  v == r.seat[s]
             q == Reseated(Vacated(r, v))
  <2>2. /\ l \in LobbyId /\ r # NoRoom /\ r \in Room /\ r.host = c
        /\ v \in Client /\ v # c /\ v \in Members(r) /\ Inj(r)
    <3>1. l \in LobbyId /\ r # NoRoom /\ r.host = c /\ v \notin {NoClient, c}
      BY <2>1 DEF Kick, Hosts, InRoom
    <3>2. r \in Room /\ Inj(r)
      BY <1>0, <3>1 DEF RoomsOK
    <3>3. v \in Client
      BY <3>1, <3>2 DEF Room
    <3> QED BY <3>1, <3>2, <3>3, MembersAreSeated
  <2>3. q.host = r.host /\ Members(q) = Members(r) \ {v} /\ Inj(q)
    BY <2>2, VacatedMembers, RoomHelpers, ReseatedMembers
  <2>4. \A m \in LobbyId : lobbies'[m] = IF m = l THEN q ELSE lobbies[m]
    BY <1>0, <2>1 DEF Kick, TypeOK
  <2>5. /\ \A d \in Client : lobbyOf'[d] = IF d = v THEN NoLobby ELSE lobbyOf[d]
        /\ UNCHANGED <<conn, pendingMod, task>>
    BY <1>0, <2>1 DEF Kick, TypeOK
  <2>6. \A m \in LobbyId : m # l => v \notin Members(lobbies[m])
    BY <2>2, MembersApart
  <2>7. q # NoRoom /\ r.host # NoClient
    BY <2>2, <2>3, NoRoomEmpty, HubConstants
  <2>8. v \in Members(lobbies[l]) /\ lobbies[l].host # v
    BY <2>2
  <2> HIDE DEF q, v, l
  <2>9. RoomsOK'
    BY <1>0, <2>2, <2>3, <2>4 DEF RoomsOK
  <2>10. MembershipAgrees'
    BY <1>0, <2>2, <2>3, <2>4, <2>5, <2>6, <2>8, HubConstants DEF MembershipAgrees
  <2>11. TaskOK'
    BY <1>0, <2>2, <2>3, <2>4, <2>5, <2>7, HubConstants DEF TaskOK
  <2> QED BY <2>9, <2>10, <2>11 DEF Membership
<1>9. CASE \E t \in Seat : SeatSwapRequest(c, t)
  BY <1>9, RoomsUnchanged, MembershipKept DEF SeatSwapRequest
<1>10. CASE \/ \E l \in LobbyId : PathAges(c, l)
            \/ \E t \in Seat : SeatMove(c, t)
            \/ \E s, t \in Seat : Move(c, s, t)
            \/ \E a \in asks, accept \in BOOLEAN : SeatSwapAnswer(c, a, accept)
            \/ \E b \in BOOLEAN : SetReady(c, b) \/ PathReport(c, b)
            \/ SetHostEndpoint(c) \/ SetMatchCaps(c)
  <2>1. SameRooms
    BY <1>10, RewritesKeep
  <2>2. UNCHANGED <<conn, lobbyOf, pendingMod, task>>
    BY <1>10 DEF PathAges, SeatMove, Move, SeatSwapAnswer, SetReady, PathReport,
                 SetHostEndpoint, SetMatchCaps
  <2> QED BY <2>1, <2>2, MembershipKept
<1> QED BY <1>1, <1>2, <1>3, <1>4, <1>5, <1>6, <1>7, <1>8, <1>9, <1>10 DEF ClientStep

\* Every lock scope preserves the invariant.
LEMMA MembershipStep == Membership /\ [Next]_vars => Membership'
<1> SUFFICES ASSUME Membership, [Next]_vars PROVE Membership'
  OBVIOUS
<1>1. TypeOK'
  BY TypeStep DEF Membership
<1>2. ASSUME NEW c \in Client, HandlerStep(c) \/ ClientStep(c) PROVE Membership'
  BY <1>1, <1>2, MembershipHandler, MembershipClient
<1>3. CASE UNCHANGED vars
  BY <1>1, <1>3, RoomsUnchanged, MembershipKept DEF vars
<1> QED BY <1>2, <1>3 DEF Next

\* The membership invariant holds in every reachable state.
THEOREM MembershipInvariant == Spec => []Membership
BY MembershipInit, MembershipStep, PTL DEF Spec

\* lobby_id and the rooms' tables agree, whatever handlers are between scopes.
THEOREM MembershipAgreesAlways == Spec => []MembershipAgrees
<1>1. Membership => MembershipAgrees
  BY DEF Membership
<1> QED BY <1>1, MembershipInvariant, PTL

\* No client sits in two seats.
THEOREM OneSeatAlways == Spec => []OneSeat
<1>1. Membership => OneSeat
  <2> SUFFICES ASSUME Membership, NEW l \in LobbyId, NEW m \in LobbyId,
                      NEW s \in Seat, NEW t \in Seat,
                      lobbies[l].seat[s] = lobbies[m].seat[t],
                      lobbies[l].seat[s] # NoClient
               PROVE  l = m /\ s = t
    BY DEF OneSeat
  <2>1. /\ lobbies[l].seat[s] \in Members(lobbies[l])
        /\ lobbies[l].seat[s] \in Members(lobbies[m])
    BY MembersAreSeated
  <2>2. l = m
    BY <2>1, MembersApart
  <2> QED BY <2>2 DEF Membership, RoomsOK, Inj
<1> QED BY <1>1, MembershipInvariant, PTL

\* A listed room has its host, seated and connected.
THEOREM HostPresentAlways == Spec => []HostPresent
<1>1. Membership => HostPresent
  <2> SUFFICES ASSUME Membership, NEW l \in LobbyId, lobbies[l] # NoRoom
               PROVE  /\ lobbies[l].host \in Members(lobbies[l])
                      /\ conn[lobbies[l].host] # "off"
    BY DEF HostPresent, Live
  <2>1. lobbies[l].host \in Members(lobbies[l]) /\ lobbies[l].host \in Client
    BY HostOfRoom DEF Membership, RoomsOK
  <2> QED BY <2>1, HubConstants DEF Membership, MembershipAgrees, TaskOK
<1> QED BY <1>1, MembershipInvariant, PTL
=============================================================================
