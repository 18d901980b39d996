---------------------------- MODULE HubRoomProofs ----------------------------
(***************************************************************************)
(* Proofs about what happens inside the rooms of LobbyHub: path reports,   *)
(* Ready votes, sessions, and the refinement of RoomMembership.  They rest *)
(* on the membership invariant of LobbyHubProofs.                          *)
(*                                                                         *)
(* RoomChanges says once what any step may make of any room; the room      *)
(* properties follow from it without looking at the actions again.         *)
(***************************************************************************)
EXTENDS LobbyHubProofs

-----------------------------------------------------------------------------
(* What a step may make of a room *)

\* Room r becomes q: it is left alone, closed, created, reseated, left by a
\* guest, traded in, or rewritten with everybody in their seats.
RoomChange(r, q) ==
  \/ q = r
  \/ q = NoRoom
  \/ r = NoRoom /\ q.proven = {}
  \/ \E p \in Room : q = Reseated(p)
  \/ \E c \in Client : q = clear_lobby_ice_paths(Vacated(r, c))
  \/ \E s, t \in Seat : q = Traded(r, s, t)
  \/ q.seat = r.seat /\ q.proven \subseteq r.proven \cup Players(r)

\* One room is replaced, the others are left alone.
LEMMA OneRoomChanges ==
  ASSUME TypeOK, NEW l \in LobbyId, NEW q, RoomChange(lobbies[l], q),
         lobbies' = [lobbies EXCEPT ![l] = q], NEW m \in LobbyId
  PROVE  RoomChange(lobbies[m], lobbies'[m])
BY DEF TypeOK, RoomChange

\* Every step changes every room in one of these ways.
LEMMA RoomChanges ==
  ASSUME Membership, [Next]_vars, NEW m \in LobbyId
  PROVE  RoomChange(lobbies[m], lobbies'[m])
<1> USE DEF Live
<1>0. TypeOK /\ \A l \in LobbyId : lobbies[l] \in Room
  BY DEF Membership, TypeOK
<1>1. ASSUME UNCHANGED lobbies PROVE RoomChange(lobbies[m], lobbies'[m])
  BY <1>1 DEF RoomChange
<1>2. ASSUME NEW c \in Client, CreateInsert(c)
      PROVE  RoomChange(lobbies[m], lobbies'[m])
  <2>1. PICK n, gallery, caps :
          lobbies' = [lobbies EXCEPT ![task[c].lid] = NewRoom(c, n, gallery, caps)]
    BY <1>2 DEF CreateInsert
  <2>2. task[c].lid \in LobbyId /\ lobbies[task[c].lid] = NoRoom
    BY <1>2 DEF CreateInsert, Membership, TaskOK
  <2>3. NewRoom(c, n, gallery, caps).proven = {}
    BY DEF NewRoom, NoRoom
  <2>4. RoomChange(lobbies[task[c].lid], NewRoom(c, n, gallery, caps))
    BY <2>2, <2>3 DEF RoomChange
  <2> QED BY <1>0, <2>1, <2>2, <2>4, OneRoomChanges
<1>3. ASSUME NEW c \in Client, JoinSeat(c)
      PROVE  RoomChange(lobbies[m], lobbies'[m])
  <2> DEFINE l == task[c].lid
  <2>1. PICK s \in Seat : lobbies' = [lobbies EXCEPT ![l] = Joined(@, c, s)]
    BY <1>3 DEF JoinSeat
  <2>2. l \in LobbyId /\ [lobbies[l] EXCEPT !.seat[s] = c] \in Room
    BY <1>0, <1>3 DEF JoinSeat, Room
  <2>3. RoomChange(lobbies[l], Joined(lobbies[l], c, s))
    BY <2>2 DEF RoomChange, Joined
  <2> QED BY <1>0, <2>1, <2>2, <2>3, OneRoomChanges
<1>4. ASSUME NEW c \in Client, ClientLeave(c)
      PROVE  RoomChange(lobbies[m], lobbies'[m])
  <2> DEFINE l == lobbyOf[c]  q == clear_lobby_ice_paths(Vacated(lobbies[l], c))
  <2>1. \/ UNCHANGED lobbies
        \/ l \in LobbyId /\ lobbies' = [lobbies EXCEPT ![l] = q]
    BY <1>4 DEF ClientLeave
  <2>2. RoomChange(lobbies[l], q)
    BY DEF RoomChange
  <2> HIDE DEF q
  <2> QED BY <1>0, <1>1, <2>1, <2>2, OneRoomChanges
<1>5. ASSUME NEW c \in Client, DestroyLobby(c)
      PROVE  RoomChange(lobbies[m], lobbies'[m])
  BY <1>0, <1>5 DEF DestroyLobby, RoomChange, TypeOK
<1>6. ASSUME NEW c \in Client, NEW s \in Seat, Kick(c, s)
      PROVE  RoomChange(lobbies[m], lobbies'[m])
  <2> DEFINE l == lobbyOf[c]  p == Vacated(lobbies[l], lobbies[l].seat[s])
  <2>1. l \in LobbyId /\ lobbies' = [lobbies EXCEPT ![l] = Reseated(p)]
        /\ lobbies[l].seat[s] # NoClient
    BY <1>6 DEF Kick, Hosts, InRoom
  <2>2. lobbies[l].seat[s] \in Client
    BY <1>0, <2>1 DEF Room
  <2>3. p \in Room
    BY <1>0, <2>1, <2>2, RoomHelpers
  <2> HIDE DEF p
  <2>4. RoomChange(lobbies[l], Reseated(p))
    BY <2>3 DEF RoomChange
  <2> QED BY <1>0, <2>1, <2>4, OneRoomChanges
<1>7. ASSUME NEW c \in Client, NEW s \in Seat, NEW t \in Seat, Move(c, s, t) \/ SeatMove(c, t)
      PROVE  RoomChange(lobbies[m], lobbies'[m])
  <2> DEFINE l == lobbyOf[c]
  <2>1. PICK u \in Seat : /\ l \in LobbyId
                          /\ lobbies' = [lobbies EXCEPT ![l] = Reseated(Swapped(@, u, t))]
    <3>1. CASE Move(c, s, t)
      BY <3>1 DEF Move, Hosts, InRoom
    <3>2. CASE SeatMove(c, t)
      <4>1. c \in Members(lobbies[l])
        BY <3>2 DEF SeatMove
      <4>2. seat_of(lobbies[l], c) \in Seat
        BY <4>1, SeatOf
      <4> QED BY <3>2, <4>2 DEF SeatMove, InRoom
    <3> QED BY <1>7, <3>1, <3>2
  <2>2. Swapped(lobbies[l], u, t) \in Room
    BY <1>0, <2>1, RoomHelpers
  <2>3. RoomChange(lobbies[l], Reseated(Swapped(lobbies[l], u, t)))
    BY <2>2 DEF RoomChange
  <2> QED BY <1>0, <2>1, <2>3, OneRoomChanges
<1>8. ASSUME NEW c \in Client, NEW a \in asks, NEW accept \in BOOLEAN,
             SeatSwapAnswer(c, a, accept)
      PROVE  RoomChange(lobbies[m], lobbies'[m])
  <2> DEFINE l == lobbyOf[c]
             q == Traded(lobbies[l], seat_of(lobbies[l], c), seat_of(lobbies[l], a.asker))
  <2>1. CASE accept /\ InRoom(c, l) /\ {c, a.asker} \subseteq Members(lobbies[l])
    <3>1. l \in LobbyId /\ lobbies' = [lobbies EXCEPT ![l] = q]
      BY <1>8, <2>1 DEF SeatSwapAnswer, InRoom
    <3>2. seat_of(lobbies[l], c) \in Seat /\ seat_of(lobbies[l], a.asker) \in Seat
      BY <2>1, SeatOf
    <3>3. RoomChange(lobbies[l], q)
      BY <3>2 DEF RoomChange
    <3> HIDE DEF q
    <3> QED BY <1>0, <3>1, <3>3, OneRoomChanges
  <2>2. CASE ~(accept /\ InRoom(c, l) /\ {c, a.asker} \subseteq Members(lobbies[l]))
    BY <1>1, <1>8, <2>2 DEF SeatSwapAnswer
  <2> QED BY <2>1, <2>2
<1>9. ASSUME NEW c \in Client, NEW l \in LobbyId, NEW q \in Room,
             q.seat = lobbies[l].seat,
             q.proven \subseteq lobbies[l].proven \cup Players(lobbies[l]),
             lobbies' = [lobbies EXCEPT ![l] = q]
      PROVE  RoomChange(lobbies[m], lobbies'[m])
  <2>1. RoomChange(lobbies[l], q)
    BY <1>9 DEF RoomChange
  <2> QED BY <1>0, <1>9, <2>1, OneRoomChanges
<1>10. ASSUME NEW c \in Client, NEW b \in BOOLEAN, SetReady(c, b) \/ PathReport(c, b)
       PROVE  RoomChange(lobbies[m], lobbies'[m])
  <2> DEFINE l == lobbyOf[c]  r == lobbies[l]
             q1 == [r EXCEPT !.ready = IF b THEN @ \cup {c} ELSE @ \ {c}]
             q2 == [r EXCEPT !.proven = IF b THEN @ \cup {c} ELSE @ \ {c}]
  <2>1. /\ l \in LobbyId /\ c \in Players(r)
        /\ lobbies' = [lobbies EXCEPT ![l] = q1] \/ lobbies' = [lobbies EXCEPT ![l] = q2]
    BY <1>10 DEF SetReady, PathReport, InRoom
  <2>2. r \in Room
    BY <1>0, <2>1
  <2>3. /\ q1 \in Room /\ q1.seat = r.seat /\ q1.proven = r.proven
        /\ q2 \in Room /\ q2.seat = r.seat /\ q2.proven \subseteq r.proven \cup {c}
    BY <2>2 DEF Room
  <2> HIDE DEF q1, q2
  <2> QED BY <1>9, <2>1, <2>3
<1>11. ASSUME NEW c \in Client,
              SetHostEndpoint(c) \/ SetMatchCaps(c) \/ \E l \in LobbyId : PathAges(c, l)
       PROVE  RoomChange(lobbies[m], lobbies'[m])
  <2>1. PICK l \in LobbyId :
          \/ lobbies' = [lobbies EXCEPT ![l].proven = @ \ Players(lobbies[l])]
          \/ lobbies' = [lobbies EXCEPT ![l].caps = TRUE]
          \/ lobbies' = [lobbies EXCEPT ![l].proven = @ \ {c}]
    BY <1>11 DEF SetHostEndpoint, SetMatchCaps, PathAges, Hosts, InRoom
  <2> DEFINE r == lobbies[l]
             q1 == [r EXCEPT !.proven = @ \ Players(r)]
             q2 == [r EXCEPT !.caps = TRUE]
             q3 == [r EXCEPT !.proven = @ \ {c}]
  <2>2. /\ q1 \in Room /\ q1.seat = r.seat /\ q1.proven \subseteq r.proven
        /\ q2 \in Room /\ q2.seat = r.seat /\ q2.proven = r.proven
        /\ q3 \in Room /\ q3.seat = r.seat /\ q3.proven \subseteq r.proven
    BY <1>0 DEF Room
  <2>3. \/ lobbies' = [lobbies EXCEPT ![l] = q1]
        \/ lobbies' = [lobbies EXCEPT ![l] = q2]
        \/ lobbies' = [lobbies EXCEPT ![l] = q3]
    BY <2>1
  <2> HIDE DEF q1, q2, q3
  <2> QED BY <1>9, <2>2, <2>3
<1>12. ASSUME NEW c \in Client, StartCommit(c)
       PROVE  RoomChange(lobbies[m], lobbies'[m])
  <2> DEFINE l == task[c].lid  r == lobbies[l]  q == Launched(r, task[c])
  <2>1. CASE l \in Live
    <3>1. r \in Room /\ UnreadyPlayers(r) \in Room /\ task[c] \in Task
      BY <1>0, <2>1, RoomHelpers DEF TypeOK
    <3>2. q \in Room /\ q.seat = r.seat /\ q.proven = r.proven
      BY <3>1 DEF Launched, UnreadyPlayers, Room, Task
    <3>3. lobbies' = [lobbies EXCEPT ![l] = q]
      BY <1>12, <2>1 DEF StartCommit
    <3> HIDE DEF q
    <3> QED BY <1>9, <2>1, <3>2, <3>3
  <2>2. CASE l \notin Live
    BY <1>1, <1>12, <2>2 DEF StartCommit
  <2> QED BY <2>1, <2>2
<1>13. ASSUME NEW c \in Client,
              \/ JoinRefused(c) \/ JoinNeedMods(c) \/ JoinSettle(c) \/ StartPrepare(c)
              \/ StartRefused(c) \/ Remove(c) \/ Connect(c) \/ HangUp(c) \/ ModXferCancel(c)
              \/ CloseCheck(c) \/ \E b \in BOOLEAN : StartCheck(c, b)
              \/ \E l \in LobbyId : CreateCheck(c, l) \/ JoinCheck(c, l)
              \/ \E s \in Seat : SeatSwapRequest(c, s)
       PROVE  RoomChange(lobbies[m], lobbies'[m])
  BY <1>1, <1>13 DEF JoinRefused, JoinNeedMods, JoinSettle, StartPrepare, StartRefused,
     Remove, Connect, HangUp, ModXferCancel, CloseCheck, StartCheck, CreateCheck,
     JoinCheck, SeatSwapRequest
<1>14. ASSUME NEW c \in Client, HandlerStep(c) PROVE RoomChange(lobbies[m], lobbies'[m])
  BY <1>2, <1>3, <1>4, <1>5, <1>12, <1>13, <1>14 DEF HandlerStep
<1>15. ASSUME NEW c \in Client, ClientStep(c) PROVE RoomChange(lobbies[m], lobbies'[m])
  BY <1>4, <1>6, <1>7, <1>8, <1>10, <1>11, <1>13, <1>15 DEF ClientStep
<1> QED BY <1>1, <1>14, <1>15 DEF Next, vars

-----------------------------------------------------------------------------
(* Path reports *)

\* The player table and the gallery have no seat in common.
LEMMA TablesApart ==
  /\ \A s \in PlayerSeat : ~is_spectator_seat(s)
  /\ \A s \in GallerySeat : is_spectator_seat(s)
BY HubConstants DEF PlayerSeat, GallerySeat, is_spectator_seat

\* A trade within one table changes the players of no room.
LEMMA SwappedPlayers ==
  ASSUME NEW r \in Room, NEW s \in Seat, NEW t \in Seat,
         is_spectator_seat(s) = is_spectator_seat(t)
  PROVE  Players(Swapped(r, s, t)) = Players(r)
<1> DEFINE q == Swapped(r, s, t)
<1>1. \A u \in Seat : q.seat[u] = IF u = t THEN r.seat[s]
                                  ELSE IF u = s THEN r.seat[t] ELSE r.seat[u]
  BY DEF Swapped, Room
<1>2. PlayerSeat \subseteq Seat /\ (s \in PlayerSeat <=> t \in PlayerSeat)
  BY TablesApart DEF Seat
<1> HIDE DEF q
<1>3. ASSUME NEW c
      PROVE  (\E u \in PlayerSeat : q.seat[u] = c) <=> (\E u \in PlayerSeat : r.seat[u] = c)
  BY <1>1, <1>2
<1> QED BY <1>3 DEF Players, q

\* What a trade makes of reports and votes.
LEMMA TradedFlags ==
  ASSUME NEW r \in Room, NEW s \in Seat, NEW t \in Seat
  PROVE  /\ \/ Traded(r, s, t).proven = {}
            \/ /\ Traded(r, s, t).proven = r.proven
               /\ Players(Traded(r, s, t)) = Players(r)
         /\ Traded(r, s, t).ready \cap Players(Traded(r, s, t)) = {}
<1> DEFINE p == Swapped(r, s, t)  u == UnreadyPlayers(p)
<1>1. p \in Room /\ p.proven = r.proven
  BY RoomHelpers DEF Swapped, Room
<1>2. /\ u \in Room /\ u.proven = r.proven /\ u.seat = p.seat
      /\ u.ready = p.ready \ Players(p)
  BY <1>1, RoomHelpers DEF UnreadyPlayers, Room
<1>3. /\ clear_lobby_ice_paths(u).proven = {} /\ clear_lobby_ice_paths(u).seat = u.seat
      /\ clear_lobby_ice_paths(u).ready = u.ready
  BY <1>2 DEF clear_lobby_ice_paths, Room
<1>4. /\ Players(u) = Players(p)
      /\ Players(clear_lobby_ice_paths(u)) = Players(p)
  BY <1>2, <1>3 DEF Players
<1>5. CASE is_spectator_seat(s) # is_spectator_seat(t)
  <2>1. Traded(r, s, t) = clear_lobby_ice_paths(u)
    BY <1>5 DEF Traded
  <2> QED BY <1>2, <1>3, <1>4, <2>1
<1>6. CASE is_spectator_seat(s) = is_spectator_seat(t)
  <2>1. Traded(r, s, t) = u
    BY <1>6 DEF Traded
  <2> QED BY <1>2, <1>4, <1>6, <2>1, SwappedPlayers
<1> QED BY <1>5, <1>6

\* What reseating makes of them.
LEMMA ReseatedFlags ==
  ASSUME NEW r \in Room
  PROVE  /\ Reseated(r).proven = {}
         /\ Reseated(r).ready \cap Players(Reseated(r)) = {}
<1>1. /\ UnreadyPlayers(r) \in Room
      /\ UnreadyPlayers(r).ready = r.ready \ Players(r)
  BY RoomHelpers DEF UnreadyPlayers, Room
<1>2. Reseated(r).proven = {} /\ Reseated(r).ready = r.ready \ Players(r)
  BY <1>1 DEF Reseated, clear_lobby_ice_paths, Room
<1>3. Players(Reseated(r)) = Players(r)
  BY ReseatedSeats DEF Players
<1> QED BY <1>2, <1>3

\* A guest who goes leaves a room without reports, its other seats as they were.
LEMMA GuestGone ==
  ASSUME NEW r \in Room, NEW c \in Client
  PROVE  /\ clear_lobby_ice_paths(Vacated(r, c)).proven = {}
         /\ \A s \in Seat : clear_lobby_ice_paths(Vacated(r, c)).seat[s] \in {NoClient, r.seat[s]}
<1>1. Vacated(r, c) \in Room
  BY RoomHelpers
<1>2. \A s \in Seat : Vacated(r, c).seat[s] \in {NoClient, r.seat[s]}
  BY DEF Vacated, Room
<1>3. clear_lobby_ice_paths(Vacated(r, c)).proven = {}
  BY <1>1 DEF clear_lobby_ice_paths, Room
<1> QED BY <1>1, <1>2, <1>3, ReseatedSeats

\* A change leaves the reports of a room with its players.
LEMMA ChangeKeepsProofs ==
  ASSUME NEW r \in Room, r.proven \subseteq Players(r), NEW q, RoomChange(r, q)
  PROVE  q.proven \subseteq Players(q)
<1>1. CASE \E p \in Room : q = Reseated(p)
  BY <1>1, ReseatedFlags
<1>2. CASE \E c \in Client : q = clear_lobby_ice_paths(Vacated(r, c))
  BY <1>2, GuestGone
<1>3. CASE \E s, t \in Seat : q = Traded(r, s, t)
  BY <1>3, TradedFlags
<1>4. CASE q.seat = r.seat /\ q.proven \subseteq r.proven \cup Players(r)
  BY <1>4 DEF Players
<1>5. CASE q = r \/ q = NoRoom \/ (r = NoRoom /\ q.proven = {})
  BY <1>5 DEF NoRoom
<1> QED BY <1>1, <1>2, <1>3, <1>4, <1>5 DEF RoomChange

\* A change of who is in a standing room leaves no report.
LEMMA ChangeVoidsProofs ==
  ASSUME NEW r \in Room, Inj(r), r # NoRoom, NEW q, RoomChange(r, q), q # NoRoom,
         Members(q) # Members(r)
  PROVE  q.proven = {}
<1>1. CASE \E p \in Room : q = Reseated(p)
  BY <1>1, ReseatedFlags
<1>2. CASE \E c \in Client : q = clear_lobby_ice_paths(Vacated(r, c))
  BY <1>2, GuestGone
<1>3. ~ \E s, t \in Seat : q = Traded(r, s, t)
  BY TradedMembers
<1>4. q.seat # r.seat
  BY SameSeats
<1> QED BY <1>1, <1>2, <1>3, <1>4 DEF RoomChange

\* A change that seats somebody at the player table leaves no player ready.
LEMMA ChangeUnreadies ==
  ASSUME NEW r \in Room, r # NoRoom, NEW q, RoomChange(r, q), q # NoRoom,
         NEW s \in PlayerSeat, q.seat[s] \notin {NoClient, r.seat[s]}
  PROVE  q.ready \cap Players(q) = {}
<1>1. CASE \E p \in Room : q = Reseated(p)
  BY <1>1, ReseatedFlags
<1>2. ~ \E c \in Client : q = clear_lobby_ice_paths(Vacated(r, c))
  BY GuestGone DEF Seat
<1>3. CASE \E u, t \in Seat : q = Traded(r, u, t)
  BY <1>3, TradedFlags
<1> QED BY <1>1, <1>2, <1>3 DEF RoomChange

\* Only a player seat ever holds a path report: none is carried through the
\* gallery to vouch for a relay slot it was not measured on.
THEOREM ProofsArePlayersAlways == Spec => []ProofsArePlayers
<1>1. Init => ProofsArePlayers
  BY DEF Init, ProofsArePlayers, NoRoom
<1>2. Membership /\ ProofsArePlayers /\ [Next]_vars => ProofsArePlayers'
  BY RoomChanges, ChangeKeepsProofs DEF Membership, TypeOK, ProofsArePlayers
<1> QED BY <1>1, <1>2, MembershipInvariant, PTL DEF Spec

\* Whoever joins, leaves or is kicked takes every path report of the room with it.
THEOREM MembershipVoidsProofsAlways == Spec => MembershipVoidsProofs
<1>1. Membership /\ [Next]_vars
        => [\A l \in LobbyId :
              l \in Live /\ lobbies'[l] # NoRoom /\ Members(lobbies'[l]) # Members(lobbies[l])
                => lobbies'[l].proven = {}]_vars
  BY RoomChanges, ChangeVoidsProofs DEF Membership, TypeOK, RoomsOK, Live
<1> QED BY <1>1, MembershipInvariant, PTL DEF Spec, MembershipVoidsProofs

-----------------------------------------------------------------------------
(* Ready votes *)

\* A step that seats somebody at the player table of a room leaves no player
\* of it ready: nobody is launched with an opponent they never agreed to.
THEOREM NewcomersUnreadyAlways == Spec => NewcomersUnready
<1>1. Membership /\ [Next]_vars
        => [\A l \in LobbyId :
              (/\ l \in Live /\ lobbies'[l] # NoRoom
               /\ \E s \in PlayerSeat :
                    lobbies'[l].seat[s] \notin {NoClient, lobbies[l].seat[s]})
                => lobbies'[l].ready \cap Players(lobbies'[l]) = {}]_vars
  BY RoomChanges, ChangeUnreadies DEF Membership, TypeOK, Live
<1> QED BY <1>1, MembershipInvariant, PTL DEF Spec, NewcomersUnready

-----------------------------------------------------------------------------
(* Sessions *)

\* No room gets another session or another host, none is created or closed.
SameSessions ==
  \A m \in LobbyId :
    /\ lobbies'[m].session = lobbies[m].session
    /\ lobbies'[m].host = lobbies[m].host
    /\ lobbies'[m] = NoRoom <=> lobbies[m] = NoRoom

\* The helpers on rooms keep session and host.
LEMMA HelpersKeepSession ==
  ASSUME NEW r \in Room
  PROVE  /\ UnreadyPlayers(r).session = r.session /\ UnreadyPlayers(r).host = r.host
         /\ clear_lobby_ice_paths(r).session = r.session
         /\ clear_lobby_ice_paths(r).host = r.host
         /\ Reseated(r).session = r.session /\ Reseated(r).host = r.host
         /\ \A c \in Client : Vacated(r, c).session = r.session /\ Vacated(r, c).host = r.host
         /\ \A s, t \in Seat : /\ Swapped(r, s, t).session = r.session
                               /\ Swapped(r, s, t).host = r.host
                               /\ Traded(r, s, t).session = r.session
                               /\ Traded(r, s, t).host = r.host
         /\ \A c \in Client, s \in Seat : /\ Joined(r, c, s).session = r.session
                                          /\ Joined(r, c, s).host = r.host
<1>1. ASSUME NEW p \in Room
      PROVE  /\ UnreadyPlayers(p).session = p.session /\ UnreadyPlayers(p).host = p.host
             /\ clear_lobby_ice_paths(p).session = p.session
             /\ clear_lobby_ice_paths(p).host = p.host
  BY DEF UnreadyPlayers, clear_lobby_ice_paths, Room
<1>2. ASSUME NEW p \in Room
      PROVE  Reseated(p).session = p.session /\ Reseated(p).host = p.host
  BY <1>1, RoomHelpers DEF Reseated
<1>3. ASSUME NEW c \in Client
      PROVE  Vacated(r, c).session = r.session /\ Vacated(r, c).host = r.host
  BY DEF Vacated, Room
<1>4. ASSUME NEW s \in Seat, NEW t \in Seat
      PROVE  Swapped(r, s, t).session = r.session /\ Swapped(r, s, t).host = r.host
  BY DEF Swapped, Room
<1>5. ASSUME NEW s \in Seat, NEW t \in Seat
      PROVE  Traded(r, s, t).session = r.session /\ Traded(r, s, t).host = r.host
  <2>1. Swapped(r, s, t) \in Room /\ UnreadyPlayers(Swapped(r, s, t)) \in Room
    BY RoomHelpers
  <2> QED BY <1>1, <1>4, <2>1 DEF Traded
<1>6. ASSUME NEW c \in Client, NEW s \in Seat
      PROVE  Joined(r, c, s).session = r.session /\ Joined(r, c, s).host = r.host
  <2> DEFINE p == [r EXCEPT !.seat[s] = c]
  <2>1. p \in Room /\ p.session = r.session /\ p.host = r.host
    BY DEF Room
  <2>2. Joined(r, c, s) = Reseated(p)
    BY DEF Joined
  <2> HIDE DEF p
  <2> QED BY <1>2, <2>1, <2>2
<1> QED BY <1>1, <1>2, <1>3, <1>4, <1>5, <1>6

\* A live room replaced by one with its session and its host.
LEMMA SessionKept ==
  ASSUME Membership, NEW l \in LobbyId, lobbies[l] # NoRoom, NEW q,
         q.session = lobbies[l].session, q.host = lobbies[l].host,
         lobbies' = [lobbies EXCEPT ![l] = q]
  PROVE  SameSessions
<1>1. q # NoRoom
  BY HostOfRoom, NoRoomEmpty
<1>2. \A m \in LobbyId : lobbies'[m] = IF m = l THEN q ELSE lobbies[m]
  BY DEF Membership, TypeOK
<1> QED BY <1>1, <1>2 DEF SameSessions

\* Only creating, closing and starting touch sessions and hosts.
LEMMA SessionsKept ==
  ASSUME Membership, [Next]_vars,
         ~ \E c \in Client : CreateInsert(c) \/ StartCommit(c) \/ DestroyLobby(c)
  PROVE  SameSessions
<1> USE DEF Live
<1>0. /\ TypeOK
      /\ \A l \in LobbyId : lobbies[l] \in Room
  BY DEF Membership, TypeOK
<1>1. ASSUME UNCHANGED lobbies PROVE SameSessions
  BY <1>1 DEF SameSessions
<1>2. ASSUME NEW c \in Client, JoinSeat(c) PROVE SameSessions
  <2> DEFINE l == task[c].lid
  <2>1. PICK s \in Seat : lobbies' = [lobbies EXCEPT ![l] = Joined(@, c, s)]
    BY <1>2 DEF JoinSeat
  <2>2. l \in LobbyId /\ lobbies[l] # NoRoom
    BY <1>2 DEF JoinSeat
  <2> QED BY <1>0, <2>1, <2>2, HelpersKeepSession, SessionKept
<1>3. ASSUME NEW c \in Client, ClientLeave(c) PROVE SameSessions
  <2> DEFINE l == lobbyOf[c]  q == clear_lobby_ice_paths(Vacated(lobbies[l], c))
  <2>1. \/ UNCHANGED lobbies
        \/ l \in Live /\ lobbies' = [lobbies EXCEPT ![l] = q]
    BY <1>3 DEF ClientLeave
  <2>2. ASSUME l \in Live PROVE q.session = lobbies[l].session /\ q.host = lobbies[l].host
    <3> DEFINE v == Vacated(lobbies[l], c)
    <3>1. lobbies[l] \in Room
      BY <1>0, <2>2
    <3>2. v \in Room
      BY <3>1, RoomHelpers
    <3>3. v.session = lobbies[l].session /\ v.host = lobbies[l].host
      BY <3>1, HelpersKeepSession
    <3> HIDE DEF v
    <3>4. /\ clear_lobby_ice_paths(v).session = v.session
          /\ clear_lobby_ice_paths(v).host = v.host
      BY <3>2, HelpersKeepSession
    <3> QED BY <3>3, <3>4 DEF v
  <2> HIDE DEF q
  <2> QED BY <1>1, <2>1, <2>2, SessionKept
<1>4. ASSUME NEW c \in Client, NEW s \in Seat, Kick(c, s) PROVE SameSessions
  <2> DEFINE l == lobbyOf[c]  q == Reseated(Vacated(lobbies[l], lobbies[l].seat[s]))
  <2>1. /\ l \in LobbyId /\ lobbies[l] # NoRoom /\ lobbies' = [lobbies EXCEPT ![l] = q]
        /\ lobbies[l].seat[s] # NoClient
    BY <1>4 DEF Kick, Hosts, InRoom
  <2>2. lobbies[l].seat[s] \in Client
    BY <1>0, <2>1 DEF Room
  <2>3. q.session = lobbies[l].session /\ q.host = lobbies[l].host
    <3> DEFINE p == Vacated(lobbies[l], lobbies[l].seat[s])
    <3>1. p \in Room /\ p.session = lobbies[l].session /\ p.host = lobbies[l].host
      BY <1>0, <2>1, <2>2, HelpersKeepSession, RoomHelpers
    <3> HIDE DEF p
    <3>2. Reseated(p).session = p.session /\ Reseated(p).host = p.host
      BY <3>1, HelpersKeepSession
    <3> QED BY <3>1, <3>2 DEF p
  <2> HIDE DEF q
  <2> QED BY <2>1, <2>3, SessionKept
<1>5. ASSUME NEW c \in Client, NEW s \in Seat, NEW t \in Seat, Move(c, s, t) \/ SeatMove(c, t)
      PROVE  SameSessions
  <2> DEFINE l == lobbyOf[c]
  <2>1. PICK u \in Seat : /\ l \in LobbyId /\ lobbies[l] # NoRoom
                          /\ lobbies' = [lobbies EXCEPT ![l] = Reseated(Swapped(@, u, t))]
    <3>1. CASE Move(c, s, t)
      BY <3>1 DEF Move, Hosts, InRoom
    <3>2. CASE SeatMove(c, t)
      <4>1. c \in Members(lobbies[l])
        BY <3>2 DEF SeatMove
      <4>2. seat_of(lobbies[l], c) \in Seat
        BY <4>1, SeatOf
      <4> QED BY <3>2, <4>2 DEF SeatMove, InRoom
    <3> QED BY <1>5, <3>1, <3>2
  <2> DEFINE q == Reseated(Swapped(lobbies[l], u, t))
  <2>2. q.session = lobbies[l].session /\ q.host = lobbies[l].host
    <3> DEFINE p == Swapped(lobbies[l], u, t)
    <3>1. p \in Room /\ p.session = lobbies[l].session /\ p.host = lobbies[l].host
      BY <1>0, <2>1, HelpersKeepSession, RoomHelpers
    <3> HIDE DEF p
    <3>2. Reseated(p).session = p.session /\ Reseated(p).host = p.host
      BY <3>1, HelpersKeepSession
    <3> QED BY <3>1, <3>2 DEF p
  <2>3. lobbies' = [lobbies EXCEPT ![l] = q]
    BY <2>1
  <2> HIDE DEF q
  <2> QED BY <2>1, <2>2, <2>3, SessionKept
<1>6. ASSUME NEW c \in Client, NEW a \in asks, NEW accept \in BOOLEAN,
             SeatSwapAnswer(c, a, accept)
      PROVE  SameSessions
  <2> DEFINE l == lobbyOf[c]
             q == Traded(lobbies[l], seat_of(lobbies[l], c), seat_of(lobbies[l], a.asker))
  <2>1. CASE accept /\ InRoom(c, l) /\ {c, a.asker} \subseteq Members(lobbies[l])
    <3>1. l \in LobbyId /\ lobbies[l] # NoRoom /\ lobbies' = [lobbies EXCEPT ![l] = q]
      BY <1>6, <2>1 DEF SeatSwapAnswer, InRoom
    <3>2. seat_of(lobbies[l], c) \in Seat /\ seat_of(lobbies[l], a.asker) \in Seat
      BY <2>1, SeatOf
    <3>3. q.session = lobbies[l].session /\ q.host = lobbies[l].host
      BY <1>0, <3>1, <3>2, HelpersKeepSession
    <3> HIDE DEF q
    <3> QED BY <3>1, <3>3, SessionKept
  <2>2. CASE ~(accept /\ InRoom(c, l) /\ {c, a.asker} \subseteq Members(lobbies[l]))
    BY <1>1, <1>6, <2>2 DEF SeatSwapAnswer
  <2> QED BY <2>1, <2>2
<1>7. ASSUME NEW c \in Client,
             \/ \E b \in BOOLEAN : SetReady(c, b) \/ PathReport(c, b)
             \/ SetHostEndpoint(c) \/ SetMatchCaps(c) \/ \E l \in LobbyId : PathAges(c, l)
      PROVE  SameSessions
  <2> DEFINE Touched(l) ==
        /\ l \in LobbyId /\ lobbies[l] # NoRoom
        /\ \/ \E S : lobbies' = [lobbies EXCEPT ![l].ready = S]
           \/ \E S : lobbies' = [lobbies EXCEPT ![l].proven = S]
           \/ lobbies' = [lobbies EXCEPT ![l].caps = TRUE]
  <2>1. PICK l : Touched(l)
    <3>1. ASSUME NEW b \in BOOLEAN, SetReady(c, b) \/ PathReport(c, b)
          PROVE  Touched(lobbyOf[c])
      BY <3>1 DEF SetReady, PathReport, InRoom
    <3>2. ASSUME SetHostEndpoint(c) \/ SetMatchCaps(c)
          PROVE  Touched(lobbyOf[c])
      BY <3>2 DEF SetHostEndpoint, SetMatchCaps, Hosts, InRoom
    <3>3. ASSUME NEW l \in LobbyId, PathAges(c, l)
          PROVE  Touched(l)
      <4>1. lobbies[l] # NoRoom
        BY <3>3 DEF PathAges, NoRoom
      <4> QED BY <3>3, <4>1 DEF PathAges
    <3> HIDE DEF Touched
    <3> QED BY <1>7, <3>1, <3>2, <3>3
  <2> DEFINE r == lobbies[l]
  <2>2. ASSUME NEW q, q.session = r.session, q.host = r.host,
               lobbies' = [lobbies EXCEPT ![l] = q]
        PROVE  SameSessions
    <3>1. l \in LobbyId /\ lobbies[l] # NoRoom
      BY <2>1
    <3> HIDE DEF Touched
    <3> QED BY <2>2, <3>1, SessionKept
  <2>3. /\ \A S : [r EXCEPT !.ready = S].session = r.session /\ [r EXCEPT !.ready = S].host = r.host
        /\ \A S : [r EXCEPT !.proven = S].session = r.session /\ [r EXCEPT !.proven = S].host = r.host
        /\ [r EXCEPT !.caps = TRUE].session = r.session /\ [r EXCEPT !.caps = TRUE].host = r.host
    BY <1>0, <2>1 DEF Room
  <2>4. CASE \E S : lobbies' = [lobbies EXCEPT ![l] = [r EXCEPT !.ready = S]]
    BY <2>2, <2>3, <2>4
  <2>5. CASE \E S : lobbies' = [lobbies EXCEPT ![l] = [r EXCEPT !.proven = S]]
    BY <2>2, <2>3, <2>5
  <2>6. CASE lobbies' = [lobbies EXCEPT ![l] = [r EXCEPT !.caps = TRUE]]
    BY <2>2, <2>3, <2>6
  <2> QED BY <2>1, <2>4, <2>5, <2>6
<1>8. ASSUME NEW c \in Client,
             \/ JoinRefused(c) \/ JoinNeedMods(c) \/ JoinSettle(c) \/ StartPrepare(c)
             \/ StartRefused(c) \/ Remove(c) \/ Connect(c) \/ HangUp(c) \/ ModXferCancel(c)
             \/ CloseCheck(c) \/ \E b \in BOOLEAN : StartCheck(c, b)
             \/ \E l \in LobbyId : CreateCheck(c, l) \/ JoinCheck(c, l)
             \/ \E s \in Seat : SeatSwapRequest(c, s)
      PROVE  SameSessions
  BY <1>1, <1>8 DEF JoinRefused, JoinNeedMods, JoinSettle, StartPrepare, StartRefused,
     Remove, Connect, HangUp, ModXferCancel, CloseCheck, StartCheck, CreateCheck,
     JoinCheck, SeatSwapRequest
<1>9. ASSUME NEW c \in Client, HandlerStep(c) PROVE SameSessions
  BY <1>2, <1>3, <1>8, <1>9 DEF HandlerStep
<1>10. ASSUME NEW c \in Client, ClientStep(c) PROVE SameSessions
  BY <1>3, <1>4, <1>5, <1>6, <1>7, <1>8, <1>10 DEF ClientStep
<1> QED BY <1>1, <1>9, <1>10 DEF Next, vars

\* The start d is at was under way already, or begins with d's own room.
StartsAsHost(d) ==
  task'[d].at \in {"prepare", "commit"} =>
    \/ task'[d] = task[d]
    \/ task'[d].at = "prepare" /\ task'[d].lid \in Live /\ lobbies[task'[d].lid].host = d

\* Only create and the first phase of a start draw a session id; only the
\* latter leads a handler to its commit.
LEMMA NothingDrawn ==
  ASSUME Membership, [Next]_vars,
         ~ \E c \in Client : CreateInsert(c) \/ StartPrepare(c)
  PROVE  nextSession' = nextSession /\ \A d \in Client : StartsAsHost(d)
<1>0. TypeOK /\ \A c \in Client : task[c] \in Task
  BY DEF Membership, TypeOK
<1>1. ASSUME NEW c \in Client, UNCHANGED nextSession,
             \A d \in Client \ {c} : task'[d] = task[d],
             task'[c].at \notin {"prepare", "commit"} \/ task'[c] = task[c]
      PROVE  nextSession' = nextSession /\ \A d \in Client : StartsAsHost(d)
  BY <1>1 DEF StartsAsHost
<1>2. ASSUME NEW c \in Client, HandlerStep(c)
      PROVE  nextSession' = nextSession /\ \A d \in Client : StartsAsHost(d)
  <2>1. CASE CreateInsert(c) \/ JoinRefused(c) \/ JoinSettle(c) \/ StartRefused(c)
             \/ StartCommit(c) \/ Remove(c)
    BY <1>0, <1>1, <2>1 DEF CreateInsert, JoinRefused, JoinSettle, StartRefused,
       StartCommit, Remove, TypeOK, Idle, At
  <2>2. CASE JoinNeedMods(c) \/ JoinSeat(c)
    BY <1>0, <1>1, <2>2 DEF JoinNeedMods, JoinSeat, TypeOK, Task
  <2>3. CASE ClientLeave(c) \/ DestroyLobby(c)
    BY <1>0, <1>1, <2>3 DEF ClientLeave, DestroyLobby, TypeOK, Done, Idle, At
  <2> QED BY <1>2, <2>1, <2>2, <2>3 DEF HandlerStep
<1>3. ASSUME NEW c \in Client, ClientStep(c)
      PROVE  nextSession' = nextSession /\ \A d \in Client : StartsAsHost(d)
  <2>1. CASE \/ Connect(c) \/ ModXferCancel(c) \/ SetHostEndpoint(c) \/ SetMatchCaps(c)
             \/ \E l \in LobbyId : PathAges(c, l)
             \/ \E s \in Seat : Kick(c, s) \/ SeatMove(c, s) \/ SeatSwapRequest(c, s)
             \/ \E s, t \in Seat : Move(c, s, t)
             \/ \E a \in asks, accept \in BOOLEAN : SeatSwapAnswer(c, a, accept)
             \/ \E b \in BOOLEAN : SetReady(c, b) \/ PathReport(c, b)
    <3>1. UNCHANGED <<nextSession, task>>
      BY <2>1 DEF Connect, ModXferCancel, SetHostEndpoint, SetMatchCaps, PathAges, Kick,
         SeatMove, SeatSwapRequest, Move, SeatSwapAnswer, SetReady, PathReport
    <3> QED BY <1>1, <3>1
  <2>2. CASE HangUp(c) \/ CloseCheck(c) \/ \E l \in LobbyId : CreateCheck(c, l) \/ JoinCheck(c, l)
    BY <1>0, <1>1, <2>2 DEF HangUp, CloseCheck, CreateCheck, JoinCheck, TypeOK, At
  <2>3. CASE ClientLeave(c)
    BY <1>0, <1>1, <2>3 DEF ClientLeave, TypeOK, Done, Idle, At
  <2>4. CASE \E b \in BOOLEAN : StartCheck(c, b)
    BY <1>0, <2>4 DEF StartCheck, Hosts, InRoom, TypeOK, StartsAsHost, At
  <2> QED BY <1>3, <2>1, <2>2, <2>3, <2>4 DEF ClientStep
<1>4. CASE UNCHANGED vars
  BY <1>4 DEF vars, StartsAsHost
<1> QED BY <1>2, <1>3, <1>4 DEF Next

\* What was drawn stays drawn when one more is.
LEMMA DrawnStays ==
  ASSUME NEW next \in 1 .. MaxSession
  PROVE  /\ NextSid(next) \in 1 .. MaxSession /\ Drawn(next, NextSid(next))
         /\ \A n : Drawn(n, next) => Drawn(n, NextSid(next))
BY HubConstants DEF Drawn, NextSid

\* A step that draws nothing, commits nothing and closes no room of a start.
LEMMA SessionsQuiet ==
  ASSUME Membership, SessionsOK, nextSession' = nextSession,
         \A m \in LobbyId :
           \/ lobbies'[m] = NoRoom
           \/ /\ lobbies[m] # NoRoom /\ lobbies'[m].host = lobbies[m].host
              /\ lobbies'[m].session = lobbies[m].session,
         \A d \in Client : StartsAsHost(d),
         \A d \in Client : task'[d].at \in {"prepare", "commit"} => lobbies'[task'[d].lid] # NoRoom
  PROVE  SessionsOK'
<1> USE DEF Live, Committing, StartsAsHost
<1>1. \A d \in Client : task'[d].at = "commit" => task'[d] = task[d]
  OBVIOUS
<1>2. \A d \in Client : task[d].at \in {"prepare", "commit"} =>
        task[d].lid \in Live /\ lobbies[task[d].lid].host = d
  BY DEF SessionsOK
<1>3. \A c \in Client : task'[c].at \in {"prepare", "commit"} =>
        task'[c].lid \in Live' /\ lobbies'[task'[c].lid].host = c
  BY <1>2
<1>4. \A l \in Live' : l \in Live /\ lobbies'[l].session = lobbies[l].session
  OBVIOUS
<1>5. SessionsDistinct'
  BY <1>1, <1>4 DEF SessionsOK, SessionsDistinct
<1>6. \A l \in Live' : Drawn(lobbies'[l].session, nextSession')
  BY <1>4 DEF SessionsOK
<1>7. \A c \in Committing' : c \in Committing /\ task'[c] = task[c]
  BY <1>1
<1>8. \A c \in Committing' :
        /\ Drawn(task'[c].sid, nextSession')
        /\ lobbies'[task'[c].lid].session < task'[c].sid \/ task'[c].sid = MaxSession
  BY <1>3, <1>4, <1>7 DEF SessionsOK
<1>9. \A c, d \in Committing' : c # d /\ task'[c].sid = task'[d].sid => task'[c].sid = MaxSession
  BY <1>7 DEF SessionsOK
<1> QED BY <1>3, <1>5, <1>6, <1>8, <1>9 DEF SessionsOK

\* The room of create takes the next session id.
LEMMA SessionsCreate ==
  ASSUME Membership, SessionsOK, NEW c \in Client, CreateInsert(c)
  PROVE  SessionsOK'
<1> USE DEF Live, Committing
<1> DEFINE l == task[c].lid
<1>0. TypeOK /\ nextSession \in 1 .. MaxSession /\ lobbies \in [LobbyId -> Room]
  BY DEF Membership, TypeOK
<1>1. PICK n, gallery, caps : lobbies' = [lobbies EXCEPT ![l] = NewRoom(c, n, gallery, caps)]
  BY DEF CreateInsert
<1>2. /\ l \in LobbyId /\ lobbies[l] = NoRoom
      /\ nextSession' = NextSid(nextSession)
      /\ \A d \in Client : task'[d] = IF d = c THEN Idle ELSE task[d]
  BY <1>0 DEF CreateInsert, Membership, TaskOK, TypeOK
<1>3. lobbies'[l].session = nextSession
  <2>1. NewRoom(c, n, gallery, caps).session = nextSession
    BY DEF NewRoom, NoRoom
  <2> HIDE DEF l
  <2> QED BY <1>0, <1>1, <1>2, <2>1
<1>4. \A m \in LobbyId \ {l} : lobbies'[m] = lobbies[m]
  BY <1>1
<1>5. \A d \in Client : task'[d].at \in {"prepare", "commit"} =>
        task'[d] = task[d] /\ task[d].lid \in Live /\ lobbies[task[d].lid].host = d
  BY <1>2 DEF SessionsOK, Idle, At
<1>6. \A d \in Client : task'[d].at \in {"prepare", "commit"} =>
        /\ task'[d].lid \in Live /\ task'[d].lid # l
        /\ lobbies'[task'[d].lid] = lobbies[task'[d].lid]
  BY <1>2, <1>4, <1>5
<1>7. \A d \in Committing' : d \in Committing /\ task'[d] = task[d]
  BY <1>5
<1>8. /\ \A m \in Live : Drawn(lobbies[m].session, nextSession)
      /\ \A d \in Committing : Drawn(task[d].sid, nextSession)
  BY DEF SessionsOK
<1>9. \A m \in Live' \ {l} : m \in Live /\ lobbies'[m] = lobbies[m]
  BY <1>4
<1>10. SessionsDistinct'
  <2>1. \A m \in Live' \ {l} : lobbies'[m].session = nextSession => nextSession = MaxSession
    BY <1>8, <1>9 DEF Drawn
  <2>2. \A d \in Committing' : task'[d].sid = nextSession => nextSession = MaxSession
    BY <1>7, <1>8 DEF Drawn
  <2>3. ASSUME NEW m \in Live', NEW k \in Live', m # k,
               lobbies'[m].session = lobbies'[k].session
        PROVE  lobbies'[m].session = MaxSession
    <3>1. CASE m # l /\ k # l
      BY <1>9, <2>3, <3>1 DEF SessionsOK, SessionsDistinct
    <3>2. CASE m = l \/ k = l
      BY <1>3, <2>1, <2>3, <3>2
    <3> QED BY <3>1, <3>2
  <2>4. ASSUME NEW m \in Live', NEW d \in Committing', task'[d].sid = lobbies'[m].session
        PROVE  task'[d].sid = MaxSession
    <3>1. CASE m # l
      BY <1>7, <1>9, <2>4, <3>1 DEF SessionsOK, SessionsDistinct
    <3>2. CASE m = l
      BY <1>3, <2>2, <2>4, <3>2
    <3> QED BY <3>1, <3>2
  <2> HIDE DEF l
  <2> QED BY <2>3, <2>4 DEF SessionsDistinct
<1>11. \A m \in Live' : Drawn(lobbies'[m].session, nextSession')
  BY <1>0, <1>2, <1>3, <1>8, <1>9, DrawnStays
<1>12. \A d \in Committing' :
         /\ Drawn(task'[d].sid, nextSession')
         /\ lobbies'[task'[d].lid].session < task'[d].sid \/ task'[d].sid = MaxSession
  <2>1. \A d \in Committing' : Drawn(task'[d].sid, nextSession')
    BY <1>0, <1>2, <1>7, <1>8, DrawnStays
  <2>2. \A d \in Committing' :
          lobbies'[task'[d].lid].session < task'[d].sid \/ task'[d].sid = MaxSession
    BY <1>6, <1>7 DEF SessionsOK
  <2> QED BY <2>1, <2>2
<1>13. \A d \in Client : task'[d].at \in {"prepare", "commit"} =>
         task'[d].lid \in Live' /\ lobbies'[task'[d].lid].host = d
  BY <1>5, <1>6
<1>14. \A d, e \in Committing' : d # e /\ task'[d].sid = task'[e].sid => task'[d].sid = MaxSession
  BY <1>7 DEF SessionsOK
<1> HIDE DEF l
<1> QED BY <1>10, <1>11, <1>12, <1>13, <1>14 DEF SessionsOK

\* The first phase of a start draws the id it will commit.
LEMMA SessionsPrepare ==
  ASSUME Membership, SessionsOK, NEW c \in Client, StartPrepare(c)
  PROVE  SessionsOK'
<1> USE DEF Live, Committing
<1>0. TypeOK /\ nextSession \in 1 .. MaxSession /\ task[c] \in Task
  BY DEF Membership, TypeOK
<1>1. /\ lobbies' = lobbies /\ nextSession' = NextSid(nextSession)
      /\ task[c].at = "prepare"
      /\ \A d \in Client \ {c} : task'[d] = task[d]
      /\ task'[c].at = "commit" /\ task'[c].sid = nextSession /\ task'[c].lid = task[c].lid
  BY <1>0 DEF StartPrepare, TypeOK, Task
<1>2. /\ \A m \in Live : Drawn(lobbies[m].session, nextSession)
      /\ \A d \in Committing : Drawn(task[d].sid, nextSession)
  BY DEF SessionsOK
<1>3. task[c].lid \in Live /\ lobbies[task[c].lid].host = c
  BY <1>1 DEF SessionsOK
<1>4. \A d \in Committing' \ {c} : d \in Committing /\ task'[d] = task[d]
  BY <1>1
<1>5. SessionsDistinct'
  <2>1. ASSUME NEW m \in Live, NEW d \in Committing', task'[d].sid = lobbies[m].session
        PROVE  task'[d].sid = MaxSession
    <3>1. CASE d = c  BY <1>1, <1>2, <2>1, <3>1 DEF Drawn
    <3>2. CASE d # c  BY <1>4, <2>1, <3>2 DEF SessionsOK, SessionsDistinct
    <3> QED BY <3>1, <3>2
  <2>2. \A l, m \in Live : l # m /\ lobbies[l].session = lobbies[m].session
                              => lobbies[l].session = MaxSession
    BY DEF SessionsOK, SessionsDistinct
  <2> QED BY <1>1, <2>1, <2>2 DEF SessionsDistinct
<1>6. \A d, e \in Committing' : d # e /\ task'[d].sid = task'[e].sid => task'[d].sid = MaxSession
  <2>1. \A d \in Committing' \ {c} : task'[d].sid = nextSession => nextSession = MaxSession
    BY <1>2, <1>4 DEF Drawn
  <2>2. ASSUME NEW d \in Committing', NEW e \in Committing', d # e, task'[d].sid = task'[e].sid
        PROVE  task'[d].sid = MaxSession
    <3>1. CASE d = c \/ e = c  BY <1>1, <2>1, <2>2, <3>1
    <3>2. CASE d # c /\ e # c  BY <1>4, <2>2, <3>2 DEF SessionsOK
    <3> QED BY <3>1, <3>2
  <2> QED BY <2>2
<1>7. \A d \in Client : task'[d].at \in {"prepare", "commit"} =>
        task'[d].lid \in Live' /\ lobbies'[task'[d].lid].host = d
  BY <1>1, <1>3 DEF SessionsOK
<1>8. \A m \in Live' : Drawn(lobbies'[m].session, nextSession')
  BY <1>0, <1>1, <1>2, DrawnStays
<1>9. \A d \in Committing' : Drawn(task'[d].sid, nextSession')
  BY <1>0, <1>1, <1>2, <1>4, DrawnStays
<1>10. ASSUME NEW d \in Committing'
       PROVE  lobbies'[task'[d].lid].session < task'[d].sid \/ task'[d].sid = MaxSession
  <2>1. CASE d = c
    <3>1. Drawn(lobbies[task[c].lid].session, nextSession)
      BY <1>2, <1>3
    <3> QED BY <1>0, <1>1, <2>1, <3>1, HubConstants DEF Drawn
  <2>2. CASE d # c
    BY <1>1, <1>4, <1>10, <2>2 DEF SessionsOK
  <2> QED BY <2>1, <2>2
<1> QED BY <1>5, <1>6, <1>7, <1>8, <1>9, <1>10 DEF SessionsOK

\* The commit gives the id to the room, which is still its host's.
LEMMA CommitFacts ==
  ASSUME Membership, SessionsOK, NEW c \in Client, StartCommit(c), NEW l, l = task[c].lid
  PROVE  /\ l \in Live /\ lobbies[l].host = c
         /\ lobbies'[l].session = task[c].sid /\ lobbies'[l].host = c
         /\ lobbies'[l] # NoRoom
         /\ \A m \in LobbyId \ {l} : lobbies'[m] = lobbies[m]
<1>1. l \in Live /\ lobbies[l].host = c /\ l \in LobbyId /\ c # NoClient
  BY HubConstants DEF SessionsOK, StartCommit, Live
<1>2. lobbies \in [LobbyId -> Room] /\ lobbies[l] \in Room /\ task[c] \in Task
  BY <1>1 DEF Membership, TypeOK
<1>3. lobbies' = [lobbies EXCEPT ![l] = Launched(lobbies[l], task[c])]
  BY <1>1 DEF StartCommit
<1> DEFINE q == Launched(lobbies[l], task[c])
<1>4. q.session = task[c].sid /\ q.host = c
  <2> DEFINE r == UnreadyPlayers(lobbies[l])
  <2>1. r \in Room /\ r.host = c
    BY <1>1, <1>2, HelpersKeepSession, RoomHelpers
  <2> HIDE DEF r
  <2>2. /\ [r EXCEPT !.caps = @ \/ task[c].caps, !.session = task[c].sid, !.started = TRUE].session = task[c].sid
        /\ [r EXCEPT !.caps = @ \/ task[c].caps, !.session = task[c].sid, !.started = TRUE].host = r.host
    BY <2>1 DEF Room
  <2> QED BY <2>1, <2>2 DEF Launched, r
<1>5. q # NoRoom
  BY <1>1, <1>4 DEF NoRoom
<1> HIDE DEF q
<1> QED BY <1>1, <1>2, <1>3, <1>4, <1>5 DEF q

\* The commit of a start keeps the ids apart.
LEMMA SessionsCommit ==
  ASSUME Membership, SessionsOK, NEW c \in Client, StartCommit(c)
  PROVE  SessionsOK'
<1> USE DEF Live, Committing
<1>1. PICK l : l = task[c].lid
  OBVIOUS
<1>2. /\ l \in Live /\ lobbies[l].host = c
      /\ lobbies'[l].session = task[c].sid /\ lobbies'[l].host = c
      /\ lobbies'[l] # NoRoom
      /\ \A m \in LobbyId \ {l} : lobbies'[m] = lobbies[m]
  BY <1>1, CommitFacts
<1>3. /\ task[c].at = "commit" /\ nextSession' = nextSession
      /\ task'[c].at = "idle"
      /\ \A d \in Client \ {c} : task'[d] = task[d]
  BY DEF StartCommit, Idle, At, Membership, TypeOK
<1>4. \A d \in Client : task'[d].at \in {"prepare", "commit"} =>
        /\ d # c /\ task'[d] = task[d]
        /\ task[d].lid \in Live /\ task[d].lid # l /\ lobbies[task[d].lid].host = d
  BY <1>2, <1>3 DEF SessionsOK
<1>5. \A m \in Live' \ {l} : m \in Live /\ lobbies'[m] = lobbies[m]
  BY <1>2
<1>6. \A d \in Committing' : d \in Committing /\ d # c /\ task'[d] = task[d]
  BY <1>4
<1>7. c \in Committing
  BY <1>3
<1>8. SessionsDistinct'
  <2>1. ASSUME NEW m \in Live' \ {l}, lobbies'[m].session = lobbies'[l].session
        PROVE  lobbies'[m].session = MaxSession
    BY <1>2, <1>3, <1>5, <2>1 DEF SessionsOK, SessionsDistinct
  <2>2. ASSUME NEW m \in Live', NEW k \in Live', m # k,
               lobbies'[m].session = lobbies'[k].session
        PROVE  lobbies'[m].session = MaxSession
    <3>1. CASE m # l /\ k # l
      BY <1>5, <2>2, <3>1 DEF SessionsOK, SessionsDistinct
    <3>2. CASE m = l \/ k = l
      BY <2>1, <2>2, <3>2
    <3> QED BY <3>1, <3>2
  <2>3. ASSUME NEW m \in Live', NEW d \in Committing', task'[d].sid = lobbies'[m].session
        PROVE  task'[d].sid = MaxSession
    <3>1. CASE m # l
      BY <1>5, <1>6, <2>3, <3>1 DEF SessionsOK, SessionsDistinct
    <3>2. CASE m = l
      BY <1>2, <1>6, <1>7, <2>3, <3>2 DEF SessionsOK
    <3> QED BY <3>1, <3>2
  <2> QED BY <2>2, <2>3 DEF SessionsDistinct
<1>9. \A m \in Live' : Drawn(lobbies'[m].session, nextSession')
  BY <1>2, <1>3, <1>5, <1>7 DEF SessionsOK
<1>10. \A d \in Client : task'[d].at \in {"prepare", "commit"} =>
         task'[d].lid \in Live' /\ lobbies'[task'[d].lid].host = d
  BY <1>2, <1>4
<1>11. \A d \in Committing' :
         /\ Drawn(task'[d].sid, nextSession')
         /\ lobbies'[task'[d].lid].session < task'[d].sid \/ task'[d].sid = MaxSession
  BY <1>2, <1>3, <1>4, <1>6 DEF SessionsOK
<1>12. \A d, e \in Committing' : d # e /\ task'[d].sid = task'[e].sid => task'[d].sid = MaxSession
  BY <1>6 DEF SessionsOK
<1> QED BY <1>8, <1>9, <1>10, <1>11, <1>12 DEF SessionsOK

\* A room is closed by its host's handler only, which starts nothing meanwhile.
LEMMA SessionsDestroy ==
  ASSUME Membership, SessionsOK, NEW c \in Client, DestroyLobby(c), [Next]_vars
  PROVE  SessionsOK'
<1> DEFINE l == task[c].lid
<1>1. /\ l \in LobbyId /\ task[c].at = "destroy"
      /\ lobbies[l].host \in {NoClient, c}
      /\ lobbies' = [lobbies EXCEPT ![l] = NoRoom]
      /\ nextSession' = nextSession
      /\ \A d \in Client \ {c} : task'[d] = task[d]
      /\ task'[c].at \in {"idle", "remove"}
  BY DEF DestroyLobby, Membership, TaskOK, TypeOK, Done, Idle, At
<1>2. \A d \in Client : StartsAsHost(d)
  BY <1>1 DEF StartsAsHost
<1>3. \A d \in Client : task'[d].at \in {"prepare", "commit"} =>
        d # c /\ task'[d] = task[d] /\ task[d].lid \in Live /\ lobbies[task[d].lid].host = d
  BY <1>1 DEF SessionsOK
<1>4. \A d \in Client : task'[d].at \in {"prepare", "commit"} => lobbies'[task'[d].lid] # NoRoom
  BY <1>1, <1>3, HubConstants DEF Live
<1>5. \A m \in LobbyId : lobbies'[m] = NoRoom \/ lobbies'[m] = lobbies[m]
  BY <1>1 DEF Membership, TypeOK
<1>6. \A m \in LobbyId :
        \/ lobbies'[m] = NoRoom
        \/ /\ lobbies[m] # NoRoom /\ lobbies'[m].host = lobbies[m].host
           /\ lobbies'[m].session = lobbies[m].session
  BY <1>5
<1> QED BY <1>1, <1>2, <1>4, <1>6, SessionsQuiet

\* Every step keeps the session ids in order.
LEMMA SessionsStep ==
  ASSUME Membership, SessionsOK, [Next]_vars
  PROVE  SessionsOK'
<1>1. CASE \E c \in Client : CreateInsert(c)
  BY <1>1, SessionsCreate
<1>2. CASE \E c \in Client : StartPrepare(c)
  BY <1>2, SessionsPrepare
<1>3. CASE \E c \in Client : StartCommit(c)
  BY <1>3, SessionsCommit
<1>4. CASE \E c \in Client : DestroyLobby(c)
  BY <1>4, SessionsDestroy
<1>5. CASE ~ \E c \in Client : \/ CreateInsert(c) \/ StartPrepare(c)
                                \/ StartCommit(c) \/ DestroyLobby(c)
  <2>1. SameSessions
    BY <1>5, SessionsKept
  <2>2. nextSession' = nextSession /\ \A d \in Client : StartsAsHost(d)
    BY <1>5, NothingDrawn
  <2>3. \A d \in Client : task'[d].at \in {"prepare", "commit"} =>
          task'[d].lid \in Live
    BY <2>2 DEF StartsAsHost, SessionsOK
  <2>4. \A d \in Client : task'[d].at \in {"prepare", "commit"} => lobbies'[task'[d].lid] # NoRoom
    BY <2>1, <2>3 DEF SameSessions, Live
  <2> QED BY <2>1, <2>2, <2>4, SessionsQuiet DEF SameSessions
<1> QED BY <1>1, <1>2, <1>3, <1>4, <1>5

\* SessionsOK is invariant: a start keeps its room and its id from the moment
\* start_lobby draws it to the moment it commits it.
THEOREM SessionsInvariant == Spec => []SessionsOK
<1>1. Init => SessionsOK
  <2>1. \A c \in Client : Idle.at = "idle"
    BY DEF Idle, At
  <2> QED BY <2>1 DEF Init, SessionsOK, SessionsDistinct, Live, Committing
<1>2. Membership /\ SessionsOK /\ [Next]_vars => SessionsOK'
  BY SessionsStep
<1> QED BY <1>1, <1>2, MembershipInvariant, PTL DEF Spec

\* Session ids below the u32 ceiling are never shared, between two rooms or
\* between a room and a start that start_lobby has under way.
THEOREM SessionsDistinctAlways == Spec => []SessionsDistinct
<1>1. SessionsOK => SessionsDistinct
  BY DEF SessionsOK
<1> QED BY <1>1, SessionsInvariant, PTL

\* Each match of a room runs under a later session id than the one before it,
\* up to the ceiling where next_session saturates.
THEOREM SessionAdvancesAlways == Spec => SessionAdvances
<1> DEFINE Advances ==
      \A c \in Client : Commits(c) =>
        \/ lobbies'[task[c].lid].session > lobbies[task[c].lid].session
        \/ lobbies'[task[c].lid].session = MaxSession
<1>1. ASSUME Membership, SessionsOK, [Next]_vars, NEW c \in Client, Commits(c)
      PROVE  \/ lobbies'[task[c].lid].session > lobbies[task[c].lid].session
             \/ lobbies'[task[c].lid].session = MaxSession
  <2>0. TypeOK /\ task[c].at = "commit" /\ task'[c].at = "idle"
    BY <1>1 DEF Membership, Commits
  <2>1. StartCommit(c)
    <3>1. ASSUME NEW d \in Client, HandlerStep(d) \/ ClientStep(d), d # c PROVE task'[c] = task[c]
      BY <2>0, <3>1 DEF TypeOK, HandlerStep, ClientStep, CreateInsert, JoinRefused,
         JoinNeedMods, JoinSeat, JoinSettle, StartPrepare, StartRefused, StartCommit,
         ClientLeave, DestroyLobby, Remove, Connect, HangUp, CreateCheck, JoinCheck,
         PathAges, ModXferCancel, CloseCheck, Kick, SeatMove, SeatSwapRequest, Move,
         SeatSwapAnswer, SetReady, PathReport, StartCheck, SetHostEndpoint, SetMatchCaps
    <3>2. HandlerStep(c) \/ ClientStep(c)
      BY <1>1, <2>0, <3>1 DEF Next, vars
    <3>3. ~ ClientStep(c)
      BY <2>0 DEF ClientStep, Handles, Connect, HangUp, CreateCheck, JoinCheck,
         PathAges, ModXferCancel, CloseCheck, Kick, SeatMove, SeatSwapRequest, Move,
         SeatSwapAnswer, SetReady, PathReport, StartCheck, SetHostEndpoint, SetMatchCaps
    <3> QED BY <2>0, <3>2, <3>3 DEF HandlerStep, CreateInsert, JoinRefused, JoinNeedMods,
          JoinSeat, JoinSettle, StartPrepare, StartRefused, ClientLeave, DestroyLobby, Remove
  <2>2. PICK l : l = task[c].lid
    OBVIOUS
  <2>3. lobbies'[l].session = task[c].sid
    BY <1>1, <2>1, <2>2, CommitFacts
  <2>4. /\ lobbies[l].session < task[c].sid \/ task[c].sid = MaxSession
        /\ Drawn(task[c].sid, nextSession) /\ Drawn(lobbies[l].session, nextSession)
    BY <1>1, <2>0, <2>2 DEF SessionsOK, Committing, Live
  <2> QED BY <2>2, <2>3, <2>4 DEF Drawn
<1>2. Membership /\ SessionsOK /\ [Next]_vars => [Advances]_vars
  BY <1>1
<1> QED BY <1>2, MembershipInvariant, SessionsInvariant, PTL DEF Spec, SessionAdvances

-----------------------------------------------------------------------------
(* Mods pending *)

\* A step that seats nobody and makes nobody pending, in the middle of no join.
LEMMA PendingQuiet ==
  ASSUME PendingModSettled,
         \A e \in Client : task[e].at = "joined" => task'[e].at = "joined",
         \A e \in Client : lobbyOf'[e] \in {lobbyOf[e], NoLobby}
                           /\ pendingMod'[e] \in {pendingMod[e], NoLobby}
  PROVE  PendingModSettled'
BY DEF PendingModSettled

\* Every step keeps the waiters for mods out of the rooms they wait for.
LEMMA PendingStep ==
  ASSUME Membership, PendingModSettled, [Next]_vars
  PROVE  PendingModSettled'
<1>0. TypeOK
  BY DEF Membership
<1>1. ASSUME NEW c \in Client, CreateInsert(c)
      PROVE  PendingModSettled'
  <2>1. /\ \A e \in Client \ {c} : lobbyOf'[e] = lobbyOf[e] /\ task'[e] = task[e]
        /\ pendingMod' = pendingMod /\ lobbyOf'[c] = task[c].lid
    BY <1>0, <1>1 DEF CreateInsert, TypeOK
  <2>2. pendingMod[c] # task[c].lid
    BY <1>1 DEF CreateInsert, Membership, TaskOK
  <2> QED BY <2>1, <2>2 DEF PendingModSettled
<1>2. ASSUME NEW c \in Client, JoinSeat(c)
      PROVE  PendingModSettled'
  BY <1>0, <1>2 DEF JoinSeat, PendingModSettled, TypeOK, Task
<1>3. ASSUME NEW c \in Client, JoinSettle(c)
      PROVE  PendingModSettled'
  <2>1. \A e \in Client \ {c} : pendingMod'[e] = pendingMod[e] /\ task'[e] = task[e]
    BY <1>0, <1>3 DEF JoinSettle, TypeOK
  <2>2. lobbyOf' = lobbyOf /\ pendingMod'[c] = SettledPending(c)
    BY <1>0, <1>3 DEF JoinSettle, TypeOK
  <2>3. SettledPending(c) = NoLobby \/ lobbyOf[c] = NoLobby
    BY <1>3 DEF JoinSettle, SettledPending, Membership, TaskOK
  <2> QED BY <2>1, <2>2, <2>3 DEF PendingModSettled
<1>4. ASSUME NEW c \in Client, \/ JoinRefused(c) \/ JoinNeedMods(c)
                               \/ StartPrepare(c) \/ StartRefused(c) \/ StartCommit(c)
                               \/ Remove(c)
      PROVE  PendingModSettled'
  BY <1>0, <1>4, PendingQuiet DEF JoinRefused, JoinNeedMods, StartPrepare, StartRefused,
     StartCommit, Remove, TypeOK
<1>5. ASSUME NEW c \in Client, ClientLeave(c) \/ DestroyLobby(c)
      PROVE  PendingModSettled'
  <2>1. task[c].at # "joined"
    BY <1>5 DEF ClientLeave, DestroyLobby, Handles
  <2>2. \A e \in Client \ {c} : task'[e] = task[e]
    BY <1>0, <1>5 DEF ClientLeave, DestroyLobby, TypeOK
  <2>3. pendingMod' = pendingMod /\ \A e \in Client : lobbyOf'[e] \in {lobbyOf[e], NoLobby}
    BY <1>0, <1>5 DEF ClientLeave, DestroyLobby, TypeOK
  <2> QED BY <2>1, <2>2, <2>3, PendingQuiet
<1>6. ASSUME NEW c \in Client, ClientStep(c)
      PROVE  PendingModSettled'
  <2>1. CASE \/ Connect(c) \/ HangUp(c) \/ ModXferCancel(c) \/ CloseCheck(c)
             \/ \E l \in LobbyId : CreateCheck(c, l) \/ JoinCheck(c, l)
             \/ \E b \in BOOLEAN : StartCheck(c, b)
    BY <1>0, <2>1, PendingQuiet DEF Connect, HangUp, ModXferCancel, CloseCheck,
       CreateCheck, JoinCheck, StartCheck, Handles, TypeOK
  <2>2. CASE \/ SetHostEndpoint(c) \/ SetMatchCaps(c)
             \/ \E l \in LobbyId : PathAges(c, l)
             \/ \E s \in Seat : SeatMove(c, s) \/ SeatSwapRequest(c, s)
             \/ \E s, t \in Seat : Move(c, s, t)
             \/ \E a \in asks, accept \in BOOLEAN : SeatSwapAnswer(c, a, accept)
             \/ \E b \in BOOLEAN : SetReady(c, b) \/ PathReport(c, b)
    <3>1. UNCHANGED <<lobbyOf, pendingMod, task>>
      BY <2>2 DEF SetHostEndpoint, SetMatchCaps, PathAges, SeatMove, SeatSwapRequest, Move,
         SeatSwapAnswer, SetReady, PathReport
    <3> QED BY <3>1, PendingQuiet
  <2>3. CASE \E s \in Seat : Kick(c, s)
    BY <1>0, <2>3, PendingQuiet DEF Kick, TypeOK
  <2> QED BY <1>5, <1>6, <2>1, <2>2, <2>3 DEF ClientStep
<1>7. CASE UNCHANGED vars
  BY <1>7, PendingQuiet DEF vars
<1> QED BY <1>1, <1>2, <1>3, <1>4, <1>5, <1>6, <1>7 DEF Next, HandlerStep

\* A client seated in a room waits for that room's mods no more, save in the
\* scope between its seating and the cleanup that handle_join does after it.
THEOREM PendingModSettledAlways == Spec => []PendingModSettled
<1>1. Init => PendingModSettled
  BY DEF Init, PendingModSettled
<1>2. Membership /\ PendingModSettled /\ [Next]_vars => PendingModSettled'
  BY PendingStep
<1> QED BY <1>1, <1>2, MembershipInvariant, PTL DEF Spec

-----------------------------------------------------------------------------
(* The rooms' tables implement RoomMembership *)

\* Room m keeps its host and its members.
SameRoster(m) ==
  lobbies'[m].host = lobbies[m].host /\ Members(lobbies'[m]) = Members(lobbies[m])

\* Room l is opened, entered by c, left by its guest c, or closed.
Opened(c, l) ==
  /\ \A m \in LobbyId : c \notin Members(lobbies[m])
  /\ lobbies[l] = NoRoom
  /\ lobbies'[l].host = c /\ Members(lobbies'[l]) = {c}

Entered(c, l) ==
  /\ \A m \in LobbyId : c \notin Members(lobbies[m])
  /\ lobbies[l].host # NoClient
  /\ lobbies'[l].host = lobbies[l].host
  /\ Members(lobbies'[l]) = Members(lobbies[l]) \cup {c}

Left(c, l) ==
  /\ c \in Members(lobbies[l]) /\ lobbies[l].host # c
  /\ lobbies'[l].host = lobbies[l].host
  /\ Members(lobbies'[l]) = Members(lobbies[l]) \ {c}

Closed(l) ==
  /\ lobbies[l].host # NoClient
  /\ lobbies'[l].host = NoClient /\ Members(lobbies'[l]) = {}

\* What a step does to the rosters of all rooms.
RosterChange ==
  \/ \A m \in LobbyId : SameRoster(m)
  \/ \E l \in LobbyId :
       /\ \A m \in LobbyId \ {l} : SameRoster(m)
       /\ Closed(l) \/ \E c \in Client : Opened(c, l) \/ Entered(c, l) \/ Left(c, l)

\* Every step opens, closes or leaves alone a room, or lets one client in or out.
LEMMA RosterChanges ==
  ASSUME Membership, [Next]_vars
  PROVE  RosterChange
<1> USE DEF Live
<1>0. /\ TypeOK /\ RoomsOK /\ TaskOK
      /\ \A l \in LobbyId : lobbies[l] \in Room /\ Inj(lobbies[l])
  BY DEF Membership, TypeOK, RoomsOK
<1>1. ASSUME UNCHANGED lobbies \/ SameRooms PROVE RosterChange
  BY <1>1 DEF RosterChange, SameRoster, SameRooms
<1>2. ASSUME NEW l \in LobbyId, NEW q, lobbies' = [lobbies EXCEPT ![l] = q]
      PROVE  lobbies'[l] = q /\ \A m \in LobbyId \ {l} : SameRoster(m)
  BY <1>0, <1>2 DEF SameRoster, TypeOK
<1>3. ASSUME NEW c \in Client, CreateInsert(c) PROVE RosterChange
  <2> DEFINE l == task[c].lid
  <2>1. PICK n, gallery, caps : lobbies' = [lobbies EXCEPT ![l] = NewRoom(c, n, gallery, caps)]
    BY <1>3 DEF CreateInsert
  <2>2. l \in LobbyId /\ lobbies[l] = NoRoom /\ lobbyOf[c] = NoLobby /\ task[c].at = "create"
    BY <1>0, <1>3 DEF CreateInsert, TaskOK
  <2>3. \A m \in LobbyId : c \notin Members(lobbies[m])
    BY <2>2, UnseatedTask
  <2> DEFINE q == NewRoom(c, n, gallery, caps)
  <2>4. q.host = c /\ Members(q) = {c}
    BY NewRoomMembers
  <2> HIDE DEF l, q
  <2>5. Opened(c, l)
    BY <1>2, <2>1, <2>2, <2>3, <2>4 DEF Opened, q
  <2> QED BY <1>2, <2>1, <2>2, <2>5 DEF RosterChange
<1>4. ASSUME NEW c \in Client, JoinSeat(c) PROVE RosterChange
  <2> DEFINE l == task[c].lid  r == lobbies[l]
  <2>1. PICK s \in Seat : /\ s \in FreeSeats(r)
                          /\ lobbies' = [lobbies EXCEPT ![l] = Joined(r, c, s)]
    BY <1>4 DEF JoinSeat, IsFirstFree
  <2>2. /\ l \in LobbyId /\ r # NoRoom /\ r \in Room /\ r.seat[s] = NoClient /\ Inj(r)
        /\ lobbyOf[c] = NoLobby /\ task[c].at = "join"
    BY <1>0, <1>4, <2>1 DEF JoinSeat, TaskOK, FreeSeats
  <2>3. \A m \in LobbyId : c \notin Members(lobbies[m])
    BY <2>2, UnseatedTask
  <2>4. r.host # NoClient
    BY <2>2, HostOfRoom
  <2> HIDE DEF l
  <2>5. Joined(r, c, s).host = r.host /\ Members(Joined(r, c, s)) = Members(r) \cup {c}
    BY <2>2, <2>3, JoinedMembers
  <2>6. Entered(c, l)
    BY <1>2, <2>1, <2>2, <2>3, <2>4, <2>5 DEF Entered
  <2> QED BY <1>2, <2>1, <2>2, <2>6 DEF RosterChange
<1>5. ASSUME NEW c \in Client, ClientLeave(c) PROVE RosterChange
  <2> DEFINE l == lobbyOf[c]  r == lobbies[l]  q == clear_lobby_ice_paths(Vacated(r, c))
  <2>1. CASE l \in Live /\ r.host # c
    <3>1. l \in LobbyId /\ lobbies' = [lobbies EXCEPT ![l] = q]
      BY <1>5, <2>1 DEF ClientLeave, EndsRoom
    <3>2. q.host = r.host /\ Members(q) = Members(r) \ {c}
      BY <1>0, <2>1, VacatedMembers, RoomHelpers, ReseatedMembers
    <3>3. c \in Members(r)
      BY <3>1 DEF Membership, MembershipAgrees
    <3> HIDE DEF l, q
    <3>4. Left(c, l)
      BY <1>2, <2>1, <3>1, <3>2, <3>3 DEF Left
    <3> QED BY <1>2, <3>1, <3>4 DEF RosterChange
  <2>2. CASE ~(l \in Live /\ r.host # c)
    BY <1>1, <1>5, <2>2 DEF ClientLeave, EndsRoom
  <2> QED BY <2>1, <2>2
<1>6. ASSUME NEW c \in Client, NEW s \in Seat, Kick(c, s) PROVE RosterChange
  <2> DEFINE l == lobbyOf[c]  r == lobbies[l]  v == r.seat[s]  q == Reseated(Vacated(r, v))
  <2>1. /\ l \in LobbyId /\ r # NoRoom /\ r.host = c /\ v \notin {NoClient, c}
        /\ lobbies' = [lobbies EXCEPT ![l] = q]
    BY <1>6 DEF Kick, Hosts, InRoom
  <2>2. r \in Room /\ Inj(r) /\ v \in Client /\ v \in Members(r)
    BY <1>0, <2>1, MembersAreSeated DEF Room
  <2>3. q.host = r.host /\ Members(q) = Members(r) \ {v}
    BY <2>2, VacatedMembers, RoomHelpers, ReseatedMembers
  <2> HIDE DEF l, v, q
  <2>4. Left(v, l)
    BY <1>2, <2>1, <2>2, <2>3 DEF Left
  <2> QED BY <1>2, <2>1, <2>2, <2>4 DEF RosterChange
<1>7. ASSUME NEW c \in Client, DestroyLobby(c) PROVE RosterChange
  <2> DEFINE l == task[c].lid
  <2>1. l \in LobbyId /\ lobbies' = [lobbies EXCEPT ![l] = NoRoom]
    BY <1>0, <1>7 DEF DestroyLobby, TaskOK
  <2> HIDE DEF l
  <2>2. /\ lobbies'[l] = NoRoom /\ \A m \in LobbyId \ {l} : SameRoster(m)
        /\ lobbies'[l].host = NoClient /\ Members(lobbies'[l]) = {}
    BY <1>2, <2>1, NoRoomEmpty
  <2>3. CASE lobbies[l] = NoRoom
    BY <2>2, <2>3 DEF RosterChange, SameRoster
  <2>4. CASE lobbies[l] # NoRoom
    <3>1. Closed(l)
      BY <2>1, <2>2, <2>4, HostOfRoom DEF Closed
    <3> QED BY <2>1, <2>2, <3>1 DEF RosterChange
  <2> QED BY <2>3, <2>4
<1>8. ASSUME NEW c \in Client,
             \/ \E l \in LobbyId : PathAges(c, l)
             \/ \E t \in Seat : SeatMove(c, t)
             \/ \E s, t \in Seat : Move(c, s, t)
             \/ \E a \in asks, accept \in BOOLEAN : SeatSwapAnswer(c, a, accept)
             \/ \E b \in BOOLEAN : SetReady(c, b) \/ PathReport(c, b)
             \/ SetHostEndpoint(c) \/ SetMatchCaps(c)
             \/ StartCommit(c)
      PROVE  RosterChange
  BY <1>1, <1>8, RewritesKeep
<1>9. ASSUME NEW c \in Client,
             \/ JoinRefused(c) \/ JoinNeedMods(c) \/ JoinSettle(c) \/ StartPrepare(c)
             \/ StartRefused(c) \/ Remove(c) \/ Connect(c) \/ HangUp(c) \/ ModXferCancel(c)
             \/ CloseCheck(c) \/ \E b \in BOOLEAN : StartCheck(c, b)
             \/ \E l \in LobbyId : CreateCheck(c, l) \/ JoinCheck(c, l)
             \/ \E s \in Seat : SeatSwapRequest(c, s)
      PROVE  RosterChange
  BY <1>1, <1>9 DEF JoinRefused, JoinNeedMods, JoinSettle, StartPrepare, StartRefused,
     Remove, Connect, HangUp, ModXferCancel, CloseCheck, StartCheck, CreateCheck,
     JoinCheck, SeatSwapRequest
<1>10. ASSUME NEW c \in Client, HandlerStep(c) PROVE RosterChange
  BY <1>3, <1>4, <1>5, <1>7, <1>8, <1>9, <1>10 DEF HandlerStep
<1>11. ASSUME NEW c \in Client, ClientStep(c) PROVE RosterChange
  BY <1>5, <1>6, <1>8, <1>9, <1>11 DEF ClientStep
<1> QED BY <1>1, <1>10, <1>11 DEF Next, vars

\* roomBar names the room a client is a member of.
BarOK ==
  \A c \in Client :
    /\ roomBar[c] \in LobbyId \cup {NoLobby}
    /\ \A l \in LobbyId : roomBar[c] = l <=> c \in Members(lobbies[l])

LEMMA BarAgrees == Membership => BarOK
<1> SUFFICES ASSUME Membership, NEW c \in Client
             PROVE  /\ roomBar[c] \in LobbyId \cup {NoLobby}
                    /\ \A l \in LobbyId : roomBar[c] = l <=> c \in Members(lobbies[l])
  BY DEF BarOK
<1>1. CASE \E l \in LobbyId : c \in Members(lobbies[l])
  <2>1. PICK l \in LobbyId : c \in Members(lobbies[l])
    BY <1>1
  <2>2. \A m \in LobbyId : c \in Members(lobbies[m]) => m = l
    BY <2>1, MembersApart
  <2>3. roomBar[c] \in LobbyId /\ c \in Members(lobbies[roomBar[c]])
    BY <1>1 DEF roomBar
  <2> QED BY <2>1, <2>2, <2>3
<1>2. CASE ~ \E l \in LobbyId : c \in Members(lobbies[l])
  BY <1>2, HubConstants DEF roomBar
<1> QED BY <1>1, <1>2

\* roomBar' names the room a client is a member of after a step.
LEMMA BarAgreesNext == Membership' => BarOK'
BY BarAgrees, PTL

\* A step of the hub is a step of RoomMembership, or changes nothing there.
LEMMA RosterRefines ==
  ASSUME Membership, Membership', RosterChange
  PROVE  [RM!Next]_(RM!vars)
<1>0. BarOK /\ BarOK'
  BY BarAgrees, BarAgreesNext
<1>1. /\ \A c \in Client : /\ roomBar[c] \in LobbyId \cup {NoLobby}
                           /\ \A m \in LobbyId : roomBar[c] = m <=> c \in Members(lobbies[m])
      /\ \A c \in Client : /\ roomBar'[c] \in LobbyId \cup {NoLobby}
                           /\ \A m \in LobbyId : roomBar'[c] = m <=> c \in Members(lobbies'[m])
  BY <1>0 DEF BarOK
<1>2. /\ \A m \in LobbyId : hostBar[m] = lobbies[m].host /\ hostBar'[m] = lobbies'[m].host
      /\ hostBar = [m \in LobbyId |-> hostBar[m]]
      /\ hostBar' = [m \in LobbyId |-> hostBar'[m]]
      /\ roomBar = [c \in Client |-> roomBar[c]]
      /\ roomBar' = [c \in Client |-> roomBar'[c]]
  BY DEF hostBar, roomBar
<1>3. CASE \A m \in LobbyId : SameRoster(m)
  <2>1. \A c \in Client : roomBar'[c] = roomBar[c]
    BY <1>1, <1>3, HubConstants DEF SameRoster
  <2>2. \A m \in LobbyId : hostBar'[m] = hostBar[m]
    BY <1>2, <1>3 DEF SameRoster
  <2>3. hostBar' = hostBar /\ roomBar' = roomBar
    BY <1>2, <2>1, <2>2
  <2> QED BY <2>3 DEF RM!vars
<1>4. ASSUME NEW l \in LobbyId, \A m \in LobbyId \ {l} : SameRoster(m),
             NEW c \in Client, Opened(c, l)
      PROVE  RM!Open(c, l)
  <2>1. /\ roomBar[c] = NoLobby /\ roomBar'[c] = l
        /\ \A d \in Client \ {c} : roomBar'[d] = roomBar[d]
    BY <1>1, <1>4, NoRoomEmpty, HubConstants DEF SameRoster, Opened
  <2>2. /\ hostBar[l] = NoClient /\ hostBar'[l] = c
        /\ \A m \in LobbyId \ {l} : hostBar'[m] = hostBar[m]
    BY <1>2, <1>4, NoRoomEmpty DEF SameRoster, Opened
  <2>3. hostBar' = [hostBar EXCEPT ![l] = c] /\ roomBar' = [roomBar EXCEPT ![c] = l]
    BY <1>2, <2>1, <2>2
  <2> QED BY <2>1, <2>2, <2>3 DEF RM!Open
<1>5. ASSUME NEW l \in LobbyId, \A m \in LobbyId \ {l} : SameRoster(m),
             NEW c \in Client, Entered(c, l)
      PROVE  RM!Enter(c, l)
  <2>1. /\ roomBar[c] = NoLobby /\ roomBar'[c] = l
        /\ \A d \in Client \ {c} : roomBar'[d] = roomBar[d]
    BY <1>1, <1>5, HubConstants DEF SameRoster, Entered
  <2>2. /\ hostBar[l] # NoClient
        /\ \A m \in LobbyId : hostBar'[m] = hostBar[m]
    BY <1>2, <1>5 DEF SameRoster, Entered
  <2>3. hostBar' = hostBar /\ roomBar' = [roomBar EXCEPT ![c] = l]
    BY <1>2, <2>1, <2>2
  <2> QED BY <2>1, <2>2, <2>3 DEF RM!Enter
<1>6. ASSUME NEW l \in LobbyId, \A m \in LobbyId \ {l} : SameRoster(m),
             NEW c \in Client, Left(c, l)
      PROVE  RM!Exit(c)
  <2>1. /\ roomBar[c] = l /\ roomBar'[c] = NoLobby
        /\ \A d \in Client \ {c} : roomBar'[d] = roomBar[d]
    BY <1>1, <1>6, HubConstants DEF SameRoster, Left
  <2>2. /\ hostBar[l] # c
        /\ \A m \in LobbyId : hostBar'[m] = hostBar[m]
    BY <1>2, <1>6 DEF SameRoster, Left
  <2>3. hostBar' = hostBar /\ roomBar' = [roomBar EXCEPT ![c] = NoLobby]
    BY <1>2, <2>1, <2>2
  <2> QED BY <2>1, <2>2, <2>3, HubConstants DEF RM!Exit
<1>7. ASSUME NEW l \in LobbyId, \A m \in LobbyId \ {l} : SameRoster(m), Closed(l)
      PROVE  RM!Close(l)
  <2>1. \A d \in Client : roomBar'[d] = IF roomBar[d] = l THEN NoLobby ELSE roomBar[d]
    BY <1>1, <1>7, HubConstants DEF SameRoster, Closed
  <2>2. /\ hostBar[l] # NoClient /\ hostBar'[l] = NoClient
        /\ \A m \in LobbyId \ {l} : hostBar'[m] = hostBar[m]
    BY <1>2, <1>7 DEF SameRoster, Closed
  <2>3. /\ hostBar' = [hostBar EXCEPT ![l] = NoClient]
        /\ roomBar' = [d \in Client |-> IF roomBar[d] = l THEN NoLobby ELSE roomBar[d]]
    BY <1>2, <2>1, <2>2
  <2> QED BY <2>2, <2>3 DEF RM!Close
<1> QED BY <1>3, <1>4, <1>5, <1>6, <1>7 DEF RosterChange, RM!Next

\* The hub, for all its lock scopes, implements RoomMembership: the rooms'
\* tables change only by opening, entering, leaving and closing, each at once.
THEOREM ImplementsRoomMembershipAlways == Spec => ImplementsRoomMembership
<1>1. Init => RM!Init
  BY NoRoomEmpty DEF Init, RM!Init, hostBar, roomBar
<1>2. Membership /\ Membership' /\ [Next]_vars => [RM!Next]_(RM!vars)
  BY RosterChanges, RosterRefines
<1> QED BY <1>1, <1>2, MembershipInvariant, PTL DEF Spec, ImplementsRoomMembership, RM!Spec
=============================================================================
