--------------------------- MODULE RoomMembership ---------------------------
(***************************************************************************)
(* What the hub promises about who is in which room, with every operation  *)
(* a single step: a client is in at most one room, a room belongs to one   *)
(* host from its opening to its closing, its host is in it all that time,  *)
(* and closing it takes everybody out at once.                             *)
(***************************************************************************)
CONSTANTS Client, LobbyId, NoClient, NoLobby

VARIABLES
  hostOf,  \* hostOf[l]: the host of room l, NoClient while l is closed
  roomOf   \* roomOf[c]: the room c is in, NoLobby outside every room

vars == <<hostOf, roomOf>>

Init ==
  /\ hostOf = [l \in LobbyId |-> NoClient]
  /\ roomOf = [c \in Client |-> NoLobby]

Open(c, l) ==
  /\ roomOf[c] = NoLobby
  /\ hostOf[l] = NoClient
  /\ hostOf' = [hostOf EXCEPT ![l] = c]
  /\ roomOf' = [roomOf EXCEPT ![c] = l]

Enter(c, l) ==
  /\ roomOf[c] = NoLobby
  /\ hostOf[l] # NoClient
  /\ roomOf' = [roomOf EXCEPT ![c] = l]
  /\ UNCHANGED hostOf

\* Only a guest goes without the room: it leaves or is kicked.
Exit(c) ==
  /\ roomOf[c] # NoLobby
  /\ hostOf[roomOf[c]] # c
  /\ roomOf' = [roomOf EXCEPT ![c] = NoLobby]
  /\ UNCHANGED hostOf

Close(l) ==
  /\ hostOf[l] # NoClient
  /\ hostOf' = [hostOf EXCEPT ![l] = NoClient]
  /\ roomOf' = [c \in Client |-> IF roomOf[c] = l THEN NoLobby ELSE roomOf[c]]

Next ==
  \/ \E c \in Client, l \in LobbyId : Open(c, l) \/ Enter(c, l)
  \/ \E c \in Client : Exit(c)
  \/ \E l \in LobbyId : Close(l)

Spec == Init /\ [][Next]_vars
=============================================================================
