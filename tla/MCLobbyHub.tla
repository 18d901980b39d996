----------------------------- MODULE MCLobbyHub -----------------------------
(* Instances of LobbyHub for TLC. *)
EXTENDS LobbyHub, TLC

\* Creating, entering, leaving, kicking, closing and losing rooms.
RoomOps == {"create", "join", "mods", "leave", "close", "kick", "hangup"}

\* One room's seats, votes and path reports.
SeatOps == {"create", "join", "leave", "kick", "move", "seat_move", "swap",
            "ready", "path", "endpoint", "caps"}

\* Matches and rematches of several rooms, with their hosts coming and going.
StartOps == {"create", "join", "leave", "close", "path", "start", "hangup"}

\* Player ids are uuids: any two connections are alike.
Symmetry == Permutations(Client) \cup Permutations(LobbyId)
=============================================================================
