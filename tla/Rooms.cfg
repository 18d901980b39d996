SPECIFICATION Spec
CONSTANTS
  Client = {c1, c2, c3}
  LobbyId = {l1, l2, l3}
  NoClient = NoClient
  NoLobby = NoLobby
  MAX_SLOTS = 2
  MAX_SPECTATORS = 1
  SPECTATOR_SLOT_BASE = 64
  MAX_LOBBIES = 2
  MaxSession = 2
  MaxAsks = 0
  Ops <- RoomOps
SYMMETRY Symmetry
INVARIANTS   PendingModSettled
 
