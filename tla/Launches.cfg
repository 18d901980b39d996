SPECIFICATION FairSpec
CONSTANTS
  Client = {c1, c2}
  LobbyId = {l1, l2, l3}
  NoClient = NoClient
  NoLobby = NoLobby
  MAX_SLOTS = 2
  MAX_SPECTATORS = 0
  SPECTATOR_SLOT_BASE = 64
  MAX_LOBBIES = 2
  MaxSession = 3
  MaxAsks = 0
  Ops <- StartOps
INVARIANTS SessionsDistinct
PROPERTIES SessionAdvances 
