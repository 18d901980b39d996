SPECIFICATION Spec
CONSTANTS
  Client = {c1, c2}
  LobbyId = {l1}
  NoClient = NoClient
  NoLobby = NoLobby
  MAX_SLOTS = 2
  MAX_SPECTATORS = 0
  SPECTATOR_SLOT_BASE = 64
  MAX_LOBBIES = 1
  MaxSession = 2
  MaxAsks = 0
  Ops <- StartOps
PROPERTIES LaunchNeedsPlayers
