SPECIFICATION Spec
CONSTANTS
  Client = {c1, c2, c3}
  LobbyId = {l1}
  NoClient = NoClient
  NoLobby = NoLobby
  MAX_SLOTS = 2
  MAX_SPECTATORS = 1
  SPECTATOR_SLOT_BASE = 64
  MAX_LOBBIES = 1
  MaxSession = 1
  MaxAsks = 1
  Ops <- SeatOps
SYMMETRY Symmetry
INVARIANTS ProofsArePlayers
PROPERTIES MembershipVoidsProofs NewcomersUnready
