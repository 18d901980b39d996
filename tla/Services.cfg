SPECIFICATION Spec
CONSTANTS
  c1 = c1
  c2 = c2
  c3 = c3
  host = host
  guest = guest
  game = game
  person = person
  a1 = a1
  a2 = a2
  s3 = s3
  w1 = w1
  w2 = w2
  x1 = x1
  x2 = x2
  y1 = y1
  y2 = y2
  z1 = z1
  z2 = z2
  k1 = k1
  k2 = k2
  k3 = k3
  k4 = k4
  t1 = t1
  t2 = t2
  Client = {c1, c2, c3}
  Host = c1
  Ears = {c2}
  Title = {game}
  NoTitle = NoTitle
  RoomTitle = game
  OUTBOX = 2
  MaxOps = 2
  Peer = {host, guest}
  Guest = {}
  Lobby = {y1, y2}
  HostOf <- OneHost
  SIGNAL_BURST = 1
  SHARE = 2
  PROBE_GRANT_TTL = 2
  PROBE_GRANTS_PER_CLIENT = 1
  MaxTime = 2
  MaxRelayed = 2
  Reported <- RoundTrips
  FrameUs <- FrameLengths
  Authored <- AuthoredNumbers
  Person = {person}
  Code = {w1, w2}
  Callback = {x1, x2}
  Nonce = {y1, y2}
  Proof = {z1, z2}
  None = None
  Failed = Failed
  Account = {a1, a2}
  Nobody = Nobody
  Socket = {x1, x2, s3}
  Holder <- Signed
  CHAT_RING_MAX = 1
  REPORTS_PER_HOUR = 1
  HOUR = 1
  MaxHours = 2
  MaxSaid = 2
  MaxBoots = 1
  PlayerId = {a1}
  LADDER <- Rungs
  STRIKE_WINDOW = 2
  RETENTION = 1
  REMATCH_COOLDOWN = 2
  MaxAge = 4
  MaxRows = 3
  Player = {x1, x2}
  RoomId = {y1, y2}
  Request = {z1, z2}
  SessionId = {1}
  NoPlayer = NoPlayer
  NoRoom = NoRoom
  NoSession = NoSession
  SlotCount = 2
  MAX_QUEUED = 2
  MaxPosts = 3
  Ops = {"signal"}
  Queuer = {k1, k2, k3, k4}
  Blocks <- Blocked
  ProfilesOf <- Kinds
  MeasuredRtt = {2}
  PROBE_GRACE_SECS = 1
  RTT_START_MS = 3
  RTT_STEP_MS = 1
  RTT_WIDEN_SECS = 1
  RTT_UNLIMITED_AFTER_STEPS = 2
  Cooldown = 2
SYMMETRY Interchangeable
CHECK_DEADLOCK FALSE
INVARIANTS TypeOK SignalsInOrder  NoGaps WithinRate ProbesSolicited FloorCoversTrip CredentialsHold OneAccountEach ReportsCapped
PROPERTIES SignalsKept NobodyLeftPairable NewOpponentsFirst FrontIsServed OnlyTimeFrees
