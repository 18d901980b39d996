SPECIFICATION HttpFairSpec
CONSTANTS
  Player = {p1, p2, p3}
  RoomId = {r1}
  Request = {q1}
  SessionId = {s1, s2}
  NoPlayer = NoPlayer
  NoRoom = NoRoom
  NoSession = NoSession
  SlotCount = 3
  MAX_QUEUED = 1
  MaxPosts = 1
  Ops = {"start", "time", "signal"}
INVARIANTS BootstrapsAgree AuthorityIsHost
PROPERTIES SessionStable SilentHostEnds
CHECK_DEADLOCK FALSE
