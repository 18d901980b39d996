SPECIFICATION ReportsSpec
CONSTANTS
  a1 = a1
  a2 = a2
  s1 = s1
  s2 = s2
  Account = {a1, a2}
  Nobody = Nobody
  Socket = {s1, s2}
  Holder <- OneSocketEach
  CHAT_RING_MAX = 2
  REPORTS_PER_HOUR = 2
  HOUR = 1
  MaxHours = 1
  MaxSaid = 2
  MaxBoots = 1
INVARIANTS ThankedIsFiled
