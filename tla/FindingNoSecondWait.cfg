SPECIFICATION QueueSpec
CONSTANTS
  k1 = k1
  k2 = k2
  k3 = k3
  t1 = t1
  t2 = t2
  Queuer = {k1, k2, k3}
  Blocks <- NoneBlocked
  ProfilesOf <- Kinds
  MeasuredRtt <- Unmeasured
  PROBE_GRACE_SECS = 1
  RTT_START_MS = 3
  RTT_STEP_MS = 1
  RTT_WIDEN_SECS = 1
  RTT_UNLIMITED_AFTER_STEPS = 2
  Cooldown = 2
PROPERTIES NoSecondWait
