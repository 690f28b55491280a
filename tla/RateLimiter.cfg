CONSTANTS
  s1 = s1
  s2 = s2
  c1 = c1
  c2 = c2
  Sessions = {s1, s2}
  Calls = {c1, c2}
  Configured <- MCConfigured
  DefaultBurst = 3
  ReapAfter = 2
  ReapEvery = 1
SPECIFICATION LimiterSpec
SYMMETRY Symmetric
INVARIANTS
  RateHeld
  IdleDropped
CHECK_DEADLOCK FALSE
