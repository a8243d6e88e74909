SPECIFICATION MCSpec
CONSTANTS
  Sweeps = {s1, s2}
  Priorities = {normal, low}
  Normal = normal
  FirstResponse <- MCFirstResponse
  Resolution <- MCResolution
  None = None
  Horizon = 2
  Now = 3
  Plans <- MCPlans
INVARIANTS ResolutionClockIsExact BreachIsEarned AnnouncedAtMostOnce SeedIsAFixedPoint
PROPERTY SilenceIsNoticed
CHECK_DEADLOCK FALSE
