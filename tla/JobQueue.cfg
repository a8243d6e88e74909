SPECIFICATION Spec
CONSTANTS
  Jobs = {j1, j2}
  Drainers = {d1, d2}
  Registered = {j1}
  MaxAttempts = 2
  LEASE = 1
  BATCH = 1
  BackoffBase = 1
  BackoffMax = 2
  Delays = {0}
  NoJob = NoJob
  Unlocked = Unlocked
  Horizon = 3
INVARIANTS ClaimsAreDistinct SettledTellsTheTruth
PROPERTY ImplementsAtLeastOnce
CHECK_DEADLOCK FALSE
