SPECIFICATION FairSpec
CONSTANTS
  Jobs = {j1}
  Poison = {j1}
  MaxAttempts = 2
  Cap = 3
PROPERTY CountingClaimsReachesDead
CHECK_DEADLOCK FALSE
