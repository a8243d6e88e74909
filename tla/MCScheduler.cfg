SPECIFICATION SchedulerSpec
CONSTANTS
  Loops <- MCLoops
  ActiveTick <- MCActive
  IDLE_TICK = 2
  IDLE_AFTER = 1
  RunScheduler = TRUE
  MaxTimers = 2
  MaxRuns <- MCRuns
  Fast = "fast"
  MaxClaims = 1
  Jobs = {j1}
  Poison = {}
  MaxAttempts = 2
  Cap = 3
INVARIANTS OneTimerPerLoop 
PROPERTY EveryJobSettles
CHECK_DEADLOCK FALSE
