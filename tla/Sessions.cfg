SPECIFICATION Spec
CONSTANTS
  Requests = {q1, q2}
  NoRequest = NoRequest
  SLIDING = 2
  ABSOLUTE = 3
  MaxTokens = 3
  Horizon = 4
INVARIANTS OneSuccessor EvictionIsComplete
CHECK_DEADLOCK FALSE
