SPECIFICATION Spec
CONSTANTS
  Requests = {r1, r2, r3}
  NoRequest = NoRequest
  Bodies = {b1}
  NoBody = NoBody
  RECLAIM_ATTEMPTS = 2
  Trouble = {"crash"}
INVARIANT DroppedIsOwned
CHECK_DEADLOCK FALSE
