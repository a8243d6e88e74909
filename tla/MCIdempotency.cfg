SPECIFICATION Spec
CONSTANTS
  Requests = {r1, r2, r3}
  NoRequest = NoRequest
  Bodies = {b1, b2}
  NoBody = NoBody
  RECLAIM_ATTEMPTS = 1
  Trouble = {"crash", "enqueue", "release", "complete", "installation"}
  
PROPERTY RecordIsTrue
SYMMETRY Alike
CHECK_DEADLOCK FALSE
