SPECIFICATION MCSpec
CONSTANTS
  Callers = {c1, c2}
  Principals = {p1}
  Addresses = {ip1}
  Global = Global
  Limit <- MCLimit
  WindowSeconds = 2
  Units = 2
  Timeout = 1
  LastUnit = 5
  MaxCalls = 3
  Entries = {e1, e2}
  Readers = {w1, w2}
  Absent = Absent
  Ttl = 1
  MaxWrites = 1
  LastTick = 3
  Nobody = Nobody
  Rows = {1, 2, 3}
  Queries <- MCQueries
  Windows <- MCWindows
  LastDay = 1
  MaxEdits = 2
SYMMETRY Alike
CONSTRAINT OneRead
INVARIANTS CeilingHolds BustIsFinal TraversalIsComplete GroupsAddUp
CHECK_DEADLOCK FALSE
