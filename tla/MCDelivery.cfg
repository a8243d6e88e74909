SPECIFICATION MCSpec
CONSTANTS
  MaxAttempts = 3
  Cap = 5
  Tenants = {1, 2}
  Contacts = {ct1, ct2}
  Members = {m1}
  Pool = {k1, k2}
  Units = {u1, u2}
  Nobody = Nobody
  Unset = Unset
  Empty = Empty
  MaxTransactions = 3
SYMMETRY Alike
INVARIANTS  ContextIsTheWholeView
 
CHECK_DEADLOCK FALSE
