CONSTANTS
  Conns = {c1, c2, c3}
  Groups = {g1}
  Names = {n1, n2}
  StoredConns = {c1}
  MaxCalls = 3
  MaxOverlap = 3
  None = None
  Gone = Gone
SPECIFICATION Spec
INVARIANTS NoConnectionLost
CHECK_DEADLOCK FALSE
