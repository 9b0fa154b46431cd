CONSTANTS
  Conns = {c1, c2, c3}
  Groups = {g1}
  Names = {n1, n2}
  StoredConns = {c1}
  MaxCalls = 4
  MaxOverlap = 3
  None = None
  Gone = Gone
SPECIFICATION FairSpec
INVARIANTS ListsAreTrue GroupEditsKept JumpsSound
PROPERTIES DeletedStaysDeleted SavingEnds
CHECK_DEADLOCK FALSE
