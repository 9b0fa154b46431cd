CONSTANTS
  root = root
  a = a
  b = b
  d = d
  f = f
  Root = root
  Dirs = {a, b, d}
  Files = {f}
  Parent <- MCParent
  MaxLoads = 3
  None = None
SPECIFICATION FairSpec
INVARIANTS ChildrenAreDirectories NoAnswerLost
PROPERTIES OpenNodesLoad
CHECK_DEADLOCK FALSE
