CONSTANTS
  Explorers = {e1}
  Transfers = {t1, t2}
  Size = 1
  None = None
  Paths = {root}
  Root = root
  Parent <- MCParent
  Requests = {r1}
  MaxHistory = 3
  MaxChanges = 0
SPECIFICATION FairSpec
PROPERTIES ImplementsTransfers DeadTransfersEnd
CHECK_DEADLOCK FALSE
