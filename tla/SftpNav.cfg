CONSTANTS
  Explorers = {e1}
  Transfers = {t1}
  Size = 1
  None = None
  Paths = {root, dir}
  Root = root
  Parent <- MCParent
  Requests = {r1, r2}
  MaxHistory = 3
  MaxChanges = 1
SPECIFICATION Spec
INVARIANTS ClientsAccountedFor ShowsItsPath SpinnerHasRequest
CHECK_DEADLOCK FALSE
