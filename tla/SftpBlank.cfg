CONSTANTS
  Explorers = {e1}
  Transfers = {t1}
  Size = 1
  None = None
  Paths = {root}
  Root = root
  Parent <- MCParent
  Requests = {r1}
  MaxHistory = 2
  MaxChanges = 0
SPECIFICATION AppSpec
PROPERTIES PanelShowsExplorer
CHECK_DEADLOCK FALSE
