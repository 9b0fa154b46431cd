CONSTANTS
  TerminalTabs = {t1}
  SftpTabs = {f1}
  MaxClicks = 3
  None = None
SPECIFICATION FairSpec
INVARIANTS ActiveIsOpen LiveIsReachable ClicksDecide
PROPERTIES ClosedTabEnds
CHECK_DEADLOCK FALSE
