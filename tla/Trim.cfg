CONSTANTS
  Pumps = {stdout}
  MaxBuffer = 8
  MaxRead = 1
  MaxOutput <- MCMaxOutput
SPECIFICATION Spec
INVARIANTS NewestThreeQuartersKept
CHECK_DEADLOCK FALSE
