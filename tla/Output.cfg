CONSTANTS
  stdout = stdout
  stderr = stderr
  Pumps <- MCPumps
  MaxBuffer = 4
  MaxRead = 2
  MaxOutput <- MCMaxOutput
  Joined <- MCJoined
  Damaged = Damaged
SPECIFICATION FairScreenSpec
INVARIANTS BufferIsNewest NoLossBelowLimit NewestHalfKept ScreenIsOutput
PROPERTIES PumpsEnd
CHECK_DEADLOCK FALSE
