CONSTANTS
  Sessions = {s1}
  Pumps = {stdout, stderr}
  Callers = {c1, c2}
SPECIFICATION FairSpec
INVARIANTS ErrorOnlyFromRemote NoOrphan ListedIsConnected OneCloser
PROPERTIES ImplementsLifecycle EndedIsClosed CloseCompletes ShutdownCompletes
CHECK_DEADLOCK FALSE
