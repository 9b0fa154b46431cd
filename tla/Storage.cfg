CONSTANTS
  Versions = {1, 2}
  Statements = 2
  None = None
  Gone = Gone
  Creds = {k1, k2}
  MaxSaves = 2
  Themes = {dracula, nord}
  Dracula = dracula
  MaxPicks = 2
  MaxLaunches = 3
SPECIFICATION Spec
INVARIANTS SecretsReadable ScreenIsStored
PROPERTIES ImplementsInstallation
CHECK_DEADLOCK FALSE
