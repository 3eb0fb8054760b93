SPECIFICATION Spec
CONSTANTS
  Requests = {r1, r2}
  NoRequest = NoRequest
  Scenes <- SomeScenes
  MaxCommands = 2
  MaxStarts = 2
  MaxReports = 2
INVARIANTS
  StoreIsSound
  OptOutStops
  SettingsTell
PROPERTIES
  SlowBlockNobody
CHECK_DEADLOCK FALSE
