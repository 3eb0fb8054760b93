CONSTANTS
  Conns = {c1, c2}
  Svc = Svc
  Main = Main
  d = d
  v = v
  z = z
  Values = {d, v, z}
  Dflt = d
  SleepAnim = z
  Custom = {v}
  OutOfRange = OutOfRange
  Mixed = Mixed
  Shared = FALSE
  Free = Free
  Absent = Absent
  Torn = Torn
  Requests <- Everything
  Events <- NoEvents
  MaxRequests = 3
  MaxEvents = 0
  MaxCrashes = 1
  MaxFaults = 1
  MaxKeys = 0
SPECIFICATION Spec
SYMMETRY Symmetry
INVARIANTS
  TypeOK
  TornOnlyWhileSaving
  NoSilentLoss
  EcFollowsState
  ResetIsComplete
  OptOutHolds
