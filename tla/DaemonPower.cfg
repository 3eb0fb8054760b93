CONSTANTS
  Conns = {c1}
  Svc = Svc
  Main = Main
  d = d
  v = v
  z = z
  Values = {d, v}
  Dflt = d
  SleepAnim = v
  Custom = {v}
  OutOfRange = OutOfRange
  Mixed = Mixed
  Shared = TRUE
  Free = Free
  Absent = Absent
  Torn = Torn
  Requests <- AliasedSetters
  Events <- SleepWake
  MaxRequests = 1
  MaxEvents = 2
  MaxCrashes = 0
  MaxFaults = 1
  MaxKeys = 1
SPECIFICATION Spec
INVARIANTS
  NoSilentLoss
  EcFollowsState
