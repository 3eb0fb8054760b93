CONSTANTS
  Conns = {c1, c2}
  Svc = Svc
  Main = Main
  d = d
  v = v
  z = z
  Values = {d, v, z}
  Dflt = d
  SleepAnim = z
  Custom = {v}
  OutOfRange = OutOfRange
  Mixed = Mixed
  Shared = FALSE
  Free = Free
  Absent = Absent
  Torn = Torn
  Requests <- Contending
  Events <- Hibernates
  MaxRequests = 2
  MaxEvents = 1
  MaxCrashes = 0
  MaxFaults = 0
  MaxKeys = 0
SPECIFICATION FairSpec
PROPERTIES
  GuardIsReleased
  RequestsAreServed
