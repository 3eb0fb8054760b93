SPECIFICATION ClientsSpec
CONSTANTS
  Versions <- SomeVersions
  Requests <- IpcRequest
  Answers <- IpcResponse
  AnswersTo <- AnswersOf
  MaxCalls = 4
INVARIANTS
  VersionsAgree
  ClosedIsSaved
  ExitTells
PROPERTIES
  ImplementsChannel
  NobodyWaits
CHECK_DEADLOCK FALSE
