SPECIFICATION Spec
CONSTANTS
  Byte <- Bytes
  Size = 40
  NameSize = 8
  BoundarySize = 16
  Requests <- AllRequests
  Unopenable <- SomeDirectories
  Leftovers <- SomeLeftovers
  Ids <- SomeIds
  IdText <- SomeIdText
  UrlText <- SomeUrlText
  TimeText <- SomeTimeText
  User <- SomeUser
  FileNames <- AllNames
INVARIANTS TypeOK FileTaken FileAccepted OwnBytes NameWasSent
INVARIANTS PlainRowsTrue RunsAwayOnBackslash ShownAsSent
CHECK_DEADLOCK FALSE
