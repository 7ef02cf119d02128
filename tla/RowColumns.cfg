SPECIFICATION Spec
CONSTANTS
  Byte <- Bytes
  Size = 40
  NameSize = 8
  BoundarySize = 16
  Requests <- BarNames
  Unopenable <- SomeDirectories
  Leftovers <- SomeLeftovers
  Ids <- SomeIds
  IdText <- SomeIdText
  UrlText <- SomeUrlText
  TimeText <- SomeTimeText
  User <- SomeUser
  FileNames <- AllNames
INVARIANT ColumnsAreFields
CHECK_DEADLOCK FALSE
