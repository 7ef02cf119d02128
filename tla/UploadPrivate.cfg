SPECIFICATION FairSpec
CONSTANTS
  w1 = w1  w2 = w2  n1 = n1  n2 = n2  a = a  b = b  i1 = i1  i2 = i2  i3 = i3
  Workers = {w1, w2}
  Names = {n1, n2}
  NamesOf <- PrivateNames
  Blocks = {a, b}
  Contents <- TwoLengths
  Kinds = {"file", "malformed"}
  Ids = {i1, i2, i3}
  FdLimit = 3
  Faults = {"kill"}
  NoName = NoName  DirtyName = DirtyName  NoId = NoId  Absent = Absent  Hole = Hole
INVARIANTS Integrity Accounted BoundedLife
PROPERTIES Progress Served
CHECK_DEADLOCK FALSE
