SPECIFICATION Spec
CONSTANTS
  w1 = w1  w2 = w2  n1 = n1  n2 = n2  a = a  b = b  i1 = i1  i2 = i2  i3 = i3
  Workers = {w1, w2}
  Names = {n1}
  NamesOf <- SharedNames
  Blocks = {a, b}
  Contents <- OneBlock
  Kinds = {"file", "nameless", "malformed", "short"}
  Ids = {i1, i2}
  FdLimit = 4
  Faults = {"disk", "files", "tool", "redis", "kill"}
  NoName = NoName  DirtyName = DirtyName  NoId = NoId  Absent = Absent  Hole = Hole
SYMMETRY Symmetric
INVARIANTS TypeOK NoDanglingEntry OneEntryPerObject NameIntact NoLocalLeftover
PROPERTY FileStoreSpec
CHECK_DEADLOCK FALSE
