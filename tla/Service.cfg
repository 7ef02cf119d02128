SPECIFICATION ServiceSpec
CONSTANTS
  w1 = w1  w2 = w2  n1 = n1  n2 = n2  a = a  i1 = i1  i2 = i2  i3 = i3
  Workers = {w1, w2}
  Names = {n1, n2}
  NamesOf <- PrivateNames
  Blocks = {a}
  Contents <- OneBlock
  Kinds = {"file"}
  Ids = {i1, i2, i3}
  FdLimit = 4
  Faults = {"tool", "kill"}
  NoName = NoName  DirtyName = DirtyName  NoId = NoId  Absent = Absent  Hole = Hole
  Tokens <- PageTokens
  Queries <- TwoPages
  Numeral <- Numbers
  BufSize <- Sizes
  IntMax = 31
  RowSize = 4
SYMMETRY Symmetric
INVARIANT ShownIntact
PROPERTY LateInFlight
CHECK_DEADLOCK FALSE
