SPECIFICATION Spec
CONSTANTS
  i1 = i1  i2 = i2  i3 = i3
  Ids = {i1, i2, i3}
  Tokens <- SomeTokens
  Queries <- FirstPages
  Numeral <- Numbers
  BufSize <- Sizes
  IntMax = 15
  RowSize = 4
  Faults = {}
INVARIANT FirstPageFull
CHECK_DEADLOCK FALSE
