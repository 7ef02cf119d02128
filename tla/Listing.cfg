SPECIFICATION FairSpec
CONSTANTS
  i1 = i1  i2 = i2  i3 = i3
  Ids = {i1, i2, i3}
  Tokens <- SomeTokens
  Queries <- SomeQueries
  Numeral <- Numbers
  BufSize <- Sizes
  IntMax = 15
  RowSize = 4
  Faults = {"redis"}
INVARIANTS TypeOK RowsFit AnswerIsSlice LaterPagesFull OwnParameters NoOpenConnection
PROPERTIES NothingSkipped Answered
CHECK_DEADLOCK FALSE
