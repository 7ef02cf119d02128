SPECIFICATION Spec
CONSTANTS
  p1 = p1  p2 = p2  echo = echo  database = database
  Procs = {p1, p2}
  Modules = {echo, database}
  ModulesOf <- TwoNames
  LastDay = 2
  Year <- SomeYears
  Month <- SomeMonths
  Nobody = Nobody
SYMMETRY Symmetric
INVARIANTS TypeOK LossBounded ParentsFirst
