SPECIFICATION KeepSpec
CONSTANTS
  c1 = c1
  c2 = c2
  c3 = c3
  m1 = m1
  m2 = m2
  NoCouncil = NoCouncil
  Requests = {r1, r2}
  Councils = {c1, c2, c3}
  Modules = {m1, m2}
  ModuleOf <- TwoModules
  Presided = {c1, c2, c3}
  Closable = {}
  Ranges <- SomeRanges
  MaxNumber = 3
  MaxId = 3
SYMMETRY RequestSymmetry
INVARIANTS
  NoGaps
  BookOfCouncil
CHECK_DEADLOCK FALSE
