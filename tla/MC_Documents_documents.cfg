SPECIFICATION DocumentsSpec
CONSTANTS
  c1 = c1
  c2 = c2
  m1 = m1
  NoCouncil = NoCouncil
  Requests = {r1}
  Councils = {c1, c2}
  Modules = {m1}
  ModuleOf <- OneModule
  Presided = {c1, c2}
  Closable = {}
  Ranges <- OneRange
  MaxNumber = 3
  MaxId = 5
  MaxDocument = 3
  Failures = {"document", "copy"}
SYMMETRY Symmetry
INVARIANTS
  DocumentsInv
  SuggestedIsFree
CHECK_DEADLOCK FALSE
