SPECIFICATION FairDocumentsSpec
CONSTANTS
  c1 = c1
  c2 = c2
  m1 = m1
  NoCouncil = NoCouncil
  Requests = {r1, r2}
  Councils = {c1}
  Modules = {m1}
  ModuleOf <- OneModule
  Presided = {c1}
  Closable = {}
  Ranges <- FirstNumbers
  MaxNumber = 1
  MaxId = 2
  MaxDocument = 2
  Failures = {"early","copy","unlink","background","restart"}
INVARIANTS
  DocumentsFinished
PROPERTIES
  DocumentsAnswered
CHECK_DEADLOCK FALSE
