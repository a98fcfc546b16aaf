SPECIFICATION KeepSpec
CONSTANTS
  c1 = c1
  c2 = c2
  c3 = c3
  m1 = m1
  m2 = m2
  NoCouncil = NoCouncil
  Requests = {r1}
  Councils = {c1, c2, c3}
  Modules = {m1}
  ModuleOf <- OneModule
  Presided = {c1, c2, c3}
  Closable = {c1, c2, c3}
  Ranges <- AllRanges
  MaxNumber = 3
  MaxId = 9
SYMMETRY Symmetry
INVARIANTS
  TypeOK
  UniqueNumbers
  AdviceHolds
PROPERTIES
  ImplementsBook
  UsedStays
  OfferGranted
CHECK_DEADLOCK FALSE
