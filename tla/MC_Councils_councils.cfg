SPECIFICATION FairCouncilsSpec
CONSTANTS
  f1 = f1
  f2 = f2
  s1 = s1
  nobody = nobody
  m1 = m1
  Requests = {r1}
  Councils = {1, 2}
  Modules = {m1}
  Students = {s1}
  Persons = {f1, f2, s1, nobody}
  Registered = {f1, f2, s1}
  Creations <- SomeCreations
  Updates <- SomeUpdates
  Changes <- SomeChanges
  Hour = 2
  Failures = {"drive", "year", "restart"}
  Patient = TRUE
  r1 = r1
INVARIANTS
  CouncilsInv
PROPERTIES
  CouncilsAnswered
CHECK_DEADLOCK FALSE
