SPECIFICATION FairLongTasksSpec
CONSTANTS
  d1 = d1
  s1 = s1
  Queues = {"document", "certificate"}
  Items = {d1, s1}
  Docs = {d1}
  Removable = {d1}
  Students = {s1}
  Sheets <- SomeSheets
  Members = 1
  MaxVersion = 3
  MaxRoots = 2
  MaxStops = 1
  OneKind = TRUE
  Failures = {"drive", "fill", "validation", "rate", "cells", "grades", "members"}
PROPERTIES
  TasksEnd
INVARIANTS
  LongTasksInv
  FileShowsVariables
  CouncilShown
  OneCertificate
CHECK_DEADLOCK FALSE
