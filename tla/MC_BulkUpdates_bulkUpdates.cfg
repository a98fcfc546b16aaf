SPECIFICATION FairStudentLoadSpec
CONSTANTS
  r1 = r1
  r2 = r2
  c1 = c1
  f1 = f1
  f2 = f2
  d1 = d1
  d2 = d2
  m1 = m1
  m2 = m2
  k1 = k1
  k2 = k2
  t1 = t1
  t2 = t2
  Callers = {r1, r2}
  Rows = {c1, f1, f2}
  Bulks <- SomeBulks
  Sheets <- SomeSheets
  Careers = {k1}
  Cantons = {t1}
  Pool = 2
  Failures = {"drive", "missing", "restart"}
INVARIANTS
  BulkInv
PROPERTIES
  ServedUnlessLost
  StatusTells
  LoadAnswered
CHECK_DEADLOCK FALSE
