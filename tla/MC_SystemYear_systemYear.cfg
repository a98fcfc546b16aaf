CONSTANTS
  Requests = {1, 2}
  Codes = {"FACU", "COMM", "SOFT", "CIVI"}
  Fixed <- FacultyAndCertificates
  Documented = {"FACU"}
  Asked <- ModuleOfNextYear
  Opened = {"council"}
  Initial <- Software
  Updates <- SoftwareClosed
  Bodies <- Civil
  Years <- SomeYears
  Next = {2025, 2026}
  FirstYear = 2024
  MaxChanges = 2
  Failures = {"drive", "restart"}
  Patient <- OneAtATime
SPECIFICATION FairSystemYearSpec
INVARIANTS
  SystemYearInv
PROPERTIES
  YearPrepared
  ChangeReported
