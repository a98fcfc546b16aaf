SPECIFICATION CertificatesSpec
CONSTANTS
  Requests = {r1}
  Base = 1
  DaysInMonth = 2
  MaxDate = 2
  MaxCertificate = 3
  MaxAttendance = 1
INVARIANTS
  CertificatesInv
  NumbersComplete
PROPERTIES
  NumberStays
CHECK_DEADLOCK FALSE
