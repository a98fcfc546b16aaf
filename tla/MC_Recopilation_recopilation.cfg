SPECIFICATION FairRecopilationSpec
CONSTANTS
  Councils = {1, 2}
  Docs = {1, 2, 3}
  CouncilOf <- TwoAndOne
  Changing = {1, 2}
  Failures = {"drive", "restart"}
  Patient = TRUE
INVARIANTS
  RecopilationInv
PROPERTIES
  RecopilationAnswered
CHECK_DEADLOCK FALSE
