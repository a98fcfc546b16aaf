CONSTANTS
  Requests = {1}
  Ids = {1, 2}
  Gmails = {"g1", "g2", "g3"}
  Existing = {"FACU", "SOFT", "Civil"}
  Bodies <- TwoUsers
  Updates <- SomeUpdates
  MaxMails = 2
  Failures = {"drive", "restart"}
  Touched = {1}
SPECIFICATION UsersSpec
INVARIANTS
  UsersInv
  AnsweredAsAsked
  InactiveOnlyReads
