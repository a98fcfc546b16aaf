SPECIFICATION ScheduleSpec
CONSTANTS
  f1 = f1
  f2 = f2
  f3 = f3
  Requests = {1, 2}
  Rooms = {"A", "B"}
  Functionaries = {f1, f2, f3}
  Slots <- SomeSlots
  Joins <- OneMore
  Changes <- SomeChanges
  MaxCertificates = 2
  MaxAttendances = 3
  MaxRemovals = 1
  Ending = {1}
  Seated <- TwoPrincipals
  Patient = TRUE
INVARIANTS
  ScheduleInv
  RoomNotShared
  NotTwoPlaces
CHECK_DEADLOCK FALSE
