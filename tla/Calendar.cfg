SPECIFICATION CalendarSpec
CONSTANTS
  User = {u1}
  Request = {r1, r2}
  CreateInput <- MCCreates
  UpdateInput <- MCUpdates
  MaxTime = 1
  MaxEvent = 1
  MaxAlarm = 2
  Null = Null
  Absent = Absent
SYMMETRY MCSymmetry
INVARIANTS RangeValid CommitIsSafe PendingFromOneRequest
PROPERTIES HistoryKept
CHECK_DEADLOCK FALSE
