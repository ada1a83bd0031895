SPECIFICATION Spec
CONSTANTS
  User = {u1}
  Request = {r1}
  CreateInput <- MCOneDue
  UpdateInput <- MCReplace
  MaxTime = 1
  MaxEvent = 1
  MaxAlarm = 2
  Null = Null
  Absent = Absent
  Tick = {t1, t2}
  Instance = {i1}
  InstanceOf <- MCOneInstance
  NoTick = NoTick
  Device = {d1, d2}
  BatchSize = 1
  Faults <- MCExclusive
CHECK_DEADLOCK FALSE
SYMMETRY MCSymmetry
INVARIANTS SentMeansDelivered FailedMeansUndelivered PushedOnce BatchStaysPending
PROPERTIES OnlyDeadReaped
