SPECIFICATION FairSpec
CONSTANTS
  User = {u1}
  Request = {r1}
  CreateInput <- MCTwoDue
  UpdateInput <- MCNoUpdates
  MaxTime = 0
  MaxEvent = 1
  MaxAlarm = 2
  Null = Null
  Absent = Absent
  Tick = {t1, t2}
  Instance = {i1}
  InstanceOf <- MCOneInstance
  NoTick = NoTick
  Device = {d1}
  BatchSize = 1
  Faults <- MCExclusive
CHECK_DEADLOCK FALSE
PROPERTIES ImplementsLease DueSettles
