---------------------------- MODULE MCAlarmWorker ----------------------------
(* Small instances of the alarm worker.  One account and one event; the runs *)
(* differ in the reminders of the event, in whether an update replaces them, *)
(* and in the faults.                                                        *)
EXTENDS AlarmWorker, TLC

Create(reminders) ==
  [op |-> "create", user |-> CHOOSE u \in User : TRUE, start |-> 0, end |-> Null,
   alarms |-> reminders]

MCOneDue == { Create(<<0>>) }
MCTwoDue == { Create(<<0, 0>>) }

MCNoUpdates == {}
MCReplace ==
  [op : {"update"}, user : User, event : EventId, start : {Absent}, end : {Absent},
   alarms : {<<1>>}]

MCOneInstance == [t \in Tick |-> CHOOSE i \in Instance : TRUE]

MCExclusive == AllFaults \ {"overrun"}

MCSymmetry == Permutations(Tick) \cup Permutations(Device)
=============================================================================
