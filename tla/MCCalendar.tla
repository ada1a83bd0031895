------------------------------ MODULE MCCalendar ------------------------------
(* One event is enough for the races of its updates, two requests race on it, *)
(* and two alarm ids let one list of reminders replace another.               *)
EXTENDS Calendar, TLC

MCReminders == {<<>>, <<1>>}
MCCreates ==
  [op : {"create"}, user : User, start : Time, end : Time \cup {Null},
   alarms : MCReminders]
MCUpdates ==
  [op : {"update"}, user : User, event : EventId, start : Time \cup {Absent},
   end : Time \cup {Null, Absent}, alarms : MCReminders \cup {Absent}]
MCSymmetry == Permutations(Request)
=============================================================================
