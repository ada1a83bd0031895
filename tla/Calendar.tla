------------------------------- MODULE Calendar -------------------------------
(***************************************************************************)
(* CalendarService: the events of the users and the alarms (reminders) of  *)
(* each event.  A request is validated against the clock first and reaches *)
(* MySQL later, so requests interleave between these steps; update() runs  *)
(* a transaction that reads the row FOR UPDATE and commits its writes.     *)
(*                                                                         *)
(* The alarm worker writes the status of alarms; RecordOutcome is that     *)
(* write, and here it may come at any time and say anything.               *)
(***************************************************************************)
EXTENDS Integers, Sequences

CONSTANTS
  User,         \* accounts
  Request,      \* handlers of create and update requests, busy or idle
  CreateInput,  \* bodies of create requests, with the user they come from
  UpdateInput,  \* bodies of update requests, with the user and the event id
  MaxTime,      \* bound of the clock
  MaxEvent,     \* bound of calendar_event's AUTO_INCREMENT
  MaxAlarm,     \* bound of alarm's AUTO_INCREMENT
  Null,         \* SQL NULL, and the content of an id that has no row
  Absent        \* a field left out of an update

Time    == 0..MaxTime
EventId == 1..MaxEvent
AlarmId == 1..MaxAlarm

\* A request and the stage it has got to in its handler.  (startAt: null passes the
\* validation of an update and is 1970 to new Date(null): here, time 0.)
CreateCall ==
  [op : {"create"}, user : User, start : Time, end : Time \cup {Null},
   alarms : Seq(Time)]

UpdateCall ==
  [op : {"update", "commit"}, user : User, event : EventId,
   start : Time \cup {Absent}, end : Time \cup {Null, Absent},
   alarms : Seq(Time) \cup {Absent}]

ASSUME CalendarAssumption ==
  /\ MaxTime \in Nat
  /\ MaxEvent \in Nat
  /\ MaxAlarm \in Nat
  /\ CreateInput \subseteq CreateCall
  /\ UpdateInput \subseteq UpdateCall
  /\ \A c \in UpdateInput : c.op = "update"

VARIABLES
  now,        \* new Date(), in units of a model day
  event,      \* calendar_event, by id
  alarm,      \* alarm, by id
  nextEvent,  \* next id of calendar_event
  nextAlarm,  \* next id of alarm
  call        \* what each request in flight has got to

calendarVars == <<now, event, alarm, nextEvent, nextAlarm, call>>

Idle == [op |-> "idle"]

CalendarInit ==
  /\ now = 0
  /\ event = [e \in EventId |-> Null]
  /\ alarm = [a \in AlarmId |-> Null]
  /\ nextEvent = 1
  /\ nextAlarm = 1
  /\ call = [r \in Request |-> Idle]

-----------------------------------------------------------------------------
(* Helpers.                                                                *)

\* assertRange: the end, when there is one, is not before the start.
InRange(start, end) == end # Null => start <= end

\* toRemindAts: a reminder may not lie in the past of the validation.
NotPast(reminders) == \A i \in DOMAIN reminders : reminders[i] >= now

IsPending(a) == alarm[a] # Null /\ alarm[a].status = "PENDING"

PendingOf(e) == {a \in AlarmId : IsPending(a) /\ alarm[a].event = e}

\* The rows of a reminder list, with consecutive ids from nextAlarm on.  The
\* field list is no column: it marks the rows that one request wrote.
NewAlarms(e, reminders) ==
  [a \in nextAlarm..(nextAlarm + Len(reminders) - 1) |->
     [event |-> e, at |-> reminders[a - nextAlarm + 1],
      status |-> "PENDING", list |-> nextAlarm]]

\* The alarm table once the ids in gone are deleted and new is inserted.
ReplaceAlarms(gone, new) ==
  [a \in AlarmId |->
     IF a \in DOMAIN new THEN new[a] ELSE IF a \in gone THEN Null ELSE alarm[a]]

HasRoom(reminders) == nextAlarm + Len(reminders) - 1 <= MaxAlarm

\* The InnoDB row lock of SELECT ... FOR UPDATE, held until the transaction ends.
Locked(e) == \E r \in Request : call[r].op = "commit" /\ call[r].event = e

Given(value, current) == IF value = Absent THEN current ELSE value

-----------------------------------------------------------------------------
(* create()                                                                *)

\* The request is validated; a roadmap step that is not the user's ends it.
SubmitCreate(r, c) ==
  /\ call[r].op = "idle"
  /\ InRange(c.start, c.end)
  /\ NotPast(c.alarms)
  /\ call' = [call EXCEPT ![r] = c]
  /\ UNCHANGED <<now, event, alarm, nextEvent, nextAlarm>>

\* The nested create: the event and its alarms in one transaction.
InsertEvent(r) ==
  /\ call[r].op = "create"
  /\ nextEvent <= MaxEvent
  /\ HasRoom(call[r].alarms)
  /\ event' = [event EXCEPT ![nextEvent] =
       [user |-> call[r].user, start |-> call[r].start, end |-> call[r].end]]
  /\ alarm' = ReplaceAlarms({}, NewAlarms(nextEvent, call[r].alarms))
  /\ nextEvent' = nextEvent + 1
  /\ nextAlarm' = nextAlarm + Len(call[r].alarms)
  /\ call' = [call EXCEPT ![r] = Idle]
  /\ UNCHANGED now

-----------------------------------------------------------------------------
(* update()                                                                *)

SubmitUpdate(r, c) ==
  /\ call[r].op = "idle"
  /\ c.alarms # Absent => NotPast(c.alarms)
  /\ call' = [call EXCEPT ![r] = c]
  /\ UNCHANGED <<now, event, alarm, nextEvent, nextAlarm>>

\* The row is found, locked and read, and the range of the event as it will be
\* is valid; otherwise the request fails.
ReadRow(r) ==
  LET c == call[r]
      current == event[c.event]
  IN /\ current # Null
     /\ current.user = c.user
     /\ InRange(Given(c.start, current.start), Given(c.end, current.end))
     /\ call' = [call EXCEPT ![r].op = "commit"]
     /\ UNCHANGED <<now, event, alarm, nextEvent, nextAlarm>>

ReadUnlocked(r) ==   \* mutant: SELECT without FOR UPDATE
  call[r].op = "update" /\ ReadRow(r)

LockRow(r) == call[r].op = "update" /\ ~Locked(call[r].event) /\ ReadRow(r)

\* The writes of the transaction and its commit.  Only the fields given are
\* written.  A list of reminders replaces the PENDING ones and leaves the
\* history (SENT, FAILED) alone.
PutReminders(e, gone, reminders) ==
  /\ HasRoom(reminders)
  /\ alarm' = ReplaceAlarms(gone, NewAlarms(e, reminders))
  /\ nextAlarm' = nextAlarm + Len(reminders)

ReplaceAll(e, reminders) ==   \* mutant: deleteMany without the status
  PutReminders(e, {a \in AlarmId : alarm[a] # Null /\ alarm[a].event = e}, reminders)

AddReminders(e, reminders) ==   \* mutant: createMany without the deleteMany
  PutReminders(e, {}, reminders)

ReplaceReminders(e, reminders) ==
  PutReminders(e, PendingOf(e), reminders)

\* The writes of the transaction and its COMMIT, as one step: the row lock keeps
\* every other writer of the event and its reminders out, but for the worker, whose
\* record of an outcome waits for these rows or comes before them.
Commit(r) ==
  LET c == call[r]
      e == c.event
  IN /\ c.op = "commit"
     /\ event' = [event EXCEPT
          ![e].start = Given(c.start, event[e].start),
          ![e].end = Given(c.end, event[e].end)]
     /\ IF c.alarms = Absent
          THEN UNCHANGED <<alarm, nextAlarm>>
          ELSE ReplaceReminders(e, c.alarms)
     /\ call' = [call EXCEPT ![r] = Idle]
     /\ UNCHANGED <<now, nextEvent>>

\* Any way a request ends without a write: 404, an invalid range, a rolled
\* back transaction, a lost connection.
Fail(r) ==
  /\ call[r].op # "idle"
  /\ call' = [call EXCEPT ![r] = Idle]
  /\ UNCHANGED <<now, event, alarm, nextEvent, nextAlarm>>

-----------------------------------------------------------------------------
(* remove(), the worker's write and the clock                              *)

\* The delete waits for the row lock and cascades to the alarms.
Remove(u, e) ==
  /\ event[e] # Null
  /\ event[e].user = u
  /\ ~Locked(e)
  /\ event' = [event EXCEPT ![e] = Null]
  /\ alarm' = [a \in AlarmId |->
       IF alarm[a] # Null /\ alarm[a].event = e THEN Null ELSE alarm[a]]
  /\ UNCHANGED <<now, nextEvent, nextAlarm, call>>

\* The two updateMany of the alarm worker's transaction: the ids in sent, then
\* those in failed, and of both only the rows that are still PENDING.
RecordStatus(sent, failed) ==
  alarm' = [a \in AlarmId |->
    IF IsPending(a) /\ a \in sent THEN [alarm[a] EXCEPT !.status = "SENT"]
    ELSE IF IsPending(a) /\ a \in failed THEN [alarm[a] EXCEPT !.status = "FAILED"]
    ELSE alarm[a]]

RecordOutcome(sent, failed) ==
  /\ RecordStatus(sent, failed)
  /\ UNCHANGED <<now, event, nextEvent, nextAlarm, call>>

PassTime ==
  /\ now < MaxTime
  /\ now' = now + 1
  /\ UNCHANGED <<event, alarm, nextEvent, nextAlarm, call>>

-----------------------------------------------------------------------------

RequestStep(r) ==
  \/ \E c \in CreateInput : SubmitCreate(r, c)
  \/ \E c \in UpdateInput : SubmitUpdate(r, c)
  \/ InsertEvent(r) \/ LockRow(r) \/ Commit(r) \/ Fail(r)

CalendarStep ==
  \/ \E r \in Request : RequestStep(r)
  \/ \E u \in User, e \in EventId : Remove(u, e)
  \/ PassTime

CalendarNext ==
  \/ CalendarStep
  \/ \E sent \in SUBSET AlarmId : \E failed \in SUBSET (AlarmId \ sent) :
       RecordOutcome(sent, failed)

CalendarSpec == CalendarInit /\ [][CalendarNext]_calendarVars

-----------------------------------------------------------------------------
(* Properties.                                                             *)

EventRow == [user : User, start : Time, end : Time \cup {Null}]

AlarmRow ==
  [event : EventId, at : Time, status : {"PENDING", "SENT", "FAILED"}, list : AlarmId]

CalendarTypeOK ==
  /\ now \in Time
  /\ event \in [EventId -> EventRow \cup {Null}]
  /\ alarm \in [AlarmId -> AlarmRow \cup {Null}]
  /\ nextEvent \in 1..(MaxEvent + 1)
  /\ nextAlarm \in 1..(MaxAlarm + 1)
  /\ call \in [Request -> {Idle} \cup CreateCall \cup UpdateCall]

\* No event ends before it starts, although two updates may each change one
\* end of it: what the FOR UPDATE of update() is for (calendar.service.ts:156).
RangeValid ==
  \A e \in EventId : event[e] # Null => InRange(event[e].start, event[e].end)

\* What update() read under its lock still holds when it writes: the row is
\* there, no other transaction has it, and the range checked is the range that
\* results.
CommitIsSafe ==
  \A r \in Request :
    LET c == call[r]
        current == event[c.event]
    IN c.op = "commit" =>
         /\ current # Null
         /\ InRange(Given(c.start, current.start), Given(c.end, current.end))
         /\ \A q \in Request : call[q].op = "commit" /\ call[q].event = c.event => q = r

\* The PENDING reminders of an event are those of one request, never a mix of
\* two lists: an update replaces them (calendar.service.ts:182-184).
PendingFromOneRequest ==
  \A a, b \in AlarmId :
    IsPending(a) /\ IsPending(b) /\ alarm[a].event = alarm[b].event
      => alarm[a].list = alarm[b].list

\* "SENT/FAILED are the record of what was sent and must not be deleted"
\* (calendar.service.ts:186-187): such a row never changes and leaves the table
\* only with its event.
HistoryKept ==
  [][ \A a \in AlarmId :
        alarm[a] # Null /\ ~IsPending(a) =>
          \/ alarm'[a] = alarm[a]
          \/ event[alarm[a].event] # Null /\ event'[alarm[a].event] = Null
    ]_calendarVars

=============================================================================
