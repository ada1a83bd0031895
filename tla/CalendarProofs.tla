---------------------------- MODULE CalendarProofs ----------------------------
(***************************************************************************)
(* The calendar, proved for every set of accounts and requests, every      *)
(* request body and every bound: its types, the range of its events, the   *)
(* provenance of its reminders and the permanence of its history.          *)
(***************************************************************************)
EXTENDS Calendar, TLAPS

USE CalendarAssumption DEF Time, EventId, AlarmId

-----------------------------------------------------------------------------
(* Helpers.                                                                *)

\* The ids and rows of a reminder list that fits below MaxAlarm.
LEMMA NewAlarmsType ==
  ASSUME nextAlarm \in 1..(MaxAlarm + 1), NEW e \in EventId,
         NEW reminders \in Seq(Time), HasRoom(reminders)
  PROVE  /\ DOMAIN NewAlarms(e, reminders) = nextAlarm..(nextAlarm + Len(reminders) - 1)
         /\ DOMAIN NewAlarms(e, reminders) \subseteq AlarmId
         /\ \A a \in DOMAIN NewAlarms(e, reminders) :
              /\ NewAlarms(e, reminders)[a] \in AlarmRow
              /\ NewAlarms(e, reminders)[a].event = e
              /\ NewAlarms(e, reminders)[a].list = nextAlarm
         /\ nextAlarm + Len(reminders) \in 1..(MaxAlarm + 1)
<1>1. reminders \in Seq(Time) /\ Len(reminders) \in Nat
  OBVIOUS
<1>2. DOMAIN NewAlarms(e, reminders) = nextAlarm..(nextAlarm + Len(reminders) - 1)
  BY DEF NewAlarms
<1>3. DOMAIN NewAlarms(e, reminders) \subseteq AlarmId
  BY <1>1, <1>2 DEF HasRoom
<1>4. ASSUME NEW a \in DOMAIN NewAlarms(e, reminders)
      PROVE  /\ NewAlarms(e, reminders)[a] \in AlarmRow
             /\ NewAlarms(e, reminders)[a].event = e
             /\ NewAlarms(e, reminders)[a].list = nextAlarm
  <2>1. a \in nextAlarm..(nextAlarm + Len(reminders) - 1)
    BY <1>2, <1>4
  <2>2. reminders[a - nextAlarm + 1] \in Time
    BY <1>1, <2>1
  <2>3. nextAlarm \in AlarmId
    BY <1>1, <2>1 DEF HasRoom
  <2> QED BY <2>1, <2>2, <2>3 DEF NewAlarms, AlarmRow
<1> QED BY <1>1, <1>2, <1>3, <1>4 DEF HasRoom

\* Deleting any ids and inserting a reminder list keeps the table well typed.
LEMMA ReplaceAlarmsType ==
  ASSUME CalendarTypeOK, NEW e \in EventId, NEW gone,
         NEW reminders \in Seq(Time), HasRoom(reminders)
  PROVE  ReplaceAlarms(gone, NewAlarms(e, reminders)) \in [AlarmId -> AlarmRow \cup {Null}]
<1> DEFINE new == NewAlarms(e, reminders)
<1>1. \A a \in DOMAIN new : new[a] \in AlarmRow
  BY NewAlarmsType DEF CalendarTypeOK
<1> HIDE DEF new
<1> QED BY <1>1 DEF ReplaceAlarms, CalendarTypeOK, new

-----------------------------------------------------------------------------
(* Types.                                                                  *)

\* What a request in flight carries, by the stage it has got to.
LEMMA CallType ==
  ASSUME CalendarTypeOK, NEW r \in Request
  PROVE  /\ call[r].op \in {"idle", "create", "update", "commit"}
         /\ call[r].op = "create" => call[r] \in CreateCall
         /\ call[r].op \in {"update", "commit"} => call[r] \in UpdateCall
BY DEF CalendarTypeOK, CreateCall, UpdateCall, Idle

\* The commit of an update, when its row is there.
LEMMA CommitType ==
  ASSUME CalendarTypeOK, NEW r \in Request, Commit(r), event[call[r].event] # Null
  PROVE  CalendarTypeOK'
<1> DEFINE c == call[r]
           e == c.event
<1> USE DEF CalendarTypeOK
<1>1. c \in UpdateCall /\ e \in EventId /\ event[e] \in EventRow
  BY CallType DEF Commit, UpdateCall
<1>2. event' \in [EventId -> EventRow \cup {Null}]
  <2>1. Given(c.start, event[e].start) \in Time
    BY <1>1 DEF Given, UpdateCall, EventRow
  <2>2. Given(c.end, event[e].end) \in Time \cup {Null}
    BY <1>1 DEF Given, UpdateCall, EventRow
  <2> QED BY <1>1, <2>1, <2>2 DEF Commit, EventRow
<1>3. alarm' \in [AlarmId -> AlarmRow \cup {Null}] /\ nextAlarm' \in 1..(MaxAlarm + 1)
  <2>1. CASE c.alarms = Absent
    BY <2>1 DEF Commit
  <2>2. CASE c.alarms # Absent
    <3>1. c.alarms \in Seq(Time)
      BY <1>1, <2>2 DEF UpdateCall
    <3>2. PutReminders(e, PendingOf(e), c.alarms)
      BY <2>2 DEF Commit, ReplaceReminders
    <3> HIDE DEF c, e
    <3> QED BY <1>1, <3>1, <3>2, NewAlarmsType, ReplaceAlarmsType DEF PutReminders
  <2> QED BY <2>1, <2>2
<1>4. call' \in [Request -> {Idle} \cup CreateCall \cup UpdateCall]
  BY DEF Commit
<1> QED BY <1>2, <1>3, <1>4 DEF Commit

\* The insert of a created event.
LEMMA InsertType ==
  ASSUME CalendarTypeOK, NEW r \in Request, InsertEvent(r)
  PROVE  CalendarTypeOK'
<1> USE DEF CalendarTypeOK
<1>1. call[r] \in CreateCall /\ nextEvent \in EventId
  BY CallType DEF InsertEvent
<1>2. event' \in [EventId -> EventRow \cup {Null}]
  BY <1>1 DEF InsertEvent, EventRow, CreateCall
<1>3. alarm' \in [AlarmId -> AlarmRow \cup {Null}] /\ nextAlarm' \in 1..(MaxAlarm + 1)
  <2>1. call[r].alarms \in Seq(Time)
    BY <1>1 DEF CreateCall
  <2> QED BY <1>1, <2>1, NewAlarmsType, ReplaceAlarmsType DEF InsertEvent
<1> QED BY <1>1, <1>2, <1>3 DEF InsertEvent

\* Every step of the calendar and every outcome the worker may record keeps
\* the types.
LEMMA TypeStep ==
  ASSUME CalendarTypeOK, CommitIsSafe, [CalendarNext]_calendarVars
  PROVE  CalendarTypeOK'
<1>1. ASSUME NEW r \in Request, RequestStep(r) PROVE CalendarTypeOK'
  <2>1. ASSUME NEW c \in CreateInput, SubmitCreate(r, c) PROVE CalendarTypeOK'
    BY <2>1 DEF SubmitCreate, CalendarTypeOK
  <2>2. ASSUME NEW c \in UpdateInput, SubmitUpdate(r, c) PROVE CalendarTypeOK'
    BY <2>2 DEF SubmitUpdate, CalendarTypeOK
  <2>3. CASE InsertEvent(r)
    BY <2>3, InsertType
  <2>4. CASE LockRow(r)
    <3>1. call[r] \in UpdateCall
      BY <2>4, CallType DEF LockRow
    <3>2. [call[r] EXCEPT !.op = "commit"] \in UpdateCall
      BY <3>1 DEF UpdateCall
    <3> QED BY <2>4, <3>2 DEF LockRow, ReadRow, CalendarTypeOK
  <2>5. CASE Commit(r)
    BY <2>5, CommitType DEF CommitIsSafe, Commit
  <2>6. CASE Fail(r)
    BY <2>6 DEF Fail, CalendarTypeOK
  <2> QED BY <1>1, <2>1, <2>2, <2>3, <2>4, <2>5, <2>6 DEF RequestStep
<1>2. ASSUME NEW u \in User, NEW e \in EventId, Remove(u, e) PROVE CalendarTypeOK'
  BY <1>2 DEF Remove, CalendarTypeOK
<1>3. ASSUME NEW sent, NEW failed, RecordOutcome(sent, failed) PROVE CalendarTypeOK'
  BY <1>3 DEF RecordOutcome, RecordStatus, IsPending, AlarmRow, CalendarTypeOK
<1>4. CASE PassTime
  BY <1>4 DEF PassTime, CalendarTypeOK
<1>5. CASE UNCHANGED calendarVars
  BY <1>5 DEF calendarVars, CalendarTypeOK
<1> QED BY <1>1, <1>2, <1>3, <1>4, <1>5 DEF CalendarNext, CalendarStep

-----------------------------------------------------------------------------
(* The range of an event.  RangeValid is not inductive: it needs that what *)
(* a create has validated is kept until its insert, and that what an       *)
(* update has read stays true under the row lock.                          *)

CreateIsSafe ==
  \A r \in Request :
    call[r].op = "create" => InRange(call[r].start, call[r].end)

\* Ids are never used twice.
FreshIds ==
  /\ \A e \in EventId : e >= nextEvent => event[e] = Null
  /\ \A a \in AlarmId : alarm[a] # Null => alarm[a].event < nextEvent

CalendarInv == CalendarTypeOK /\ FreshIds /\ CreateIsSafe /\ CommitIsSafe /\ RangeValid

LEMMA CreateStep ==
  ASSUME CalendarInv, [CalendarNext]_calendarVars PROVE CreateIsSafe'
<1> USE DEF CalendarInv, CreateIsSafe, CalendarTypeOK, InRange
<1>1. ASSUME NEW r \in Request, RequestStep(r) PROVE CreateIsSafe'
  <2>1. ASSUME NEW c \in CreateInput, SubmitCreate(r, c) PROVE CreateIsSafe'
    BY <2>1 DEF SubmitCreate
  <2>2. ASSUME NEW c \in UpdateInput, SubmitUpdate(r, c) PROVE CreateIsSafe'
    BY <2>2 DEF SubmitUpdate
  <2>3. CASE LockRow(r)
    <3>1. call[r] \in UpdateCall /\ call'[r].op = "commit"
      BY <2>3, CallType DEF LockRow, ReadRow, UpdateCall
    <3> QED BY <2>3, <3>1 DEF LockRow, ReadRow
  <2>4. CASE call' = [call EXCEPT ![r] = Idle]
    BY <2>4 DEF Idle
  <2> QED BY <1>1, <2>1, <2>2, <2>3, <2>4 DEF RequestStep, InsertEvent, Commit, Fail
<1>2. ASSUME call' = call PROVE CreateIsSafe'
  BY <1>2
<1> QED BY <1>1, <1>2 DEF CalendarNext, CalendarStep, Remove, RecordOutcome, PassTime,
           calendarVars

\* A step that leaves the rows of all the locked events alone, and the calls
\* as they are or one of them ended, keeps the promise of the row lock.
LEMMA CommitFrame ==
  ASSUME CommitIsSafe, CalendarTypeOK,
         \A q \in Request : call'[q].op = "commit" =>
            call'[q] = call[q] /\ event'[call[q].event] = event[call[q].event]
  PROVE  CommitIsSafe'
BY DEF CommitIsSafe, CalendarTypeOK, InRange, Given

LEMMA CommitStep ==
  ASSUME CalendarInv, [CalendarNext]_calendarVars PROVE CommitIsSafe'
<1> USE DEF CalendarInv
<1>1. ASSUME NEW r \in Request, RequestStep(r) PROVE CommitIsSafe'
  <2>1. CASE call' = [call EXCEPT ![r] = Idle] /\ event' = event
    BY <2>1, CommitFrame DEF Idle, CalendarTypeOK
  <2>2. ASSUME NEW c,
               \/ c \in CreateInput /\ SubmitCreate(r, c)
               \/ c \in UpdateInput /\ SubmitUpdate(r, c)
        PROVE  CommitIsSafe'
    <3>1. event' = event
      BY <2>2 DEF SubmitCreate, SubmitUpdate
    <3>2. c.op # "commit"
      BY <2>2 DEF CreateCall
    <3>3. \A q \in Request : call'[q].op = "commit" => call'[q] = call[q]
      BY <2>2, <3>2 DEF SubmitCreate, SubmitUpdate, CalendarTypeOK
    <3> QED BY <3>1, <3>3, CommitFrame
  <2>3. CASE InsertEvent(r)
    <3>1. \A q \in Request : call[q].op = "commit" =>
            call[q].event # nextEvent /\ call[q].event \in EventId
      BY <2>3, CallType DEF CommitIsSafe, FreshIds, CalendarTypeOK, InsertEvent, UpdateCall
    <3>2. \A q \in Request : call'[q].op = "commit" => call'[q] = call[q]
      BY <2>3 DEF InsertEvent, Idle, CalendarTypeOK
    <3>3. \A e \in EventId : e # nextEvent => event'[e] = event[e]
      BY <2>3 DEF InsertEvent, CalendarTypeOK
    <3> QED BY <3>1, <3>2, <3>3, CommitFrame DEF CalendarTypeOK
  <2>4. CASE LockRow(r)
    <3> SUFFICES ASSUME NEW q \in Request, call'[q].op = "commit"
                 PROVE  LET c == call'[q]
                            current == event'[c.event]
                        IN /\ current # Null
                           /\ InRange(Given(c.start, current.start), Given(c.end, current.end))
                           /\ \A p \in Request :
                                call'[p].op = "commit" /\ call'[p].event = c.event => p = q
      BY DEF CommitIsSafe, InRange, Given
    <3>1. call[r] \in UpdateCall /\ call'[r] \in UpdateCall /\ event' = event
      BY <2>4, CallType DEF LockRow, ReadRow, CalendarTypeOK, UpdateCall
    <3>2. call'[r].event = call[r].event /\ call'[r].start = call[r].start
          /\ call'[r].end = call[r].end
      BY <2>4, <3>1 DEF LockRow, ReadRow, CalendarTypeOK, UpdateCall
    <3>3. \A p \in Request \ {r} : call'[p] = call[p]
      BY <2>4 DEF LockRow, ReadRow, CalendarTypeOK
    <3>4. \A p \in Request \ {r} : call[p].op = "commit" => call[p].event # call[r].event
      BY <2>4 DEF LockRow, Locked
    <3>5. CASE q = r
      BY <2>4, <3>1, <3>2, <3>3, <3>4, <3>5 DEF LockRow, ReadRow
    <3>6. CASE q # r
      BY <3>1, <3>2, <3>3, <3>4, <3>6 DEF CommitIsSafe
    <3> QED BY <3>5, <3>6
  <2>5. CASE Commit(r)
    <3>1. \A q \in Request : call'[q].op = "commit" => q # r /\ call'[q] = call[q]
      BY <2>5 DEF Commit, Idle, CalendarTypeOK
    <3>2. \A q \in Request \ {r} : call[q].op = "commit" => call[q].event # call[r].event
      BY <2>5 DEF Commit, CommitIsSafe
    <3>3. \A e \in EventId : e # call[r].event => event'[e] = event[e]
      BY <2>5 DEF Commit, CalendarTypeOK
    <3>4. \A q \in Request : call[q].op = "commit" => call[q].event \in EventId
      BY CallType DEF UpdateCall
    <3> QED BY <3>1, <3>2, <3>3, <3>4, CommitFrame
  <2> QED BY <1>1, <2>1, <2>2, <2>3, <2>4, <2>5 DEF RequestStep, Fail
<1>2. ASSUME NEW u \in User, NEW e \in EventId, Remove(u, e) PROVE CommitIsSafe'
  <2>1. \A q \in Request : call[q].op = "commit" => call[q].event # e
    BY <1>2 DEF Remove, Locked
  <2>2. \A d \in EventId : d # e => event'[d] = event[d]
    BY <1>2 DEF Remove, CalendarTypeOK
  <2>3. \A q \in Request : call[q].op = "commit" => call[q].event \in EventId
    BY CallType DEF UpdateCall
  <2> QED BY <1>2, <2>1, <2>2, <2>3, CommitFrame DEF Remove
<1>3. CASE call' = call /\ event' = event
  BY <1>3, CommitFrame
<1> QED BY <1>1, <1>2, <1>3 DEF CalendarNext, CalendarStep, RecordOutcome, PassTime,
           calendarVars

LEMMA RangeStep ==
  ASSUME CalendarInv, [CalendarNext]_calendarVars PROVE RangeValid'
<1> USE DEF CalendarInv, RangeValid, InRange
<1>1. ASSUME NEW r \in Request, InsertEvent(r) PROVE RangeValid'
  BY <1>1, CallType DEF InsertEvent, CreateIsSafe, CalendarTypeOK, CreateCall
<1>2. ASSUME NEW r \in Request, Commit(r) PROVE RangeValid'
  <2>1. call[r] \in UpdateCall /\ event[call[r].event] \in EventRow
    BY <1>2, CallType DEF Commit, CommitIsSafe, CalendarTypeOK, UpdateCall
  <2> QED BY <1>2, <2>1 DEF Commit, CommitIsSafe, CalendarTypeOK, EventRow, UpdateCall
<1>3. ASSUME NEW u \in User, NEW e \in EventId, Remove(u, e) PROVE RangeValid'
  BY <1>3 DEF Remove, CalendarTypeOK
<1>4. CASE event' = event
  BY <1>4
<1> QED BY <1>1, <1>2, <1>3, <1>4 DEF CalendarNext, CalendarStep, RequestStep, SubmitCreate,
           SubmitUpdate, LockRow, ReadRow, Fail, RecordOutcome, PassTime, calendarVars

LEMMA FreshStep ==
  ASSUME CalendarInv, [CalendarNext]_calendarVars PROVE FreshIds'
<1> USE DEF CalendarInv, FreshIds
<1>1. ASSUME NEW r \in Request, InsertEvent(r) PROVE FreshIds'
  <2>1. call[r].alarms \in Seq(Time) /\ HasRoom(call[r].alarms) /\ nextEvent \in EventId
    BY <1>1, CallType DEF InsertEvent, CreateCall, CalendarTypeOK
  <2>2. \A a \in DOMAIN NewAlarms(nextEvent, call[r].alarms) :
          NewAlarms(nextEvent, call[r].alarms)[a].event = nextEvent
    BY <2>1, NewAlarmsType DEF CalendarTypeOK
  <2>3. \A a \in AlarmId : alarm'[a] # Null => alarm'[a].event < nextEvent'
    BY <1>1, <2>2 DEF InsertEvent, ReplaceAlarms, CalendarTypeOK, AlarmRow
  <2>4. ASSUME NEW e \in EventId, e >= nextEvent' PROVE event'[e] = Null
    <3>1. e # nextEvent /\ e >= nextEvent
      BY <1>1, <2>1, <2>4 DEF InsertEvent
    <3>2. event'[e] = event[e]
      BY <1>1, <3>1 DEF InsertEvent, CalendarTypeOK
    <3> QED BY <3>1, <3>2
  <2> QED BY <2>3, <2>4
<1>2. ASSUME NEW r \in Request, Commit(r) PROVE FreshIds'
  <2>1. call[r] \in UpdateCall /\ call[r].event \in EventId /\ call[r].event < nextEvent
    BY <1>2, CallType DEF Commit, CommitIsSafe, UpdateCall, CalendarTypeOK
  <2>2. \A e \in EventId : e >= nextEvent' => event'[e] = Null
    BY <1>2, <2>1 DEF Commit, CalendarTypeOK
  <2>3. CASE call[r].alarms = Absent
    BY <1>2, <2>2, <2>3 DEF Commit
  <2>4. CASE call[r].alarms # Absent
    <3>1. call[r].alarms \in Seq(Time)
      BY <2>1, <2>4 DEF UpdateCall
    <3>2. PutReminders(call[r].event, PendingOf(call[r].event), call[r].alarms)
      BY <1>2, <2>4 DEF Commit, ReplaceReminders
    <3>3. \A a \in DOMAIN NewAlarms(call[r].event, call[r].alarms) :
            NewAlarms(call[r].event, call[r].alarms)[a].event = call[r].event
      BY <2>1, <3>1, <3>2, NewAlarmsType DEF PutReminders, CalendarTypeOK
    <3>4. \A a \in AlarmId : alarm'[a] # Null => alarm'[a].event < nextEvent'
      BY <1>2, <2>1, <3>2, <3>3 DEF Commit, PutReminders, ReplaceAlarms, CalendarTypeOK
    <3> QED BY <2>2, <3>4
  <2> QED BY <2>3, <2>4
<1>3. ASSUME NEW u \in User, NEW e \in EventId, Remove(u, e) PROVE FreshIds'
  BY <1>3 DEF Remove, CalendarTypeOK
<1>4. ASSUME NEW sent, NEW failed, RecordOutcome(sent, failed) PROVE FreshIds'
  BY <1>4 DEF RecordOutcome, RecordStatus, IsPending, CalendarTypeOK, AlarmRow
<1>5. CASE event' = event /\ alarm' = alarm /\ nextEvent' = nextEvent
  BY <1>5
<1> QED BY <1>1, <1>2, <1>3, <1>4, <1>5 DEF CalendarNext, CalendarStep, RequestStep,
           SubmitCreate, SubmitUpdate, LockRow, ReadRow, Fail, PassTime, calendarVars

LEMMA InvInit == CalendarInit => CalendarInv
BY DEF CalendarInit, CalendarInv, CalendarTypeOK, FreshIds, CreateIsSafe, CommitIsSafe,
       RangeValid, Idle

LEMMA InvStep == CalendarInv /\ [CalendarNext]_calendarVars => CalendarInv'
BY TypeStep, FreshStep, CreateStep, CommitStep, RangeStep DEF CalendarInv

LEMMA InvAlways == CalendarSpec => []CalendarInv
BY InvInit, InvStep, PTL DEF CalendarSpec

\* The tables, the id counters and the requests in flight keep their types.
THEOREM TypeCorrect == CalendarSpec => []CalendarTypeOK
BY InvAlways, PTL DEF CalendarInv

\* No sequence of creates, concurrent partial updates and removals leaves an
\* event that ends before it starts.
THEOREM RangeAlwaysValid == CalendarSpec => []RangeValid
BY InvAlways, PTL DEF CalendarInv

\* What update() reads under FOR UPDATE is still true when it writes.
THEOREM CommitAlwaysSafe == CalendarSpec => []CommitIsSafe
BY InvAlways, PTL DEF CalendarInv

-----------------------------------------------------------------------------
(* The reminders of an event.                                              *)

\* After a replacement the PENDING rows of the event are the new ones.
LEMMA ReplacedPending ==
  ASSUME CalendarTypeOK, NEW e \in EventId, NEW reminders \in Seq(Time),
         PutReminders(e, PendingOf(e), reminders), NEW a \in AlarmId,
         alarm'[a] # Null
  PROVE  \/ alarm'[a].event = e /\ alarm'[a].list = nextAlarm
         \/ alarm'[a] = alarm[a] /\ ~(IsPending(a) /\ alarm[a].event = e)
<1>1. \A b \in DOMAIN NewAlarms(e, reminders) :
        /\ NewAlarms(e, reminders)[b].event = e
        /\ NewAlarms(e, reminders)[b].list = nextAlarm
  BY NewAlarmsType DEF PutReminders, CalendarTypeOK
<1> QED BY <1>1 DEF PutReminders, ReplaceAlarms, PendingOf

LEMMA PendingStep ==
  ASSUME CalendarInv, PendingFromOneRequest, [CalendarNext]_calendarVars
  PROVE  PendingFromOneRequest'
<1> USE DEF CalendarInv
<1>1. ASSUME NEW r \in Request, InsertEvent(r) PROVE PendingFromOneRequest'
  <2>1. call[r].alarms \in Seq(Time) /\ HasRoom(call[r].alarms) /\ nextEvent \in EventId
    BY <1>1, CallType DEF InsertEvent, CreateCall, CalendarTypeOK
  <2>2. \A a \in DOMAIN NewAlarms(nextEvent, call[r].alarms) :
          /\ NewAlarms(nextEvent, call[r].alarms)[a].event = nextEvent
          /\ NewAlarms(nextEvent, call[r].alarms)[a].list = nextAlarm
    BY <2>1, NewAlarmsType DEF CalendarTypeOK
  <2>3. \A a \in AlarmId : alarm'[a] # Null =>
          \/ alarm'[a].event = nextEvent /\ alarm'[a].list = nextAlarm
          \/ alarm'[a] = alarm[a] /\ alarm[a].event # nextEvent
    BY <1>1, <2>2 DEF InsertEvent, ReplaceAlarms, FreshIds, CalendarTypeOK, AlarmRow
  <2> QED BY <2>3 DEF PendingFromOneRequest, IsPending
<1>2. ASSUME NEW r \in Request, Commit(r), call[r].alarms # Absent
      PROVE  PendingFromOneRequest'
  <2>1. call[r].event \in EventId /\ call[r].alarms \in Seq(Time)
    BY <1>2, CallType DEF Commit, UpdateCall
  <2>2. PutReminders(call[r].event, PendingOf(call[r].event), call[r].alarms)
    BY <1>2 DEF Commit, ReplaceReminders
  <2>3. \A a \in AlarmId : alarm'[a] # Null =>
          \/ alarm'[a].event = call[r].event /\ alarm'[a].list = nextAlarm
          \/ alarm'[a] = alarm[a] /\ ~(IsPending(a) /\ alarm[a].event = call[r].event)
    BY <2>1, <2>2, ReplacedPending
  <2> QED BY <2>3 DEF PendingFromOneRequest, IsPending
<1>3. ASSUME NEW u \in User, NEW e \in EventId, Remove(u, e)
      PROVE  PendingFromOneRequest'
  BY <1>3 DEF Remove, PendingFromOneRequest, IsPending
<1>4. ASSUME NEW sent, NEW failed, RecordOutcome(sent, failed)
      PROVE  PendingFromOneRequest'
  BY <1>4 DEF RecordOutcome, RecordStatus, PendingFromOneRequest, IsPending,
              CalendarTypeOK, AlarmRow
<1>5. CASE alarm' = alarm
  BY <1>5 DEF PendingFromOneRequest, IsPending
<1> QED BY <1>1, <1>2, <1>3, <1>4, <1>5 DEF CalendarNext, CalendarStep, RequestStep,
           SubmitCreate, SubmitUpdate, LockRow, ReadRow, Commit, Fail, PassTime,
           calendarVars

\* However creates, updates and deliveries interleave, the PENDING reminders of
\* an event are never a mix of the lists of two requests.
THEOREM PendingAlwaysFromOneRequest == CalendarSpec => []PendingFromOneRequest
<1>1. CalendarInit => PendingFromOneRequest
  BY DEF CalendarInit, PendingFromOneRequest, IsPending
<1>2. CalendarInv /\ PendingFromOneRequest /\ [CalendarNext]_calendarVars
        => PendingFromOneRequest'
  BY PendingStep
<1> QED BY <1>1, <1>2, InvAlways, PTL DEF CalendarSpec

-----------------------------------------------------------------------------
(* History.                                                                *)

LEMMA HistoryStep ==
  ASSUME CalendarInv, [CalendarNext]_calendarVars, NEW a \in AlarmId,
         nextAlarm > a \/ alarm[a] = Null, alarm[a] # Null, ~IsPending(a)
  PROVE  \/ alarm'[a] = alarm[a]
         \/ event[alarm[a].event] # Null /\ event'[alarm[a].event] = Null
<1> USE DEF CalendarInv
<1>1. ASSUME NEW r \in Request, InsertEvent(r) PROVE alarm'[a] = alarm[a]
  <2>1. call[r].alarms \in Seq(Time)
    BY <1>1, CallType DEF InsertEvent, CreateCall
  <2>2. a \notin DOMAIN NewAlarms(nextEvent, call[r].alarms)
    BY <2>1 DEF NewAlarms, CalendarTypeOK
  <2> QED BY <1>1, <2>2 DEF InsertEvent, ReplaceAlarms
<1>2. ASSUME NEW r \in Request, Commit(r) PROVE alarm'[a] = alarm[a]
  <2>1. CASE call[r].alarms = Absent
    BY <1>2, <2>1 DEF Commit
  <2>2. CASE call[r].alarms # Absent
    <3>1. call[r].alarms \in Seq(Time)
      BY <1>2, <2>2, CallType DEF Commit, UpdateCall
    <3>2. a \notin DOMAIN NewAlarms(call[r].event, call[r].alarms)
      BY <3>1 DEF NewAlarms, CalendarTypeOK
    <3>3. PutReminders(call[r].event, PendingOf(call[r].event), call[r].alarms)
      BY <1>2, <2>2 DEF Commit, ReplaceReminders
    <3> QED BY <3>2, <3>3 DEF PutReminders, ReplaceAlarms, PendingOf
  <2> QED BY <2>1, <2>2
<1>3. ASSUME NEW u \in User, NEW e \in EventId, Remove(u, e)
      PROVE  \/ alarm'[a] = alarm[a]
             \/ event[alarm[a].event] # Null /\ event'[alarm[a].event] = Null
  BY <1>3 DEF Remove, CalendarTypeOK, AlarmRow
<1>4. ASSUME NEW sent, NEW failed, RecordOutcome(sent, failed)
      PROVE  alarm'[a] = alarm[a]
  BY <1>4 DEF RecordOutcome, RecordStatus
<1>5. CASE alarm' = alarm
  BY <1>5
<1> QED BY <1>1, <1>2, <1>3, <1>4, <1>5 DEF CalendarNext, CalendarStep, RequestStep,
           SubmitCreate, SubmitUpdate, LockRow, ReadRow, Fail, PassTime, calendarVars

\* Ids of alarms that have rows lie below the counter.
FreshAlarms == \A a \in AlarmId : nextAlarm > a \/ alarm[a] = Null

LEMMA FreshAlarmStep ==
  ASSUME CalendarInv, FreshAlarms, [CalendarNext]_calendarVars PROVE FreshAlarms'
<1> USE DEF CalendarInv, FreshAlarms
<1>1. ASSUME NEW e \in EventId, NEW reminders \in Seq(Time), NEW gone,
             HasRoom(reminders),
             alarm' = ReplaceAlarms(gone, NewAlarms(e, reminders)),
             nextAlarm' = nextAlarm + Len(reminders)
      PROVE  FreshAlarms'
  <2>1. Len(reminders) \in Nat /\ nextAlarm \in Int
    BY DEF CalendarTypeOK
  <2>2. ASSUME NEW a \in AlarmId, a \in DOMAIN NewAlarms(e, reminders)
        PROVE  nextAlarm' > a
    BY <1>1, <2>1, <2>2, NewAlarmsType DEF CalendarTypeOK
  <2>3. ASSUME NEW a \in AlarmId, a \notin DOMAIN NewAlarms(e, reminders)
        PROVE  nextAlarm' > a \/ alarm'[a] = Null
    BY <1>1, <2>1, <2>3 DEF ReplaceAlarms
  <2> QED BY <2>2, <2>3
<1>2. ASSUME NEW r \in Request, InsertEvent(r) PROVE FreshAlarms'
  <2>1. call[r].alarms \in Seq(Time) /\ nextEvent \in EventId
    BY <1>2, CallType DEF InsertEvent, CreateCall, CalendarTypeOK
  <2> QED BY <1>1, <1>2, <2>1 DEF InsertEvent
<1>3. ASSUME NEW r \in Request, Commit(r), call[r].alarms # Absent PROVE FreshAlarms'
  <2>1. call[r].alarms \in Seq(Time) /\ call[r].event \in EventId
    BY <1>3, CallType DEF Commit, UpdateCall
  <2> QED BY <1>1, <1>3, <2>1 DEF Commit, ReplaceReminders, PutReminders
<1>4. ASSUME NEW u \in User, NEW e \in EventId, Remove(u, e) PROVE FreshAlarms'
  BY <1>4 DEF Remove
<1>5. ASSUME NEW sent, NEW failed, RecordOutcome(sent, failed) PROVE FreshAlarms'
  BY <1>5 DEF RecordOutcome, RecordStatus, IsPending
<1>6. CASE UNCHANGED <<alarm, nextAlarm>>
  BY <1>6
<1> QED BY <1>2, <1>3, <1>4, <1>5, <1>6 DEF CalendarNext, CalendarStep, RequestStep,
           SubmitCreate, SubmitUpdate, LockRow, ReadRow, Commit, Fail, PassTime,
           calendarVars

LEMMA FreshAlarmsAlways == CalendarSpec => []FreshAlarms
<1>1. CalendarInit => FreshAlarms
  BY DEF CalendarInit, FreshAlarms
<1>2. CalendarInv /\ FreshAlarms /\ [CalendarNext]_calendarVars => FreshAlarms'
  BY FreshAlarmStep
<1> QED BY <1>1, <1>2, InvAlways, PTL DEF CalendarSpec

\* A SENT or FAILED alarm never changes, and it leaves the table only in the
\* step that removes its event (calendar.service.ts:186-187).
THEOREM HistoryAlwaysKept == CalendarSpec => HistoryKept
<1>1. CalendarInv /\ FreshAlarms /\ [CalendarNext]_calendarVars =>
        [ \A a \in AlarmId :
            alarm[a] # Null /\ ~IsPending(a) =>
              \/ alarm'[a] = alarm[a]
              \/ event[alarm[a].event] # Null /\ event'[alarm[a].event] = Null
        ]_calendarVars
  BY HistoryStep DEF FreshAlarms
<1> QED BY <1>1, InvAlways, FreshAlarmsAlways, PTL DEF CalendarSpec, HistoryKept

\* Requests write PENDING rows only, and these under new ids; no other row of theirs
\* changes but to go.
LEMMA RequestsWritePending ==
  ASSUME CalendarInv, CalendarStep, NEW a \in AlarmId
  PROVE  /\ nextAlarm' >= nextAlarm
         /\ \/ alarm'[a] \in {alarm[a], Null}
            \/ a >= nextAlarm /\ alarm'[a].status = "PENDING"
<1> DEFINE Writes == /\ nextAlarm' >= nextAlarm
                     /\ \/ alarm'[a] \in {alarm[a], Null}
                        \/ a >= nextAlarm /\ alarm'[a].status = "PENDING"
<1>1. nextAlarm \in Int
  BY DEF CalendarInv, CalendarTypeOK
<1>2. ASSUME NEW e \in EventId, NEW reminders \in Seq(Time), NEW gone,
             HasRoom(reminders),
             alarm' = ReplaceAlarms(gone, NewAlarms(e, reminders)),
             nextAlarm' = nextAlarm + Len(reminders)
      PROVE  Writes
  <2> DEFINE new == NewAlarms(e, reminders)
  <2>1. Len(reminders) \in Nat
    OBVIOUS
  <2>2. \A b \in DOMAIN new : b >= nextAlarm /\ new[b].status = "PENDING"
    BY <1>1, <2>1 DEF NewAlarms
  <2>3. alarm'[a] \in {alarm[a], Null} \/ (a \in DOMAIN new /\ alarm'[a] = new[a])
    BY <1>2 DEF ReplaceAlarms
  <2> HIDE DEF new
  <2> QED BY <1>1, <1>2, <2>1, <2>2, <2>3
<1>3. ASSUME NEW r \in Request, InsertEvent(r) PROVE Writes
  <2>1. call[r].alarms \in Seq(Time) /\ nextEvent \in EventId
    BY <1>3, CallType DEF InsertEvent, CreateCall, CalendarTypeOK, CalendarInv
  <2> QED BY <1>2, <1>3, <2>1 DEF InsertEvent
<1>4. ASSUME NEW r \in Request, Commit(r), call[r].alarms # Absent PROVE Writes
  <2>1. call[r].alarms \in Seq(Time) /\ call[r].event \in EventId
    BY <1>4, CallType DEF Commit, UpdateCall, CalendarInv
  <2> QED BY <1>2, <1>4, <2>1 DEF Commit, ReplaceReminders, PutReminders
<1>5. ASSUME NEW u \in User, NEW e \in EventId, Remove(u, e) PROVE Writes
  BY <1>1, <1>5 DEF Remove
<1>6. CASE UNCHANGED <<alarm, nextAlarm>>
  BY <1>1, <1>6
<1> QED BY <1>3, <1>4, <1>5, <1>6 DEF CalendarStep, RequestStep,
           SubmitCreate, SubmitUpdate, LockRow, ReadRow, Commit, Fail, PassTime
=============================================================================
