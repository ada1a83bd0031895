-------------------------- MODULE AlarmWorkerProofs --------------------------
(***************************************************************************)
(* The alarm worker, proved for every number of ticks, instances, devices  *)
(* and reminders, and for every set of faults: it is one of the worlds     *)
(* CalendarProofs speaks of, what it records did happen, and without       *)
(* overruns its lock is a lease.                                           *)
(***************************************************************************)
EXTENDS AlarmWorker, CalendarProofs

USE WorkerAssumption DEF AlarmId, Target

-----------------------------------------------------------------------------
(* The worker implements the calendar's view of it.                        *)

\* A tick changes the tables of the calendar by its transaction alone.
LEMMA TickKeepsCalendar ==
  ASSUME NEW t \in Tick, TickStep(t)
  PROVE  Store(t) \/ UNCHANGED calendarVars
BY DEF TickStep, Begin, BeginUnseen, Release, Crash, QueryFails, FindAlarms,
       FindEvents, FindDevices, GetToken, TokenRefused, Answer, Accepted, AcceptedUnheard,
       Disowned, Refused, Unavailable, Unauthorized

LEMMA StoreIsRecordOutcome ==
  ASSUME NEW t \in Tick, Store(t)
  PROVE  CalendarNext
<1> DEFINE sent == SentIds(t) \cap AlarmId
           failed == (FailedIds(t) \cap AlarmId) \ sent
<1>1. RecordStatus(sent, failed)
  BY DEF Store, RecordOutcome, RecordStatus
<1>2. RecordOutcome(sent, failed)
  BY <1>1 DEF Store, RecordOutcome
<1>3. sent \in SUBSET AlarmId /\ failed \in SUBSET (AlarmId \ sent)
  OBVIOUS
<1> HIDE DEF sent, failed
<1> QED BY <1>2, <1>3 DEF CalendarNext

LEMMA StepIsCalendarStep ==
  ASSUME [Next]_vars
  PROVE  [CalendarNext]_calendarVars
<1>1. CASE CalendarStep /\ UNCHANGED workerVars
  BY <1>1 DEF CalendarNext
<1>2. CASE DeviceStep
  BY <1>2 DEF DeviceStep, Register, Unregister, Uninstall
<1>3. ASSUME NEW t \in Tick, TickStep(t) PROVE [CalendarNext]_calendarVars
  BY <1>3, TickKeepsCalendar, StoreIsRecordOutcome
<1>4. CASE (\E i \in Instance : TokenExpires(i) \/ Revoke(i)) \/ Expire
  BY <1>4 DEF TokenExpires, Revoke, Expire
<1>5. CASE UNCHANGED vars
  BY <1>5 DEF vars, calendarVars
<1> QED BY <1>1, <1>2, <1>3, <1>4, <1>5 DEF Next

\* Whatever the ticks do, the calendar sees it as RecordOutcome: every theorem
\* of CalendarProofs holds of the whole system.
THEOREM ImplementsCalendar == Spec => CalendarSpec
<1>1. Init => CalendarInit
  BY DEF Init
<1> QED BY <1>1, StepIsCalendarStep, PTL DEF Spec, CalendarSpec

\* Nothing the worker does, faults included, changes or deletes a row of the
\* history.
THEOREM WorkerKeepsHistory == Spec => HistoryKept
BY ImplementsCalendar, HistoryAlwaysKept, PTL

LEMMA WorkerKeepsCalendar == Spec => [](CalendarInv /\ FreshAlarms)
BY ImplementsCalendar, InvAlways, FreshAlarmsAlways, PTL

-----------------------------------------------------------------------------
(* What is recorded did happen.  SentMeansDelivered is not inductive: the  *)
(* answers a tick carries to its transaction must be what FCM did, however *)
(* late the transaction comes.                                             *)

Sending(t) == tick[t].stage \in {"token", "push", "store"}

\* A tick carries a batch, the targets of it, and answers of FCM to those.
Carries(t) ==
  /\ tick[t].stage \in {"idle", "find", "events", "devices", "token", "push", "store", "release"}
  /\ tick[t].stage \in {"events", "devices"} \/ Sending(t) =>
       DOMAIN tick[t].batch \subseteq AlarmId
  /\ Sending(t) =>
       /\ DOMAIN tick[t] = {"stage", "batch", "targets", "result", "access"}
       /\ tick[t].targets \subseteq (DOMAIN tick[t].batch) \X Device
       /\ DOMAIN tick[t].result \subseteq tick[t].targets
       /\ tick[t].stage = "token" => DOMAIN tick[t].result = {}
       /\ \A p \in DOMAIN tick[t].result :
            /\ tick[t].result[p] = "SENT" => p \in taken
            /\ tick[t].result[p] = "UNREGISTERED" => p[2] \in dead

AnswersTrue ==
  /\ DOMAIN tick = Tick
  /\ pushed \in [Target -> 0..2]
  /\ \A t \in Tick : Carries(t)

\* Ticks a step does not touch keep their answers, and answers stay true.
LEMMA OthersCarry ==
  ASSUME AnswersTrue, NEW t \in Tick, tick'[t] = tick[t],
         taken \subseteq taken', dead \subseteq dead'
  PROVE  Carries(t)'
BY DEF AnswersTrue, Carries, Sending

LEMMA AnswerStep ==
  ASSUME AnswersTrue, NEW t \in Tick, NEW p \in Target, Answer(t, p)
  PROVE  AnswersTrue'
<1>1. /\ tick[t].stage = "push" /\ p \in tick[t].targets /\ dead' = dead
      /\ \E r \in Results :
           /\ SetResult(t, p, r)
           /\ r = "SENT" => p \in taken'
           /\ r = "UNREGISTERED" => p[2] \in dead
  BY DEF Answer, Accepted, AcceptedUnheard, Disowned, Refused, Unavailable,
         Unauthorized, MayPush, Unanswered, Results
<1>2. pushed' \in [Target -> 0..2] /\ taken \subseteq taken'
  <2>1. pushed' = Delivered(p) \/ pushed' = pushed
    BY DEF Answer, Accepted, AcceptedUnheard, Disowned, Refused, Unavailable, Unauthorized
  <2>2. taken' = taken \cup {p} \/ taken' = taken
    BY DEF Answer, Accepted, AcceptedUnheard, Disowned, Refused, Unavailable, Unauthorized
  <2> QED BY <2>1, <2>2 DEF AnswersTrue, Delivered
<1>3. PICK r \in Results :
        /\ SetResult(t, p, r)
        /\ r = "SENT" => p \in taken'
        /\ r = "UNREGISTERED" => p[2] \in dead
  BY <1>1
<1> DEFINE result == [q \in DOMAIN tick[t].result \cup {p} |->
                        IF q = p THEN r ELSE tick[t].result[q]]
<1>4. /\ DOMAIN tick' = Tick
      /\ \A u \in Tick : u # t => tick'[u] = tick[u]
      /\ tick'[t] = [tick[t] EXCEPT !.result = result,
           !.stage = IF DOMAIN result = tick[t].targets THEN "store" ELSE "push"]
  BY <1>3 DEF SetResult, AnswersTrue
<1>5. Carries(t)
  BY DEF AnswersTrue
<1>6. Carries(t)'
  <2>1. /\ tick'[t].result = result /\ tick'[t].stage \in {"store", "push"}
        /\ tick'[t].targets = tick[t].targets /\ DOMAIN tick'[t] = DOMAIN tick[t]
        /\ tick'[t].batch = tick[t].batch
    BY <1>1, <1>4, <1>5 DEF Carries, Sending
  <2>2. ASSUME NEW q \in DOMAIN result
        PROVE  /\ result[q] = "SENT" => q \in taken'
               /\ result[q] = "UNREGISTERED" => q[2] \in dead
    BY <1>1, <1>2, <1>3, <1>5 DEF Carries, Sending
  <2>3. DOMAIN result = DOMAIN tick[t].result \cup {p}
    OBVIOUS
  <2> HIDE DEF result
  <2>4. DOMAIN tick'[t].batch \subseteq AlarmId /\ DOMAIN result \subseteq tick[t].targets
    BY <1>1, <1>5, <2>1, <2>3 DEF Carries, Sending
  <2> QED BY <2>4, <1>1, <1>5, <2>1, <2>2, <2>3 DEF Carries, Sending
<1>7. \A u \in Tick : u # t => Carries(u)'
  BY <1>1, <1>2, <1>4, OthersCarry
<1> QED BY <1>2, <1>4, <1>6, <1>7 DEF AnswersTrue

LEMMA AnswersTrueStep ==
  ASSUME AnswersTrue, [Next]_vars PROVE AnswersTrue'
<1>1. ASSUME NEW t \in Tick, TickStep(t) PROVE AnswersTrue'
  <2>1. ASSUME NEW s \in [stage : {"idle", "find", "release"}],
               tick' = [tick EXCEPT ![t] = s], UNCHANGED <<dead, taken>>,
               pushed' \in [Target -> 0..2]
        PROVE  AnswersTrue'
    <3>1. DOMAIN tick' = Tick /\ tick'[t] = s /\ Carries(t)'
      BY <2>1 DEF AnswersTrue, Carries, Sending
    <3>2. \A u \in Tick : u # t => Carries(u)'
      BY <2>1, OthersCarry DEF AnswersTrue
    <3> QED BY <2>1, <3>1, <3>2 DEF AnswersTrue
  <2>2. CASE Begin(t) \/ Release(t) \/ Crash(t) \/ QueryFails(t) \/ TokenRefused(t) \/ Store(t)
    <3>1. pushed' = pushed \/ Forget(t)
      BY <2>2 DEF Begin, Release, Crash, QueryFails, TokenRefused, Store
    <3>2. pushed' \in [Target -> 0..2]
      BY <3>1 DEF Forget, AnswersTrue
    <3> QED BY <2>1, <2>2, <3>2 DEF Begin, Release, Crash, QueryFails, TokenRefused, Store, Rest
  <2>3. CASE BeginUnseen(t)
    BY <2>3 DEF BeginUnseen, AnswersTrue, Carries, Sending
  <2>4. CASE FindAlarms(t)
    <3>1. CASE tick' = [tick EXCEPT ![t] = [stage |-> "release"]]
      BY <2>1, <2>4, <3>1 DEF FindAlarms, AnswersTrue
    <3>2. ASSUME NEW batch, batch \subseteq AlarmId, NEW f,
                 DOMAIN f = batch,
                 tick' = [tick EXCEPT ![t] = [stage |-> "events", batch |-> f]]
          PROVE  AnswersTrue'
      <4>1. DOMAIN tick' = Tick /\ Carries(t)'
        BY <3>2 DEF AnswersTrue, Carries, Sending
      <4>2. \A u \in Tick : u # t => Carries(u)'
        BY <2>4, <3>2, OthersCarry DEF AnswersTrue, FindAlarms
      <4> QED BY <2>4, <4>1, <4>2 DEF AnswersTrue, FindAlarms
    <3>3. FirstOf(Due) \subseteq AlarmId
      BY DEF FirstOf, Due
    <3> QED BY <2>4, <3>1, <3>2, <3>3 DEF FindAlarms
  <2>5. CASE FindEvents(t)
    <3>1. CASE tick' = [tick EXCEPT ![t] = [stage |-> "release"]]
      BY <2>1, <2>5, <3>1 DEF FindEvents, AnswersTrue
    <3>2. ASSUME NEW f, DOMAIN f \subseteq AlarmId,
                 tick' = [tick EXCEPT ![t] = [stage |-> "devices", batch |-> f]]
          PROVE  AnswersTrue'
      <4>1. DOMAIN tick' = Tick /\ Carries(t)'
        BY <3>2 DEF AnswersTrue, Carries, Sending
      <4>2. \A u \in Tick : u # t => Carries(u)'
        BY <2>5, <3>2, OthersCarry DEF AnswersTrue, FindEvents
      <4> QED BY <2>5, <4>1, <4>2 DEF AnswersTrue, FindEvents
    <3>3. DOMAIN tick[t].batch \subseteq AlarmId
      BY <2>5 DEF FindEvents, AnswersTrue, Carries
    <3> QED BY <2>5, <3>1, <3>2, <3>3 DEF FindEvents
  <2>6. CASE FindDevices(t)
    <3> DEFINE targets ==
          {p \in (DOMAIN tick[t].batch) \X Device : device[p[2]] = tick[t].batch[p[1]]}
    <3>1. /\ targets \subseteq (DOMAIN tick[t].batch) \X Device
          /\ DOMAIN tick[t].batch \subseteq AlarmId
      BY <2>6 DEF FindDevices, AnswersTrue, Carries
    <3>2. tick' = [tick EXCEPT ![t] =
            [stage |-> IF targets = {} THEN "store" ELSE "token",
             batch |-> tick[t].batch, targets |-> targets, result |-> <<>>, access |-> Null]]
      BY <2>6 DEF FindDevices
    <3> HIDE DEF targets
    <3>3. DOMAIN tick' = Tick /\ Carries(t)'
      BY <3>1, <3>2 DEF AnswersTrue, Carries, Sending
    <3>4. \A u \in Tick : u # t => Carries(u)'
      BY <2>6, <3>2, OthersCarry DEF AnswersTrue, FindDevices
    <3> QED BY <2>6, <3>3, <3>4 DEF AnswersTrue, FindDevices
  <2>7. CASE GetToken(t)
    <3>1. tick[t].stage = "token" /\ UNCHANGED <<dead, taken, pushed>>
      BY <2>7 DEF GetToken
    <3>2. PICK a : tick' = [tick EXCEPT ![t].stage = "push", ![t].access = a]
      BY <2>7 DEF GetToken
    <3>3. DOMAIN tick' = Tick /\ Carries(t)'
      BY <3>1, <3>2 DEF AnswersTrue, Carries, Sending
    <3>4. \A u \in Tick : u # t => Carries(u)'
      BY <3>1, <3>2, OthersCarry DEF AnswersTrue
    <3> QED BY <3>1, <3>3, <3>4 DEF AnswersTrue
  <2> QED BY <1>1, <2>2, <2>3, <2>4, <2>5, <2>6, <2>7, AnswerStep DEF TickStep
<1>2. CASE UNCHANGED <<tick, taken, pushed>> /\ dead \subseteq dead'
  BY <1>2, OthersCarry DEF AnswersTrue
<1>3. ASSUME NEW i \in Instance, Revoke(i) PROVE AnswersTrue'
  <2>1. UNCHANGED <<dead, taken, pushed>>
    BY <1>3 DEF Revoke
  <2>2. ASSUME NEW t \in Tick PROVE Carries(t)'
    <3>1. CASE tick'[t] = tick[t]
      BY <2>1, <3>1, OthersCarry
    <3>2. CASE tick'[t] = [tick[t] EXCEPT !.access = "bad"]
      BY <2>1, <3>2 DEF AnswersTrue, Carries, Sending
    <3> QED BY <1>3, <3>1, <3>2 DEF Revoke
  <2> QED BY <1>3, <2>1, <2>2 DEF AnswersTrue, Revoke
<1> QED BY <1>1, <1>2, <1>3 DEF Next, workerVars, DeviceStep, Register, Unregister,
           Uninstall, TokenExpires, Expire, vars

\* What FCM took it has taken for good.
LEMMA TakenGrows ==
  ASSUME [Next]_vars PROVE taken \subseteq taken'
<1>1. ASSUME NEW t \in Tick, TickStep(t) PROVE taken \subseteq taken'
  BY <1>1 DEF TickStep, Begin, BeginUnseen, Release, Crash, QueryFails, FindAlarms,
              FindEvents, FindDevices, GetToken, TokenRefused, Answer, Accepted,
              AcceptedUnheard, Disowned, Refused, Unavailable, Unauthorized, Store
<1> QED BY <1>1 DEF Next, workerVars, DeviceStep, Register, Unregister, Uninstall,
           TokenExpires, Revoke, Expire, vars

LEMMA SentStep ==
  ASSUME CalendarInv, AnswersTrue, SentMeansDelivered, [Next]_vars
  PROVE  SentMeansDelivered'
<1> SUFFICES ASSUME NEW a \in AlarmId, alarm'[a] # Null, alarm'[a].status = "SENT"
             PROVE  \E d \in Device : <<a, d>> \in taken'
  BY DEF SentMeansDelivered
<1>1. taken \subseteq taken'
  BY TakenGrows
<1>2. CASE alarm[a] # Null /\ alarm[a].status = "SENT"
  BY <1>1, <1>2 DEF SentMeansDelivered
<1>3. ASSUME NEW t \in Tick, Store(t), ~(alarm[a] # Null /\ alarm[a].status = "SENT")
      PROVE  \E d \in Device : <<a, d>> \in taken'
  <2>1. a \in SentIds(t)
    <3>1. alarm[a] # Null => alarm[a] \in AlarmRow
      BY DEF CalendarInv, CalendarTypeOK
    <3> QED BY <1>3, <3>1 DEF Store, RecordOutcome, RecordStatus, IsPending, AlarmRow
  <2>2. PICK p \in DOMAIN tick[t].result : p[1] = a /\ tick[t].result[p] = "SENT"
    BY <2>1 DEF SentIds, Outcomes
  <2>3. p \in Target /\ p \in taken
    BY <1>3, <2>2 DEF AnswersTrue, Carries, Sending, Store
  <2> QED BY <1>1, <2>2, <2>3
<1>4. CASE alarm' = alarm
  BY <1>2, <1>4
<1>5. CASE CalendarStep
  BY <1>2, <1>5, RequestsWritePending
<1>6. ASSUME NEW t \in Tick, TickStep(t) PROVE alarm' = alarm \/ Store(t)
  BY <1>6, TickKeepsCalendar DEF calendarVars
<1>7. CASE DeviceStep \/ (\E i \in Instance : TokenExpires(i) \/ Revoke(i)) \/ Expire
  BY <1>4, <1>7 DEF DeviceStep, Register, Unregister, Uninstall, TokenExpires, Revoke,
                    Expire, calendarVars
<1>8. CASE UNCHANGED vars
  BY <1>4, <1>8 DEF vars
<1>9. CASE \E t \in Tick : TickStep(t)
  BY <1>2, <1>3, <1>4, <1>6, <1>9
<1> QED BY <1>5, <1>7, <1>8, <1>9 DEF Next

LEMMA AnswersAlwaysTrue == Spec => []AnswersTrue
<1>1. Init => AnswersTrue
  BY DEF Init, AnswersTrue, Carries, Sending, Rest
<1> QED BY <1>1, AnswersTrueStep, PTL DEF Spec

\* An alarm recorded as SENT was taken by FCM for a device of it, whatever
\* crashed, was lost, revoked or retried, and however ticks overlapped.
THEOREM SentAlwaysDelivered == Spec => []SentMeansDelivered
<1>1. Init => SentMeansDelivered
  BY DEF Init, CalendarInit, SentMeansDelivered
<1>2. CalendarInv /\ AnswersTrue /\ SentMeansDelivered /\ [Next]_vars
        => SentMeansDelivered'
  BY SentStep
<1> QED BY <1>1, <1>2, WorkerKeepsCalendar, AnswersAlwaysTrue, PTL DEF Spec

\* The worker never removes a device that FCM still knows.
THEOREM OnlyDeadAreReaped == Spec => OnlyDeadReaped
<1>1. AnswersTrue /\ [Next]_vars =>
        [ \A d \in Device :
            device[d] # Null /\ device'[d] = Null /\ tick' # tick => d \in dead ]_vars
  <2> SUFFICES ASSUME AnswersTrue, [Next]_vars, NEW d \in Device,
                      device[d] # Null, device'[d] = Null, tick' # tick
               PROVE  d \in dead
    OBVIOUS
  <2>1. PICK t \in Tick : Store(t)
    BY DEF Next, workerVars, DeviceStep, Register, Unregister, Uninstall, TickStep, Begin,
           BeginUnseen, Release, Crash, QueryFails, FindAlarms, FindEvents, FindDevices, GetToken,
           TokenRefused, Answer, Accepted, AcceptedUnheard, Disowned, Refused, Unavailable,
           Unauthorized, TokenExpires, Revoke, Expire, vars
  <2>2. d \in UnregisteredTokens(t)
    BY <2>1 DEF Store
  <2> QED BY <2>1, <2>2 DEF UnregisteredTokens, AnswersTrue, Carries, Sending, Store
<1> QED BY <1>1, AnswersAlwaysTrue, PTL DEF Spec, OnlyDeadReaped

-----------------------------------------------------------------------------
(* The lock.                                                               *)

\* Whoever works in a tick is the one whose token is under the key.
WorkerOwnsKey ==
  /\ DOMAIN tick = Tick
  /\ \A t \in Tick : InTick(t) => holder = t

\* The stages of a tick, seen from the lease: they take it, keep it or stop.
LEMMA StepOfLease ==
  ASSUME "overrun" \notin Faults, WorkerOwnsKey, [Next]_vars
  PROVE  WorkerOwnsKey' /\ [Lease!Next]_(Lease!leaseVars)
<1> DEFINE sending == {t \in Tick : InTick(t)}
<1> USE DEF Lease!leaseVars
<1>1. ASSUME NEW t \in Tick, TickStep(t)
      PROVE  WorkerOwnsKey' /\ [Lease!Next]_(Lease!leaseVars)
  <2>1. CASE Begin(t)
    <3>1. sending' = sending \cup {t} /\ WorkerOwnsKey'
      BY <2>1 DEF Begin, WorkerOwnsKey, InTick
    <3> QED BY <2>1, <3>1 DEF Begin, Lease!Next, Lease!Take
  <2>2. CASE BeginUnseen(t)
    <3>1. sending' = sending /\ WorkerOwnsKey'
      BY <2>2 DEF BeginUnseen, WorkerOwnsKey, InTick
    <3> QED BY <2>2, <3>1 DEF BeginUnseen, Lease!Next, Lease!TakeUnseen
  <2>3. ASSUME NEW s \in [stage : {"idle", "release"}], tick' = [tick EXCEPT ![t] = s],
               holder' = holder
        PROVE  WorkerOwnsKey' /\ [Lease!Next]_(Lease!leaseVars)
    <3>1. sending' = sending \ {t} /\ WorkerOwnsKey'
      BY <2>3 DEF WorkerOwnsKey, InTick
    <3> QED BY <2>3, <3>1 DEF Lease!Next, Lease!Stop
  <2>4. CASE Release(t)
    <3>1. sending' = sending /\ t \notin sending /\ WorkerOwnsKey'
      BY <2>4 DEF Release, WorkerOwnsKey, InTick, Rest
    <3> QED BY <2>4, <3>1 DEF Release, Lease!Next, Lease!Drop, WorkerOwnsKey
  <2>5. ASSUME DOMAIN tick' = Tick, \A u \in Tick : InTick(u)' = InTick(u),
               holder' = holder
        PROVE  WorkerOwnsKey' /\ [Lease!Next]_(Lease!leaseVars)
    BY <2>5 DEF WorkerOwnsKey
  <2>6. CASE FindAlarms(t)
    BY <2>3, <2>5, <2>6 DEF FindAlarms, InTick, WorkerOwnsKey
  <2>7. CASE FindEvents(t)
    BY <2>3, <2>5, <2>7 DEF FindEvents, InTick, WorkerOwnsKey
  <2>8. CASE FindDevices(t)
    BY <2>5, <2>8 DEF FindDevices, InTick, WorkerOwnsKey
  <2>9. CASE GetToken(t)
    BY <2>5, <2>9 DEF GetToken, InTick, WorkerOwnsKey
  <2>10. ASSUME NEW p \in Target, Answer(t, p)
        PROVE  WorkerOwnsKey' /\ [Lease!Next]_(Lease!leaseVars)
    <3>1. tick[t].stage = "push" /\ holder' = holder
      BY <2>10 DEF Answer, Accepted, AcceptedUnheard, Disowned, Refused, Unavailable,
                  Unauthorized, MayPush
    <3>2. \E r \in Results : SetResult(t, p, r)
      BY <2>10 DEF Answer, Accepted, AcceptedUnheard, Disowned, Refused, Unavailable,
                  Unauthorized, Results
    <3> QED BY <2>5, <3>1, <3>2 DEF SetResult, InTick, WorkerOwnsKey
  <2>11. CASE Crash(t) \/ QueryFails(t) \/ TokenRefused(t) \/ Store(t)
    BY <2>3, <2>11 DEF Crash, QueryFails, TokenRefused, Store, Rest
  <2> QED BY <1>1, <2>1, <2>2, <2>4, <2>6, <2>7, <2>8, <2>9, <2>10, <2>11 DEF TickStep
<1>2. ASSUME NEW i \in Instance, Revoke(i)
      PROVE  WorkerOwnsKey' /\ [Lease!Next]_(Lease!leaseVars)
  BY <1>2 DEF Revoke, WorkerOwnsKey, InTick
<1>3. CASE Expire
  <2>1. holder \notin sending /\ sending' = sending /\ WorkerOwnsKey'
    BY <1>3 DEF Expire, WorkerOwnsKey, InTick
  <2> QED BY <1>3, <2>1 DEF Expire, Lease!Next, Lease!Drop
<1>4. CASE UNCHANGED <<holder, tick>>
  BY <1>4 DEF WorkerOwnsKey, InTick
<1> QED BY <1>1, <1>2, <1>3, <1>4 DEF Next, workerVars, DeviceStep, Register, Unregister,
           Uninstall, TokenExpires, vars

\* When no tick outlives its key, the ticks keep to the lease, with every other
\* fault: the key is dropped only when its owner has stopped.
THEOREM WorkerImplementsLease ==
  ASSUME "overrun" \notin Faults PROVE Spec => ImplementsLease
<1>1. Init => WorkerOwnsKey /\ Lease!Init
  BY DEF Init, WorkerOwnsKey, Lease!Init, InTick, Rest
<1>2. WorkerOwnsKey /\ [Next]_vars => WorkerOwnsKey' /\ [Lease!Next]_(Lease!leaseVars)
  BY StepOfLease
<1> QED BY <1>1, <1>2, PTL DEF Spec, ImplementsLease, Lease!Spec

LEMMA WorkerOwnsKeyAlways ==
  ASSUME "overrun" \notin Faults PROVE Spec => []WorkerOwnsKey
<1>1. Init => WorkerOwnsKey
  BY DEF Init, WorkerOwnsKey, InTick, Rest
<1>2. WorkerOwnsKey /\ [Next]_vars => WorkerOwnsKey'
  BY StepOfLease
<1> QED BY <1>1, <1>2, PTL DEF Spec

-----------------------------------------------------------------------------
(* What a tick has read.                                                   *)

HasBatch(t) == InTick(t) /\ tick[t].stage # "find"

\* A tick gets its batch from one query and keeps it; the other ticks stay as they are.
LEMMA TickKeepsBatch ==
  ASSUME AnswersTrue, NEW t \in Tick, TickStep(t)
  PROVE  /\ \A u \in Tick : u # t => tick'[u] = tick[u]
         /\ HasBatch(t)' =>
              \/ DOMAIN tick'[t].batch = FirstOf(Due)
              \/ HasBatch(t) /\ DOMAIN tick'[t].batch = DOMAIN tick[t].batch
<1>1. DOMAIN tick = Tick /\ Carries(t)
  BY DEF AnswersTrue
<1>2. ASSUME NEW s \in [stage : {"idle", "find", "release"}], tick' = [tick EXCEPT ![t] = s]
      PROVE  (\A u \in Tick : u # t => tick'[u] = tick[u]) /\ ~HasBatch(t)'
  BY <1>1, <1>2 DEF HasBatch, InTick
<1>3. CASE Begin(t) \/ Release(t) \/ Crash(t) \/ QueryFails(t) \/ TokenRefused(t) \/ Store(t)
  BY <1>2, <1>3 DEF Begin, Release, Crash, QueryFails, TokenRefused, Store, Rest
<1>4. CASE BeginUnseen(t)
  BY <1>4 DEF BeginUnseen, HasBatch, InTick
<1>5. CASE FindAlarms(t)
  <2>1. CASE FirstOf(Due) = {}
    BY <1>2, <1>5, <2>1 DEF FindAlarms
  <2>2. CASE FirstOf(Due) # {}
    BY <1>1, <1>5, <2>2 DEF FindAlarms
  <2> QED BY <2>1, <2>2
<1>6. CASE FindEvents(t)
  <2>1. HasBatch(t) /\ DOMAIN tick = Tick
    BY <1>1, <1>6 DEF FindEvents, HasBatch, InTick
  <2>2. CASE tick' = [tick EXCEPT ![t] = [stage |-> "release"]]
    BY <1>2, <2>2
  <2>3. ASSUME NEW f, DOMAIN f = DOMAIN tick[t].batch,
               tick' = [tick EXCEPT ![t] = [stage |-> "devices", batch |-> f]]
        PROVE  /\ \A u \in Tick : u # t => tick'[u] = tick[u]
               /\ DOMAIN tick'[t].batch = DOMAIN tick[t].batch
    BY <2>1, <2>3
  <2> QED BY <1>6, <2>1, <2>2, <2>3 DEF FindEvents
<1>7. CASE FindDevices(t)
  BY <1>1, <1>7 DEF FindDevices, HasBatch, InTick
<1>8. CASE GetToken(t)
  BY <1>1, <1>8 DEF GetToken, HasBatch, InTick, Carries, Sending
<1>9. ASSUME NEW p \in Target, Answer(t, p)
      PROVE  /\ \A u \in Tick : u # t => tick'[u] = tick[u]
             /\ HasBatch(t) /\ tick'[t].batch = tick[t].batch
  <2>1. tick[t].stage = "push" /\ \E r \in Results : SetResult(t, p, r)
    BY <1>9 DEF Answer, Accepted, AcceptedUnheard, Disowned, Refused, Unavailable,
                Unauthorized, MayPush, Results
  <2> QED BY <1>1, <2>1 DEF SetResult, HasBatch, InTick, Carries, Sending
<1> QED BY <1>3, <1>4, <1>5, <1>6, <1>7, <1>8, <1>9 DEF TickStep

LEMMA BatchIds ==
  ASSUME AnswersTrue, NEW t \in Tick, HasBatch(t)
  PROVE  DOMAIN tick[t].batch \subseteq AlarmId
BY DEF AnswersTrue, Carries, HasBatch, InTick, Sending

\* What is due is PENDING.
LEMMA DueIsPending == FirstOf(Due) \subseteq {a \in AlarmId : IsPending(a)}
BY DEF FirstOf, Due

\* One tick at most has a batch, so no other settles what is in it.
LEMMA BatchStep ==
  ASSUME CalendarInv, AnswersTrue, WorkerOwnsKey, BatchStaysPending, [Next]_vars
  PROVE  BatchStaysPending'
<1>1. ASSUME NEW t \in Tick, TickStep(t) PROVE BatchStaysPending'
  <2> SUFFICES ASSUME NEW u \in Tick, HasBatch(u)', NEW a \in DOMAIN tick'[u].batch
               PROVE  alarm'[a] = Null \/ IsPending(a)'
    BY DEF BatchStaysPending, HasBatch
  <2>1. CASE Store(t)
    <3>1. ~HasBatch(t)' /\ InTick(t)
      BY <2>1 DEF Store, AnswersTrue, HasBatch, InTick
    <3>2. u # t /\ tick'[u] = tick[u]
      BY <1>1, <3>1, TickKeepsBatch
    <3>3. InTick(u)
      BY <3>2 DEF HasBatch, InTick
    <3> QED BY <3>1, <3>2, <3>3 DEF WorkerOwnsKey
  <2>2. CASE UNCHANGED calendarVars
    <3>1. CASE DOMAIN tick'[u].batch = FirstOf(Due)
      BY <2>2, <3>1, DueIsPending DEF calendarVars, IsPending
    <3>2. CASE HasBatch(u) /\ DOMAIN tick'[u].batch = DOMAIN tick[u].batch
      BY <2>2, <3>2 DEF calendarVars, IsPending, BatchStaysPending, HasBatch
    <3>3. CASE tick'[u] = tick[u]
      BY <2>2, <3>3 DEF calendarVars, IsPending, BatchStaysPending, HasBatch, InTick
    <3> QED BY <1>1, <3>1, <3>2, <3>3, TickKeepsBatch
  <2> QED BY <1>1, <2>1, <2>2, TickKeepsCalendar
<1>2. CASE CalendarStep /\ UNCHANGED workerVars
  <2> SUFFICES ASSUME NEW t \in Tick, HasBatch(t), NEW a \in DOMAIN tick[t].batch
               PROVE  alarm'[a] = Null \/ IsPending(a)'
    BY <1>2 DEF BatchStaysPending, HasBatch, InTick, workerVars
  <2>1. a \in AlarmId /\ (alarm[a] = Null \/ IsPending(a))
    BY BatchIds DEF BatchStaysPending, HasBatch
  <2> QED BY <1>2, <2>1, RequestsWritePending DEF IsPending
<1>3. ASSUME NEW i \in Instance, Revoke(i) PROVE BatchStaysPending'
  <2> SUFFICES ASSUME NEW t \in Tick, HasBatch(t)', NEW a \in DOMAIN tick'[t].batch
               PROVE  alarm'[a] = Null \/ IsPending(a)'
    BY DEF BatchStaysPending, HasBatch
  <2>1. UNCHANGED calendarVars
    BY <1>3 DEF Revoke
  <2>2. tick'[t].stage = tick[t].stage /\ tick'[t].batch = tick[t].batch
    BY <1>3 DEF Revoke, AnswersTrue, Carries, Sending
  <2> QED BY <2>1, <2>2 DEF BatchStaysPending, HasBatch, InTick, calendarVars, IsPending
<1>4. CASE UNCHANGED <<alarm, tick>>
  BY <1>4 DEF BatchStaysPending, InTick, IsPending
<1> QED BY <1>1, <1>2, <1>3, <1>4 DEF Next, DeviceStep, Register, Unregister, Uninstall,
           TokenExpires, Expire, vars, calendarVars

\* When no tick outlives its key, what a tick has still to send is not settled by
\* another, with every other fault (alarm.worker.ts:57).
THEOREM BatchAlwaysPending ==
  ASSUME "overrun" \notin Faults PROVE Spec => []BatchStaysPending
<1>1. Init => BatchStaysPending
  BY DEF Init, BatchStaysPending, InTick, Rest
<1>2. CalendarInv /\ FreshAlarms /\ AnswersTrue /\ WorkerOwnsKey /\ BatchStaysPending
        /\ [Next]_vars => BatchStaysPending'
  BY BatchStep
<1> QED BY <1>1, <1>2, WorkerKeepsCalendar, AnswersAlwaysTrue, WorkerOwnsKeyAlways, PTL
        DEF Spec

-----------------------------------------------------------------------------
(* When no tick outlives its key.  Neither property is inductive: every push *)
(* of FCM for a PENDING alarm must be among the answers of the tick at work, *)
(* so that its transaction is going to record it and no other tick is going  *)
(* to repeat it; or it counts no longer, as the answer or the tick was lost. *)

\* What FCM took is known to the tick that is going to record it, or is settled.
PushKnown(p) ==
  pushed[p] > 0 =>
    /\ p[1] < nextAlarm
    /\ IsPending(p[1]) => \E t \in Tick : SentIn(t, p)
    /\ alarm[p[1]] # Null => alarm[p[1]].status # "FAILED"

\* A tick has still to send what no device has got.
YetToSend(t) ==
  /\ HasBatch(t) => \A a \in DOMAIN tick[t].batch : a < nextAlarm
  /\ tick[t].stage \in {"events", "devices"} =>
       \A a \in DOMAIN tick[t].batch, d \in Device : pushed[<<a, d>>] = 0
  /\ Sending(t) => \A p \in tick[t].targets : pushed[p] > 0 => SentIn(t, p)

NothingLost ==
  /\ \A p \in Target : PushKnown(p)
  /\ \A t \in Tick : YetToSend(t)
  /\ PushedOnce

\* What the invariants proved so far say of the state before a step.
WorkerInv ==
  /\ CalendarInv /\ FreshAlarms
  /\ AnswersTrue /\ WorkerOwnsKey /\ BatchStaysPending

\* A step within a tick that neither sends nor records, and forgets nothing.
LEMMA QuietTick ==
  ASSUME WorkerInv, NothingLost, NEW t \in Tick,
         UNCHANGED <<alarm, nextAlarm, pushed>>,
         \A u \in Tick : u # t => tick'[u] = tick[u],
         \A p \in Target : SentIn(t, p) => SentIn(t, p)',
         YetToSend(t)'
  PROVE  NothingLost'
<1>1. \A u \in Tick : u # t => YetToSend(u)'
  BY DEF NothingLost, YetToSend, HasBatch, InTick, Sending, SentIn
<1>2. ASSUME NEW p \in Target PROVE PushKnown(p)'
  <2>1. PushKnown(p)
    BY DEF NothingLost
  <2>2. \A u \in Tick : SentIn(u, p) => SentIn(u, p)'
    BY DEF SentIn, Sending
  <2> QED BY <2>1, <2>2 DEF PushKnown, IsPending
<1> QED BY <1>1, <1>2 DEF NothingLost, PushedOnce

LEMMA TickLosesNothing ==
  ASSUME "overrun" \notin Faults, WorkerInv, NothingLost, NEW t \in Tick, TickStep(t)
  PROVE  NothingLost'
<1>1. /\ DOMAIN tick = Tick /\ Carries(t) /\ YetToSend(t)
      /\ \A p \in Target : pushed[p] \in 0..2
  BY DEF WorkerInv, AnswersTrue, NothingLost
<1>2. \A u \in Tick : u # t => tick'[u] = tick[u]
  BY TickKeepsBatch DEF WorkerInv
<1>3. \A u \in Tick : InTick(t) /\ u # t => ~InTick(u)
  BY DEF WorkerInv, WorkerOwnsKey
<1>4. \A u \in Tick : \A p \in Target : SentIn(u, p) => InTick(u)
  BY DEF SentIn, Sending, InTick
<1>5. ASSUME NEW s \in [stage : {"idle", "find", "release"}], tick' = [tick EXCEPT ![t] = s],
             UNCHANGED <<calendarVars, pushed>>,
             tick[t].stage \in {"idle", "find", "events", "token", "release"}
      PROVE  NothingLost'
  <2>1. YetToSend(t)'
    BY <1>1, <1>5 DEF YetToSend, HasBatch, InTick, Sending
  <2>2. \A p \in Target : ~SentIn(t, p)
    BY <1>1, <1>5 DEF SentIn, Sending, Carries
  <2> QED BY <1>2, <1>5, <2>1, <2>2, QuietTick DEF calendarVars
<1>6. CASE Begin(t) \/ Release(t) \/ TokenRefused(t)
  BY <1>5, <1>6 DEF Begin, Release, TokenRefused, Rest
<1>7. CASE BeginUnseen(t)
  <2>1. UNCHANGED <<calendarVars, tick, pushed>>
    BY <1>7 DEF BeginUnseen
  <2>2. YetToSend(t)' /\ \A p \in Target : SentIn(t, p) => SentIn(t, p)'
    BY <1>1, <2>1 DEF YetToSend, HasBatch, InTick, Sending, SentIn, calendarVars
  <2> QED BY <1>2, <2>1, <2>2, QuietTick DEF calendarVars
<1>8. CASE Crash(t) \/ QueryFails(t)
  <2>1. /\ UNCHANGED <<alarm, nextAlarm>>
        /\ tick'[t].stage \in {"idle", "release"}
        /\ \A p \in Target : pushed'[p] = IF SentIn(t, p) THEN 0 ELSE pushed[p]
    BY <1>1, <1>8 DEF Crash, QueryFails, Forget, Rest, calendarVars
  <2>2. YetToSend(t)'
    BY <2>1 DEF YetToSend, HasBatch, InTick, Sending
  <2>3. ASSUME NEW u \in Tick, u # t PROVE YetToSend(u)'
    <3>1. YetToSend(u) /\ Carries(u)
      BY DEF WorkerInv, AnswersTrue, NothingLost
    <3>2. tick'[u] = tick[u] /\ \A p \in Target : pushed'[p] > 0 => pushed[p] > 0
      BY <1>2, <2>1, <2>3
    <3>3. \A p \in Target : pushed[p] = 0 => pushed'[p] = 0
      BY <2>1
    <3> QED BY <2>1, <3>1, <3>2, <3>3
            DEF YetToSend, HasBatch, InTick, Sending, SentIn, Carries
  <2>4. ASSUME NEW p \in Target, pushed'[p] > 0 PROVE PushKnown(p)'
    <3>1. pushed[p] > 0 /\ ~SentIn(t, p) /\ PushKnown(p)
      BY <2>1, <2>4 DEF NothingLost
    <3>2. \A u \in Tick : SentIn(u, p) => SentIn(u, p)'
      BY <1>2, <3>1 DEF SentIn
    <3> QED BY <2>1, <3>1, <3>2 DEF PushKnown, IsPending
  <2>5. PushedOnce'
    BY <2>1 DEF NothingLost, PushedOnce
  <2> QED BY <2>2, <2>3, <2>4, <2>5 DEF NothingLost, PushKnown
<1>9. CASE FindAlarms(t)
  <2>1. tick[t].stage = "find" /\ UNCHANGED <<calendarVars, pushed>>
    BY <1>9 DEF FindAlarms
  <2>2. CASE FirstOf(Due) = {}
    BY <1>5, <1>9, <2>1, <2>2 DEF FindAlarms
  <2>3. CASE FirstOf(Due) # {}
    <3>1. tick'[t].stage = "events" /\ DOMAIN tick'[t].batch = FirstOf(Due)
      BY <1>1, <1>9, <2>3 DEF FindAlarms
    <3>2. ASSUME NEW a \in FirstOf(Due)
          PROVE  a < nextAlarm /\ \A d \in Device : pushed[<<a, d>>] = 0
      <4>1. a \in AlarmId /\ IsPending(a)
        BY DueIsPending
      <4>2. a < nextAlarm
        BY <4>1 DEF IsPending, WorkerInv, FreshAlarms, CalendarInv, CalendarTypeOK
      <4>3. ASSUME NEW d \in Device PROVE pushed[<<a, d>>] = 0
        <5>1. \A u \in Tick : ~SentIn(u, <<a, d>>)
          BY <1>3, <1>4, <2>1, <4>1 DEF SentIn, Sending, InTick
        <5>2. PushKnown(<<a, d>>) /\ pushed[<<a, d>>] \in 0..2
          BY <1>1, <4>1 DEF NothingLost
        <5> QED BY <4>1, <5>1, <5>2 DEF PushKnown
      <4> QED BY <4>2, <4>3
    <3>3. YetToSend(t)'
      BY <2>1, <3>1, <3>2 DEF YetToSend, Sending, calendarVars
    <3>4. \A p \in Target : ~SentIn(t, p)
      BY <2>1 DEF SentIn, Sending
    <3> QED BY <1>2, <2>1, <3>3, <3>4, QuietTick DEF calendarVars
  <2> QED BY <2>2, <2>3
<1>10. CASE FindEvents(t)
  <2>1. tick[t].stage = "events" /\ UNCHANGED <<calendarVars, pushed>>
    BY <1>10 DEF FindEvents
  <2>2. \A p \in Target : ~SentIn(t, p)
    BY <2>1 DEF SentIn
  <2>3. CASE tick' = [tick EXCEPT ![t] = [stage |-> "release"]]
    BY <1>5, <2>1, <2>3
  <2>4. ASSUME NEW f, DOMAIN f = DOMAIN tick[t].batch,
               tick' = [tick EXCEPT ![t] = [stage |-> "devices", batch |-> f]]
        PROVE  NothingLost'
    <3>1. tick'[t].stage = "devices" /\ DOMAIN tick'[t].batch = DOMAIN tick[t].batch
      BY <1>1, <2>4
    <3>2. YetToSend(t)'
      BY <1>1, <2>1, <3>1 DEF YetToSend, HasBatch, InTick, Sending, calendarVars
    <3> QED BY <1>2, <2>1, <2>2, <3>2, QuietTick DEF calendarVars
  <2> QED BY <1>10, <2>3, <2>4 DEF FindEvents
<1>11. CASE FindDevices(t)
  <2>1. /\ tick[t].stage = "devices" /\ UNCHANGED <<calendarVars, pushed>>
        /\ tick'[t].stage \in {"store", "token"}
        /\ tick'[t].batch = tick[t].batch
        /\ tick'[t].targets \subseteq (DOMAIN tick[t].batch) \X Device
    BY <1>1, <1>11 DEF FindDevices
  <2>2. \A p \in tick'[t].targets : pushed'[p] = 0
    BY <1>1, <2>1 DEF YetToSend
  <2>3. YetToSend(t)'
    BY <1>1, <2>1, <2>2 DEF YetToSend, HasBatch, InTick, Sending, calendarVars
  <2>4. \A p \in Target : ~SentIn(t, p)
    BY <2>1 DEF SentIn, Sending
  <2> QED BY <1>2, <2>1, <2>3, <2>4, QuietTick DEF calendarVars
<1>12. CASE GetToken(t)
  <2>1. /\ tick[t].stage = "token" /\ tick'[t].stage = "push"
        /\ UNCHANGED <<calendarVars, pushed>>
        /\ tick'[t].batch = tick[t].batch /\ tick'[t].targets = tick[t].targets
        /\ tick'[t].result = tick[t].result
    BY <1>1, <1>12 DEF GetToken, Carries, Sending
  <2>2. \A p \in tick[t].targets : SentIn(t, p) => SentIn(t, p)'
    BY <2>1 DEF SentIn, Sending
  <2>3. YetToSend(t)'
    BY <1>1, <2>1, <2>2 DEF YetToSend, HasBatch, InTick, Sending, calendarVars
  <2>4. \A p \in Target : SentIn(t, p) => SentIn(t, p)'
    BY <2>1 DEF SentIn, Sending
  <2> QED BY <1>2, <2>1, <2>3, <2>4, QuietTick DEF calendarVars
<1>13. ASSUME NEW p \in Target, Answer(t, p) PROVE NothingLost'
  <2>1. tick[t].stage = "push" /\ p \in tick[t].targets /\ p \notin DOMAIN tick[t].result
    BY <1>13 DEF Answer, Accepted, AcceptedUnheard, Disowned, Refused, Unavailable,
                 Unauthorized, MayPush, Unanswered
  <2>2. PICK r \in Results :
          /\ SetResult(t, p, r)
          /\ IF r = "SENT" THEN pushed' = Delivered(p) ELSE pushed' = pushed
          /\ UNCHANGED calendarVars
    BY <1>13 DEF Answer, Accepted, AcceptedUnheard, Disowned, Refused, Unavailable,
                 Unauthorized, Results
  <2>3. pushed[p] = 0
    BY <1>1, <2>1 DEF YetToSend, SentIn, Sending
  <2>4. /\ tick'[t].stage \in {"store", "push"}
        /\ tick'[t].batch = tick[t].batch /\ tick'[t].targets = tick[t].targets
        /\ tick'[t].result = [q \in DOMAIN tick[t].result \cup {p} |->
                                IF q = p THEN r ELSE tick[t].result[q]]
    BY <1>1, <2>1, <2>2 DEF SetResult, Carries, Sending
  <2>5. \A q \in Target : SentIn(t, q) => SentIn(t, q)'
    BY <2>1, <2>4 DEF SentIn, Sending
  <2>6. r = "SENT" => SentIn(t, p)'
    BY <2>4 DEF SentIn, Sending
  <2>7. /\ \A q \in Target : q # p => pushed'[q] = pushed[q]
        /\ pushed'[p] = IF r = "SENT" THEN 1 ELSE 0
    BY <2>2, <2>3 DEF Delivered, WorkerInv, AnswersTrue
  <2>8. tick[t].targets \subseteq Target /\ p[1] \in DOMAIN tick[t].batch
    BY <1>1, <2>1 DEF Carries, Sending
  <2>9. YetToSend(t)'
    <3>1. HasBatch(t) /\ nextAlarm' = nextAlarm
      BY <2>1, <2>2 DEF HasBatch, InTick, calendarVars
    <3>2. \A q \in tick[t].targets : pushed'[q] > 0 => SentIn(t, q)'
      BY <1>1, <2>1, <2>5, <2>6, <2>7, <2>8 DEF YetToSend, Sending
    <3> QED BY <1>1, <2>4, <3>1, <3>2 DEF YetToSend, Sending
  <2>10. CASE r # "SENT"
    BY <1>2, <2>2, <2>5, <2>9, <2>10, QuietTick DEF calendarVars
  <2>11. CASE r = "SENT"
    <3>1. InTick(t)
      BY <2>1 DEF InTick
    <3>2. \A u \in Tick : u # t => YetToSend(u)'
      BY <1>2, <1>3, <3>1 DEF YetToSend, HasBatch, InTick, Sending
    <3>3. ASSUME NEW q \in Target, q # p PROVE PushKnown(q)'
      <4>1. PushKnown(q)
        BY DEF NothingLost
      <4>2. \A u \in Tick : SentIn(u, q) => SentIn(u, q)'
        BY <1>2, <2>5 DEF SentIn, Sending
      <4> QED BY <2>2, <2>7, <3>3, <4>1, <4>2 DEF PushKnown, IsPending, calendarVars
    <3>4. PushKnown(p)'
      <4>1. p[1] < nextAlarm
        BY <1>1, <2>1, <2>8 DEF YetToSend, HasBatch, InTick
      <4>2. alarm[p[1]] = Null \/ IsPending(p[1])
        BY <2>1, <2>8, <3>1 DEF WorkerInv, BatchStaysPending
      <4> QED BY <2>2, <2>6, <2>11, <4>1, <4>2 DEF PushKnown, IsPending, calendarVars
    <3>5. PushedOnce'
      BY <2>7, <2>11 DEF NothingLost, PushedOnce
    <3> QED BY <2>9, <3>2, <3>3, <3>4, <3>5 DEF NothingLost
  <2> QED BY <2>10, <2>11
<1>14. CASE Store(t)
  <2>1. /\ InTick(t) /\ tick[t].stage = "store" /\ tick'[t].stage = "release"
        /\ UNCHANGED <<nextAlarm, pushed>>
    BY <1>1, <1>14 DEF Store, InTick, RecordOutcome
  <2>2. \A u \in Tick : YetToSend(u)'
    <3>1. YetToSend(t)'
      BY <2>1 DEF YetToSend, HasBatch, InTick, Sending
    <3>2. \A u \in Tick : u # t => YetToSend(u)'
      BY <1>2, <1>3, <2>1 DEF YetToSend, HasBatch, InTick, Sending
    <3> QED BY <3>1, <3>2
  <2>3. ASSUME NEW p \in Target, pushed[p] > 0 PROVE PushKnown(p)'
    <3>1. PushKnown(p) /\ p[1] \in AlarmId
      BY DEF NothingLost
    <3>2. IsPending(p[1]) => p[1] \in SentIds(t)
      <4>1. SUFFICES ASSUME IsPending(p[1]) PROVE p[1] \in SentIds(t)
        OBVIOUS
      <4>2. SentIn(t, p)
        BY <1>3, <1>4, <2>1, <2>3, <3>1, <4>1 DEF PushKnown
      <4>3. p[1] \in DOMAIN tick[t].batch
        BY <1>1, <4>2 DEF Carries, SentIn, Sending
      <4> QED BY <4>2, <4>3 DEF SentIds, Outcomes, SentIn
    <3>3. alarm[p[1]] # Null => alarm[p[1]] \in AlarmRow
      BY <3>1 DEF WorkerInv, CalendarInv, CalendarTypeOK
    <3>4. alarm'[p[1]] = IF IsPending(p[1]) THEN [alarm[p[1]] EXCEPT !.status = "SENT"]
                         ELSE alarm[p[1]]
      BY <1>14, <3>1, <3>2 DEF Store, RecordOutcome, RecordStatus
    <3>5. CASE IsPending(p[1])
      <4>1. alarm'[p[1]].status = "SENT"
        BY <3>3, <3>4, <3>5 DEF IsPending, AlarmRow
      <4> QED BY <2>1, <2>3, <3>1, <4>1 DEF PushKnown, IsPending
    <3>6. CASE ~IsPending(p[1])
      BY <2>1, <2>3, <3>1, <3>4, <3>6 DEF PushKnown, IsPending
    <3> QED BY <3>5, <3>6
  <2> QED BY <2>1, <2>2, <2>3 DEF NothingLost, PushKnown, PushedOnce
<1> QED BY <1>6, <1>7, <1>8, <1>9, <1>10, <1>11, <1>12, <1>13, <1>14 DEF TickStep

LEMMA NothingLostStep ==
  ASSUME "overrun" \notin Faults, WorkerInv, NothingLost, [Next]_vars
  PROVE  NothingLost'
<1>1. CASE CalendarStep /\ UNCHANGED workerVars
  <2>1. nextAlarm \in Int /\ nextAlarm' \in Int
    BY <1>1, InvStep DEF CalendarNext, WorkerInv, CalendarInv, CalendarTypeOK
  <2>2. \A a \in AlarmId :
          /\ nextAlarm' >= nextAlarm
          /\ \/ alarm'[a] \in {alarm[a], Null}
             \/ a >= nextAlarm /\ alarm'[a].status = "PENDING"
    BY <1>1, RequestsWritePending DEF WorkerInv
  <2>3. ASSUME NEW p \in Target PROVE PushKnown(p)'
    <3>1. PushKnown(p) /\ p[1] \in AlarmId
      BY DEF NothingLost
    <3>2. \A t \in Tick : SentIn(t, p)' <=> SentIn(t, p)
      BY <1>1 DEF workerVars, SentIn, Sending
    <3>3. pushed'[p] = pushed[p]
      BY <1>1 DEF workerVars
    <3>4. CASE pushed[p] > 0
      <4>1. p[1] < nextAlarm /\ p[1] < nextAlarm'
        BY <2>1, <2>2, <3>1, <3>4 DEF PushKnown
      <4>2. alarm'[p[1]] \in {alarm[p[1]], Null}
        BY <2>1, <2>2, <3>1, <4>1
      <4> QED BY <3>1, <3>2, <3>4, <4>1, <4>2 DEF PushKnown, IsPending
    <3> QED BY <3>3, <3>4 DEF PushKnown
  <2>4. ASSUME NEW t \in Tick PROVE YetToSend(t)'
    <3>1. HasBatch(t) => \A a \in DOMAIN tick[t].batch : a < nextAlarm'
      BY <2>1, <2>2, BatchIds DEF WorkerInv, NothingLost, YetToSend
    <3> QED BY <1>1, <3>1
            DEF NothingLost, YetToSend, HasBatch, InTick, Sending, SentIn, workerVars
  <2> QED BY <1>1, <2>3, <2>4 DEF NothingLost, PushedOnce, workerVars
<1>2. CASE UNCHANGED <<alarm, nextAlarm, tick, pushed>>
  BY <1>2 DEF NothingLost, PushKnown, YetToSend, SentIn, Sending, HasBatch, InTick,
              IsPending, PushedOnce
<1>3. ASSUME NEW i \in Instance, Revoke(i) PROVE NothingLost'
  <2>1. UNCHANGED <<alarm, nextAlarm, pushed>>
    BY <1>3 DEF Revoke, calendarVars
  <2>2. ASSUME NEW t \in Tick
        PROVE  /\ tick'[t].stage = tick[t].stage
               /\ HasBatch(t) => tick'[t].batch = tick[t].batch
               /\ Sending(t) => /\ tick'[t].targets = tick[t].targets
                                /\ tick'[t].result = tick[t].result
    BY <1>3 DEF Revoke, WorkerInv, AnswersTrue, Carries, Sending, HasBatch, InTick
  <2>3. \A t \in Tick : \A p \in Target : SentIn(t, p)' <=> SentIn(t, p)
    BY <2>2 DEF SentIn, Sending
  <2>4. ASSUME NEW p \in Target PROVE PushKnown(p)'
    BY <2>1, <2>3 DEF NothingLost, PushKnown, IsPending
  <2>5. ASSUME NEW t \in Tick PROVE YetToSend(t)'
    <3>1. YetToSend(t) /\ (Sending(t) => tick[t].targets \subseteq Target)
      BY DEF NothingLost, WorkerInv, AnswersTrue, Carries
    <3> QED BY <2>1, <2>2, <2>3, <3>1 DEF YetToSend, Sending, HasBatch, InTick
  <2> QED BY <2>1, <2>4, <2>5 DEF NothingLost, PushedOnce
<1> QED BY <1>1, <1>2, <1>3, TickLosesNothing DEF Next, DeviceStep, Register, Unregister,
           Uninstall, TokenExpires, Expire, vars, calendarVars

LEMMA NothingLostAlways ==
  ASSUME "overrun" \notin Faults PROVE Spec => []NothingLost
<1>1. Init => NothingLost
  BY DEF Init, NothingLost, PushKnown, YetToSend, PushedOnce, HasBatch, InTick, Sending, Rest
<1>2. WorkerInv /\ NothingLost /\ [Next]_vars => NothingLost'
  BY NothingLostStep
<1>3. CalendarInv /\ FreshAlarms /\ AnswersTrue /\ WorkerOwnsKey /\ BatchStaysPending => WorkerInv
  BY DEF WorkerInv
<1> QED BY <1>1, <1>2, <1>3, WorkerKeepsCalendar, AnswersAlwaysTrue,
           WorkerOwnsKeyAlways, BatchAlwaysPending, PTL DEF Spec

\* When no tick outlives its key, no device gets an alarm again but for the loss of an
\* answer or of the tick that had it, in whatever order ticks, answers, crashes, failures
\* and requests come (alarm.worker.ts:57).
THEOREM AlwaysPushedOnce ==
  ASSUME "overrun" \notin Faults PROVE Spec => []PushedOnce
<1>1. NothingLost => PushedOnce
  BY DEF NothingLost
<1> QED BY <1>1, NothingLostAlways, PTL

\* Under the same assumption no alarm is recorded as FAILED that reached a device, but for
\* such a loss.
THEOREM FailedNeverDelivered ==
  ASSUME "overrun" \notin Faults PROVE Spec => []FailedMeansUndelivered
<1>1. NothingLost /\ AnswersTrue => FailedMeansUndelivered
  <2> SUFFICES ASSUME NothingLost, AnswersTrue, NEW a \in AlarmId, alarm[a] # Null,
                      alarm[a].status = "FAILED", NEW d \in Device
               PROVE  pushed[<<a, d>>] = 0
    BY DEF FailedMeansUndelivered
  <2>1. PushKnown(<<a, d>>) /\ pushed[<<a, d>>] \in 0..2
    BY DEF NothingLost, AnswersTrue
  <2> QED BY <2>1 DEF PushKnown
<1> QED BY <1>1, NothingLostAlways, AnswersAlwaysTrue, PTL

\* Where nothing is ever lost nothing is forgotten: then every push counts, and the two
\* theorems above speak of all that FCM took.
THEOREM EveryPushCounts ==
  ASSUME Faults \subseteq {"revoke"}
  PROVE  Spec => [](taken = {p \in Target : pushed[p] > 0})
<1> DEFINE Counted == taken = {p \in Target : pushed[p] > 0}
<1>1. Init => Counted
  BY DEF Init
<1>2. AnswersTrue /\ Counted /\ [Next]_vars => Counted'
  <2> SUFFICES ASSUME AnswersTrue, Counted, [Next]_vars PROVE Counted'
    OBVIOUS
  <2>1. ASSUME NEW t \in Tick, NEW p \in Target, Accepted(t, p) PROVE Counted'
    <3>1. taken' = taken \cup {p} /\ pushed' = Delivered(p)
      BY <2>1 DEF Accepted
    <3>2. \A q \in Target : pushed'[q] > 0 <=> q = p \/ pushed[q] > 0
      BY <3>1 DEF AnswersTrue, Delivered
    <3> QED BY <3>1, <3>2
  <2>2. CASE UNCHANGED <<taken, pushed>>
    BY <2>2
  <2> QED BY <2>1, <2>2 DEF Next, workerVars, DeviceStep, Register, Unregister, Uninstall,
             TickStep, Begin, BeginUnseen, Release, Crash, QueryFails, FindAlarms, FindEvents,
             FindDevices, GetToken, TokenRefused, Answer, AcceptedUnheard, Disowned, Refused,
             Unavailable, Unauthorized, Store, TokenExpires, Revoke, Expire, vars
<1> QED BY <1>1, <1>2, AnswersAlwaysTrue, PTL DEF Spec

=============================================================================
