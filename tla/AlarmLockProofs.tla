--------------------------- MODULE AlarmLockProofs ---------------------------
(***************************************************************************)
(* The lock of the alarm worker, proved for every set of ticks and every   *)
(* timeout, margin and own time: types for all of them, mutual exclusion   *)
(* and the lease when the tick's own time is shorter than the margin.      *)
(***************************************************************************)
EXTENDS AlarmLock, TLAPS

USE DEF Stages, OwnStage, CallStage, Working, LockTtl

\* Every step of the protocol keeps its variables in their types.
LEMMA TypeStep == TypeOK /\ [Next]_vars => TypeOK'
<1> SUFFICES ASSUME TypeOK, [Next]_vars PROVE TypeOK'
  OBVIOUS
<1> USE LockAssumption DEF TypeOK, MoveTo, SetKey
<1>1. ASSUME NEW t \in Tick, TickStep(t) PROVE TypeOK'
  <2>1. CASE Acquire(t)        BY <2>1 DEF Acquire
  <2>2. CASE AcquireUnseen(t)  BY <2>2 DEF AcquireUnseen
  <2>3. CASE Authorize(t)      BY <2>3 DEF Authorize
  <2>4. CASE Push(t)           BY <2>4 DEF Push
  <2>5. CASE Store(t)          BY <2>5 DEF Store
  <2>6. CASE Finish(t)         BY <2>6 DEF Finish
  <2>7. CASE Release(t)        BY <2>7 DEF Release
  <2>8. CASE ReleaseLost(t)    BY <2>8 DEF ReleaseLost
  <2>9. CASE Crash(t)          BY <2>9 DEF Crash
  <2> QED BY <1>1, <2>1, <2>2, <2>3, <2>4, <2>5, <2>6, <2>7, <2>8, <2>9
             DEF TickStep
<1>2. CASE Wait
  <2>1. ttl' \in 0..LockTtl /\ holder' \in Tick \cup {NoTick} /\ stage' = stage
    BY <1>2 DEF Wait, Elapse
  <2>2. callLeft' \in [Tick -> 0..Timeout]
    BY <1>2 DEF Wait, Elapse
  <2>3. ownLeft' \in [Tick -> 0..OwnTime]
    BY <1>2 DEF Wait, Elapse, OwnTimeKept
  <2> QED BY <2>1, <2>2, <2>3
<1>3. CASE UNCHANGED vars
  BY <1>3 DEF vars
<1> QED BY <1>1, <1>2, <1>3 DEF Next

\* The variables of the lock protocol always have their types, whatever the
\* timeout, the margin and the own time of a tick.
THEOREM TypeCorrect == Spec => []TypeOK
<1>1. Init => TypeOK
  BY LockAssumption DEF Init, TypeOK
<1> QED BY <1>1, TypeStep, PTL DEF Spec

-----------------------------------------------------------------------------
(* Mutual exclusion: KeyOutlivesTick is inductive, and it says that every  *)
(* working tick owns the one lock.                                         *)

LEMMA KeyOutlivesStep ==
  ASSUME OwnTime < Margin, TypeOK, KeyOutlivesTick, [Next]_vars
  PROVE  KeyOutlivesTick'
<1> USE LockAssumption DEF TypeOK, MoveTo, KeyOutlivesTick, TimeNeeded
<1>1. ASSUME NEW t \in Tick, TickStep(t) PROVE KeyOutlivesTick'
  <2>1. CASE Acquire(t)
    <3>1. ttl' > OwnTime + 2 * Timeout /\ holder' = t
      BY <2>1 DEF Acquire, SetKey
    <3>2. \A u \in Tick : stage[u] \in Working => FALSE
      BY <2>1 DEF Acquire, SetKey
    <3> QED BY <2>1, <3>1, <3>2 DEF Acquire, SetKey
  <2>2. CASE AcquireUnseen(t)  BY <2>2 DEF AcquireUnseen, SetKey
  <2>3. CASE Authorize(t)      BY <2>3 DEF Authorize
  <2>4. CASE Push(t)           BY <2>4 DEF Push
  <2>5. CASE Store(t)          BY <2>5 DEF Store
  <2>6. CASE Finish(t)         BY <2>6 DEF Finish
  <2>7. CASE Release(t)        BY <2>7 DEF Release
  <2>8. CASE ReleaseLost(t)    BY <2>8 DEF ReleaseLost
  <2>9. CASE Crash(t)          BY <2>9 DEF Crash
  <2> QED BY <1>1, <2>1, <2>2, <2>3, <2>4, <2>5, <2>6, <2>7, <2>8, <2>9
             DEF TickStep
<1>2. CASE Wait
  <2> SUFFICES ASSUME NEW t \in Tick, stage'[t] \in Working
               PROVE  holder' = t /\ ttl' > TimeNeeded(t)'
    OBVIOUS
  <2>1. holder = t /\ ttl > TimeNeeded(t) /\ stage' = stage
    BY <1>2 DEF Wait, Elapse
  <2>2. TimeNeeded(t) >= 1 /\ TimeNeeded(t)' = TimeNeeded(t) - 1
    BY <1>2, <2>1 DEF Wait, Elapse, OwnTimeKept
  <2> QED BY <1>2, <2>1, <2>2 DEF Wait, Elapse
<1>3. CASE UNCHANGED vars
  BY <1>3 DEF vars
<1> QED BY <1>1, <1>2, <1>3 DEF Next

\* The key of a working tick always has more time left than the tick needs.
THEOREM KeyOutlives ==
  ASSUME OwnTime < Margin PROVE Spec => []KeyOutlivesTick
<1>1. Init => KeyOutlivesTick
  BY DEF Init, KeyOutlivesTick
<1>2. TypeOK /\ KeyOutlivesTick /\ [Next]_vars => KeyOutlivesTick'
  BY KeyOutlivesStep
<1> QED BY <1>1, <1>2, TypeCorrect, PTL DEF Spec

\* No two ticks are inside sendDueAlarms at once, for any number of instances
\* and overlapping periods (alarm.worker.ts:57), as long as the time a tick
\* spends outside its two FCM calls is shorter than LOCK_MARGIN_MS.
THEOREM MutualExclusion ==
  ASSUME OwnTime < Margin PROVE Spec => []OneSender
<1>1. KeyOutlivesTick => OneSender
  BY DEF KeyOutlivesTick, OneSender
<1> QED BY <1>1, KeyOutlives, PTL

\* A key never disappears but by the release of the tick it belongs to, or by
\* expiry: the compare-and-delete script needs no assumption on time.
THEOREM ReleaseIsSafe == Spec => OnlyOwnerReleases
<1>1. TypeOK /\ [Next]_vars =>
        [ holder' # holder /\ holder # NoTick =>
            /\ holder' = NoTick
            /\ \/ stage[holder] = "release" /\ stage'[holder] = "idle"
               \/ ttl = 1 /\ ttl' = 0 ]_vars
  <2> SUFFICES ASSUME TypeOK, [Next]_vars, holder' # holder, holder # NoTick
               PROVE  /\ holder' = NoTick
                      /\ \/ stage[holder] = "release" /\ stage'[holder] = "idle"
                         \/ ttl = 1 /\ ttl' = 0
    OBVIOUS
  <2>1. ASSUME NEW t \in Tick, TickStep(t) PROVE Release(t) /\ holder = t
    BY <2>1 DEF TickStep, Acquire, AcquireUnseen, SetKey, Authorize, Push,
                Store, Finish, Release, ReleaseLost, Crash
  <2>2. ASSUME NEW t \in Tick, Release(t), holder = t
        PROVE  holder' = NoTick /\ stage[holder] = "release" /\ stage'[holder] = "idle"
    BY <2>2 DEF Release, MoveTo, TypeOK
  <2>3. CASE Wait
    BY <2>3 DEF Wait, Elapse
  <2>4. CASE UNCHANGED vars
    BY <2>4 DEF vars
  <2> QED BY <2>1, <2>2, <2>3, <2>4 DEF Next
<1> QED BY <1>1, TypeCorrect, PTL DEF Spec, OnlyOwnerReleases

-----------------------------------------------------------------------------
(* Refinement: with TypeOK and KeyOutlivesTick every step of the protocol  *)
(* is a step of the lease or leaves it alone.                              *)

LEMMA LeaseInit == Init => Lease!Init
BY DEF Init, Lease!Init

LEMMA LeaseStep ==
  ASSUME OwnTime < Margin, TypeOK, KeyOutlivesTick, [Next]_vars
  PROVE  [Lease!Next]_(Lease!leaseVars)
<1> DEFINE sending == {t \in Tick : stage[t] \in Working}
<1> USE LockAssumption DEF TypeOK, MoveTo, Lease!leaseVars
<1>1. ASSUME NEW t \in Tick, TickStep(t)
      PROVE  [Lease!Next]_(Lease!leaseVars)
  <2>1. CASE Acquire(t)
    <3>1. sending' = sending \cup {t}
      BY <2>1 DEF Acquire, SetKey
    <3> QED BY <2>1, <3>1 DEF Acquire, SetKey, Lease!Next, Lease!Take
  <2>2. CASE AcquireUnseen(t)
    BY <2>2 DEF AcquireUnseen, SetKey, Lease!Next, Lease!TakeUnseen
  <2>3. CASE Authorize(t) \/ Push(t) \/ Store(t)
    <3>1. sending' = sending
      BY <2>3 DEF Authorize, Push, Store
    <3> QED BY <2>3, <3>1 DEF Authorize, Push, Store
  <2>4. CASE Finish(t) \/ Crash(t)
    <3>1. t \in sending /\ sending' = sending \ {t}
      BY <2>4 DEF Finish, Crash
    <3> QED BY <2>4, <3>1 DEF Finish, Crash, Lease!Next, Lease!Stop
  <2>5. CASE Release(t) \/ ReleaseLost(t)
    <3>1. sending' = sending /\ t \notin sending
      BY <2>5 DEF Release, ReleaseLost
    <3> QED BY <2>5, <3>1 DEF Release, ReleaseLost, Lease!Next, Lease!Drop
  <2> QED BY <1>1, <2>1, <2>2, <2>3, <2>4, <2>5 DEF TickStep
<1>2. CASE Wait
  <2>1. sending' = sending
    BY <1>2 DEF Wait, Elapse
  <2>2. CASE holder' = holder
    BY <2>1, <2>2
  <2>3. CASE holder' # holder
    <3>1. ttl = 1 /\ holder' = NoTick /\ holder # NoTick
      BY <1>2, <2>3 DEF Wait, Elapse
    <3>2. ASSUME NEW t \in Tick, stage[t] \in Working PROVE FALSE
      <4>1. TimeNeeded(t) \in Int /\ TimeNeeded(t) >= 1
        BY <1>2, <3>2 DEF Wait, OwnTimeKept, TimeNeeded
      <4> QED BY <3>1, <3>2, <4>1 DEF KeyOutlivesTick
    <3> QED BY <2>1, <3>1, <3>2 DEF Lease!Next, Lease!Drop
  <2> QED BY <2>2, <2>3
<1>3. CASE UNCHANGED vars
  BY <1>3 DEF vars
<1> QED BY <1>1, <1>2, <1>3 DEF Next

\* The timed protocol implements the lease of AlarmLease: a key is dropped
\* only when the tick it was set for has stopped sending.
THEOREM Implements ==
  ASSUME OwnTime < Margin PROVE Spec => ImplementsLease
<1>1. TypeOK /\ KeyOutlivesTick /\ [Next]_vars
        => [Lease!Next]_(Lease!leaseVars)
  BY LeaseStep
<1> QED BY <1>1, LeaseInit, TypeCorrect, KeyOutlives, PTL
           DEF Spec, ImplementsLease, Lease!Spec
=============================================================================
