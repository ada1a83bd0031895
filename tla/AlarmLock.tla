------------------------------ MODULE AlarmLock ------------------------------
(***************************************************************************)
(* The lock protocol of AlarmWorker.tick() with time in it.  The key       *)
(* 'alarm:worker:lock' is set with NX and a TTL of two FCM timeouts plus a *)
(* margin; the tick then works through stages of which only the two calls  *)
(* to FCM are cut off by a timeout.  Everything else a tick waits for (the *)
(* reply of Redis, two reads and one transaction of MySQL, the event loop) *)
(* is bounded in the code by nothing; here by the constant OwnTime.        *)
(*                                                                         *)
(* Time is kept as countdowns, not as a clock: what is left of the TTL, of *)
(* the running FCM call and of the tick's own time.  Wait lets one unit of *)
(* all of them go by, and cannot when a stage has run out of its time and  *)
(* must end.                                                               *)
(***************************************************************************)
EXTENDS Integers

CONSTANTS
  Tick,     \* tokens of the ticks, of one instance or of many
  NoTick,   \* the key is absent
  Timeout,  \* FcmService.timeoutMs
  Margin,   \* LOCK_MARGIN_MS
  OwnTime   \* longest time a tick spends outside the two FCM calls

ASSUME LockAssumption ==
  /\ NoTick \notin Tick
  /\ Timeout \in Nat
  /\ Margin \in Nat \ {0}
  /\ OwnTime \in Nat

VARIABLES
  holder,    \* the token stored under LOCK_KEY, or NoTick
  ttl,       \* time left of the key
  stage,     \* where each tick is
  callLeft,  \* time left of the FCM call of a tick
  ownLeft    \* time left of what a tick spends outside the FCM calls

vars == <<holder, ttl, stage, callLeft, ownLeft>>

Stages == {"idle", "reading", "auth", "push", "storing", "release"}

OneCallTtl == Timeout + Margin   \* mutant: the access token call forgotten
LockTtl == 2 * Timeout + Margin

OwnStage  == {"reading", "storing"}   \* unbounded by the code
CallStage == {"auth", "push"}         \* cut off by AbortSignal.timeout
Working   == OwnStage \cup CallStage  \* inside sendDueAlarms

Init ==
  /\ holder = NoTick
  /\ ttl = 0
  /\ stage = [t \in Tick |-> "idle"]
  /\ callLeft = [t \in Tick |-> 0]
  /\ ownLeft = [t \in Tick |-> 0]

-----------------------------------------------------------------------------
(* tick(): SET NX PX.  A tick draws a fresh UUID, so an idle name stands   *)
(* for a new token only when the old one is no longer in Redis.            *)

SetKeyAnyway(t) ==   \* mutant: SET without NX
  /\ stage[t] = "idle"
  /\ holder' = t
  /\ ttl' = LockTtl

SetKeyForever(t) ==   \* mutant: SET without PX
  /\ stage[t] = "idle"
  /\ holder = NoTick
  /\ holder' = t
  /\ ttl' = 0

SetKeyInSeconds(t) ==   \* mutant: EX for PX
  /\ stage[t] = "idle"
  /\ holder = NoTick
  /\ holder' = t
  /\ ttl' = 1000 * LockTtl

SetKey(t) ==
  /\ stage[t] = "idle"
  /\ holder = NoTick
  /\ holder' = t
  /\ ttl' = LockTtl

Acquire(t) ==
  /\ SetKey(t)
  /\ stage' = [stage EXCEPT ![t] = "reading"]
  /\ ownLeft' = [ownLeft EXCEPT ![t] = OwnTime]
  /\ UNCHANGED callLeft

\* The key is set but the call fails for the tick, which is caught at the
\* outer try: nothing is sent and nothing is released.
AcquireUnseen(t) ==
  /\ SetKey(t)
  /\ UNCHANGED <<stage, callLeft, ownLeft>>

-----------------------------------------------------------------------------
(* sendDueAlarms(), stage by stage.                                        *)

MoveTo(t, from, to) ==
  /\ stage[t] \in from
  /\ stage' = [stage EXCEPT ![t] = to]

\* The batch has targets: FcmService.send starts, and asks for an access token
\* unless it has one in its cache.
Authorize(t) ==
  /\ MoveTo(t, {"reading"}, "auth")
  /\ callLeft' = [callLeft EXCEPT ![t] = Timeout]
  /\ UNCHANGED <<holder, ttl, ownLeft>>

Push(t) ==
  /\ MoveTo(t, {"reading", "auth"}, "push")
  /\ callLeft' = [callLeft EXCEPT ![t] = Timeout]
  /\ UNCHANGED <<holder, ttl, ownLeft>>

\* All the answers are in, or no alarm of the batch has a device.
Store(t) ==
  /\ MoveTo(t, {"reading", "push"}, "storing")
  /\ UNCHANGED <<holder, ttl, callLeft, ownLeft>>

\* sendDueAlarms returns, after its transaction or with nothing due, or throws
\* out of a failed query or a refused access token: the finally block is next.
Finish(t) ==
  /\ MoveTo(t, {"reading", "auth", "storing"}, "release")
  /\ UNCHANGED <<holder, ttl, callLeft, ownLeft>>

-----------------------------------------------------------------------------
(* The finally block: compare-and-delete, which may be lost or run late.   *)

ReleaseByName(t) ==   \* mutant: DEL whatever the key holds
  /\ MoveTo(t, {"release"}, "idle")
  /\ holder' = NoTick
  /\ ttl' = 0
  /\ UNCHANGED <<callLeft, ownLeft>>

Release(t) ==
  /\ MoveTo(t, {"release"}, "idle")
  /\ IF holder = t
       THEN holder' = NoTick /\ ttl' = 0
       ELSE UNCHANGED <<holder, ttl>>
  /\ UNCHANGED <<callLeft, ownLeft>>

ReleaseLost(t) ==
  /\ MoveTo(t, {"release"}, "idle")
  /\ UNCHANGED <<holder, ttl, callLeft, ownLeft>>

\* The process of the tick dies.
Crash(t) ==
  /\ MoveTo(t, Working, "idle")
  /\ UNCHANGED <<holder, ttl, callLeft, ownLeft>>

\* One unit of time.  A key whose TTL runs out is gone.
Elapse ==
  /\ ttl' = IF ttl > 0 THEN ttl - 1 ELSE 0
  /\ holder' = IF ttl = 1 THEN NoTick ELSE holder
  /\ ownLeft' = [t \in Tick |->
       IF stage[t] \in OwnStage THEN ownLeft[t] - 1 ELSE ownLeft[t]]
  /\ callLeft' = [t \in Tick |->
       IF stage[t] \in CallStage THEN callLeft[t] - 1 ELSE callLeft[t]]
  /\ UNCHANGED stage

OwnTimeKept == \A t \in Tick : stage[t] \in OwnStage => ownLeft[t] > 0

WaitForFcm ==   \* mutant: fetch without AbortSignal.timeout
  OwnTimeKept /\ Elapse

Wait ==
  /\ OwnTimeKept
  /\ \A t \in Tick : stage[t] \in CallStage => callLeft[t] > 0
  /\ Elapse

TickStep(t) ==
  \/ Acquire(t) \/ AcquireUnseen(t)
  \/ Authorize(t) \/ Push(t) \/ Store(t) \/ Finish(t)
  \/ Release(t) \/ ReleaseLost(t) \/ Crash(t)

Next == (\E t \in Tick : TickStep(t)) \/ Wait

Spec == Init /\ [][Next]_vars

\* Time passes, and a stage ends when its time is up: the timeouts of the FCM
\* calls are the code's, the end of the others is what OwnTime stands for.
Proceed(t) == Authorize(t) \/ Push(t) \/ Store(t) \/ Finish(t)

FairSpec ==
  /\ Spec
  /\ WF_vars(Wait)
  /\ \A t \in Tick : WF_vars(Proceed(t))

-----------------------------------------------------------------------------
(* Properties.                                                             *)

TypeOK ==
  /\ holder \in Tick \cup {NoTick}
  /\ ttl \in 0..LockTtl
  /\ stage \in [Tick -> Stages]
  /\ callLeft \in [Tick -> 0..Timeout]
  /\ ownLeft \in [Tick -> 0..OwnTime]

\* "Even with several instances, or when periods overlap, the same alarm is not
\* sent at the same time" (alarm.worker.ts:57): at most one tick is inside
\* sendDueAlarms.
OneSender ==
  \A t, u \in Tick : stage[t] \in Working /\ stage[u] \in Working => t = u

\* The TTL outlasts the tick: at every stage the key has more time left than
\* the tick may still need.  Why 2 * timeout + margin (alarm.worker.ts:66).
TimeNeeded(t) ==
  CASE stage[t] = "reading" -> ownLeft[t] + 2 * Timeout
    [] stage[t] = "auth"    -> ownLeft[t] + callLeft[t] + Timeout
    [] stage[t] = "push"    -> ownLeft[t] + callLeft[t]
    [] OTHER                -> ownLeft[t]

KeyOutlivesTick ==
  \A t \in Tick : stage[t] \in Working => holder = t /\ ttl > TimeNeeded(t)

\* "Do not delete the lock another instance took after this one expired"
\* (alarm.worker.ts:22): a key disappears by its owner's release or by expiry.
OnlyOwnerReleases ==
  [][ holder' # holder /\ holder # NoTick =>
        /\ holder' = NoTick
        /\ \/ stage[holder] = "release" /\ stage'[holder] = "idle"
           \/ ttl = 1 /\ ttl' = 0 ]_vars

\* A crashed tick, a lost reply or a lost release does not stop the alarms of
\* every instance: whoever holds the lock loses it in the end.
LockFreed == \A t \in Tick : holder = t ~> holder # t

\* The protocol implements the lease the worker relies on.
Lease == INSTANCE AlarmLease WITH sending <- {t \in Tick : stage[t] \in Working}

ImplementsLease == Lease!Spec

=============================================================================
