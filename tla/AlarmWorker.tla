----------------------------- MODULE AlarmWorker -----------------------------
(***************************************************************************)
(* AlarmWorker.tick() and sendDueAlarms() on all the instances of the      *)
(* server, with what they share: the alarms of the calendar, the device    *)
(* tokens, the Redis lock, the access token each FcmService caches, and    *)
(* FCM itself.  The lock is the lease of AlarmLease: AlarmLock, which has  *)
(* the clock, shows when the key can be trusted to outlive its tick; the   *)
(* fault "overrun" is the case when it does not.                           *)
(*                                                                         *)
(* A tick is a chain of awaits -- lock, alarms, their events, devices,     *)
(* access token, messages, transaction, release -- and everything else may *)
(* happen between two of them.                                             *)
(***************************************************************************)
EXTENDS Calendar, FiniteSets

CONSTANTS
  Tick,        \* ticks in progress or yet to come, on all the instances
  Instance,    \* server processes
  InstanceOf,  \* the process a tick runs in
  NoTick,      \* the lock key is absent
  Device,      \* registration tokens of devices
  BatchSize,   \* ALARM_WORKER_BATCH_SIZE
  Faults       \* what goes wrong in this instance of the model

AllFaults ==
  { "crash",    \* a process dies in the middle of a tick
    "ioError",  \* a call of a tick to MySQL or Redis fails
    "lost",     \* FCM accepts a message, and its answer is lost or times out
    "overrun",  \* a tick outlives the TTL of its key
    "revoke" }  \* FCM stops accepting an access token it has issued

ASSUME WorkerAssumption ==
  /\ InstanceOf \in [Tick -> Instance]
  /\ NoTick \notin Tick
  /\ BatchSize \in Nat \ {0}
  /\ Faults \subseteq AllFaults

VARIABLES
  holder,   \* the tick whose token is under LOCK_KEY
  device,   \* device_token: the owner of each token, or Null
  dead,     \* tokens FCM does not know any more
  access,   \* accessToken of each FcmService, or Null
  tick,     \* where each tick is and what it carries
  taken,    \* history: the alarms FCM ever took, each for a device
  pushed    \* history: how often (0, 1, many = 2) FCM took one; what the worker has
            \* lost the record of counts no longer

workerVars == <<holder, device, dead, access, tick, taken, pushed>>
vars == <<now, event, alarm, nextEvent, nextAlarm, call,
          holder, device, dead, access, tick, taken, pushed>>

Target == AlarmId \X Device

Results == {"SENT", "UNREGISTERED", "RETRY", "FAILED"}

Rest == [stage |-> "idle"]

Init ==
  /\ CalendarInit
  /\ holder = NoTick
  /\ device = [d \in Device |-> Null]
  /\ dead = {}
  /\ access = [i \in Instance |-> Null]
  /\ tick = [t \in Tick |-> Rest]
  /\ taken = {}
  /\ pushed = [p \in Target |-> 0]

-----------------------------------------------------------------------------
(* The devices of the users: DeviceTokenService, and uninstalling the app. *)

\* One INSERT ... ON DUPLICATE KEY UPDATE: the token moves to its new account.
Register(u, d) ==
  /\ d \notin dead
  /\ device' = [device EXCEPT ![d] = u]
  /\ UNCHANGED <<calendarVars, holder, dead, access, tick, taken, pushed>>

Unregister(u, d) ==
  /\ device[d] = u
  /\ device' = [device EXCEPT ![d] = Null]
  /\ UNCHANGED <<calendarVars, holder, dead, access, tick, taken, pushed>>

Uninstall(d) ==
  /\ dead' = dead \cup {d}
  /\ UNCHANGED <<calendarVars, holder, device, access, tick, taken, pushed>>

-----------------------------------------------------------------------------
(* The lock.                                                               *)

InTick(t) == tick[t].stage \notin {"idle", "release"}

BeginAnyway(t) ==   \* mutant: SET without NX
  /\ tick[t].stage = "idle"
  /\ holder' = t
  /\ tick' = [tick EXCEPT ![t] = [stage |-> "find"]]
  /\ UNCHANGED <<calendarVars, device, dead, access, taken, pushed>>

Begin(t) ==
  /\ tick[t].stage = "idle"
  /\ holder = NoTick
  /\ holder' = t
  /\ tick' = [tick EXCEPT ![t] = [stage |-> "find"]]
  /\ UNCHANGED <<calendarVars, device, dead, access, taken, pushed>>

\* The key is set and the tick never learns it.
BeginUnseen(t) ==
  /\ "ioError" \in Faults
  /\ tick[t].stage = "idle"
  /\ holder = NoTick
  /\ holder' = t
  /\ UNCHANGED <<calendarVars, device, dead, access, tick, taken, pushed>>

\* The finally block, whose call may not get through.
Release(t) ==
  /\ tick[t].stage = "release"
  /\ \/ holder' = IF holder = t THEN NoTick ELSE holder
     \/ "ioError" \in Faults /\ UNCHANGED holder
  /\ tick' = [tick EXCEPT ![t] = Rest]
  /\ UNCHANGED <<calendarVars, device, dead, access, taken, pushed>>

\* The TTL runs out.
Expire ==
  /\ holder # NoTick
  /\ "overrun" \in Faults \/ ~InTick(holder)
  /\ holder' = NoTick
  /\ UNCHANGED <<calendarVars, device, dead, access, tick, taken, pushed>>

\* The tick has learnt that FCM took the alarm for the device, and not stored it.
SentIn(t, p) ==
  /\ tick[t].stage \in {"push", "store"}
  /\ p \in DOMAIN tick[t].result /\ tick[t].result[p] = "SENT"

\* What a tick knows is lost with it.
Forget(t) == pushed' = [p \in Target |-> IF SentIn(t, p) THEN 0 ELSE pushed[p]]

Crash(t) ==
  /\ "crash" \in Faults
  /\ tick[t].stage # "idle"
  /\ Forget(t)
  /\ tick' = [tick EXCEPT ![t] = Rest]
  /\ UNCHANGED <<calendarVars, holder, device, dead, access, taken>>

\* A query of the tick throws.
QueryFails(t) ==
  /\ "ioError" \in Faults
  /\ tick[t].stage \in {"find", "events", "devices", "store"}
  /\ Forget(t)
  /\ tick' = [tick EXCEPT ![t] = [stage |-> "release"]]
  /\ UNCHANGED <<calendarVars, holder, device, dead, access, taken>>

-----------------------------------------------------------------------------
(* sendDueAlarms(): what is due, and for whom.                             *)

Before(a, b) ==
  \/ alarm[a].at < alarm[b].at
  \/ alarm[a].at = alarm[b].at /\ a < b

\* findMany: the first BatchSize of the due PENDING alarms by (remind_at, id).
FirstOf(due) ==
  {a \in due : Cardinality({b \in due : Before(b, a)}) < BatchSize}

DueAll == {a \in AlarmId : alarm[a] # Null /\ alarm[a].at <= now}  \* mutant: no status

Due == {a \in AlarmId : IsPending(a) /\ alarm[a].at <= now}

\* The rows, each with its event_id ...
FindAlarms(t) ==
  LET batch == FirstOf(Due)
  IN /\ tick[t].stage = "find"
     /\ tick' = [tick EXCEPT ![t] =
          IF batch = {} THEN [stage |-> "release"]
          ELSE [stage |-> "events", batch |-> [a \in batch |-> alarm[a].event]]]
     /\ UNCHANGED <<calendarVars, holder, device, dead, access, taken, pushed>>

\* ... and, in a query of its own, the owners of their events.  The relation is
\* required: Prisma throws when an event is gone.
FindEvents(t) ==
  LET batch == tick[t].batch
  IN /\ tick[t].stage = "events"
     /\ tick' = [tick EXCEPT ![t] =
          IF \E a \in DOMAIN batch : event[batch[a]] = Null THEN [stage |-> "release"]
          ELSE [stage |-> "devices", batch |-> [a \in DOMAIN batch |-> event[batch[a]].user]]]
     /\ UNCHANGED <<calendarVars, holder, device, dead, access, taken, pushed>>

\* One message per alarm and device of its owner; with none of them the tick
\* goes straight to its transaction.
FindDevices(t) ==
  LET batch   == tick[t].batch
      targets == {p \in (DOMAIN batch) \X Device : device[p[2]] = batch[p[1]]}
  IN /\ tick[t].stage = "devices"
     /\ tick' = [tick EXCEPT ![t] =
          [stage |-> IF targets = {} THEN "store" ELSE "token",
           batch |-> batch, targets |-> targets, result |-> <<>>, access |-> Null]]
     /\ UNCHANGED <<calendarVars, holder, device, dead, access, taken, pushed>>

-----------------------------------------------------------------------------
(* FcmService: the access token and its cache.                             *)

\* The cached token, or a new one from Google; either is what the tick uses.
GetToken(t) ==
  LET i == InstanceOf[t]
  IN /\ tick[t].stage = "token"
     /\ access' = [access EXCEPT ![i] = IF access[i] = Null THEN "good" ELSE access[i]]
     /\ tick' = [tick EXCEPT ![t].stage = "push", ![t].access = access'[i]]
     /\ UNCHANGED <<calendarVars, holder, device, dead, taken, pushed>>

\* The request for a token fails: send() throws, the tick gives up.
TokenRefused(t) ==
  /\ tick[t].stage = "token"
  /\ access[InstanceOf[t]] = Null
  /\ tick' = [tick EXCEPT ![t] = [stage |-> "release"]]
  /\ UNCHANGED <<calendarVars, holder, device, dead, access, taken, pushed>>

\* expiresAt passes.
TokenExpires(i) ==
  /\ access[i] # Null
  /\ access' = [access EXCEPT ![i] = Null]
  /\ UNCHANGED <<calendarVars, holder, device, dead, tick, taken, pushed>>

\* FCM rejects, from now on, every token it has issued to the instance.
Revoke(i) ==
  /\ "revoke" \in Faults
  /\ access[i] = "good"
  /\ access' = [access EXCEPT ![i] = "bad"]
  /\ tick' = [t \in Tick |->
       IF InstanceOf[t] = i /\ tick[t].stage = "push"
         THEN [tick[t] EXCEPT !.access = "bad"] ELSE tick[t]]
  /\ UNCHANGED <<calendarVars, holder, device, dead, taken, pushed>>

-----------------------------------------------------------------------------
(* FcmService.sendOne(): the answers come in any order.                    *)

Unanswered(t) == tick[t].targets \ DOMAIN tick[t].result

SetResult(t, p, r) ==
  LET result == [q \in DOMAIN tick[t].result \cup {p} |->
                   IF q = p THEN r ELSE tick[t].result[q]]
  IN tick' = [tick EXCEPT ![t].result = result,
                ![t].stage = IF DOMAIN result = tick[t].targets THEN "store" ELSE "push"]

MayPush(t, p) == tick[t].stage = "push" /\ p \in Unanswered(t)

Delivered(p) == [pushed EXCEPT ![p] = IF @ = 2 THEN 2 ELSE @ + 1]

\* 2xx
Accepted(t, p) ==
  /\ MayPush(t, p)
  /\ tick[t].access = "good"
  /\ p[2] \notin dead
  /\ SetResult(t, p, "SENT")
  /\ taken' = taken \cup {p}
  /\ pushed' = Delivered(p)
  /\ UNCHANGED <<calendarVars, holder, device, dead, access>>

\* FCM takes the message, but the answer is an error or a timeout.
AcceptedUnheard(t, p) ==
  /\ "lost" \in Faults
  /\ MayPush(t, p)
  /\ tick[t].access = "good"
  /\ p[2] \notin dead
  /\ SetResult(t, p, "RETRY")
  /\ taken' = taken \cup {p}
  /\ UNCHANGED <<calendarVars, holder, device, dead, access, pushed>>

\* 404: the app was uninstalled or the token has expired.  The code takes every 404
\* for that; FCM answers so for no other reason here.
Disowned(t, p) ==
  /\ MayPush(t, p)
  /\ tick[t].access = "good"
  /\ p[2] \in dead
  /\ SetResult(t, p, "UNREGISTERED")
  /\ UNCHANGED <<calendarVars, holder, device, dead, access, taken, pushed>>

\* 400, 403
Refused(t, p) ==
  /\ MayPush(t, p)
  /\ tick[t].access = "good"
  /\ SetResult(t, p, "FAILED")
  /\ UNCHANGED <<calendarVars, holder, device, dead, access, taken, pushed>>

\* 429, 5xx, a network error or a timeout before FCM took the message.
Unavailable(t, p) ==
  /\ MayPush(t, p)
  /\ SetResult(t, p, "RETRY")
  /\ UNCHANGED <<calendarVars, holder, device, dead, access, taken, pushed>>

\* 401: the cached access token is dropped.
UnauthorizedKept(t, p) ==   \* mutant: the cache is not cleared
  /\ MayPush(t, p)
  /\ tick[t].access = "bad"
  /\ SetResult(t, p, "RETRY")
  /\ UNCHANGED <<calendarVars, holder, device, dead, access, taken, pushed>>

Unauthorized(t, p) ==
  /\ MayPush(t, p)
  /\ tick[t].access = "bad"
  /\ SetResult(t, p, "RETRY")
  /\ access' = [access EXCEPT ![InstanceOf[t]] = Null]
  /\ UNCHANGED <<calendarVars, holder, device, dead, taken, pushed>>

-----------------------------------------------------------------------------
(* sendDueAlarms(): the outcome of the batch and its transaction.          *)

Outcomes(t, a) == {tick[t].result[p] : p \in {q \in DOMAIN tick[t].result : q[1] = a}}

SentUnlessFailed(t) ==   \* mutant: SENT unless a device failed for good
  {a \in DOMAIN tick[t].batch : Outcomes(t, a) # {} /\ "FAILED" \notin Outcomes(t, a)}

\* SENT when one device has it.
SentIds(t) == {a \in DOMAIN tick[t].batch : "SENT" \in Outcomes(t, a)}

\* FAILED when no device has it and none is worth another try.
FailedIds(t) ==
  {a \in DOMAIN tick[t].batch \ SentIds(t) : "RETRY" \notin Outcomes(t, a)}

NotSentTokens(t) ==   \* mutant: every token that did not get it
  {d \in Device : \E p \in DOMAIN tick[t].result :
     p[2] = d /\ tick[t].result[p] # "SENT"}

UnregisteredTokens(t) ==
  {d \in Device : \E p \in DOMAIN tick[t].result :
     p[2] = d /\ tick[t].result[p] = "UNREGISTERED"}

Store(t) ==
  /\ tick[t].stage = "store"
  /\ RecordOutcome(SentIds(t), FailedIds(t))
  /\ device' = [d \in Device |-> IF d \in UnregisteredTokens(t) THEN Null ELSE device[d]]
  /\ tick' = [tick EXCEPT ![t] = [stage |-> "release"]]
  /\ UNCHANGED <<holder, dead, access, taken, pushed>>

-----------------------------------------------------------------------------

Answer(t, p) ==
  \/ Accepted(t, p) \/ AcceptedUnheard(t, p) \/ Disowned(t, p)
  \/ Refused(t, p) \/ Unavailable(t, p) \/ Unauthorized(t, p)

TickStep(t) ==
  \/ Begin(t) \/ BeginUnseen(t) \/ Release(t) \/ Crash(t) \/ QueryFails(t)
  \/ FindAlarms(t) \/ FindEvents(t) \/ FindDevices(t) \/ GetToken(t) \/ TokenRefused(t)
  \/ \E p \in Target : Answer(t, p)
  \/ Store(t)

DeviceStep ==
  \/ \E u \in User, d \in Device : Register(u, d) \/ Unregister(u, d)
  \/ \E d \in Device : Uninstall(d)

Next ==
  \/ CalendarStep /\ UNCHANGED workerVars
  \/ DeviceStep
  \/ \E t \in Tick : TickStep(t)
  \/ \E i \in Instance : TokenExpires(i) \/ Revoke(i)
  \/ Expire

Spec == Init /\ [][Next]_vars

(* Fairness.  setInterval keeps starting ticks; a started tick goes on, as  *)
(* every await of it ends, by an answer or by a timeout; the key expires.   *)
(* What the code cannot answer for is the outside: an outage may strike any *)
(* number of times and in any step, but there is a last one.  A rejected    *)
(* access token is answered with 401, not with something else every time.   *)
Proceed(t) ==
  \/ FindAlarms(t) \/ FindEvents(t) \/ FindDevices(t) \/ GetToken(t) \/ Store(t) \/ Release(t)
  \/ \E p \in Target : Answer(t, p)

Failure ==
  \/ \E t \in Tick : BeginUnseen(t) \/ Crash(t) \/ QueryFails(t) \/ TokenRefused(t)
  \/ \E t \in Tick, p \in Target :
       AcceptedUnheard(t, p) \/ (Unavailable(t, p) /\ tick[t].access = "good")
  \/ \E i \in Instance : Revoke(i)

\* A failure with the effect of a success -- nothing due, nothing to store -- is
\* the same step and no outage.
Outage == Failure /\ ~\E t \in Tick : FindAlarms(t) \/ Store(t)

OutagesEnd == <>[][~Outage]_vars

FairSpec ==
  /\ Spec
  /\ OutagesEnd
  /\ WF_vars(\E t \in Tick : Begin(t))
  /\ WF_vars(Expire)
  /\ SF_vars(\E t \in Tick, p \in Target : Unauthorized(t, p))
  /\ \A t \in Tick : WF_vars(Proceed(t))

-----------------------------------------------------------------------------
(* Properties.                                                             *)

\* An alarm is recorded as SENT only when FCM did take it for a device, with
\* crashes, retries and ticks that outlive their lock (alarm.worker.ts:166).
SentMeansDelivered ==
  \A a \in AlarmId : alarm[a] # Null /\ alarm[a].status = "SENT" =>
    \E d \in Device : <<a, d>> \in taken

\* An alarm FCM took for a device is not recorded as FAILED: only the loss of an
\* answer, or of the tick that had it, can make it so -- not a later answer, nor
\* that of another device or another tick (alarm.worker.ts:169).
FailedMeansUndelivered ==
  \A a \in AlarmId : alarm[a] # Null /\ alarm[a].status = "FAILED" =>
    \A d \in Device : pushed[<<a, d>>] = 0

\* No device gets the same alarm twice (the comment above tick(), alarm.worker.ts:57):
\* FCM is asked again only when its answer was lost, or the tick that had it died or
\* could not store it -- and then once for each such loss.
PushedOnce == \A p \in Target : pushed[p] <= 1

\* What a tick still has to send is not settled behind its back: as long as
\* ticks do not overrun their lock, a batch once read stays PENDING, unless its
\* event is removed or its reminders are replaced.
BatchStaysPending ==
  \A t \in Tick : InTick(t) /\ tick[t].stage # "find" =>
    \A a \in DOMAIN tick[t].batch : alarm[a] = Null \/ IsPending(a)

\* The worker removes a device only when FCM has disowned its token; every
\* other removal is the owner's (alarm.worker.ts:190).
OnlyDeadReaped ==
  [][ \A d \in Device :
        device[d] # Null /\ device'[d] = Null /\ tick' # tick => d \in dead ]_vars

\* The ticks keep to the lease of AlarmLease.
Lease == INSTANCE AlarmLease WITH sending <- {t \in Tick : InTick(t)}

ImplementsLease == Lease!Spec

\* Every due reminder is settled in the end, SENT or FAILED, or goes away with
\* its event: lost answers, failed transactions, revoked access tokens and
\* crashed ticks only delay it.
DueSettles ==
  \A a \in AlarmId : a \in Due ~> ~IsPending(a)

=============================================================================
