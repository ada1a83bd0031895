----------------------------- MODULE AlarmLease -----------------------------
(***************************************************************************)
(* What the Redis lock of the alarm worker promises, without its clock: a  *)
(* lease on the right to send due alarms.  A tick of some server instance  *)
(* takes the lease, sends while it holds it, stops, and the lease is       *)
(* dropped only when its owner has stopped -- by the owner's own release   *)
(* or, when that call never arrives, by the expiry of the key.             *)
(***************************************************************************)

CONSTANTS
  Tick,     \* runs of AlarmWorker.tick() on all the instances
  NoTick    \* the value of the lock when the key is absent; not a tick

VARIABLES
  holder,   \* the tick whose token is stored under the lock key, or NoTick
  sending   \* the ticks between a successful SET and the end of sendDueAlarms

leaseVars == <<holder, sending>>

Init ==
  /\ holder = NoTick
  /\ sending = {}

\* The key was absent and the tick starts to send.
Take(t) ==
  /\ holder = NoTick
  /\ holder' = t
  /\ sending' = sending \cup {t}

\* The key was set for a tick that never learns it: the reply was lost.
TakeUnseen(t) ==
  /\ holder = NoTick
  /\ holder' = t
  /\ UNCHANGED sending

\* sendDueAlarms returned, threw, or died with its process.
Stop(t) ==
  /\ t \in sending
  /\ sending' = sending \ {t}
  /\ UNCHANGED holder

\* The key goes away, deleted by its owner or expired.
Drop ==
  /\ holder # NoTick
  /\ holder \notin sending
  /\ holder' = NoTick
  /\ UNCHANGED sending

Next ==
  \/ \E t \in Tick : Take(t) \/ TakeUnseen(t) \/ Stop(t)
  \/ Drop

Spec == Init /\ [][Next]_leaseVars

-----------------------------------------------------------------------------

TypeOK ==
  /\ holder \in Tick \cup {NoTick}
  /\ sending \subseteq Tick

\* Whoever sends holds the lock, so no two ticks send at the same time: the
\* promise of the comment above tick() (alarm.worker.ts:57).
OneSender == sending \subseteq {holder}

=============================================================================
