------------------------------- MODULE SignUp -------------------------------
(***************************************************************************)
(* AuthService.sendEmailCode, verifyEmailCode and signup for one address:  *)
(* its code, its two counters and its marker in Redis, its account in      *)
(* MySQL.  (Every key carries the address, so addresses do not meet.)      *)
(* Each request is a chain of calls that interleave with those of others.  *)
(***************************************************************************)
EXTENDS Counter

CONSTANTS
  Handler,       \* requests for the address that may be in progress at a time
  CodeTime,      \* EMAIL_CODE_TTL, in units of the model's clock
  SendWindow,    \* EMAIL_CODE_SEND_WINDOW
  VerifiedTime,  \* EMAIL_VERIFIED_TTL
  MaxSend,       \* EMAIL_CODE_MAX_SEND
  MaxAttempt,    \* EMAIL_CODE_MAX_ATTEMPT
  MayDie         \* whether a request may end between two calls that go together

ASSUME SignUpAssumption ==
  /\ CodeTime \in Nat \ {0}
  /\ SendWindow \in Nat \ {0}
  /\ VerifiedTime \in Nat \ {0}
  /\ MaxSend \in Nat \ {0}
  /\ MaxAttempt \in Nat \ {0}
  /\ MayDie \in BOOLEAN

VARIABLES
  codeTtl,   \* time left of verify:signup:{email}; 0 when there is no key
  attempt,   \* verify:signup:attempt:{email}
  send,      \* verify:signup:send:{email}
  verified,  \* time left of verify:signup:done:{email}; 0 when there is no key
  account,   \* whether the user table has the address
  firstUse,  \* whether the account has its key first_use:{userId}
  req,       \* where each request is
  spent      \* history: signups let in on the marker set last

keys == <<codeTtl, attempt, send, verified>>
vars == <<keys, account, firstUse, req, spent>>

Idle == [stage |-> "idle"]

Init ==
  /\ codeTtl = 0
  /\ attempt = NoCounter
  /\ send = NoCounter
  /\ verified = 0
  /\ account = FALSE
  /\ firstUse = FALSE
  /\ req = [h \in Handler |-> Idle]
  /\ spent = 0

Goto(h, state) == req' = [req EXCEPT ![h] = state]
At(h, stage) == req[h].stage = stage

-----------------------------------------------------------------------------
(* sendEmailCode()                                                         *)

\* The address has no account.
SendCode(h) ==
  /\ At(h, "idle")
  /\ ~account
  /\ Goto(h, [stage |-> "count"])
  /\ UNCHANGED <<keys, account, firstUse, spent>>

\* incr(), whose counts past the limit are not told apart; then the request
\* sets the TTL of a new counter, goes on to its code, or ends with 429.
SlideWindow(h) ==   \* mutant: EXPIRE with every INCR
  /\ At(h, "count")
  /\ send' = Expire(IF send.count > MaxSend THEN send ELSE Incr(send), SendWindow)
  /\ Goto(h, IF send'.count > MaxSend THEN Idle ELSE [stage |-> "code"])
  /\ UNCHANGED <<codeTtl, attempt, verified, account, firstUse, spent>>

CountSend(h) ==
  /\ At(h, "count")
  /\ send' = IF send.count > MaxSend THEN send ELSE Incr(send)
  /\ Goto(h, CASE send'.count = 1       -> [stage |-> "window"]
               [] send'.count > MaxSend -> Idle
               [] OTHER                 -> [stage |-> "code"])
  /\ UNCHANGED <<codeTtl, attempt, verified, account, firstUse, spent>>

SkipExpire(h) ==   \* mutant: INCR alone
  /\ At(h, "window")
  /\ Goto(h, [stage |-> "code"])
  /\ UNCHANGED <<keys, account, firstUse, spent>>

ExpireSends(h) ==
  /\ At(h, "window")
  /\ send' = Expire(send, SendWindow)
  /\ Goto(h, [stage |-> "code"])
  /\ UNCHANGED <<codeTtl, attempt, verified, account, firstUse, spent>>

PutCode(h) ==
  /\ At(h, "code")
  /\ codeTtl' = CodeTime
  /\ Goto(h, [stage |-> "reset"])
  /\ UNCHANGED <<attempt, send, verified, account, firstUse, spent>>

\* The attempts at the code before; the mail follows, and changes nothing here.
KeepAttempts(h) ==   \* mutant: no DEL of the counter
  /\ At(h, "reset")
  /\ Goto(h, Idle)
  /\ UNCHANGED <<keys, account, firstUse, spent>>

ResetAttempts(h) ==
  /\ At(h, "reset")
  /\ attempt' = NoCounter
  /\ Goto(h, Idle)
  /\ UNCHANGED <<codeTtl, send, verified, account, firstUse, spent>>

-----------------------------------------------------------------------------
(* verifyEmailCode()                                                       *)

\* GET of the code.  What it is compared with later is the value read here, so
\* that a request may be right about a code that is gone by then; whether it is
\* comes out at Reject or Accept.
VerifyCode(h) ==
  /\ At(h, "idle")
  /\ Goto(h, [stage |-> IF codeTtl = 0 THEN "missing" ELSE "attempt"])
  /\ UNCHANGED <<keys, account, firstUse, spent>>

\* CODE_EXPIRED when the send counter exists, CODE_NOT_FOUND otherwise.
AnswerMissing(h) ==
  /\ At(h, "missing")
  /\ Goto(h, Idle)
  /\ UNCHANGED <<keys, account, firstUse, spent>>

AfterCount(count) == [stage |-> IF count > MaxAttempt THEN "drop" ELSE "compare"]

CountAttempt(h) ==
  /\ At(h, "attempt")
  /\ attempt' = IF attempt.count > MaxAttempt THEN attempt ELSE Incr(attempt)
  /\ Goto(h, IF attempt'.count = 1 THEN [stage |-> "age"] ELSE AfterCount(attempt'.count))
  /\ UNCHANGED <<codeTtl, send, verified, account, firstUse, spent>>

ExpireAttempts(h) ==
  /\ At(h, "age")
  /\ attempt' = Expire(attempt, CodeTime)
  /\ Goto(h, AfterCount(1))
  /\ UNCHANGED <<codeTtl, send, verified, account, firstUse, spent>>

\* Too many attempts: DEL of whatever code is there.
DropCode(h) ==
  /\ At(h, "drop")
  /\ codeTtl' = 0
  /\ Goto(h, Idle)
  /\ UNCHANGED <<attempt, send, verified, account, firstUse, spent>>

Reject(h) ==
  /\ At(h, "compare")
  /\ Goto(h, Idle)
  /\ UNCHANGED <<keys, account, firstUse, spent>>

Accept(h) ==
  /\ At(h, "compare")
  /\ codeTtl' = 0
  /\ attempt' = NoCounter
  /\ Goto(h, [stage |-> "mark"])
  /\ UNCHANGED <<send, verified, account, firstUse, spent>>

Mark(h) ==
  /\ At(h, "mark")
  /\ verified' = VerifiedTime
  /\ spent' = 0
  /\ Goto(h, Idle)
  /\ UNCHANGED <<codeTtl, attempt, send, account, firstUse>>

-----------------------------------------------------------------------------
(* signup()                                                                *)

\* DEL of the marker lets one request in.
SignUpAnyway(h) ==   \* mutant: EXISTS, and the marker is left to expire
  /\ At(h, "idle")
  /\ verified > 0
  /\ spent' = spent + 1
  /\ Goto(h, [stage |-> "check"])
  /\ UNCHANGED <<keys, account, firstUse>>

SignUp(h) ==
  /\ At(h, "idle")
  /\ verified > 0
  /\ verified' = 0
  /\ spent' = spent + 1
  /\ Goto(h, [stage |-> "check"])
  /\ UNCHANGED <<codeTtl, attempt, send, account, firstUse>>

CheckAccount(h) ==
  /\ At(h, "check")
  /\ Goto(h, IF account THEN Idle ELSE [stage |-> "create"])
  /\ UNCHANGED <<keys, account, firstUse, spent>>

\* INSERT; the address is unique.
CreateAccount(h) ==
  /\ At(h, "create")
  /\ account' = TRUE
  /\ Goto(h, IF account THEN Idle ELSE [stage |-> "first"])
  /\ UNCHANGED <<keys, firstUse, spent>>

PutFirstUse(h) ==
  /\ At(h, "first")
  /\ firstUse' = TRUE
  /\ Goto(h, Idle)
  /\ UNCHANGED <<keys, account, spent>>

-----------------------------------------------------------------------------

\* A call fails, or the process dies, and the request ends where it is.
Fail(h) ==
  /\ ~At(h, "idle")
  /\ req[h].stage \in {"window", "age", "reset"} => MayDie
  /\ Goto(h, Idle)
  /\ UNCHANGED <<keys, account, firstUse, spent>>

Down(t) == IF t > 0 THEN t - 1 ELSE 0

PassTime ==
  /\ codeTtl' = Down(codeTtl)
  /\ attempt' = Aged(attempt)
  /\ send' = Aged(send)
  /\ verified' = Down(verified)
  /\ UNCHANGED <<account, firstUse, req, spent>>

Arrive(h) == SendCode(h) \/ VerifyCode(h) \/ SignUp(h)

Proceed(h) ==
  \/ CountSend(h) \/ ExpireSends(h) \/ PutCode(h) \/ ResetAttempts(h)
  \/ AnswerMissing(h) \/ CountAttempt(h) \/ ExpireAttempts(h)
  \/ DropCode(h) \/ Reject(h) \/ Accept(h) \/ Mark(h)
  \/ CheckAccount(h) \/ CreateAccount(h) \/ PutFirstUse(h)

Next ==
  \/ \E h \in Handler : Arrive(h) \/ Proceed(h) \/ Fail(h)
  \/ PassTime

Spec == Init /\ [][Next]_vars

-----------------------------------------------------------------------------
(* Properties.                                                             *)

\* A verification lets one signup in, however many requests try at once: "the
\* marker that signup consumes" (auth.service.ts:149).
MarkerUsedOnce == spent <= 1

\* A counter without a TTL is one whose EXPIRE is on its way
\* (auth.service.ts:286), as long as no request fails between the two.
CountersExpire ==
  /\ Endless(send) => \E h \in Handler : At(h, "window")
  /\ Endless(attempt) => \E h \in Handler : At(h, "age")

\* The attempts at a code are counted for as long as it lives: the counter does
\* not expire and start again before the code does (auth.service.ts:131-133).
AttemptsOutliveCode ==
  codeTtl > 0 /\ attempt.ttl > 0 =>
    attempt.ttl >= codeTtl \/ \E h \in Handler : At(h, "reset")

=============================================================================
