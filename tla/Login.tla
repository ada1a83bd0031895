-------------------------------- MODULE Login --------------------------------
(***************************************************************************)
(* AuthService.login for one account: the counter of wrong passwords that  *)
(* locks it (auth:login:fail), and the marker first_use that signup has    *)
(* left for its first login.  A login is a chain of calls to Redis, and    *)
(* logins of the account interleave between them.  The refresh token it    *)
(* issues on the way is the subject of RefreshTokens.                      *)
(***************************************************************************)
EXTENDS Counter, FiniteSets

CONSTANTS
  Handler,   \* logins of the account that may be in progress at a time
  MaxFail,   \* LOGIN_MAX_FAIL_COUNT
  LockTime,  \* LOGIN_LOCK_DURATION, in units of the model's clock
  MayDie     \* whether a login may end between INCR and EXPIRE

VARIABLES
  fail,      \* auth:login:fail:{email}
  firstUse,  \* whether first_use:{userId} is there
  req,       \* where each login is
  wrong,     \* history: wrong passwords tried since the counter last went away
  told       \* history: logins that were answered isFirstLogin

vars == <<fail, firstUse, req, wrong, told>>

Idle == [stage |-> "idle"]

\* Signup has just created the account; the TTL of first_use, a month, is not
\* modelled.
Init ==
  /\ fail = NoCounter
  /\ firstUse = TRUE
  /\ req = [h \in Handler |-> Idle]
  /\ wrong = 0
  /\ told = 0

Goto(h, state) == req' = [req EXCEPT ![h] = state]

-----------------------------------------------------------------------------

StartAtLimit(h) ==   \* mutant: the count may reach the limit
  /\ req[h].stage = "idle"
  /\ fail.count <= MaxFail
  /\ Goto(h, [stage |-> "password"])
  /\ UNCHANGED <<fail, firstUse, wrong, told>>

\* GET: below the limit the password is looked at next; a locked account ends
\* the login here.
Start(h) ==
  /\ req[h].stage = "idle"
  /\ fail.count < MaxFail
  /\ Goto(h, [stage |-> "password"])
  /\ UNCHANGED <<fail, firstUse, wrong, told>>

\* INCR after a password that does not match, or no such user.
CountFailure(h) ==
  /\ req[h].stage = "password"
  /\ fail' = Incr(fail)
  /\ wrong' = wrong + 1
  /\ Goto(h, IF fail'.count = 1 THEN [stage |-> "expire"] ELSE Idle)
  /\ UNCHANGED <<firstUse, told>>

ExpireFailures(h) ==
  /\ req[h].stage = "expire"
  /\ fail' = Expire(fail, LockTime)
  /\ Goto(h, Idle)
  /\ UNCHANGED <<firstUse, wrong, told>>

\* DEL after a password that matches.
ForgiveFailures(h) ==
  /\ req[h].stage = "password"
  /\ fail' = NoCounter
  /\ wrong' = 0
  /\ Goto(h, [stage |-> "issue"])
  /\ UNCHANGED <<firstUse, told>>

\* issueRefreshToken returns.
TokensIssued(h) ==
  /\ req[h].stage = "issue"
  /\ Goto(h, [stage |-> "first"])
  /\ UNCHANGED <<fail, firstUse, wrong, told>>

\* DEL of first_use; the login that deleted the key is the first.
TakeUnlessGone(h) ==   \* mutant: EXISTS, and the key is left to expire
  /\ req[h].stage = "first"
  /\ Goto(h, [stage |-> IF firstUse THEN "welcome" ELSE "answer"])
  /\ UNCHANGED <<fail, firstUse, wrong, told>>

TakeFirstUse(h) ==
  /\ req[h].stage = "first"
  /\ firstUse' = FALSE
  /\ Goto(h, [stage |-> IF firstUse THEN "welcome" ELSE "answer"])
  /\ UNCHANGED <<fail, wrong, told>>

\* The answer, with isFirstLogin.
Answer(h) ==
  /\ req[h].stage \in {"welcome", "answer"}
  /\ told' = IF req[h].stage = "welcome" THEN told + 1 ELSE told
  /\ Goto(h, Idle)
  /\ UNCHANGED <<fail, firstUse, wrong>>

\* A call fails, or the process dies, and the login ends where it is; what a call
\* has done whose answer is lost stays done.
Fail(h) ==
  /\ req[h].stage # "idle"
  /\ req[h].stage = "expire" => MayDie
  /\ Goto(h, Idle)
  /\ UNCHANGED <<fail, firstUse, wrong, told>>

PassTime ==
  /\ fail' = Aged(fail)
  /\ wrong' = IF fail'.count = 0 THEN 0 ELSE wrong
  /\ UNCHANGED <<firstUse, req, told>>

LoginStep(h) ==
  \/ CountFailure(h) \/ ExpireFailures(h) \/ ForgiveFailures(h)
  \/ TokensIssued(h) \/ TakeFirstUse(h) \/ Answer(h) \/ Fail(h)

Next == (\E h \in Handler : Start(h) \/ LoginStep(h)) \/ PassTime

Spec == Init /\ [][Next]_vars

-----------------------------------------------------------------------------
(* Properties.                                                             *)

\* Logins that saw the account unlocked go on when it is locked meanwhile.
MaxWrong == MaxFail + Cardinality(Handler) - 1

\* Logins that run at the same time get past the limit only by their own
\* number: no more wrong passwords are tried before the account is locked or
\* the counter starts again.
WrongPasswordsBounded == wrong <= MaxWrong

\* "The counter goes up by one, and gets its TTL when it is created"
\* (auth.service.ts:286): a counter without a TTL is one whose EXPIRE is on its
\* way.
CounterExpires == Endless(fail) => \E h \in Handler : req[h].stage = "expire"

=============================================================================
