------------------------------- MODULE Account -------------------------------
(***************************************************************************)
(* The account of one address from its first code to its logins: SignUp    *)
(* and Login at work at the same time.  They share the row of the account, *)
(* the marker first_use, and the clock of Redis.  Before there is an       *)
(* account a login is a wrong password, and from the INSERT of signup on   *)
(* it may succeed, also before signup has put first_use.                   *)
(***************************************************************************)
EXTENDS SignUp, FiniteSets

CONSTANTS
  Visitor,   \* logins of the address that may be in progress at a time
  MaxFail,   \* LOGIN_MAX_FAIL_COUNT
  LockTime,  \* LOGIN_LOCK_DURATION
  MaxBusy    \* bound of the requests in progress, of either kind

ASSUME AccountAssumption ==
  /\ IsFiniteSet(Handler) /\ IsFiniteSet(Visitor)
  /\ MaxFail \in Nat \ {0}
  /\ LockTime \in Nat \ {0}
  /\ MaxBusy \in Nat \ {0}

VARIABLES
  fail,   \* auth:login:fail:{email}
  login,  \* where each login is
  wrong,  \* history: wrong passwords tried since the counter last went away
  told    \* history: logins that were answered isFirstLogin

loginVars   == <<fail, login, wrong, told>>
accountVars == <<vars, loginVars>>

L == INSTANCE Login WITH Handler <- Visitor, req <- login

AccountInit ==
  /\ Init
  /\ fail = NoCounter
  /\ login = [v \in Visitor |-> L!Idle]
  /\ wrong = 0
  /\ told = 0

MayArrive ==
  Cardinality({h \in Handler : ~At(h, "idle")})
    + Cardinality({v \in Visitor : login[v] # L!Idle}) < MaxBusy

Apply(h) ==
  /\ MayArrive
  /\ Arrive(h)
  /\ UNCHANGED loginVars

ProceedWith(h) == Proceed(h) /\ UNCHANGED loginVars

GiveUp(h) == Fail(h) /\ UNCHANGED loginVars

Enter(v) ==
  /\ MayArrive
  /\ L!Start(v)
  /\ UNCHANGED <<keys, account, req, spent>>

\* A password matches only that of an account.
Match(v) == account /\ L!ForgiveFailures(v)

LoginProceeds(v) ==
  /\ L!CountFailure(v) \/ L!ExpireFailures(v) \/ Match(v)
       \/ L!TokensIssued(v) \/ L!TakeFirstUse(v) \/ L!Answer(v)
  /\ UNCHANGED <<keys, account, req, spent>>

LoginFails(v) == L!Fail(v) /\ UNCHANGED <<keys, account, req, spent>>

\* Every key of the address lives in one Redis.
Elapse == PassTime /\ L!PassTime

AccountNext ==
  \/ \E h \in Handler : Apply(h) \/ ProceedWith(h) \/ GiveUp(h)
  \/ \E v \in Visitor : Enter(v) \/ LoginProceeds(v) \/ LoginFails(v)
  \/ Elapse

AccountSpec == AccountInit /\ [][AccountNext]_accountVars

\* Time passes, and a request once started comes to its end.
FairAccountSpec ==
  /\ AccountSpec
  /\ WF_accountVars(Elapse)
  /\ \A h \in Handler : WF_accountVars(ProceedWith(h))
  /\ \A v \in Visitor : WF_accountVars(LoginProceeds(v))

-----------------------------------------------------------------------------
(* Properties.                                                             *)

\* No more wrong passwords are tried than the limit and the logins at work allow.
WrongPasswordsBounded == L!WrongPasswordsBounded

\* One login at most is answered as the first of its account, and the marker goes
\* only to a login that has its tokens: "if issuing the token fails, first_use
\* stays, so that a retry is still the first login" (auth.service.ts:236).  Logins
\* that come before signup has put the marker are not told so, and do not use it
\* up; a login that ends between the DEL and its answer does, and nobody is told.
FirstLoginAnswered ==
  [][ /\ firstUse /\ ~firstUse' =>
           \E v \in Visitor : login[v].stage = "first" /\ login'[v].stage = "welcome"
      /\ told' # told => told = 0 /\ account ]_accountVars

\* Nobody stays blocked: an address that may not send any more may send again, and
\* the lock of an account ends, however often they are tried meanwhile.
BlocksEnd ==
  /\ send.count > MaxSend ~> send.count <= MaxSend
  /\ fail.count >= MaxFail ~> fail.count < MaxFail

=============================================================================
