---------------------------- MODULE AccountProofs ----------------------------
(***************************************************************************)
(* The account of an address, proved for every number of requests and      *)
(* logins at once, every limit and every time to live: its marker lets one *)
(* signup in, its counters go away, one login is told it is the first, and *)
(* logins pass the limit of wrong passwords by their own number at most.   *)
(***************************************************************************)
EXTENDS Account, FiniteSetTheorems, TLAPS

USE SignUpAssumption, AccountAssumption

-----------------------------------------------------------------------------
(* Types.                                                                  *)

Stages == {"idle", "count", "window", "code", "reset", "missing", "attempt", "age",
           "drop", "compare", "mark", "check", "create", "first"}

LoginStages == {"idle", "password", "expire", "issue", "first", "welcome", "answer"}

KeysOK ==
  /\ codeTtl \in 0..CodeTime /\ verified \in 0..VerifiedTime
  /\ attempt \in Counter(MaxAttempt + 1, CodeTime)
  /\ send \in Counter(MaxSend + 1, SendWindow)
  /\ account \in BOOLEAN /\ firstUse \in BOOLEAN /\ spent \in Nat

LoginsOK ==
  /\ fail \in [count : Nat, ttl : 0..LockTime]
  /\ login \in [Visitor -> [stage : LoginStages]]
  /\ told \in Nat

AccountTypeOK ==
  /\ KeysOK
  /\ req \in [Handler -> [stage : Stages]]
  /\ LoginsOK

LEMMA AgedCounter ==
  ASSUME NEW limit \in Nat, NEW time \in Nat, NEW c \in [count : Nat, ttl : 0..time]
  PROVE  /\ Aged(c) \in [count : Nat, ttl : 0..time]
         /\ Aged(c).ttl = Down(c.ttl)
         /\ Aged(c).count = c.count \/ Aged(c) = NoCounter
         /\ Endless(Aged(c)) => Endless(c)
         /\ c \in Counter(limit, time) => Aged(c) \in Counter(limit, time)
<1>1. CASE c.ttl = 0
  <2>1. Aged(c) = c
    BY <1>1 DEF Aged
  <2> QED BY <1>1, <2>1 DEF Down
<1>2. CASE c.ttl = 1
  <2>1. Aged(c) = NoCounter
    BY <1>2 DEF Aged
  <2> QED BY <1>2, <2>1 DEF Endless, Down, NoCounter, Counter
<1>3. CASE c.ttl > 1
  <2>1. Aged(c) = [c EXCEPT !.ttl = @ - 1]
    BY <1>3 DEF Aged
  <2>2. Aged(c).count = c.count /\ Aged(c).ttl = c.ttl - 1
        /\ Aged(c) = [count |-> c.count, ttl |-> c.ttl - 1]
    BY <2>1
  <2> QED BY <1>3, <2>2 DEF Endless, Down, Counter
<1> QED BY <1>1, <1>2, <1>3

\* A request, whatever it does, moves no other request.
SignUpStep(h) == (Arrive(h) \/ Proceed(h) \/ Fail(h)) /\ UNCHANGED loginVars

LoginStep(v) ==
  /\ L!Start(v) \/ L!CountFailure(v) \/ L!ExpireFailures(v) \/ Match(v)
       \/ L!TokensIssued(v) \/ L!TakeFirstUse(v) \/ L!Answer(v) \/ L!Fail(v)
  /\ UNCHANGED <<keys, account, req, spent>>

LEMMA AccountSteps ==
  ASSUME [AccountNext]_accountVars
  PROVE  \/ \E h \in Handler : SignUpStep(h)
         \/ \E v \in Visitor : LoginStep(v)
         \/ Elapse
         \/ UNCHANGED accountVars
BY DEF AccountNext, Apply, ProceedWith, GiveUp, Enter, LoginProceeds, LoginFails,
       SignUpStep, LoginStep

LEMMA OneRequestMoves ==
  ASSUME AccountTypeOK, NEW h \in Handler, SignUpStep(h)
  PROVE  /\ req' \in [Handler -> [stage : Stages]]
         /\ \A g \in Handler : g # h => req'[g] = req[g]
<1>1. PICK s \in Stages : req' = [req EXCEPT ![h] = [stage |-> s]]
  <2>1. CASE Arrive(h)
    BY <2>1 DEF Arrive, SendCode, VerifyCode, SignUp, Goto, Stages
  <2>2. CASE Proceed(h)
    BY <2>2 DEF Proceed, CountSend, ExpireSends, PutCode, ResetAttempts,
                AnswerMissing, CountAttempt, ExpireAttempts, DropCode, Reject, Accept,
                Mark, CheckAccount, CreateAccount, PutFirstUse, AfterCount, Goto,
                Stages, Idle
  <2>3. CASE Fail(h)
    BY <2>3 DEF Fail, Goto, Stages, Idle
  <2> QED BY <2>1, <2>2, <2>3 DEF SignUpStep
<1> QED BY <1>1 DEF AccountTypeOK

LEMMA OneLoginMoves ==
  ASSUME AccountTypeOK, NEW v \in Visitor, LoginStep(v)
  PROVE  /\ login' \in [Visitor -> [stage : LoginStages]]
         /\ \A w \in Visitor : w # v => login'[w] = login[w]
<1>1. PICK s \in LoginStages : login' = [login EXCEPT ![v] = [stage |-> s]]
  BY DEF LoginStep, Match, L!Start, L!CountFailure, L!ExpireFailures, L!ForgiveFailures,
         L!TokensIssued, L!TakeFirstUse, L!Answer, L!Fail, L!Goto, L!Idle, LoginStages
<1> QED BY <1>1 DEF AccountTypeOK, LoginsOK

LEMMA SignUpKeepsKeys ==
  ASSUME AccountTypeOK, NEW h \in Handler, SignUpStep(h)
  PROVE  KeysOK'
<1>1. CASE Arrive(h)
  BY <1>1 DEF Arrive, SendCode, VerifyCode, SignUp, AccountTypeOK, KeysOK, keys
<1>2. CASE Fail(h)
  BY <1>2 DEF Fail, AccountTypeOK, KeysOK, keys
<1>3. CASE CountSend(h)
  BY <1>3 DEF CountSend, AccountTypeOK, KeysOK, Counter, Incr
<1>4. CASE CountAttempt(h)
  BY <1>4 DEF CountAttempt, AccountTypeOK, KeysOK, Counter, Incr
<1>5. CASE ExpireSends(h)
  BY <1>5 DEF ExpireSends, AccountTypeOK, KeysOK, Counter, Expire
<1>6. CASE ExpireAttempts(h)
  BY <1>6 DEF ExpireAttempts, AccountTypeOK, KeysOK, Counter, Expire
<1>7. CASE ResetAttempts(h) \/ Accept(h)
  BY <1>7 DEF ResetAttempts, Accept, AccountTypeOK, KeysOK, Counter, NoCounter
<1>8. CASE PutCode(h) \/ DropCode(h) \/ Mark(h)
  BY <1>8 DEF PutCode, DropCode, Mark, AccountTypeOK, KeysOK
<1>9. CASE AnswerMissing(h) \/ Reject(h) \/ CheckAccount(h) \/ CreateAccount(h) \/ PutFirstUse(h)
  BY <1>9 DEF AnswerMissing, Reject, CheckAccount, CreateAccount, PutFirstUse,
              AccountTypeOK, KeysOK, keys
<1> QED BY <1>1, <1>2, <1>3, <1>4, <1>5, <1>6, <1>7, <1>8, <1>9
       DEF SignUpStep, Proceed

LEMMA LoginKeepsCounter ==
  ASSUME AccountTypeOK, NEW v \in Visitor, LoginStep(v)
  PROVE  fail' \in [count : Nat, ttl : 0..LockTime] /\ told' \in Nat /\ firstUse' \in BOOLEAN
<1>0. fail \in [count : Nat, ttl : 0..LockTime] /\ told \in Nat /\ firstUse \in BOOLEAN
  BY DEF AccountTypeOK, LoginsOK, KeysOK
<1>1. CASE L!CountFailure(v)
  BY <1>0, <1>1 DEF L!CountFailure, L!Incr
<1>2. CASE L!ExpireFailures(v)
  BY <1>0, <1>2 DEF L!ExpireFailures, L!Expire
<1>3. CASE Match(v)
  BY <1>0, <1>3 DEF Match, L!ForgiveFailures, L!NoCounter
<1>4. CASE L!TakeFirstUse(v)
  <2>1. firstUse' = FALSE
    BY <1>4 DEF L!TakeFirstUse
  <2>2. firstUse' \in BOOLEAN
    BY <2>1, Zenon
  <2>3. fail' = fail /\ told' = told
    BY <1>4 DEF L!TakeFirstUse
  <2> QED BY <1>0, <2>2, <2>3
<1>5. CASE L!Answer(v)
  BY <1>0, <1>5 DEF L!Answer
<1>6. CASE L!Start(v) \/ L!TokensIssued(v) \/ L!Fail(v)
  BY <1>0, <1>6 DEF L!Start, L!TokensIssued, L!Fail
<1> QED BY <1>1, <1>2, <1>3, <1>4, <1>5, <1>6 DEF LoginStep

\* The clock of Redis is one for all keys.
LEMMA ElapseAges ==
  ASSUME AccountTypeOK, Elapse
  PROVE  /\ attempt' = Aged(attempt) /\ send' = Aged(send) /\ fail' = Aged(fail)
         /\ codeTtl' = Down(codeTtl) /\ verified' = Down(verified)
         /\ wrong' = IF fail'.count = 0 THEN 0 ELSE wrong
         /\ UNCHANGED <<account, firstUse, req, spent, login, told>>
BY DEF Elapse, PassTime, L!PassTime, L!Aged, Aged, L!NoCounter, NoCounter

LEMMA TypesKept == AccountTypeOK /\ [AccountNext]_accountVars => AccountTypeOK'
<1> SUFFICES ASSUME AccountTypeOK, [AccountNext]_accountVars PROVE AccountTypeOK'
  OBVIOUS
<1>1. ASSUME NEW h \in Handler, SignUpStep(h) PROVE AccountTypeOK'
  BY <1>1, OneRequestMoves, SignUpKeepsKeys
     DEF AccountTypeOK, LoginsOK, SignUpStep, loginVars
<1>2. ASSUME NEW v \in Visitor, LoginStep(v) PROVE AccountTypeOK'
  <2>1. UNCHANGED <<keys, account, req, spent>>
    BY <1>2 DEF LoginStep
  <2> QED BY <1>2, <2>1, OneLoginMoves, LoginKeepsCounter
          DEF AccountTypeOK, KeysOK, LoginsOK, keys
<1>3. CASE Elapse
  <2>1. Aged(attempt) \in Counter(MaxAttempt + 1, CodeTime)
    BY AgedCounter DEF AccountTypeOK, KeysOK, Counter
  <2>2. Aged(send) \in Counter(MaxSend + 1, SendWindow)
    BY AgedCounter DEF AccountTypeOK, KeysOK, Counter
  <2>3. Aged(fail) \in [count : Nat, ttl : 0..LockTime]
    BY AgedCounter DEF AccountTypeOK, LoginsOK
  <2> QED BY <1>3, <2>1, <2>2, <2>3, ElapseAges DEF AccountTypeOK, KeysOK, LoginsOK, Down
<1>4. CASE UNCHANGED accountVars
  BY <1>4 DEF AccountTypeOK, KeysOK, LoginsOK, accountVars, vars, keys, loginVars
<1> QED BY <1>1, <1>2, <1>3, <1>4, AccountSteps

LEMMA TypesInitially == AccountInit => AccountTypeOK
<1> SUFFICES ASSUME AccountInit PROVE AccountTypeOK
  OBVIOUS
<1>1. KeysOK
  <2>1. account = FALSE /\ firstUse = FALSE
    BY DEF AccountInit, Init
  <2>2. NoCounter \in Counter(MaxAttempt + 1, CodeTime)
    BY DEF Counter, NoCounter
  <2>3. NoCounter \in Counter(MaxSend + 1, SendWindow)
    BY DEF Counter, NoCounter
  <2>4. codeTtl \in 0..CodeTime /\ verified \in 0..VerifiedTime /\ spent \in Nat
    BY DEF AccountInit, Init
  <2>5. attempt = NoCounter /\ send = NoCounter
    BY DEF AccountInit, Init
  <2>6. account \in BOOLEAN /\ firstUse \in BOOLEAN
    BY <2>1, Zenon
  <2> QED BY <2>2, <2>3, <2>4, <2>5, <2>6 DEF KeysOK
<1>2. req \in [Handler -> [stage : Stages]]
  BY DEF AccountInit, Init, Stages, Idle
<1>3. LoginsOK
  BY DEF AccountInit, LoginsOK, NoCounter, LoginStages, L!Idle
<1> QED BY <1>1, <1>2, <1>3 DEF AccountTypeOK

THEOREM AccountTypeCorrect == AccountSpec => []AccountTypeOK
BY TypesInitially, TypesKept, PTL DEF AccountSpec

-----------------------------------------------------------------------------
(* The marker of a verified address.                                       *)

\* While the marker is there nobody has been let in on it.
MarkerInv ==
  /\ spent \in {0, 1} /\ verified \in Nat
  /\ verified > 0 => spent = 0

LEMMA MarkerStep == MarkerInv /\ [AccountNext]_accountVars => MarkerInv'
<1> SUFFICES ASSUME MarkerInv, [AccountNext]_accountVars PROVE MarkerInv'
  OBVIOUS
<1>1. ASSUME NEW h \in Handler, SignUpStep(h) PROVE MarkerInv'
  <2>1. CASE SignUp(h)
    BY <2>1 DEF SignUp, MarkerInv
  <2>2. CASE Mark(h)
    BY <2>2 DEF Mark, MarkerInv
  <2>3. CASE UNCHANGED <<verified, spent>>
    BY <2>3 DEF MarkerInv
  <2> QED BY <1>1, <2>1, <2>2, <2>3
          DEF SignUpStep, Arrive, Proceed, SendCode, VerifyCode, CountSend, ExpireSends,
              PutCode, ResetAttempts, AnswerMissing, CountAttempt, ExpireAttempts,
              DropCode, Reject, Accept, CheckAccount, CreateAccount, PutFirstUse, Fail, keys
<1>2. CASE Elapse
  BY <1>2 DEF Elapse, PassTime, Down, MarkerInv
<1>3. CASE UNCHANGED <<verified, spent>>
  BY <1>3 DEF MarkerInv
<1> QED BY <1>1, <1>2, <1>3, AccountSteps DEF LoginStep, accountVars, vars, keys

\* One verification is good for one signup: the DEL of the marker and the check
\* that it was there are one call, so that of many signups one goes on.
THEOREM MarkerLetsOneIn == AccountSpec => []MarkerUsedOnce
<1>1. AccountInit => MarkerInv
  BY DEF AccountInit, Init, MarkerInv
<1>2. MarkerInv => MarkerUsedOnce
  BY DEF MarkerInv, MarkerUsedOnce
<1> QED BY <1>1, <1>2, MarkerStep, PTL DEF AccountSpec

-----------------------------------------------------------------------------
(* Counters.                                                               *)

\* Which counters a request of signup touches, and from which stage.
LEMMA CounterSteps ==
  ASSUME NEW h \in Handler, SignUpStep(h)
  PROVE  /\ \/ CountSend(h) \/ ExpireSends(h)
            \/ send' = send /\ (At(h, "window") => MayDie)
         /\ \/ CountAttempt(h) \/ ExpireAttempts(h) \/ ResetAttempts(h) \/ Accept(h)
            \/ attempt' = attempt /\ (At(h, "age") => MayDie)
         /\ \/ ResetAttempts(h)
            \/ At(h, "reset") => MayDie
         /\ codeTtl' = codeTtl \/ PutCode(h) \/ codeTtl' = 0
BY DEF SignUpStep, Arrive, Proceed, SendCode, VerifyCode, SignUp, CountSend, ExpireSends,
       PutCode, ResetAttempts, AnswerMissing, CountAttempt, ExpireAttempts, DropCode,
       Reject, Accept, Mark, CheckAccount, CreateAccount, PutFirstUse, Fail, At, keys

LEMMA SendsExpire ==
  ASSUME ~MayDie, AccountTypeOK, CountersExpire, NEW h \in Handler, SignUpStep(h)
  PROVE  (Endless(send) => \E g \in Handler : At(g, "window"))'
<1>1. CASE CountSend(h)
  <2>1. CASE send'.count = 1
    BY <1>1, <2>1 DEF CountSend, Goto, At, AccountTypeOK
  <2>2. CASE send'.count # 1
    <3>1. Endless(send') => Endless(send)
      BY <1>1, <2>2 DEF CountSend, Incr, Endless, AccountTypeOK, KeysOK, Counter
    <3>2. \A g \in Handler : At(g, "window") => At(g, "window")'
      BY <1>1, OneRequestMoves DEF CountSend, At
    <3> QED BY <3>1, <3>2 DEF CountersExpire, Endless
  <2> QED BY <2>1, <2>2
<1>2. CASE ExpireSends(h)
  <2>1. ~ Endless(send')
    BY <1>2 DEF ExpireSends, Expire, Endless, AccountTypeOK, KeysOK, Counter
  <2> QED BY <2>1 DEF Endless
<1>3. CASE send' = send /\ (At(h, "window") => MayDie)
  <2>1. \A g \in Handler : At(g, "window") => At(g, "window")'
    BY <1>3, OneRequestMoves DEF At
  <2> QED BY <1>3, <2>1 DEF CountersExpire, Endless
<1> QED BY <1>1, <1>2, <1>3, CounterSteps

LEMMA AttemptsExpire ==
  ASSUME ~MayDie, AccountTypeOK, CountersExpire, NEW h \in Handler, SignUpStep(h)
  PROVE  (Endless(attempt) => \E g \in Handler : At(g, "age"))'
<1>1. CASE CountAttempt(h)
  <2>1. CASE attempt'.count = 1
    BY <1>1, <2>1 DEF CountAttempt, Goto, At, AccountTypeOK
  <2>2. CASE attempt'.count # 1
    <3>1. Endless(attempt') => Endless(attempt)
      BY <1>1, <2>2 DEF CountAttempt, Incr, Endless, AccountTypeOK, KeysOK, Counter
    <3>2. \A g \in Handler : At(g, "age") => At(g, "age")'
      BY <1>1, OneRequestMoves DEF CountAttempt, At
    <3> QED BY <3>1, <3>2 DEF CountersExpire, Endless
  <2> QED BY <2>1, <2>2
<1>2. CASE ExpireAttempts(h) \/ ResetAttempts(h) \/ Accept(h)
  <2>1. ~ Endless(attempt')
    BY <1>2 DEF ExpireAttempts, ResetAttempts, Accept, Expire, Endless, NoCounter,
                AccountTypeOK, KeysOK, Counter
  <2> QED BY <2>1 DEF Endless
<1>3. CASE attempt' = attempt /\ (At(h, "age") => MayDie)
  <2>1. \A g \in Handler : At(g, "age") => At(g, "age")'
    BY <1>3, OneRequestMoves DEF At
  <2> QED BY <1>3, <2>1 DEF CountersExpire, Endless
<1> QED BY <1>1, <1>2, <1>3, CounterSteps

LEMMA CountersStep ==
  ASSUME ~MayDie, AccountTypeOK, CountersExpire, [AccountNext]_accountVars
  PROVE  CountersExpire'
<1>1. CASE Elapse
  <2>1. Endless(send') => Endless(send)
    <3>1. send \in [count : Nat, ttl : 0..SendWindow]
      BY DEF AccountTypeOK, KeysOK, Counter
    <3> QED BY <1>1, <3>1, ElapseAges, AgedCounter
  <2>2. Endless(attempt') => Endless(attempt)
    <3>1. attempt \in [count : Nat, ttl : 0..CodeTime]
      BY DEF AccountTypeOK, KeysOK, Counter
    <3> QED BY <1>1, <3>1, ElapseAges, AgedCounter
  <2>3. req' = req
    BY <1>1, ElapseAges
  <2> QED BY <2>1, <2>2, <2>3 DEF CountersExpire, At, Endless
<1>2. CASE UNCHANGED <<keys, req>>
  BY <1>2 DEF CountersExpire, At, Endless, keys
<1>3. ASSUME NEW h \in Handler, SignUpStep(h) PROVE CountersExpire'
  BY <1>3, SendsExpire, AttemptsExpire DEF CountersExpire
<1> QED BY <1>1, <1>2, <1>3, AccountSteps DEF LoginStep, accountVars, vars, keys

\* If a request never ends between INCR and EXPIRE, every counter of the address
\* has its TTL or is about to get it.
THEOREM CountersGetTtl == ~MayDie /\ AccountSpec => []CountersExpire
<1>1. AccountInit => CountersExpire
  BY DEF AccountInit, Init, CountersExpire, Endless, NoCounter
<1>2. ~MayDie /\ AccountTypeOK /\ CountersExpire /\ [AccountNext]_accountVars => CountersExpire'
  BY CountersStep
<1>3. CASE ~MayDie
  <2>1. AccountTypeOK /\ CountersExpire /\ [AccountNext]_accountVars => CountersExpire'
    BY <1>2, <1>3
  <2> QED BY <1>1, <2>1, AccountTypeCorrect, PTL DEF AccountSpec
<1>4. CASE MayDie
  BY <1>4
<1> QED BY <1>3, <1>4

LEMMA AttemptsStep ==
  ASSUME ~MayDie, AccountTypeOK, AttemptsOutliveCode, [AccountNext]_accountVars
  PROVE  AttemptsOutliveCode'
<1>0. /\ codeTtl \in 0..CodeTime /\ attempt \in [count : Nat, ttl : 0..CodeTime]
      /\ attempt.ttl \in 0..CodeTime
  BY DEF AccountTypeOK, KeysOK, Counter
<1>1. CASE Elapse
  <2>1. /\ attempt'.ttl = Down(attempt.ttl) /\ codeTtl' = Down(codeTtl)
        /\ req' = req
    BY <1>0, <1>1, ElapseAges, AgedCounter
  <2> QED BY <1>0, <2>1 DEF AttemptsOutliveCode, Down, At
<1>2. CASE UNCHANGED <<keys, req>>
  BY <1>2 DEF AttemptsOutliveCode, At, keys
<1>3. ASSUME NEW h \in Handler, SignUpStep(h) PROVE AttemptsOutliveCode'
  <2>1. CASE PutCode(h)
    <3>1. At(h, "reset")'
      BY <2>1 DEF PutCode, Goto, At, AccountTypeOK
    <3> QED BY <3>1 DEF AttemptsOutliveCode
  <2>2. CASE ResetAttempts(h) \/ Accept(h)
    <3>1. attempt'.ttl = 0
      BY <2>2 DEF ResetAttempts, Accept, NoCounter
    <3> QED BY <3>1 DEF AttemptsOutliveCode
  <2>3. CASE codeTtl' = 0
    BY <2>3 DEF AttemptsOutliveCode
  <2>4. CASE /\ codeTtl' = codeTtl
             /\ CountAttempt(h) \/ ExpireAttempts(h) \/ attempt' = attempt
             /\ ~ At(h, "reset")
    <3>1. \A g \in Handler : At(g, "reset") => At(g, "reset")'
      BY <1>3, <2>4, OneRequestMoves DEF At
    <3>2. attempt'.ttl = attempt.ttl \/ attempt'.ttl = CodeTime
      BY <1>0, <2>4 DEF CountAttempt, ExpireAttempts, Incr, Expire
    <3> QED BY <1>0, <2>4, <3>1, <3>2 DEF AttemptsOutliveCode
  <2> QED BY <1>3, <2>1, <2>2, <2>3, <2>4, CounterSteps
<1> QED BY <1>1, <1>2, <1>3, AccountSteps DEF LoginStep, accountVars, vars, keys

\* The counter of attempts lives as long as the code it counts for, if a request
\* always comes from its SET to its DEL; at worst that DEL is still to come.
THEOREM AttemptsCountedOn == ~MayDie /\ AccountSpec => []AttemptsOutliveCode
<1>1. AccountInit => AttemptsOutliveCode
  BY DEF AccountInit, Init, AttemptsOutliveCode
<1>2. CASE ~MayDie
  <2>1. AccountTypeOK /\ AttemptsOutliveCode /\ [AccountNext]_accountVars
          => AttemptsOutliveCode'
    BY <1>2, AttemptsStep
  <2> QED BY <1>1, <2>1, AccountTypeCorrect, PTL DEF AccountSpec
<1>3. CASE MayDie
  BY <1>3
<1> QED BY <1>2, <1>3

LEMMA LoginCounterStep ==
  ASSUME ~MayDie, AccountTypeOK, L!CounterExpires, [AccountNext]_accountVars
  PROVE  L!CounterExpires'
<1>0. /\ fail \in [count : Nat, ttl : 0..LockTime]
      /\ login \in [Visitor -> [stage : LoginStages]]
  BY DEF AccountTypeOK, LoginsOK
<1>1. ASSUME NEW v \in Visitor, LoginStep(v) PROVE L!CounterExpires'
  <2>1. CASE L!CountFailure(v)
    <3>1. CASE fail'.count = 1
      BY <1>0, <2>1, <3>1 DEF L!CountFailure, L!Goto, L!CounterExpires
    <3>2. CASE fail'.count # 1
      <4>1. fail.count > 0 /\ fail'.ttl = fail.ttl /\ fail.ttl \in Nat
        BY <1>0, <2>1, <3>2 DEF L!CountFailure, L!Incr
      <4>2. \A w \in Visitor : login[w].stage = "expire" => login'[w].stage = "expire"
        BY <1>1, <2>1, OneLoginMoves DEF L!CountFailure
      <4> QED BY <4>1, <4>2 DEF L!CounterExpires, L!Endless
    <3> QED BY <3>1, <3>2
  <2>2. CASE L!ExpireFailures(v)
    <3>1. ~ (fail'.count > 0 /\ fail'.ttl = 0)
      BY <1>0, <2>2 DEF L!ExpireFailures, L!Expire
    <3> QED BY <3>1 DEF L!CounterExpires, L!Endless
  <2>3. CASE Match(v)
    BY <2>3 DEF Match, L!ForgiveFailures, L!NoCounter, L!CounterExpires, L!Endless
  <2>4. CASE \/ L!Start(v) \/ L!TokensIssued(v) \/ L!TakeFirstUse(v)
             \/ L!Answer(v) \/ L!Fail(v)
    <3>1. fail' = fail /\ login[v].stage # "expire"
      BY <2>4 DEF L!Start, L!TokensIssued, L!TakeFirstUse, L!Answer, L!Fail
    <3>2. \A w \in Visitor : login[w].stage = "expire" => login'[w].stage = "expire"
      BY <1>1, <3>1, OneLoginMoves
    <3> QED BY <3>1, <3>2 DEF L!CounterExpires, L!Endless
  <2> QED BY <1>1, <2>1, <2>2, <2>3, <2>4 DEF LoginStep
<1>2. CASE Elapse
  <2>1. Endless(fail') => Endless(fail)
    BY <1>0, <1>2, ElapseAges, AgedCounter
  <2> QED BY <1>2, <2>1, ElapseAges DEF L!CounterExpires, L!Endless, Endless
<1>3. CASE UNCHANGED loginVars
  BY <1>3 DEF loginVars, L!CounterExpires, L!Endless
<1> QED BY <1>1, <1>2, <1>3, AccountSteps DEF SignUpStep, accountVars

\* The same of the counter that locks an account: without a login that ends
\* between INCR and EXPIRE, no account is locked for good.
THEOREM LoginCounterGetsTtl == ~MayDie /\ AccountSpec => []L!CounterExpires
<1>1. AccountInit => L!CounterExpires
  BY DEF AccountInit, L!CounterExpires, L!Endless, NoCounter
<1>2. CASE ~MayDie
  <2>1. AccountTypeOK /\ L!CounterExpires /\ [AccountNext]_accountVars => L!CounterExpires'
    BY <1>2, LoginCounterStep
  <2> QED BY <1>1, <2>1, AccountTypeCorrect, PTL DEF AccountSpec
<1>3. CASE MayDie
  BY <1>3
<1> QED BY <1>2, <1>3

-----------------------------------------------------------------------------
(* The first login.  There is one marker first_use at most: on its way, or *)
(* there, or taken by a login that has not answered yet; it is gone for    *)
(* good once that login has answered or failed.                            *)

Welcome(v) == login[v].stage = "welcome"

FirstInv ==
  /\ firstUse \/ told # 0 => account
  /\ firstUse => told = 0
  /\ \A h \in Handler : At(h, "first") => account /\ ~firstUse /\ told = 0
  /\ \A g, h \in Handler : At(g, "first") /\ At(h, "first") => g = h
  /\ \A v \in Visitor : Welcome(v) =>
       /\ account /\ ~firstUse /\ told = 0
       /\ \A h \in Handler : ~At(h, "first")
       /\ \A w \in Visitor : Welcome(w) => w = v

\* Who touches the account and its marker.
LEMMA FirstUseSteps ==
  ASSUME AccountTypeOK, NEW h \in Handler, SignUpStep(h)
  PROVE  \/ CreateAccount(h) \/ PutFirstUse(h)
         \/ /\ account' = account /\ firstUse' = firstUse
            /\ ~ At(h, "first")'
<1>1. CASE Arrive(h)
  BY <1>1 DEF Arrive, SendCode, VerifyCode, SignUp, Goto, At, AccountTypeOK
<1>2. CASE Fail(h)
  BY <1>2 DEF Fail, Goto, At, AccountTypeOK, Idle
<1>3. CASE Proceed(h) /\ ~CreateAccount(h) /\ ~PutFirstUse(h)
  BY <1>3 DEF Proceed, CountSend, ExpireSends, PutCode, ResetAttempts, AnswerMissing,
              CountAttempt, ExpireAttempts, DropCode, Reject, Accept, Mark, CheckAccount,
              AfterCount, Goto, At, AccountTypeOK, Idle
<1> QED BY <1>1, <1>2, <1>3 DEF SignUpStep

\* Who touches the marker, and what is owed on it.
LEMMA WelcomeSteps ==
  ASSUME AccountTypeOK, NEW v \in Visitor, LoginStep(v)
  PROVE  /\ account' = account /\ req' = req
         /\ \A w \in Visitor : w # v => (Welcome(w)' <=> Welcome(w))
         /\ \/ /\ L!TakeFirstUse(v) /\ ~firstUse' /\ told' = told
               /\ login[v].stage = "first" /\ (Welcome(v)' <=> firstUse)
            \/ /\ L!Answer(v) /\ firstUse' = firstUse /\ ~Welcome(v)'
               /\ Welcome(v) => told' = told + 1
               /\ ~Welcome(v) => told' = told
            \/ firstUse' = firstUse /\ told' = told /\ ~Welcome(v)'
<1>1. login \in [Visitor -> [stage : LoginStages]]
  BY DEF AccountTypeOK, LoginsOK
<1>2. account' = account /\ req' = req
  BY DEF LoginStep
<1>3. \A w \in Visitor : w # v => (Welcome(w)' <=> Welcome(w))
  BY OneLoginMoves DEF Welcome
<1>4. CASE L!TakeFirstUse(v)
  BY <1>1, <1>2, <1>3, <1>4 DEF L!TakeFirstUse, L!Goto, Welcome
<1>5. CASE L!Answer(v)
  BY <1>1, <1>2, <1>3, <1>5 DEF L!Answer, L!Goto, L!Idle, Welcome
<1>6. CASE \/ L!Start(v) \/ L!CountFailure(v) \/ L!ExpireFailures(v) \/ Match(v)
           \/ L!TokensIssued(v) \/ L!Fail(v)
  <2>1. firstUse' = firstUse /\ told' = told
    BY <1>6 DEF L!Start, L!CountFailure, L!ExpireFailures, Match, L!ForgiveFailures,
                L!TokensIssued, L!Fail
  <2>2. ~Welcome(v)'
    BY <1>1, <1>6 DEF L!Start, L!CountFailure, L!ExpireFailures, Match,
       L!ForgiveFailures, L!TokensIssued, L!Fail, L!Goto, L!Idle, Welcome
  <2> QED BY <1>2, <1>3, <2>1, <2>2
<1> QED BY <1>4, <1>5, <1>6 DEF LoginStep

LEMMA FirstStep ==
  ASSUME AccountTypeOK, FirstInv, [AccountNext]_accountVars
  PROVE  FirstInv'
<1>1. ASSUME NEW h \in Handler, SignUpStep(h) PROVE FirstInv'
  <2>0. /\ told' = told /\ \A v : Welcome(v)' <=> Welcome(v)
        /\ \A g \in Handler : g # h => req'[g] = req[g]
    BY <1>1, OneRequestMoves DEF SignUpStep, loginVars, Welcome
  <2>1. CASE CreateAccount(h)
    <3>1. CASE account
      BY <2>0, <2>1, <3>1 DEF CreateAccount, Goto, At, Idle, FirstInv, AccountTypeOK
    <3>2. CASE ~account
      BY <2>0, <2>1, <3>2 DEF CreateAccount, Goto, At, FirstInv, AccountTypeOK
    <3> QED BY <3>1, <3>2
  <2>2. CASE PutFirstUse(h)
    BY <2>0, <2>2 DEF PutFirstUse, Goto, At, Idle, FirstInv, AccountTypeOK
  <2>3. CASE account' = account /\ firstUse' = firstUse /\ ~ At(h, "first")'
    BY <2>0, <2>3 DEF At, FirstInv
  <2> QED BY <1>1, <2>1, <2>2, <2>3, FirstUseSteps
<1>2. ASSUME NEW v \in Visitor, LoginStep(v) PROVE FirstInv'
  <2>1. account' = account /\ told \in Nat /\ \A h, s : At(h, s)' <=> At(h, s)
    BY <1>2, WelcomeSteps DEF At, AccountTypeOK, LoginsOK
  <2>2. CASE firstUse /\ Welcome(v)'
    BY <1>2, <2>1, <2>2, WelcomeSteps DEF FirstInv
  <2>3. CASE Welcome(v) /\ ~Welcome(v)'
    BY <1>2, <2>1, <2>3, WelcomeSteps DEF FirstInv
  <2>4. CASE Welcome(v) /\ Welcome(v)'
    BY <1>2, <2>1, <2>4, WelcomeSteps DEF FirstInv
  <2>5. CASE ~Welcome(v) /\ ~Welcome(v)'
    BY <1>2, <2>1, <2>5, WelcomeSteps DEF FirstInv
  <2> QED BY <1>2, <2>2, <2>3, <2>4, <2>5, WelcomeSteps
<1>3. CASE UNCHANGED <<account, firstUse, req, login, told>>
  BY <1>3 DEF FirstInv, At, Welcome
<1> QED BY <1>1, <1>2, <1>3, AccountSteps, ElapseAges DEF accountVars, vars, loginVars

\* Of all logins of an account one at most is told that it is the first, none
\* before the account is there, and the marker goes only to a login that has its
\* tokens.
THEOREM FirstLoginTold == AccountSpec => FirstLoginAnswered
<1>1. AccountInit => FirstInv
  BY DEF AccountInit, Init, FirstInv, At, Idle, Welcome, L!Idle
<1>2. AccountTypeOK /\ FirstInv /\ [AccountNext]_accountVars =>
        [ /\ firstUse /\ ~firstUse' =>
               \E v \in Visitor : login[v].stage = "first" /\ login'[v].stage = "welcome"
          /\ told' # told => told = 0 /\ account ]_accountVars
  <2> SUFFICES ASSUME AccountTypeOK, FirstInv, AccountNext
               PROVE  /\ firstUse /\ ~firstUse' =>
                           \E v \in Visitor :
                             login[v].stage = "first" /\ login'[v].stage = "welcome"
                      /\ told' # told => told = 0 /\ account
    OBVIOUS
  <2>1. ASSUME NEW h \in Handler, SignUpStep(h) PROVE told' = told /\ (firstUse => firstUse')
    <3>1. told' = told
      BY <2>1 DEF SignUpStep, loginVars
    <3>2. firstUse => firstUse'
      BY <2>1, FirstUseSteps DEF CreateAccount, PutFirstUse
    <3> QED BY <3>1, <3>2
  <2>2. ASSUME NEW v \in Visitor, LoginStep(v)
        PROVE  /\ firstUse /\ ~firstUse' =>
                    login[v].stage = "first" /\ login'[v].stage = "welcome"
               /\ told' # told => told = 0 /\ account
    <3>1. firstUse /\ ~firstUse' => login[v].stage = "first" /\ Welcome(v)'
      BY <2>2, WelcomeSteps
    <3>2. told' # told => Welcome(v)
      BY <2>2, WelcomeSteps
    <3> QED BY <3>1, <3>2 DEF FirstInv, Welcome
  <2> QED BY <2>1, <2>2, AccountSteps, ElapseAges DEF accountVars, vars, loginVars
<1> QED BY <1>1, <1>2, FirstStep, AccountTypeCorrect, PTL DEF AccountSpec, FirstLoginAnswered

-----------------------------------------------------------------------------
(* Wrong passwords.  The bound is not inductive: a login that saw the      *)
(* account unlocked is counted before it has tried its password.           *)

Trying == {v \in Visitor : login[v].stage = "password"}

WrongInv ==
  /\ wrong = fail.count
  /\ fail.count + Cardinality(Trying) <= L!MaxWrong

\* Login brings the same Cardinality with it.
LEMMA MaxWrongIs == L!MaxWrong = MaxFail + Cardinality(Visitor) - 1
<1>1. L!Cardinality(Visitor) = Cardinality(Visitor)
  BY DEF L!Cardinality, Cardinality
<1> QED BY <1>1 DEF L!MaxWrong

LEMMA TryingIsFinite ==
  /\ IsFiniteSet(Trying) /\ Cardinality(Trying) \in Nat
  /\ Cardinality(Visitor) \in Nat /\ Cardinality(Trying) <= Cardinality(Visitor)
<1>1. Trying \subseteq Visitor
  BY DEF Trying
<1> QED BY <1>1, FS_Subset, FS_CardinalityType

\* A login that leaves its password makes room for the failure it counts.
LEMMA TryingLoses ==
  ASSUME AccountTypeOK, NEW v \in Visitor, LoginStep(v), login[v].stage = "password",
         login'[v].stage # "password"
  PROVE  Cardinality(Trying') = Cardinality(Trying) - 1
<1>1. v \in Trying /\ Trying' = Trying \ {v}
  BY OneLoginMoves DEF Trying
<1> QED BY <1>1, TryingIsFinite, FS_RemoveElement

LEMMA WrongStep ==
  ASSUME AccountTypeOK, WrongInv, [AccountNext]_accountVars
  PROVE  WrongInv'
<1>0. /\ fail \in [count : Nat, ttl : 0..LockTime] /\ fail.count \in Nat
      /\ login \in [Visitor -> [stage : LoginStages]]
      /\ L!MaxWrong = MaxFail + Cardinality(Visitor) - 1 /\ MaxFail \in Nat
      /\ Cardinality(Trying) \in Nat /\ Cardinality(Visitor) \in Nat
  BY TryingIsFinite, MaxWrongIs DEF AccountTypeOK, LoginsOK
<1>1. ASSUME NEW v \in Visitor, L!Start(v), LoginStep(v) PROVE WrongInv'
  <2>1. Cardinality(Trying') <= Cardinality(Visitor) /\ Cardinality(Trying') \in Nat
    <3>1. Trying' \subseteq Visitor
      BY DEF Trying
    <3> QED BY <3>1, FS_Subset, FS_CardinalityType
  <2>2. fail' = fail /\ wrong' = wrong /\ fail.count < MaxFail
    BY <1>1 DEF L!Start
  <2> QED BY <1>0, <2>1, <2>2 DEF WrongInv, L!MaxWrong
<1>2. ASSUME NEW v \in Visitor, L!CountFailure(v), LoginStep(v) PROVE WrongInv'
  <2>1. login[v].stage = "password" /\ login'[v].stage # "password"
    BY <1>0, <1>2 DEF L!CountFailure, L!Goto, L!Idle
  <2>2. fail'.count = fail.count + 1 /\ wrong' = wrong + 1
    BY <1>0, <1>2 DEF L!CountFailure, L!Incr
  <2> QED BY <1>0, <1>2, <2>1, <2>2, TryingLoses DEF WrongInv, L!MaxWrong
<1>3. ASSUME NEW v \in Visitor, Match(v), LoginStep(v) PROVE WrongInv'
  <2>1. login[v].stage = "password" /\ login'[v].stage # "password"
    BY <1>0, <1>3 DEF Match, L!ForgiveFailures, L!Goto
  <2>2. fail'.count = 0 /\ wrong' = 0
    BY <1>3 DEF Match, L!ForgiveFailures, L!NoCounter
  <2> QED BY <1>0, <1>3, <2>1, <2>2, TryingLoses DEF WrongInv, L!MaxWrong
<1>4. ASSUME NEW v \in Visitor, LoginStep(v),
             \/ L!ExpireFailures(v) \/ L!TokensIssued(v)
             \/ L!TakeFirstUse(v) \/ L!Answer(v)
      PROVE  WrongInv'
  <2>1. Trying' = Trying
    <3>1. login[v].stage # "password" /\ login'[v].stage # "password"
      BY <1>0, <1>4 DEF L!ExpireFailures, L!TokensIssued, L!TakeFirstUse, L!Answer,
                        L!Goto, L!Idle
    <3> QED BY <1>4, <3>1, OneLoginMoves DEF Trying
  <2>2. fail'.count = fail.count /\ wrong' = wrong
    BY <1>0, <1>4 DEF L!ExpireFailures, L!TokensIssued, L!TakeFirstUse, L!Answer,
                      L!Expire
  <2> QED BY <2>1, <2>2 DEF WrongInv, L!MaxWrong
<1>5. ASSUME NEW v \in Visitor, L!Fail(v), LoginStep(v) PROVE WrongInv'
  <2>1. fail' = fail /\ wrong' = wrong /\ login'[v].stage = "idle"
    BY <1>0, <1>5 DEF L!Fail, L!Goto, L!Idle
  <2>2. CASE login[v].stage = "password"
    BY <1>0, <1>5, <2>1, <2>2, TryingLoses DEF WrongInv, L!MaxWrong
  <2>3. CASE login[v].stage # "password"
    <3>1. Trying' = Trying
      BY <1>5, <2>1, <2>3, OneLoginMoves DEF Trying
    <3> QED BY <2>1, <3>1 DEF WrongInv, L!MaxWrong
  <2> QED BY <2>2, <2>3
<1>6. CASE Elapse
  <2>1. fail'.count = fail.count \/ fail'.count = 0
    BY <1>0, <1>6, ElapseAges, AgedCounter DEF NoCounter
  <2>2. wrong' = (IF fail'.count = 0 THEN 0 ELSE wrong) /\ Trying' = Trying
    BY <1>6, ElapseAges DEF Trying
  <2> QED BY <1>0, <2>1, <2>2 DEF WrongInv, L!MaxWrong
<1>7. CASE UNCHANGED loginVars
  BY <1>7 DEF loginVars, WrongInv, Trying, L!MaxWrong
<1> QED BY <1>1, <1>2, <1>3, <1>4, <1>5, <1>6, <1>7, AccountSteps
        DEF SignUpStep, LoginStep, accountVars

\* Logins that run at once get past the limit of wrong passwords by their own
\* number and no further: for every limit and every number of logins.
THEOREM LoginsBounded == AccountSpec => []WrongPasswordsBounded
<1>1. AccountInit => WrongInv
  <2> SUFFICES ASSUME AccountInit PROVE WrongInv
    OBVIOUS
  <2>1. wrong = 0 /\ fail.count = 0 /\ MaxFail \in Nat \ {0}
    BY DEF AccountInit, NoCounter
  <2> QED BY <2>1, TryingIsFinite, MaxWrongIs DEF WrongInv
<1>2. AccountTypeOK /\ WrongInv => WrongPasswordsBounded
  <2> SUFFICES ASSUME AccountTypeOK, WrongInv PROVE WrongPasswordsBounded
    OBVIOUS
  <2>1. fail.count \in Nat
    BY DEF AccountTypeOK, LoginsOK
  <2> QED BY <2>1, TryingIsFinite, MaxWrongIs
          DEF WrongInv, WrongPasswordsBounded, L!WrongPasswordsBounded
<1> QED BY <1>1, <1>2, WrongStep, AccountTypeCorrect, PTL DEF AccountSpec

=============================================================================
