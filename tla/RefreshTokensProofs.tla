-------------------------- MODULE RefreshTokensProofs --------------------------
(***************************************************************************)
(* The refresh tokens of a user, proved for any number of requests and     *)
(* tokens and any lifetime: their types, the index that covers them, what  *)
(* a logout revokes, and the one heir of a login.                          *)
(***************************************************************************)
EXTENDS RefreshTokens, TLAPS

USE RefreshAssumption DEF Token

-----------------------------------------------------------------------------
(* Types.                                                                  *)

\* What a request carries, by the stage it has got to.
LEMMA RequestType ==
  ASSUME TypeOK, NEW h \in Handler
  PROVE  /\ req[h] \in Request
         /\ req[h].stage \in
              {"idle", "issue", "user", "consume", "srem", "smembers", "del"}
         /\ req[h].stage \in {"issue", "user"} => req[h].login \in 0..MaxToken
         /\ req[h].stage \in {"consume", "srem"} => req[h].token \in Token
         /\ req[h].stage = "del" => /\ req[h].hashes \subseteq Token
                                    /\ req[h].before \in 1..(MaxToken + 1)
BY DEF TypeOK, Request, Idle

\* A request that goes on leaves the others where they are.
LEMMA GotoType ==
  ASSUME TypeOK, NEW h \in Handler, NEW state \in Request, Goto(h, state)
  PROVE  /\ req' \in [Handler -> Request]
         /\ req'[h] = state
         /\ \A g \in Handler \ {h} : req'[g] = req[g]
BY DEF TypeOK, Goto

\* The index is a set of tokens, with the time it has been given.
LEMMA SetIndexType ==
  ASSUME NEW members \in SUBSET Token, NEW time \in 0..Lifetime, SetIndex(members, time)
  PROVE  index' \subseteq Token /\ indexTtl' \in 0..Lifetime
BY DEF SetIndex

LEMMA TypeInit == Init => TypeOK
BY DEF Init, TypeOK, Request, Idle

LEMMA TypeStep == TypeOK /\ [Next]_vars => TypeOK'
<1> SUFFICES ASSUME TypeOK, [Next]_vars PROVE TypeOK'
  OBVIOUS
<1>1. ASSUME NEW h \in Handler, Login(h) PROVE TypeOK'
  <2>1. [stage |-> "issue", login |-> 0] \in Request
    BY DEF Request
  <2> QED BY <1>1, <2>1, GotoType DEF Login, Start, TypeOK
<1>2. ASSUME NEW h \in Handler, Issue(h) PROVE TypeOK'
  <2>1. Idle \in Request
    BY DEF Request
  <2>2. req' \in [Handler -> Request]
    BY <1>2, <2>1, GotoType DEF Issue
  <2>3. index' \subseteq Token /\ indexTtl' \in 0..Lifetime
    <3>1. index \cup {next} \in SUBSET Token /\ Lifetime \in 0..Lifetime
      BY <1>2 DEF Issue, TypeOK
    <3> QED BY <1>2, <3>1, SetIndexType DEF Issue
  <2>4. next \in Token /\ req[h].login \in 0..MaxToken
    <3>1. next \in Token
      BY <1>2 DEF Issue, TypeOK
    <3>2. req[h].login \in 0..MaxToken
      BY <1>2, RequestType DEF Issue
    <3> QED BY <3>1, <3>2
  <2>5. login' \in [Token -> 0..MaxToken] /\ ttl' \in [Token -> 0..Lifetime]
    BY <1>2, <2>4 DEF Issue, TypeOK
  <2> QED BY <1>2, <2>2, <2>3, <2>4, <2>5 DEF Issue, TypeOK
<1>3. ASSUME NEW h \in Handler, NEW k \in Token, Refresh(h, k) PROVE TypeOK'
  <2>1. [stage |-> "consume", token |-> k] \in Request
    BY DEF Request
  <2> QED BY <1>3, <2>1, GotoType DEF Refresh, Start, TypeOK
<1>4. ASSUME NEW h \in Handler, Consume(h) PROVE TypeOK'
  <2>1. req[h].token \in Token
    BY <1>4, RequestType DEF Consume
  <2>2. /\ Idle \in Request
        /\ [stage |-> "srem", token |-> req[h].token] \in Request
    BY <2>1 DEF Request
  <2>3. req' \in [Handler -> Request]
    BY <1>4, <2>2, GotoType DEF Consume
  <2> QED BY <1>4, <2>1, <2>3 DEF Consume, TypeOK
<1>5. ASSUME NEW h \in Handler, Unindex(h) PROVE TypeOK'
  <2>1. [stage |-> "user", login |-> login[req[h].token]] \in Request
    BY <1>5, RequestType DEF Unindex, Request, TypeOK
  <2>2. req' \in [Handler -> Request]
    BY <1>5, <2>1, GotoType DEF Unindex
  <2>3. index \ {req[h].token} \in SUBSET Token /\ indexTtl \in 0..Lifetime
    BY DEF TypeOK
  <2>4. index' \subseteq Token /\ indexTtl' \in 0..Lifetime
    BY <1>5, <2>3, SetIndexType DEF Unindex
  <2> QED BY <1>5, <2>2, <2>4 DEF Unindex, TypeOK
<1>6. ASSUME NEW h \in Handler, UserFound(h) PROVE TypeOK'
  <2>1. [stage |-> "issue", login |-> req[h].login] \in Request
    BY <1>6, RequestType DEF UserFound, Request
  <2> QED BY <1>6, <2>1, GotoType DEF UserFound, TypeOK
<1>7. ASSUME NEW h \in Handler, Logout(h) PROVE TypeOK'
  <2>1. [stage |-> "smembers"] \in Request
    BY DEF Request
  <2> QED BY <1>7, <2>1, GotoType DEF Logout, Start, TypeOK
<1>8. ASSUME NEW h \in Handler, ReadIndex(h) PROVE TypeOK'
  <2>1. [stage |-> "del", hashes |-> index, before |-> next] \in Request
    BY DEF Request, TypeOK
  <2> QED BY <1>8, <2>1, GotoType DEF ReadIndex, TypeOK
<1>9. ASSUME NEW h \in Handler, DeleteAll(h) PROVE TypeOK'
  <2>1. Idle \in Request
    BY DEF Request
  <2>2. req' \in [Handler -> Request]
    BY <1>9, <2>1, GotoType DEF DeleteAll, EndLogout
  <2>3. index' \subseteq Token /\ indexTtl' \in 0..Lifetime
    BY <1>9 DEF DeleteAll, EndLogout, SetIndex
  <2>4. raced' \subseteq Token /\ revoked' \in 1..(MaxToken + 1)
    BY <1>9, RequestType DEF DeleteAll, EndLogout, TypeOK
  <2>5. ttl' \in [Token -> 0..Lifetime]
    BY <1>9 DEF DeleteAll, TypeOK
  <2> QED BY <1>9, <2>2, <2>3, <2>4, <2>5 DEF DeleteAll, TypeOK
<1>10. ASSUME NEW h \in Handler, Fail(h) PROVE TypeOK'
  <2>1. Idle \in Request
    BY DEF Request
  <2> QED BY <1>10, <2>1, GotoType DEF Fail, TypeOK
<1>11. ASSUME PassTime PROVE TypeOK'
  <2>1. \A t \in 0..Lifetime : Down(t) \in 0..Lifetime
    BY DEF Down
  <2>2. /\ Down(indexTtl) \in 0..Lifetime
        /\ (IF indexTtl <= 1 THEN {} ELSE index) \in SUBSET Token
    BY <2>1 DEF TypeOK
  <2>3. index' \subseteq Token /\ indexTtl' \in 0..Lifetime
    BY <1>11, <2>2, SetIndexType DEF PassTime
  <2> QED BY <1>11, <2>1, <2>3 DEF PassTime, TypeOK
<1>12. CASE UNCHANGED vars
  BY <1>12 DEF vars, TypeOK
<1> QED BY <1>1, <1>2, <1>3, <1>4, <1>5, <1>6, <1>7, <1>8, <1>9, <1>10, <1>11, <1>12
    DEF Next

\* The keys and the requests of TokenService have the types TypeOK gives them, for
\* any number of requests and tokens and any lifetime.
THEOREM TypeCorrect == Spec => []TypeOK
BY TypeInit, TypeStep, PTL DEF Spec

-----------------------------------------------------------------------------
(* The inductive invariant of the index and of logout.                     *)

\* A token that is not issued yet is not live, and descends from none to come.
Fresh ==
  \A k \in Token :
    /\ Live(k) => k < next
    /\ k < next => login[k] <= k

\* Requests know issued tokens only, and one that has consumed a token is after
\* its DEL: the token stays gone.
InFlight ==
  \A h \in Handler :
    /\ req[h].stage \in {"consume", "srem"} => req[h].token < next
    /\ req[h].stage = "srem" => ~Live(req[h].token)
    /\ req[h].stage \in {"user", "issue"} => req[h].login < next

\* What a logout has read names all that was issued before and is still live, but
\* for the tokens an earlier logout has taken out of the index.
LogoutKnows ==
  \A h \in Handler : req[h].stage = "del" =>
    /\ req[h].before <= next
    /\ \A k \in Token : k < req[h].before /\ Live(k) /\ k \notin raced => k \in req[h].hashes

RefreshInv ==
  /\ TypeOK
  /\ Fresh
  /\ InFlight
  /\ IndexCoversLive
  /\ LogoutKnows
  /\ revoked <= next
  /\ LogoutRevokesUnraced

LEMMA RefreshInvInit == Init => RefreshInv
<1> SUFFICES ASSUME Init PROVE RefreshInv
  OBVIOUS
<1>1. TypeOK
  BY TypeInit
<1> QED BY <1>1 DEF Init, RefreshInv, Fresh, InFlight, IndexCoversLive, LogoutKnows,
                 LogoutRevokesUnraced, Live, Idle

\* A step that changes no key, no index and no history, but sends a request from
\* one stage to the next.
LEMMA GotoKeepsInv ==
  ASSUME RefreshInv, TypeOK', NEW h \in Handler, NEW state \in Request, Goto(h, state),
         UNCHANGED <<ttl, index, indexTtl, next, login, raced, revoked>>,
         state.stage \in {"consume", "srem"} => state.token < next,
         state.stage = "srem" => ~Live(state.token),
         state.stage \in {"user", "issue"} => state.login < next,
         state.stage = "del" =>
           /\ state.before <= next
           /\ \A k \in Token :
                k < state.before /\ Live(k) /\ k \notin raced => k \in state.hashes
  PROVE  RefreshInv'
<1>1. /\ req'[h] = state
      /\ \A g \in Handler \ {h} : req'[g] = req[g]
  BY GotoType DEF RefreshInv
<1>2. Fresh' /\ IndexCoversLive' /\ (revoked <= next)' /\ LogoutRevokesUnraced'
  BY DEF RefreshInv, Fresh, IndexCoversLive, LogoutRevokesUnraced, Live
<1>3. InFlight'
  BY <1>1 DEF RefreshInv, InFlight, Live
<1>4. LogoutKnows'
  BY <1>1 DEF RefreshInv, LogoutKnows, Live
<1> QED BY <1>2, <1>3, <1>4 DEF RefreshInv

\* A step that only ends the life of tokens, and leaves the index to cover the rest.
LEMMA ShorterKeepsInv ==
  ASSUME RefreshInv, TypeOK', IndexCoversLive',
         UNCHANGED <<next, req, login, raced, revoked>>,
         \A k \in Token : Live(k)' => Live(k)
  PROVE  RefreshInv'
<1>1. \A h \in Handler : req[h].stage = "srem" => ~(ttl'[req[h].token] > 0)
  <2>1. ASSUME NEW h \in Handler, req[h].stage = "srem"
        PROVE  req[h].token \in Token /\ ~Live(req[h].token)
    BY <2>1, RequestType DEF RefreshInv, InFlight
  <2> QED BY <2>1 DEF Live
<1>2. Fresh' /\ LogoutKnows' /\ (revoked <= next)' /\ LogoutRevokesUnraced'
  BY DEF RefreshInv, Fresh, LogoutKnows, LogoutRevokesUnraced
<1>3. InFlight'
  BY <1>1 DEF RefreshInv, InFlight, Live
<1> QED BY <1>2, <1>3 DEF RefreshInv

LEMMA RefreshInvStep == RefreshInv /\ [Next]_vars => RefreshInv'
<1> SUFFICES ASSUME RefreshInv, [Next]_vars PROVE RefreshInv'
  OBVIOUS
<1>0. TypeOK /\ TypeOK'
  BY TypeStep DEF RefreshInv
<1>1. ASSUME NEW h \in Handler, Login(h) PROVE RefreshInv'
  <2>1. [stage |-> "issue", login |-> 0] \in Request
    BY DEF Request
  <2>2. 0 < next
    BY <1>0 DEF TypeOK
  <2> QED BY <1>0, <1>1, <2>1, <2>2, GotoKeepsInv DEF Login, Start
<1>2. ASSUME NEW h \in Handler, Issue(h) PROVE RefreshInv'
  <2>1. next \in Token /\ req[h].login \in 0..MaxToken /\ req[h].login < next
    <3>1. next \in Token
      BY <1>0, <1>2 DEF Issue, TypeOK
    <3>2. req[h].login \in 0..MaxToken
      BY <1>0, <1>2, RequestType DEF Issue
    <3>3. req[h].login < next
      BY <1>2 DEF Issue, RefreshInv, InFlight
    <3> QED BY <3>1, <3>2, <3>3
  <2>2. /\ Idle \in Request
        /\ Goto(h, Idle)
    BY <1>2 DEF Issue, Request
  <2>3. req'[h] = Idle /\ \A g \in Handler \ {h} : req'[g] = req[g]
    BY <1>0, <2>2, GotoType
  <2>4. next' = next + 1 /\ index' = index \cup {next} /\ indexTtl' = Lifetime
    BY <1>2 DEF Issue, SetIndex
  <2>5. /\ ttl'[next] = Lifetime /\ ~Live(next)
        /\ \A k \in Token \ {next} : ttl'[k] = ttl[k] /\ login'[k] = login[k]
        /\ login'[next] <= next
    <3>1. ~Live(next)
      BY <2>1 DEF RefreshInv, Fresh
    <3>2. /\ ttl' = [ttl EXCEPT ![next] = Lifetime]
          /\ login' = [login EXCEPT ![next] =
                         IF req[h].login = 0 THEN next ELSE req[h].login]
      BY <1>2 DEF Issue
    <3> QED BY <1>0, <2>1, <3>1, <3>2 DEF TypeOK
  <2>6. raced' = raced /\ revoked' = revoked /\ revoked <= next
    BY <1>2 DEF Issue, RefreshInv
  <2>7. Fresh'
    <3>1. SUFFICES ASSUME NEW k \in Token
                   PROVE  /\ ttl'[k] > 0 => k < next + 1
                          /\ k < next + 1 => login'[k] <= k
      BY <2>4 DEF Fresh, Live
    <3>2. CASE k = next
      BY <2>1, <2>5, <3>2
    <3>3. CASE k # next
      BY <1>0, <2>1, <2>5, <3>3 DEF RefreshInv, Fresh, Live, TypeOK
    <3> QED BY <3>2, <3>3
  <2>8. InFlight'
    <3>1. ASSUME NEW g \in Handler \ {h}, req[g].stage \in {"consume", "srem"}
          PROVE  req[g].token \in Token \ {next} /\ req[g].token < next
      BY <1>0, <2>1, <3>1, RequestType DEF RefreshInv, InFlight
    <3>2. ASSUME NEW g \in Handler \ {h}, req[g].stage \in {"user", "issue"}
          PROVE  req[g].login < next /\ req[g].login \in 0..MaxToken
      BY <1>0, <3>2, RequestType DEF RefreshInv, InFlight
    <3> QED BY <2>1, <2>3, <2>4, <2>5, <3>1, <3>2 DEF RefreshInv, InFlight, Live, Idle
  <2>9. IndexCoversLive'
    BY <1>0, <2>1, <2>4, <2>5, <2>6 DEF RefreshInv, IndexCoversLive, Live, TypeOK
  <2>10. LogoutKnows'
    <3>1. ASSUME NEW g \in Handler \ {h}, req[g].stage = "del"
          PROVE  /\ req[g].before \in 1..(MaxToken + 1) /\ req[g].before <= next
                 /\ \A k \in Token : k < req[g].before /\ Live(k)' /\ k \notin raced
                                     => k \in req[g].hashes
      BY <1>0, <2>1, <2>5, <3>1, RequestType DEF RefreshInv, LogoutKnows, Live
    <3> QED BY <2>1, <2>3, <2>4, <2>6, <3>1 DEF LogoutKnows, Idle
  <2>11. (revoked <= next)' /\ LogoutRevokesUnraced'
    BY <1>0, <2>1, <2>4, <2>5, <2>6 DEF RefreshInv, LogoutRevokesUnraced, Live, TypeOK
  <2> QED BY <1>0, <2>7, <2>8, <2>9, <2>10, <2>11 DEF RefreshInv
<1>3. ASSUME NEW h \in Handler, NEW k \in Token, Refresh(h, k) PROVE RefreshInv'
  <2>1. [stage |-> "consume", token |-> k] \in Request
    BY DEF Request
  <2> QED BY <1>0, <1>3, <2>1, GotoKeepsInv DEF Refresh, Start
<1>4. ASSUME NEW h \in Handler, Consume(h) PROVE RefreshInv'
  <2> DEFINE k == req[h].token
             state == IF Live(k) THEN [stage |-> "srem", token |-> k] ELSE Idle
  <2>1. k \in Token /\ k < next
    BY <1>0, <1>4, RequestType DEF Consume, RefreshInv, InFlight
  <2>2. state \in Request /\ Goto(h, state)
    BY <1>4, <2>1 DEF Consume, Request
  <2>3. req'[h] = state /\ \A g \in Handler \ {h} : req'[g] = req[g]
    BY <1>0, <2>2, GotoType
  <2>4. /\ ttl'[k] = 0
        /\ \A j \in Token : Live(j)' => Live(j) /\ ttl'[j] = ttl[j]
    BY <1>0, <1>4, <2>1 DEF Consume, TypeOK, Live
  <2>5. UNCHANGED <<index, indexTtl, next, login, raced, revoked>>
    BY <1>4 DEF Consume
  <2>6. Fresh' /\ IndexCoversLive' /\ (revoked <= next)' /\ LogoutRevokesUnraced'
    BY <2>4, <2>5 DEF RefreshInv, Fresh, IndexCoversLive, LogoutRevokesUnraced
  <2>7. state.stage \in {"srem", "idle"} /\ (state.stage = "srem" => state.token = k)
    BY DEF Idle
  <2>8. InFlight'
    <3>1. ASSUME NEW g \in Handler \ {h}, req[g].stage = "srem"
          PROVE  ~(ttl'[req[g].token] > 0)
      <4>1. req[g].token \in Token /\ ~Live(req[g].token)
        BY <1>0, <3>1, RequestType DEF RefreshInv, InFlight
      <4> QED BY <2>4, <4>1 DEF Live
    <3> QED BY <2>1, <2>3, <2>4, <2>5, <2>7, <3>1 DEF RefreshInv, InFlight, Live
  <2>9. LogoutKnows'
    BY <2>3, <2>4, <2>5, <2>7 DEF RefreshInv, LogoutKnows
  <2> QED BY <1>0, <2>6, <2>8, <2>9 DEF RefreshInv
<1>5. ASSUME NEW h \in Handler, Unindex(h) PROVE RefreshInv'
  <2> DEFINE k == req[h].token
  <2>1. k \in Token /\ k < next /\ ~Live(k) /\ login[k] \in 0..MaxToken /\ login[k] < next
    <3>1. k \in Token /\ k < next /\ ~Live(k)
      BY <1>0, <1>5, RequestType DEF Unindex, RefreshInv, InFlight
    <3>2. login[k] <= k
      BY <3>1 DEF RefreshInv, Fresh
    <3> QED BY <1>0, <3>1, <3>2 DEF TypeOK
  <2>2. [stage |-> "user", login |-> login[k]] \in Request
    BY <2>1 DEF Request
  <2>3. /\ req'[h] = [stage |-> "user", login |-> login[k]]
        /\ \A g \in Handler \ {h} : req'[g] = req[g]
    BY <1>0, <1>5, <2>2, GotoType DEF Unindex
  <2>4. /\ UNCHANGED <<ttl, next, login, raced, revoked>>
        /\ index' = index \ {k}
        /\ index \ {k} # {} => indexTtl' = indexTtl
    BY <1>5 DEF Unindex, SetIndex
  <2>5. IndexCoversLive'
    BY <2>1, <2>4 DEF RefreshInv, IndexCoversLive, Live
  <2>6. InFlight'
    BY <2>1, <2>3, <2>4 DEF RefreshInv, InFlight, Live
  <2>7. LogoutKnows'
    BY <2>3, <2>4 DEF RefreshInv, LogoutKnows, Live
  <2> QED BY <1>0, <2>4, <2>5, <2>6, <2>7
          DEF RefreshInv, Fresh, LogoutRevokesUnraced, Live
<1>6. ASSUME NEW h \in Handler, UserFound(h) PROVE RefreshInv'
  <2>1. /\ [stage |-> "issue", login |-> req[h].login] \in Request
        /\ req[h].login < next
    BY <1>0, <1>6, RequestType DEF UserFound, Request, RefreshInv, InFlight
  <2> QED BY <1>0, <1>6, <2>1, GotoKeepsInv DEF UserFound
<1>7. ASSUME NEW h \in Handler, Logout(h) PROVE RefreshInv'
  <2>1. [stage |-> "smembers"] \in Request
    BY DEF Request
  <2> QED BY <1>0, <1>7, <2>1, GotoKeepsInv DEF Logout, Start
<1>8. ASSUME NEW h \in Handler, ReadIndex(h) PROVE RefreshInv'
  <2>1. [stage |-> "del", hashes |-> index, before |-> next] \in Request
    BY <1>0 DEF Request, TypeOK
  <2>2. \A k \in Token : Live(k) /\ k \notin raced => k \in index
    BY DEF RefreshInv, IndexCoversLive
  <2>3. next <= next
    BY <1>0 DEF TypeOK
  <2> QED BY <1>0, <1>8, <2>1, <2>2, <2>3, GotoKeepsInv DEF ReadIndex
<1>9. ASSUME NEW h \in Handler, DeleteAll(h) PROVE RefreshInv'
  <2>1. /\ req[h].hashes \subseteq Token /\ req[h].before \in 1..(MaxToken + 1)
        /\ req[h].before <= next
        /\ \A k \in Token :
             k < req[h].before /\ Live(k) /\ k \notin raced => k \in req[h].hashes
    BY <1>0, <1>9, RequestType DEF DeleteAll, RefreshInv, LogoutKnows
  <2>2. /\ Idle \in Request
        /\ Goto(h, Idle)
    BY <1>9 DEF DeleteAll, EndLogout, Request
  <2>3. req'[h] = Idle /\ \A g \in Handler \ {h} : req'[g] = req[g]
    BY <1>0, <2>2, GotoType
  <2>4. /\ UNCHANGED <<next, login>>
        /\ raced' = raced \cup (index \ req[h].hashes)
        /\ revoked' \in {revoked, req[h].before}
    BY <1>9 DEF DeleteAll, EndLogout
  <2>5. \A k \in Token : Live(k)' => Live(k) /\ k \notin req[h].hashes
    BY <1>9 DEF DeleteAll, Live
  <2>6. IndexCoversLive'
    BY <2>4, <2>5 DEF RefreshInv, IndexCoversLive
  <2>7. Fresh' /\ InFlight'
    <3>1. ASSUME NEW g \in Handler \ {h}, req[g].stage = "srem"
          PROVE  ~(ttl'[req[g].token] > 0)
      <4>1. req[g].token \in Token /\ ~Live(req[g].token)
        BY <1>0, <3>1, RequestType DEF RefreshInv, InFlight
      <4> QED BY <2>5, <4>1 DEF Live
    <3> QED BY <2>3, <2>4, <2>5, <3>1 DEF RefreshInv, Fresh, InFlight, Idle, Live
  <2>8. LogoutKnows'
    BY <2>3, <2>4, <2>5 DEF RefreshInv, LogoutKnows, Idle
  <2>9. (revoked <= next)' /\ LogoutRevokesUnraced'
    BY <2>1, <2>4, <2>5 DEF RefreshInv, LogoutRevokesUnraced
  <2> QED BY <1>0, <2>6, <2>7, <2>8, <2>9 DEF RefreshInv
<1>10. ASSUME NEW h \in Handler, Fail(h) PROVE RefreshInv'
  <2>1. Idle \in Request
    BY DEF Request
  <2> QED BY <1>0, <1>10, <2>1, GotoKeepsInv DEF Fail, Idle
<1>11. ASSUME PassTime PROVE RefreshInv'
  <2>1. \A k \in Token : ttl'[k] = Down(ttl[k]) /\ ttl[k] \in 0..Lifetime
    BY <1>0, <1>11 DEF PassTime, TypeOK
  <2>2. \A k \in Token : Live(k)' => Live(k) /\ ttl[k] > 1 /\ ttl'[k] = ttl[k] - 1
    BY <2>1 DEF Live, Down
  <2>3. IndexCoversLive'
    <3>1. SUFFICES ASSUME NEW k \in Token, Live(k)', k \notin raced'
                   PROVE  k \in index' /\ ttl'[k] <= indexTtl'
      BY DEF IndexCoversLive
    <3>2. Live(k) /\ ttl[k] > 1 /\ k \in index /\ ttl[k] <= indexTtl
      BY <1>11, <2>2, <3>1 DEF PassTime, RefreshInv, IndexCoversLive
    <3>3. ~(indexTtl <= 1) /\ Down(indexTtl) = indexTtl - 1
      BY <1>0, <3>2 DEF TypeOK, Down
    <3>4. index' = index /\ indexTtl' = indexTtl - 1
      BY <1>11, <3>2, <3>3 DEF PassTime, SetIndex
    <3> QED BY <1>0, <2>2, <3>1, <3>2, <3>4 DEF TypeOK
  <2>4. UNCHANGED <<next, req, login, raced, revoked>>
    BY <1>11 DEF PassTime
  <2> QED BY <1>0, <2>2, <2>3, <2>4, ShorterKeepsInv
<1>12. CASE UNCHANGED vars
  BY <1>0, <1>12 DEF vars, RefreshInv, Fresh, InFlight, IndexCoversLive, LogoutKnows,
                LogoutRevokesUnraced, Live
<1> QED BY <1>1, <1>2, <1>3, <1>4, <1>5, <1>6, <1>7, <1>8, <1>9, <1>10, <1>11, <1>12
    DEF Next

LEMMA RefreshInvAlways == Spec => []RefreshInv
BY RefreshInvInit, RefreshInvStep, PTL DEF Spec

\* Whatever races and fails, the index names every live token but those issued in
\* the middle of a logout, and does not expire before them (token.service.ts:23, 84).
THEOREM IndexAlwaysCovers == Spec => []IndexCoversLive
<1>1. RefreshInv => IndexCoversLive
  BY DEF RefreshInv
<1> QED BY <1>1, RefreshInvAlways, PTL

\* A logout that has ended leaves no token live that was issued before it began,
\* unless an earlier logout took that token out of the index unread
\* (token.service.ts:118).
THEOREM LogoutAlwaysRevokes == Spec => []LogoutRevokesUnraced
<1>1. RefreshInv => LogoutRevokesUnraced
  BY DEF RefreshInv
<1> QED BY <1>1, RefreshInvAlways, PTL

-----------------------------------------------------------------------------
(* One heir of a login.  Its live token becomes, by one DEL, the request   *)
(* that consumed it, and this request, by its MULTI, the next live token.  *)

\* No login gains an heir.
HeirsShrink ==
  \A l \in Token :
    /\ {k \in Token : ttl'[k] > 0 /\ login'[k] = l} \subseteq LiveOf(l)
    /\ \A h \in Handler :
         \/ req'[h].stage \in {"user", "issue"} /\ req'[h].login = l
         \/ req'[h].stage = "srem" /\ login'[req'[h].token] = l
         => h \in Renewing(l)

LEMMA ShrinkKeepsOne ==
  ASSUME OneHeirPerLogin, HeirsShrink
  PROVE  OneHeirPerLogin'
<1>1. \A l \in Token : LiveOf(l)' \subseteq LiveOf(l)
  BY DEF HeirsShrink, LiveOf, Live
<1>2. \A l \in Token : Renewing(l)' \subseteq Renewing(l)
  BY DEF HeirsShrink, Renewing
<1> QED BY <1>1, <1>2 DEF OneHeirPerLogin

\* A step that sends one request on and issues nothing.
LEMMA OnKeepsOne ==
  ASSUME RefreshInv, OneHeirPerLogin, NEW h \in Handler, NEW state \in Request,
         Goto(h, state), UNCHANGED login, \A k \in Token : ttl'[k] > 0 => ttl[k] > 0,
         \A l \in Token :
           \/ state.stage \in {"user", "issue"} /\ state.login = l
           \/ state.stage = "srem" /\ login[state.token] = l
           => h \in Renewing(l)
  PROVE  OneHeirPerLogin'
<1>1. /\ req'[h] = state
      /\ \A g \in Handler \ {h} : req'[g] = req[g]
  BY GotoType DEF RefreshInv
<1>2. HeirsShrink
  <2>1. SUFFICES ASSUME NEW l \in Token
        PROVE  /\ {k \in Token : ttl'[k] > 0 /\ login'[k] = l} \subseteq LiveOf(l)
               /\ \A g \in Handler :
                    \/ req'[g].stage \in {"user", "issue"} /\ req'[g].login = l
                    \/ req'[g].stage = "srem" /\ login'[req'[g].token] = l
                    => g \in Renewing(l)
    BY DEF HeirsShrink
  <2>2. {k \in Token : ttl'[k] > 0 /\ login'[k] = l} \subseteq LiveOf(l)
    BY DEF LiveOf, Live
  <2>3. ASSUME NEW g \in Handler \ {h},
               \/ req'[g].stage \in {"user", "issue"} /\ req'[g].login = l
               \/ req'[g].stage = "srem" /\ login'[req'[g].token] = l
        PROVE  g \in Renewing(l)
    BY <1>1, <2>3 DEF Renewing
  <2> QED BY <1>1, <2>2, <2>3
<1> QED BY <1>2, ShrinkKeepsOne

LEMMA OneHeirInit == Init => OneHeirPerLogin
BY DEF Init, OneHeirPerLogin, LiveOf, Renewing, Live, Idle

LEMMA OneHeirStep == RefreshInv /\ OneHeirPerLogin /\ [Next]_vars => OneHeirPerLogin'
<1> SUFFICES ASSUME RefreshInv, OneHeirPerLogin, [Next]_vars PROVE OneHeirPerLogin'
  OBVIOUS
<1>0. TypeOK /\ Fresh /\ InFlight /\ Idle \in Request
  BY DEF RefreshInv, Request
<1>1. ASSUME NEW h \in Handler, Login(h) PROVE OneHeirPerLogin'
  <2>1. [stage |-> "issue", login |-> 0] \in Request
    BY DEF Request
  <2> QED BY <1>1, <2>1, OnKeepsOne DEF Login, Start
<1>2. ASSUME NEW h \in Handler, Issue(h) PROVE OneHeirPerLogin'
  <2> DEFINE heir == IF req[h].login = 0 THEN next ELSE req[h].login
  <2>1. next \in Token /\ req[h].login \in 0..MaxToken /\ req[h].login < next
    <3>1. next \in Token
      BY <1>0, <1>2 DEF Issue, TypeOK
    <3>2. req[h].login \in 0..MaxToken
      BY <1>0, <1>2, RequestType DEF Issue
    <3>3. req[h].login < next
      BY <1>0, <1>2 DEF Issue, InFlight
    <3> QED BY <3>1, <3>2, <3>3
  <2>2. req'[h] = Idle /\ \A g \in Handler \ {h} : req'[g] = req[g]
    BY <1>0, <1>2, GotoType DEF Issue
  <2>3. /\ login' = [login EXCEPT ![next] = heir]
        /\ ttl' = [ttl EXCEPT ![next] = Lifetime]
    BY <1>2 DEF Issue
  <2>4. /\ login'[next] = heir
        /\ \A k \in Token \ {next} : ttl'[k] = ttl[k] /\ login'[k] = login[k]
    BY <1>0, <2>1, <2>3 DEF TypeOK
  <2>5. \A l \in Token :
          LiveOf(l)' \subseteq LiveOf(l) \cup (IF l = heir THEN {next} ELSE {})
    BY <2>4 DEF LiveOf, Live
  <2>6. \A l \in Token : Renewing(l)' \subseteq Renewing(l) \ {h}
    <3>1. ASSUME NEW l \in Token, NEW g \in Renewing(l)'
          PROVE  g \in Renewing(l) \ {h}
      <4>1. g # h
        BY <2>2, <3>1 DEF Renewing, Idle
      <4>2. req'[g] = req[g]
        BY <2>2, <3>1, <4>1 DEF Renewing
      <4>3. req[g].stage = "srem" => req[g].token \in Token \ {next}
        BY <1>0, <2>1, <3>1, RequestType DEF InFlight, Renewing
      <4> QED BY <2>4, <3>1, <4>1, <4>2, <4>3 DEF Renewing
    <3> QED BY <3>1
  <2>7. LiveOf(heir) = {} /\ (Renewing(heir) = {} \/ Renewing(heir) = {h})
    <3>1. CASE req[h].login = 0
      <4>1. \A k \in Token : Live(k) => login[k] # next
        BY <1>0, <2>1 DEF Fresh, TypeOK
      <4>2. \A g \in Handler : req[g].stage \in {"user", "issue"} => req[g].login # next
        BY <1>0, <2>1, RequestType DEF InFlight
      <4>3. ASSUME NEW g \in Handler, req[g].stage = "srem"
            PROVE  login[req[g].token] # next
        <5>1. req[g].token \in Token /\ req[g].token < next
          BY <1>0, <4>3, RequestType DEF InFlight
        <5> QED BY <1>0, <2>1, <5>1 DEF Fresh, TypeOK
      <4> QED BY <3>1, <4>1, <4>2, <4>3 DEF LiveOf, Renewing
    <3>2. CASE req[h].login # 0
      <4>1. heir \in Token /\ h \in Renewing(heir)
        BY <1>2, <2>1, <3>2 DEF Renewing, Issue
      <4> HIDE DEF heir
      <4> QED BY <4>1 DEF OneHeirPerLogin
    <3> QED BY <3>1, <3>2
  <2> HIDE DEF heir
  <2> QED BY <2>5, <2>6, <2>7 DEF OneHeirPerLogin
<1>3. ASSUME NEW h \in Handler, NEW k \in Token, Refresh(h, k) PROVE OneHeirPerLogin'
  <2>1. [stage |-> "consume", token |-> k] \in Request
    BY DEF Request
  <2> QED BY <1>3, <2>1, OnKeepsOne DEF Refresh, Start
<1>4. ASSUME NEW h \in Handler, Consume(h) PROVE OneHeirPerLogin'
  <2> DEFINE k == req[h].token
             state == IF Live(k) THEN [stage |-> "srem", token |-> k] ELSE Idle
  <2>1. k \in Token
    BY <1>0, <1>4, RequestType DEF Consume
  <2>2. state \in Request /\ Goto(h, state) /\ login' = login
    BY <1>4, <2>1 DEF Consume, Request
  <2>3. /\ ttl'[k] = 0
        /\ \A j \in Token : ttl'[j] > 0 => ttl[j] > 0
    BY <1>0, <1>4, <2>1 DEF Consume, TypeOK
  <2>4. CASE ~Live(k)
    BY <2>2, <2>3, <2>4, OnKeepsOne DEF Idle
  <2>5. CASE Live(k)
    <3>1. /\ req'[h] = [stage |-> "srem", token |-> k]
          /\ \A g \in Handler \ {h} : req'[g] = req[g]
      BY <1>0, <2>2, <2>5, GotoType
    <3>2. \A l \in Token : /\ LiveOf(l)' \subseteq LiveOf(l)
                           /\ l = login[k] => LiveOf(l)' = {} /\ Renewing(l) = {}
      <4>1. \A l \in Token : LiveOf(l)' \subseteq LiveOf(l) \ {k}
        BY <2>2, <2>3 DEF LiveOf, Live
      <4>2. \A l \in Token : l = login[k] => k \in LiveOf(l)
        BY <2>1, <2>5 DEF LiveOf
      <4> HIDE DEF k
      <4> QED BY <4>1, <4>2 DEF OneHeirPerLogin
    <3>3. \A l \in Token : Renewing(l)' \subseteq
                             Renewing(l) \cup (IF l = login[k] THEN {h} ELSE {})
      <4>1. ASSUME NEW l \in Token, NEW g \in Renewing(l)'
            PROVE  g \in Renewing(l) \/ (g = h /\ l = login[k])
        <5>1. CASE g = h
          BY <2>2, <3>1, <4>1, <5>1 DEF Renewing
        <5>2. CASE g # h
          <6>1. req'[g] = req[g]
            BY <3>1, <4>1, <5>2 DEF Renewing
          <6> QED BY <2>2, <4>1, <6>1 DEF Renewing
        <5> QED BY <5>1, <5>2
      <4> HIDE DEF k
      <4> QED BY <4>1
    <3> HIDE DEF k
    <3> QED BY <3>2, <3>3 DEF OneHeirPerLogin
  <2> QED BY <2>4, <2>5
<1>5. ASSUME NEW h \in Handler, Unindex(h) PROVE OneHeirPerLogin'
  <2>1. [stage |-> "user", login |-> login[req[h].token]] \in Request
    BY <1>0, <1>5, RequestType DEF Unindex, Request, TypeOK
  <2>2. UNCHANGED <<ttl, login>>
    BY <1>5 DEF Unindex
  <2>3. \A l \in Token : login[req[h].token] = l => h \in Renewing(l)
    BY <1>5 DEF Unindex, Renewing
  <2> QED BY <1>5, <2>1, <2>2, <2>3, OnKeepsOne DEF Unindex
<1>6. ASSUME NEW h \in Handler, UserFound(h) PROVE OneHeirPerLogin'
  <2>1. [stage |-> "issue", login |-> req[h].login] \in Request
    BY <1>0, <1>6, RequestType DEF UserFound, Request
  <2>2. \A l \in Token : req[h].login = l => h \in Renewing(l)
    BY <1>6 DEF UserFound, Renewing
  <2> QED BY <1>6, <2>1, <2>2, OnKeepsOne DEF UserFound
<1>7. ASSUME NEW h \in Handler, Logout(h) PROVE OneHeirPerLogin'
  <2>1. [stage |-> "smembers"] \in Request
    BY DEF Request
  <2> QED BY <1>7, <2>1, OnKeepsOne DEF Logout, Start
<1>8. ASSUME NEW h \in Handler, ReadIndex(h) PROVE OneHeirPerLogin'
  <2>1. [stage |-> "del", hashes |-> index, before |-> next] \in Request
    BY <1>0 DEF Request, TypeOK
  <2> QED BY <1>8, <2>1, OnKeepsOne DEF ReadIndex
<1>9. ASSUME NEW h \in Handler, DeleteAll(h) PROVE OneHeirPerLogin'
  <2>1. \A k \in Token : ttl'[k] > 0 => ttl[k] > 0
    BY <1>9 DEF DeleteAll
  <2> QED BY <1>0, <1>9, <2>1, OnKeepsOne DEF DeleteAll, EndLogout, Idle
<1>10. ASSUME NEW h \in Handler, Fail(h) PROVE OneHeirPerLogin'
  BY <1>0, <1>10, OnKeepsOne DEF Fail, Idle
<1>11. ASSUME PassTime PROVE OneHeirPerLogin'
  <2>1. \A k \in Token : ttl'[k] > 0 => ttl[k] > 0
    BY <1>0, <1>11 DEF PassTime, Down, TypeOK
  <2>2. HeirsShrink
    BY <1>11, <2>1 DEF PassTime, HeirsShrink, LiveOf, Live, Renewing
  <2> QED BY <2>2, ShrinkKeepsOne
<1>12. CASE UNCHANGED vars
  BY <1>12 DEF vars, OneHeirPerLogin, LiveOf, Renewing, Live
<1> QED BY <1>1, <1>2, <1>3, <1>4, <1>5, <1>6, <1>7, <1>8, <1>9, <1>10, <1>11, <1>12
    DEF Next

\* However many requests present one refresh token, and whatever fails on the way, a
\* login has one heir at most: one live token, or one request that will issue it
\* (auth.service.ts:255).
THEOREM AlwaysOneHeir == Spec => []OneHeirPerLogin
BY OneHeirInit, OneHeirStep, RefreshInvAlways, PTL DEF Spec

=============================================================================
