---------------------------- MODULE RefreshTokens ----------------------------
(***************************************************************************)
(* TokenService and its callers in AuthService: the refresh tokens of one  *)
(* user in Redis.  Every token has a key of its own with a TTL, and an     *)
(* index set names the tokens so that a logout can find them.  (All keys   *)
(* carry the user id, so users do not meet.)  A request is a chain of      *)
(* calls to Redis, each atomic, that interleave with those of the others.  *)
(***************************************************************************)
EXTENDS Integers

CONSTANTS
  Handler,    \* requests that may be in progress at a time
  MaxToken,   \* bound of the tokens issued
  Lifetime    \* JWT_REFRESH_EXPIRES_IN, in units of the model's clock

Token == 1..MaxToken

ASSUME RefreshAssumption ==
  /\ MaxToken \in Nat
  /\ Lifetime \in Nat \ {0}

VARIABLES
  ttl,       \* time left of auth:refresh:{user}:{token}; 0 when there is no key
  index,     \* auth:refresh:index:{user}
  indexTtl,  \* time left of it; 0 when there is no key
  next,      \* the next token: jti is a fresh UUID
  req,       \* where each request is
  login,     \* history: the login a token descends from, named by its first token
  raced,     \* history: tokens whose place in the index a logout deleted unread
  revoked    \* history: tokens below it were issued before a finished logout began

vars == <<ttl, index, indexTtl, next, req, login, raced, revoked>>

Idle == [stage |-> "idle"]

Init ==
  /\ ttl = [k \in Token |-> 0]
  /\ index = {}
  /\ indexTtl = 0
  /\ next = 1
  /\ req = [h \in Handler |-> Idle]
  /\ login = [k \in Token |-> 0]
  /\ raced = {}
  /\ revoked = 1

Live(k) == ttl[k] > 0

\* Where a request goes, and what it carries there.
Goto(h, state) == req' = [req EXCEPT ![h] = state]

Start(h, state) ==
  /\ req[h].stage = "idle"
  /\ Goto(h, state)
  /\ UNCHANGED <<ttl, index, indexTtl, next, login, raced, revoked>>

\* A set that loses its last member is a key that is gone.
SetIndex(members, time) ==
  /\ index' = members
  /\ indexTtl' = IF members = {} THEN 0 ELSE time

-----------------------------------------------------------------------------
(* issueRefreshToken(), the last call of a login and of a refresh.         *)

Login(h) == Start(h, [stage |-> "issue", login |-> 0])

\* MULTI: SET EX, SADD, EXPIRE.
IssueKeepingTtl(h) ==   \* mutant: EXPIRE only when the index is new
  /\ req[h].stage = "issue"
  /\ next <= MaxToken
  /\ ttl' = [ttl EXCEPT ![next] = Lifetime]
  /\ SetIndex(index \cup {next}, IF indexTtl = 0 THEN Lifetime ELSE indexTtl)
  /\ login' = [login EXCEPT ![next] = IF req[h].login = 0 THEN next ELSE req[h].login]
  /\ next' = next + 1
  /\ Goto(h, Idle)
  /\ UNCHANGED <<raced, revoked>>

Issue(h) ==
  /\ req[h].stage = "issue"
  /\ next <= MaxToken
  /\ ttl' = [ttl EXCEPT ![next] = Lifetime]
  /\ SetIndex(index \cup {next}, Lifetime)
  /\ login' = [login EXCEPT ![next] = IF req[h].login = 0 THEN next ELSE req[h].login]
  /\ next' = next + 1
  /\ Goto(h, Idle)
  /\ UNCHANGED <<raced, revoked>>

-----------------------------------------------------------------------------
(* refresh(): consumeRefreshToken(), the user, a new token.                *)

\* A client presents any token that was ever issued, also one used before.
Refresh(h, k) == k < next /\ Start(h, [stage |-> "consume", token |-> k])

\* DEL of the key; only the request that deleted it goes on.
ConsumeAnyway(h) ==   \* mutant: the count of DEL is not looked at
  /\ req[h].stage = "consume"
  /\ ttl' = [ttl EXCEPT ![req[h].token] = 0]
  /\ Goto(h, [stage |-> "srem", token |-> req[h].token])
  /\ UNCHANGED <<index, indexTtl, next, login, raced, revoked>>

Consume(h) ==
  LET k == req[h].token
  IN /\ req[h].stage = "consume"
     /\ ttl' = [ttl EXCEPT ![k] = 0]
     /\ Goto(h, IF Live(k) THEN [stage |-> "srem", token |-> k] ELSE Idle)
     /\ UNCHANGED <<index, indexTtl, next, login, raced, revoked>>

Unindex(h) ==
  LET k == req[h].token
  IN /\ req[h].stage = "srem"
     /\ SetIndex(index \ {k}, indexTtl)
     /\ Goto(h, [stage |-> "user", login |-> login[k]])
     /\ UNCHANGED <<ttl, next, login, raced, revoked>>

\* getUserById finds the user.
UserFound(h) ==
  /\ req[h].stage = "user"
  /\ Goto(h, [stage |-> "issue", login |-> req[h].login])
  /\ UNCHANGED <<ttl, index, indexTtl, next, login, raced, revoked>>

-----------------------------------------------------------------------------
(* logout(): revokeAllRefreshTokens().                                     *)

Logout(h) == Start(h, [stage |-> "smembers"])

ReadIndex(h) ==
  /\ req[h].stage = "smembers"
  /\ Goto(h, [stage |-> "del", hashes |-> index, before |-> next])
  /\ UNCHANGED <<ttl, index, indexTtl, next, login, raced, revoked>>

EndLogout(h) ==
  /\ SetIndex({}, 0)
  /\ raced' = raced \cup (index \ req[h].hashes)
  /\ revoked' = IF req[h].before > revoked THEN req[h].before ELSE revoked
  /\ Goto(h, Idle)

\* One DEL of the index and of the keys read from it.
DeleteIndexOnly(h) ==   \* mutant: the keys are left to expire
  /\ req[h].stage = "del"
  /\ EndLogout(h)
  /\ UNCHANGED <<ttl, next, login>>

DeleteAll(h) ==
  /\ req[h].stage = "del"
  /\ ttl' = [k \in Token |-> IF k \in req[h].hashes THEN 0 ELSE ttl[k]]
  /\ EndLogout(h)
  /\ UNCHANGED <<next, login>>

-----------------------------------------------------------------------------

\* A call to Redis or MySQL fails or the process dies: the request ends where
\* it is, and what it has done so far stays.
Fail(h) ==
  /\ req[h].stage # "idle"
  /\ Goto(h, Idle)
  /\ UNCHANGED <<ttl, index, indexTtl, next, login, raced, revoked>>

Down(t) == IF t > 0 THEN t - 1 ELSE 0

PassTime ==
  /\ ttl' = [k \in Token |-> Down(ttl[k])]
  /\ SetIndex(IF indexTtl <= 1 THEN {} ELSE index, Down(indexTtl))
  /\ UNCHANGED <<next, req, login, raced, revoked>>

Next ==
  \/ \E h \in Handler :
       \/ Login(h) \/ Issue(h)
       \/ \E k \in Token : Refresh(h, k)
       \/ Consume(h) \/ Unindex(h) \/ UserFound(h)
       \/ Logout(h) \/ ReadIndex(h) \/ DeleteAll(h)
       \/ Fail(h)
  \/ PassTime

Spec == Init /\ [][Next]_vars

-----------------------------------------------------------------------------
(* Properties.                                                             *)

Request ==
  {Idle} \cup [stage : {"issue", "user"}, login : 0..MaxToken]
         \cup [stage : {"consume", "srem"}, token : Token]
         \cup [stage : {"smembers"}]
         \cup [stage : {"del"}, hashes : SUBSET Token, before : 1..(MaxToken + 1)]

TypeOK ==
  /\ ttl \in [Token -> 0..Lifetime]
  /\ index \subseteq Token
  /\ indexTtl \in 0..Lifetime
  /\ next \in 1..(MaxToken + 1)
  /\ req \in [Handler -> Request]
  /\ login \in [Token -> 0..MaxToken]
  /\ raced \subseteq Token
  /\ revoked \in 1..(MaxToken + 1)

\* The heirs of a login: its live tokens, and the requests that have consumed
\* one and may still issue the next.
LiveOf(l) == {k \in Token : Live(k) /\ login[k] = l}

Renewing(l) ==
  {h \in Handler :
     \/ req[h].stage \in {"user", "issue"} /\ req[h].login = l
     \/ req[h].stage = "srem" /\ login[req[h].token] = l}

\* "A token must be consumed before a new one is issued so that the same token
\* is not used twice" (auth.service.ts:255): however refreshes of one token race,
\* a login never has two heirs.
OneHeirPerLogin ==
  \A l \in Token :
    /\ \A a, b \in LiveOf(l) : a = b
    /\ \A g, h \in Renewing(l) : g = h
    /\ LiveOf(l) = {} \/ Renewing(l) = {}

\* Logout can find every live token in the index (token.service.ts:23), and the
\* index does not expire before them; stale entries do no harm (111-112).  The
\* one exception is a token issued between the two calls of a logout.
IndexCoversLive ==
  \A k \in Token :
    Live(k) /\ k \notin raced => k \in index /\ ttl[k] <= indexTtl

\* "Logout: all refresh tokens of the user are revoked" (token.service.ts:118):
\* none that was issued before a logout began is live once it has ended.
LogoutRevokesAll == \A k \in Token : k < revoked => ~Live(k)

\* The same, but for the tokens issued in the middle of an earlier logout.
LogoutRevokesUnraced == \A k \in Token : k < revoked /\ k \notin raced => ~Live(k)

=============================================================================
