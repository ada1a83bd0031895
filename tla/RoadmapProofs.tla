---------------------------- MODULE RoadmapProofs ----------------------------
(***************************************************************************)
(* The chat session and its roadmaps, proved for every number of requests, *)
(* certificates and answers, and for every bound of clock and messages:    *)
(* updated_at is a lock that lets no reply in but one to the whole history *)
(* and for the session's certificate, and a roadmap, which has no lock,    *)
(* still fits the session it is stored with.                               *)
(***************************************************************************)
EXTENDS Roadmap, TLAPS

USE ChatAssumption DEF Time, Count, Cert

-----------------------------------------------------------------------------
(* The invariant of the chat.  ReplySeesHistory is not inductive: it rests *)
(* on updated_at never taking a value that a request has read, so that a   *)
(* request which finds it as it read it missed nothing since.  It does not *)
(* always grow: init() may set it back to a time before the last reply.    *)

ReadsSession(r) == r.stage \in {"history", "clock", "ask", "save"}
HasHistory(r)   == r.stage \in {"clock", "ask", "save"}
HasSent(r)      == r.stage \in {"ask", "save"}

\* Nothing was read of the session, and no message is of a time, after t.
NothingAfter(t) ==
  /\ \A g \in Handler : ReadsSession(req[g]) => req[g].seen <= t
  /\ \A i \in DOMAIN messages : messages[i].at <= t

\* What a request knows of the session: while no certificate is bound it has
\* read a time of creation or of a reply, and if updated_at is still what was
\* read, so is everything else.
Knows(h) ==
  LET r == req[h]
  IN /\ ReadsSession(r) => /\ r.seen <= now
                           /\ jmCd = Null => r.seen \in Written
                           /\ r.seen = updatedAt => r.jmCd = jmCd
     /\ HasHistory(r)   => /\ r.history <= Len(messages)
                           /\ r.seen = updatedAt => r.history = Len(messages)
     /\ HasSent(r)      => /\ r.sentAt <= now
                           /\ r.seen = updatedAt => NothingAfter(r.sentAt)
     /\ r.stage = "save" => r.sentAt < r.repliedAt /\ r.repliedAt <= now
     /\ r.stage = "write" => r.stamp <= now

\* Every message was stored in the past, and the last message is a reply.
StoredBefore ==
  /\ updatedAt <= now
  /\ jmCd = Null => updatedAt \in Written
  /\ \A i \in DOMAIN messages : messages[i].at <= now
  /\ messages # <<>> => messages[Len(messages)].sender = "AI"

ChatInv ==
  /\ TypeOK
  /\ \A h \in Handler : Knows(h)
  /\ StoredBefore
  /\ ReplySeesHistory
  /\ ConversationInOrder

\* A request's fields, by its stage.
LEMMA RequestShape ==
  ASSUME NEW r \in Request
  PROVE  /\ ReadsSession(r) => r.seen \in Time /\ r.jmCd \in Cert
         /\ HasHistory(r) => r.history \in Count
         /\ HasSent(r) => r.sentAt \in Time
         /\ r.stage = "save" => r.repliedAt \in Time
         /\ r.stage \in {"bind", "write"} => r.certificate \in Certificate
         /\ r.stage = "write" => r.stamp \in Time
BY DEF Request, ReadsSession, HasHistory, HasSent, Idle

LEMMA MessageTimes ==
  ASSUME TypeOK
  PROVE  /\ DOMAIN messages = 1..Len(messages)
         /\ \A i \in DOMAIN messages : messages[i].at \in Time
<1>1. messages \in Seq(Message)
  BY DEF TypeOK
<1>2. \A i \in 1..Len(messages) : messages[i] \in Message
  BY <1>1
<1>3. \A x \in Message : x.at \in Time
  BY DEF Message
<1>4. DOMAIN messages = 1..Len(messages)
  BY <1>1
<1> QED BY <1>2, <1>3, <1>4

LEMMA ChatInitially == Init => ChatInv
BY DEF Init, ChatInv, TypeOK, Request, Idle, Knows, ReadsSession, HasHistory, HasSent,
       StoredBefore, Written, ReplySeesHistory, ConversationInOrder

\* A step that changes one request and nothing of the session.
LEMMA RequestStep ==
  ASSUME ChatInv, NEW h \in Handler, NEW r \in Request,
         req' = [req EXCEPT ![h] = r], Knows(h)',
         ReadsSession(r) => \/ r.seen = updatedAt
                            \/ ReadsSession(req[h]) /\ r.seen = req[h].seen,
         UNCHANGED <<now, updatedAt, jmCd, messages>>
  PROVE  ChatInv'
<1>1. req' \in [Handler -> Request] /\ req \in [Handler -> Request]
  BY DEF ChatInv, TypeOK
<1>2. TypeOK'
  BY <1>1 DEF ChatInv, TypeOK
<1>3. ASSUME NEW g \in Handler PROVE Knows(g)'
  <2>1. CASE g = h
    BY <2>1
  <2>2. CASE g # h
    <3>1. req'[g] = req[g] /\ Knows(g) /\ req[g] \in Request
      BY <2>2, <1>1 DEF ChatInv
    <3>2. HasSent(req[g]) => HasHistory(req[g]) /\ ReadsSession(req[g])
      BY DEF HasSent, HasHistory, ReadsSession
    <3>3. ASSUME HasSent(req[g]), req[g].seen = updatedAt
          PROVE  NothingAfter(req[g].sentAt)'
      <4>1. NothingAfter(req[g].sentAt) /\ updatedAt <= req[g].sentAt
        BY <3>1, <3>2, <3>3 DEF Knows, NothingAfter
      <4>2. ASSUME NEW k \in Handler, ReadsSession(req'[k])
            PROVE  req'[k].seen <= req[g].sentAt
        <5>1. CASE k = h
          BY <4>1, <4>2, <5>1, <1>1 DEF NothingAfter
        <5>2. CASE k # h
          BY <4>1, <4>2, <5>2, <1>1 DEF NothingAfter
        <5> QED BY <5>1, <5>2
      <4> QED BY <3>1, <4>1, <4>2 DEF NothingAfter
    <3> QED BY <3>1, <3>2, <3>3 DEF Knows, Written
  <2> QED BY <2>1, <2>2
<1> QED BY <1>2, <1>3
        DEF ChatInv, StoredBefore, Written, ReplySeesHistory, ConversationInOrder

\* A write of the session gives updated_at a value no request has read, and
\* whoever asked about the session before it will find that.
LEMMA WriteOutdates ==
  ASSUME ChatInv, NEW g \in Handler, req'[g] = req[g], now' = now,
         ReadsSession(req[g]) => req[g].seen # updatedAt',
         jmCd' = Null => jmCd = Null, Written \subseteq Written',
         Len(messages') >= Len(messages), Len(messages') \in Nat
  PROVE  Knows(g)'
<1>1. /\ HasHistory(req[g]) => req[g].history \in Count
      /\ Len(messages) \in Nat /\ Knows(g)
  BY RequestShape DEF ChatInv, TypeOK
<1>2. /\ HasHistory(req[g]) => ReadsSession(req[g])
      /\ HasSent(req[g]) => ReadsSession(req[g])
  BY DEF HasHistory, HasSent, ReadsSession
<1>3. ReadsSession(req[g]) => /\ req[g].seen <= now
                              /\ jmCd' = Null => req[g].seen \in Written'
  BY <1>1 DEF Knows
<1>4. HasHistory(req[g]) => req[g].history <= Len(messages')
  BY <1>1 DEF Knows
<1>5. HasSent(req[g]) => req[g].sentAt <= now
  BY <1>1 DEF Knows
<1>6. /\ req[g].stage = "save" => req[g].sentAt < req[g].repliedAt /\ req[g].repliedAt <= now
      /\ req[g].stage = "write" => req[g].stamp <= now
  BY <1>1 DEF Knows
<1> QED BY <1>2, <1>3, <1>4, <1>5, <1>6 DEF Knows

LEMMA ExchangeInOrder ==
  ASSUME ChatInv, NEW h \in Handler, Save(h)
  PROVE  /\ messages' \in Seq(Message)
         /\ Len(messages') = Len(messages) + 2 /\ Len(messages') <= MaxMessages
         /\ \A i \in DOMAIN messages : messages'[i] = messages[i]
         /\ messages'[Len(messages) + 1] = Exchange(req[h])[1]
         /\ messages'[Len(messages) + 2] = Exchange(req[h])[2]
         /\ DOMAIN messages' = DOMAIN messages \cup {Len(messages) + 1, Len(messages) + 2}
<1> DEFINE r == req[h]
           e == Exchange(r)
<1>1. r \in Request /\ r.stage = "save"
  BY DEF ChatInv, TypeOK, Save
<1>2. r.sentAt \in Time /\ r.repliedAt \in Time /\ r.history \in Count /\ r.jmCd \in Cert
  BY <1>1, RequestShape DEF ReadsSession, HasHistory, HasSent
<1>3. e[1] \in Message /\ e[2] \in Message /\ e \in Seq(Message) /\ Len(e) = 2
  <2>1. [sender |-> "USER", at |-> r.sentAt, history |-> r.history, jmCd |-> r.jmCd] \in Message
    BY <1>2 DEF Message
  <2>2. [sender |-> "AI", at |-> r.repliedAt, history |-> r.history, jmCd |-> r.jmCd] \in Message
    BY <1>2 DEF Message
  <2> QED BY <2>1, <2>2 DEF Exchange
<1>4. messages' = messages \o e /\ Len(messages) + 2 <= MaxMessages /\ messages \in Seq(Message)
  BY DEF Save, ChatInv, TypeOK
<1> HIDE DEF e
<1> QED BY <1>3, <1>4 DEF e

LEMMA SaveStep ==
  ASSUME ChatInv, NEW h \in Handler, Save(h)
  PROVE  ChatInv'
<1> DEFINE r == req[h]
           n == Len(messages)
<1>1. /\ r \in Request /\ r.stage = "save" /\ r.seen = updatedAt /\ Knows(h)
      /\ updatedAt' = r.repliedAt /\ UNCHANGED <<now, jmCd>>
      /\ req' = [req EXCEPT ![h] = Idle] /\ req \in [Handler -> Request]
      /\ now \in Time /\ updatedAt \in Time /\ jmCd \in Cert
      /\ messages \in Seq(Message) /\ n \in Nat /\ DOMAIN messages = 1..n
  BY DEF ChatInv, TypeOK, Save
<1>2. /\ r.history = n /\ r.sentAt \in Time /\ r.repliedAt \in Time
      /\ NothingAfter(r.sentAt) /\ r.sentAt < r.repliedAt /\ r.repliedAt <= now
  BY <1>1, RequestShape DEF Knows, ReadsSession, HasHistory, HasSent
<1>3. /\ Exchange(r)[1].sender = "USER" /\ Exchange(r)[1].at = r.sentAt
      /\ Exchange(r)[2].sender = "AI" /\ Exchange(r)[2].at = r.repliedAt
      /\ Exchange(r)[2].history = r.history
  BY DEF Exchange
<1>4. TypeOK'
  <2>1. Idle \in Request BY DEF Request
  <2>2. req' \in [Handler -> Request] BY <1>1, <2>1
  <2> QED BY <1>1, <1>2, <2>2, ExchangeInOrder DEF TypeOK
<1>5. \A i \in DOMAIN messages :
        i \in 1..n /\ messages'[i] = messages[i]
        /\ messages[i].at \in Time /\ messages[i].at <= r.sentAt
  <2>1. \A i \in DOMAIN messages : i \in 1..n /\ messages[i].at <= r.sentAt
    BY <1>1, <1>2 DEF NothingAfter
  <2>2. \A i \in DOMAIN messages : messages'[i] = messages[i]
    BY ExchangeInOrder
  <2>3. \A i \in DOMAIN messages : messages[i].at \in Time
    BY MessageTimes DEF ChatInv
  <2> HIDE DEF r, n
  <2> QED BY <2>1, <2>2, <2>3
<1>6. /\ DOMAIN messages' = DOMAIN messages \cup {n + 1, n + 2}
      /\ Len(messages') = n + 2
      /\ messages'[n + 1].sender = "USER" /\ messages'[n + 1].at = r.sentAt
      /\ messages'[n + 2].sender = "AI"   /\ messages'[n + 2].at = r.repliedAt
      /\ messages'[n + 2].history = n
  BY <1>2, <1>3, ExchangeInOrder
<1>7. Written \subseteq Written' /\ updatedAt' \in Written'
  <2> HIDE DEF r, n
  <2>1. ASSUME NEW i \in DOMAIN messages
        PROVE  i \in DOMAIN messages' /\ messages'[i] = messages[i]
    BY <1>5, <1>6
  <2>2. n + 2 \in DOMAIN messages'
    BY <1>6
  <2> QED BY <1>1, <1>6, <2>1, <2>2 DEF Written
<1>8. ASSUME NEW g \in Handler PROVE Knows(g)'
  <2>1. CASE g = h
    BY <2>1, <1>1 DEF Knows, ReadsSession, HasHistory, HasSent, Idle
  <2>2. CASE g # h
    <3>1. ReadsSession(req[g]) => req[g].seen \in Time /\ req[g].seen # updatedAt'
      BY <1>1, <1>2, RequestShape DEF NothingAfter
    <3> QED BY <2>2, <3>1, <1>1, <1>6, <1>7, WriteOutdates
  <2> QED BY <2>1, <2>2
<1> HIDE DEF r, n
<1>9. n \in Nat /\ now \in Time
  BY <1>1
<1>10. StoredBefore'
  <2>1. ASSUME NEW i \in DOMAIN messages' PROVE messages'[i].at <= now
    BY <1>2, <1>5, <1>6, <1>9
  <2> QED BY <2>1, <1>1, <1>2, <1>6, <1>7 DEF StoredBefore
<1>11. ReplySeesHistory'
  <2>1. ASSUME NEW i \in DOMAIN messages', messages'[i].sender = "AI"
        PROVE  messages'[i].history = i - 2
    BY <2>1, <1>5, <1>6, <1>9 DEF ChatInv, ReplySeesHistory
  <2> QED BY <2>1 DEF ReplySeesHistory
<1>12. ConversationInOrder'
  <2>1. ASSUME NEW i \in DOMAIN messages', i > 1
        PROVE  messages'[i - 1].at <= messages'[i].at
    <3>1. CASE i \in DOMAIN messages
      <4>1. i - 1 \in DOMAIN messages
        BY <2>1, <3>1, <1>1, <1>5 DEF n
      <4> QED BY <2>1, <3>1, <4>1, <1>5 DEF ChatInv, ConversationInOrder
    <3>2. CASE i = n + 1
      <4>1. i - 1 \in DOMAIN messages
        BY <2>1, <3>2, <1>1, <1>9 DEF n
      <4> QED BY <3>2, <4>1, <1>2, <1>5, <1>6, <1>9
    <3>3. CASE i = n + 2
      BY <3>3, <1>2, <1>6, <1>9
    <3> QED BY <3>1, <3>2, <3>3, <1>6
  <2> QED BY <2>1 DEF ConversationInOrder
<1> QED BY <1>4, <1>8, <1>10, <1>11, <1>12 DEF ChatInv

LEMMA BindStep ==
  ASSUME ChatInv, NEW h \in Handler, Bind(h)
  PROVE  ChatInv'
<1>1. /\ req[h] \in Request /\ req[h].stage = "write" /\ Knows(h)
      /\ jmCd = Null /\ jmCd' = req[h].certificate /\ jmCd' \in Certificate
      /\ updatedAt' = req[h].stamp /\ updatedAt' \in Time /\ updatedAt' \notin Written
      /\ UNCHANGED <<now, messages>> /\ Written' = Written
      /\ req' = [req EXCEPT ![h] = Idle] /\ req \in [Handler -> Request]
      /\ now \in Time /\ messages \in Seq(Message) /\ Len(messages) \in Nat
  BY RequestShape DEF ChatInv, TypeOK, Bind, Written
<1>2. updatedAt' <= now /\ jmCd' # Null
  <2>1. req[h].stamp <= now
    BY <1>1 DEF Knows
  <2> QED BY <1>1, <2>1, NullAssumption
<1>3. TypeOK'
  <2>1. req' \in [Handler -> Request]
    BY <1>1 DEF Request
  <2> QED BY <1>1, <2>1 DEF ChatInv, TypeOK
<1>4. ASSUME NEW g \in Handler PROVE Knows(g)'
  <2>1. CASE g = h
    BY <2>1, <1>1 DEF Knows, ReadsSession, HasHistory, HasSent, Idle
  <2>2. CASE g # h
    <3>1. ReadsSession(req[g]) => req[g].seen # updatedAt'
      BY <1>1 DEF ChatInv, Knows
    <3> QED BY <2>2, <3>1, <1>1, WriteOutdates
  <2> QED BY <2>1, <2>2
<1>5. StoredBefore'
  BY <1>1, <1>2 DEF ChatInv, StoredBefore
<1> QED BY <1>1, <1>3, <1>4, <1>5 DEF ChatInv, ReplySeesHistory, ConversationInOrder

LEMMA PassTimeStep ==
  ASSUME ChatInv, PassTime
  PROVE  ChatInv'
<1>1. /\ now' = now + 1 /\ now' \in Time /\ now \in Time
      /\ UNCHANGED <<updatedAt, jmCd, messages, req>>
      /\ req \in [Handler -> Request] /\ updatedAt \in Time
      /\ Written' = Written
      /\ \A t : NothingAfter(t) => NothingAfter(t)'
  BY DEF PassTime, ChatInv, TypeOK, Written, NothingAfter
<1>2. ASSUME NEW h \in Handler PROVE Knows(h)'
  <2>1. /\ ReadsSession(req[h]) => req[h].seen \in Time
        /\ HasSent(req[h]) => req[h].sentAt \in Time
        /\ req[h].stage = "save" => req[h].repliedAt \in Time
        /\ req[h].stage = "write" => req[h].stamp \in Time
        /\ Knows(h)
    BY <1>1, RequestShape DEF ChatInv
  <2>2. HasSent(req[h]) /\ req[h].seen = updatedAt => NothingAfter(req[h].sentAt)'
    BY <1>1, <2>1 DEF Knows, NothingAfter
  <2> QED BY <1>1, <2>1, <2>2 DEF Knows
<1>3. StoredBefore'
  BY <1>1, MessageTimes DEF ChatInv, StoredBefore
<1> QED BY <1>1, <1>2, <1>3 DEF ChatInv, TypeOK, ReplySeesHistory, ConversationInOrder

LEMMA ReadStep ==
  ASSUME ChatInv, NEW h \in Handler,
         ReadSession(h) \/ ReadMessages(h) \/ TakeSentAt(h) \/ Reply(h)
  PROVE  ChatInv'
<1> DEFINE q == req[h]
<1>1. /\ q \in Request /\ Knows(h) /\ updatedAt <= now
      /\ jmCd = Null => updatedAt \in Written
      /\ now \in Time /\ updatedAt \in Time /\ jmCd \in Cert
      /\ Len(messages) \in Count /\ req \in [Handler -> Request]
  BY DEF ChatInv, TypeOK, StoredBefore
<1>2. /\ ReadsSession(q) => q.seen \in Time /\ q.jmCd \in Cert
      /\ HasHistory(q) => q.history \in Count
      /\ HasSent(q) => q.sentAt \in Time
  BY <1>1, RequestShape
<1>3. CASE ReadSession(h)
  <2> DEFINE r == [stage |-> "history", seen |-> updatedAt, jmCd |-> jmCd]
  <2>1. r \in Request /\ req' = [req EXCEPT ![h] = r]
        /\ UNCHANGED <<now, updatedAt, jmCd, messages>>
    BY <1>1, <1>3 DEF ReadSession, Request
  <2>2. Knows(h)'
    BY <1>1, <2>1 DEF Knows, ReadsSession, HasHistory, HasSent, Written
  <2> QED BY <2>1, <2>2, RequestStep
<1>4. CASE ReadMessages(h)
  <2> DEFINE r == [stage |-> "clock", seen |-> q.seen, jmCd |-> q.jmCd,
                   history |-> Len(messages)]
  <2>1. q.stage = "history" /\ ReadsSession(q)
    BY <1>4 DEF ReadMessages, ReadsSession
  <2>2. r \in Request /\ req' = [req EXCEPT ![h] = r]
        /\ UNCHANGED <<now, updatedAt, jmCd, messages>>
    BY <1>1, <1>2, <1>4, <2>1 DEF ReadMessages, Request
  <2>3. Knows(h)'
    BY <1>1, <2>1, <2>2 DEF Knows, ReadsSession, HasHistory, HasSent, Written
  <2> QED BY <2>1, <2>2, <2>3, RequestStep
<1>5. CASE TakeSentAt(h)
  <2> DEFINE r == Asking(q, now)
  <2>1. q.stage = "clock" /\ ReadsSession(q) /\ HasHistory(q)
    BY <1>5 DEF TakeSentAt, ReadsSession, HasHistory
  <2>2. r \in Request /\ req' = [req EXCEPT ![h] = r]
        /\ UNCHANGED <<now, updatedAt, jmCd, messages>>
        /\ r.stage = "ask" /\ r.seen = q.seen /\ r.jmCd = q.jmCd
        /\ r.history = q.history /\ r.sentAt = now
    BY <1>1, <1>2, <1>5, <2>1 DEF TakeSentAt, Asking, Request
  <2> HIDE DEF r
  <2>3. NothingAfter(now)'
    <3>1. ASSUME NEW g \in Handler, ReadsSession(req'[g]) PROVE req'[g].seen <= now
      <4>1. ReadsSession(req[g]) /\ req'[g].seen = req[g].seen
        BY <1>1, <2>1, <2>2, <3>1
      <4> QED BY <4>1 DEF ChatInv, Knows
    <3> QED BY <2>2, <3>1 DEF NothingAfter, ChatInv, StoredBefore
  <2>4. Knows(h)'
    <3>1. req'[h] = r /\ now' = now /\ updatedAt' = updatedAt /\ jmCd' = jmCd
          /\ messages' = messages /\ Written' = Written /\ now <= now
      BY <1>1, <2>2 DEF Written
    <3>2. NothingAfter(req[h].sentAt)'
      BY <2>2, <2>3, <3>1 DEF NothingAfter
    <3> QED BY <1>1, <2>1, <2>2, <3>1, <3>2 DEF Knows
  <2> QED BY <2>1, <2>2, <2>4, RequestStep
<1>6. CASE Reply(h)
  <2> DEFINE r == [stage |-> "save", seen |-> q.seen, jmCd |-> q.jmCd,
                   history |-> q.history, sentAt |-> q.sentAt, repliedAt |-> now]
  <2>1. q.stage = "ask" /\ ReadsSession(q) /\ HasHistory(q) /\ HasSent(q) /\ now > q.sentAt
    BY <1>6 DEF Reply, ReadsSession, HasHistory, HasSent
  <2>2. r \in Request /\ req' = [req EXCEPT ![h] = r]
        /\ UNCHANGED <<now, updatedAt, jmCd, messages>>
        /\ r.stage = "save" /\ r.seen = q.seen /\ r.jmCd = q.jmCd
        /\ r.history = q.history /\ r.sentAt = q.sentAt /\ r.repliedAt = now
    BY <1>1, <1>2, <1>6, <2>1 DEF Reply, Request
  <2> HIDE DEF r
  <2>3. ASSUME q.seen = updatedAt PROVE NothingAfter(q.sentAt)'
    <3>1. NothingAfter(q.sentAt)
      BY <1>1, <2>1, <2>3 DEF Knows
    <3>2. ASSUME NEW g \in Handler, ReadsSession(req'[g]) PROVE req'[g].seen <= q.sentAt
      <4>1. ReadsSession(req[g]) /\ req'[g].seen = req[g].seen
        BY <1>1, <2>1, <2>2, <3>2
      <4> QED BY <3>1, <4>1 DEF NothingAfter
    <3>3. \A i \in DOMAIN messages' : messages'[i].at <= q.sentAt
      BY <2>2, <3>1 DEF NothingAfter
    <3>4. req'[h].sentAt = q.sentAt
      BY <1>1, <2>2
    <3> QED BY <3>2, <3>3, <3>4 DEF NothingAfter
  <2>4. Knows(h)'
    <3>1. req'[h] = r /\ now' = now /\ updatedAt' = updatedAt /\ jmCd' = jmCd
          /\ messages' = messages /\ Written' = Written /\ now <= now
      BY <1>1, <2>2 DEF Written
    <3>2. q.seen = updatedAt => NothingAfter(req[h].sentAt)'
      BY <2>2, <2>3, <3>1 DEF NothingAfter
    <3> QED BY <1>1, <1>2, <2>1, <2>2, <3>1, <3>2 DEF Knows
  <2> QED BY <2>1, <2>2, <2>4, RequestStep
<1> QED BY <1>3, <1>4, <1>5, <1>6

LEMMA ChatStep == ChatInv /\ [Next]_vars => ChatInv'
<1> SUFFICES ASSUME ChatInv, [Next]_vars PROVE ChatInv'
  OBVIOUS
<1>1. ASSUME NEW h \in Handler, NEW r \in Request,
             r.stage \in {"idle", "bind", "write"}, r.stage = "write" => r.stamp = now,
             req' = [req EXCEPT ![h] = r], UNCHANGED <<now, updatedAt, jmCd, messages>>
      PROVE  ChatInv'
  <2>1. now <= now /\ req'[h] = r /\ ~ ReadsSession(r)
    BY <1>1 DEF ChatInv, TypeOK, ReadsSession
  <2>2. Knows(h)'
    BY <1>1, <2>1 DEF Knows, ReadsSession, HasHistory, HasSent
  <2> QED BY <1>1, <2>1, <2>2, RequestStep
<1>2. ASSUME NEW h \in Handler, NEW c \in Certificate, StartBind(h, c) PROVE ChatInv'
  BY <1>1, <1>2 DEF StartBind, Request
<1>3. ASSUME NEW h \in Handler, Fail(h) \/ Conflict(h) PROVE ChatInv'
  BY <1>1, <1>3 DEF Fail, Conflict, Request, Idle
<1>4. ASSUME NEW h \in Handler, TakeStamp(h) PROVE ChatInv'
  <2>1. req[h].certificate \in Certificate /\ now \in Time
    BY <1>4, RequestShape DEF TakeStamp, ChatInv, TypeOK
  <2> QED BY <1>1, <1>4, <2>1 DEF TakeStamp, Request
<1>5. ASSUME NEW h \in Handler, HandlerStep(h) PROVE ChatInv'
  BY <1>2, <1>3, <1>4, <1>5, ReadStep, SaveStep, BindStep DEF HandlerStep
<1>6. CASE UNCHANGED vars
  BY <1>6 DEF vars, ChatInv, TypeOK, Knows, NothingAfter, StoredBefore, Written,
              ReplySeesHistory, ConversationInOrder
<1> QED BY <1>5, <1>6, PassTimeStep DEF Next

\* Steps that leave the messages alone store no reply, and Save stores what was
\* made for the certificate of the session, which it does not change.
LEMMA ReplyStep ==
  ChatInv /\ [Next]_vars =>
    \A i \in DOMAIN messages' : i > Len(messages) => messages'[i].jmCd = jmCd'
<1> SUFFICES ASSUME ChatInv, [Next]_vars, NEW i \in DOMAIN messages', i > Len(messages)
             PROVE  messages'[i].jmCd = jmCd'
  OBVIOUS
<1>1. messages' # messages
  <2>1. DOMAIN messages = 1..Len(messages)
    BY DEF ChatInv, TypeOK
  <2> QED BY <2>1
<1>2. PICK h \in Handler : Save(h)
  BY <1>1 DEF Next, vars, PassTime, HandlerStep, ReadSession, ReadMessages, TakeSentAt,
              Reply, Conflict, StartBind, TakeStamp, Bind, Fail
<1>3. /\ req[h].jmCd = jmCd /\ jmCd' = jmCd
      /\ Exchange(req[h])[1].jmCd = req[h].jmCd /\ Exchange(req[h])[2].jmCd = req[h].jmCd
  BY <1>2 DEF ChatInv, Knows, ReadsSession, Save, Exchange
<1>4. i \in {Len(messages) + 1, Len(messages) + 2}
  BY <1>2, ExchangeInOrder DEF ChatInv, TypeOK
<1> QED BY <1>2, <1>3, <1>4, ExchangeInOrder

-----------------------------------------------------------------------------
(* Roadmaps.  Nothing holds the session still between the read of a roadmap *)
(* request and its insert; what saves RoadmapFitsSession is that a session  *)
(* only grows: its certificate is set once, its messages are never changed. *)

LEMMA SessionGrows ==
  ASSUME ChatInv, [Next]_vars
  PROVE  /\ jmCd = Null \/ jmCd' = jmCd
         /\ \A i \in DOMAIN messages : i \in DOMAIN messages' /\ messages'[i] = messages[i]
<1>1. CASE \E h \in Handler : Save(h)
  BY <1>1, ExchangeInOrder DEF Save
<1>2. CASE ~ \E h \in Handler : Save(h)
  BY <1>2 DEF Next, vars, PassTime, HandlerStep, ReadSession, ReadMessages, TakeSentAt,
              Reply, Conflict, StartBind, TakeStamp, Bind, Fail
<1> QED BY <1>1, <1>2

\* What create() keeps of a request from one database call to the next.
FitSteps == {s \in Seq(Step) : s # <<>> /\ \A i \in DOMAIN s : IsStep(s[i])}

Making ==
  {Idle} \cup [stage : {"history"}, title : Titles, jmCd : Cert]
         \cup [stage : {"ask"}, title : Titles, jmCd : Cert, history : Count]
         \cup [stage : {"insert"}, title : {"words"}, jmCd : Cert, history : Count,
               steps : FitSteps]

Stored == [title : {"words"}, jmCd : Cert, history : Count, steps : Seq(Row) \ {<<>>}]

\* A certificate read of the session, and a length of its conversation, as they
\* still can be found in it.
FitsCertificate(c) == c \in {Null, jmCd}
FitsHistory(n) == n > 0 => n \in DOMAIN messages /\ messages[n].sender = "AI"

MakingFits(m) ==
  LET r == making[m]
  IN /\ r.stage # "idle" => FitsCertificate(r.jmCd)
     /\ r.stage \in {"ask", "insert"} => FitsHistory(r.history)

RoadmapInv ==
  /\ ChatInv
  /\ roadmaps \in Seq(Stored) /\ Len(roadmaps) <= MaxRoadmaps
  /\ making \in [Maker -> Making]
  /\ \A m \in Maker : MakingFits(m)
  /\ RoadmapFitsSession
  /\ StepsAsAnswered

LEMMA MakingShape ==
  ASSUME NEW r \in Making
  PROVE  /\ r.stage # "idle" => r.jmCd \in Cert
         /\ r.stage \in {"history", "ask"} => r.title \in Titles
         /\ r.stage \in {"ask", "insert"} => r.history \in Count
         /\ r.stage = "insert" => r.title = "words" /\ r.steps \in FitSteps
         /\ r.stage \in {"idle", "history", "ask", "insert"}
BY DEF Making, Idle

\* Validation: an answer that is fit has a title and steps that are, and the
\* date of each row is the one that was answered.
LEMMA FitAnswer ==
  ASSUME NEW given \in Titles, NEW answer \in Answer, IsFit(given, answer)
  PROVE  TitleOf(given, answer) = "words" /\ answer.steps \in FitSteps
BY RoadmapAssumption DEF IsFit, IsTitle, FitSteps

LEMMA RowsFit ==
  ASSUME NEW steps \in FitSteps
  PROVE  /\ Rows(steps) \in Seq(Row) \ {<<>>}
         /\ \A i \in DOMAIN Rows(steps) :
              /\ i \in Nat /\ Rows(steps)[i].orderNo = i
              /\ Rows(steps)[i].date = Rows(steps)[i].asked
<1> DEFINE n == Len(steps)
<1>1. steps \in Seq(Step) /\ n \in Nat \ {0} /\ DOMAIN steps = 1..n
      /\ \A i \in 1..n : steps[i] \in Step /\ IsStep(steps[i])
  BY DEF FitSteps
<1>2. ASSUME NEW i \in 1..n
      PROVE  /\ steps[i].date \in Dates \cup {Null}
             /\ steps[i].date # Null => DateOf(steps[i].date) = steps[i].date
  <2>1. steps[i].date \in Dates \cup {Malformed, Null}
    BY <1>1 DEF Step
  <2> QED BY <2>1, <1>1 DEF IsStep, IsDateString, Parses
<1>3. ASSUME NEW i \in 1..n
      PROVE  /\ Rows(steps)[i] \in Row /\ Rows(steps)[i].orderNo = i
             /\ Rows(steps)[i].date = Rows(steps)[i].asked
  <2>1. Rows(steps)[i] = [orderNo |-> i, asked |-> steps[i].date, date |-> steps[i].date]
    BY <1>1, <1>2 DEF Rows
  <2> QED BY <1>2, <2>1 DEF Row
<1>4. DOMAIN Rows(steps) = 1..n /\ Rows(steps) = [i \in 1..n |-> Rows(steps)[i]]
  BY <1>1 DEF Rows
<1>5. Rows(steps) \in Seq(Row)
  BY <1>1, <1>3, <1>4
<1>6. Rows(steps) # <<>>
  BY <1>1, <1>4
<1> QED BY <1>3, <1>4, <1>5, <1>6

LEMMA RoadmapInitially == RoadmapInit => RoadmapInv
BY ChatInitially, RoadmapAssumption
   DEF RoadmapInit, RoadmapInv, Making, Idle, MakingFits, RoadmapFitsSession, StepsAsAnswered

LEMMA FitsStay ==
  ASSUME ChatInv, [Next]_vars
  PROVE  /\ \A c : FitsCertificate(c) => FitsCertificate(c)'
         /\ \A n : FitsHistory(n) => FitsHistory(n)'
BY SessionGrows DEF FitsCertificate, FitsHistory

\* What is read of the session fits it.
LEMMA FitsWhenRead ==
  ASSUME ChatInv
  PROVE  FitsCertificate(jmCd) /\ FitsHistory(Len(messages)) /\ Len(messages) \in Count
<1>1. messages \in Seq(Message) /\ Len(messages) \in Count
  BY DEF ChatInv, TypeOK
<1>2. Len(messages) > 0 => messages # <<>> /\ Len(messages) \in DOMAIN messages
  BY <1>1
<1> QED BY <1>1, <1>2 DEF ChatInv, StoredBefore, FitsCertificate, FitsHistory

LEMMA SessionStep ==
  ASSUME RoadmapInv, [Next]_vars, UNCHANGED roadmapVars
  PROVE  RoadmapInv'
<1>1. ChatInv'
  BY ChatStep DEF RoadmapInv
<1>2. (\A m \in Maker : MakingFits(m))' /\ RoadmapFitsSession'
  BY FitsStay DEF RoadmapInv, roadmapVars, MakingFits, RoadmapFitsSession,
                  FitsCertificate, FitsHistory
<1> QED BY <1>1, <1>2 DEF RoadmapInv, roadmapVars, StepsAsAnswered

\* A step of one roadmap request that stores nothing.
LEMMA MakingStep ==
  ASSUME RoadmapInv, NEW m \in Maker, NEW r \in Making,
         making' = [making EXCEPT ![m] = r], UNCHANGED <<vars, roadmaps>>,
         r.stage # "idle" => FitsCertificate(r.jmCd),
         r.stage \in {"ask", "insert"} => FitsHistory(r.history)
  PROVE  RoadmapInv'
<1>1. ChatInv'
  BY ChatStep DEF RoadmapInv
<1>2. making' \in [Maker -> Making]
  BY DEF RoadmapInv
<1>3. ASSUME NEW k \in Maker PROVE MakingFits(k)'
  <2>1. CASE k = m
    BY <2>1 DEF RoadmapInv, vars, MakingFits, FitsCertificate, FitsHistory
  <2>2. CASE k # m
    BY <2>2 DEF RoadmapInv, vars, MakingFits, FitsCertificate, FitsHistory
  <2> QED BY <2>1, <2>2
<1> QED BY <1>1, <1>2, <1>3 DEF RoadmapInv, vars, RoadmapFitsSession, StepsAsAnswered

LEMMA InsertStep ==
  ASSUME RoadmapInv, NEW m \in Maker, InsertRoadmap(m)
  PROVE  RoadmapInv'
<1> DEFINE r == making[m]
           row == [title |-> r.title, jmCd |-> r.jmCd, history |-> r.history,
                   steps |-> Rows(r.steps)]
<1>1. /\ r \in Making /\ r.stage = "insert" /\ roadmaps' = Append(roadmaps, row)
      /\ making' = [making EXCEPT ![m] = Idle] /\ UNCHANGED vars
      /\ roadmaps \in Seq(Stored) /\ Len(roadmaps) < MaxRoadmaps
      /\ making \in [Maker -> Making] /\ MakingFits(m)
  BY DEF RoadmapInv, InsertRoadmap
<1>2. /\ r.jmCd \in Cert /\ r.history \in Count /\ r.title = "words" /\ r.steps \in FitSteps
      /\ FitsCertificate(r.jmCd) /\ FitsHistory(r.history)
  BY <1>1, MakingShape DEF MakingFits
<1>3. row \in Stored
  BY <1>2, RowsFit DEF Stored
<1>4. ChatInv'
  BY <1>1, ChatStep DEF RoadmapInv
<1>5. making' \in [Maker -> Making]
  <2>1. Idle \in Making
    BY DEF Making
  <2> QED BY <1>1, <2>1
<1>6. ASSUME NEW k \in Maker PROVE MakingFits(k)'
  <2>1. CASE k = m
    BY <1>1, <2>1 DEF MakingFits, Idle
  <2>2. CASE k # m
    BY <1>1, <2>2 DEF RoadmapInv, vars, MakingFits, FitsCertificate, FitsHistory
  <2> QED BY <2>1, <2>2
<1>7. row.jmCd = r.jmCd /\ row.history = r.history /\ row.steps = Rows(r.steps)
  OBVIOUS
<1> HIDE DEF row
<1>8. /\ roadmaps' \in Seq(Stored) /\ Len(roadmaps') = Len(roadmaps) + 1
      /\ Len(roadmaps') <= MaxRoadmaps
      /\ \A i \in DOMAIN roadmaps' :
           \/ i \in DOMAIN roadmaps /\ roadmaps'[i] = roadmaps[i]
           \/ roadmaps'[i] = row
  BY <1>1, <1>3, RoadmapAssumption
<1>9. RoadmapFitsSession'
  <2> SUFFICES ASSUME NEW i \in DOMAIN roadmaps'
               PROVE  /\ FitsCertificate(roadmaps'[i].jmCd)
                      /\ FitsHistory(roadmaps'[i].history)
    BY <1>1 DEF RoadmapFitsSession, FitsCertificate, FitsHistory, vars
  <2>1. CASE roadmaps'[i] = row
    BY <1>2, <1>7, <2>1
  <2>2. CASE i \in DOMAIN roadmaps /\ roadmaps'[i] = roadmaps[i]
    BY <2>2 DEF RoadmapInv, RoadmapFitsSession, FitsCertificate, FitsHistory
  <2> QED BY <2>1, <2>2, <1>8
<1>10. StepsAsAnswered'
  <2> DEFINE Shown(steps) == \A a, b \in DOMAIN steps :
                               /\ steps[a].date = steps[a].asked
                               /\ a < b => steps[a].orderNo < steps[b].orderNo
  <2>1. Shown(row.steps)
    BY <1>2, <1>7, RowsFit
  <2>2. \A i \in DOMAIN roadmaps : Shown(roadmaps[i].steps)
    BY DEF RoadmapInv, StepsAsAnswered
  <2> HIDE DEF Shown
  <2>3. \A i \in DOMAIN roadmaps' : Shown(roadmaps'[i].steps)
    BY <1>8, <2>1, <2>2
  <2> QED BY <2>3 DEF Shown, StepsAsAnswered
<1> QED BY <1>4, <1>5, <1>6, <1>8, <1>9, <1>10 DEF RoadmapInv

LEMMA MakerPreserves ==
  ASSUME RoadmapInv, NEW m \in Maker, MakerStep(m)
  PROVE  RoadmapInv'
<1> DEFINE q == making[m]
<1>1. /\ q \in Making /\ MakingFits(m) /\ jmCd \in Cert /\ Idle \in Making /\ Idle.stage = "idle"
  BY DEF RoadmapInv, ChatInv, TypeOK, Making, Idle
<1>2. ASSUME NEW given \in Titles, ReadRow(m, given) PROVE RoadmapInv'
  <2> DEFINE r == [stage |-> "history", title |-> given, jmCd |-> jmCd]
  <2>1. r \in Making
    BY <1>1 DEF Making
  <2> QED BY <1>2, <2>1, MakingStep, FitsWhenRead DEF ReadRow, RoadmapInv
<1>3. CASE ReadHistory(m)
  <2> DEFINE r == [stage |-> "ask", title |-> q.title, jmCd |-> q.jmCd,
                   history |-> Len(messages)]
  <2>1. q.stage = "history" /\ q.title \in Titles /\ q.jmCd \in Cert /\ FitsCertificate(q.jmCd)
    BY <1>1, <1>3, MakingShape DEF ReadHistory, MakingFits
  <2>2. r \in Making
    BY <2>1, FitsWhenRead DEF Making, RoadmapInv
  <2> QED BY <1>3, <2>1, <2>2, MakingStep, FitsWhenRead DEF ReadHistory, RoadmapInv
<1>4. ASSUME NEW answer \in Answer, UseAnswer(m, answer) PROVE RoadmapInv'
  <2>1. /\ q.stage = "ask" /\ q.title \in Titles /\ q.jmCd \in Cert /\ q.history \in Count
        /\ FitsCertificate(q.jmCd) /\ FitsHistory(q.history)
    BY <1>1, <1>4, MakingShape DEF UseAnswer, MakingFits
  <2>2. CASE IsFit(q.title, answer)
    <3> DEFINE r == [stage |-> "insert", title |-> TitleOf(q.title, answer),
                     jmCd |-> q.jmCd, history |-> q.history, steps |-> answer.steps]
    <3>1. r \in Making
      BY <2>1, <2>2, FitAnswer DEF Making
    <3> QED BY <1>4, <2>1, <2>2, <3>1, MakingStep DEF UseAnswer
  <2>3. CASE ~ IsFit(q.title, answer)
    BY <1>1, <1>4, <2>3, MakingStep DEF UseAnswer
  <2> QED BY <2>2, <2>3
<1>5. CASE FailRoadmap(m)
  BY <1>1, <1>5, MakingStep DEF FailRoadmap
<1> QED BY <1>2, <1>3, <1>4, <1>5, InsertStep DEF MakerStep

LEMMA RoadmapStep == RoadmapInv /\ [RoadmapNext]_allVars => RoadmapInv'
<1> SUFFICES ASSUME RoadmapInv, [RoadmapNext]_allVars PROVE RoadmapInv'
  OBVIOUS
<1>1. CASE UNCHANGED allVars
  BY <1>1, SessionStep DEF allVars, vars, roadmapVars
<1>2. CASE Next /\ UNCHANGED roadmapVars
  BY <1>2, SessionStep
<1> QED BY <1>1, <1>2, MakerPreserves DEF RoadmapNext

\* A roadmap request only reads the session: with any of them about, it is still
\* the session of ChatSession.
LEMMA RoadmapIsChatStep == [RoadmapNext]_allVars => [Next]_vars
BY DEF RoadmapNext, allVars, vars, MakerStep, ReadRow, ReadHistory, UseAnswer,
       InsertRoadmap, FailRoadmap

-----------------------------------------------------------------------------
(* The theorems.                                                           *)

\* The invariant of the chat: the optimistic lock, and types.
THEOREM ChatInvariant == Spec => []ChatInv
BY ChatInitially, ChatStep, PTL DEF Spec

THEOREM RoadmapsLeaveChat == RoadmapSpec => Spec
<1>1. RoadmapInit => Init
  BY DEF RoadmapInit
<1> QED BY <1>1, RoadmapIsChatStep, PTL DEF RoadmapSpec, Spec

THEOREM RoadmapInvariant == RoadmapSpec => []RoadmapInv
BY RoadmapInitially, RoadmapStep, PTL DEF RoadmapSpec

\* Types, the steps of stored roadmaps with them.
THEOREM RoadmapTypeCorrect == RoadmapSpec => []RoadmapTypeOK
<1>1. RoadmapInv => RoadmapTypeOK
  <2> SUFFICES ASSUME RoadmapInv PROVE RoadmapTypeOK
    OBVIOUS
  <2>1. \A i \in DOMAIN roadmaps : roadmaps[i] \in Stored
    BY DEF RoadmapInv
  <2>2. \A m \in Maker : making[m].stage \in {"idle", "history", "ask", "insert"}
    BY MakingShape DEF RoadmapInv
  <2> QED BY <2>1, <2>2 DEF RoadmapTypeOK, RoadmapInv, ChatInv, Stored
<1> QED BY <1>1, RoadmapInvariant, PTL

\* sendMessage stores no reply that was made from less than the conversation it
\* is put at the end of, for any number of requests at once.
THEOREM RepliesSeeHistory == RoadmapSpec => []ReplySeesHistory
<1>1. ChatInv => ReplySeesHistory
  BY DEF ChatInv
<1> QED BY <1>1, ChatInvariant, RoadmapsLeaveChat, PTL

\* created_at, which the client sorts by, is the order messages were stored in,
\* though it is taken before the AI server is asked.
THEOREM ConversationSorted == RoadmapSpec => []ConversationInOrder
<1>1. ChatInv => ConversationInOrder
  BY DEF ChatInv
<1> QED BY <1>1, ChatInvariant, RoadmapsLeaveChat, PTL

\* A reply asked for before init() bound a certificate is never stored after it.
THEOREM RepliesKnowCertificate == RoadmapSpec => ReplyKnowsCertificate
<1>1. ChatInv /\ [Next]_vars =>
        [\A i \in DOMAIN messages' : i > Len(messages) => messages'[i].jmCd = jmCd']_vars
  BY ReplyStep
<1> QED BY <1>1, ChatInvariant, RoadmapsLeaveChat, PTL DEF Spec, ReplyKnowsCertificate

\* create() stores only the steps it was answered, in that order, on days that
\* exist, whatever the AI server answers.
THEOREM RoadmapsAsAnswered == RoadmapSpec => []StepsAsAnswered
<1>1. RoadmapInv => StepsAsAnswered
  BY DEF RoadmapInv
<1> QED BY <1>1, RoadmapInvariant, PTL

\* create() takes no lock, and what it stores still fits the session: however
\* late the insert comes, and whatever chat and init() do before it.
THEOREM RoadmapsFitSession == RoadmapSpec => []RoadmapFitsSession
<1>1. RoadmapInv => RoadmapFitsSession
  BY DEF RoadmapInv
<1> QED BY <1>1, RoadmapInvariant, PTL

=============================================================================
