----------------------------- MODULE ChatSession -----------------------------
(***************************************************************************)
(* One chat session: ChatService.sendMessage, which asks the AI server for *)
(* a reply to the history it has read and stores message and reply only if *)
(* the session has not changed since (updated_at is its optimistic lock),  *)
(* and RoadmapService.init, which binds a certificate to the session once. *)
(* (Sessions share no rows, so one stands for all.)                        *)
(***************************************************************************)
EXTENDS Integers, Sequences

CONSTANTS
  Handler,       \* requests on the session that may be in progress at a time
  Certificate,   \* values of jm_cd
  MaxTime,       \* bound of the clock, in milliseconds of the model
  MaxMessages,   \* bound of the messages of the session
  Null           \* no certificate

ASSUME ChatAssumption ==
  /\ MaxTime \in Nat
  /\ MaxMessages \in Nat

ASSUME NullAssumption == Null \notin Certificate

VARIABLES
  now,        \* new Date()
  updatedAt,  \* chat_session.updated_at
  jmCd,       \* chat_session.jm_cd
  messages,   \* chat_message of the session, by id
  req         \* where each request is and what it has read

vars == <<now, updatedAt, jmCd, messages, req>>

Idle == [stage |-> "idle"]

\* createSession, with a certificate or without.
Init ==
  /\ now = 0
  /\ updatedAt = 0
  /\ jmCd \in Certificate \cup {Null}
  /\ messages = <<>>
  /\ req = [h \in Handler |-> Idle]

-----------------------------------------------------------------------------
(* sendMessage()                                                           *)

\* findFirst reads the session row, and its certificate with it ...
ReadSession(h) ==
  /\ req[h].stage = "idle"
  /\ req' = [req EXCEPT ![h] =
       [stage |-> "history", seen |-> updatedAt, jmCd |-> jmCd]]
  /\ UNCHANGED <<now, updatedAt, jmCd, messages>>

\* ... and then, in a query of its own, the messages.
ReadMessages(h) ==
  LET r == req[h]
  IN /\ r.stage = "history"
     /\ req' = [req EXCEPT ![h] =
          [stage |-> "clock", seen |-> r.seen, jmCd |-> r.jmCd,
           history |-> Len(messages)]]
     /\ UNCHANGED <<now, updatedAt, jmCd, messages>>

Asking(r, t) ==
  [stage |-> "ask", seen |-> r.seen, jmCd |-> r.jmCd, history |-> r.history,
   sentAt |-> t]

\* sentAt is taken when the relations of the user have been read too.
TakeSentAtEarly(h) ==   \* mutant: the time of the request, not of the read
  /\ req[h].stage = "clock"
  /\ \E t \in 0..now : req' = [req EXCEPT ![h] = Asking(req[h], t)]
  /\ UNCHANGED <<now, updatedAt, jmCd, messages>>

TakeSentAt(h) ==
  /\ req[h].stage = "clock"
  /\ req' = [req EXCEPT ![h] = Asking(req[h], now)]
  /\ UNCHANGED <<now, updatedAt, jmCd, messages>>

\* The AI server replies; a call to it takes a millisecond at least.
Reply(h) ==
  LET r == req[h]
  IN /\ r.stage = "ask"
     /\ now > r.sentAt
     /\ req' = [req EXCEPT ![h] =
          [stage |-> "save", seen |-> r.seen, jmCd |-> r.jmCd,
           history |-> r.history, sentAt |-> r.sentAt, repliedAt |-> now]]
     /\ UNCHANGED <<now, updatedAt, jmCd, messages>>

Exchange(r) ==
  << [sender |-> "USER", at |-> r.sentAt, history |-> r.history, jmCd |-> r.jmCd],
     [sender |-> "AI", at |-> r.repliedAt, history |-> r.history, jmCd |-> r.jmCd] >>

\* The transaction: the session is updated if it is as it was read, and both
\* messages are inserted.
SaveAnyway(h) ==   \* mutant: update without the condition on updated_at
  LET r == req[h]
  IN /\ r.stage = "save"
     /\ Len(messages) + 2 <= MaxMessages
     /\ updatedAt' = r.repliedAt
     /\ messages' = messages \o Exchange(r)
     /\ req' = [req EXCEPT ![h] = Idle]
     /\ UNCHANGED <<now, jmCd>>

Save(h) ==
  LET r == req[h]
  IN /\ r.stage = "save"
     /\ updatedAt = r.seen
     /\ Len(messages) + 2 <= MaxMessages
     /\ updatedAt' = r.repliedAt
     /\ messages' = messages \o Exchange(r)
     /\ req' = [req EXCEPT ![h] = Idle]
     /\ UNCHANGED <<now, jmCd>>

\* 409: another request was saved first.
Conflict(h) ==
  /\ req[h].stage = "save"
  /\ updatedAt # req[h].seen
  /\ req' = [req EXCEPT ![h] = Idle]
  /\ UNCHANGED <<now, updatedAt, jmCd, messages>>

-----------------------------------------------------------------------------
(* init()                                                                  *)

\* The session has no certificate, and the one asked for exists.
StartBind(h, c) ==
  /\ req[h].stage = "idle"
  /\ jmCd = Null
  /\ req' = [req EXCEPT ![h] = [stage |-> "bind", certificate |-> c]]
  /\ UNCHANGED <<now, updatedAt, jmCd, messages>>

\* @updatedAt: Prisma takes the time when it makes up the updateMany, ...
TakeStamp(h) ==
  /\ req[h].stage = "bind"
  /\ req' = [req EXCEPT ![h] =
       [stage |-> "write", certificate |-> req[h].certificate, stamp |-> now]]
  /\ UNCHANGED <<now, updatedAt, jmCd, messages>>

\* The values updated_at has had before a certificate is bound: the session's
\* creation and every reply.
Written ==
  {0} \cup {messages[i].at : i \in {j \in DOMAIN messages : messages[j].sender = "AI"}}

\* ... and the database sets it where jm_cd is null, after any write that went
\* before: updated_at may go back.  No two writes of the session fall into the
\* same millisecond.
BindAnyway(h) ==   \* mutant: update without the condition on jm_cd
  /\ req[h].stage = "write"
  /\ req[h].stamp \notin Written
  /\ jmCd' = req[h].certificate
  /\ updatedAt' = req[h].stamp
  /\ req' = [req EXCEPT ![h] = Idle]
  /\ UNCHANGED <<now, messages>>

BindQuietly(h) ==   \* mutant: updated_at is left as it is
  /\ req[h].stage = "write"
  /\ jmCd = Null
  /\ jmCd' = req[h].certificate
  /\ req' = [req EXCEPT ![h] = Idle]
  /\ UNCHANGED <<now, updatedAt, messages>>

Bind(h) ==
  /\ req[h].stage = "write"
  /\ jmCd = Null
  /\ req[h].stamp \notin Written
  /\ jmCd' = req[h].certificate
  /\ updatedAt' = req[h].stamp
  /\ req' = [req EXCEPT ![h] = Idle]
  /\ UNCHANGED <<now, messages>>

\* 409, or the request fails: 502/504 of the AI server, a lost connection.
Fail(h) ==
  /\ req[h].stage # "idle"
  /\ req' = [req EXCEPT ![h] = Idle]
  /\ UNCHANGED <<now, updatedAt, jmCd, messages>>

PassTime ==
  /\ now < MaxTime
  /\ now' = now + 1
  /\ UNCHANGED <<updatedAt, jmCd, messages, req>>

HandlerStep(h) ==
  \/ ReadSession(h) \/ ReadMessages(h) \/ TakeSentAt(h) \/ Reply(h)
  \/ Save(h) \/ Conflict(h)
  \/ (\E c \in Certificate : StartBind(h, c)) \/ TakeStamp(h) \/ Bind(h)
  \/ Fail(h)

Next == (\E h \in Handler : HandlerStep(h)) \/ PassTime

Spec == Init /\ [][Next]_vars

-----------------------------------------------------------------------------
(* Properties.                                                             *)

Time  == 0..MaxTime
Count == 0..MaxMessages
Cert  == Certificate \cup {Null}

Message == [sender : {"USER", "AI"}, at : Time, history : Count, jmCd : Cert]

Request ==
  {Idle} \cup [stage : {"history"}, seen : Time, jmCd : Cert]
         \cup [stage : {"clock"}, seen : Time, jmCd : Cert, history : Count]
         \cup [stage : {"ask"}, seen : Time, jmCd : Cert, history : Count, sentAt : Time]
         \cup [stage : {"save"}, seen : Time, jmCd : Cert, history : Count,
               sentAt : Time, repliedAt : Time]
         \cup [stage : {"bind"}, certificate : Certificate]
         \cup [stage : {"write"}, certificate : Certificate, stamp : Time]

TypeOK ==
  /\ now \in Time
  /\ updatedAt \in Time
  /\ jmCd \in Cert
  /\ messages \in Seq(Message) /\ Len(messages) <= MaxMessages
  /\ req \in [Handler -> Request]

\* A reply is stored only right after the history it was made from: "if another
\* request is saved after the read, this one was made from an older history and
\* is thrown away" (chat.service.ts:200).
ReplySeesHistory ==
  \A i \in DOMAIN messages :
    messages[i].sender = "AI" => messages[i].history = i - 2

\* The order the client is shown, by created_at, is the order of the
\* conversation: no message is older than one stored before it.
ConversationInOrder ==
  \A i \in DOMAIN messages : i > 1 => messages[i - 1].at <= messages[i].at

\* A reply is stored only if it was made for the certificate of the session: a
\* reply on its way when init binds one is thrown away.
ReplyKnowsCertificate ==
  [][ \A i \in DOMAIN messages' :
        i > Len(messages) => messages'[i].jmCd = jmCd' ]_vars

=============================================================================
