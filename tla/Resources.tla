------------------------------ MODULE Resources ------------------------------
(***************************************************************************)
(* The archive of resources: ResourceService, which stores, lists, edits   *)
(* and removes the links of a user; ResourceExpirationWorker, which        *)
(* deletes the expired ones from every instance of the server without a    *)
(* lock; and ResourceRecommendationService, which asks the AI server for   *)
(* links the user does not have yet.                                       *)
(***************************************************************************)
EXTENDS Integers, Sequences, FiniteSets

CONSTANTS
  User,         \* accounts
  Session,      \* chat sessions
  OwnerOf,      \* the user of each session
  Url,          \* links
  CreateInput,  \* bodies of create requests, with the user they come from
  Instance,     \* server processes
  Asker,        \* recommendation requests that may be in progress at a time
  AiAnswer,     \* answers of the AI server
  Size,         \* sizes of pages and of recommendations that are asked for
  MaxDays,      \* MAX_EXPIRATION_DAYS
  MaxTime,      \* bound of the clock
  MaxResource,  \* bound of resource's AUTO_INCREMENT
  Null          \* SQL NULL, a field left out, and the content of an id without row

Time       == 0..MaxTime
ResourceId == 1..MaxResource

\* An item as the AI server sends it: isItem holds or not, and the days are
\* whatever it wrote.
AiItem == [url : Url, fit : BOOLEAN, days : Int \cup {Null}]

ASSUME ResourceAssumption ==
  /\ MaxTime \in Nat
  /\ MaxResource \in Nat
  /\ MaxDays \in Nat \ {0}
  /\ OwnerOf \in [Session -> User]
  /\ CreateInput \subseteq
       [user : User, url : Url, session : Session \cup {Null}, days : 1..MaxDays \cup {Null}]
  /\ AiAnswer \subseteq Seq(AiItem)
  /\ Size \subseteq Nat \ {0}

VARIABLES
  now,       \* new Date(), in days
  resource,  \* resource, by id
  nextId,    \* next id of resource
  sweep,     \* the DELETE of the expiration worker of each instance, or Rest
  ask        \* where each recommendation request is and what it has read

vars == <<now, resource, nextId, sweep, ask>>

Rest == [stage |-> "rest"]

\* Every instance starts with a tick of its worker.
Init ==
  /\ now = 0
  /\ resource = [r \in ResourceId |-> Null]
  /\ nextId = 1
  /\ sweep = [i \in Instance |-> [stage |-> "delete", cutoff |-> 0]]
  /\ ask = [a \in Asker |-> Rest]

Of(u) == {r \in ResourceId : resource[r] # Null /\ resource[r].user = u}

-----------------------------------------------------------------------------
(* ResourceService.  A memo is modelled by who wrote it; it stands for the *)
(* title too.                                                              *)

ExpiresInDays(days) ==   \* mutant: no days are taken for zero days
  now + (IF days = Null THEN 0 ELSE days)

ExpiresAt(days) == IF days = Null THEN Null ELSE now + days

\* Nothing ends a session or a certificate, so that its check and the insert are
\* one step.  The field days is no column: it is what the request asked for.
Create(c) ==
  /\ c.session # Null => OwnerOf[c.session] = c.user
  /\ nextId <= MaxResource
  /\ resource' = [resource EXCEPT ![nextId] =
       [user |-> c.user, url |-> c.url, memo |-> c.user, session |-> c.session,
        created |-> now, expires |-> ExpiresAt(c.days), days |-> c.days]]
  /\ nextId' = nextId + 1
  /\ UNCHANGED <<now, sweep, ask>>

\* updateMany: the check of the owner and the write are one query.  (The row is
\* read once more for the answer, which may be a 404 when it is gone by then.)
Update(u, r) ==
  /\ r \in Of(u)
  /\ resource' = [resource EXCEPT ![r].memo = u]
  /\ UNCHANGED <<now, nextId, sweep, ask>>

Remove(u, r) ==
  /\ r \in Of(u)
  /\ resource' = [resource EXCEPT ![r] = Null]
  /\ UNCHANGED <<now, nextId, sweep, ask>>

\* list(): by (created_at, id), newest first.
NewerByTime(r, s) ==   \* mutant: created_at alone
  resource[r].created > resource[s].created

Newer(r, s) ==
  \/ resource[r].created > resource[s].created
  \/ resource[r].created = resource[s].created /\ r > s

Rank(u, r) == Cardinality({s \in Of(u) : Newer(s, r)})

\* skip page * size, take size
Page(u, page, size) ==
  {r \in Of(u) : Rank(u, r) >= page * size /\ Rank(u, r) < (page + 1) * size}

\* Math.ceil(totalElements / size)
TotalPages(u, size) == (Cardinality(Of(u)) + size - 1) \div size

-----------------------------------------------------------------------------
(* ResourceExpirationWorker                                                *)

\* The timer fires; a worker that still runs lets it pass.
Tick(i) ==
  /\ sweep[i] = Rest
  /\ sweep' = [sweep EXCEPT ![i] = [stage |-> "delete", cutoff |-> now]]
  /\ UNCHANGED <<now, resource, nextId, ask>>

DeleteExpired(i) ==
  /\ sweep[i].stage = "delete"
  /\ resource' = [r \in ResourceId |->
       IF resource[r] # Null /\ resource[r].expires # Null
                             /\ resource[r].expires <= sweep[i].cutoff
         THEN Null ELSE resource[r]]
  /\ sweep' = [sweep EXCEPT ![i] = Rest]
  /\ UNCHANGED <<now, nextId, ask>>

\* The query throws, before or after MySQL has done it; running is reset.
SweepHangs(i) ==   \* mutant: running is not reset in finally
  /\ sweep[i].stage = "delete"
  /\ sweep' = [sweep EXCEPT ![i] = [stage |-> "failed"]]
  /\ UNCHANGED <<now, resource, nextId, ask>>

SweepFails(i) ==
  /\ sweep[i].stage = "delete"
  /\ sweep' = [sweep EXCEPT ![i] = Rest]
  /\ UNCHANGED <<now, resource, nextId, ask>>

\* The process dies and a new one takes its place: onApplicationBootstrap.
Restart(i) ==
  /\ sweep' = [sweep EXCEPT ![i] = [stage |-> "delete", cutoff |-> now]]
  /\ UNCHANGED <<now, resource, nextId, ask>>

-----------------------------------------------------------------------------
(* ResourceRecommendationService.create()                                  *)

Archived(u) == {resource[r].url : r \in Of(u)}

ReadArchive(a, u, size) ==
  /\ ask[a] = Rest
  /\ ask' = [ask EXCEPT ![a] =
       [stage |-> "ask", user |-> u, size |-> size, seen |-> Archived(u)]]
  /\ UNCHANGED <<now, resource, nextId, sweep>>

\* toExpirationDate
DaysOf(item) == IF item.days # Null /\ item.days \in 1..MaxDays THEN item.days ELSE Null

\* The places of the items that are kept: fit, not archived, not seen before.
KeptTwice(items, seen) ==   \* mutant: seen is not extended by what is kept
  {k \in DOMAIN items : items[k].fit /\ items[k].url \notin seen}

Kept(items, seen) ==
  {k \in DOMAIN items :
     /\ items[k].fit
     /\ items[k].url \notin seen
     /\ \A j \in 1..(k - 1) : items[j].fit => items[j].url # items[k].url}

\* The loop ends when size items are kept.
Chosen(items, seen, size) ==
  LET kept == Kept(items, seen)
  IN {k \in kept : Cardinality({j \in kept : j < k}) < size}

\* With nothing left the request is a 404.
UseAnswer(a, items) ==
  LET r == ask[a]
      chosen == Chosen(items, r.seen, r.size)
  IN /\ r.stage = "ask"
     /\ ask' = [ask EXCEPT ![a] =
          IF chosen = {} THEN Rest
          ELSE [stage |-> "done", user |-> r.user, size |-> r.size, seen |-> r.seen,
                answer |-> items,
                items |-> [k \in chosen |->
                  [url |-> items[k].url, days |-> DaysOf(items[k])]]]]
     /\ UNCHANGED <<now, resource, nextId, sweep>>

\* The answer has been sent, or the request has failed.
EndAsk(a) ==
  /\ ask[a] # Rest
  /\ ask' = [ask EXCEPT ![a] = Rest]
  /\ UNCHANGED <<now, resource, nextId, sweep>>

-----------------------------------------------------------------------------

PassTime ==
  /\ now < MaxTime
  /\ now' = now + 1
  /\ UNCHANGED <<resource, nextId, sweep, ask>>

UserStep ==
  \/ \E c \in CreateInput : Create(c)
  \/ \E u \in User, r \in ResourceId : Update(u, r) \/ Remove(u, r)
  \/ \E a \in Asker, u \in User, size \in Size : ReadArchive(a, u, size)
  \/ \E a \in Asker, items \in AiAnswer : UseAnswer(a, items)
  \/ \E a \in Asker : EndAsk(a)

WorkerStep(i) == Tick(i) \/ DeleteExpired(i) \/ SweepFails(i) \/ Restart(i)

Next == UserStep \/ (\E i \in Instance : WorkerStep(i)) \/ PassTime

Spec == Init /\ [][Next]_vars

\* The timer of an instance keeps firing and its DELETE ends.  A failure or a
\* restart may strike any number of times, but there is a last one.
Outage == \E i \in Instance : SweepFails(i) \/ Restart(i)

\* A DELETE that finds nothing is the same step as one that fails.
OutagesEnd == <>[][Outage => \E i \in Instance : Tick(i) \/ DeleteExpired(i)]_vars

FairSpec ==
  /\ Spec
  /\ OutagesEnd
  /\ \A i \in Instance : WF_vars(Tick(i)) /\ WF_vars(DeleteExpired(i))

-----------------------------------------------------------------------------
(* Properties.                                                             *)

\* The pages of list() show every resource of the user exactly once, and none of
\* the pages it announces is empty, also when resources share their created_at
\* (resource.service.ts:109).
PagesCover ==
  \A u \in User, size \in Size :
    LET pages == 0..(TotalPages(u, size) - 1)
    IN /\ \A r \in Of(u) : Cardinality({p \in pages : r \in Page(u, p, size)}) = 1
       /\ \A p \in pages : Cardinality(Page(u, p, size)) \in 1..size

\* The workers delete a resource only when the days asked for at its creation
\* are over, and one without days never, although every instance deletes on its
\* own and without a lock (expiration.worker.ts:17).
ReapedOnTime ==
  [][ \A r \in ResourceId :
        resource[r] # Null /\ resource'[r] = Null /\ sweep' # sweep =>
          resource[r].days # Null /\ resource[r].created + resource[r].days <= now ]_vars

\* What is recommended is new to the user as of the read, without repetitions,
\* within the size, and nothing that was fit is left out for no reason -- though
\* the AI server may ignore what it was told to leave out
\* (resource/recommendation.service.ts:100) -- and its days are such that create()
\* takes them.
RecommendedFits ==
  \A a \in Asker : ask[a].stage = "done" =>
    LET items == ask[a].items
        urls  == {items[k].url : k \in DOMAIN items}
    IN /\ urls \cap ask[a].seen = {}
       /\ Cardinality(urls) = Cardinality(DOMAIN items)
       /\ Cardinality(urls) <= ask[a].size
       /\ \A k \in DOMAIN items : items[k].days \in 1..MaxDays \cup {Null}
       /\ Cardinality(urls) < ask[a].size =>
            \A k \in DOMAIN ask[a].answer :
              ask[a].answer[k].fit => ask[a].answer[k].url \in urls \cup ask[a].seen

\* Every expired resource goes in the end, failed deletes and restarts included.
ExpiredGo ==
  \A r \in ResourceId :
    (resource[r] # Null /\ resource[r].expires # Null /\ resource[r].expires <= now)
      ~> resource[r] = Null

=============================================================================
