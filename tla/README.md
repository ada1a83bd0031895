# LI-ON server: a verification project

TLA+ models of the LI-ON backend (NestJS, Prisma on MySQL, ioredis, FCM, an
external AI server), the TLC configurations that check them and proofs for TLAPS.
The server runs as several instances over one MySQL and one Redis.  No instance
keeps state of its own but the cached FCM access token, so what can go wrong is
in the order in which requests and timers reach the two stores, in the calls that
belong together and are made one by one, and in what happens when one of them is
lost.  Paths below are relative to `src/src/` of the repository.

## 1. Inventory

| Component | State | Operations | What makes it hard | What makes it correct |
|---|---|---|---|---|
| Alarm worker lock (`calendar/alarm.worker.ts` 17-24, 57-87) | Redis key `alarm:worker:lock`, its TTL | SET NX PX, compare-and-delete, expiry | ticks of one or many instances overlap; a tick has no time limit; replies are lost; a process dies | one tick sends at a time; nobody releases another's lock; the lock does not stay |
| Alarm worker (`calendar/alarm.worker.ts` 89-199) | `alarm.status`, `device_token` | read a batch, read devices, send, one transaction | seven awaits in a row, with calendar requests in between; answers in any order | a status tells what FCM did; no due reminder is forgotten; no early, no second push |
| FCM client (`calendar/fcm.service.ts`) | cached access token | token request, push, classification of the answer | timeouts, 401 on a cached token, lost answers | every answer ends in the right one of four results |
| Calendar (`calendar/calendar.service.ts`) | `calendar_event`, `alarm` | create, list, update, remove | partial updates race; reminders are replaced while the worker sends them | ranges stay valid; reminder lists do not mix; the record of what was sent stays |
| Device tokens (`user/device-token.service.ts`) | `device_token` | register, unregister | a token moves to another account; the worker deletes | only tokens FCM has disowned are reaped |
| Refresh tokens (`auth/token.service.ts`) | one key per token, an index set, both with TTL | issue, consume, revoke all | token reuse, logout against login and refresh | one heir per token; logout revokes everything |
| Sign-up (`auth/auth.service.ts` 81-203) | code, two counters, a marker (Redis), the account (MySQL) | send-code, verify-code, signup | INCR and EXPIRE apart; a code sent again while the old one is tried | one signup per verification; limits hold and end |
| Login (`auth/auth.service.ts` 205-251) | failure counter, `first_use` | login | check and count apart; concurrent logins | the lock holds, is bounded and ends; one first login |
| Chat sessions (`roadmap/chat.service.ts`) | `chat_session.updated_at`, `jm_cd`, `chat_message` | create, list, get, send message | seconds pass between reading the history and saving the reply | a stored reply answers the history before it |
| Roadmaps (`roadmap/roadmap.service.ts`) | `roadmap`, `roadmap_step`, `chat_session.jm_cd` | create, list, get, init | concurrent init; the session changes while the AI server works; unvalidated AI output | a roadmap fits its session; steps are stored as answered, and only if all are fit |
| Resources (`resource/*.ts`) | `resource` | create, list, get, update, remove, recommend, expiry on a timer | every instance deletes on its own, without a lock; a failed delete must not stop the timer; unvalidated AI output | what is expired goes and nothing else; pages cover the list; recommendations are new and storable |
| Certificate search (`cert/cert.service.ts`) | none: the tables are seed data | search in pages, lookup by keywords, resolution of a name, the list to recommend from | equal names, LIMIT, weights that add up | pages partition the matches; what LIMIT keeps is the best |
| Certificate recommendations (`cert/recommendation.service.ts`) | `recommendation`, `recommendation_item` | create (through the AI server), get | two reads of a user who changes; two first requests; delete and insert in a transaction others see; any answer of the AI server | what is shown is one whole ranking, from one answer |
| Onboarding (`user/onboarding.service.ts`) | `onboarding_answer`, `user_desired_field`, `user.is_onboarded` | questions, submit, the payload for the AI server | three writes that belong together, from requests that race | an onboarded user has the answers and fields of one sheet that fits the questions |
| User profiles (`user/user.profile.service.ts`) | `user.nickname` | get, update | | |
| AI client, mail, Redis and Prisma adapters, HTTP layer, guards | none | | I/O | |

How they interact: requests call the services; the services share rows and keys
only.  `AlarmWorker` reads what `CalendarService` writes and writes `alarm.status`
back, and deletes rows of `DeviceTokenService`; `FcmService` is called by it
alone.  `AuthService` is the only caller of `TokenService`; signup leaves the account
and `first_use` for login.  The answers `OnboardingService` stores go to the AI server
with every recommendation, chat and roadmap request, and `RecommendationService`
refuses who has none.  `RoadmapService.init` writes the row `ChatService` uses
as its optimistic lock.  There are no queues, callbacks or events between
components; two timers exist (alarm worker, expiry of resources), and both run in
every instance.

## 2. Modules

| Module | Role |
|---|---|
| `AlarmLease` | abstract: a lease on the right to send, without time |
| `AlarmLock` | the lock key with TTL and timeouts; refines `AlarmLease` |
| `AlarmLockProofs` | theorems about `AlarmLock` |
| `Calendar` | events and reminders under concurrent requests |
| `CalendarProofs` | theorems about `Calendar` |
| `AlarmWorker` | composes `Calendar`, devices, FCM and the ticks; refines `AlarmLease` and `Calendar` |
| `AlarmWorkerProofs` | theorems about `AlarmWorker` |
| `RefreshTokens` | the token keys of one user and their index |
| `RefreshTokensProofs` | theorems about `RefreshTokens` |
| `Counter` | a Redis counter as `incr()` uses it |
| `SignUp`, `Login` | the rest of `AuthService`, for one address |
| `Account` | composes `SignUp` and `Login` on one account and one clock |
| `AccountProofs` | theorems about `SignUp`, `Login` and `Account` |
| `ChatSession` | one chat session: messages and the certificate |
| `Roadmap` | composes `ChatSession` with the requests that make roadmaps |
| `RoadmapProofs` | theorems about `ChatSession` and `Roadmap` |
| `Resources` | the archive, its expiry in every instance, the choice among recommended links |
| `ResourcesProofs` | theorems about `Resources` |
| `Catalogue` | the certificates, which nothing writes |
| `Onboarding` | the answers of one user: validation and replacement |
| `Recommendations` | extends `Onboarding` and `Catalogue`: the ranking made from the answers |
| `CertSearch` | the lookups in the catalogue, and what they may answer |
| `Certificates` | composes `Recommendations` and `CertSearch` |
| `CertificatesProofs` | theorems about `Certificates` |
| `MC*` | inputs, fault sets and symmetry for TLC |

The common style: a request or a tick is a record in a function (`req`, `call`,
`tick`) with the field `stage` (or `op`) naming the await it has got to and the
other fields what it carries from one await to the next.  One action is what
happens between two awaits, so that everything may interleave exactly where the
event loop, Redis or MySQL lets it.  A request that ends in an error ends where
it is (`Fail`), and what it has written stays.

### AlarmLock

`holder` is the value of the key (the UUID of a tick), `ttl` the time left.
`Acquire` is `SET NX PX` (61-69), `Authorize` and `Push` the two calls that
`AbortSignal.timeout` cuts off, `Store` the transaction, `Finish` any way out of
`sendDueAlarms`, `Release` the Lua script (22-24, 78).  `AcquireUnseen`,
`ReleaseLost` and `Crash` are lost replies, a lost release and a dead process.
Time is kept as countdowns.  The constant `OwnTime` is the longest time a tick
spends outside the two FCM calls (replies of Redis, two queries, the transaction,
the event loop).  No code bounds it, so it is an assumption wherever a property
needs it, and `alarm_lock_overrun` shows what happens without it.

### Calendar

`event` and `alarm` are the tables, `call` the requests in flight.  Validation
(`SubmitCreate`, `SubmitUpdate`: `assertRange`, `toRemindAts`) happens at one
time, the writes at a later one (`InsertEvent`, `Commit`).  `LockRow` is
`SELECT ... FOR UPDATE` and the range check on the row as it will be; the row stays
locked until `Commit` or `Fail`, and `Remove` waits for it.  Under that lock the four
writes of `update` are one step, `Commit`: no other request comes between them, and the
worker, which does not take it, writes rows these either delete or leave alone.  Ids are AUTO_INCREMENT
counters, bounded by `MaxEvent` and `MaxAlarm`; the clock by `MaxTime`.  The field
`list` of an alarm row is not a column: it names the request the row came from.
`RecordOutcome` is the write of the worker; in this module it may say anything
at any time, so that what is proved here holds whatever the worker does.

### AlarmWorker

`AlarmWorker` extends `Calendar` and replaces `RecordOutcome` by the worker:
`Begin` (SET), `FindAlarms` (the due batch in order), `FindEvents` (the query Prisma
makes for their owners, which throws when an event is gone), `FindDevices` (targets),
`GetToken`/`TokenRefused` (cache or Google), one action per class of answer
(`Accepted` 2xx, `Disowned` 404, `Unauthorized` 401, `Unavailable` 429/5xx/network,
`Refused` otherwise, `AcceptedUnheard` for a delivery whose answer is lost),
`Store` (the transaction), `Release`.  `taken` is what FCM really took; `pushed`
counts the pushes a tick had the answer of, and forgets those of a tick that is lost,
or whose transaction fails, before they are recorded (`Forget`).  The properties
compare both with what is recorded, and so tell what the code does from what no
program could know.  A 404 is taken to mean a dead token: that is what FCM says with
it, and the code asks no further (`fcm.service.ts` 165).  Here the lock has no clock: the
lease says when the key may expire, and the fault `overrun` breaks it.  The
constant `Faults` chooses which of crash, ioError, lost, overrun and revoke may
happen.

### RefreshTokens

Tokens are numbered in the order of issue (a `jti` is a UUID, so tokens do not
repeat).  `Issue` is the MULTI of three commands, `Consume` the DEL whose count
decides, `Unindex` the SREM, `ReadIndex` and `DeleteAll` the two calls of a logout.
`login`, `raced` and `revoked` are history: where a token descends from, which
entries a logout deleted without having read them, and which tokens a finished
logout was asked to revoke.

### SignUp, Login, Account

`Counter` holds `incr()`: INCR, then EXPIRE if the count is 1, two calls.  In
`SignUp` a code is its key's time left.  What a request to verify has typed is not
fixed when it arrives: `Accept` and `Reject` are the two ends of the comparison with
the code it has read.  Counts past a limit are not told apart.  In `Login` a login
that started below the limit goes on; `TakeFirstUse` is the DEL of the marker, `Answer`
what is sent, and a login may fail between them.  `MayDie` lets a request end between
INCR and EXPIRE, or between SET and DEL of a code.

`Account` puts the two together: `first_use` and the row of the account are shared,
and one `Elapse` moves all keys, as they live in one Redis.  A password can only
match from the INSERT of signup on (`Match`), and a login may come between that INSERT
and the SET of `first_use`.  `MaxBusy` bounds the requests in progress, of either
kind.

### ChatSession

`ReadSession` and `ReadMessages` are apart because Prisma loads the relation in a
query of its own; `TakeSentAt` comes after the queries for the user as well.  `Reply`
takes a millisecond at least.  The time `init` writes to `updated_at` is taken by Prisma
before the UPDATE reaches MySQL (`TakeStamp`, `Bind`), so it may lie before the last
reply; it is only assumed not to be the very time of an earlier write (`Written`):
`updated_at` has a resolution of milliseconds, and the optimistic lock cannot see two
writes in one.  The fields `history` and `jmCd` of a message record what its reply was
made from.

### Roadmap

Extends `ChatSession`: `making` holds the roadmap requests in flight, `roadmaps` the
table.  `ReadRow` and `ReadHistory` are `findFirst` and the query of its included
messages, `UseAnswer` the validation (`IsFit`), `InsertRoadmap` the nested create.
Titles are abstract (words, blank, none), and of a step only its number and date
are kept.  Dates are triples: `DateOf` is what `new Date()` makes of one, running over into
the next month, and `IsDateString` accepts a date that survives it.  `asked` in a step and
`jmCd` and `history` in a roadmap are not columns; they record where it came from.
The onboarding answers sent along are left out.

### Resources

`resource` is the table, `sweep` the DELETE each instance's worker is in, `ask` the
recommendation requests in flight.  `Create`, `Update` and `Remove` are single
queries, as ownership is part of their `where`; `update` reads the row once more for its
answer, which is left out.  `memo` records who wrote it and stands for the title too; `days`
is not a column but what the creation asked for, the yardstick of `ReapedOnTime`.
`Tick` reads the clock, `DeleteExpired` comes any time later; `SweepFails` is a query
that throws, `Restart` a process that is replaced.  `Page`, `Rank` and `TotalPages` are
`list()` without its filters.  `ReadArchive` and `UseAnswer` are the two sides of the
call to the AI server; `Kept` and `Chosen` the loop over its items.

### Onboarding

`Submit` is everything `submit()` does before its transaction: reading the active
questions and refusing a sheet that asks one twice, leaves one out that must be
answered, or has values of another (`IsAnswered`).  `Store` is the transaction:
deletes, inserts and `is_onboarded` in one step, as its first DELETE locks the user's
rows, or the gap where they would be, until the end: a second transaction waits, and of
two first ones, which share the gap, InnoDB refuses one.  `FailSubmit` rolls it back.  Questions
and options are seed data and constants here.  `Payload` is `toOnboardingPayload`,
without its order.

### Recommendations

`ReadUser` and `ReadAnswers` are apart because Prisma loads the relation in a query of
its own, after the user.  `UseAnswer` is the whole of the filtering: the first reason
of each code, codes that exist, the first `size` of them, ranked from 1 (`RankedItems`).
The transaction is interactive, and its queries are actions: on MySQL an upsert is a
SELECT (`FindRow`) followed by an INSERT or an UPDATE, which waits for the row
(`RowIsFree`) and keeps it locked until the commit.  `InsertRow` fails when another
request has inserted meanwhile, as `user_id` is unique.  `DeleteItems` is a current
read: what it deletes is what is stored then; nothing is seen by others before
`CreateItems` commits.  `FailAsk` is a failure anywhere, with rollback.
`generated_at` is told by the answer it belongs to.

### CertSearch, Certificates

A text is the set of keywords it contains, and that is all LIKE sees.  MySQL may
return rows with equal sort keys in any order, so a query is any member of `Ordered`,
and every page chooses anew: that is what makes `SearchPagesCover` depend on `jm_cd` as
the last sort key.  `FirstPage` and `NextPage` are a client that turns the pages of
`search()`; `SearchByKeywords`, `Resolve` and `GetRecommendable` the lookups of the AI
server.  `Score` adds up `KEYWORD_WEIGHTS`, while `ByColumn` is stated without weights.
`Certificates` composes all this.  A lookup reads the catalogue only, which no request
writes, so it is made while none is in progress, and its answer is forgotten when one
starts: the interleavings in between show nothing.

## 3. Runs

| Run | Instance | Distinct states | Shows |
|---|---|---|---|
| `alarm_lock` | 3 ticks, timeout 1, margin 2, own time 1 | 11 thousand | mutual exclusion, TTL longer than any tick, owner-only release, refinement of the lease, the key is freed |
| `alarm_lock_overrun` | own time 3 > margin 2 | violation | two ticks send at once |
| `calendar` | 2 requests, 1 event, 2 reminders | 450 thousand | all properties of `Calendar` |
| `alarm_worker_safe` | 2 ticks, 2 devices, batch of 1, a replacing update, all faults but overrun | 1.26 million | SENT is delivered, FAILED is not, no device is pushed twice but after a loss, a batch is not settled by another tick, only disowned devices go |
| `alarm_worker_live` | 2 ticks, 2 reminders in batches of 1, all faults but overrun | 24 thousand | due reminders are settled; the lease is kept |
| `refresh_tokens` | 3 requests, 3 tokens | 914 thousand | one heir, complete index, logout |
| `refresh_tokens_logout` | the same with 2 requests | violation | a logout that leaves a token behind |
| `account` | 2 requests of either kind at a time, limits of 2 | 845 thousand | one signup per verification, counters, a bound on wrong passwords, one first login, the end of blocks |
| `login_crash` | 1 login that may die | violation | a counter without a TTL |
| `roadmap` | 2 chat requests, 1 roadmap request, 2 exchanges | 1.62 million | replies fit their history and certificate; roadmaps fit the session and are stored as answered |
| `certificates` | 2 sheets and 2 recommendation requests at a time, 4 certificates, 2 keywords | 56 thousand | onboarded users, rankings, pages and lookups |
| `resources` | 2 users, 2 instances, 3 resources, 1 recommendation request | 282 thousand | expiry, paging and recommendations |

Why the bounds are enough: the races here are between two requests (or two ticks);
the third in `alarm_lock` and `refresh_tokens` lets one of them finish and another
start in between. In `account` any two of the four race (`MaxBusy` is 2), of one kind
or of both, and time passes between them. In `certificates` options of two questions
stand for one field and one question may be left out, an answer of the AI server
repeats a code, names one that does not exist and one that is no string, and two
certificates share a name. Users, sessions and addresses share no rows and no keys,
so one of each stands for all; two reminders are the least for which order and batch
size matter, two devices the least for a mixed answer. Time-outs are as
short as keeps their order (FCM timeout below margin, code below window). The
bounds `MaxTime`, `MaxEvent`, `MaxAlarm`, `MaxToken` and `MaxMessages` end the
behaviours, which is why the runs that have them are checked without deadlock
checking; the others are checked with it. Symmetry is used in runs of safety
properties only.

Fairness. `AlarmLock`: time passes (`Wait`), and a stage ends when its time is up.
`AlarmWorker`: `setInterval` starts ticks, a started tick goes on because each
await of it ends, keys expire; the outside world is bounded by `OutagesEnd` (any
number of outages, in any step, but a last one) and by strong fairness of 401 for
a rejected access token -- FCM answers it with 401 at least sometimes, not always
with something else. `Resources`: the timer of an instance keeps firing and its
DELETE ends; failures and restarts have a last one. `Account`: time passes, and a
request once started ends; that requests keep coming, or not, is left open, so a block that would be extended by trying again is seen.

### Divergences found

1. *The lock of the alarm worker is trusted longer than it lives*
   (`alarm_lock_overrun`).  The comment on `tick()` (alarm.worker.ts:57) promises
   that the same alarm is not sent at the same time.  It holds as long as a tick
   spends less than 30 s outside FCM; a MySQL lock wait alone may last 50 s.
2. *A logout can leave a token for good* (`refresh_tokens_logout`).  The comment on
   `revokeAllRefreshTokens` (token.service.ts:118) says all; a token issued between
   SMEMBERS and DEL loses its index entry and survives this logout and later ones.
3. *A counter may never expire* (`login_crash`).  `incr()` (auth.service.ts:286) gives
   a counter its TTL in a second call and only for the count 1.

Seen on the way and not stated as runs: a code that was used is answered
CODE_EXPIRED while the send counter lasts, though CODE_NOT_FOUND is "already used"
(auth.error.code.ts:60); `startAt: null` in an update is converted to 1970; a recommended
link is checked for its length only (resource/recommendation.service.ts:36-38), though
it is meant to be stored through `/api/resources`
(resource/dto/recommendation.dto.ts:36), which demands a URL; a blank title from the
user of a roadmap request is answered, after the AI server was asked, as an error of
that server (roadmap.service.ts:144-153); of two first recommendations of a user the
second fails on the unique `user_id` after the AI server has answered it, and is not
tried again (cert/recommendation.service.ts:114); a login between the INSERT of signup
and its SET of `first_use` is not answered as the first (auth.service.ts:190).

## 4. Proofs

All proofs are checked by TLAPS to the last leaf; they hold for every value of the
constants that satisfies the modules' named assumptions.

`AlarmLockProofs`.  `OnlyOwnerReleases` needs nothing about time.  The others
assume `OwnTime < Margin`.  The inductive invariant is `TypeOK` and
`KeyOutlivesTick`: while a tick works, the key is its own and has more time left
than the tick may still need (`TimeNeeded`).  `OneSender` alone is not inductive --
it says nothing of the TTL, so `Wait` could take the key away; with
`KeyOutlivesTick` it follows at once, since two working ticks would both be the
holder.  `Implements` is the refinement of the lease: a step of the lock maps to
Take, TakeUnseen, Stop, Drop or a stutter, and expiry maps to Drop because a key
that expires has no tick working under it.

`CalendarProofs`.  The inductive invariant `CalendarInv` adds to the type invariant
that ids above the counters are unused (`FreshIds`), that a create request in
flight carries a valid range (`CreateIsSafe`), `CommitIsSafe` and `RangeValid`.
`RangeValid` is not inductive alone: a commit writes a range checked at an earlier
step, and `CommitIsSafe` -- the row is locked, so it is still what was read --
carries the check over.  `PendingFromOneRequest` and `HistoryKept` rest on
`FreshIds`: an insert never overwrites a row.

`AlarmWorkerProofs`.  `ImplementsCalendar`: of all the steps of a tick only its
transaction writes the calendar's tables, and that transaction is a `RecordOutcome`
of `Calendar`, which lets any outcome come at any time; so every theorem about
`CalendarSpec` carries over (`WorkerKeepsHistory` is one).  `SentMeansDelivered` and
`OnlyDeadReaped` hold for every set of faults.  They say something about the
transaction, but what it writes was learnt several awaits before, so their
invariant is `AnswersTrue`: each answer a tick carries is what FCM did -- a SENT
target was taken, an UNREGISTERED one is dead -- and stays so, as `taken` only
grows (`TakenGrows`) and no token comes back.  `WorkerImplementsLease` assumes `"overrun"` is not
among the faults, and rests on `WorkerOwnsKey`: a tick that works has its token
under the key.  What lets the worker assume so is `AlarmLockProofs`, under
`OwnTime < Margin`.

`BatchStaysPending` needs the same lease and what the calendar promises of its rows
(`WorkerKeepsCalendar`): another tick cannot record, and a request replaces PENDING rows
by new ids, never by other values (`RequestsWritePending`).  `AlwaysPushedOnce` and
`FailedNeverDelivered` need it too, and hold with every fault but the overrun: crashes,
failed queries and lost answers included.  Neither is inductive.  The invariant
`NothingLost` says where each push that counts is known: either the alarm is no longer
PENDING, or the tick at work has SENT among its answers and is going to record it
(`PushKnown`); and what a tick has still to send no device has got, as far as any tick
knows (`YetToSend`).  A tick may go on from there while requests replace the reminders it
carries, for new rows have ids no tick has seen.  What does not count is what was lost:
a push without an answer, or of a tick that ended before it could record.  `EveryPushCounts`
shows that nothing else is left out: where nothing is lost, `pushed` is all FCM took.

`RefreshTokensProofs`.  The invariant `RefreshInv` adds to the types: a token that is
not issued yet is not live (`Fresh`); a request past its DEL carries a token that is
gone (`InFlight`), which is why its SREM uncovers nothing; and a logout has read the
entry of every live token issued before it, or that entry was lost to an earlier
logout (`LogoutKnows`).  `IndexAlwaysCovers` and `LogoutAlwaysRevokes` need each other:
a logout finds what the index covers, and what it removes from the index it deletes.
`AlwaysOneHeir` is then inductive by itself: by one DEL the live token of a login
becomes the request that consumed it, by one MULTI that request becomes the next
token, and nothing else adds an heir (`HeirsShrink`).

`RoadmapProofs`.  `ChatInv` is the argument the optimistic lock rests on: if
`updated_at` is still what a request has read, so are its certificate and the number
of its messages (`Knows`), because every write of the session gives `updated_at` a value
no request has read (`WriteOutdates`).  A reply does, as it is later than all that was
read when its question was sent (`NothingAfter`); `init` does, though it may set
`updated_at` back, as until then only times of `Written` were there to be read
(`StoredBefore`).  `ReplySeesHistory` and `ReplyKnowsCertificate` follow at the save,
where the row is compared; `ConversationInOrder` needs that the question's `created_at`,
taken before the AI server is asked, is not before the last message.  `RoadmapInv` adds that what a request
to make a roadmap carries fits the session (`MakingFits`).  It takes no lock: it stays
true because the certificate of a session is bound once and its messages only grow
(`SessionGrows`), and because the history it has read ends with a whole exchange.
`RoadmapsLeaveChat` shows that the composition implements `ChatSession`.

`AccountProofs`.  `MarkerUsedOnce` by `MarkerInv`: while the marker lives it has not
been spent since it was set.  `CountersExpire`, `CounterExpires` and
`AttemptsOutliveCode` are proved for `~MayDie`, that is if no request ends between INCR
and EXPIRE, or between SET and DEL; the finding `login_crash` shows that they need it.
`WrongPasswordsBounded` is inductive only with the logins in progress counted:
`fail.count` and the number of logins past the check together stay within the limit and
`Visitor` (`WrongInv`, a count of a finite set; a login that starts below the limit
adds one to the second, and a wrong password moves it to the first).
`FirstLoginAnswered` by `FirstInv`: the marker is on its way from sign-up, or there, or
with one login that has not answered yet (`Welcome`), and never in two of these places.

`ResourcesProofs`.  `ReapedOnTime` by `ArchiveInv`: the cutoff of a sweep, however
old, is not in the future, and `expires` is `created + days` of the row as it is.
`RecommendedFits` is a property of the filtering for any answer: `GreatestUpTo` and
`KeptLinks` say which items are kept, `ChosenMany` how many.  `PagesCover` is
arithmetic and counting: every rank lies on one page (`OnePage`), no page begins after
the last rank (`PagesBegin`), and the ranks of a list are a bijection to 1..n
(`RanksArePlaces`).

`CertificatesProofs`.  `AnswersInv`: a transaction carries a whole sheet (`StoresWhole`,
by `PayloadOfSheet`: what the AI server is told of the selected options is what the
sheet said), and who was found onboarded stays so, so the second query finds a whole
sheet.  `RankingInv`: one transaction at a time holds the row (`OneHolder`), so what it
has deleted is all there is when it inserts (`TransactionsSound`), and what is stored is
made from one answer (`OneRanking`).  That such a ranking is whole is a fact about
`RankedItems` for any answer (`MadeRankingIsWhole`): the rank of an item is its place
among the known ones, and places are a bijection that keeps the order (`PlacesCount`).
`SearchPagesCover`: of two certificates every sort puts one first (`SortDecides`), so
any two queries of a search return the same rows in the same order (`OneOrder`: the
first row in which they differ would have to come before itself); hence the pages shown
are the first rows of one listing (`SearchSound`), the next page goes on where they end
(`PagesJoin`), and there is one as long as rows are left (`AnotherPage`).  Without
`jm_cd` as the last key `SortDecides` is false.  `LookupsBest`: what LIMIT cuts off comes
after what is shown (`ShownFirst`); the score of a keyword is the sum of the weights of
the columns that have it (`ScoreIsWorth`), and as each weight is more than all after it
together, the most telling column decides (`LevelsDecide`).  These assume that the
tables and the keywords of a request are finite.

Induction.  The provers cannot instantiate the induction theorems of the library, as
these take an operator as a parameter.  Where a proof needs induction it argues with
the least counterexample: `LeastNatural` (a set of natural numbers that is not empty
has a least element) follows from the library's well-foundedness of `<`, and then
`PlacesCount`, `OneOrder`, `AddsWorth` (the recursion of `MapThenSumSet`) and the lemmas
on pages take the least case in which they fail.

Every invariant and every action property of the passing runs is proved.  Model-checked
only: liveness (`LockFreed`, `DueSettles`, `BlocksEnd`, `ExpiredGo`), as fairness and
ENABLED are out of the prover's reach.

## 5. What is not modelled

The AI client, mail and the adapters (I/O without state; their failures are the `Fail`
steps of the callers); controllers, DTO validation, guards and the exception filter
(the caller's identity is an input of the actions).  Queries that return a row or a
list as it is (`getDetail`, `getQuestions`, the list and get endpoints of calendar, chat
and roadmap) and the profile of a user, whose nickname is one column in one statement:
no property relates them to anything.  The month after which `first_use` expires.  The
texts of messages, titles and descriptions, hashing and signatures carry no state.
Redis and MySQL are modelled from their use: single commands, MULTI and one Lua script
are atomic; a transaction whose queries all write rows of one user is atomic, unless
others can come between them (`Calendar`, `Recommendations`), and `FOR UPDATE` locks
its row; a Redis failover that loses writes is left out.  No property covers two writes
of a chat session in one millisecond (roadmap/chat.service.ts:203): the resolution of
`updated_at` is an assumption of `ChatSession`.

## 6. Plan

Done: every component with state but the profile; proofs of all safety properties of
the passing runs.  Left:

1. The refinement of `Calendar` to an abstract calendar in which a request is one step.
2. The safety halves of the liveness properties: that whatever may block them
   (a row lock, a lease, a counter) has an owner that is going to leave.
