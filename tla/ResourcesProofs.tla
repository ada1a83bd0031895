--------------------------- MODULE ResourcesProofs ---------------------------
(***************************************************************************)
(* The archive of resources, proved for every number of users, resources,  *)
(* instances and answers, and every size of a page: the workers delete     *)
(* nothing before its day, a recommendation is what it has to be whatever  *)
(* the AI server sends, and the pages of a list are a partition of it.     *)
(***************************************************************************)
EXTENDS Resources, FiniteSetTheorems, WellFoundedInduction, TLAPS

USE ResourceAssumption DEF Time, ResourceId

-----------------------------------------------------------------------------
(* Types, and what a resource and a DELETE under way remember of the clock. *)

Row ==
  [user : User, url : Url, memo : User, session : Session \cup {Null},
   created : Time, expires : Nat \cup {Null}, days : 1..MaxDays \cup {Null}]

\* expires_at is created_at and the days that were asked for, or nothing.
Dated(r) ==
  resource[r].expires # Null =>
    /\ resource[r].days # Null
    /\ resource[r].expires = resource[r].created + resource[r].days

Reaped(i) ==
  sweep[i].stage = "delete" => sweep[i].cutoff \in Time /\ sweep[i].cutoff <= now

ArchiveInv ==
  /\ now \in Time
  /\ nextId \in Nat \ {0}
  /\ resource \in [ResourceId -> Row \cup {Null}]
  /\ DOMAIN sweep = Instance
  /\ \A r \in ResourceId : resource[r] # Null => Dated(r)
  /\ \A i \in Instance : Reaped(i)

LEMMA ArchiveInitially == Init => ArchiveInv
BY DEF Init, ArchiveInv, Dated, Reaped

\* A row that is written, or that goes.
LEMMA WriteRow ==
  ASSUME ArchiveInv, NEW r \in ResourceId, NEW row \in Row \cup {Null},
         resource' = [resource EXCEPT ![r] = row],
         row # Null /\ row.expires # Null =>
           row.days # Null /\ row.expires = row.created + row.days,
         nextId' \in Nat \ {0}, UNCHANGED <<now, sweep>>
  PROVE  ArchiveInv'
<1>1. resource' \in [ResourceId -> Row \cup {Null}]
  BY DEF ArchiveInv
<1>2. ASSUME NEW s \in ResourceId, resource'[s] # Null PROVE Dated(s)'
  BY <1>2 DEF ArchiveInv, Dated
<1> QED BY <1>1, <1>2 DEF ArchiveInv, Reaped

LEMMA CreateStep ==
  ASSUME ArchiveInv, NEW c \in CreateInput, Create(c)
  PROVE  ArchiveInv'
<1>1. /\ c.user \in User /\ c.url \in Url /\ c.session \in Session \cup {Null}
      /\ c.days \in 1..MaxDays \cup {Null}
  OBVIOUS
<1>2. now \in Time /\ nextId \in Nat \ {0} /\ nextId <= MaxResource
  BY DEF ArchiveInv, Create
<1>3. /\ ExpiresAt(c.days) \in Nat \cup {Null}
      /\ ExpiresAt(c.days) # Null => c.days # Null /\ ExpiresAt(c.days) = now + c.days
  BY <1>1, <1>2 DEF ExpiresAt
<1>4. PICK r, row :
        /\ r = nextId
        /\ row = [user |-> c.user, url |-> c.url, memo |-> c.user, session |-> c.session,
                  created |-> now, expires |-> ExpiresAt(c.days), days |-> c.days]
  OBVIOUS
<1>5. row \in Row
  BY <1>1, <1>2, <1>3, <1>4 DEF Row
<1>6. row.expires = ExpiresAt(c.days) /\ row.created = now /\ row.days = c.days
  BY <1>4
<1>7. /\ r \in ResourceId /\ resource' = [resource EXCEPT ![r] = row]
      /\ nextId' = nextId + 1 /\ UNCHANGED <<now, sweep>>
  BY <1>2, <1>4 DEF Create
<1>8. nextId' \in Nat \ {0}
  BY <1>2, <1>7
<1>9. row.expires # Null => row.days # Null /\ row.expires = row.created + row.days
  BY <1>3, <1>6
<1> QED BY <1>5, <1>7, <1>8, <1>9, WriteRow

LEMMA UpdateStep ==
  ASSUME ArchiveInv, NEW u \in User, NEW r \in ResourceId, Update(u, r)
  PROVE  ArchiveInv'
<1>1. resource[r] \in Row /\ Dated(r) /\ resource[r] # Null
  BY DEF Update, Of, ArchiveInv
<1>2. PICK row : row = [resource[r] EXCEPT !.memo = u]
  OBVIOUS
<1>3. /\ row \in Row /\ row.expires = resource[r].expires /\ row.days = resource[r].days
      /\ row.created = resource[r].created
  BY <1>1, <1>2 DEF Row
<1>4. resource' = [resource EXCEPT ![r] = row] /\ nextId' = nextId /\ UNCHANGED <<now, sweep>>
  BY <1>2 DEF Update
<1>5. nextId' \in Nat \ {0}
  BY <1>4 DEF ArchiveInv
<1> QED BY <1>1, <1>3, <1>4, <1>5, WriteRow DEF Dated

LEMMA DeleteStep ==
  ASSUME ArchiveInv, NEW i \in Instance, DeleteExpired(i)
  PROVE  ArchiveInv'
<1>1. /\ resource' \in [ResourceId -> Row \cup {Null}]
      /\ \A r \in ResourceId : resource'[r] # Null => resource'[r] = resource[r]
  BY DEF DeleteExpired, ArchiveInv
<1>2. \A r \in ResourceId : resource'[r] # Null => Dated(r)'
  BY <1>1 DEF ArchiveInv, Dated
<1>3. DOMAIN sweep' = Instance /\ \A j \in Instance : Reaped(j)'
  BY DEF DeleteExpired, ArchiveInv, Reaped, Rest
<1> QED BY <1>1, <1>2, <1>3 DEF ArchiveInv, DeleteExpired

LEMMA ArchiveStep == ArchiveInv /\ [Next]_vars => ArchiveInv'
<1> SUFFICES ASSUME ArchiveInv, [Next]_vars PROVE ArchiveInv'
  OBVIOUS
<1>1. ASSUME NEW u \in User, NEW r \in ResourceId, Remove(u, r) PROVE ArchiveInv'
  <2>1. nextId' \in Nat \ {0} /\ UNCHANGED <<now, sweep>>
    BY <1>1 DEF Remove, ArchiveInv
  <2> QED BY <1>1, <2>1, WriteRow DEF Remove
<1>2. CASE UNCHANGED <<now, resource, nextId, sweep>>
  BY <1>2 DEF ArchiveInv, Dated, Reaped
<1>3. CASE UserStep
  BY <1>1, <1>2, <1>3, CreateStep, UpdateStep DEF UserStep, ReadArchive, UseAnswer, EndAsk
<1>4. ASSUME NEW i \in Instance, Tick(i) \/ SweepFails(i) \/ Restart(i) PROVE ArchiveInv'
  <2>1. DOMAIN sweep' = Instance /\ \A j \in Instance : Reaped(j)'
    BY <1>4 DEF Tick, SweepFails, Restart, ArchiveInv, Reaped, Rest
  <2> QED BY <1>4, <2>1 DEF Tick, SweepFails, Restart, ArchiveInv, Dated
<1>5. CASE PassTime
  BY <1>5 DEF PassTime, ArchiveInv, Dated, Reaped
<1>6. CASE UNCHANGED vars
  BY <1>2, <1>6 DEF vars
<1> QED BY <1>3, <1>4, <1>5, <1>6, DeleteStep DEF Next, WorkerStep

THEOREM ArchiveCorrect == Spec => []ArchiveInv
BY ArchiveInitially, ArchiveStep, PTL DEF Spec

\* However many instances delete, without a lock and with a time they may have
\* read long ago, none deletes a resource before its days are over, and none one
\* without days.
THEOREM ReapedNoSooner == Spec => ReapedOnTime
<1> DEFINE OnTime == \A r \in ResourceId :
              resource[r] # Null /\ resource'[r] = Null /\ sweep' # sweep =>
                resource[r].days # Null /\ resource[r].created + resource[r].days <= now
<1>1. ArchiveInv /\ [Next]_vars => [OnTime]_vars
  <2> SUFFICES ASSUME ArchiveInv, Next, NEW r \in ResourceId,
                      resource[r] # Null, resource'[r] = Null, sweep' # sweep
               PROVE  resource[r].days # Null /\ resource[r].created + resource[r].days <= now
    OBVIOUS
  <2>1. PICK i \in Instance : DeleteExpired(i)
    BY DEF Next, UserStep, Create, Update, Remove, ReadArchive, UseAnswer, EndAsk,
           WorkerStep, Tick, SweepFails, Restart, PassTime
  <2>2. resource[r].expires # Null /\ resource[r].expires <= sweep[i].cutoff
    BY <2>1 DEF DeleteExpired
  <2>3. /\ resource[r] \in Row /\ Dated(r) /\ sweep[i].stage = "delete" /\ Reaped(i)
        /\ now \in Time
    BY <2>1 DEF DeleteExpired, ArchiveInv
  <2>4. resource[r].created \in Nat /\ resource[r].days \in Nat
    BY <2>2, <2>3 DEF Row, Dated
  <2> QED BY <2>2, <2>3, <2>4 DEF Dated, Reaped
<1> QED BY <1>1, ArchiveCorrect, PTL DEF Spec, ReapedOnTime

-----------------------------------------------------------------------------
(* What is chosen of an answer.                                            *)

LEMMA LeastNatural ==
  ASSUME NEW T \in SUBSET Nat, T # {}
  PROVE  \E n \in T : \A m \in T : n <= m
<1> DEFINE R == OpToRel(<, Nat)
<1>1. \E x \in T : \A y \in T : ~ (<<y, x>> \in R)
  BY NatLessThanWellFounded, WFMin
<1>2. PICK x \in T : \A y \in T : ~ (<<y, x>> \in R)
  BY <1>1
<1>3. ASSUME NEW y \in T, y < x PROVE FALSE
  <2>1. <<y, x>> \in R
    BY <1>3 DEF OpToRel
  <2> QED BY <2>1, <1>2
<1> HIDE DEF R
<1>4. \A y \in T : ~ (y < x)
  BY <1>3
<1> QED BY <1>4

LEMMA GreatestUpTo ==
  ASSUME NEW n \in Nat, NEW T \in SUBSET (0..n), T # {}
  PROVE  \E m \in T : \A k \in T : k <= m
<1> DEFINE U == {k \in Nat : n - k \in T}
<1>1. PICK t \in T : TRUE
  OBVIOUS
<1>2. n - t \in U
  BY <1>1
<1>3. PICK k \in U : \A j \in U : k <= j
  BY <1>2, LeastNatural
<1>4. ASSUME NEW j \in T PROVE j <= n - k
  <2>1. j \in 0..n /\ n - (n - j) = j
    OBVIOUS
  <2>2. n - j \in U
    BY <2>1
  <2>3. k <= n - j /\ k \in Nat
    BY <1>3, <2>2
  <2> QED BY <2>1, <2>3
<1> QED BY <1>3, <1>4

\* The first of every link that is fit and new is kept, and the kept links are
\* all different.
LEMMA KeptLinks ==
  ASSUME NEW items \in Seq(AiItem), NEW seen
  PROVE  /\ Kept(items, seen) \subseteq DOMAIN items
         /\ \A k \in Kept(items, seen) : items[k].url \notin seen
         /\ \A j, k \in Kept(items, seen) : items[j].url = items[k].url => j = k
         /\ \A k \in DOMAIN items : items[k].fit /\ items[k].url \notin seen =>
              \E j \in Kept(items, seen) : items[j].url = items[k].url
<1> DEFINE n == Len(items)
<1>1. n \in Nat /\ DOMAIN items = 1..n
  OBVIOUS
<1>2. /\ Kept(items, seen) \subseteq DOMAIN items
      /\ \A k \in Kept(items, seen) : items[k].url \notin seen
  BY DEF Kept
<1>3. ASSUME NEW j \in Kept(items, seen), NEW k \in Kept(items, seen),
             items[j].url = items[k].url
      PROVE  j = k
  <2>1. j \in 1..n /\ k \in 1..n /\ items[j].fit /\ items[k].fit
    BY <1>1 DEF Kept
  <2>2. ~ (j < k)
    <3>1. SUFFICES ASSUME j < k PROVE FALSE
      OBVIOUS
    <3>2. j \in 1..(k - 1)
      BY <2>1, <3>1
    <3> QED BY <1>3, <2>1, <3>2 DEF Kept
  <2>3. ~ (k < j)
    <3>1. SUFFICES ASSUME k < j PROVE FALSE
      OBVIOUS
    <3>2. k \in 1..(j - 1)
      BY <2>1, <3>1
    <3> QED BY <1>3, <2>1, <3>2 DEF Kept
  <2> QED BY <2>1, <2>2, <2>3
<1>4. ASSUME NEW k \in DOMAIN items, items[k].fit, items[k].url \notin seen
      PROVE  \E j \in Kept(items, seen) : items[j].url = items[k].url
  <2> DEFINE same == {j \in DOMAIN items : items[j].fit /\ items[j].url = items[k].url}
  <2>1. k \in same /\ same \in SUBSET Nat
    BY <1>1, <1>4
  <2>2. PICK j \in same : \A i \in same : j <= i
    BY <2>1, LeastNatural
  <2>3. ASSUME NEW i \in 1..(j - 1), items[i].fit PROVE items[i].url # items[j].url
    <3>1. i \in DOMAIN items /\ ~ (j <= i)
      BY <1>1, <2>2
    <3> QED BY <2>2, <2>3, <3>1
  <2> QED BY <1>4, <2>2, <2>3 DEF Kept
<1> QED BY <1>2, <1>3, <1>4

\* The loop keeps size of them at most, and fewer only if there are no more.
LEMMA ChosenMany ==
  ASSUME NEW items \in Seq(AiItem), NEW seen, NEW size \in Nat \ {0}
  PROVE  LET chosen == Chosen(items, seen, size)
         IN /\ chosen \subseteq Kept(items, seen) /\ IsFiniteSet(chosen)
            /\ Cardinality(chosen) \in 0..size
            /\ Cardinality(chosen) < size => chosen = Kept(items, seen)
<1> DEFINE n == Len(items)
           kept == Kept(items, seen)
           Before(k) == {j \in kept : j < k}
           chosen == Chosen(items, seen, size)
<1>1. n \in Nat /\ DOMAIN items = 1..n
  OBVIOUS
<1>2. kept \in SUBSET (1..n) /\ kept \in SUBSET Nat /\ IsFiniteSet(kept)
  <2>1. kept \in SUBSET (1..n)
    BY <1>1, KeptLinks
  <2>2. IsFiniteSet(1..n)
    BY <1>1, FS_Interval
  <2>3. IsFiniteSet(kept)
    <3> HIDE DEF kept, n
    <3> QED BY <2>1, <2>2, FS_Subset
  <2> QED BY <1>1, <2>1, <2>3
<1>3. chosen = {k \in kept : Cardinality(Before(k)) < size}
  BY DEF Chosen
<1> HIDE DEF kept, chosen
<1>4. \A T \in SUBSET kept : IsFiniteSet(T) /\ Cardinality(T) \in Nat
  BY <1>2, FS_Subset, FS_CardinalityType
<1>5. chosen \in SUBSET kept
  BY <1>3
<1>6. Cardinality(chosen) <= size
  <2>1. CASE chosen = {}
    BY <2>1, FS_EmptySet
  <2>2. CASE chosen # {}
    <3>1. PICK m \in chosen : \A k \in chosen : k <= m
      <4>1. chosen \in SUBSET (0..n)
        BY <1>2, <1>5
      <4> QED BY <1>1, <2>2, <4>1, GreatestUpTo
    <3>2. chosen \ {m} \in SUBSET Before(m) /\ Before(m) \in SUBSET kept
      BY <1>2, <1>5, <3>1
    <3>3. /\ Cardinality(Before(m)) < size /\ Cardinality(Before(m)) \in Nat
          /\ IsFiniteSet(Before(m))
      BY <1>3, <1>4, <3>1, <3>2
    <3>4. Cardinality(chosen \ {m}) <= Cardinality(Before(m))
      BY <3>2, <3>3, FS_Subset
    <3>5. Cardinality(chosen \ {m}) = Cardinality(chosen) - 1
      BY <1>4, <1>5, <3>1, FS_RemoveElement
    <3>6. Cardinality(chosen) \in Nat
      BY <1>4, <1>5
    <3> QED BY <3>3, <3>4, <3>5, <3>6
  <2> QED BY <2>1, <2>2
<1>7. ASSUME Cardinality(chosen) < size PROVE chosen = kept
  <2>1. SUFFICES ASSUME kept \ chosen # {} PROVE FALSE
    BY <1>5
  <2>2. kept \ chosen \in SUBSET Nat
    BY <1>2
  <2>3. PICK k \in kept \ chosen : \A j \in kept \ chosen : k <= j
    BY <2>1, <2>2, LeastNatural
  <2>4. Before(k) \in SUBSET chosen
    <3>1. SUFFICES ASSUME NEW j \in kept, j < k PROVE j \in chosen
      OBVIOUS
    <3>2. j \in Nat /\ k \in Nat
      BY <1>2
    <3> QED BY <2>3, <3>1, <3>2
  <2>5. Cardinality(Before(k)) <= Cardinality(chosen)
    BY <1>4, <1>5, <2>4, FS_Subset
  <2>6. ~ (Cardinality(Before(k)) < size)
    BY <1>3, <2>3
  <2>7. Cardinality(Before(k)) \in Nat /\ Cardinality(chosen) \in Nat
    BY <1>4, <1>5
  <2> QED BY <1>7, <2>5, <2>6, <2>7
<1>8. Cardinality(chosen) \in Nat /\ IsFiniteSet(chosen)
  BY <1>4, <1>5
<1> QED BY <1>5, <1>6, <1>7, <1>8 DEF kept, chosen

-----------------------------------------------------------------------------
(* Recommendations.                                                        *)

AskInv ==
  /\ DOMAIN ask = Asker
  /\ \A a \in Asker : ask[a].stage = "ask" => ask[a].size \in Nat \ {0}
  /\ RecommendedFits

\* RecommendedFits, of one finished request.
Fits(r) ==
  LET items == r.items
      urls  == {items[k].url : k \in DOMAIN items}
  IN /\ urls \cap r.seen = {}
     /\ Cardinality(urls) = Cardinality(DOMAIN items)
     /\ Cardinality(urls) <= r.size
     /\ \A k \in DOMAIN items : items[k].days \in 1..MaxDays \cup {Null}
     /\ Cardinality(urls) < r.size =>
          \A k \in DOMAIN r.answer :
            r.answer[k].fit => r.answer[k].url \in urls \cup r.seen

LEMMA FinishedFits ==
  ASSUME NEW items \in Seq(AiItem), NEW seen, NEW size \in Nat \ {0}, NEW r,
         r.seen = seen, r.size = size, r.answer = items,
         r.items = [k \in Chosen(items, seen, size) |->
                      [url |-> items[k].url, days |-> DaysOf(items[k])]]
  PROVE  Fits(r)
<1> DEFINE chosen == Chosen(items, seen, size)
           kept == Kept(items, seen)
           urls == {items[k].url : k \in chosen}
<1>1. /\ chosen \subseteq kept /\ IsFiniteSet(chosen)
      /\ Cardinality(chosen) \in 0..size
      /\ Cardinality(chosen) < size => chosen = kept
  BY ChosenMany
<1>2. /\ \A k \in kept : items[k].url \notin seen
      /\ \A j, k \in kept : items[j].url = items[k].url => j = k
      /\ \A k \in DOMAIN items : items[k].fit /\ items[k].url \notin seen =>
           \E j \in kept : items[j].url = items[k].url
  BY KeptLinks
<1>3. /\ DOMAIN r.items = chosen
      /\ \A k \in chosen : r.items[k].url = items[k].url /\ r.items[k].days = DaysOf(items[k])
      /\ {r.items[k].url : k \in DOMAIN r.items} = urls
  OBVIOUS
<1> HIDE DEF chosen, kept
<1>4. Cardinality(urls) = Cardinality(chosen)
  <2> DEFINE f == [k \in chosen |-> items[k].url]
  <2>1. f \in Surjection(chosen, urls)
    BY DEF Surjection
  <2>2. f \in Injection(chosen, urls)
    BY <1>1, <1>2 DEF Injection, IsInjective
  <2>3. f \in Bijection(chosen, urls)
    BY <2>1, <2>2 DEF Bijection
  <2> HIDE DEF f
  <2>4. ExistsBijection(chosen, urls)
    BY <2>3 DEF ExistsBijection
  <2> QED BY <1>1, <2>4, FS_Bijection
<1>5. urls \cap seen = {}
  BY <1>1, <1>2
<1>6. \A k \in chosen : r.items[k].days \in 1..MaxDays \cup {Null}
  BY <1>3 DEF DaysOf
<1>7. ASSUME Cardinality(urls) < size, NEW k \in DOMAIN items, items[k].fit
      PROVE  items[k].url \in urls \cup seen
  <2>1. chosen = kept
    BY <1>1, <1>4, <1>7
  <2> QED BY <1>2, <1>7, <2>1
<1>8. Cardinality(urls) <= size
  BY <1>1, <1>4
<1> HIDE DEF urls
<1> QED BY <1>3, <1>4, <1>5, <1>6, <1>7, <1>8 DEF Fits

LEMMA AskStep == AskInv /\ [Next]_vars => AskInv'
<1> SUFFICES ASSUME AskInv, [Next]_vars PROVE AskInv'
  OBVIOUS
<1>0. RecommendedFits <=> \A a \in Asker : ask[a].stage = "done" => Fits(ask[a])
  BY DEF RecommendedFits, Fits
<1>1. RecommendedFits' <=> \A a \in Asker : ask'[a].stage = "done" => Fits(ask'[a])
  BY DEF RecommendedFits, Fits
<1>2. ASSUME NEW a \in Asker, NEW r, ask' = [ask EXCEPT ![a] = r],
             r.stage = "ask" => r.size \in Nat \ {0}, r.stage = "done" => Fits(r)
      PROVE  AskInv'
  <2>1. ASSUME NEW b \in Asker
        PROVE  /\ ask'[b].stage = "ask" => ask'[b].size \in Nat \ {0}
               /\ ask'[b].stage = "done" => Fits(ask'[b])
    BY <1>0, <1>2 DEF AskInv
  <2> QED BY <1>1, <1>2, <2>1 DEF AskInv
<1>3. ASSUME NEW a \in Asker, NEW u \in User, NEW size \in Size, ReadArchive(a, u, size)
      PROVE  AskInv'
  <2>1. PICK r : r = [stage |-> "ask", user |-> u, size |-> size, seen |-> Archived(u)]
    OBVIOUS
  <2> QED BY <1>2, <1>3, <2>1 DEF ReadArchive
<1>4. ASSUME NEW a \in Asker, NEW items \in AiAnswer, UseAnswer(a, items) PROVE AskInv'
  <2>1. ask[a].size \in Nat \ {0} /\ items \in Seq(AiItem)
    BY <1>4 DEF UseAnswer, AskInv
  <2>2. PICK seen, size : seen = ask[a].seen /\ size = ask[a].size
    OBVIOUS
  <2>3. CASE Chosen(items, seen, size) = {}
    BY <1>2, <1>4, <2>2, <2>3 DEF UseAnswer, Rest
  <2>4. CASE Chosen(items, seen, size) # {}
    <3>1. PICK r : r = [stage |-> "done", user |-> ask[a].user, size |-> size, seen |-> seen,
                        answer |-> items,
                        items |-> [k \in Chosen(items, seen, size) |->
                          [url |-> items[k].url, days |-> DaysOf(items[k])]]]
      OBVIOUS
    <3>2. Fits(r)
      BY <2>1, <2>2, <3>1, FinishedFits
    <3>3. ask' = [ask EXCEPT ![a] = r] /\ r.stage = "done"
      BY <1>4, <2>2, <2>4, <3>1 DEF UseAnswer
    <3> QED BY <1>2, <3>2, <3>3
  <2> QED BY <2>3, <2>4
<1>5. ASSUME NEW a \in Asker, EndAsk(a) PROVE AskInv'
  BY <1>2, <1>5 DEF EndAsk, Rest
<1>6. CASE ask' = ask
  BY <1>0, <1>1, <1>6 DEF AskInv
<1> QED BY <1>3, <1>4, <1>5, <1>6
        DEF Next, UserStep, Create, Update, Remove, WorkerStep, Tick, DeleteExpired,
            SweepFails, Restart, PassTime, vars

\* Whatever the AI server answers, with links the user has, twice the same link,
\* days that create() would refuse or more than was asked for: what is
\* recommended is fit to be stored, and as much of it as there was.
THEOREM RecommendationsFit == Spec => []RecommendedFits
<1>1. Init => AskInv
  BY DEF Init, AskInv, RecommendedFits, Rest
<1>2. AskInv => RecommendedFits
  BY DEF AskInv
<1> QED BY <1>1, <1>2, AskStep, PTL DEF Spec

-----------------------------------------------------------------------------
(* Pages.                                                                  *)

LEMMA Multiples ==
  ASSUME NEW a \in Nat, NEW b \in Nat, NEW c \in Nat, a <= b
  PROVE  a * c \in Nat /\ b * c \in Nat /\ a * c <= b * c /\ (a + 1) * c = a * c + c
OBVIOUS

LEMMA Quotient ==
  ASSUME NEW x \in Nat, NEW size \in Nat \ {0}
  PROVE  x \div size \in Nat /\ (x \div size) * size <= x /\ x < (x \div size) * size + size
OBVIOUS

\* A place is on one page.
LEMMA OnePage ==
  ASSUME NEW x \in Nat, NEW size \in Nat \ {0}, NEW p \in Nat,
         p * size <= x, x < (p + 1) * size
  PROVE  p = x \div size
<1> DEFINE q == x \div size
<1>1. q \in Nat /\ q * size <= x /\ x < q * size + size
  BY Quotient
<1> HIDE DEF q
<1>2. p * size \in Nat /\ q * size \in Nat /\ (p + 1) * size = p * size + size
  BY <1>1, Multiples
<1>3. ~ (p + 1 <= q)
  <2>1. SUFFICES ASSUME p + 1 <= q PROVE FALSE
    OBVIOUS
  <2>2. (p + 1) * size <= q * size
    BY <1>1, <2>1, Multiples
  <2> QED BY <1>1, <1>2, <2>2
<1>4. ~ (q + 1 <= p)
  <2>1. SUFFICES ASSUME q + 1 <= p PROVE FALSE
    OBVIOUS
  <2>2. (q + 1) * size <= p * size /\ (q + 1) * size = q * size + size
    BY <1>1, <2>1, Multiples
  <2> QED BY <1>1, <1>2, <2>2
<1>5. p = q
  BY <1>1, <1>3, <1>4
<1> QED BY <1>5 DEF q

\* The pages that are announced are those that begin within the list.
LEMMA PagesBegin ==
  ASSUME NEW n \in Nat, NEW size \in Nat \ {0}, NEW p \in Nat
  PROVE  p <= (n + size - 1) \div size - 1 <=> p * size < n
<1> DEFINE q == (n + size - 1) \div size
<1>1. q \in Nat /\ q * size <= n + size - 1 /\ n + size - 1 < q * size + size
  BY Quotient
<1> HIDE DEF q
<1>2. p * size \in Nat /\ q * size \in Nat /\ (p + 1) * size = p * size + size
  BY <1>1, Multiples
<1>3. ASSUME p + 1 <= q PROVE p * size < n
  <2>1. (p + 1) * size <= q * size
    BY <1>1, <1>3, Multiples
  <2> QED BY <1>1, <1>2, <2>1
<1>4. ASSUME q <= p PROVE ~ (p * size < n)
  <2>1. q * size <= p * size
    BY <1>1, <1>4, Multiples
  <2> QED BY <1>1, <1>2, <2>1
<1>5. p <= q - 1 <=> p * size < n
  BY <1>1, <1>3, <1>4
<1> QED BY <1>5 DEF q

LEMMA OwnResources ==
  ASSUME ArchiveInv, NEW u \in User
  PROVE  /\ IsFiniteSet(Of(u)) /\ Cardinality(Of(u)) \in Nat
         /\ \A r \in Of(u) : r \in Nat /\ resource[r].created \in Nat
<1>1. Of(u) \in SUBSET (1..MaxResource)
  BY DEF Of
<1>2. IsFiniteSet(1..MaxResource)
  BY FS_Interval
<1>3. ASSUME NEW r \in Of(u) PROVE resource[r].created \in Nat
  <2>1. resource[r] \in Row
    BY DEF Of, ArchiveInv
  <2> QED BY <2>1 DEF Row
<1> QED BY <1>1, <1>2, <1>3, FS_Subset, FS_CardinalityType

\* (created_at, id) orders the resources of a user, also those of one moment, so
\* that no two have the same rank and no rank is left out.
LEMMA RanksArePlaces ==
  ASSUME ArchiveInv, NEW u \in User
  PROVE  [r \in Of(u) |-> Rank(u, r)] \in Bijection(Of(u), 0..(Cardinality(Of(u)) - 1))
<1> DEFINE S == Of(u)
           n == Cardinality(S)
           Above(r) == {s \in S : Newer(s, r)}
           f == [r \in S |-> Rank(u, r)]
<1>1. /\ IsFiniteSet(S) /\ n \in Nat
      /\ \A r \in S : r \in Nat /\ resource[r].created \in Nat
  BY OwnResources
<1>2. \A r \in S : Rank(u, r) = Cardinality(Above(r))
  BY DEF Rank
<1> HIDE DEF S, n
<1>3. \A T \in SUBSET S : IsFiniteSet(T) /\ Cardinality(T) \in Nat
  BY <1>1, FS_Subset, FS_CardinalityType
<1>4. ASSUME NEW r \in S PROVE Rank(u, r) \in 0..(n - 1)
  <2>1. Above(r) \in SUBSET (S \ {r})
    BY <1>1 DEF Newer
  <2>2. IsFiniteSet(S \ {r}) /\ Cardinality(S \ {r}) = n - 1
    BY <1>1, FS_RemoveElement DEF n
  <2>3. Cardinality(Above(r)) <= n - 1 /\ Cardinality(Above(r)) \in Nat
    BY <1>3, <2>1, <2>2, FS_Subset
  <2> QED BY <1>1, <1>2, <2>3
<1>5. ASSUME NEW r \in S, NEW s \in S, Newer(s, r) PROVE Rank(u, s) < Rank(u, r)
  <2>1. Above(s) \cup {s} \in SUBSET Above(r) /\ s \notin Above(s)
    BY <1>1, <1>5 DEF Newer
  <2>2. Above(s) \in SUBSET S /\ Above(r) \in SUBSET S
    OBVIOUS
  <2>3. Cardinality(Above(s) \cup {s}) = Cardinality(Above(s)) + 1
    BY <1>3, <2>1, <2>2, FS_AddElement
  <2>4. Cardinality(Above(s) \cup {s}) <= Cardinality(Above(r))
    BY <1>3, <2>1, <2>2, FS_Subset
  <2>5. Cardinality(Above(s)) \in Nat /\ Cardinality(Above(r)) \in Nat
    BY <1>3, <2>2
  <2> QED BY <1>2, <2>3, <2>4, <2>5
<1>6. ASSUME NEW r \in S, NEW s \in S, Rank(u, r) = Rank(u, s) PROVE r = s
  <2>1. r = s \/ Newer(r, s) \/ Newer(s, r)
    BY <1>1 DEF Newer
  <2>2. Rank(u, r) \in Int /\ Rank(u, s) \in Int
    BY <1>4
  <2> QED BY <1>5, <1>6, <2>1, <2>2
<1>7. f \in Injection(S, 0..(n - 1))
  BY <1>4, <1>6 DEF Injection, IsInjective
<1>8. IsFiniteSet(0..(n - 1)) /\ Cardinality(0..(n - 1)) = n
  BY <1>1, FS_Interval
<1> HIDE DEF f
<1>9. f \in Surjection(S, 0..(n - 1))
  BY <1>7, <1>8, FS_Injection DEF n
<1>10. f \in Bijection(S, 0..(n - 1))
  BY <1>7, <1>9 DEF Bijection
<1> QED BY <1>10 DEF f, n, S

LEMMA PagesPartition ==
  ASSUME ArchiveInv, NEW u \in User, NEW size \in Size
  PROVE  LET pages == 0..(TotalPages(u, size) - 1)
         IN /\ \A r \in Of(u) : Cardinality({p \in pages : r \in Page(u, p, size)}) = 1
            /\ \A p \in pages : Cardinality(Page(u, p, size)) \in 1..size
<1> DEFINE S == Of(u)
           n == Cardinality(S)
           pages == 0..(TotalPages(u, size) - 1)
           f == [r \in S |-> Rank(u, r)]
<1>0. size \in Nat \ {0}
  OBVIOUS
<1>1. IsFiniteSet(S) /\ n \in Nat
  BY OwnResources
<1>2. f \in Bijection(S, 0..(n - 1))
  BY RanksArePlaces
<1>3. /\ \A r \in S : f[r] = Rank(u, r) /\ f[r] \in 0..(n - 1)
      /\ \A r, s \in S : f[r] = f[s] => r = s
      /\ \A x \in 0..(n - 1) : \E r \in S : f[r] = x
  BY <1>2 DEF Bijection, Injection, IsInjective, Surjection
<1>4. \A p \in Nat : p \in pages <=> p * size < n
  <2>1. TotalPages(u, size) = (n + size - 1) \div size
    BY DEF TotalPages
  <2>2. (n + size - 1) \div size \in Nat
    BY <1>0, <1>1, Quotient
  <2>3. ASSUME NEW p \in Nat
        PROVE  p <= (n + size - 1) \div size - 1 <=> p * size < n
    BY <1>0, <1>1, PagesBegin
  <2>4. ASSUME NEW p \in Nat
        PROVE  p \in pages <=> p <= (n + size - 1) \div size - 1
    BY <2>1, <2>2
  <2> QED BY <2>3, <2>4
<1>5. \A p : Page(u, p, size) = {r \in S : p * size <= f[r] /\ f[r] < (p + 1) * size}
  BY <1>3 DEF Page
<1>6. pages \subseteq Nat
  OBVIOUS
<1> HIDE DEF S, n, f, pages
<1>7. ASSUME NEW r \in S PROVE Cardinality({p \in pages : r \in Page(u, p, size)}) = 1
  <2> DEFINE q == f[r] \div size
  <2>1. /\ f[r] \in Nat /\ f[r] < n /\ q \in Nat
        /\ q * size <= f[r] /\ f[r] < q * size + size
    BY <1>0, <1>1, <1>3, Quotient
  <2> HIDE DEF q
  <2>2. q * size \in Nat /\ (q + 1) * size = q * size + size
    BY <1>0, <2>1, Multiples
  <2>3. q \in pages /\ r \in Page(u, q, size)
    BY <1>1, <1>4, <1>5, <2>1, <2>2
  <2>4. ASSUME NEW p \in pages, r \in Page(u, p, size) PROVE p = q
    BY <1>0, <1>5, <1>6, <2>1, <2>4, OnePage DEF q
  <2>5. {p \in pages : r \in Page(u, p, size)} = {q}
    BY <2>3, <2>4
  <2> QED BY <2>5, FS_Singleton
<1>8. ASSUME NEW p \in pages PROVE Cardinality(Page(u, p, size)) \in 1..size
  <2> DEFINE P == Page(u, p, size)
             places == (p * size)..(p * size + size - 1)
             g == [r \in P |-> f[r]]
  <2>1. p \in Nat /\ p * size \in Nat /\ p * size < n /\ (p + 1) * size = p * size + size
    BY <1>0, <1>4, <1>6, Multiples
  <2>2. P \in SUBSET S /\ \A r \in P : f[r] \in places
    BY <1>0, <1>1, <1>3, <1>5, <2>1
  <2>3. IsFiniteSet(P) /\ Cardinality(P) \in Nat
    BY <1>1, <2>2, FS_Subset, FS_CardinalityType
  <2>4. PICK r \in S : f[r] = p * size
    BY <1>1, <1>3, <2>1
  <2>5. r \in P
    BY <1>0, <1>5, <2>1, <2>4
  <2>6. IsFiniteSet(places) /\ Cardinality(places) = size
    BY <1>0, <2>1, FS_Interval
  <2>7. g \in Injection(P, places)
    BY <1>3, <2>2 DEF Injection, IsInjective
  <2> HIDE DEF P, places, g
  <2>8. Cardinality(P) <= size
    BY <2>6, <2>7, FS_Injection
  <2>9. Cardinality(P) # 0
    BY <2>3, <2>5, FS_EmptySet
  <2>10. Cardinality(P) \in 1..size
    BY <1>0, <2>3, <2>8, <2>9
  <2> QED BY <2>10 DEF P
<1> QED BY <1>7, <1>8 DEF S, pages

\* The pages list() announces hold every resource of the user once, none of them
\* empty, whatever the resources and the size.
THEOREM PagesAreWhole == Spec => []PagesCover
<1>1. ArchiveInv => PagesCover
  BY PagesPartition DEF PagesCover
<1> QED BY <1>1, ArchiveCorrect, PTL

=============================================================================
