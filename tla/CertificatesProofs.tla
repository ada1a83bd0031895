-------------------------- MODULE CertificatesProofs --------------------------
(***************************************************************************)
(* Onboarding and the requests that read it, proved for any questions and  *)
(* options, any bodies of requests and any number of requests at a time.   *)
(***************************************************************************)
EXTENDS Certificates, FiniteSetTheorems, WellFoundedInduction, TLAPS

\* What the AI server is told of the options a sheet selects is what the sheet says.
LEMMA PayloadOfSheet ==
  ASSUME NEW sheet, IsAnswered(sheet)
  PROVE  IsWhole(Payload(Selected(sheet)))
<1> DEFINE payload == Payload(Selected(sheet))
<1>1. \A q \in Question : \A v \in ValuesFor(sheet, q) : <<q, v>> \in Selected(sheet)
  BY DEF IsAnswered, Selected
<1>2. DOMAIN payload = {o[1] : o \in Selected(sheet)}
  BY DEF Payload
<1>3. \A q \in DOMAIN payload : q \in Question
  BY <1>2, OnboardingAssumption DEF Selected
<1>4. ASSUME NEW q \in DOMAIN payload PROVE payload[q] = ValuesFor(sheet, q)
  <2>1. payload[q] = {o[2] : o \in {p \in Selected(sheet) : p[1] = q}}
    BY <1>2, <1>4 DEF Payload
  <2>2. \A o \in Selected(sheet) : o[1] = q => o[2] \in ValuesFor(sheet, q)
    BY DEF Selected
  <2>3. \A v \in ValuesFor(sheet, q) : \E o \in Selected(sheet) : o[1] = q /\ o[2] = v
    BY <1>1, <1>3, <1>4
  <2> QED BY <2>1, <2>2, <2>3
<1>5. ASSUME NEW q \in Question, q \notin DOMAIN payload PROVE ValuesFor(sheet, q) = {}
  <2>1. ASSUME NEW v \in ValuesFor(sheet, q) PROVE FALSE
    <3>1. <<q, v>> \in Selected(sheet) /\ <<q, v>>[1] = q
      BY <1>1, <2>1
    <3> QED BY <1>2, <1>5, <3>1
  <2> QED BY <2>1
<1> HIDE DEF payload
<1>6. \A q \in DOMAIN payload : \A v \in payload[q] : <<q, v>> \in Option
  BY <1>3, <1>4 DEF IsAnswered
<1>7. ASSUME NEW q \in Question
      PROVE  WithinLimits(q, IF q \in DOMAIN payload THEN Cardinality(payload[q]) ELSE 0)
  <2>1. WithinLimits(q, Cardinality(ValuesFor(sheet, q)))
    BY DEF IsAnswered
  <2>2. CASE q \in DOMAIN payload
    BY <1>4, <2>1, <2>2
  <2>3. CASE q \notin DOMAIN payload
    <3>1. Cardinality(ValuesFor(sheet, q)) = 0
      BY <1>5, <2>3, FS_EmptySet
    <3> QED BY <2>1, <2>3, <3>1
  <2> QED BY <2>2, <2>3
<1> QED BY <1>6, <1>7 DEF IsWhole, payload

-----------------------------------------------------------------------------
(* The inductive invariant of the answers.                                 *)

\* A transaction under way carries a whole sheet.
StoresWhole ==
  \A s \in Submitter : submit[s].stage = "store" => IsWhole(Payload(submit[s].options))

\* Who has been found onboarded stays so.
AskersOnboarded == \A a \in Asker : ask[a].stage = "answers" => onboarded

\* What a request carries once the AI server has answered.
Carries(a, stage) == [stage |-> stage, items |-> ask[a].items, made |-> ask[a].made]

RequestsCarry ==
  \A a \in Asker :
    ask[a].stage \in {"find", "insert", "update", "delete"} => ask[a] = Carries(a, ask[a].stage)

AnswersInv ==
  /\ submit = [s \in Submitter |-> submit[s]]
  /\ ask = [a \in Asker |-> ask[a]]
  /\ RequestsCarry
  /\ StoresWhole
  /\ OnboardedFits
  /\ AskersOnboarded
  /\ AsksOnboarded

\* A request that goes on leaves the others where they are.
LEMMA AskGoto ==
  ASSUME ask = [a \in Asker |-> ask[a]], NEW a \in Asker, NEW state, Goto(a, state)
  PROVE  /\ ask' = [b \in Asker |-> ask'[b]]
         /\ ask'[a] = state
         /\ \A b \in Asker \ {a} : ask'[b] = ask[b]
BY DEF Goto

\* The queries on the row of the user change the stage of a request and nothing else.
LEMMA StageGoto ==
  ASSUME RequestsCarry, NEW a \in Asker, FindRow(a) \/ InsertRow(a) \/ UpdateRow(a)
  PROVE  \E stage \in {"idle", "insert", "update", "delete"} :
           Goto(a, IF stage = "idle" THEN Idle ELSE Carries(a, stage))
<1>1. ask[a].stage \in {"find", "insert", "update"}
  BY DEF FindRow, InsertRow, UpdateRow
<1>2. ask[a] = Carries(a, ask[a].stage)
  BY <1>1 DEF RequestsCarry
<1>3. \A stage : [ask[a] EXCEPT !.stage = stage] = Carries(a, stage)
  BY <1>2 DEF Carries
<1>4. CASE FindRow(a)
  BY <1>3, <1>4 DEF FindRow
<1>5. CASE InsertRow(a)
  BY <1>3, <1>5 DEF InsertRow
<1>6. CASE UpdateRow(a)
  BY <1>3, <1>6 DEF UpdateRow
<1> QED BY <1>4, <1>5, <1>6

\* A step of a request keeps the invariant if what it goes on with does.
LEMMA AskKeepsAnswers ==
  ASSUME AnswersInv, NEW a \in Asker, NEW state, Goto(a, state), UNCHANGED onboardingVars,
         state.stage = "answers" => onboarded,
         state.stage = "ask" => IsWhole(state.payload),
         state.stage \in {"find", "insert", "update", "delete"} =>
           state = [stage |-> state.stage, items |-> state.items, made |-> state.made]
  PROVE  AnswersInv'
<1>1. /\ ask' = [b \in Asker |-> ask'[b]]
      /\ ask'[a] = state
      /\ \A b \in Asker \ {a} : ask'[b] = ask[b]
  BY AskGoto DEF AnswersInv
<1>2. AskersOnboarded'
  BY <1>1 DEF AnswersInv, AskersOnboarded, onboardingVars
<1>3. AsksOnboarded'
  BY <1>1 DEF AnswersInv, AsksOnboarded
<1>4. StoresWhole' /\ OnboardedFits'
  BY DEF AnswersInv, StoresWhole, OnboardedFits, onboardingVars
<1>5. RequestsCarry'
  BY <1>1 DEF AnswersInv, RequestsCarry, Carries
<1> QED BY <1>1, <1>2, <1>3, <1>4, <1>5 DEF AnswersInv, onboardingVars

LEMMA AnswersInit == CertificatesInit => AnswersInv
<1> SUFFICES ASSUME CertificatesInit PROVE AnswersInv
  OBVIOUS
<1> USE DEF CertificatesInit, OnboardingInit, RecommendationInit
<1>1. \A s \in Submitter : submit[s].stage = "idle"
  BY DEF Idle
<1>2. \A a \in Asker : ask[a].stage = "idle"
  BY DEF Idle
<1> QED BY <1>1, <1>2 DEF AnswersInv, RequestsCarry, StoresWhole, OnboardedFits,
                          AskersOnboarded, AsksOnboarded

LEMMA OnboardingKeepsAnswers ==
  AnswersInv /\ OnboardingNext /\ UNCHANGED recommendationVars => AnswersInv'
<1> SUFFICES ASSUME AnswersInv, UNCHANGED recommendationVars, NEW s \in Submitter,
                    \/ \E sheet \in Sheet : Submit(s, sheet)
                    \/ Store(s)
                    \/ FailSubmit(s)
             PROVE  AnswersInv'
  BY DEF OnboardingNext
<1> USE DEF recommendationVars, RequestsCarry, Carries
<1>1. ASSUME NEW sheet \in Sheet, Submit(s, sheet) PROVE AnswersInv'
  <2>1. IsWhole(Payload(Selected(sheet)))
    BY <1>1, PayloadOfSheet DEF Submit
  <2>2. submit' = [submit EXCEPT ![s] = [stage |-> "store", options |-> Selected(sheet)]]
    BY <1>1 DEF Submit
  <2>3. StoresWhole'
    BY <2>1, <2>2 DEF AnswersInv, StoresWhole
  <2> QED BY <1>1, <2>2, <2>3
          DEF Submit, AnswersInv, OnboardedFits, AskersOnboarded, AsksOnboarded
<1>2. ASSUME Store(s) PROVE AnswersInv'
  <2>1. /\ submit' = [submit EXCEPT ![s] = Idle]
        /\ answers' = submit[s].options
        /\ desired' = FieldsOf(submit[s].options)
        /\ onboarded' = TRUE
    BY <1>2 DEF Store
  <2>2. IsWhole(Payload(submit[s].options))
    BY <1>2 DEF Store, AnswersInv, StoresWhole
  <2>3. StoresWhole'
    BY <2>1 DEF AnswersInv, StoresWhole, Idle
  <2>4. OnboardedFits'
    BY <2>1, <2>2 DEF OnboardedFits
  <2> QED BY <2>1, <2>3, <2>4 DEF AnswersInv, AskersOnboarded, AsksOnboarded
<1>3. ASSUME FailSubmit(s) PROVE AnswersInv'
  BY <1>3 DEF FailSubmit, AnswersInv, StoresWhole, OnboardedFits, AskersOnboarded,
              AsksOnboarded, Idle
<1> QED BY <1>1, <1>2, <1>3

LEMMA RecommendationKeepsAnswers == AnswersInv /\ RecommendationNext => AnswersInv'
<1> SUFFICES ASSUME AnswersInv, RecommendationNext PROVE AnswersInv'
  OBVIOUS
<1>1. ASSUME NEW a \in Asker, NEW size \in Size, ReadUser(a, size) PROVE AnswersInv'
  BY <1>1, AskKeepsAnswers DEF ReadUser
<1>2. ASSUME NEW a \in Asker, ReadAnswers(a) PROVE AnswersInv'
  <2>1. IsWhole(Payload(answers))
    BY <1>2 DEF ReadAnswers, AnswersInv, AskersOnboarded, OnboardedFits
  <2> QED BY <1>2, <2>1, AskKeepsAnswers DEF ReadAnswers
<1>3. ASSUME NEW a \in Asker, NEW items \in AiAnswer, UseAnswer(a, items)
      PROVE  AnswersInv'
  BY <1>3, AskKeepsAnswers DEF UseAnswer, Idle
<1>4. ASSUME NEW a \in Asker, FindRow(a) \/ InsertRow(a) \/ UpdateRow(a) PROVE AnswersInv'
  <2>1. PICK stage \in {"idle", "insert", "update", "delete"} :
          Goto(a, IF stage = "idle" THEN Idle ELSE Carries(a, stage))
    BY <1>4, StageGoto DEF AnswersInv
  <2> QED BY <1>4, <2>1, AskKeepsAnswers
          DEF FindRow, InsertRow, UpdateRow, Idle, Carries
<1>5. ASSUME NEW a \in Asker, DeleteItems(a) PROVE AnswersInv'
  BY <1>5, AskKeepsAnswers DEF DeleteItems, Left
<1>6. ASSUME NEW a \in Asker, CreateItems(a) \/ FailAsk(a) PROVE AnswersInv'
  BY <1>6, AskKeepsAnswers DEF CreateItems, FailAsk, Idle
<1> QED BY <1>1, <1>2, <1>3, <1>4, <1>5, <1>6 DEF RecommendationNext

LEMMA AnswersStep == AnswersInv /\ [CertificatesNext]_certificatesVars => AnswersInv'
<1>1. AnswersInv /\ MayLook /\ SearchNext /\ UNCHANGED <<onboardingVars, recommendationVars>>
      => AnswersInv'
  BY DEF AnswersInv, onboardingVars, recommendationVars, StoresWhole,
         OnboardedFits, RequestsCarry, Carries,
         AskersOnboarded, AsksOnboarded
<1>2. AnswersInv /\ UNCHANGED certificatesVars => AnswersInv'
  BY DEF AnswersInv, certificatesVars, onboardingVars, recommendationVars, StoresWhole,
         OnboardedFits, RequestsCarry, Carries, AskersOnboarded, AsksOnboarded
<1> QED BY <1>1, <1>2, OnboardingKeepsAnswers, RecommendationKeepsAnswers
        DEF CertificatesNext

LEMMA AnswersAlways == CertificatesSpec => []AnswersInv
BY AnswersInit, AnswersStep, PTL DEF CertificatesSpec

\* However sheets replace each other and whatever fails, an onboarded user has the
\* answers of one whole sheet and the fields of these (onboarding.service.ts:118).
THEOREM OnboardedAlwaysFits == CertificatesSpec => []OnboardedFits
<1>1. AnswersInv => OnboardedFits
  BY DEF AnswersInv
<1> QED BY <1>1, AnswersAlways, PTL

\* The AI server is never asked with half a sheet, though the user and the answers
\* are read by two queries (cert/recommendation.service.ts:29).
THEOREM AlwaysAsksOnboarded == CertificatesSpec => []AsksOnboarded
<1>1. AnswersInv => AsksOnboarded
  BY DEF AnswersInv
<1> QED BY <1>1, AnswersAlways, PTL

-----------------------------------------------------------------------------
(* The inductive invariant of the ranking.                                 *)

\* The queries of two transactions on the items do not interleave.
OneHolder == \A a, b \in Asker : HoldsRow(a) /\ HoldsRow(b) => a = b

\* The rows are made from one answer, for one size, and there are some.
MadeFrom(items, made) ==
  /\ made.answer \in AiAnswer
  /\ made.size \in Size
  /\ items = RankedItems(made.answer, made.size)
  /\ items # {}

\* What a transaction writes is what has been made of one answer, and what it has
\* deleted is all there is.
TransactionsSound ==
  \A a \in Asker :
    /\ ask[a].stage \in {"answers", "ask"} => ask[a].size \in Size
    /\ ask[a].stage \in {"find", "insert", "update", "delete", "create"} =>
         MadeFrom(ask[a].items, ask[a].made)
    /\ ask[a].stage = "create" => ask[a].gone = StoredItems

\* The stored items are those of the answer generated at generated_at, all of them
\* and no others.
OneRanking == stored # Null => MadeFrom(stored.items, stored.generated)

RankingInv ==
  /\ ask = [a \in Asker |-> ask[a]]
  /\ RequestsCarry
  /\ OneHolder
  /\ TransactionsSound
  /\ OneRanking

\* A step of a request that does not write keeps the invariant if what it goes on
\* with does.
LEMMA AskKeepsRanking ==
  ASSUME RankingInv, NEW a \in Asker, NEW state, Goto(a, state), UNCHANGED stored,
         state.stage \in {"find", "insert", "update", "delete"} =>
           state = [stage |-> state.stage, items |-> state.items, made |-> state.made],
         state.stage \in {"delete", "create"} => HoldsRow(a) \/ RowIsFree,
         state.stage \in {"answers", "ask"} => state.size \in Size,
         state.stage \in {"find", "insert", "update", "delete", "create"} =>
           MadeFrom(state.items, state.made),
         state.stage = "create" => state.gone = StoredItems
  PROVE  RankingInv'
<1>1. /\ ask' = [b \in Asker |-> ask'[b]]
      /\ ask'[a] = state
      /\ \A b \in Asker \ {a} : ask'[b] = ask[b]
  BY AskGoto DEF RankingInv
<1>2. RequestsCarry'
  BY <1>1 DEF RankingInv, RequestsCarry, Carries
<1>3. OneHolder'
  BY <1>1 DEF RankingInv, OneHolder, HoldsRow, RowIsFree
<1>4. TransactionsSound'
  BY <1>1 DEF RankingInv, TransactionsSound, StoredItems
<1>5. OneRanking'
  BY DEF RankingInv, OneRanking
<1> QED BY <1>1, <1>2, <1>3, <1>4, <1>5 DEF RankingInv

LEMMA RankingInit == CertificatesInit => RankingInv
<1> SUFFICES ASSUME CertificatesInit PROVE RankingInv
  OBVIOUS
<1> USE DEF CertificatesInit, RecommendationInit
<1>1. \A a \in Asker : ask[a].stage = "idle"
  BY DEF Idle
<1> QED BY <1>1 DEF RankingInv, RequestsCarry, OneHolder, HoldsRow, TransactionsSound,
                    OneRanking

LEMMA RecommendationKeepsRanking == RankingInv /\ RecommendationNext => RankingInv'
<1> SUFFICES ASSUME RankingInv, RecommendationNext PROVE RankingInv'
  OBVIOUS
<1>1. ASSUME NEW a \in Asker, NEW size \in Size, ReadUser(a, size) PROVE RankingInv'
  BY <1>1, AskKeepsRanking DEF ReadUser
<1>2. ASSUME NEW a \in Asker, ReadAnswers(a) PROVE RankingInv'
  <2>1. ask[a].size \in Size
    BY <1>2 DEF ReadAnswers, RankingInv, TransactionsSound
  <2> QED BY <1>2, <2>1, AskKeepsRanking DEF ReadAnswers
<1>3. ASSUME NEW a \in Asker, NEW items \in AiAnswer, UseAnswer(a, items) PROVE RankingInv'
  <2> DEFINE rows == RankedItems(items, ask[a].size)
             made == [answer |-> items, size |-> ask[a].size]
  <2>1. UNCHANGED stored
    BY <1>3 DEF UseAnswer
  <2>2. CASE rows = {}
    BY <1>3, <2>1, <2>2, AskKeepsRanking DEF UseAnswer, Idle
  <2>3. CASE rows # {}
    <3>1. Goto(a, [stage |-> "find", items |-> rows, made |-> made])
      BY <1>3, <2>3 DEF UseAnswer
    <3>2. MadeFrom(rows, made)
      BY <1>3, <2>3 DEF UseAnswer, RankingInv, TransactionsSound, MadeFrom
    <3> HIDE DEF rows, made
    <3> QED BY <2>1, <3>1, <3>2, AskKeepsRanking
  <2> QED BY <2>2, <2>3
<1>4. ASSUME NEW a \in Asker, FindRow(a) \/ InsertRow(a) \/ UpdateRow(a) PROVE RankingInv'
  <2>1. PICK stage \in {"idle", "insert", "update", "delete"} :
          Goto(a, IF stage = "idle" THEN Idle ELSE Carries(a, stage))
    BY <1>4, StageGoto DEF RankingInv
  <2>2. stage = "delete" => RowIsFree
    <3>1. CASE FindRow(a)
      BY <2>1, <3>1 DEF FindRow, Carries, Idle, Goto, RankingInv, RequestsCarry
    <3>2. CASE InsertRow(a) \/ UpdateRow(a)
      BY <3>2 DEF InsertRow, UpdateRow
    <3> QED BY <1>4, <3>1, <3>2
  <2>3. MadeFrom(ask[a].items, ask[a].made)
    BY <1>4 DEF FindRow, InsertRow, UpdateRow, RankingInv, TransactionsSound
  <2>4. UNCHANGED stored
    BY <1>4 DEF FindRow, InsertRow, UpdateRow
  <2> QED BY <2>1, <2>2, <2>3, <2>4, AskKeepsRanking DEF Idle, Carries
<1>5. ASSUME NEW a \in Asker, DeleteItems(a) PROVE RankingInv'
  <2>1. Goto(a, Left(a, StoredItems)) /\ UNCHANGED stored /\ HoldsRow(a)
    BY <1>5 DEF DeleteItems, HoldsRow
  <2>2. MadeFrom(ask[a].items, ask[a].made)
    BY <1>5 DEF DeleteItems, RankingInv, TransactionsSound
  <2> QED BY <2>1, <2>2, AskKeepsRanking DEF Left
<1>6. ASSUME NEW a \in Asker, CreateItems(a) PROVE RankingInv'
  <2>1. /\ Goto(a, Idle)
        /\ stored' = [generated |-> ask[a].made,
                      items |-> (StoredItems \ ask[a].gone) \cup ask[a].items]
    BY <1>6 DEF CreateItems
  <2>2. /\ HoldsRow(a)
        /\ ask[a].gone = StoredItems
        /\ MadeFrom(ask[a].items, ask[a].made)
    BY <1>6 DEF CreateItems, RankingInv, TransactionsSound, HoldsRow
  <2>3. /\ ask' = [b \in Asker |-> ask'[b]]
        /\ ask'[a] = Idle
        /\ \A b \in Asker \ {a} : ask'[b] = ask[b]
    BY <2>1, AskGoto DEF RankingInv
  <2>4. \A b \in Asker \ {a} : ask[b].stage # "create"
    BY <2>2 DEF RankingInv, OneHolder, HoldsRow
  <2>5. RequestsCarry' /\ OneHolder'
    BY <2>3 DEF RankingInv, RequestsCarry, Carries, OneHolder, HoldsRow, Idle
  <2>6. TransactionsSound'
    BY <2>3, <2>4 DEF RankingInv, TransactionsSound, Idle
  <2>7. OneRanking'
    BY <2>1, <2>2 DEF OneRanking
  <2> QED BY <2>3, <2>5, <2>6, <2>7 DEF RankingInv
<1>7. ASSUME NEW a \in Asker, FailAsk(a) PROVE RankingInv'
  BY <1>7, AskKeepsRanking DEF FailAsk, Idle
<1> QED BY <1>1, <1>2, <1>3, <1>4, <1>5, <1>6, <1>7 DEF RecommendationNext

LEMMA RankingStep == RankingInv /\ [CertificatesNext]_certificatesVars => RankingInv'
<1>1. RankingInv /\ UNCHANGED recommendationVars => RankingInv'
  BY DEF recommendationVars, RankingInv, RequestsCarry, Carries, OneHolder, HoldsRow,
         TransactionsSound, StoredItems, OneRanking
<1> QED BY <1>1, RecommendationKeepsRanking DEF CertificatesNext, certificatesVars

\* Two requests may both find no row, and their queries interleave as MySQL lets
\* them: what is stored is always the ranking made from the one answer that was
\* generated at generated_at (cert/recommendation.service.ts:112).
THEOREM AlwaysOneRanking == CertificatesSpec => []OneRanking
<1>1. RankingInv => OneRanking
  BY DEF RankingInv
<1> QED BY <1>1, RankingInit, RankingStep, PTL DEF CertificatesSpec

-----------------------------------------------------------------------------
(* The ranking as a function of the answer: which items are known, and     *)
(* what the count of those before an item is worth as its rank.            *)

\* A set of natural numbers that is not empty has a least element.
LEMMA LeastNatural ==
  ASSUME NEW T \in SUBSET Nat, T # {}
  PROVE  \E n \in T : \A m \in T : n <= m
<1> DEFINE R == OpToRel(<, Nat)
<1>1. \E x \in T : \A y \in T : ~ (<<y, x>> \in R)
  BY NatLessThanWellFounded, WFMin
<1>2. PICK x \in T : \A y \in T : ~ (<<y, x>> \in R)
  BY <1>1
<1>3. ASSUME NEW y \in T, y < x PROVE FALSE
  <2>1. <<y, x>> \in R
    BY <1>3 DEF OpToRel
  <2> QED BY <1>2, <2>1
<1> HIDE DEF R
<1>4. \A y \in T : ~ (y < x)
  BY <1>3
<1> QED BY <1>4

\* The place of k among the members of S.
Place(S, k) == Cardinality({j \in S : j <= k})

\* The members of a finite set of numbers take the places from 1 on, in their order.
LEMMA PlacesCount ==
  ASSUME NEW S \in SUBSET Nat, IsFiniteSet(S)
  PROVE  /\ [k \in S |-> Place(S, k)] \in Bijection(S, 1..Cardinality(S))
         /\ \A j, k \in S : j < k => Place(S, j) < Place(S, k)
<1> DEFINE n == Cardinality(S)
           UpTo(k) == {j \in S : j <= k}
           f == [k \in S |-> Place(S, k)]
<1>1. \A T \in SUBSET S : /\ IsFiniteSet(T) /\ Cardinality(T) \in Nat
                          /\ Cardinality(T) <= n
  BY FS_Subset, FS_CardinalityType
<1>2. n \in Nat
  BY <1>1
<1>3. \A k \in S : Place(S, k) = Cardinality(UpTo(k)) /\ UpTo(k) \in SUBSET S
  BY DEF Place
<1> HIDE DEF n
<1>4. ASSUME NEW k \in S PROVE Place(S, k) \in 1..n
  <2>1. UpTo(k) # {}
    BY <1>4
  <2>2. IsFiniteSet(UpTo(k)) /\ Cardinality(UpTo(k)) \in Nat /\ Cardinality(UpTo(k)) <= n
    BY <1>1, <1>3
  <2> HIDE DEF UpTo
  <2>3. Cardinality(UpTo(k)) # 0
    BY <2>1, <2>2, FS_EmptySet
  <2> QED BY <1>2, <1>3, <2>2, <2>3
<1>5. ASSUME NEW j \in S, NEW k \in S, j < k PROVE Place(S, j) < Place(S, k)
  <2>1. UpTo(j) \cup {k} \in SUBSET UpTo(k) /\ k \notin UpTo(j)
    <3>1. \A i \in S : i \in Nat
      OBVIOUS
    <3>2. \A i \in S : i <= j => i <= k
      BY <1>5, <3>1
    <3>3. k <= k /\ ~(k <= j)
      BY <1>5, <3>1
    <3> QED BY <3>2, <3>3
  <2>2. UpTo(j) \in SUBSET S /\ UpTo(k) \in SUBSET S
    BY <1>3
  <2> HIDE DEF UpTo
  <2>3. Cardinality(UpTo(j) \cup {k}) = Cardinality(UpTo(j)) + 1
    BY <1>1, <2>1, <2>2, FS_AddElement
  <2>4. Cardinality(UpTo(j) \cup {k}) <= Cardinality(UpTo(k))
    BY <1>1, <2>1, <2>2, FS_Subset
  <2>5. Cardinality(UpTo(j)) \in Nat /\ Cardinality(UpTo(k)) \in Nat
    BY <1>1, <2>2
  <2> QED BY <1>3, <2>3, <2>4, <2>5
<1>6. ASSUME NEW j \in S, NEW k \in S, Place(S, j) = Place(S, k) PROVE j = k
  <2>1. Place(S, j) \in Int /\ Place(S, k) \in Int
    BY <1>4
  <2>2. ~(j < k) /\ ~(k < j)
    BY <1>5, <1>6, <2>1
  <2> QED BY <2>2
<1>7. f \in Injection(S, 1..n)
  BY <1>4, <1>6 DEF Injection, IsInjective
<1>8. IsFiniteSet(1..n) /\ Cardinality(1..n) = n
  BY <1>2, FS_Interval
<1> HIDE DEF f
<1>9. f \in Surjection(S, 1..n)
  BY <1>7, <1>8, FS_Injection DEF n
<1>10. f \in Bijection(S, 1..n)
  BY <1>7, <1>9 DEF Bijection
<1> QED BY <1>5, <1>10 DEF f, n

\* Known takes the first item of each code that exists, in the words of RankingWhole.
FitIn(items) == {k \in DOMAIN items : items[k].fit}
NamedIn(items) == {items[k].code : k \in FitIn(items)} \cap Cert
FirstOf(items, c) ==
  CHOOSE k \in FitIn(items) :
    items[k].code = c /\ \A j \in FitIn(items) : items[j].code = c => k <= j

LEMMA KnownPlaces ==
  ASSUME NEW items \in AiAnswer
  PROVE  /\ Known(items) \in SUBSET Nat
         /\ IsFiniteSet(Known(items))
         /\ Known(items) \in SUBSET FitIn(items)
<1>1. DOMAIN items = 1..Len(items) /\ Len(items) \in Nat
  BY RecommendationAssumption
<1>2. IsFiniteSet(1..Len(items))
  BY <1>1, FS_Interval
<1>3. Known(items) \in SUBSET (1..Len(items))
  BY <1>1 DEF Known
<1>4. IsFiniteSet(Known(items))
  BY <1>2, <1>3, FS_Subset
<1>5. Known(items) \in SUBSET FitIn(items)
  BY DEF Known, FitIn
<1> QED BY <1>1, <1>3, <1>4, <1>5

LEMMA FirstsAreKnown ==
  ASSUME NEW items \in AiAnswer
  PROVE  /\ \A k \in Known(items) :
              items[k].code \in NamedIn(items) /\ FirstOf(items, items[k].code) = k
         /\ \A c \in NamedIn(items) :
              FirstOf(items, c) \in Known(items) /\ items[FirstOf(items, c)].code = c
<1> DEFINE fit == FitIn(items)
           IsFirst(k, c) == /\ items[k].code = c
                            /\ \A j \in fit : items[j].code = c => k <= j
<1>1. DOMAIN items = 1..Len(items) /\ Len(items) \in Nat
  BY RecommendationAssumption
<1>2. /\ fit \in SUBSET (1..Len(items))
      /\ \A k \in 1..Len(items) : k \in fit <=> items[k].fit
  BY <1>1 DEF FitIn
<1>3. \A k : k \in Known(items) <=>
               /\ k \in fit /\ items[k].code \in Cert
               /\ \A j \in 1..(k - 1) : items[j].fit => items[j].code # items[k].code
  BY <1>1, <1>2 DEF Known
<1> HIDE DEF fit
<1>4. ASSUME NEW k \in fit, items[k].code \in Cert
      PROVE  k \in Known(items) <=> IsFirst(k, items[k].code)
  <2>1. \A j \in fit : j \in 1..(k - 1) <=> ~(k <= j)
    BY <1>1, <1>2
  <2>2. \A j \in 1..(k - 1) : j \in 1..Len(items)
    BY <1>1, <1>2
  <2> QED BY <1>2, <1>3, <1>4, <2>1, <2>2
<1>5. \A c : \A j, k \in fit : IsFirst(j, c) /\ IsFirst(k, c) => j = k
  BY <1>1, <1>2
<1>6. \A c : FirstOf(items, c) = CHOOSE k \in fit : IsFirst(k, c)
  BY DEF FirstOf, fit
<1>7. ASSUME NEW c \in NamedIn(items) PROVE \E k \in fit : IsFirst(k, c)
  <2> DEFINE T == {k \in fit : items[k].code = c}
  <2>1. T \in SUBSET Nat /\ T # {}
    BY <1>1, <1>2, <1>7 DEF NamedIn, fit
  <2>2. PICK k \in T : \A j \in T : k <= j
    <3> HIDE DEF T
    <3> QED BY <2>1, LeastNatural
  <2> QED BY <2>2
<1>8. ASSUME NEW k \in Known(items)
      PROVE  items[k].code \in NamedIn(items) /\ FirstOf(items, items[k].code) = k
  <2>1. k \in fit /\ items[k].code \in Cert /\ IsFirst(k, items[k].code)
    BY <1>3, <1>4, <1>8
  <2>2. items[k].code \in NamedIn(items)
    BY <2>1 DEF NamedIn, fit
  <2> HIDE DEF IsFirst
  <2> QED BY <1>5, <1>6, <2>1, <2>2
<1>9. ASSUME NEW c \in NamedIn(items)
      PROVE  FirstOf(items, c) \in Known(items) /\ items[FirstOf(items, c)].code = c
  <2>1. PICK k \in fit : IsFirst(k, c)
    BY <1>7
  <2>2. FirstOf(items, c) \in fit /\ IsFirst(FirstOf(items, c), c)
    <3> HIDE DEF IsFirst
    <3> QED BY <1>6, <2>1
  <2>3. c \in Cert
    BY DEF NamedIn
  <2> QED BY <1>4, <2>2, <2>3
<1> QED BY <1>8, <1>9

\* The row of the known item at place k of the answer, however many are stored.
RowOf(items, k) ==
  [rank |-> Place(Known(items), k), code |-> items[k].code, reason |-> k]

LEMMA RowsOfKnown ==
  ASSUME NEW items \in AiAnswer, NEW size \in Size
  PROVE  /\ \A row \in RankedItems(items, size) :
              /\ row.reason \in Known(items) /\ row = RowOf(items, row.reason)
              /\ row.rank \in 1..size
         /\ \A k \in Known(items) :
              Place(Known(items), k) \in 1..size => RowOf(items, k) \in RankedItems(items, size)
<1> DEFINE K == Known(items)
           Shape == [rank : 1..size, code : Cert, reason : K]
<1>1. RankedItems(items, size) =
        {row \in Shape : row.code = items[row.reason].code /\ row.rank = Place(K, row.reason)}
  BY DEF RankedItems, Place
<1>2. \A k \in K : items[k].code \in Cert
  BY DEF Known
<1> HIDE DEF K
<1>3. ASSUME NEW row \in RankedItems(items, size)
      PROVE  row.reason \in K /\ row = RowOf(items, row.reason) /\ row.rank \in 1..size
  BY <1>1 DEF RowOf, K
<1>4. ASSUME NEW k \in K, Place(K, k) \in 1..size PROVE RowOf(items, k) \in RankedItems(items, size)
  BY <1>1, <1>2, <1>4 DEF RowOf, K
<1> QED BY <1>3, <1>4 DEF K

\* The rows take the ranks from 1 to their number, one each.
LEMMA RanksOfRows ==
  ASSUME NEW items \in AiAnswer, NEW size \in Size
  PROVE  LET rows == RankedItems(items, size)
             n    == Cardinality(Known(items))
         IN /\ IsFiniteSet(rows)
            /\ n \in Nat
            /\ Cardinality(rows) = (IF n < size THEN n ELSE size)
            /\ {row.rank : row \in rows} = 1..Cardinality(rows)
            /\ \A r, s \in rows : r.rank = s.rank => r = s
<1> DEFINE rows == RankedItems(items, size)
           K == Known(items)
           n == Cardinality(K)
           m == IF n < size THEN n ELSE size
           place == [k \in K |-> Place(K, k)]
           rank == [row \in rows |-> row.rank]
<1>1. size \in Nat \ {0}
  BY RecommendationAssumption
<1>2. n \in Nat
  BY KnownPlaces, FS_CardinalityType
<1>3. m \in Nat /\ \A i \in Nat : i \in 1..m <=> i \in 1..n /\ i \in 1..size
  BY <1>1, <1>2
<1>4. place \in Bijection(K, 1..n)
  BY KnownPlaces, PlacesCount
<1>5. /\ \A k \in K : Place(K, k) \in 1..n
      /\ \A j, k \in K : Place(K, j) = Place(K, k) => j = k
      /\ \A i \in 1..n : \E k \in K : Place(K, k) = i
  BY <1>4 DEF Bijection, Injection, Surjection, IsInjective
<1>6. /\ \A row \in rows : /\ row.reason \in K /\ row = RowOf(items, row.reason)
                           /\ row.rank \in 1..size
      /\ \A k \in K : Place(K, k) \in 1..size => RowOf(items, k) \in rows
  BY RowsOfKnown
<1>7. \A k : RowOf(items, k).rank = Place(K, k)
  BY DEF RowOf
<1> HIDE DEF rows, K, n, m
<1>8. \A row \in rows : row.rank \in 1..m
  <2>1. ASSUME NEW row \in rows PROVE row.rank \in 1..m
    <3>1. row.reason \in K /\ row.rank = Place(K, row.reason) /\ row.rank \in 1..size
      BY <1>6, <1>7
    <3>2. row.rank \in 1..n /\ row.rank \in Nat
      BY <1>5, <3>1
    <3> QED BY <1>3, <3>1, <3>2
  <2> QED BY <2>1
<1>9. \A r, s \in rows : r.rank = s.rank => r = s
  BY <1>5, <1>6, <1>7
<1>10. \A i \in 1..m : \E row \in rows : row.rank = i
  <2>1. ASSUME NEW i \in 1..m PROVE \E row \in rows : row.rank = i
    <3>1. i \in 1..n /\ i \in 1..size
      BY <1>3
    <3>2. PICK k \in K : Place(K, k) = i
      BY <1>5, <3>1
    <3> QED BY <1>6, <1>7, <3>1, <3>2
  <2> QED BY <2>1
<1>11. rank \in Injection(rows, 1..m) /\ rank \in Surjection(rows, 1..m)
  BY <1>8, <1>9, <1>10 DEF Injection, Surjection, IsInjective
<1>12. IsFiniteSet(1..m) /\ Cardinality(1..m) = m
  BY <1>3, FS_Interval
<1> HIDE DEF rank
<1>13. IsFiniteSet(rows) /\ Cardinality(rows) = m
  BY <1>11, <1>12, FS_Injection
<1>14. {row.rank : row \in rows} = 1..m
  BY <1>8, <1>10
<1> QED BY <1>2, <1>9, <1>13, <1>14 DEF rows, K, n, m

\* get() of rows that are not stored yet.
GetOf(rows) == [k \in 1..Cardinality(rows) |-> (CHOOSE row \in rows : row.rank = k).code]

\* RankingWhole as a fact of the rows that are made from an answer.
IsWholeRanking(rows, made) ==
  LET items == made.answer
  IN /\ {row.rank : row \in rows} = 1..Cardinality(rows)
     /\ Cardinality({row.code : row \in rows}) = Cardinality(rows)
     /\ Cardinality(rows) \in 1..made.size
     /\ \A row \in rows : row.code \in NamedIn(items) /\ row.reason = FirstOf(items, row.code)
     /\ \A k \in DOMAIN GetOf(rows), c \in NamedIn(items) :
          FirstOf(items, c) < FirstOf(items, GetOf(rows)[k]) =>
            \E j \in 1..(k - 1) : GetOf(rows)[j] = c
     /\ Cardinality(rows) < made.size => NamedIn(items) = {row.code : row \in rows}

LEMMA MadeRankingIsWhole ==
  ASSUME NEW rows, NEW made, MadeFrom(rows, made)
  PROVE  IsWholeRanking(rows, made)
<1> DEFINE items == made.answer
           size  == made.size
           K     == Known(items)
           n     == Cardinality(K)
           m     == Cardinality(rows)
           codes == {row.code : row \in rows}
           code  == [row \in rows |-> row.code]
<1>1. items \in AiAnswer /\ size \in Size /\ rows = RankedItems(items, size) /\ rows # {}
  BY DEF MadeFrom
<1>2. size \in Nat \ {0}
  BY <1>1, RecommendationAssumption
<1>3. /\ IsFiniteSet(rows) /\ n \in Nat /\ m = (IF n < size THEN n ELSE size)
      /\ {row.rank : row \in rows} = 1..m
      /\ \A r, s \in rows : r.rank = s.rank => r = s
  BY <1>1, RanksOfRows
<1>4. /\ \A row \in rows : row.reason \in K /\ row = RowOf(items, row.reason)
      /\ \A k \in K : Place(K, k) \in 1..size => RowOf(items, k) \in rows
  BY <1>1, RowsOfKnown
<1>5. /\ \A k \in K : items[k].code \in NamedIn(items) /\ FirstOf(items, items[k].code) = k
      /\ \A c \in NamedIn(items) :
           FirstOf(items, c) \in K /\ items[FirstOf(items, c)].code = c
  BY <1>1, FirstsAreKnown
<1>6. /\ K \in SUBSET Nat
      /\ [k \in K |-> Place(K, k)] \in Bijection(K, 1..n)
      /\ \A j, k \in K : j < k => Place(K, j) < Place(K, k)
  BY <1>1, KnownPlaces, PlacesCount
<1>7. \A k \in K : Place(K, k) \in 1..n
  BY <1>6 DEF Bijection, Injection
<1>8. \A k : RowOf(items, k).rank = Place(K, k) /\ RowOf(items, k).code = items[k].code
  BY DEF RowOf
<1> HIDE DEF items, size, K, n, m
<1>9. \A row \in rows : /\ row.reason \in K /\ row.code = items[row.reason].code
                        /\ row.rank = Place(K, row.reason) /\ row.rank \in 1..m
  <2>1. \A row \in rows : /\ row.reason \in K /\ row.code = items[row.reason].code
                          /\ row.rank = Place(K, row.reason)
    BY <1>4, <1>8
  <2> QED BY <1>3, <2>1
<1>10. m \in 1..size
  <2>1. m \in Nat /\ m <= size
    BY <1>2, <1>3
  <2>2. m # 0
    BY <1>1, <1>3, FS_EmptySet DEF m
  <2> QED BY <1>2, <2>1, <2>2
<1>11. Cardinality(codes) = m
  <2>1. \A r, s \in rows : r.code = s.code => r = s
    BY <1>3, <1>5, <1>9
  <2>2. code \in Surjection(rows, codes) /\ code \in Injection(rows, codes)
    BY <2>1 DEF Surjection, Injection, IsInjective
  <2> HIDE DEF code, codes
  <2> QED BY <1>3, <2>2, FS_Surjection DEF m
<1>12. \A row \in rows : row.code \in NamedIn(items) /\ row.reason = FirstOf(items, row.code)
  BY <1>5, <1>9
<1>13. DOMAIN GetOf(rows) = 1..m /\ \A row \in rows : GetOf(rows)[row.rank] = row.code
  <2>1. ASSUME NEW row \in rows PROVE GetOf(rows)[row.rank] = row.code
    <3>1. (CHOOSE r \in rows : r.rank = row.rank) = row
      BY <1>3
    <3> QED BY <1>9, <3>1 DEF GetOf, m
  <2> QED BY <2>1 DEF GetOf, m
<1>14. ASSUME NEW k \in 1..m, NEW c \in NamedIn(items),
              FirstOf(items, c) < FirstOf(items, GetOf(rows)[k])
       PROVE  \E j \in 1..(k - 1) : GetOf(rows)[j] = c
  <2>1. PICK row \in rows : row.rank = k
    BY <1>3
  <2>2. FirstOf(items, GetOf(rows)[k]) = row.reason /\ row.reason \in K
    BY <1>9, <1>12, <1>13, <2>1
  <2>3. PICK j \in K : j = FirstOf(items, c) /\ items[j].code = c
    BY <1>5
  <2>4. Place(K, j) < Place(K, row.reason)
    BY <1>6, <1>14, <2>2, <2>3
  <2>5. Place(K, j) \in 1..(k - 1)
    BY <1>3, <1>7, <1>9, <2>1, <2>4
  <2>6. Place(K, j) \in 1..size
    BY <1>2, <1>10, <2>5
  <2>7. RowOf(items, j) \in rows
    BY <1>4, <2>6
  <2>8. GetOf(rows)[Place(K, j)] = c
    BY <1>8, <1>13, <2>3, <2>7
  <2> QED BY <2>5, <2>8
<1>15. ASSUME m < size PROVE NamedIn(items) = codes
  <2>1. m = n
    BY <1>2, <1>3, <1>15
  <2>2. ASSUME NEW c \in NamedIn(items) PROVE c \in codes
    <3>1. PICK k \in K : items[k].code = c
      BY <1>5
    <3>2. Place(K, k) \in 1..size
      BY <1>2, <1>3, <1>7, <1>15, <2>1
    <3> QED BY <1>4, <1>8, <3>1, <3>2
  <2>3. \A c \in codes : c \in NamedIn(items)
    BY <1>12
  <2> QED BY <2>2, <2>3
<1> QED BY <1>3, <1>10, <1>11, <1>12, <1>13, <1>14, <1>15
        DEF IsWholeRanking, items, size, m

\* A user is shown one whole ranking: the ranks from 1 on without a gap, every code
\* once and where the answer names it first, none left out before another, and no more
\* than was asked for -- for any answers of the AI server, any sizes and any number of
\* requests that race for the row (cert/recommendation.service.ts:87, :112).
THEOREM RankingAlwaysWhole == CertificatesSpec => []RankingWhole
<1>1. ASSUME OneRanking PROVE RankingWhole
  <2>1. CASE stored = Null
    BY <2>1 DEF RankingWhole
  <2>2. CASE stored # Null
    <3>1. IsWholeRanking(stored.items, stored.generated)
      BY <1>1, <2>2, MadeRankingIsWhole DEF OneRanking
    <3> QED BY <3>1 DEF RankingWhole, IsWholeRanking, Get, GetOf, FitIn, NamedIn, FirstOf
  <2> QED BY <2>1, <2>2
<1> QED BY <1>1, AlwaysOneRanking, PTL

-----------------------------------------------------------------------------
(* Lookups: the rows of a query and the page that is shown of them.        *)

\* The rows of a query, in whatever order, are its certificates, each once.
LEMMA RowsOnce ==
  ASSUME NEW S, IsFiniteSet(S), NEW rows \in SetToSeqs(S)
  PROVE  LET n == Cardinality(S)
         IN /\ n \in Nat /\ Len(rows) = n /\ DOMAIN rows = 1..n
            /\ rows \in [1..n -> S]
            /\ \A i, j \in 1..n : rows[i] = rows[j] => i = j
            /\ \A c \in S : \E i \in 1..n : rows[i] = c
<1> DEFINE n == Cardinality(S)
<1>1. n \in Nat
  BY FS_CardinalityType
<1>2. rows \in [1..n -> S] /\ \A i, j \in 1..n : i # j => rows[i] # rows[j]
  BY DEF SetToSeqs
<1>3. Len(rows) = n
  BY <1>1, <1>2
<1>4. IsFiniteSet(1..n) /\ Cardinality(1..n) = n
  BY <1>1, FS_Interval
<1>5. rows \in Injection(1..n, S)
  BY <1>2 DEF Injection, IsInjective
<1>6. rows \in Surjection(1..n, S)
  BY <1>4, <1>5, FS_Injection
<1>7. \A c \in S : \E i \in 1..n : rows[i] = c
  BY <1>6 DEF Surjection
<1> HIDE DEF n
<1> QED BY <1>1, <1>2, <1>3, <1>7 DEF n

Least(a, b) == IF a < b THEN a ELSE b

\* s shows m of the rows, those after the one at from.
Rows(rows, n) == rows \in [1..n -> Cert]
Shows(s, rows, from, m) == s = [i \in 1..m |-> rows[from + i]]

LEMMA LimitShows ==
  ASSUME NEW n \in Nat, NEW rows, Rows(rows, n), NEW from \in 0..n, NEW size \in Nat
  PROVE  /\ Least(size, n - from) \in Nat
         /\ Shows(Limit(rows, from, size), rows, from, Least(size, n - from))
<1> DEFINE m == Least(size, n - from)
<1>1. m \in Nat /\ from + m = IF from + size < n THEN from + size ELSE n
  BY DEF Least
<1> HIDE DEF m
<1>2. Len(rows) = n
  BY DEF Rows
<1>3. Limit(rows, from, size) = SubSeq(rows, from + 1, from + m)
  BY <1>1, <1>2 DEF Limit
<1>4. SubSeq(rows, from + 1, from + m) = [i \in 1..m |-> rows[from + i]]
  BY <1>1
<1> QED BY <1>1, <1>3, <1>4 DEF m, Shows

\* The next page goes on where the one before has ended.
LEMMA PagesJoin ==
  ASSUME NEW n \in Nat, NEW rows, Rows(rows, n),
         NEW from \in Nat, NEW m \in Nat, from + m <= n,
         NEW a, Shows(a, rows, 0, from), NEW b, Shows(b, rows, from, m)
  PROVE  Shows(a \o b, rows, 0, from + m)
<1>1. /\ a \in [1..from -> Cert] /\ \A i \in 1..from : a[i] = rows[i]
  <2>1. a = [i \in 1..from |-> rows[0 + i]]
    BY DEF Shows
  <2>2. \A i \in 1..from : 0 + i = i /\ i \in 1..n
    OBVIOUS
  <2> QED BY <2>1, <2>2 DEF Rows
<1>2. /\ b \in [1..m -> Cert] /\ \A i \in 1..m : b[i] = rows[from + i]
  <2>1. \A i \in 1..m : from + i \in 1..n
    OBVIOUS
  <2> QED BY <2>1 DEF Rows, Shows
<1> DEFINE ab == a \o b
<1>3. /\ a \in Seq(Cert) /\ Len(a) = from
      /\ b \in Seq(Cert) /\ Len(b) = m
  BY <1>1, <1>2
<1>4. ab \in Seq(Cert) /\ Len(ab) = from + m
  BY <1>3
<1>5. \A i \in 1..(from + m) : ab[i] = IF i <= from THEN a[i] ELSE b[i - from]
  BY <1>3
<1> HIDE DEF ab
<1>6. ASSUME NEW i \in 1..(from + m) PROVE ab[i] = rows[0 + i]
  <2>1. 0 + i = i
    OBVIOUS
  <2>2. CASE i <= from
    BY <1>1, <1>5, <2>1, <2>2
  <2>3. CASE ~(i <= from)
    <3>1. i - from \in 1..m /\ from + (i - from) = i
      BY <2>3
    <3> QED BY <1>2, <1>5, <2>1, <2>3, <3>1
  <2> QED BY <2>2, <2>3
<1>7. ab \in [1..(from + m) -> Cert]
  BY <1>4
<1> QED BY <1>6, <1>7 DEF ab, Shows

-----------------------------------------------------------------------------
(* ORDER BY.                                                               *)

LEMMA PrecedesOne ==
  ASSUME NEW a \in Int, NEW b \in Int
  PROVE  Precedes(<<a>>, <<b>>) <=> a < b
<1> DEFINE s == <<a>>
           t == <<b>>
           At(i) == s[i] < t[i] /\ \A j \in 1..(i - 1) : s[j] = t[j]
<1>1. Precedes(s, t) <=> At(1)
  <2>1. DOMAIN s = {1}
    OBVIOUS
  <2> QED BY <2>1 DEF Precedes
<1>2. At(1) <=> a < b
  OBVIOUS
<1> QED BY <1>1, <1>2

LEMMA PrecedesTwo ==
  ASSUME NEW a1 \in Int, NEW a2 \in Int, NEW b1 \in Int, NEW b2 \in Int
  PROVE  Precedes(<<a1, a2>>, <<b1, b2>>) <=> a1 < b1 \/ (a1 = b1 /\ a2 < b2)
<1> DEFINE s == <<a1, a2>>
           t == <<b1, b2>>
           At(i) == s[i] < t[i] /\ \A j \in 1..(i - 1) : s[j] = t[j]
<1>1. Precedes(s, t) <=> At(1) \/ At(2)
  <2>1. DOMAIN s = {1, 2}
    OBVIOUS
  <2> QED BY <2>1 DEF Precedes
<1>2. At(1) <=> a1 < b1
  OBVIOUS
<1>3. At(2) <=> a1 = b1 /\ a2 < b2
  <2>1. 1..(2 - 1) = {1}
    OBVIOUS
  <2> QED BY <2>1
<1> QED BY <1>1, <1>2, <1>3

LEMMA PrecedesThree ==
  ASSUME NEW a1 \in Int, NEW a2 \in Int, NEW a3 \in Int,
         NEW b1 \in Int, NEW b2 \in Int, NEW b3 \in Int
  PROVE  Precedes(<<a1, a2, a3>>, <<b1, b2, b3>>) <=>
           \/ a1 < b1
           \/ a1 = b1 /\ a2 < b2
           \/ a1 = b1 /\ a2 = b2 /\ a3 < b3
<1> DEFINE s == <<a1, a2, a3>>
           t == <<b1, b2, b3>>
           At(i) == s[i] < t[i] /\ \A j \in 1..(i - 1) : s[j] = t[j]
<1>1. Precedes(s, t) <=> At(1) \/ At(2) \/ At(3)
  <2>1. DOMAIN s = {1, 2, 3}
    OBVIOUS
  <2> QED BY <2>1 DEF Precedes
<1>2. At(1) <=> a1 < b1
  OBVIOUS
<1>3. At(2) <=> a1 = b1 /\ a2 < b2
  <2>1. 1..(2 - 1) = {1}
    OBVIOUS
  <2> QED BY <2>1
<1>4. At(3) <=> a1 = b1 /\ a2 = b2 /\ a3 < b3
  <2>1. 1..(3 - 1) = {1, 2}
    OBVIOUS
  <2> QED BY <2>1
<1> QED BY <1>1, <1>2, <1>3, <1>4

\* Of two certificates one comes first, in every sort.
LEMMA SortDecides ==
  ASSUME NEW sort, NEW c \in Cert, NEW d \in Cert, c # d
  PROVE  Precedes(SortKey(sort, c), SortKey(sort, d)) <=>
           ~Precedes(SortKey(sort, d), SortKey(sort, c))
<1>1. /\ c \in Int /\ d \in Int /\ NameOrder[c] \in Int /\ NameOrder[d] \in Int
  BY CatalogueAssumption, CertSearchAssumption
<1>2. \A n \in Int : Signed(sort, n) \in Int
  BY DEF Signed
<1>3. \A m, n \in Int : m # n => Signed(sort, m) # Signed(sort, n)
  BY DEF Signed
<1>4. CASE sort = << >> \/ sort[1] = "jmCd"
  <2>1. SortKey(sort, c) = <<Signed(sort, c)>> /\ SortKey(sort, d) = <<Signed(sort, d)>>
    BY <1>4 DEF SortKey
  <2>2. Signed(sort, c) \in Int /\ Signed(sort, d) \in Int
    BY <1>1, <1>2
  <2>3. Signed(sort, c) # Signed(sort, d)
    BY <1>1, <1>3
  <2> QED BY <2>1, <2>2, <2>3, PrecedesOne
<1>5. CASE ~(sort = << >> \/ sort[1] = "jmCd")
  <2>1. /\ SortKey(sort, c) = <<Signed(sort, NameOrder[c]), c>>
        /\ SortKey(sort, d) = <<Signed(sort, NameOrder[d]), d>>
    BY <1>5 DEF SortKey
  <2>2. Signed(sort, NameOrder[c]) \in Int /\ Signed(sort, NameOrder[d]) \in Int
    BY <1>1, <1>2
  <2> QED BY <1>1, <2>1, <2>2, PrecedesTwo
<1> QED BY <1>4, <1>5

\* The rows of a query of the search.
Listed(keywords, sort, rows) ==
  rows \in Ordered(Matches(keywords), LAMBDA c : SortKey(sort, c))

\* They are the same every time.
LEMMA OneOrder ==
  ASSUME NEW keywords, NEW sort, NEW rows, Listed(keywords, sort, rows),
         NEW again, Listed(keywords, sort, again)
  PROVE  rows = again
<1> DEFINE S == Matches(keywords)
           n == Cardinality(S)
           Lt(c, d) == Precedes(SortKey(sort, c), SortKey(sort, d))
           T == {i \in 1..n : rows[i] # again[i]}
<1>1. S \in SUBSET Cert /\ IsFiniteSet(S)
  BY CertSearchAssumption, FS_Subset DEF Matches
<1>2. /\ rows \in SetToSeqs(S)
      /\ \A j \in DOMAIN rows : \A i \in 1..(j - 1) : ~Lt(rows[j], rows[i])
  BY DEF Listed, Ordered
<1>3. /\ again \in SetToSeqs(S)
      /\ \A j \in DOMAIN again : \A i \in 1..(j - 1) : ~Lt(again[j], again[i])
  BY DEF Listed, Ordered
<1> HIDE DEF S
<1>4. \A c, d \in S : c # d => (Lt(c, d) <=> ~Lt(d, c))
  BY <1>1, SortDecides
<1> HIDE DEF Lt
<1>5. /\ n \in Nat /\ DOMAIN rows = 1..n /\ DOMAIN again = 1..n
      /\ rows \in [1..n -> S] /\ again \in [1..n -> S]
      /\ \A i, j \in 1..n : rows[i] = rows[j] => i = j
      /\ \A i, j \in 1..n : again[i] = again[j] => i = j
      /\ \A c \in S : \E i \in 1..n : rows[i] = c
      /\ \A c \in S : \E i \in 1..n : again[i] = c
  <2>1. /\ n \in Nat /\ DOMAIN rows = 1..n /\ rows \in [1..n -> S]
        /\ \A i, j \in 1..n : rows[i] = rows[j] => i = j
        /\ \A c \in S : \E i \in 1..n : rows[i] = c
    BY <1>1, <1>2, RowsOnce
  <2>2. /\ DOMAIN again = 1..n /\ again \in [1..n -> S]
        /\ \A i, j \in 1..n : again[i] = again[j] => i = j
        /\ \A c \in S : \E i \in 1..n : again[i] = c
    BY <1>1, <1>3, RowsOnce
  <2> QED BY <2>1, <2>2
<1> HIDE DEF n
<1>6. ASSUME T # {} PROVE FALSE
  <2>1. T \in SUBSET Nat
    BY <1>5
  <2>2. PICK i \in T : \A j \in T : i <= j
    <3> HIDE DEF T
    <3> QED BY <1>6, <2>1, LeastNatural
  <2>3. i \in 1..n /\ rows[i] # again[i] /\ \A j \in 1..(i - 1) : rows[j] = again[j]
    BY <1>5, <2>2
  <2>4. PICK j \in 1..n : again[j] = rows[i]
    BY <1>5, <2>3
  <2>5. PICK k \in 1..n : rows[k] = again[i]
    BY <1>5, <2>3
  <2>6. i \in 1..(j - 1) /\ i \in 1..(k - 1)
    <3>1. j # i /\ k # i
      BY <2>3, <2>4, <2>5
    <3>2. j \notin 1..(i - 1)
      BY <1>5, <2>3, <2>4
    <3>3. k \notin 1..(i - 1)
      BY <1>5, <2>3, <2>5
    <3>4. \A m \in 1..n : m \in Nat /\ m >= 1
      <4>1. n \in Nat
        BY <1>5
      <4> QED BY <4>1
    <3>5. i \in 1..n
      BY <2>3
    <3> QED BY <3>1, <3>2, <3>3, <3>4, <3>5
  <2>7. ~Lt(rows[i], again[i]) /\ ~Lt(again[i], rows[i])
    BY <1>2, <1>3, <1>5, <2>4, <2>5, <2>6
  <2> QED BY <1>4, <1>5, <2>3, <2>7
<1>7. \A i \in 1..n : rows[i] = again[i]
  BY <1>6
<1> QED BY <1>5, <1>7

-----------------------------------------------------------------------------
(* The pages of a search.                                                  *)

LEMMA Multiples ==
  ASSUME NEW a \in Nat, NEW b \in Nat, NEW c \in Nat, a <= b
  PROVE  a * c \in Nat /\ b * c \in Nat /\ a * c <= b * c /\ (a + 1) * c = a * c + c
OBVIOUS

\* There is another page as long as there are rows after those shown.
LEMMA AnotherPage ==
  ASSUME NEW n \in Nat, NEW size \in Nat \ {0}, NEW p \in Nat
  PROVE  p * size \in Nat /\ (p < TotalPages(n, size) <=> p * size < n)
<1> DEFINE q == (n + size - 1) \div size
<1>1. q \in Nat /\ q * size <= n + size - 1 /\ n + size - 1 < q * size + size
  OBVIOUS
<1> HIDE DEF q
<1>2. p * size \in Nat /\ q * size \in Nat /\ (p + 1) * size = p * size + size
  BY <1>1, Multiples
<1>3. ASSUME p < q PROVE p * size < n
  <2>1. (p + 1) * size <= q * size
    BY <1>1, <1>3, Multiples
  <2> QED BY <1>1, <1>2, <2>1
<1>4. ASSUME q <= p PROVE ~(p * size < n)
  <2>1. q * size <= p * size
    BY <1>1, <1>4, Multiples
  <2> QED BY <1>1, <1>2, <2>1
<1>5. p < q <=> p * size < n
  BY <1>1, <1>3, <1>4
<1> QED BY <1>2, <1>5 DEF q, TotalPages
\* The pages shown so far are the first rows of one listing.
SearchSound(a) ==
  LET n == Cardinality(Matches(a.keywords))
  IN /\ a = [kind |-> "search", keywords |-> a.keywords, sort |-> a.sort, size |-> a.size,
             page |-> a.page, pages |-> a.pages, shown |-> a.shown]
     /\ a.size \in Nat \ {0} /\ a.page \in Nat
     /\ a.pages = TotalPages(n, a.size)
     /\ \E rows : /\ Listed(a.keywords, a.sort, rows)
                  /\ Shows(a.shown, rows, 0, Least((a.page + 1) * a.size, n))

SearchInv == found.kind = "search" => SearchSound(found)

LEMMA ListedRows ==
  ASSUME NEW keywords, NEW sort, NEW rows, Listed(keywords, sort, rows)
  PROVE  LET n == Cardinality(Matches(keywords))
         IN /\ n \in Nat /\ Len(rows) = n /\ Rows(rows, n)
            /\ \A i, j \in 1..n : rows[i] = rows[j] => i = j
            /\ \A c : c \in Matches(keywords) <=> \E i \in 1..n : rows[i] = c
<1> DEFINE S == Matches(keywords)
           n == Cardinality(S)
<1>1. S \in SUBSET Cert /\ IsFiniteSet(S)
  BY CertSearchAssumption, FS_Subset DEF Matches
<1>2. rows \in SetToSeqs(S)
  BY DEF Listed, Ordered
<1> HIDE DEF S
<1>3. /\ n \in Nat /\ Len(rows) = n /\ DOMAIN rows = 1..n
      /\ rows \in [1..n -> S]
      /\ \A i, j \in 1..n : rows[i] = rows[j] => i = j
      /\ \A c \in S : \E i \in 1..n : rows[i] = c
  BY <1>1, <1>2, RowsOnce
<1> HIDE DEF n
<1>4. rows \in [1..n -> Cert] /\ \A i \in 1..n : rows[i] \in S
  BY <1>1, <1>3
<1> QED BY <1>3, <1>4 DEF n, S, Rows

LEMMA FirstPageIsSound ==
  ASSUME NEW keywords, NEW sort, NEW size \in PageSize, FirstPage(keywords, sort, size)
  PROVE  SearchSound(found')
<1> DEFINE n == Cardinality(Matches(keywords))
<1>1. PICK rows :
        /\ Listed(keywords, sort, rows)
        /\ found' = [kind |-> "search", keywords |-> keywords, sort |-> sort, size |-> size,
                     page |-> 0, pages |-> TotalPages(Len(rows), size),
                     shown |-> Limit(rows, 0, size)]
  BY DEF FirstPage, Listed
<1>2. n \in Nat /\ Len(rows) = n /\ Rows(rows, n)
  BY <1>1, ListedRows
<1>3. size \in Nat \ {0}
  BY CertSearchAssumption
<1> HIDE DEF n
<1>4. Shows(Limit(rows, 0, size), rows, 0, Least(size, n))
  <2>1. 0 \in 0..n /\ n - 0 = n /\ size \in Nat
    BY <1>2, <1>3
  <2> QED BY <1>2, <2>1, LimitShows
<1>5. (0 + 1) * size = size
  BY <1>3
<1> QED BY <1>1, <1>2, <1>3, <1>4, <1>5 DEF SearchSound, n

LEMMA NextPageIsSound ==
  ASSUME SearchInv, NextPage
  PROVE  SearchSound(found')
<1> DEFINE n == Cardinality(Matches(found.keywords))
           size == found.size
           page == found.page
           from == (page + 1) * size
<1>1. PICK again :
        /\ Listed(found.keywords, found.sort, again)
        /\ found' = [found EXCEPT !.page = page + 1,
                                  !.shown = found.shown \o Limit(again, from, size)]
  BY DEF NextPage, Listed
<1>2. SearchSound(found) /\ page + 1 < found.pages
  BY DEF SearchInv, NextPage
<1>3. PICK rows : /\ Listed(found.keywords, found.sort, rows)
                  /\ Shows(found.shown, rows, 0, Least(from, n))
  BY <1>2 DEF SearchSound
<1>4. again = rows
  BY <1>1, <1>3, OneOrder
<1>5. n \in Nat /\ Rows(rows, n)
  BY <1>3, ListedRows
<1>6. size \in Nat \ {0} /\ page \in Nat /\ found.pages = TotalPages(n, size)
  BY <1>2 DEF SearchSound
<1>7. found' = [kind |-> "search", keywords |-> found.keywords, sort |-> found.sort,
                size |-> size, page |-> page + 1, pages |-> found.pages,
                shown |-> found.shown \o Limit(rows, from, size)]
  <2> DEFINE shown == found.shown \o Limit(rows, from, size)
             next == page + 1
  <2>1. found' = [found EXCEPT !.page = next, !.shown = shown]
    BY <1>1, <1>4
  <2>2. found = [kind |-> "search", keywords |-> found.keywords, sort |-> found.sort,
                 size |-> found.size, page |-> found.page, pages |-> found.pages,
                 shown |-> found.shown]
    BY <1>2 DEF SearchSound
  <2> HIDE DEF shown, next
  <2>3. found' = [kind |-> "search", keywords |-> found.keywords, sort |-> found.sort,
                  size |-> found.size, page |-> next, pages |-> found.pages,
                  shown |-> shown]
    <3> DEFINE With(p, s) ==
          [kind |-> "search", keywords |-> found.keywords, sort |-> found.sort,
           size |-> found.size, page |-> p, pages |-> found.pages, shown |-> s]
    <3>1. [found EXCEPT !.page = next] = With(next, found.shown)
      BY <2>2
    <3>2. [With(next, found.shown) EXCEPT !.shown = shown] = With(next, shown)
      OBVIOUS
    <3>3. [found EXCEPT !.page = next, !.shown = shown]
            = [[found EXCEPT !.page = next] EXCEPT !.shown = shown]
      OBVIOUS
    <3> HIDE DEF With
    <3>4. found' = With(next, shown)
      BY <2>1, <3>1, <3>2, <3>3
    <3> QED BY <3>4 DEF With
  <2> QED BY <2>3 DEF shown, next
<1> HIDE DEF n, size, page
<1>8. page + 1 \in Nat /\ from \in Nat /\ from < n /\ (page + 1 + 1) * size = from + size
  BY <1>2, <1>5, <1>6, AnotherPage, Multiples
<1> HIDE DEF from
<1>9. Shows(found.shown \o Limit(rows, from, size), rows, 0, Least(from + size, n))
  <2> DEFINE m == Least(size, n - from)
  <2>1. from \in 0..n /\ size \in Nat
    BY <1>5, <1>6, <1>8
  <2>2. m \in Nat /\ Shows(Limit(rows, from, size), rows, from, m)
    BY <1>5, <2>1, LimitShows
  <2>3. /\ Least(from, n) = from /\ from + m <= n
        /\ Least(from + size, n) = from + m
    BY <1>5, <1>6, <1>8 DEF Least
  <2> HIDE DEF m
  <2> QED BY <1>3, <1>5, <1>8, <2>2, <2>3, PagesJoin
<1> QED BY <1>1, <1>3, <1>4, <1>6, <1>7, <1>8, <1>9 DEF SearchSound, n, size, page

LEMMA SearchStep == SearchInv /\ [CertificatesNext]_certificatesVars => SearchInv'
<1> SUFFICES ASSUME SearchInv, [CertificatesNext]_certificatesVars PROVE SearchInv'
  OBVIOUS
<1>1. CASE found' = NoAnswer
  BY <1>1 DEF SearchInv, NoAnswer
<1>2. CASE found' = found
  BY <1>2 DEF SearchInv
<1>3. CASE SearchNext
  <2>1. ASSUME NEW keywords, NEW sort, NEW size \in PageSize, FirstPage(keywords, sort, size)
        PROVE  SearchInv'
    BY <2>1, FirstPageIsSound DEF SearchInv
  <2>2. CASE NextPage
    BY <2>2, NextPageIsSound DEF SearchInv
  <2>3. ASSUME NEW keywords, NEW size, SearchByKeywords(keywords, size)
        PROVE  SearchInv'
    <3>1. PICK rows : found' = Answer("keywords", keywords, rows, size)
      BY <2>3 DEF SearchByKeywords
    <3> QED BY <3>1 DEF SearchInv, Answer
  <2>4. ASSUME NEW k, NEW size, Resolve(k, size)
        PROVE  SearchInv'
    <3>1. PICK rows : found' = Answer("resolve", {k}, rows, size)
      BY <2>4 DEF Resolve
    <3> QED BY <3>1 DEF SearchInv, Answer
  <2>5. CASE GetRecommendable
    BY <2>5 DEF SearchInv, GetRecommendable, Answer
  <2> QED BY <1>3, <2>1, <2>2, <2>3, <2>4, <2>5 DEF SearchNext
<1> QED BY <1>1, <1>2, <1>3 DEF CertificatesNext, certificatesVars

LEMMA SoundIsWhole ==
  ASSUME SearchInv
  PROVE  SearchPagesCover
<1> SUFFICES ASSUME found.kind = "search"
             PROVE  /\ Cardinality(ToSet(found.shown)) = Len(found.shown)
                    /\ found.page + 1 >= found.pages =>
                         ToSet(found.shown) = Matches(found.keywords)
  BY DEF SearchPagesCover
<1> DEFINE n == Cardinality(Matches(found.keywords))
           size == found.size
           page == found.page
           from == (page + 1) * size
           m == Least(from, n)
           shown == found.shown
<1>1. PICK rows : /\ Listed(found.keywords, found.sort, rows)
                  /\ Shows(shown, rows, 0, m)
  BY DEF SearchInv, SearchSound
<1>2. size \in Nat \ {0} /\ page \in Nat /\ found.pages = TotalPages(n, size)
  BY DEF SearchInv, SearchSound
<1>3. /\ n \in Nat /\ Rows(rows, n)
      /\ \A i, j \in 1..n : rows[i] = rows[j] => i = j
      /\ \A c : c \in Matches(found.keywords) <=> \E i \in 1..n : rows[i] = c
  BY <1>1, ListedRows
<1> HIDE DEF n, size, page
<1>4. page + 1 \in Nat /\ from \in Nat /\ (page + 1 < found.pages <=> from < n)
  BY <1>2, <1>3, AnotherPage
<1>5. m \in 0..n /\ (~(from < n) => m = n)
  BY <1>3, <1>4 DEF Least
<1> HIDE DEF from, m
<1>6. shown \in [1..m -> Cert] /\ \A i \in 1..m : shown[i] = rows[i]
  <2>1. shown = [i \in 1..m |-> rows[0 + i]]
    BY <1>1 DEF Shows
  <2>2. \A i \in 1..m : 0 + i = i /\ i \in 1..n
    BY <1>3, <1>5
  <2>3. \A i \in 1..n : rows[i] \in Cert
    BY <1>3 DEF Rows
  <2> HIDE DEF shown
  <2> QED BY <2>1, <2>2, <2>3
<1> HIDE DEF shown
<1>7. m \in Nat /\ Len(shown) = m /\ DOMAIN shown = 1..m
  BY <1>3, <1>5, <1>6
<1>8. Cardinality(ToSet(shown)) = m
  <2>1. IsFiniteSet(1..m) /\ Cardinality(1..m) = m
    BY <1>7, FS_Interval
  <2>2. \A i, j \in 1..m : shown[i] = shown[j] => i = j
    BY <1>3, <1>5, <1>6
  <2>3. ToSet(shown) = {shown[i] : i \in 1..m}
    BY <1>7 DEF ToSet
  <2>4. shown \in Bijection(1..m, ToSet(shown))
    <3>1. shown \in [1..m -> ToSet(shown)]
      BY <1>6, <2>3
    <3> QED BY <2>2, <2>3, <3>1 DEF Bijection, Injection, Surjection, IsInjective
  <2> DEFINE T == ToSet(shown)
  <2>5. ExistsBijection(1..m, T)
    BY <2>4 DEF ExistsBijection
  <2> HIDE DEF T
  <2>6. Cardinality(T) = m
    BY <2>1, <2>5, FS_Bijection
  <2> QED BY <2>6 DEF T
<1>9. ASSUME page + 1 >= found.pages PROVE ToSet(shown) = Matches(found.keywords)
  <2>1. m = n
    <3>1. found.pages \in Int
      BY <1>2, <1>3 DEF TotalPages
    <3> QED BY <1>4, <1>5, <1>9, <3>1
  <2> QED BY <1>3, <1>6, <1>7, <2>1 DEF ToSet
<1> QED BY <1>7, <1>8, <1>9 DEF shown, page

\* A client that goes from page to page is shown every match once: the order of the
\* rows is one, although names may be equal and each page is a query of its own, and
\* the pages meet -- for any catalogue, keyword, sort and size of the page, the last
\* page not full included (cert.service.ts:279, :300).
THEOREM SearchPagesAreWhole == CertificatesSpec => []SearchPagesCover
<1>1. CertificatesInit => SearchInv
  BY DEF CertificatesInit, SearchInit, SearchInv, NoAnswer
<1> QED BY <1>1, SearchStep, SoundIsWhole, PTL DEF CertificatesSpec
-----------------------------------------------------------------------------
(* Lookups of the AI server.                                               *)

Weight(hit) == KEYWORD_WEIGHTS[hit[2]]

\* f adds weights up as MapThenSumSet does, an element at a time.
Adds(S, f) ==
  f = [s \in SUBSET S |->
         IF s = {} THEN 0
         ELSE LET x == CHOOSE x \in s : TRUE IN Weight(x) + f[s \ {x}]]

Bit(k, s, col) == IF <<k, col>> \in s THEN 1 ELSE 0

\* What the columns in s weigh.
Worth(k, s) ==
  100 * Bit(k, s, "jm_nm") + 50 * Bit(k, s, "mdoblig_fld_nm") + 30 * Bit(k, s, "hist")
    + 10 * Bit(k, s, "job") + 3 * Bit(k, s, "summary") + Bit(k, s, "career")

LEMMA WorthLess ==
  ASSUME NEW k, NEW s \in SUBSET ({k} \X Column), NEW x \in s
  PROVE  Worth(k, s) \in Nat /\ Worth(k, s) = Weight(x) + Worth(k, s \ {x})
<1>1. PICK col \in Column : x = <<k, col>>
  OBVIOUS
<1>2. Weight(x) = KEYWORD_WEIGHTS[col]
  BY <1>1 DEF Weight
<1>3. \A other \in Column :
        /\ Bit(k, s, other) \in {0, 1}
        /\ Bit(k, s \ {x}, other) = IF other = col THEN 0 ELSE Bit(k, s, other)
  BY <1>1 DEF Bit
<1>4. Bit(k, s, col) = 1
  BY <1>1 DEF Bit
<1>5. KEYWORD_WEIGHTS[col] =
        CASE col = "jm_nm" -> 100
          [] col = "mdoblig_fld_nm" -> 50
          [] col = "hist" -> 30
          [] col = "job" -> 10
          [] col = "summary" -> 3
          [] OTHER -> 1
  BY DEF KEYWORD_WEIGHTS, Column
<1> QED BY <1>2, <1>3, <1>4, <1>5 DEF Worth, Column

\* Adding up has one result.
LEMMA AddsWorth ==
  ASSUME NEW k, NEW S \in SUBSET ({k} \X Column), NEW f, Adds(S, f)
  PROVE  \A s \in SUBSET S : f[s] = Worth(k, s)
<1> DEFINE T == {n \in Nat : \E s \in SUBSET S : Cardinality(s) = n /\ f[s] # Worth(k, s)}
<1>1. \A s \in SUBSET S : IsFiniteSet(s) /\ Cardinality(s) \in Nat
  <2>1. IsFiniteSet(1..6) /\ IsFiniteSet({k})
    <3>1. 1 \in Int /\ 6 \in Int
      OBVIOUS
    <3>2. IsFiniteSet(1..6)
      BY <3>1, FS_Interval
    <3>3. IsFiniteSet({k})
      BY FS_Singleton
    <3> QED BY <3>2, <3>3
  <2>2. Significance \in Surjection(1..6, Column)
    BY DEF Significance, Column, Surjection
  <2>3. IsFiniteSet(Column)
    BY <2>1, <2>2, FS_Surjection
  <2>4. IsFiniteSet({k} \X Column)
    BY <2>1, <2>3, FS_Product
  <2>5. SUBSET S \subseteq SUBSET ({k} \X Column)
    OBVIOUS
  <2> QED BY <2>4, <2>5, FS_Subset, FS_CardinalityType
<1>2. ASSUME T # {} PROVE FALSE
  <2>1. PICK n \in T : \A m \in T : n <= m
    <3>1. T \in SUBSET Nat
      OBVIOUS
    <3> HIDE DEF T
    <3> QED BY <1>2, <3>1, LeastNatural
  <2>2. PICK s \in SUBSET S : Cardinality(s) = n /\ f[s] # Worth(k, s)
    BY <2>1
  <2>3. CASE s = {}
    <3>1. f[s] = 0
      BY <2>3 DEF Adds
    <3>2. Worth(k, s) = 0
      BY <2>3 DEF Worth, Bit
    <3> QED BY <2>2, <3>1, <3>2
  <2>4. CASE s # {}
    <3> DEFINE x == CHOOSE x \in s : TRUE
               rest == s \ {x}
    <3>1. x \in s
      BY <2>4
    <3>2. f[s] = Weight(x) + f[rest]
      BY <2>4 DEF Adds
    <3>3. rest \in SUBSET S
      OBVIOUS
    <3> HIDE DEF x
    <3>4. Cardinality(rest) \in Nat /\ Cardinality(rest) = n - 1 /\ n \in Nat
      BY <1>1, <2>1, <2>2, <3>1, <3>3, FS_RemoveElement
    <3>5. f[rest] = Worth(k, rest)
      BY <2>1, <3>3, <3>4
    <3>6. Worth(k, s) = Weight(x) + Worth(k, rest)
      <4>1. s \in SUBSET ({k} \X Column)
        OBVIOUS
      <4> QED BY <3>1, <4>1, WorthLess
    <3> QED BY <2>2, <3>2, <3>5, <3>6
  <2> QED BY <2>3, <2>4
<1>3. ASSUME NEW s \in SUBSET S, f[s] # Worth(k, s) PROVE FALSE
  BY <1>1, <1>2, <1>3
<1> QED BY <1>3

\* What the hits of k in the texts of c weigh.
Told(k, c) == {hit \in {k} \X Column : hit[1] \in Text[c][hit[2]]}

LEMMA ScoreIsWorth ==
  ASSUME NEW k, NEW c
  PROVE  Score({k}, c) = Worth(k, Told(k, c))
<1> DEFINE S == Told(k, c)
           f == CHOOSE f : Adds(S, f)
<1>1. S \in SUBSET ({k} \X Column)
  BY DEF Told
<1>2. Adds(S, [s \in SUBSET S |-> Worth(k, s)])
  <2> DEFINE g == [s \in SUBSET S |-> Worth(k, s)]
             Sum(s) == IF s = {} THEN 0
                       ELSE LET x == CHOOSE x \in s : TRUE IN Weight(x) + g[s \ {x}]
  <2> HIDE DEF S
  <2>1. ASSUME NEW s \in SUBSET S PROVE Worth(k, s) = Sum(s)
    <3>1. CASE s = {}
      BY <3>1 DEF Worth, Bit
    <3>2. CASE s # {}
      <4> DEFINE x == CHOOSE x \in s : TRUE
      <4>1. x \in s /\ s \ {x} \in SUBSET S /\ s \in SUBSET ({k} \X Column)
        BY <1>1, <3>2
      <4>2. Sum(s) = Weight(x) + g[s \ {x}]
        BY <3>2
      <4> HIDE DEF x
      <4>3. g[s \ {x}] = Worth(k, s \ {x})
        BY <4>1
      <4> HIDE DEF Sum, g
      <4> QED BY <4>1, <4>2, <4>3, WorthLess
    <3> QED BY <3>1, <3>2
  <2> HIDE DEF Sum
  <2>2. g = [s \in SUBSET S |-> Sum(s)]
    BY <2>1
  <2> QED BY <2>2 DEF Adds, Sum
<1>3. Adds(S, f)
  BY <1>2
<1>4. Score({k}, c) = f[S]
  BY DEF Score, MapThenSumSet, MapThenFoldSet, Adds, Weight, Told
<1> HIDE DEF f
<1>5. f[S] = Worth(k, S)
  <2> HIDE DEF S
  <2> QED BY <1>1, <1>3, AddsWorth
<1> QED BY <1>4, <1>5
\* Whether the column of significance i tells of k.
Says(k, c, i) == IF k \in Text[c][Significance[i]] THEN 1 ELSE 0

LEMMA ScoreOfOne ==
  ASSUME NEW k, NEW c
  PROVE  Score({k}, c) = 100 * Says(k, c, 1) + 50 * Says(k, c, 2) + 30 * Says(k, c, 3)
                           + 10 * Says(k, c, 4) + 3 * Says(k, c, 5) + Says(k, c, 6)
<1>1. ASSUME NEW col \in Column
      PROVE  Bit(k, Told(k, c), col) = IF k \in Text[c][col] THEN 1 ELSE 0
  BY DEF Bit, Told
<1>2. /\ Significance[1] = "jm_nm" /\ Significance[2] = "mdoblig_fld_nm"
      /\ Significance[3] = "hist" /\ Significance[4] = "job"
      /\ Significance[5] = "summary" /\ Significance[6] = "career"
  BY DEF Significance
<1>3. /\ Bit(k, Told(k, c), "jm_nm") = Says(k, c, 1)
      /\ Bit(k, Told(k, c), "mdoblig_fld_nm") = Says(k, c, 2)
      /\ Bit(k, Told(k, c), "hist") = Says(k, c, 3)
      /\ Bit(k, Told(k, c), "job") = Says(k, c, 4)
      /\ Bit(k, Told(k, c), "summary") = Says(k, c, 5)
      /\ Bit(k, Told(k, c), "career") = Says(k, c, 6)
  BY <1>1, <1>2 DEF Says, Column
<1> QED BY <1>3, ScoreIsWorth DEF Worth

LEMMA LevelIs ==
  ASSUME NEW k, NEW c, NEW col \in Column, k \in Text[c][col]
  PROVE  /\ Level(k, c) \in 1..6
         /\ k \in Text[c][Significance[Level(k, c)]]
         /\ \A i \in 1..(Level(k, c) - 1) : k \notin Text[c][Significance[i]]
<1> DEFINE T == {n \in 1..6 : k \in Text[c][Significance[n]]}
           IsLevel(n) == /\ k \in Text[c][Significance[n]]
                         /\ \A i \in 1..(n - 1) : k \notin Text[c][Significance[i]]
<1>1. T # {} /\ T \in SUBSET Nat
  <2>1. \E n \in 1..6 : Significance[n] = col
    BY DEF Significance, Column
  <2> QED BY <2>1
<1>2. PICK n \in T : \A m \in T : n <= m
  <2> HIDE DEF T
  <2> QED BY <1>1, LeastNatural
<1>3. \E l \in 1..6 : IsLevel(l)
  BY <1>2
<1>4. DOMAIN Significance = 1..6
  BY DEF Significance
<1>5. Level(k, c) = CHOOSE l \in 1..6 : IsLevel(l)
  BY <1>4 DEF Level
<1> HIDE DEF IsLevel
<1>6. Level(k, c) \in 1..6 /\ IsLevel(Level(k, c))
  BY <1>3, <1>5
<1> QED BY <1>6 DEF IsLevel

\* What says it in a column that tells more scores more, whatever else the other says.
LEMMA LevelsDecide ==
  ASSUME NEW k, NEW c, NEW d,
         \E col \in Column : k \in Text[c][col], \E col \in Column : k \in Text[d][col],
         Level(k, c) < Level(k, d)
  PROVE  /\ Score({k}, c) \in Int /\ Score({k}, d) \in Int
         /\ Score({k}, d) < Score({k}, c)
<1> DEFINE l == Level(k, c)
           m == Level(k, d)
<1>1. l \in 1..6 /\ Says(k, c, l) = 1
  BY LevelIs DEF Says
<1>2. m \in 1..6 /\ \A i \in 1..(m - 1) : Says(k, d, i) = 0
  BY LevelIs DEF Says
<1>3. \A i \in 1..6 : Says(k, c, i) \in {0, 1} /\ Says(k, d, i) \in {0, 1}
  BY DEF Says
<1> HIDE DEF l, m
<1>4. \A i \in 1..l : Says(k, d, i) = 0
  BY <1>1, <1>2 DEF l, m
<1>5. l = 1 \/ l = 2 \/ l = 3 \/ l = 4 \/ l = 5 \/ l = 6
  BY <1>1
<1> QED BY <1>1, <1>3, <1>4, <1>5, ScoreOfOne
\* Where the rows shown are, and where those cut off.
LEMMA ShownFirst ==
  ASSUME NEW S \in SUBSET Cert, NEW rows \in SetToSeqs(S), NEW size \in Nat \ {0},
         NEW shown, shown = Limit(rows, 0, size)
  PROVE  /\ ToSet(shown) \subseteq S
         /\ shown = << >> => S = {}
         /\ \A n \in DOMAIN shown :
              /\ n \in Nat /\ n \in DOMAIN rows /\ shown[n] = rows[n] /\ shown[n] \in S
              /\ \A c \in S \ {shown[i] : i \in 1..n} :
                   \E j \in DOMAIN rows : n \in 1..(j - 1) /\ rows[j] = c
<1> DEFINE all == Cardinality(S)
           m == Least(size, all)
<1>1. /\ all \in Nat /\ DOMAIN rows = 1..all /\ rows \in [1..all -> S]
      /\ \A c \in S : \E i \in 1..all : rows[i] = c
  BY CertSearchAssumption, FS_Subset, RowsOnce
<1>2. Rows(rows, all)
  BY <1>1 DEF Rows
<1> HIDE DEF all
<1>3. m \in Nat /\ Shows(shown, rows, 0, m)
  <2>1. 0 \in 0..all /\ all - 0 = all /\ size \in Nat
    BY <1>1
  <2> QED BY <1>1, <1>2, <2>1, LimitShows
<1>4. m \in 0..all /\ (m = 0 => all = 0)
  BY <1>1 DEF Least
<1> HIDE DEF m
<1>5. shown \in [1..m -> S] /\ \A i \in 1..m : shown[i] = rows[i] /\ i \in 1..all
  <2>1. shown = [i \in 1..m |-> rows[0 + i]]
    BY <1>3 DEF Shows
  <2>2. \A i \in 1..m : 0 + i = i /\ i \in 1..all
    BY <1>1, <1>4
  <2>3. \A i \in 1..all : rows[i] \in S
    BY <1>1
  <2> QED BY <2>1, <2>2, <2>3
<1>6. ToSet(shown) \subseteq S
  BY <1>5 DEF ToSet
<1>7. ASSUME shown = << >> PROVE S = {}
  <2>1. m = 0
    BY <1>3, <1>5, <1>7
  <2> QED BY <1>1, <1>4, <2>1
<1>8. ASSUME NEW n \in DOMAIN shown, NEW c \in S \ {shown[i] : i \in 1..n}
      PROVE  \E j \in DOMAIN rows : n \in 1..(j - 1) /\ rows[j] = c
  <2>1. n \in 1..m
    BY <1>5
  <2>2. PICK j \in 1..all : rows[j] = c
    BY <1>1
  <2>3. j \notin 1..n
    <3>1. \A i \in 1..n : i \in 1..m
      BY <1>3, <2>1
    <3> QED BY <1>5, <1>8, <2>2, <3>1
  <2>4. n \in 1..(j - 1)
    BY <1>1, <1>3, <2>1, <2>2, <2>3
  <2> QED BY <1>1, <2>2, <2>4
<1>9. \A n \in DOMAIN shown : n \in Nat /\ n \in 1..all /\ shown[n] = rows[n] /\ shown[n] \in S
  <2>1. \A n \in 1..m : n \in Nat
    BY <1>3
  <2> QED BY <1>5, <2>1
<1> QED BY <1>1, <1>6, <1>7, <1>8, <1>9

\* The last lookup was answered with the rows of its query, cut at LIMIT.
KeywordsAnswered(a, keywords, rows, size) ==
  /\ rows \in Ordered(KeywordHits(keywords),
                      LAMBDA c : <<-Score(keywords, c), NameOrder[c], c>>)
  /\ a = Answer("keywords", keywords, rows, size)

Resolved(a, k, rows, size) ==
  /\ rows \in Ordered(Coded[k] \cup Matches({k}),
                      LAMBDA c : <<IF c \in Named[k] THEN 0 ELSE 1, NameOrder[c], c>>)
  /\ a = Answer("resolve", {k}, rows, size)

LookupInv ==
  /\ found.kind = "keywords" =>
       \E keywords \in (SUBSET Keyword) \ {{}}, size \in PageSize :
         \E rows : KeywordsAnswered(found, keywords, rows, size)
  /\ found.kind = "resolve" =>
       \E k \in Keyword, size \in PageSize : \E rows : Resolved(found, k, rows, size)

LEMMA LookupStep == LookupInv /\ [CertificatesNext]_certificatesVars => LookupInv'
<1> SUFFICES ASSUME LookupInv, [CertificatesNext]_certificatesVars PROVE LookupInv'
  OBVIOUS
<1>1. CASE found' = NoAnswer
  BY <1>1 DEF LookupInv, NoAnswer
<1>2. CASE found' = found
  BY <1>2 DEF LookupInv
<1>3. CASE SearchNext
  <2>1. ASSUME NEW keywords, NEW sort, NEW size, FirstPage(keywords, sort, size)
        PROVE  LookupInv'
    <3>1. found'.kind = "search"
      BY <2>1 DEF FirstPage
    <3> QED BY <3>1 DEF LookupInv
  <2>2. CASE NextPage
    <3>1. found.kind = "search"
      BY <2>2 DEF NextPage
    <3>2. PICK p, s : found' = [found EXCEPT !.page = p, !.shown = s]
      BY <2>2 DEF NextPage
    <3>3. found'.kind = "search"
      BY <3>1, <3>2
    <3> QED BY <3>3 DEF LookupInv
  <2>3. ASSUME NEW keywords \in (SUBSET Keyword) \ {{}}, NEW size \in PageSize,
               SearchByKeywords(keywords, size)
        PROVE  LookupInv'
    <3>1. PICK rows : KeywordsAnswered(found', keywords, rows, size)
      BY <2>3 DEF SearchByKeywords, KeywordsAnswered
    <3>2. found'.kind = "keywords"
      BY <3>1 DEF KeywordsAnswered, Answer
    <3> QED BY <3>1, <3>2 DEF LookupInv
  <2>4. ASSUME NEW k \in Keyword, NEW size \in PageSize, Resolve(k, size)
        PROVE  LookupInv'
    <3>1. PICK rows : Resolved(found', k, rows, size)
      BY <2>4 DEF Resolve, Resolved
    <3>2. found'.kind = "resolve"
      BY <3>1 DEF Resolved, Answer
    <3> QED BY <3>1, <3>2 DEF LookupInv
  <2>5. CASE GetRecommendable
    <3>1. PICK rows : found' = Answer("recommendable", {}, rows, Len(rows))
      BY <2>5 DEF GetRecommendable
    <3> QED BY <3>1 DEF LookupInv, Answer
  <2> QED BY <1>3, <2>1, <2>2, <2>3, <2>4, <2>5 DEF SearchNext
<1> QED BY <1>1, <1>2, <1>3 DEF CertificatesNext, certificatesVars

LEMMA KeywordsBest ==
  ASSUME NEW keywords \in (SUBSET Keyword) \ {{}}, NEW size \in PageSize, NEW rows,
         KeywordsAnswered(found, keywords, rows, size)
  PROVE  AllBeforeAny /\ ByColumn
<1> DEFINE S == KeywordHits(keywords)
           shown == found.shown
           Key(c) == <<-Score(keywords, c), NameOrder[c], c>>
<1>1. /\ found.kind = "keywords" /\ found.keywords = keywords
      /\ shown = Limit(rows, 0, size)
  BY DEF KeywordsAnswered, Answer
<1>2. /\ rows \in SetToSeqs(S)
      /\ \A j \in DOMAIN rows : \A i \in 1..(j - 1) : ~Precedes(Key(rows[j]), Key(rows[i]))
  BY DEF KeywordsAnswered, Ordered
<1>3. S \in SUBSET Cert /\ size \in Nat \ {0}
  BY CertSearchAssumption DEF KeywordHits, HitsOfAll, HitsOfAny, Hits
<1> HIDE DEF S, shown, Key
<1>4. /\ ToSet(shown) \subseteq S
      /\ shown = << >> => S = {}
      /\ \A n \in DOMAIN shown :
           /\ n \in Nat /\ n \in DOMAIN rows /\ shown[n] = rows[n] /\ shown[n] \in S
           /\ \A c \in S \ {shown[i] : i \in 1..n} :
                \E j \in DOMAIN rows : n \in 1..(j - 1) /\ rows[j] = c
  BY <1>1, <1>2, <1>3, ShownFirst
<1>5. \A k : HitsOfAll({k}) = Hits(k) /\ HitsOfAny({k}) = Hits(k) /\ Hits(k) \in SUBSET Cert
  BY CertSearchAssumption DEF HitsOfAll, HitsOfAny, Hits
<1>6. AllBeforeAny
  <2>1. ASSUME HitsOfAll(keywords) # {} PROVE ToSet(shown) \subseteq HitsOfAll(keywords)
    BY <1>4, <2>1 DEF S, KeywordHits
  <2>2. ASSUME shown = << >> PROVE HitsOfAny(keywords) = {}
    <3>1. S = {}
      BY <1>4, <2>2
    <3>2. CASE Cardinality(keywords) > 1
      BY <3>1, <3>2 DEF S, KeywordHits
    <3>3. CASE ~(Cardinality(keywords) > 1)
      <4>1. IsFiniteSet(keywords) /\ Cardinality(keywords) \in Nat
        BY CertSearchAssumption, FS_Subset, FS_CardinalityType
      <4>2. Cardinality(keywords) # 0
        BY <4>1, FS_EmptySet
      <4>3. Cardinality(keywords) = 1
        BY <3>3, <4>1, <4>2
      <4>4. PICK k : keywords = {k}
        BY <4>1, <4>3, FS_Singleton
      <4>5. HitsOfAll(keywords) = {}
        BY <3>1, <3>3 DEF S, KeywordHits
      <4> QED BY <1>5, <4>4, <4>5
    <3> QED BY <3>2, <3>3
  <2> QED BY <1>1, <2>1, <2>2 DEF AllBeforeAny, shown
<1>7. ByColumn
  <2>1. SUFFICES ASSUME NEW k, NEW n \in DOMAIN shown, keywords = {k}, NEW c \in Behind(n)
                 PROVE  Level(k, shown[n]) <= Level(k, c)
    BY <1>1 DEF ByColumn, shown
  <2>2. S = Hits(k) /\ Behind(n) = S \ {shown[i] : i \in 1..n}
    <3>1. IsFiniteSet({k}) /\ Cardinality({k}) = 1
      BY FS_Singleton
    <3>2. S = Hits(k)
      BY <1>5, <2>1, <3>1 DEF S, KeywordHits
    <3> QED BY <1>1, <1>5, <2>1, <3>2 DEF Behind, Candidates, shown
  <2> DEFINE d == shown[n]
  <2>3. d \in S /\ c \in S /\ ~Precedes(Key(c), Key(d))
    <3>1. PICK j \in DOMAIN rows : n \in 1..(j - 1) /\ rows[j] = c
      BY <1>4, <2>1, <2>2
    <3>2. rows[n] = d /\ d \in S
      BY <1>4
    <3> QED BY <1>2, <2>1, <2>2, <3>1, <3>2
  <2> HIDE DEF d
  <2>4. /\ \E col \in Column : k \in Text[c][col]
        /\ \E col \in Column : k \in Text[d][col]
    BY <2>2, <2>3 DEF Hits
  <2>5. Level(k, c) \in 1..6 /\ Level(k, d) \in 1..6
    BY <2>4, LevelIs
  <2>6. ASSUME Level(k, c) < Level(k, d) PROVE FALSE
    <3>1. /\ Score({k}, c) \in Int /\ Score({k}, d) \in Int
          /\ Score({k}, d) < Score({k}, c)
      BY <2>4, <2>6, LevelsDecide
    <3>2. /\ -Score({k}, c) \in Int /\ -Score({k}, d) \in Int
          /\ -Score({k}, c) < -Score({k}, d)
      BY <3>1
    <3>3. /\ NameOrder[c] \in Int /\ NameOrder[d] \in Int /\ c \in Int /\ d \in Int
      BY <1>3, <2>3, CatalogueAssumption, CertSearchAssumption
    <3>4. Precedes(<<-Score({k}, c), NameOrder[c], c>>, <<-Score({k}, d), NameOrder[d], d>>)
      BY <3>2, <3>3, PrecedesThree
    <3> QED BY <2>1, <2>3, <3>4 DEF Key
  <2> QED BY <2>5, <2>6 DEF d
<1> QED BY <1>6, <1>7

LEMMA ResolvedBest ==
  ASSUME NEW k \in Keyword, NEW size \in PageSize, NEW rows, Resolved(found, k, rows, size)
  PROVE  NamesakesFirst
<1> DEFINE S == Coded[k] \cup Matches({k})
           shown == found.shown
           Key(c) == <<IF c \in Named[k] THEN 0 ELSE 1, NameOrder[c], c>>
<1>1. /\ found.kind = "resolve" /\ found.keywords = {k}
      /\ shown = Limit(rows, 0, size)
  BY DEF Resolved, Answer
<1>2. /\ rows \in SetToSeqs(S)
      /\ \A j \in DOMAIN rows : \A i \in 1..(j - 1) : ~Precedes(Key(rows[j]), Key(rows[i]))
  BY DEF Resolved, Ordered
<1>3. S \in SUBSET Cert /\ size \in Nat \ {0}
  BY CertSearchAssumption DEF Matches
<1>4. Candidates = S
  BY <1>1 DEF Candidates
<1> HIDE DEF S, shown, Key
<1>5. \A n \in DOMAIN shown :
        /\ n \in Nat /\ n \in DOMAIN rows /\ shown[n] = rows[n] /\ shown[n] \in S
        /\ \A c \in S \ {shown[i] : i \in 1..n} :
             \E j \in DOMAIN rows : n \in 1..(j - 1) /\ rows[j] = c
  BY <1>1, <1>2, <1>3, ShownFirst
<1>6. ASSUME NEW n \in DOMAIN shown, NEW c \in Behind(n), c \in Named[k], shown[n] \notin Named[k]
      PROVE  FALSE
  <2> DEFINE d == shown[n]
  <2>1. c \in S \ {shown[i] : i \in 1..n}
    BY <1>4 DEF Behind, shown
  <2>2. d \in S /\ ~Precedes(Key(c), Key(d))
    <3>1. PICK j \in DOMAIN rows : n \in 1..(j - 1) /\ rows[j] = c
      BY <1>5, <2>1
    <3>2. rows[n] = d /\ d \in S
      BY <1>5
    <3>3. ~Precedes(Key(rows[j]), Key(rows[n]))
      BY <1>2, <3>1
    <3> QED BY <3>1, <3>2, <3>3
  <2>3. d \notin Named[k]
    BY <1>6
  <2> HIDE DEF d
  <2>4. /\ NameOrder[c] \in Int /\ NameOrder[d] \in Int /\ c \in Int /\ d \in Int
    BY <1>3, <2>1, <2>2, CatalogueAssumption, CertSearchAssumption
  <2>5. Key(c) = <<0, NameOrder[c], c>> /\ Key(d) = <<1, NameOrder[d], d>>
    BY <1>6, <2>3 DEF Key
  <2>6. 0 \in Int /\ 1 \in Int /\ 0 < 1
    OBVIOUS
  <2>7. Precedes(<<0, NameOrder[c], c>>, <<1, NameOrder[d], d>>)
    BY <2>4, <2>6, PrecedesThree
  <2> QED BY <2>2, <2>5, <2>7
<1> QED BY <1>1, <1>6 DEF NamesakesFirst, shown

\* The AI server is shown the best matches on this side of LIMIT: what has all of the
\* keywords, a hit in the name before any number of hits in texts that tell less, and
\* to resolve() the very name first -- for any catalogue, any texts and any size.  The
\* weights of the columns allow it, each being more than all after it together
\* (cert.service.ts:29, :152).
THEOREM LookupsAlwaysBest == CertificatesSpec => []LookupsBest
<1>1. CertificatesInit => LookupInv
  BY DEF CertificatesInit, SearchInit, LookupInv, NoAnswer
<1>2. ASSUME LookupInv PROVE LookupsBest
  BY <1>2, KeywordsBest, ResolvedBest DEF LookupInv, LookupsBest
<1> QED BY <1>1, <1>2, LookupStep, PTL DEF CertificatesSpec

=============================================================================
