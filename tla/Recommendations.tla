--------------------------- MODULE Recommendations ---------------------------
(***************************************************************************)
(* RecommendationService: the certificates the AI server ranks for a user, *)
(* made from the answers of Onboarding and stored in place of the ranking  *)
(* before.  The user has one row in recommendation, and its items carry    *)
(* the ranks 1, 2, ...; requests of the user race for the row, each in an  *)
(* interactive transaction whose queries interleave with those of others.  *)
(***************************************************************************)
EXTENDS Onboarding, Catalogue

CONSTANTS
  Asker,     \* create requests that may be in progress at a time
  Code,      \* jm_cd the AI server may name, existing or not
  AiAnswer,  \* answers of the AI server
  Size       \* sizes that are asked for

\* fit: whether jmCd and reason are strings.
AiItem == [code : Code, fit : BOOLEAN]

ASSUME RecommendationAssumption ==
  /\ AiAnswer \subseteq Seq(AiItem)
  /\ Size \subseteq Nat \ {0}

VARIABLES
  stored,  \* recommendation and recommendation_item of the user, or Null
  ask      \* where each create request is and what it has read

recommendationVars == <<stored, ask>>

RecommendationInit ==
  /\ stored = Null
  /\ ask = [a \in Asker |-> Idle]

Goto(a, state) == ask' = [ask EXCEPT ![a] = state]

-----------------------------------------------------------------------------
(* create(), up to the answer of the AI server                             *)

ReadUserAnyway(a, size) ==   \* mutant: is_onboarded is not looked at
  /\ ask[a] = Idle
  /\ Goto(a, [stage |-> "answers", size |-> size])
  /\ UNCHANGED <<onboardingVars, stored>>

\* findUnique reads the user, who is refused with 409 unless is_onboarded ...
ReadUser(a, size) ==
  /\ ask[a] = Idle
  /\ onboarded
  /\ Goto(a, [stage |-> "answers", size |-> size])
  /\ UNCHANGED <<onboardingVars, stored>>

\* ... and its answers in a query of its own.
ReadAnswers(a) ==
  /\ ask[a].stage = "answers"
  /\ Goto(a, [stage |-> "ask", size |-> ask[a].size, payload |-> Payload(answers)])
  /\ UNCHANGED <<onboardingVars, stored>>

\* The places of the first item of each code, of the codes that exist.
Known(items) ==
  {k \in DOMAIN items :
     /\ items[k].fit /\ items[k].code \in Cert
     /\ \A j \in 1..(k - 1) : items[j].fit => items[j].code # items[k].code}

\* The rows of recommendation_item: the first size of them, ranked from 1 on.  The
\* reason is told by its place in the answer.
RankedItems(items, size) ==
  {row \in [rank : 1..size, code : Cert, reason : Known(items)] :
     /\ row.code = items[row.reason].code
     /\ row.rank = Cardinality({j \in Known(items) : j <= row.reason})}

\* With nothing left the AI server counts as unavailable.
UseAnswer(a, items) ==
  LET rows == RankedItems(items, ask[a].size)
  IN /\ ask[a].stage = "ask"
     /\ Goto(a, IF rows = {} THEN Idle
                ELSE [stage |-> "find", items |-> rows,
                      made |-> [answer |-> items, size |-> ask[a].size]])
     /\ UNCHANGED <<onboardingVars, stored>>

-----------------------------------------------------------------------------
(* The transaction.  What it writes is seen by others when it commits; the *)
(* row of recommendation is locked from the INSERT or UPDATE on.           *)

HoldsRow(a) == ask[a].stage \in {"delete", "create"}
RowIsFree == \A a \in Asker : ~HoldsRow(a)

\* upsert on MySQL: a SELECT, then an INSERT or an UPDATE.
FindRow(a) ==
  /\ ask[a].stage = "find"
  /\ Goto(a, [ask[a] EXCEPT !.stage = IF stored = Null THEN "insert" ELSE "update"])
  /\ UNCHANGED <<onboardingVars, stored>>

\* user_id is unique: another request has been first, and this one fails.
InsertRow(a) ==
  /\ ask[a].stage = "insert"
  /\ RowIsFree
  /\ Goto(a, IF stored = Null THEN [ask[a] EXCEPT !.stage = "delete"] ELSE Idle)
  /\ UNCHANGED <<onboardingVars, stored>>

UpdateRow(a) ==
  /\ ask[a].stage = "update"
  /\ RowIsFree
  /\ Goto(a, [ask[a] EXCEPT !.stage = "delete"])
  /\ UNCHANGED <<onboardingVars, stored>>

Left(a, gone) ==
  [stage |-> "create", items |-> ask[a].items, made |-> ask[a].made, gone |-> gone]

StoredItems == IF stored = Null THEN {} ELSE stored.items

DeleteAtOnce(a) ==   \* mutant: deleteMany is not one of the queries of tx
  /\ ask[a].stage = "delete"
  /\ Goto(a, Left(a, StoredItems))
  /\ stored' = IF stored = Null THEN Null ELSE [stored EXCEPT !.items = {}]
  /\ UNCHANGED onboardingVars

DeleteItems(a) ==
  /\ ask[a].stage = "delete"
  /\ Goto(a, Left(a, StoredItems))
  /\ UNCHANGED <<onboardingVars, stored>>

\* createMany and COMMIT.  generated_at is told by the request it was taken in.
CreateItems(a) ==
  /\ ask[a].stage = "create"
  /\ stored' = [generated |-> ask[a].made,
                items |-> (StoredItems \ ask[a].gone) \cup ask[a].items]
  /\ Goto(a, Idle)
  /\ UNCHANGED onboardingVars

\* The AI server, a query or the process fails, or the transaction runs out of its
\* time: MySQL takes back what it has written.
FailAsk(a) ==
  /\ ask[a] # Idle
  /\ Goto(a, Idle)
  /\ UNCHANGED <<onboardingVars, stored>>

RecommendationNext ==
  \E a \in Asker :
    \/ \E size \in Size : ReadUser(a, size)
    \/ ReadAnswers(a)
    \/ \E items \in AiAnswer : UseAnswer(a, items)
    \/ FindRow(a) \/ InsertRow(a) \/ UpdateRow(a) \/ DeleteItems(a) \/ CreateItems(a)
    \/ FailAsk(a)

-----------------------------------------------------------------------------
(* Properties.                                                             *)

\* get(): the codes by rank.
Get == [k \in 1..Cardinality(stored.items) |->
          (CHOOSE row \in stored.items : row.rank = k).code]

\* What a user is shown is always one whole ranking: that of the answer that was
\* generated at generated_at, without an unknown certificate, a repetition, a gap
\* or a rank too many -- whatever the AI server answers, and though requests race
\* to insert the row and to replace its items (cert/recommendation.service.ts:112).
RankingWhole ==
  stored # Null =>
    LET items == stored.generated.answer
        fit   == {k \in DOMAIN items : items[k].fit}
        named == {items[k].code : k \in fit} \cap Cert
        First(c) == CHOOSE k \in fit :
          items[k].code = c /\ \A j \in fit : items[j].code = c => k <= j
    IN /\ {row.rank : row \in stored.items} = 1..Cardinality(stored.items)
       /\ Cardinality({row.code : row \in stored.items}) = Cardinality(stored.items)
       /\ Cardinality(stored.items) \in 1..stored.generated.size
       /\ \A row \in stored.items : row.code \in named /\ row.reason = First(row.code)
       /\ \A k \in DOMAIN Get, c \in named :
            First(c) < First(Get[k]) => \E j \in 1..(k - 1) : Get[j] = c
       /\ Cardinality(stored.items) < stored.generated.size =>
            named = {row.code : row \in stored.items}

\* The AI server is asked with a whole sheet of an onboarded user, though
\* is_onboarded and the answers are read by two queries, and sheets are replaced
\* between them (cert/recommendation.service.ts:29).
AsksOnboarded == \A a \in Asker : ask[a].stage = "ask" => IsWhole(ask[a].payload)

=============================================================================
