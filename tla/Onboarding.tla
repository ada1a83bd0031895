----------------------------- MODULE Onboarding -----------------------------
(***************************************************************************)
(* OnboardingService: the questions a new user answers, and the            *)
(* transaction that replaces the answers and the desired fields of the     *)
(* user.  (Users share no rows, so one stands for all.)                    *)
(***************************************************************************)
EXTENDS Integers, Sequences, FiniteSets

CONSTANTS
  Question,   \* active questions
  Option,     \* their active options, <<question, value>>: a pair is unique
  FieldOf,    \* the field an option stands for, or Null
  MinSelect,  \* min_select of each question
  MaxSelect,  \* max_select of each question, or Null
  Sheet,      \* bodies of submit requests
  Submitter,  \* submit requests that may be in progress at a time
  Null        \* SQL NULL

Field == {FieldOf[o] : o \in Option} \ {Null}

\* The questions and their options are seed data: the server only reads them.
\* optionValues is a set, as submit() takes it to a Set before it looks.
ASSUME OnboardingAssumption ==
  /\ \A o \in Option : o[1] \in Question
  /\ FieldOf \in [Option -> Field \cup {Null}]
  /\ MinSelect \in [Question -> Nat]
  /\ MaxSelect \in [Question -> Nat \cup {Null}]
  /\ \A sheet \in Sheet : \A k \in DOMAIN sheet : IsFiniteSet(sheet[k].values)

VARIABLES
  answers,    \* onboarding_answer of the user: options, (user, option) is unique
  desired,    \* user_desired_field of the user
  onboarded,  \* user.is_onboarded
  submit      \* where each submit request is

onboardingVars == <<answers, desired, onboarded, submit>>

Idle == [stage |-> "idle"]

OnboardingInit ==
  /\ answers = {}
  /\ desired = {}
  /\ onboarded = FALSE
  /\ submit = [s \in Submitter |-> Idle]

-----------------------------------------------------------------------------
(* submit()                                                                *)

ValuesFor(sheet, q) ==
  UNION {sheet[k].values : k \in {j \in DOMAIN sheet : sheet[j].question = q}}

WithinLimits(q, n) == n >= MinSelect[q] /\ (MaxSelect[q] # Null => n <= MaxSelect[q])

\* A question comes once and exists; and every active question, the ones left out
\* too, gets as many values as it takes, all of them its own.
IsAnswered(sheet) ==
  /\ \A j, k \in DOMAIN sheet : sheet[j].question = sheet[k].question => j = k
  /\ \A k \in DOMAIN sheet : sheet[k].question \in Question
  /\ \A q \in Question :
       /\ WithinLimits(q, Cardinality(ValuesFor(sheet, q)))
       /\ \A v \in ValuesFor(sheet, q) : <<q, v>> \in Option

Selected(sheet) == {o \in Option : o[2] \in ValuesFor(sheet, o[1])}

\* Options of several questions may stand for the same field.
FieldsOf(options) == {FieldOf[o] : o \in options} \ {Null}

\* Any other sheet is answered with 422.
Submit(s, sheet) ==
  /\ submit[s] = Idle
  /\ IsAnswered(sheet)
  /\ submit' = [submit EXCEPT ![s] = [stage |-> "store", options |-> Selected(sheet)]]
  /\ UNCHANGED <<answers, desired, onboarded>>

StoreMore(s) ==   \* mutant: the answers of before are not deleted
  LET r == submit[s]
  IN /\ r.stage = "store"
     /\ answers' = answers \cup r.options
     /\ desired' = FieldsOf(r.options)
     /\ onboarded' = TRUE
     /\ submit' = [submit EXCEPT ![s] = Idle]

\* The transaction, as one step: its first DELETE locks the rows of the user, or
\* the gap where they would be, until it ends.  Of two transactions the second
\* waits for the first; two first sheets both hold the gap, their inserts wait
\* for each other, and InnoDB takes one of them back (FailSubmit).
Store(s) ==
  LET r == submit[s]
  IN /\ r.stage = "store"
     /\ answers' = r.options
     /\ desired' = FieldsOf(r.options)
     /\ onboarded' = TRUE
     /\ submit' = [submit EXCEPT ![s] = Idle]

\* A query fails or the process dies, and MySQL takes back the transaction.
FailSubmit(s) ==
  /\ submit[s] # Idle
  /\ submit' = [submit EXCEPT ![s] = Idle]
  /\ UNCHANGED <<answers, desired, onboarded>>

OnboardingNext ==
  \E s \in Submitter :
    (\E sheet \in Sheet : Submit(s, sheet)) \/ Store(s) \/ FailSubmit(s)

OnboardingSpec == OnboardingInit /\ [][OnboardingNext]_onboardingVars

-----------------------------------------------------------------------------

\* toOnboardingPayload: what the AI server is told, by question.  (order_no only
\* orders it.)
Payload(options) ==
  [q \in {o[1] : o \in options} |-> {o[2] : o \in {p \in options : p[1] = q}}]

\* A payload answers what submit() asks for.
IsWhole(payload) ==
  /\ \A q \in DOMAIN payload : \A v \in payload[q] : <<q, v>> \in Option
  /\ \A q \in Question :
       WithinLimits(q, IF q \in DOMAIN payload THEN Cardinality(payload[q]) ELSE 0)

\* An onboarded user has the answers of one sheet that fits the questions, and the
\* fields of these answers, however often sheets replace each other and whatever
\* fails on the way (onboarding.service.ts:118).
OnboardedFits ==
  IF onboarded THEN IsWhole(Payload(answers)) /\ desired = FieldsOf(answers)
  ELSE answers = {} /\ desired = {}

=============================================================================
