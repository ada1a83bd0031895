------------------------------- MODULE Roadmap -------------------------------
(***************************************************************************)
(* RoadmapService.create on the session of ChatSession: it reads session   *)
(* and history, asks the AI server for a roadmap, and stores the answer    *)
(* with its steps if every part of it is fit to be stored.  Nothing stops  *)
(* the session from changing meanwhile.                                    *)
(***************************************************************************)
EXTENDS ChatSession

CONSTANTS
  Maker,        \* roadmap requests that may be in progress at a time
  Answer,       \* answers of the AI server
  Malformed,    \* a target date that does not look like one
  MaxRoadmaps   \* bound of the roadmaps of the session

\* A date is a calendar triple; a step is well made or not (isStep but for its
\* date); titles are abstract.
Dates  == [year : Nat, month : Nat, day : Nat]
Titles == {"words", "blank", Null}
Step   == [made : BOOLEAN, orderNo : Int, date : Dates \cup {Malformed, Null}]

ASSUME RoadmapAssumption ==
  /\ MaxRoadmaps \in Nat
  /\ Answer \subseteq [title : Titles, steps : Seq(Step) \cup {Null}]

VARIABLES
  roadmaps,  \* roadmap and roadmap_step of the session, by roadmap.id
  making     \* where each roadmap request is and what it has read

roadmapVars == <<roadmaps, making>>
allVars == <<now, updatedAt, jmCd, messages, req, roadmaps, making>>

RoadmapInit ==
  /\ Init
  /\ roadmaps = <<>>
  /\ making = [m \in Maker |-> Idle]

-----------------------------------------------------------------------------
(* Validation of the answer.                                               *)

Leap(year) == year % 4 = 0 /\ (year % 100 # 0 \/ year % 400 = 0)

DaysIn(year, month) ==
  CASE month = 2              -> IF Leap(year) THEN 29 ELSE 28
    [] month \in {4, 6, 9, 11} -> 30
    [] OTHER                  -> 31

\* new Date(value): invalid beyond December or the 31st, and a day the month
\* does not have runs over into the next month.
Parses(d) == d # Malformed /\ d.month \in 1..12 /\ d.day \in 1..31

DateOf(d) ==
  LET over == d.day - DaysIn(d.year, d.month)
  IN IF over > 0 THEN [year |-> d.year, month |-> d.month + 1, day |-> over] ELSE d

IsDateString(d) == Parses(d) /\ DateOf(d) = d

IsTitle(title) == title = "words"

IsStep(step) == step.made /\ (step.date = Null \/ IsDateString(step.date))

TitleOf(given, answer) == IF given # Null THEN given ELSE answer.title

IsFit(given, answer) ==
  /\ IsTitle(TitleOf(given, answer))
  /\ answer.steps \notin {Null, <<>>}
  /\ \A i \in DOMAIN answer.steps : IsStep(answer.steps[i])

\* The rows of the steps, numbered by their place.  The field asked is no column:
\* it is the date the AI server wrote.
RowsByAi(steps) ==   \* mutant: the order the AI server gives
  [i \in DOMAIN steps |->
     [orderNo |-> steps[i].orderNo, asked |-> steps[i].date,
      date |-> IF steps[i].date = Null THEN Null ELSE DateOf(steps[i].date)]]

Rows(steps) ==
  [i \in DOMAIN steps |->
     [orderNo |-> i, asked |-> steps[i].date,
      date |-> IF steps[i].date = Null THEN Null ELSE DateOf(steps[i].date)]]

-----------------------------------------------------------------------------
(* create()                                                                *)

\* findFirst reads the session with its jm_cd, the title of the request being
\* words, blank or none, ...
ReadRow(m, given) ==
  /\ making[m].stage = "idle"
  /\ making' = [making EXCEPT ![m] =
       [stage |-> "history", title |-> given, jmCd |-> jmCd]]
  /\ UNCHANGED <<vars, roadmaps>>

\* ... and then, in queries of their own, what is included; of that only the
\* messages change.
ReadHistory(m) ==
  LET r == making[m]
  IN /\ r.stage = "history"
     /\ making' = [making EXCEPT ![m] =
          [stage |-> "ask", title |-> r.title, jmCd |-> r.jmCd,
           history |-> Len(messages)]]
     /\ UNCHANGED <<vars, roadmaps>>

\* An answer that is not fit is a 502, also when it is the user's title.
UseAnswer(m, answer) ==
  LET r == making[m]
  IN /\ r.stage = "ask"
     /\ making' = [making EXCEPT ![m] =
          IF IsFit(r.title, answer)
            THEN [stage |-> "insert", title |-> TitleOf(r.title, answer),
                  jmCd |-> r.jmCd, history |-> r.history, steps |-> answer.steps]
            ELSE Idle]
     /\ UNCHANGED <<vars, roadmaps>>

\* The nested create: the roadmap and its steps in one transaction.
InsertRoadmap(m) ==
  LET r == making[m]
  IN /\ r.stage = "insert"
     /\ Len(roadmaps) < MaxRoadmaps
     /\ roadmaps' = Append(roadmaps,
          [title |-> r.title, jmCd |-> r.jmCd, history |-> r.history,
           steps |-> Rows(r.steps)])
     /\ making' = [making EXCEPT ![m] = Idle]
     /\ UNCHANGED vars

\* No answer or an error of the AI server, a lost connection.
FailRoadmap(m) ==
  /\ making[m].stage # "idle"
  /\ making' = [making EXCEPT ![m] = Idle]
  /\ UNCHANGED <<vars, roadmaps>>

MakerStep(m) ==
  \/ \E given \in Titles : ReadRow(m, given)
  \/ ReadHistory(m)
  \/ \E answer \in Answer : UseAnswer(m, answer)
  \/ InsertRoadmap(m) \/ FailRoadmap(m)

RoadmapNext ==
  \/ Next /\ UNCHANGED roadmapVars
  \/ \E m \in Maker : MakerStep(m)

RoadmapSpec == RoadmapInit /\ [][RoadmapNext]_allVars

-----------------------------------------------------------------------------
(* Properties.                                                             *)

Row == [orderNo : Nat, asked : Dates \cup {Null}, date : Dates \cup {Null}]

RoadmapTypeOK ==
  /\ TypeOK
  /\ Len(roadmaps) <= MaxRoadmaps
  /\ \A i \in DOMAIN roadmaps :
       /\ roadmaps[i].title = "words"
       /\ roadmaps[i].jmCd \in Cert
       /\ roadmaps[i].history \in Count
       /\ roadmaps[i].steps \in Seq(Row) \ {<<>>}
  /\ \A m \in Maker :
       making[m].stage \in {"idle", "history", "ask", "insert"}

\* A stored roadmap is what was answered: its steps are shown in the order they
\* came in, since "the orderNo of the AI is not verified data"
\* (roadmap.service.ts:166), and each is due on the day that was answered, never
\* on the one new Date() makes of a day that does not exist (34).
StepsAsAnswered ==
  \A i \in DOMAIN roadmaps :
    LET steps == roadmaps[i].steps
    IN \A a, b \in DOMAIN steps :
         /\ steps[a].date = steps[a].asked
         /\ a < b => steps[a].orderNo < steps[b].orderNo

\* Nothing of the session is locked between the read of a roadmap request and
\* its insert, and still the roadmap was made for the certificate of the session
\* if for any, and never from a question without its reply.
RoadmapFitsSession ==
  \A i \in DOMAIN roadmaps :
    LET r == roadmaps[i]
    IN /\ r.jmCd \in {Null, jmCd}
       /\ r.history > 0 =>
            r.history \in DOMAIN messages /\ messages[r.history].sender = "AI"

=============================================================================
