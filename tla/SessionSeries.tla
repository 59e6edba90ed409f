---------------------------- MODULE SessionSeries ----------------------------
(***************************************************************************)
(* The sessions of one standard package as a series: the lifecycle of its  *)
(* rows (SessionLifecycle), what the planner asks in each (SessionPlanner, *)
(* called by create_session with every earlier row) and what the web       *)
(* offers its owner in between (SessionDoors).                             *)
(* Two columns join the lifecycle's: session_plan, written once when the   *)
(* row is inserted and kept by a re-arm, and the scores of the report.     *)
(***************************************************************************)
EXTENDS SessionLifecycle, SessionPlanner, SessionDoors

CONSTANT Reports  \* what the judges can find: a score of each dimension

ASSUME ReportsAssumption == Reports \subseteq [DimSet -> Nat] /\ Reports # {}

VARIABLES
  plan,    \* session_plan column, by index
  scored   \* report column's dimension_scores, by index

seriesVars == <<vars, plan, scored>>

NoPlan == [focus |-> "none", questions |-> <<>>, target |-> "none", probe |-> 0]

\* list_sessions, as the planner reads it.
History ==
  [i \in 1 .. Cardinality(Rows) |-> [plan |-> plan[i], report |-> scored[i]]]

\* The row a save_report of this step writes to.
Saved == {target[j] : j \in {k \in Jobs : stage[k] = "compile" /\ stage'[k] = "saved"}}

SeriesInit ==
  /\ Init /\ ~quick
  /\ plan = [i \in Slots |-> NoPlan]
  /\ scored = [i \in Slots |-> NoReport]

\* Wrong variant for NoQuestionTwice: the new row is planned without the rows before it.
PlansNew(i) == plan_baseline_session(i, <<>>)

Plans(i) == plan_baseline_session(i, History)

SeriesNext ==
  /\ Next
  /\ plan' = [i \in Slots |-> IF ~Exists(i) /\ Exists(i)' THEN Plans(i) ELSE plan[i]]
  /\ IF Saved = {} THEN scored' = scored
     ELSE \E r \in Reports : scored' = [i \in Slots |-> IF i \in Saved THEN r ELSE scored[i]]

SeriesSpec == SeriesInit /\ [][SeriesNext]_seriesVars

-----------------------------------------------------------------------------
(* The screens, over the rows as they are now. *)

St == [i \in Rows |-> status[i]]

HomeNext == nextSessionNumber(ListedRows(St), effectiveTotalSessions(access # "locked", Total))

HomeButton ==
  HomeAction(ListedRows(St), effectiveTotalSessions(access # "locked", Total),
             \E i \in Rows : StoppedReporting(i), TRUE)

\* lastOutcome: the newest listed scored row, and the focus its report promises.
LastScored == {i \in Rows : status[i] = "scored" /\ scored[i] # NoReport}
HomeFocus == PromisedFocus(Dims, scored[Max(LastScored)], Weight, Indirect)

PageCta(i) == detailCta(St, i, report[i], Total)

\* The code create_session would answer with now.
CreateAnswer ==
  CASE access = "expired" -> "package-expired"
    [] access = "locked" -> "package-locked"
    [] access \notin {"expired", "locked"} /\ (\E i \in Slots : Live(i)) -> "session-in-progress"
    [] OTHER ->
         IF Resumable # {} THEN "session"
         ELSE IF Exhausted(OutOfResumes) THEN "package-exhausted"
         ELSE IF ~ready THEN "package-not-ready"
         ELSE "session"

-----------------------------------------------------------------------------
SeriesTypeOK ==
  /\ plan \in [Slots -> [focus : {"none", "baseline", "targeted"},
                         questions : Seq(DimSet \X {"bank", "template", "again"} \X Nat),
                         target : DimSet \union {"none"}, probe : 0 .. Probes]]
  /\ scored \in [Slots -> Reports \union {NoReport}]
  /\ \A i \in Slots : report[i] <=> scored[i] # NoReport

Questions(i) == {plan[i].questions[k] : k \in DOMAIN plan[i].questions}

\* A question is asked in one session of the package only, whatever failed, was
\* abandoned or was scored out of order before it (planner.py, "asked"), until
\* the fit templates are used up.
NoQuestionTwice ==
  \A i, j \in Rows : i # j =>
    \A q \in Questions(i) \intersect Questions(j) : q[1] \in Fit /\ q[2] = "again"

\* "Six (question, follow-up) pairs so a six-session package never hears the
\* same pressure moment twice" (planner.py): no two rows share a probe.
NoMomentTwice ==
  Total <= Probes =>
    \A i, j \in Rows : i # j => plan[i].probe # plan[j].probe

\* "a sentence promising focus the planner refuses is false" (home.ts): a row
\* inserted now opens on the dimension the home ticket names, while every report
\* belongs to a scored row.
PromiseKept ==
  [][\A i \in Slots :
       /\ ~Exists(i) /\ Exists(i)'
       /\ LastScored # {}
       /\ \A k \in Rows : report[k] => status[k] = "scored"
       => plan'[i].questions[1][1] = HomeFocus]_seriesVars

\* The session a page names as next is the one a start gives, however the rows
\* got there; only a row that this very start retires is passed over.
OfferedIsGiven ==
  [][CreateSession =>
       LET n == nextSessionNumber(St, Total)
       IN \/ n # 0 /\ HandBack(n)
          \/ n # 0 /\ status'[n] = "failed_permanent"
          \/ InsertNext /\ n = NextIndex
          \/ RefuseNext /\ (n = 0 \/ ~ready)]_seriesVars

\* "resume takes the lowest index" (transcript.ts): the session whose page says
\* "Run this session again" is the one a start re-arms or retires.
ResumeDoorResumes ==
  [][CreateSession =>
       \A i \in Rows : PageCta(i).kind = "resume" =>
         status'[i] \in {"planned", "failed_permanent"}]_seriesVars

\* On a compiled package, the home screen's start button never ends in "No
\* sessions left in this package", unless the press retires the last open row.
StartIsHonest ==
  HomeButton = "start" /\ ready /\ startFailureView(CreateAnswer) = "exhausted"
    => OutOfResumes # {}

\* "The page has to refuse for the same reasons the mint does" (home.ts): where
\* the room page shows its start card, the mint it leads to is not "not live".
StartCardIsLive ==
  \A i \in Rows : RoomScreen(status[i], access) = "start card" => Planned(i) /\ ~RoomIsClosed

\* home.ts, of the rows a start would resume: "the strip must point at that
\* slot".  On an open package whose home says it is complete, a start gives a
\* session only where an abandoned row, which the list leaves out, is the one.
CompleteIsComplete ==
  access = "open" /\ HomeNext = 0 /\ CreateAnswer = "session"
    => \E i \in Resumable : status[i] = "abandoned"

\* The plans of a package as a candidate meets them: well formed, and nothing in
\* them heard before (sessionplan/planner.py).
PlansAreSound == SeriesTypeOK /\ NoQuestionTwice /\ NoMomentTwice

\* Every button that names a session leads to it: the next one of home and of the
\* session page, and "Run this session again" (home.ts, transcript.ts).
DoorsLead == OfferedIsGiven /\ ResumeDoorResumes

\* A start keeps its word at both ends, the press and the room it opens
\* (start-session.ts, sessions/[id]/room/page.tsx).
StartTellsTrue == StartIsHonest /\ StartCardIsLive

\* The home card keeps its word: the focus it promises is the one the next session
\* opens on, and a package that it calls complete has no session left (home.ts).
CardKeepsItsWord == PromiseKept /\ []CompleteIsComplete
=============================================================================
