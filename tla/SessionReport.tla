----------------------------- MODULE SessionReport -----------------------------
(***************************************************************************)
(* From a rubric to what the customer reads: compile_rubric's two attempts *)
(* (rubric/compiler.py), one scoring run on that rubric (api/pipeline.py   *)
(* from the eligibility gate on), and the report beside the package's      *)
(* other sessions on the web's screens.                                    *)
(* ContentJudge gives the run its threads; the rest of the job is one      *)
(* thread.  Deadlines and the row's life are JobTiming's and               *)
(* SessionLifecycle's.                                                     *)
(***************************************************************************)
EXTENDS ContentJudge, RubricCompiler, ReportScreens

CONSTANTS
  Descriptions,  \* what the job description and the profile may be
  Replies,       \* what the model may answer compile_rubric, Malformed apart
  Transcripts,   \* what a recording may hold: its seconds, turns and words
  DeliveryReplies, \* the scores judge_delivery may be answered
  PastRows,      \* what the package's other rows may be, as past reports
  Slots          \* the package's sessions

VARIABLES
  jd,        \* does the job description stress the family, is the profile more than minimal
  attempts,  \* attempts compile_rubric has failed at
  reply,     \* the one it accepted
  rubric,    \* what it made of it
  stage,     \* where the package and then the session stand
  eligibility, \* of the session being scored
  content,   \* the content judge's scores
  report,    \* the saved report
  rows       \* the package's sessions as the web lists them, this one among them

reportVars == <<jd, attempts, reply, rubric, stage, eligibility, content, report, rows>>
vars == <<judgeVars, reportVars>>

NoRubric == [dims |-> <<>>, whole |-> WeightOne, bank |-> {}]

\* The keys of the rubric's dimensions that pass Test, in rubric order.
Keys(dims, Test(_)) == [n \in DOMAIN Kept(dims, Test) |-> Kept(dims, Test)[n].key]

Init ==
  /\ JudgeInit
  /\ jd \in Descriptions
  /\ attempts = 0 /\ reply = Malformed /\ rubric = NoRubric
  /\ stage = "compiling" /\ eligibility = "none"
  /\ content = <<>> /\ report = NoReport /\ rows = <<>>

-----------------------------------------------------------------------------
(* compile_rubric *)

\* Wrong variant for AdmittedIsFaithful: the repair's reply is taken as it is.
CompileAcceptsRepair(r) ==
  /\ stage = "compiling" /\ r # Malformed
  /\ Admitted(r, jd) # {} \/ attempts = 1
  /\ rubric' = Governed(r, jd)
  /\ reply' = r
  /\ attempts' = 0
  /\ stage' = "ready"
  /\ UNCHANGED <<judgeVars, jd, eligibility, content, report, rows>>

\* A reply that passes the gates is governed and ends it.
CompileAccepts(r) ==
  /\ stage = "compiling" /\ Admitted(r, jd) # {}
  /\ rubric' \in Admitted(r, jd)
  /\ reply' = r
  /\ attempts' = 0
  /\ stage' = "ready"
  /\ UNCHANGED <<judgeVars, jd, eligibility, content, report, rows>>

\* One that does not costs the one repair, and then RubricCompileError.
CompileRejects(r) ==
  /\ stage = "compiling" /\ Admitted(r, jd) = {}
  /\ attempts' = attempts + 1
  /\ stage' = IF attempts = 1 THEN "refused" ELSE "compiling"
  /\ UNCHANGED <<judgeVars, jd, reply, rubric, eligibility, content, report, rows>>

CompileFails ==
  /\ stage = "compiling"
  /\ stage' = "refused"
  /\ UNCHANGED <<judgeVars, jd, attempts, reply, rubric, eligibility, content, report, rows>>

-----------------------------------------------------------------------------
(* score_session *)

\* The gate in front of every judge: too little evidence makes no judge call.
Gate(t) ==
  /\ stage = "ready"
  /\ eligibility' = Eligibility(t.seconds, t.turns, t.words)
  /\ stage' = IF eligibility' = "insufficient" THEN "insufficient" ELSE "transcribed"
  /\ UNCHANGED <<judgeVars, jd, attempts, reply, rubric, content, report, rows>>

JudgeStarts ==
  /\ stage = "transcribed"
  /\ Submit(Keys(rubric.dims, IsContent))
  /\ stage' = "content-judge"
  /\ UNCHANGED <<jd, attempts, reply, rubric, eligibility, content, report, rows>>

Judging ==
  /\ stage = "content-judge" /\ JudgeNext
  /\ UNCHANGED reportVars

\* The scores are returned, and the pool with its threads is gone.
JudgeReturns ==
  /\ stage = "content-judge" /\ main = "scored"
  /\ content' = ContentScores
  /\ order' = <<>> /\ task' = <<>> /\ main' = "idle" /\ awaited' = 1
  /\ stage' = "delivery-judge"
  /\ UNCHANGED <<jd, attempts, reply, rubric, eligibility, report, rows>>

JudgeRaises ==
  /\ stage = "content-judge" /\ main = "failed"
  /\ stage' = "failed"
  /\ UNCHANGED <<judgeVars, jd, attempts, reply, rubric, eligibility, content, report, rows>>

\* judge_delivery and compile_report up to save_report.
Delivered(scores) ==
  LET keys == {rubric.dims[i].key : i \in Having(rubric.dims, IsDelivery)}
      own == DeliveryScores(scores, keys)
  IN /\ stage = "delivery-judge" /\ Covers(own, keys)
     /\ \E made \in ReportsOf(rubric, content \o own, eligibility) :
          /\ AnchorsPass(rubric.dims, made)
          /\ report' = made
     /\ content' = <<>>
     /\ stage' = "saved"
     /\ UNCHANGED <<judgeVars, jd, attempts, reply, rubric, eligibility, rows>>

\* The delivery judge misses a dimension or cannot be reached, the language
\* lint refuses a line, or the report cannot be stored.
DeliveryFails ==
  /\ stage = "delivery-judge"
  /\ content' = <<>>
  /\ stage' = "failed"
  /\ UNCHANGED <<judgeVars, jd, attempts, reply, rubric, eligibility, report, rows>>

\* The row is marked "scored"; where that write fails the row is "failed" and
\* keeps its report.
Marked(status) ==
  /\ stage = "saved"
  /\ stage' = status
  /\ UNCHANGED <<judgeVars, jd, attempts, reply, rubric, eligibility, content, report, rows>>

-----------------------------------------------------------------------------
(* The web *)

\* What another row of the package may be: unscored, or with a report on this
\* rubric.
Rows ==
  UNION {IF past.scores = <<>> THEN {[status |-> past.status, report |-> NoReport]}
         ELSE {[status |-> past.status, report |-> r] :
                 r \in ReportsOf(rubric,
                         [i \in DOMAIN rubric.dims |->
                            [key |-> rubric.dims[i].key, score |-> past.scores[i]]], "scored")} :
         past \in PastRows}

\* The customer reads: this row is the session of some number, and the others
\* are what they have become by now.
Read(index) ==
  /\ stage \in {"scored", "failed"} /\ report # NoReport /\ rows = <<>>
  /\ \E others \in [1 .. Slots \ {index} -> Rows] :
       rows' = [i \in 1 .. Slots |->
                  IF i = index THEN [status |-> stage, report |-> report] ELSE others[i]]
  /\ UNCHANGED <<judgeVars, jd, attempts, reply, rubric, stage, eligibility, content, report>>

Next ==
  \/ \E r \in Replies \cup {Malformed} : CompileAccepts(r) \/ CompileRejects(r)
  \/ CompileFails
  \/ \E t \in Transcripts : Gate(t)
  \/ JudgeStarts
  \/ Judging
  \/ JudgeReturns
  \/ JudgeRaises
  \/ \E s \in DeliveryReplies : Delivered(s)
  \/ DeliveryFails
  \/ \E status \in {"scored", "failed"} : Marked(status)
  \/ \E index \in 1 .. Slots : Read(index)

\* A call to the model returns or times out, and a runnable thread runs.
Fairness == WF_vars(Judging) /\ WF_vars(JudgeReturns) /\ WF_vars(JudgeRaises)

Spec == Init /\ [][Next]_vars
FairSpec == Spec /\ Fairness

-----------------------------------------------------------------------------
ReportTypeOK ==
  /\ JudgeTypeOK
  /\ attempts \in 0 .. 2
  /\ stage \in {"compiling", "refused", "ready", "insufficient", "transcribed",
                "content-judge", "delivery-judge", "saved", "scored", "failed"}
  /\ eligibility \in {"none", "insufficient", "limited", "scored"}
  /\ order # <<>> => stage \in {"content-judge", "failed"}
  /\ rows # <<>> => Len(rows) = Slots /\ report # NoReport

\* Whatever attempt a rubric came from, it keeps the contract of both gates and
\* of governance (rubric/compiler.py:189-270, governance.py): every dimension is cited,
\* every content dimension quotes the job description or is the one the profile
\* licenses, and the ethics family is read through follow-ups only and has no
\* question in the bank.
AdmittedIsFaithful ==
  LET dims == rubric.dims
      family == Having(dims, IsPeripheral)
  IN rubric # NoRubric =>
       /\ \A i \in DOMAIN dims :
            /\ dims[i].cited
            /\ IsContent(dims[i]) =>
                 IF IsLicensed(dims[i]) THEN jd.profile /\ dims[i].key = FitKey
                 ELSE dims[i].evidence = "exact"
            /\ dims[i].probing = "indirect" <=> i \in family
       /\ Cardinality(Having(dims, IsLicensed)) <= 1
       /\ \A i \in family : dims[i].key \notin rubric.bank

\* Governance moves weight and changes no one's emphasis: the whole weighs what it
\* weighed, so the sum still passes the validator that runs on it again; the family loses
\* what the others gain, and those keep their proportions; and it weighs at most the cap,
\* unless the job description stresses it or nobody else weighs anything
\* (governance.py:91-113, 156).
EmphasisKept ==
  LET was == reply.dims
      is == rubric.dims
      direct == {i \in DOMAIN is : ~IsPeripheral(is[i])}
      now(i) == is[i].weight * WeightOne
      before(i) == was[i].weight * rubric.whole
      bound == Tolerance * rubric.whole
  IN rubric # NoRubric =>
       /\ TotalWeight(is) * WeightOne = TotalWeight(was) * rubric.whole
       /\ (TotalWeight(is) - rubric.whole) * WeightOne \in -bound .. bound
       /\ \A i \in DOMAIN is : IF i \in direct THEN was[i].weight >= 0 => now(i) >= before(i)
                               ELSE now(i) <= before(i)
       /\ \A i \in DOMAIN is \ direct :
            \/ now(i) <= WeightCap * rubric.whole
            \/ jd.foregrounds \/ DirectWeight(was) <= 0
       /\ \A i, j \in direct : is[i].weight * was[j].weight = is[j].weight * was[i].weight

\* The report page reconstructs the worker's verdict from its own copy of the
\* rule, and the clause it names is what decided (lib/verdict.ts, against
\* _verdict of report/compile.py).
VerdictExplained ==
  LET clears == report.overall >= ReadyOverall
      low(bar) == \E i \in DOMAIN report.scores : report.scores[i].score < bar
      clause == ClauseFor(report)
  IN report # NoReport =>
       /\ clause # "unreconciled"
       /\ clause = "both-clear" <=> report.verdict = "ready"
       /\ clause = "below-approaching" <=> report.verdict = "not_ready"
       /\ clause = "dimension-below-floor" => clears /\ low(ReadyMinDimension)
       /\ clause = "overall-below-ready" => ~clears /\ ~low(ReadyMinDimension)
       /\ clause = "both-open" => ~clears /\ low(ReadyMinDimension)

\* The worker's headline, first gap and first drill, the web's gauge and leading card
\* and the progress page's bottom two all break a tie the same way: they speak of one
\* dimension.
OneWeakest ==
  report # NoReport =>
    LET weakest == WeakestDimension(report.scores).key
    IN /\ report.headline = weakest
       /\ report.drills[1] = weakest
       /\ LeadCard(report).key = weakest
       /\ weakest \in BottomTwoKeys([scores |-> report.scores])
       /\ report.gaps # <<>> => report.gaps[1].key = weakest

\* So does the ticket's "lowest of your dimensions" (lib/home.ts).
TicketNamesWeakest ==
  report # NoReport => LowestClause(report) = WeakestDimension(report.scores).key

\* What the progress page says of a recurring dimension is what its sessions
\* show, though the rule is written twice: "the two must never drift apart or
\* the focus copy would misdescribe the flagged issues" (progress-view.ts:8-10).
FocusCopyTrue ==
  rows # <<>> =>
    LET feed == Feed(rows)
        scored == ScoredInOrder(feed)
        low(i, key) == key \in BottomTwoKeys(scored[i])
    IN \A key \in WeakDimensions(feed) :
         LET line == WeakDimensionLine(feed, key)
         IN IF line.says = "last"
            THEN /\ \A i \in Len(scored) - line.count + 1 .. Len(scored) : low(i, key)
                 /\ line.count < Len(scored) => ~low(Len(scored) - line.count, key)
            ELSE \E i \in 1 .. Len(scored) - 2 : low(i, key) /\ low(i + 1, key)

\* A gap "noted in more than one report" is counted in every report that has
\* the dimension below the gap line at that printed score, those of rows whose
\* last write failed included (ProgressFocus.tsx:63-77, compile.py:235-239).
GapCountTrue ==
  rows # <<>> =>
    LET feed == Feed(rows)
        bears(i, gap) == /\ rows[i].report # NoReport
                         /\ LastScore(rows[i].report.scores, gap.key) < GapThreshold
                         /\ Printed(LastScore(rows[i].report.scores, gap.key)) = gap.printed
    IN \A gap \in RecurringGaps(feed) :
         /\ GapRecurrenceCount(feed, gap) >= 2
         /\ GapRecurrenceCount(feed, gap) = Cardinality({i \in DOMAIN rows : bears(i, gap)})

\* The archive's change of a session and the one on the session's own page are
\* measured against the same session (report-format.ts:51-67 and
\* transcript.ts:139-154, two rules in two modules over two feeds).
DeltasAgree ==
  rows # <<>> =>
    LET feed == Feed(rows)
        deltas == OverallDeltas(feed)
    IN \A i \in ScoredPlaces(feed) :
         HeaderDelta(feed, rows[i].report, i) = IF i \in DOMAIN deltas THEN {deltas[i]} ELSE {}

\* The home page's net is the sum of the changes the archive lists, it ends on
\* the number of the report the page speaks of, and a dimension's net is the
\* sum of the changes its cards showed (home-dashboard.ts, home/page.tsx:131-160,
\* lib/progress.ts:48-71).
NetIsSumOfDeltas ==
  rows # <<>> =>
    LET feed == Feed(rows)
        deltas == OverallDeltas(feed)
        points == OverallTrend(feed)
        later == {i \in ScoredPlaces(feed) : PreviousScored(feed, i) # 0}
        score(i, key) == LastScore(feed[i].scores, key)
    IN /\ OverallNet(feed) = FoldFunction(+, 0, deltas)
       /\ TrendSectionVisible(feed) <=> DOMAIN deltas # {}
       /\ points # <<>> => points[Len(points)] = rows[LatestScored(feed)].report.overall
       /\ \A d \in DOMAIN rubric.dims :
            LET key == rubric.dims[d].key
            IN DimensionNet(feed, key) =
                 FoldFunction(+, 0, [i \in later |->
                   score(i, key) - score(PreviousScored(feed, i), key)])

\* A judge that has started comes to an end, whatever its threads are answered.
JudgingEnds == stage = "content-judge" ~> stage \in {"delivery-judge", "failed"}

\* A judge job ends as the loop it replaced would have, alone, and having bought no
\* more calls than that loop (judge.py).
JobEndsInOrder == FirstFailureIsRaised /\ JobEndsAlone /\ JudgeSpendBounded

\* An admitted rubric is faithful and governed, by whichever attempt it came
\* (rubric/compiler.py), and a report on it says one thing to all its readers: its
\* verdict, why, and what is weakest (report/compile.py, lib/verdict.ts).
ReportReadsOne == ReportTypeOK /\ AdmittedIsFaithful /\ VerdictExplained /\ OneWeakest

\* Weights are moved and none is lost; what the screens say of several reports adds
\* up, and is true of the reports behind it, in words as in numbers.
NumbersAddUp ==
  /\ EmphasisKept /\ TicketNamesWeakest
  /\ DeltasAgree /\ NetIsSumOfDeltas
  /\ FocusCopyTrue /\ GapCountTrue
=============================================================================
