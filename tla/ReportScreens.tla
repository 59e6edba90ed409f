----------------------------- MODULE ReportScreens -----------------------------
(***************************************************************************)
(* What the web makes of reports (apps/web): the verdict's explanation     *)
(* (lib/verdict.ts), the report's cards, the ticket's last verdict         *)
(* (lib/home.ts), the progress math (lib/progress.ts) and its restatement  *)
(* for the screen (components/progress-view.ts, home-dashboard.ts), and    *)
(* the deltas of the archive and of the session page.  Pure.               *)
(* A feed is what GET /packages/{id}/progress answers: a row per session   *)
(* number, in order.  Every sentence is the facts it states.               *)
(***************************************************************************)
EXTENDS ReportCompile, SequencesExt

-----------------------------------------------------------------------------
(* lib/verdict.ts and the report page *)

\* The first of the lowest scores.
WeakestDimension(scores) ==
  scores[CHOOSE i \in DOMAIN scores :
    \A j \in DOMAIN scores : scores[i].score < scores[j].score
                             \/ (scores[i].score = scores[j].score /\ i <= j)]

RecomputeVerdict(overall, scores) ==
  LET ready == /\ overall >= ReadyOverall
               /\ \A i \in DOMAIN scores : scores[i].score >= ReadyMinDimension
  IN CASE ready -> "ready"
       [] ~ready /\ overall >= ApproachingOverall -> "approaching"
       [] OTHER -> "not_ready"

ClauseFor(report) ==
  LET overallClears == report.overall >= ReadyOverall
      floorClears == WeakestDimension(report.scores).score >= ReadyMinDimension
  IN IF RecomputeVerdict(report.overall, report.scores) # report.verdict THEN "unreconciled"
     ELSE IF report.verdict = "not_ready" THEN "below-approaching"
     ELSE CASE overallClears /\ floorClears -> "both-clear"
            [] overallClears /\ ~floorClears -> "dimension-below-floor"
            [] ~overallClears /\ floorClears -> "overall-below-ready"
            [] OTHER -> "both-open"

\* ReportDimensionCards: the card that leads.
LeadCard(report) ==
  LET low == WeakestDimension(report.scores)
  IN IF \E i \in DOMAIN report.scores : report.scores[i].score > low.score
     THEN low ELSE report.scores[1]

\* verdictLine of lib/home.ts: the dimension it calls the lowest.
LowestClause(report) ==
  FoldLeft(LAMBDA low, s : IF s.score < low.score THEN s ELSE low,
           report.scores[1], report.scores).key

-----------------------------------------------------------------------------
(* The rows.  get_package_progress of routers/packages.py sends every row;  *)
(* its numbers are those of the row's report, whatever the row's status.    *)

ProgressEntry(row) ==
  [status |-> row.status,
   overall |-> IF row.report = NoReport THEN {} ELSE {row.report.overall},
   scores |-> IF row.report = NoReport THEN <<>> ELSE row.report.scores,
   gaps |-> IF row.report = NoReport THEN {}
            ELSE {row.report.gaps[i] : i \in DOMAIN row.report.gaps}]

Feed(rows) == [i \in DOMAIN rows |-> ProgressEntry(rows[i])]

ScoredPlaces(feed) == {i \in DOMAIN feed : feed[i].status = "scored"}

\* The session numbers whose entries pass Test, in order.
Numbers(feed, Test(_)) == Kept([i \in DOMAIN feed |-> i], LAMBDA i : Test(feed[i]))
IsScored(entry) == entry.status = "scored"
IsMeasured(entry) == IsScored(entry) /\ entry.overall # {}

\* scoredInOrder, of lib/progress.ts and of progress-view.ts.
ScoredInOrder(feed) == Kept(feed, IsScored)

\* bottomTwoKeys of lib/progress.ts: ties by rubric position.
BottomTwoKeys(entry) ==
  LET ranked == WeakestFirst(entry.scores)
  IN {entry.scores[ranked[n]].key : n \in DOMAIN UpTo(2, ranked)}

\* bottomTwoKeys of progress-view.ts, a restatement.
BottomTwoOfView(entry) ==
  {entry.scores[i].key : i \in {i \in DOMAIN entry.scores :
     Cardinality({j \in DOMAIN entry.scores :
        \/ entry.scores[j].score < entry.scores[i].score
        \/ entry.scores[j].score = entry.scores[i].score /\ j < i}) < 2}}

\* recurringIssues: low in two scored sessions in a row...
WeakDimensions(feed) ==
  LET scored == ScoredInOrder(feed)
  IN UNION {BottomTwoKeys(scored[i]) \cap BottomTwoKeys(scored[i + 1]) :
            i \in 1 .. Len(scored) - 1}

\* ... and the gap lines of two reports, whatever the status of their rows.
RecurringGaps(feed) ==
  {gap \in UNION {feed[i].gaps : i \in DOMAIN feed} :
     Cardinality({i \in DOMAIN feed : gap \in feed[i].gaps}) >= 2}

\* trailingBottomTwoStreak.
TrailingStreak(feed, key) ==
  LET scored == ScoredInOrder(feed)
      unbroken(n) == \A i \in Len(scored) - n + 1 .. Len(scored) :
                       key \in BottomTwoOfView(scored[i])
  IN CHOOSE n \in 0 .. Len(scored) :
       unbroken(n) /\ (n = Len(scored) \/ ~unbroken(n + 1))

\* Wrong variant for GapCountTrue: only the rows with a verdict are counted.
GapCountOfScored(feed, gap) ==
  Cardinality({i \in ScoredPlaces(feed) : gap \in feed[i].gaps})

\* gapRecurrenceCount.
GapRecurrenceCount(feed, gap) == Cardinality({i \in DOMAIN feed : gap \in feed[i].gaps})

\* weakDimensionLine of ProgressFocus.tsx: "for your last n scored sessions",
\* or "in consecutive earlier sessions".
WeakDimensionLine(feed, key) ==
  LET streak == TrailingStreak(feed, key)
  IN IF streak >= 2 THEN [says |-> "last", count |-> streak]
     ELSE [says |-> "earlier", count |-> 0]

-----------------------------------------------------------------------------
(* Movement between sessions *)

\* previousScoredEntry of lib/transcript.ts: 0 when there is none.
PreviousScored(feed, index) ==
  LET earlier == {i \in ScoredPlaces(feed) : i < index}
  IN IF earlier = {} THEN 0 ELSE CHOOSE i \in earlier : \A j \in earlier : j <= i

\* TrajectoryHeader: the movement it prints, if any.
HeaderDelta(feed, report, index) ==
  LET previous == PreviousScored(feed, index)
  IN IF previous = 0 THEN {} ELSE {report.overall - o : o \in feed[previous].overall}

\* overallDeltas of lib/report-format.ts: by session, the first has none.
OverallDeltas(feed) ==
  LET chain == Numbers(feed, IsMeasured)
      at(n) == CHOOSE o \in feed[chain[n]].overall : TRUE
  IN [i \in {chain[n] : n \in 2 .. Len(chain)} |->
        LET n == CHOOSE n \in 2 .. Len(chain) : chain[n] = i IN at(n) - at(n - 1)]

\* overallTrend, overallNet and trendSectionVisible of home-dashboard.ts.
OverallTrend(feed) ==
  LET measured == Kept(feed, IsMeasured)
  IN [n \in DOMAIN measured |-> CHOOSE o \in measured[n].overall : TRUE]

OverallNet(feed) ==
  LET points == OverallTrend(feed)
  IN IF Len(points) < 2 THEN 0 ELSE points[Len(points)] - points[1]

TrendSectionVisible(feed) == Len(OverallTrend(feed)) >= 2

\* dimensionTrends: the scores a dimension had, oldest first, and their net.
DimensionPoints(feed, key) ==
  LET having == Kept(ScoredInOrder(feed), LAMBDA entry :
                  \E i \in DOMAIN entry.scores : entry.scores[i].key = key)
  IN [m \in DOMAIN having |-> LastScore(having[m].scores, key)]

DimensionNet(feed, key) ==
  LET points == DimensionPoints(feed, key)
  IN IF Len(points) < 2 THEN 0 ELSE points[Len(points)] - points[1]

\* lastOutcome of home/page.tsx: the report the home page speaks of.
LatestScored(feed) ==
  LET scored == ScoredPlaces(feed)
  IN IF scored = {} THEN 0 ELSE CHOOSE i \in scored : \A j \in scored : j <= i
=============================================================================
