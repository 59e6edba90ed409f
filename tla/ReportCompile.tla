----------------------------- MODULE ReportCompile -----------------------------
(***************************************************************************)
(* services/scorer/src/scorer/report: whether a session is scorable at all *)
(* (eligibility.py) and the report made of its scores (compile.py).  Pure. *)
(* Scores and overalls are in hundredths of a point.  A line of the report *)
(* is the dimension it is about, with the score it prints where one is     *)
(* printed; whether the prose passes the language lint is kept, its words  *)
(* are not.                                                                *)
(***************************************************************************)
EXTENDS Integers, Sequences, FiniteSets, Functions, Folds

\* config/product.toml [report]
ReadyOverall == 400
ReadyMinDimension == 300
ApproachingOverall == 300
GapThreshold == 350   \* _GAP_THRESHOLD

\* config/product.toml [eligibility]
MinDuration == 600
MinTurns == 5
MinWords == 200
FullDuration == 900
FullWords == 600

NoReport == <<>>

\* check_eligibility.
Eligibility(seconds, turns, words) ==
  IF seconds < MinDuration \/ turns < MinTurns \/ words < MinWords THEN "insufficient"
  ELSE IF seconds < FullDuration \/ words < FullWords THEN "limited"
  ELSE "scored"

-----------------------------------------------------------------------------
\* The elements of s at some of its places, in order.
AtPlaces(s, places) ==
  [n \in 1 .. Cardinality(places) |->
     s[CHOOSE i \in places : n = Cardinality({j \in places : j <= i})]]

\* Those that pass a test: SelectSeq, counted out rather than recursive, so that what
\* it returns can be proved.
Kept(s, Test(_)) == AtPlaces(s, {i \in DOMAIN s : Test(s[i])})

\* judge_delivery keeps the scores of its own dimensions and fails when one
\* of them has none; compile_report takes the last score of a key.
DeliveryScores(reply, keys) == Kept(reply, LAMBDA s : s.key \in keys)
Covers(scores, keys) == keys \subseteq {scores[i].key : i \in DOMAIN scores}

LastScore(scores, key) ==
  LET i == CHOOSE i \in DOMAIN scores : /\ scores[i].key = key
                                        /\ \A j \in DOMAIN scores :
                                             scores[j].key = key => j <= i
  IN scores[i].score

\* by_key and ordered: one score per dimension, in rubric order.
InRubricOrder(dims, scores) ==
  [i \in DOMAIN dims |-> [key |-> dims[i].key, score |-> LastScore(scores, dims[i].key)]]

\* round(..., 2) of the weighted sum.  On an exact half the binary sum
\* decides, so either neighbour may come out.
Overalls(rubric, scores) ==
  LET total == FoldFunction(+, 0, [i \in DOMAIN scores |->
                 rubric.dims[i].weight * scores[i].score])
      up == (2 * total + rubric.whole) \div (2 * rubric.whole)
  IN IF (2 * total) % (2 * rubric.whole) = rubric.whole THEN {up - 1, up} ELSE {up}

\* The tenth a score is printed as.
Printed(score) == (score + 5) \div 10

\* The places of scores by a stable sort, the lowest first or the highest.
StrongestFirst(scores) ==
  [n \in DOMAIN scores |-> CHOOSE i \in DOMAIN scores :
     n = 1 + Cardinality({j \in DOMAIN scores :
               \/ scores[j].score > scores[i].score
               \/ scores[j].score = scores[i].score /\ j < i})]

WeakestFirst(scores) ==
  [n \in DOMAIN scores |-> CHOOSE i \in DOMAIN scores :
     n = 1 + Cardinality({j \in DOMAIN scores :
               \/ scores[j].score < scores[i].score
               \/ scores[j].score = scores[i].score /\ j < i})]

UpTo(n, s) == SubSeq(s, 1, IF Len(s) < n THEN Len(s) ELSE n)

\* _verdict.
VerdictOf(overall, scores) ==
  IF overall >= ReadyOverall /\ \A i \in DOMAIN scores : scores[i].score >= ReadyMinDimension
  THEN "ready"
  ELSE IF overall >= ApproachingOverall THEN "approaching" ELSE "not_ready"

\* compile_report, once every dimension has its score.
ReportsOf(rubric, scores, eligibility) ==
  LET ordered == InRubricOrder(rubric.dims, scores)
      weakest == WeakestFirst(ordered)
      named(places) == [n \in DOMAIN places |-> ordered[places[n]].key]
      low == Kept(weakest, LAMBDA i : ordered[i].score < GapThreshold)
  IN {[verdict |-> VerdictOf(overall, ordered),
       headline |-> ordered[weakest[1]].key,
       eligibility |-> eligibility,
       overall |-> overall,
       scores |-> ordered,
       strengths |-> named(UpTo(2, StrongestFirst(ordered))),
       gaps |-> [n \in DOMAIN low |-> [key |-> ordered[low[n]].key,
                                       printed |-> Printed(ordered[low[n]].score)]],
       drills |-> named(UpTo(2, weakest))] : overall \in Overalls(rubric, ordered)}

\* _lint_field refuses a gap line, which quotes the rubric's own anchor, when
\* that anchor has a forbidden pattern.
AnchorsPass(dims, report) ==
  \A n \in DOMAIN report.gaps : \A i \in DOMAIN dims :
    dims[i].key = report.gaps[n].key => dims[i].clean
=============================================================================
