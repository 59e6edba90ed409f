---------------------------- MODULE SessionPlanner ----------------------------
(***************************************************************************)
(* services/scorer/src/scorer/sessionplan/planner.py: what one session of  *)
(* a standard package will ask, from the rubric and from the sessions the  *)
(* package has had.  Pure: no clock, no model call.                        *)
(* A question is its dimension, where it comes from and its number there;  *)
(* the wording is left out, and with it the quick plan, which is constant. *)
(***************************************************************************)
EXTENDS Integers, Sequences, FiniteSets

CONSTANTS
  Dims,       \* the rubric's dimensions, in rubric order
  Weight,     \* RubricDimension.weight, in tenths
  Content,    \* the dimensions of the content channel
  Indirect,   \* those with probing_mode "indirect"
  Fit,        \* the dimension "role-and-company-fit", if the rubric has one
  Bank,       \* how many questions question_bank holds of each dimension
  Templates,  \* fallback questions a dimension has: six
  Probes      \* pressure probes: six

DimSet == {Dims[i] : i \in DOMAIN Dims}

ASSUME DimsAssumption ==
  /\ Dims \in Seq(DimSet) /\ Len(Dims) > 0
  /\ \A i, j \in DOMAIN Dims : Dims[i] = Dims[j] => i = j
\* Every rubric has a delivery dimension, and governance leaves those direct.
ASSUME RubricAssumption ==
  /\ Weight \in [DimSet -> Nat] /\ Bank \in [DimSet -> Nat]
  /\ Content \subseteq DimSet /\ Indirect \subseteq Content /\ Fit \subseteq DimSet
  /\ DimSet \ Content # {}
ASSUME FallbackAssumption == Templates \in Nat \ {0} /\ Probes \in Nat \ {0}

NoReport == [d \in {} |-> 0]

Place(d) == CHOOSE i \in DOMAIN Dims : Dims[i] = d

\* The place from 1 that the k-th step of a rotation through n reaches.
Turn(index, k, n) == ((index - 1 + k) % n) + 1

\* The member of a set of numbers with k smaller ones.
Nth(S, k) == CHOOSE n \in S : Cardinality({m \in S : m < n}) = k

-----------------------------------------------------------------------------
\* _latest_scores.  compile_report refuses a report that misses a dimension,
\* so the last report of the history overrides all those before it.
LatestScores(history) ==
  LET reported == {i \in DOMAIN history : history[i].report # NoReport}
  IN IF reported = {} THEN NoReport
     ELSE history[CHOOSE i \in reported : \A j \in reported : j <= i].report

AskedQuestions(history) ==
  UNION {{history[i].plan.questions[j] : j \in DOMAIN history[i].plan.questions} :
         i \in DOMAIN history}

\* Wrong variant for PromiseKept: the weights do not break ties.
BeforeByScore(latest, a, b) ==
  LET worth(d) == IF latest = NoReport THEN 0 ELSE latest[d]
  IN worth(a) < worth(b) \/ (worth(a) = worth(b) /\ Place(a) < Place(b))

\* The sort key: the weakest first, then the heaviest, then in rubric order.
Before(latest, a, b) ==
  LET worth(d) == IF latest = NoReport THEN 0 ELSE latest[d]
  IN \/ worth(a) < worth(b)
     \/ worth(a) = worth(b) /\ Weight[a] > Weight[b]
     \/ worth(a) = worth(b) /\ Weight[a] = Weight[b] /\ Place(a) < Place(b)

\* The members of S in that order.
Ordered(S, latest) ==
  [i \in 1 .. Cardinality(S) |->
     CHOOSE d \in S : Cardinality({e \in S : Before(latest, e, d)}) = i - 1]

-----------------------------------------------------------------------------
FreeTemplates(d, asked) == {i \in 1 .. Templates : <<d, "template", i>> \notin asked}
FreeBank(d, asked) == {i \in 1 .. Bank[d] : <<d, "bank", i>> \notin asked}

\* The first template of this session's rotation that was not asked.
FirstFree(index, free) ==
  LET k == CHOOSE k \in 0 .. Templates - 1 :
             /\ Turn(index, k, Templates) \in free
             /\ \A j \in 0 .. k - 1 : Turn(index, j, Templates) \notin free
  IN Turn(index, k, Templates)

\* With all its templates asked, _fit_question repeats itself and
\* _generated_question counts on to a variant that was not asked.
Revisit(d, index, asked) ==
  IF d \in Fit THEN <<d, "again", Turn(index, 0, Templates)>>
  ELSE <<d, "again", CHOOSE n \in 1 .. Cardinality(asked) + 1 :
                       /\ <<d, "again", n>> \notin asked
                       /\ \A m \in 1 .. n - 1 : <<d, "again", m>> \in asked>>

\* _generated_question and _fit_question behind the bank.
QuestionFor(d, index, asked) ==
  LET bank == FreeBank(d, asked)
      free == FreeTemplates(d, asked)
  IN IF bank # {} THEN <<d, "bank", Nth(bank, (index - 1) % Cardinality(bank))>>
     ELSE IF free # {} THEN <<d, "template", FirstFree(index, free)>>
     ELSE Revisit(d, index, asked)

\* The pressure probe's dimension: of the direct content dimensions the one
\* that comes first, which is the weakest by score where there are scores.
PressureTarget(latest) ==
  IF Content \ Indirect # {} THEN Ordered(Content \ Indirect, latest)[1]
  ELSE Ordered(DimSet \ Indirect, latest)[1]

plan_baseline_session(index, history) ==
  LET latest == LatestScores(history)
      asked == AskedQuestions(history)
      order == Ordered(DimSet \ Indirect, latest)
  IN [focus |-> IF latest = NoReport THEN "baseline" ELSE "targeted",
      questions |-> [i \in DOMAIN order |-> QuestionFor(order[i], index, asked)],
      target |-> PressureTarget(latest),
      probe |-> Turn(index, 0, Probes)]
=============================================================================
