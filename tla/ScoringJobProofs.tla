--------------------------- MODULE ScoringJobProofs ---------------------------
(***************************************************************************)
(* The scoring job, for every value of its constants.                      *)
(* The clock: while the deadline reaches every model call, a job overruns  *)
(* it by one call or one stretch of local work at most, and a reaper       *)
(* window as long as the queue, the budget and that overrun together never *)
(* sees a job in flight as stale.                                          *)
(* The making: for any number of samples and threads and any reply of the  *)
(* model, the judge's job ends as the loop it replaced would have, a       *)
(* report says one thing to all its readers, and what is said of several   *)
(* reports adds up.                                                        *)
(* The door: for any number of tabs that upload, the recording that was    *)
(* judged is the one that is kept.                                         *)
(***************************************************************************)
EXTENDS MCScoringJob, FiniteSetTheorems, WellFoundedInduction, TLAPS

-----------------------------------------------------------------------------
(* The clock (JobTiming) *)

\* Every call of the job is made on a thread where the deadline is bound.
DeadlineReachesCalls == \A k \in Steps : Script[k].sees

\* The reaper's window covers the queue, the budget and the overrun.
WindowCoversJob == QueueWait + Deadline + Larger(CallTimeout, LocalWork) <= Stale

\* The step the job stands at is a step record.
LEMMA CurrentType ==
  ASSUME step \in Steps
  PROVE  /\ Current \in StepRecord
         /\ Current.local => Current.checked
         /\ \A n \in Current.calls : n \in Nat
  <1>1. Script[step] \in StepRecord
    BY TimingConstants DEF Steps
  <1> QED
    BY <1>1, TimingConstants DEF Current, Steps, StepRecord

\* Backoff arithmetic stays within the naturals.
LEMMA DelayType ==
  ASSUME NEW d \in Nat
  PROVE  /\ Smaller(d * Multiplier, MaxWait) \in Nat
         /\ \A w \in Waits(d) : w \in Nat
  <1>1. d * Multiplier \in Nat
    BY TimingConstants
  <1>2. \A w \in d..(d + Jitter) : Smaller(w, MaxWait) \in Nat
    BY TimingConstants DEF Smaller
  <1> QED
    BY <1>1, <1>2, TimingConstants DEF Smaller, Waits

\* The larger of a call's and a stretch's length bounds both.
LEMMA LargerBounds ==
  /\ Larger(CallTimeout, LocalWork) \in Nat
  /\ CallTimeout <= Larger(CallTimeout, LocalWork)
  /\ LocalWork <= Larger(CallTimeout, LocalWork)
  BY TimingConstants DEF Larger

----------------------------------------------------------------------------
(* Types *)

\* What keeps the counters within their types: a call in progress is one of the
\* calls left, and a job that waits has an attempt left.
CountInv ==
  /\ phase = "calling" => left > 0 /\ attempt \in 1..MaxAttempts
  /\ phase = "waiting" => left > 0 /\ attempt < MaxAttempts

\* Moving to the next boundary keeps types and counts.
LEMMA MovesOnType ==
  ASSUME TypeOK, MovesOn
  PROVE  TypeOK' /\ CountInv'
  BY TimingConstants DEF TypeOK, CountInv, MovesOn, Steps

\* So does a step that fails.
LEMMA StepFailsType ==
  ASSUME TypeOK, StepFails
  PROVE  TypeOK' /\ CountInv'
  <1>1. CASE Current.optional
    BY <1>1, MovesOnType DEF StepFails
  <1>2. CASE ~Current.optional
    BY <1>2 DEF StepFails, TypeOK, CountInv
  <1> QED
    BY <1>1, <1>2

\* Every step of the job keeps types and counts.
LEMMA TypeInductive == TypeOK /\ CountInv /\ [Next]_vars => TypeOK' /\ CountInv'
  <1> SUFFICES ASSUME TypeOK, CountInv, [Next]_vars
               PROVE  TypeOK' /\ CountInv'
    OBVIOUS
  <1>1. CASE Tick
    BY <1>1 DEF Tick, TypeOK, CountInv
  <1>2. CASE Refused \/ Admitted \/ StepRefused
    BY <1>2 DEF Refused, Admitted, StepRefused, TypeOK, CountInv
  <1>3. CASE StepBegins
    <2>1. left' \in Nat
      BY <1>3, CurrentType DEF StepBegins, TypeOK
    <2>2. timer' \in Nat /\ age' \in Nat
      BY <1>3, TimingConstants DEF StepBegins, TypeOK
    <2> QED
      BY <1>3, <2>1, <2>2 DEF StepBegins, TypeOK, CountInv
  <1>4. CASE StepEnds
    BY <1>4, MovesOnType DEF StepEnds
  <1>5. CASE StepRaises \/ AttemptStopped \/ BackoffRefused
    BY <1>5, StepFailsType DEF StepRaises, AttemptStopped, BackoffRefused
  <1>6. CASE AttemptBegins
    <2>1. CASE phase = "working"
      BY <1>6, <2>1, TimingConstants DEF AttemptBegins, AttemptIsDue, TypeOK, CountInv
    <2>2. CASE phase = "waiting"
      BY <1>6, <2>2, TimingConstants DEF AttemptBegins, AttemptIsDue, TypeOK, CountInv
    <2> QED
      BY <1>6, <2>1, <2>2 DEF AttemptBegins, AttemptIsDue
  <1>7. CASE CallAnswers
    BY <1>7 DEF CallAnswers, TypeOK, CountInv
  <1>8. CASE CallBacksOff
    <2>1. timer' \in Nat /\ delay' \in Nat
      BY <1>8, DelayType DEF CallBacksOff, TypeOK
    <2> QED
      BY <1>8, <2>1 DEF CallBacksOff, TypeOK, CountInv
  <1>9. CASE UNCHANGED vars
    BY <1>9 DEF vars, TypeOK, CountInv
  <1> QED
    BY <1>1, <1>2, <1>3, <1>4, <1>5, <1>6, <1>7, <1>8, <1>9 DEF Next

\* A job's step, counters and clocks keep their types, whatever its script, its
\* budget and its retry policy (score_session_job, compile_package_job).
THEOREM TimingTypes == Spec => [](TypeOK /\ CountInv)
  <1>1. Init => TypeOK /\ CountInv
    BY TimingConstants DEF Init, TypeOK, CountInv, Steps
  <1> QED
    BY <1>1, TypeInductive, PTL DEF Spec

----------------------------------------------------------------------------
(* The budget *)

Budget == Deadline + Larger(CallTimeout, LocalWork)

\* What a phase may still take fits in the budget: a stretch or a call begins
\* before the deadline, and a wait ends before it.
BudgetInv ==
  /\ elapsed <= Budget
  /\ phase = "working" => elapsed + timer <= Budget
  /\ phase = "calling" => elapsed + timer <= Budget
  /\ phase = "waiting" => elapsed + timer < Deadline

\* What the row's age is made of: the queue, and the time since.
AgeInv ==
  /\ phase = "queued" => elapsed = 0 /\ age + timer <= QueueWait
  /\ age <= QueueWait + elapsed

\* Moving on takes no time.
LEMMA MovesOnBudget ==
  ASSUME TypeOK, BudgetInv, AgeInv, MovesOn
  PROVE  BudgetInv' /\ AgeInv'
  BY DEF TypeOK, BudgetInv, AgeInv, MovesOn, Budget

\* Nor does failing.
LEMMA StepFailsBudget ==
  ASSUME TypeOK, BudgetInv, AgeInv, StepFails
  PROVE  BudgetInv' /\ AgeInv'
  <1>1. CASE Current.optional
    BY <1>1, MovesOnBudget DEF StepFails
  <1>2. CASE ~Current.optional
    BY <1>2 DEF StepFails, TypeOK, BudgetInv, AgeInv, Budget
  <1> QED
    BY <1>1, <1>2

\* While the deadline reaches every call, each step of the job keeps both.
LEMMA BudgetInductive ==
  ASSUME DeadlineReachesCalls, TypeOK, TypeOK', BudgetInv, AgeInv, [Next]_vars
  PROVE  BudgetInv' /\ AgeInv'
  <1> USE LargerBounds, TimingConstants DEF TypeOK
  <1>0. Current.sees
    BY DEF DeadlineReachesCalls, Current
  <1>1. CASE Tick
    BY <1>1 DEF Tick, BudgetInv, AgeInv, Budget
  <1>2. CASE Refused \/ Admitted \/ StepRefused
    BY <1>2 DEF Refused, Admitted, StepRefused, BudgetInv, AgeInv, Budget
  <1>3. CASE StepBegins
    <2>1. CASE Current.local
      <3>1. elapsed < Deadline /\ timer' = LocalWork
        BY <1>3, <2>1, CurrentType DEF StepBegins, Expired
      <3> QED
        BY <1>3, <3>1 DEF StepBegins, BudgetInv, AgeInv, Budget
    <2>2. CASE ~Current.local
      BY <1>3, <2>2 DEF StepBegins, BudgetInv, AgeInv, Budget
    <2> QED
      BY <2>1, <2>2
  <1>4. CASE StepEnds
    BY <1>4, MovesOnBudget DEF StepEnds
  <1>5. CASE StepRaises \/ AttemptStopped \/ BackoffRefused
    BY <1>5, StepFailsBudget DEF StepRaises, AttemptStopped, BackoffRefused
  <1>6. CASE AttemptBegins
    <2>1. elapsed < Deadline
      BY <1>0, <1>6 DEF AttemptBegins, MustStop, Expired
    <2> QED
      BY <1>6, <2>1 DEF AttemptBegins, BudgetInv, AgeInv, Budget
  <1>7. CASE CallAnswers
    BY <1>7 DEF CallAnswers, BudgetInv, AgeInv, Budget
  <1>8. CASE CallBacksOff
    <2>1. elapsed + timer' < Deadline
      BY <1>0, <1>8 DEF CallBacksOff
    <2> QED
      BY <1>8, <2>1 DEF CallBacksOff, BudgetInv, AgeInv, Budget
  <1>9. CASE UNCHANGED vars
    BY <1>9 DEF vars, BudgetInv, AgeInv, Budget
  <1> QED
    BY <1>1, <1>2, <1>3, <1>4, <1>5, <1>6, <1>7, <1>8, <1>9 DEF Next

\* While the deadline reaches every call, both hold throughout.
LEMMA BudgetAlways ==
  ASSUME DeadlineReachesCalls
  PROVE  Spec => [](TypeOK /\ BudgetInv /\ AgeInv)
  <1>1. Init => BudgetInv /\ AgeInv
    BY TimingConstants, LargerBounds DEF Init, BudgetInv, AgeInv, Budget
  <1>2. TypeOK /\ TypeOK' /\ BudgetInv /\ AgeInv /\ [Next]_vars => BudgetInv' /\ AgeInv'
    BY BudgetInductive
  <1> QED
    BY <1>1, <1>2, TimingTypes, PTL DEF Spec

\* A job whose calls all see the deadline overruns it by at most one call's
\* timeout, or one stretch of local work, however its calls fail, back off and
\* hang (resilience.py: Deadline, call_with_retry).
THEOREM OverrunHolds ==
  ASSUME DeadlineReachesCalls
  PROVE  Spec => []OverrunBounded
  <1>1. BudgetInv => OverrunBounded
    BY DEF BudgetInv, OverrunBounded, Budget
  <1> QED
    BY <1>1, BudgetAlways, PTL

\* With a window that covers the queue, the budget and the overrun, the reaper
\* never takes the row of a job in flight, even one that touches it only at its
\* end (reaper.py, compile_package).
THEOREM FreshHolds ==
  ASSUME DeadlineReachesCalls, WindowCoversJob
  PROVE  Spec => []LiveJobIsFresh
  <1>1. TypeOK /\ BudgetInv /\ AgeInv => LiveJobIsFresh
    BY TimingConstants, LargerBounds
       DEF TypeOK, BudgetInv, AgeInv, Budget, WindowCoversJob, LiveJobIsFresh
  <1> QED
    BY <1>1, BudgetAlways, PTL

-----------------------------------------------------------------------------
(* The judge's job (ContentJudge) *)

TaskRecord ==
  [state : {"pending", "running", "done", "failed", "cancelled"}, count : 0 .. Samples,
   sum : Nat, retried : BOOLEAN, calls : Nat]

TasksOK ==
  /\ Len(order) \in Nat /\ DOMAIN order = 1 .. Len(order)
  /\ task \in [DOMAIN order -> TaskRecord]
  /\ main \in {"idle", "awaiting", "unwinding", "scored", "failed"}
  /\ awaited \in 1 .. Len(order) + 1

\* A task has bought one call for each sample it has, one for its retry and one for
\* its failure; and it is done when its samples are complete, not before.
TaskInv ==
  \A i \in DOMAIN order :
    /\ task[i].state = "done" <=> task[i].count = Samples
    /\ task[i].calls <= task[i].count + 2
    /\ task[i].state # "failed" => task[i].calls <= task[i].count + 1
    /\ task[i].state # "failed" /\ ~task[i].retried => task[i].calls <= task[i].count

\* Where the job's own thread stands: what it has passed is done, what it waits for
\* is there, and once it unwinds nothing is left in the queue.
MainInv ==
  /\ main # "idle" => \A i \in 1 .. awaited - 1 : task[i].state = "done"
  /\ main = "awaiting" => awaited <= Len(order)
  /\ main = "scored" => awaited = Len(order) + 1
  /\ main \in {"unwinding", "failed"} =>
       /\ awaited <= Len(order) /\ task[awaited].state = "failed"
       /\ \A i \in DOMAIN order : task[i].state # "pending"
  /\ main = "failed" => \A i \in DOMAIN order : task[i].state # "running"
  /\ main = "idle" => order = <<>>

JudgeInv == TasksOK /\ TaskInv /\ MainInv

LEMMA JudgeInvIsEnough == JudgeInv => JobEndsInOrder
  <1> SUFFICES ASSUME JudgeInv PROVE JobEndsInOrder
    OBVIOUS
  <1> USE JudgeConstants DEF JudgeInv, TasksOK, TaskInv, MainInv, TaskRecord
  <1>1. Making!FirstFailureIsRaised
    BY DEF Making!FirstFailureIsRaised
  <1>2. Making!JobEndsAlone
    BY DEF Making!JobEndsAlone, Making!In
  <1>3. Making!JudgeSpendBounded
    BY DEF Making!JudgeSpendBounded
  <1> QED
    BY <1>1, <1>2, <1>3 DEF JobEndsInOrder, Making!JobEndsInOrder

\* A task record in keeping with TaskInv.
Sound(t) ==
  /\ t \in TaskRecord
  /\ t.state = "done" <=> t.count = Samples
  /\ t.calls <= t.count + 2
  /\ t.state # "failed" => t.calls <= t.count + 1
  /\ t.state # "failed" /\ ~t.retried => t.calls <= t.count

\* A task that is taken or answered leaves the others, and the thread, where they are.
LEMMA TaskMoves ==
  ASSUME JudgeInv, NEW i \in DOMAIN order, task[i].state \in {"pending", "running"},
         NEW new, Sound(new), new.state \in {"running", "done", "failed"},
         task' = [task EXCEPT ![i] = new], UNCHANGED <<order, main, awaited>>
  PROVE  JudgeInv'
  <1>1. TasksOK'
    BY DEF Sound, JudgeInv, TasksOK
  <1>2. \A j \in DOMAIN order : task'[j] = IF j = i THEN new ELSE task[j]
    BY DEF JudgeInv, TasksOK
  <1>3. TaskInv'
    BY <1>2 DEF Sound, JudgeInv, TaskInv
  <1>4. MainInv'
    BY <1>2 DEF JudgeInv, TasksOK, MainInv
  <1> QED
    BY <1>1, <1>3, <1>4 DEF JudgeInv

LEMMA JudgeStepKeeps ==
  ASSUME JudgeInv, Making!JudgeNext PROVE JudgeInv'
  <1>1. ASSUME NEW i \in DOMAIN order, Making!Take(i) \/ Making!Answer(i) PROVE JudgeInv'
    <2>1. task[i] \in TaskRecord /\ Sound(task[i]) /\ task[i].state \in {"pending", "running"}
      BY <1>1 DEF Making!Take, Making!Answer, Making!Sampled, Making!Unusable, Making!GaveUp, Making!In,
         JudgeInv, TasksOK, TaskInv, Sound
    <2>2. UNCHANGED <<order, main, awaited>>
      BY <1>1 DEF Making!Take, Making!Answer, Making!Sampled, Making!Unusable, Making!GaveUp
    <2>3. CASE Making!Take(i)
      <3> DEFINE new == [task[i] EXCEPT !.state = "running"]
      <3>1. task' = [task EXCEPT ![i] = new]
        BY <2>3 DEF Making!Take
      <3>2. task[i].state = "pending"
        BY <2>3 DEF Making!Take, Making!In
      <3>3. Sound(new) /\ new.state = "running"
        BY <2>1, <3>2 DEF Sound, TaskRecord
      <3> HIDE DEF new
      <3> QED
        BY <2>1, <2>2, <3>1, <3>3, TaskMoves
    <2>4. /\ task[i].count \in 0 .. Samples /\ task[i].sum \in Nat /\ task[i].calls \in Nat
          /\ task[i].retried \in BOOLEAN /\ task[i].calls + 1 \in Nat
      BY <2>1 DEF TaskRecord
    <2>5. ASSUME NEW draw \in Draws, Making!Sampled(i, draw) PROVE JudgeInv'
      <3> DEFINE next == IF task[i].count + 1 = Samples THEN "done" ELSE "running"
                 new == [task[i] EXCEPT !.state = next, !.count = @ + 1, !.sum = @ + draw,
                                        !.calls = @ + 1]
      <3>1. task' = [task EXCEPT ![i] = new]
        BY <2>5 DEF Making!Sampled
      <3>2. task[i].state = "running"
        BY <2>5 DEF Making!Sampled, Making!In
      <3>a. task[i].count # Samples
        BY <2>1, <3>2 DEF Sound
      <3>3. task[i].count + 1 \in 0 .. Samples /\ task[i].sum + draw \in Nat
        BY <2>4, <3>a, JudgeConstants
      <3>4. next \in {"done", "running"} /\ (next = "done" <=> task[i].count + 1 = Samples)
        OBVIOUS
      <3> HIDE DEF next
      <3>5. new \in TaskRecord
        BY <2>1, <2>4, <3>3, <3>4, Zenon DEF TaskRecord
      <3>6. /\ new.state = next /\ new.count = task[i].count + 1
            /\ new.calls = task[i].calls + 1 /\ new.retried = task[i].retried
        BY <2>1 DEF TaskRecord
      <3> HIDE DEF new
      <3>7. Sound(new) /\ new.state \in {"running", "done"}
        BY <2>1, <2>4, <3>2, <3>a, <3>3, <3>4, <3>5, <3>6 DEF Sound
      <3> QED
        BY <2>1, <2>2, <3>1, <3>7, TaskMoves
    <2>6. CASE Making!Unusable(i)
      <3> DEFINE next == IF task[i].retried THEN "failed" ELSE "running"
                 new == [task[i] EXCEPT !.state = next, !.retried = TRUE, !.calls = @ + 1]
      <3>1. task' = [task EXCEPT ![i] = new]
        BY <2>6 DEF Making!Unusable
      <3>2. task[i].state = "running"
        BY <2>6 DEF Making!Unusable, Making!In
      <3>3. task[i].count # Samples
        BY <2>1, <3>2 DEF Sound
      <3>4. next \in {"failed", "running"} /\ (next = "running" <=> ~task[i].retried)
        BY <2>4
      <3> HIDE DEF next
      <3>5. new \in TaskRecord
        BY <2>1, <2>4, <3>4, Zenon DEF TaskRecord
      <3>6. /\ new.state = next /\ new.count = task[i].count
            /\ new.calls = task[i].calls + 1 /\ new.retried = TRUE
        BY <2>1 DEF TaskRecord
      <3> HIDE DEF new
      <3>7. Sound(new) /\ new.state \in {"running", "failed"}
        BY <2>1, <2>4, <3>2, <3>3, <3>4, <3>5, <3>6 DEF Sound
      <3> QED
        BY <2>1, <2>2, <3>1, <3>7, TaskMoves
    <2>7. CASE Making!GaveUp(i)
      <3> DEFINE new == [task[i] EXCEPT !.state = "failed", !.calls = @ + 1]
      <3>1. task' = [task EXCEPT ![i] = new]
        BY <2>7 DEF Making!GaveUp
      <3>2. task[i].state = "running"
        BY <2>7 DEF Making!GaveUp, Making!In
      <3>3. task[i].count # Samples
        BY <2>1, <3>2 DEF Sound
      <3>5. new \in TaskRecord
        BY <2>1, <2>4, Zenon DEF TaskRecord
      <3>6. /\ new.state = "failed" /\ new.count = task[i].count
            /\ new.calls = task[i].calls + 1
        BY <2>1 DEF TaskRecord
      <3> HIDE DEF new
      <3>7. Sound(new) /\ new.state = "failed"
        BY <2>1, <2>4, <3>2, <3>3, <3>5, <3>6 DEF Sound
      <3> QED
        BY <2>1, <2>2, <3>1, <3>7, TaskMoves
    <2> QED
      BY <1>1, <2>3, <2>5, <2>6, <2>7 DEF Making!Answer
  <1>2. ASSUME Making!Collect, awaited \in Making!In("done") PROVE JudgeInv'
    <2>1. /\ awaited \in DOMAIN order /\ task[awaited].state = "done"
          /\ main = "awaiting" /\ awaited' = awaited + 1
          /\ main' = IF awaited = Len(order) THEN "scored" ELSE "awaiting"
          /\ UNCHANGED <<order, task>>
      BY <1>2 DEF Making!Collect, Making!In
    <2> QED
      BY <2>1 DEF JudgeInv, TasksOK, TaskInv, MainInv
  <1>3. ASSUME Making!Collect, awaited \in Making!In("failed") PROVE JudgeInv'
    <2> DEFINE Left(j) == IF task[j].state = "pending"
                          THEN [task[j] EXCEPT !.state = "cancelled"] ELSE task[j]
    <2>1. /\ awaited \in DOMAIN order /\ task[awaited].state = "failed"
          /\ main = "awaiting" /\ main' = "unwinding"
          /\ task' = [j \in DOMAIN order |-> Left(j)]
          /\ UNCHANGED <<order, awaited>>
      BY <1>3 DEF Making!Collect, Making!In
    <2>2. ASSUME NEW j \in DOMAIN order
          PROVE  /\ Left(j) \in TaskRecord /\ Left(j).state # "pending"
                 /\ Left(j).count = task[j].count /\ Left(j).calls = task[j].calls
                 /\ Left(j).retried = task[j].retried
                 /\ \A state \in {"done", "failed", "running"} :
                      Left(j).state = state <=> task[j].state = state
      BY DEF JudgeInv, TasksOK, TaskRecord
    <2> HIDE DEF Left
    <2>3. TasksOK'
      BY <2>1, <2>2 DEF JudgeInv, TasksOK
    <2>4. TaskInv'
      BY <2>1, <2>2 DEF JudgeInv, TasksOK, TaskInv
    <2>5. \A j \in DOMAIN order : task'[j] = Left(j)
      BY <2>1
    <2>6. /\ awaited <= Len(order) /\ \A j \in 1 .. awaited - 1 : j \in DOMAIN order
          /\ \A j \in 1 .. awaited - 1 : task[j].state = "done"
      BY <2>1 DEF JudgeInv, TasksOK, MainInv
    <2>7. MainInv'
      BY <2>1, <2>2, <2>5, <2>6 DEF MainInv
    <2> QED BY <2>3, <2>4, <2>7 DEF JudgeInv
  <1>4. CASE Making!Join
    BY <1>4 DEF Making!Join, Making!In, JudgeInv, TasksOK, TaskInv, MainInv
  <1> QED
    BY <1>1, <1>2, <1>3, <1>4 DEF Making!JudgeNext, Making!Collect

-----------------------------------------------------------------------------
(* Places in order *)

\* A rubric has finitely many dimensions, in order.
Finite(dims) == \E n \in Nat : DOMAIN dims = 1 .. n

\* Counting is the same inside the instance and outside.
LEMMA SameCardinality ==
  ASSUME NEW S
  PROVE  Making!Cardinality(S) = Cardinality(S)
  BY DEF Making!Cardinality, Cardinality

\* A function on the first n numbers is a sequence of length n.
LEMMA CountedSequence ==
  ASSUME NEW S, NEW n \in Nat, NEW f, f \in [1 .. n -> S]
  PROVE  f \in Seq(S) /\ Len(f) = n /\ DOMAIN f = 1 .. n /\ (f = <<>> <=> n = 0)
  <1>1. f \in Seq(S) /\ Len(f) = n /\ DOMAIN f = 1 .. n
    OBVIOUS
  <1>2. f = <<>> <=> Len(f) = 0
    BY <1>1
  <1> QED
    BY <1>1, <1>2

\* Where each of n things has a number of its own among the first n, every number is
\* taken.
LEMMA InjectiveIsOnto ==
  ASSUME NEW S, IsFiniteSet(S), NEW N \in Nat, Cardinality(S) = N,
         NEW f \in [S -> 1 .. N], \A x, y \in S : f[x] = f[y] => x = y
  PROVE  \A n \in 1 .. N : \E x \in S : f[x] = n
  <1> SUFFICES ASSUME NEW n \in 1 .. N, \A x \in S : f[x] # n PROVE FALSE
    OBVIOUS
  <1> DEFINE others == (1 .. N) \ {n}
  <1>1. IsFiniteSet(1 .. N) /\ Cardinality(1 .. N) = N
    BY FS_Interval
  <1>2. IsFiniteSet(others) /\ Cardinality(others) = N - 1
    BY <1>1, FS_RemoveElement
  <1>3. f \in [S -> others]
    OBVIOUS
  <1>4. Cardinality(others) < Cardinality(S)
    BY <1>2
  <1> HIDE DEF others
  <1> QED
    BY <1>2, <1>3, <1>4, FS_PigeonHole

\* A non-empty set of naturals has a least element.
LEMMA LeastNatural ==
  ASSUME NEW S \in SUBSET Nat, S # {}
  PROVE  \E x \in S : \A y \in S : x <= y
  <1>1. IsWellFoundedOn(OpToRel(<, Nat), Nat)
    BY NatLessThanWellFounded
  <1>2. PICK R : R = {ss \in Nat \X Nat : ss[1] < ss[2]} /\ IsWellFoundedOn(R, Nat)
    BY <1>1, Zenon DEF OpToRel
  <1>3. PICK x \in S : \A y \in S : ~(<<y, x>> \in R)
    BY <1>2, WFMin, Zenon
  <1>4. ASSUME NEW y \in S PROVE x <= y
    <2>1. x \in Nat /\ y \in Nat
      OBVIOUS
    <2>2. y < x => <<y, x>> \in R
      BY <1>2, <2>1
    <2> QED
      BY <1>3, <2>1, <2>2
  <1> QED
    BY <1>4

\* How many of the places come up to one, and the places one after the other.
CountUpTo(places, i) == Cardinality({j \in places : j <= i})
InOrder(places) ==
  [n \in 1 .. Cardinality(places) |-> CHOOSE i \in places : n = CountUpTo(places, i)]

\* They are all there, each once, and they rise.
LEMMA PlacesInOrder ==
  ASSUME NEW m \in Nat, NEW places \in SUBSET (1 .. m)
  PROVE  LET k == Cardinality(places)
             at == InOrder(places)
         IN /\ k \in Nat /\ at \in [1 .. k -> places]
            /\ \A i \in places : \E n \in 1 .. k : at[n] = i
            /\ \A a, b \in 1 .. k : a < b <=> at[a] < at[b]
            /\ \A a, b \in 1 .. k : at[a] = at[b] => a = b
            /\ k = 0 <=> places = {}
  <1> DEFINE k == Cardinality(places)
             at == InOrder(places)
             upTo(i) == {j \in places : j <= i}
             count(i) == CountUpTo(places, i)
  <1>1. IsFiniteSet(places) /\ k \in Nat /\ (k = 0 <=> places = {})
    <2>1. IsFiniteSet(1 .. m)
      BY FS_Interval
    <2> QED
      BY <2>1, FS_Subset, FS_CardinalityType, FS_EmptySet
  <1>2. \A i \in places : i \in Nat
    OBVIOUS
  <1>3. \A i \in places : count(i) = Cardinality(upTo(i)) /\ upTo(i) \subseteq places
    BY DEF CountUpTo
  <1>4. at = [n \in 1 .. k |-> CHOOSE i \in places : n = count(i)]
    BY DEF InOrder
  <1>u. \A i, j : j \in upTo(i) <=> j \in places /\ j <= i
    OBVIOUS
  <1> HIDE DEF k, at, count, upTo
  <1>5. ASSUME NEW i \in places PROVE count(i) \in 1 .. k /\ IsFiniteSet(upTo(i))
    <2>1. i \in upTo(i)
      BY <1>2, <1>u
    <2>2. /\ IsFiniteSet(upTo(i)) /\ count(i) <= k /\ count(i) \in Nat /\ count(i) # 0
      BY <1>1, <1>3, <2>1, FS_Subset, FS_CardinalityType, FS_EmptySet DEF k
    <2> QED
      BY <1>1, <2>2
  <1>6. ASSUME NEW i \in places, NEW j \in places, i < j PROVE count(i) < count(j)
    <2>1. upTo(i) \subseteq upTo(j) /\ j \in upTo(j) /\ j \notin upTo(i)
      <3>1. i \in Nat /\ j \in Nat /\ ~(j <= i) /\ j <= j
        BY <1>2, <1>6
      <3>2. \A l \in places : l \in Nat /\ (l <= i => l <= j)
        BY <1>2, <1>6, <3>1
      <3> QED
        BY <1>u, <3>1, <3>2, Zenon
    <2>2. count(i) <= count(j) /\ count(i) # count(j)
      BY <1>3, <1>5, <2>1, FS_Subset
    <2> QED
      BY <1>1, <1>5, <2>2
  <1>7. ASSUME NEW i \in places, NEW j \in places, count(i) = count(j) PROVE i = j
    <2>0. count(i) \in Nat /\ count(j) \in Nat
      BY <1>1, <1>5
    <2>1. ~(i < j) /\ ~(j < i)
      BY <1>6, <1>7, <2>0
    <2> QED
      BY <1>2, <2>1
  <1>8. ASSUME NEW n \in 1 .. k PROVE \E i \in places : count(i) = n
    <2> DEFINE f == [i \in places |-> count(i)]
    <2>1. f \in [places -> 1 .. k] /\ \A i \in places : f[i] = count(i)
      BY <1>5
    <2> HIDE DEF f
    <2>2. \A i, j \in places : f[i] = f[j] => i = j
      BY <1>7, <2>1
    <2>3. Cardinality(places) = k
      BY DEF k
    <2>4. \A l \in 1 .. k : \E i \in places : f[i] = l
      BY <1>1, <2>1, <2>2, <2>3, InjectiveIsOnto
    <2> QED
      BY <2>1, <2>4
  <1>9. \A n \in 1 .. k : at[n] \in places /\ count(at[n]) = n
    BY <1>4, <1>8
  <1>10. at \in [1 .. k -> places]
    BY <1>4, <1>9
  <1>11. ASSUME NEW i \in places PROVE \E n \in 1 .. k : at[n] = i
    BY <1>5, <1>7, <1>9
  <1>12. ASSUME NEW a \in 1 .. k, NEW b \in 1 .. k PROVE (a < b <=> at[a] < at[b]) /\ (at[a] = at[b] => a = b)
    <2>1. /\ at[a] \in places /\ at[b] \in places /\ count(at[a]) = a /\ count(at[b]) = b
          /\ at[a] \in Nat /\ at[b] \in Nat
      BY <1>2, <1>9
    <2>2. at[a] < at[b] => a < b
      BY <1>6, <2>1
    <2>3. at[b] < at[a] => b < a
      BY <1>6, <2>1
    <2>4. at[a] = at[b] => a = b
      BY <2>1, Zenon
    <2> QED
      BY <2>1, <2>2, <2>3, <2>4
  <1>13. /\ \A i \in places : \E n \in 1 .. k : at[n] = i
         /\ \A a, b \in 1 .. k : (a < b <=> at[a] < at[b]) /\ (at[a] = at[b] => a = b)
    BY <1>11, <1>12
  <1> QED
    BY <1>1, <1>10, <1>13 DEF k, at

\* There is a last one.
LEMMA GreatestPlace ==
  ASSUME NEW m \in Nat, NEW places \in SUBSET (1 .. m), places # {}
  PROVE  \E k \in places : \A j \in places : j <= k
  <1> DEFINE k == Cardinality(places)
             at == InOrder(places)
  <1>1. /\ k \in Nat /\ k # 0 /\ at \in [1 .. k -> places]
        /\ \A i \in places : \E n \in 1 .. k : at[n] = i
        /\ \A a, b \in 1 .. k : a < b <=> at[a] < at[b]
    BY PlacesInOrder
  <1> HIDE DEF k, at
  <1>2. at[k] \in places
    BY <1>1
  <1>n. \A i \in places : i \in Nat
    OBVIOUS
  <1>3. ASSUME NEW j \in places PROVE j <= at[k]
    <2>1. PICK n \in 1 .. k : at[n] = j
      BY <1>1
    <2>2. at[k] \in Nat /\ j \in Nat
      BY <1>2, <1>n
    <2>3. ~(k < n) /\ k \in 1 .. k
      BY <1>1
    <2>4. ~(at[k] < at[n])
      BY <1>1, <2>3
    <2> QED
      BY <2>1, <2>2, <2>4
  <1> QED
    BY <1>2, <1>3

\* What is kept of a sequence stands at those places.
LEMMA KeptInOrder ==
  ASSUME NEW s, NEW places
  PROVE  Making!AtPlaces(s, places) = [n \in 1 .. Cardinality(places) |-> s[InOrder(places)[n]]]
  <1>1. \A i : Making!Cardinality({j \in places : j <= i}) = CountUpTo(places, i)
    BY SameCardinality DEF CountUpTo
  <1>2. Making!Cardinality(places) = Cardinality(places)
    BY SameCardinality
  <1>3. Making!AtPlaces(s, places) =
          [n \in 1 .. Making!Cardinality(places) |->
             s[CHOOSE i \in places : n = Making!Cardinality({j \in places : j <= i})]]
    BY DEF Making!AtPlaces
  <1> DEFINE k == Cardinality(places)
             one(n) == CHOOSE i \in places : n = Making!Cardinality({j \in places : j <= i})
             two(n) == CHOOSE i \in places : n = CountUpTo(places, i)
  <1>a. \A n : one(n) = two(n)
    BY <1>1
  <1> HIDE DEF k, one, two
  <1>b. Making!AtPlaces(s, places) = [n \in 1 .. k |-> s[one(n)]]
    BY <1>2, <1>3, Zenon DEF one, k
  <1>c. Making!AtPlaces(s, places) = [n \in 1 .. k |-> s[two(n)]]
    BY <1>a, <1>b
  <1>4. Making!AtPlaces(s, places) =
          [n \in 1 .. Cardinality(places) |-> s[CHOOSE i \in places : n = CountUpTo(places, i)]]
    BY <1>c, Zenon DEF two, k
  <1> QED
    BY <1>4 DEF InOrder

\* A list cut to its first two begins as it did.
FirstOf(first, list, n) ==
  /\ first # <<>> /\ Len(first) \in Nat /\ DOMAIN first = 1 .. Len(first)
  /\ 1 \in DOMAIN first /\ first[1] = list[1]
  /\ DOMAIN first = {m \in 1 .. n : m <= 2}
  /\ \A m \in DOMAIN first : first[m] = list[m]

LEMMA FirstTwo ==
  ASSUME NEW n \in Nat \ {0}, NEW S, NEW list \in [1 .. n -> S]
  PROVE  FirstOf(Making!UpTo(2, list), list, n)
  <1> DEFINE first == Making!UpTo(2, list)
             most == IF n < 2 THEN n ELSE 2
  <1>1. Len(list) = n /\ list \in Seq(S)
    BY CountedSequence
  <1>2. first = SubSeq(list, 1, most)
    BY <1>1 DEF Making!UpTo
  <1>3. most \in 1 .. n /\ most \in 1 .. 2 /\ (most = n \/ most = 2)
    OBVIOUS
  <1> HIDE DEF first, most
  <1>4. /\ Len(first) = most /\ DOMAIN first = 1 .. most
        /\ \A m \in 1 .. most : first[m] = list[m]
    BY <1>1, <1>2, <1>3
  <1>5. 1 \in 1 .. most
    BY <1>3
  <1>6. 1 .. most = {m \in 1 .. n : m <= 2}
    BY <1>3
  <1>7. first # <<>>
    BY <1>4, <1>5
  <1>8. most \in Nat
    BY <1>3
  <1> QED
    BY <1>4, <1>5, <1>6, <1>7, <1>8 DEF first, FirstOf

\* What is kept of a sequence is as long as its places are many, each of its elements
\* stands at one of them, and the first at the first.
LEMMA KeptShape ==
  ASSUME NEW s, Finite(s), NEW places, places \subseteq DOMAIN s
  PROVE  LET kept == Making!AtPlaces(s, places)
         IN /\ Len(kept) \in Nat /\ DOMAIN kept = 1 .. Len(kept)
            /\ kept \in Seq({s[i] : i \in places})
            /\ kept = <<>> <=> places = {}
            /\ \A n \in DOMAIN kept : \E i \in places : kept[n] = s[i]
            /\ \A i \in places : \E n \in DOMAIN kept : kept[n] = s[i]
            /\ \A i \in places : (\A j \in places : i <= j) => kept[1] = s[i]
  <1> DEFINE kept == Making!AtPlaces(s, places)
             k == Cardinality(places)
             at == InOrder(places)
  <1>1. PICK m \in Nat : DOMAIN s = 1 .. m
    BY DEF Finite
  <1>2. /\ k \in Nat /\ at \in [1 .. k -> places] /\ (k = 0 <=> places = {})
        /\ \A i \in places : \E n \in 1 .. k : at[n] = i
        /\ \A a, b \in 1 .. k : a < b <=> at[a] < at[b]
    BY <1>1, PlacesInOrder
  <1>3. kept = [n \in 1 .. k |-> s[at[n]]]
    BY KeptInOrder
  <1>4. kept \in [1 .. k -> {s[i] : i \in places}]
    BY <1>2, <1>3
  <1> HIDE DEF kept, k, at
  <1>5. /\ kept \in Seq({s[i] : i \in places}) /\ Len(kept) = k
        /\ DOMAIN kept = 1 .. k /\ (kept = <<>> <=> k = 0)
    BY <1>2, <1>4, CountedSequence
  <1>6. \A n \in 1 .. k : at[n] \in places /\ kept[n] = s[at[n]]
    BY <1>2, <1>3
  <1>7. ASSUME NEW i \in places, \A j \in places : i <= j PROVE kept[1] = s[i]
    <2>1. PICK n \in 1 .. k : at[n] = i
      BY <1>2
    <2>2. 1 \in 1 .. k /\ n \in Nat
      BY <1>2
    <2>3. i <= at[1] /\ i \in Nat /\ at[1] \in Nat
      BY <1>1, <1>6, <1>7, <2>2
    <2>4. ~(1 < n)
      BY <1>2, <2>1, <2>2, <2>3
    <2>5. n = 1
      BY <2>1, <2>2, <2>4
    <2> QED
      BY <1>6, <2>1, <2>2, <2>5
  <1>8. \A i \in places : (\A j \in places : i <= j) => kept[1] = s[i]
    BY <1>7
  <1>9. \A i \in places : \E n \in 1 .. k : kept[n] = s[i]
    BY <1>2, <1>6
  <1> QED
    BY <1>2, <1>5, <1>6, <1>8, <1>9 DEF kept

-----------------------------------------------------------------------------
(* Which score is the weakest *)

\* Scores that a report may have: at least one, each a number.
Scored(scores) ==
  /\ \E n \in Nat \ {0} : DOMAIN scores = 1 .. n
  /\ \A i \in DOMAIN scores : scores[i].score \in Nat

\* The place of the lowest score, the first where several are as low.
IsWeakest(scores, i) ==
  /\ i \in DOMAIN scores
  /\ \A j \in DOMAIN scores : \/ scores[i].score < scores[j].score
                              \/ scores[i].score = scores[j].score /\ i <= j

LEMMA OneIsWeakest ==
  ASSUME NEW scores, Scored(scores)
  PROVE  \E i \in DOMAIN scores : /\ IsWeakest(scores, i)
                                  /\ \A k \in DOMAIN scores : IsWeakest(scores, k) => k = i
  <1>1. PICK n \in Nat \ {0} : DOMAIN scores = 1 .. n
    BY DEF Scored
  <1> DEFINE values == {scores[i].score : i \in DOMAIN scores}
  <1>2. values \in SUBSET Nat /\ values # {}
    BY <1>1 DEF Scored
  <1>3. PICK low \in values : \A v \in values : low <= v
    BY <1>2, LeastNatural
  <1> DEFINE lowest == {i \in DOMAIN scores : scores[i].score = low}
  <1>4. lowest \in SUBSET Nat /\ lowest # {}
    BY <1>1, <1>3
  <1>5. PICK i \in lowest : \A k \in lowest : i <= k
    BY <1>4, LeastNatural
  <1>6. \A j \in DOMAIN scores : scores[j].score \in Nat /\ low <= scores[j].score
    BY <1>3 DEF Scored
  <1>7. i \in DOMAIN scores /\ scores[i].score = low
    BY <1>5
  <1>8. IsWeakest(scores, i)
    BY <1>5, <1>6, <1>7 DEF IsWeakest
  <1>9. ASSUME NEW k \in DOMAIN scores, IsWeakest(scores, k) PROVE k = i
    BY <1>1, <1>6, <1>7, <1>8, <1>9 DEF IsWeakest
  <1> QED
    BY <1>7, <1>8, <1>9

\* The web's rule names it...
LEMMA WeakestDimensionIs ==
  ASSUME NEW scores, Scored(scores), NEW i \in DOMAIN scores, IsWeakest(scores, i)
  PROVE  Making!WeakestDimension(scores) = scores[i]
  <1> DEFINE rule(k) == \A j \in DOMAIN scores : \/ scores[k].score < scores[j].score
                                                 \/ scores[k].score = scores[j].score /\ k <= j
             chosen == CHOOSE k \in DOMAIN scores : rule(k)
  <1>1. \A k \in DOMAIN scores : rule(k) <=> IsWeakest(scores, k)
    BY DEF IsWeakest
  <1>2. Making!WeakestDimension(scores) = scores[chosen]
    BY DEF Making!WeakestDimension
  <1> HIDE DEF rule
  <1>3. chosen \in DOMAIN scores /\ IsWeakest(scores, chosen)
    BY <1>1
  <1> QED
    BY <1>2, <1>3, OneIsWeakest

\* Which scores the worker's sort puts before one.
Before(scores, j, k) == \/ scores[j].score < scores[k].score
                        \/ scores[j].score = scores[k].score /\ j < k
Ahead(scores, k) == {j \in DOMAIN scores : Before(scores, j, k)}
Rank(scores, k) == 1 + Cardinality(Ahead(scores, k))

\* The worker's stable sort puts every place at its rank.
LEMMA RankedPlaces ==
  ASSUME NEW scores, Scored(scores)
  PROVE  LET ranked == Making!WeakestFirst(scores)
         IN /\ ranked \in [DOMAIN scores -> DOMAIN scores]
            /\ \A k \in DOMAIN scores : /\ IsFiniteSet(Ahead(scores, k))
                                        /\ Rank(scores, k) \in DOMAIN scores
                                        /\ ranked[Rank(scores, k)] = k
            /\ \A m \in DOMAIN scores : Rank(scores, ranked[m]) = m
  <1>1. PICK n \in Nat \ {0} : DOMAIN scores = 1 .. n
    BY DEF Scored
  <1>2. IsFiniteSet(DOMAIN scores) /\ Cardinality(DOMAIN scores) = n
    BY <1>1, FS_Interval
  <1> DEFINE before(j, k) == Before(scores, j, k)
             ahead(k) == Ahead(scores, k)
             rank(k) == Rank(scores, k)
             ranked == Making!WeakestFirst(scores)
  <1>3. ranked = [m \in DOMAIN scores |-> CHOOSE k \in DOMAIN scores : m = rank(k)]
    <2>1. \A k : Making!Cardinality(ahead(k)) = Cardinality(ahead(k))
      BY SameCardinality
    <2>2. ranked = [m \in DOMAIN scores |-> CHOOSE k \in DOMAIN scores :
                      m = 1 + Making!Cardinality(ahead(k))]
      BY DEF Making!WeakestFirst, Ahead, Before
    <2> QED
      BY <2>1, <2>2 DEF Rank
  <1>4. /\ \A j, k \in DOMAIN scores : before(j, k) \/ before(k, j) \/ j = k
        /\ \A j, k, l \in DOMAIN scores : before(j, k) /\ before(k, l) => before(j, l)
        /\ \A k \in DOMAIN scores : ~before(k, k)
    BY <1>1 DEF Scored, Before
  <1>b. \A k : ahead(k) = {j \in DOMAIN scores : before(j, k)}
    BY DEF Ahead
  <1>c. \A k : rank(k) = 1 + Cardinality(ahead(k))
    BY DEF Rank
  <1> HIDE DEF before, ranked, ahead, rank
  <1>5. ASSUME NEW k \in DOMAIN scores PROVE IsFiniteSet(ahead(k)) /\ rank(k) \in 1 .. n
    <2>1. ahead(k) \subseteq DOMAIN scores /\ k \notin ahead(k)
      BY <1>4, <1>b
    <2>2. IsFiniteSet(ahead(k)) /\ Cardinality(ahead(k)) <= n /\ Cardinality(ahead(k)) # n
      BY <1>2, <2>1, FS_Subset
    <2>3. Cardinality(ahead(k)) \in Nat
      BY <2>2, FS_CardinalityType
    <2> QED
      BY <1>c, <2>2, <2>3
  <1>6. ASSUME NEW j \in DOMAIN scores, NEW k \in DOMAIN scores, before(j, k)
        PROVE  rank(j) # rank(k)
    <2>1. ahead(j) \subseteq ahead(k) /\ j \in ahead(k) /\ j \notin ahead(j)
      BY <1>4, <1>6, <1>b
    <2>2. Cardinality(ahead(j)) # Cardinality(ahead(k))
      BY <1>5, <2>1, FS_Subset
    <2>3. Cardinality(ahead(j)) \in Nat /\ Cardinality(ahead(k)) \in Nat
      BY <1>5, FS_CardinalityType
    <2> QED
      BY <1>c, <2>2, <2>3
  <1>d. \A j, k \in DOMAIN scores : rank(j) = rank(k) => j = k
    BY <1>4, <1>6
  <1>7. ASSUME NEW m \in DOMAIN scores PROVE \E k \in DOMAIN scores : m = rank(k)
    <2> DEFINE f == [k \in DOMAIN scores |-> rank(k)]
    <2>1. f \in [DOMAIN scores -> 1 .. n] /\ \A k \in DOMAIN scores : f[k] = rank(k)
      BY <1>5
    <2> HIDE DEF f
    <2>3. \A j, k \in DOMAIN scores : f[j] = f[k] => j = k
      BY <1>d, <2>1
    <2>4. \A l \in 1 .. n : \E k \in DOMAIN scores : f[k] = l
      BY <1>2, <2>1, <2>3, InjectiveIsOnto
    <2> QED
      BY <1>1, <2>1, <2>4
  <1>8. \A m \in DOMAIN scores : ranked[m] \in DOMAIN scores /\ rank(ranked[m]) = m
    BY <1>3, <1>7
  <1>9. ranked \in [DOMAIN scores -> DOMAIN scores]
    BY <1>3, <1>8
  <1>10. \A k \in DOMAIN scores : IsFiniteSet(ahead(k)) /\ rank(k) \in DOMAIN scores /\ ranked[rank(k)] = k
    BY <1>1, <1>5, <1>8, <1>d
  <1> QED
    BY <1>8, <1>9, <1>10 DEF ranked, ahead, rank

\* ... and so does the worker's stable sort, which has it first.
LEMMA WeakestFirstIs ==
  ASSUME NEW scores, Scored(scores), NEW i \in DOMAIN scores, IsWeakest(scores, i)
  PROVE  LET ranked == Making!WeakestFirst(scores)
         IN ranked \in [DOMAIN scores -> DOMAIN scores] /\ ranked[1] = i
  <1>1. DOMAIN scores \subseteq Nat /\ \A j \in DOMAIN scores : scores[j].score \in Nat
    BY DEF Scored
  <1>2. Ahead(scores, i) = {}
    BY <1>1 DEF Ahead, Before, IsWeakest
  <1>3. Rank(scores, i) = 1
    BY <1>2, FS_EmptySet DEF Rank
  <1> QED
    BY <1>3, RankedPlaces

\* A report whose verdict follows from its numbers, and whose lines that name one
\* dimension name its weakest.
ReadsOne(r) ==
  /\ Scored(r.scores)
  /\ r.verdict = Making!VerdictOf(r.overall, r.scores)
  /\ \E i \in DOMAIN r.scores :
       /\ IsWeakest(r.scores, i)
       /\ r.headline = r.scores[i].key /\ r.drills[1] = r.scores[i].key
       /\ r.gaps # <<>> => r.gaps[1].key = r.scores[i].key

\* compile_report makes no other.
LEMMA ReportsReadOne ==
  ASSUME NEW rub, NEW scores, NEW grade, NEW r \in Making!ReportsOf(rub, scores, grade),
         Scored(Making!InRubricOrder(rub.dims, scores))
  PROVE  ReadsOne(r) /\ r # Making!NoReport
  <1> DEFINE ordered == Making!InRubricOrder(rub.dims, scores)
             ranked == Making!WeakestFirst(ordered)
             first == Making!UpTo(2, ranked)
             below == {k \in DOMAIN ranked : ordered[ranked[k]].score < Making!GapThreshold}
             low == Making!AtPlaces(ranked, below)
  <1>1. PICK n \in Nat \ {0} : DOMAIN ordered = 1 .. n
    BY DEF Scored
  <1>2. PICK i \in DOMAIN ordered : IsWeakest(ordered, i)
    BY OneIsWeakest
  <1>3. ranked \in [1 .. n -> 1 .. n] /\ ranked[1] = i
    BY <1>1, <1>2, WeakestFirstIs
  <1>4. first # <<>> /\ DOMAIN first = 1 .. Len(first) /\ 1 \in DOMAIN first /\ first[1] = i
    <2> HIDE DEF ordered, ranked
    <2>1. ranked \in [1 .. n -> 1 .. n] /\ n \in Nat \ {0}
      BY <1>3
    <2>2. FirstOf(first, ranked, n)
      BY <2>1, FirstTwo
    <2> QED
      BY <1>3, <2>2 DEF FirstOf
  <1>5. low # <<>> => low[1] = i
    <2>1. Finite(ranked)
      BY <1>1, <1>3 DEF Finite
    <2>2. low # <<>> => below # {}
      BY <2>1, KeptShape
    <2>a. Making!GapThreshold \in Nat
      BY DEF Making!GapThreshold
    <2>b. /\ \A k \in below : k \in 1 .. n
          /\ \A k \in 1 .. n : /\ ordered[ranked[k]].score \in Nat
                              /\ ordered[i].score <= ordered[ranked[k]].score
      BY <1>1, <1>2, <1>3 DEF IsWeakest, Scored
    <2>c. ASSUME NEW k \in below PROVE 1 \in below
      <3>1. k \in 1 .. n /\ ordered[ranked[k]].score < Making!GapThreshold
        BY <2>b
      <3>2. /\ ordered[ranked[k]].score \in Nat /\ ordered[i].score <= ordered[ranked[k]].score
            /\ ordered[i].score \in Nat /\ ranked[1] = i
        BY <1>1, <1>3, <2>b, <3>1 DEF Scored
      <3> HIDE DEF ordered, ranked
      <3>3. ordered[ranked[1]].score < Making!GapThreshold
        BY <2>a, <3>1, <3>2
      <3> QED
        BY <1>1, <1>3, <3>3
    <2>3. below # {} => 1 \in below /\ \A k \in below : 1 <= k
      BY <2>b, <2>c
    <2>d. below \subseteq DOMAIN ranked
      OBVIOUS
    <2>4. 1 \in below /\ (\A k \in below : 1 <= k) => low[1] = ranked[1]
      <3> HIDE DEF below, ranked
      <3>1. \A k \in below : (\A j \in below : k <= j) => low[1] = ranked[k]
        BY <2>1, <2>d, KeptShape
      <3> QED
        BY <3>1
    <2> QED
      BY <1>3, <2>2, <2>3, <2>4
  <1>6. low # <<>> => 1 \in DOMAIN low
    <2>1. Finite(ranked)
      BY <1>1, <1>3 DEF Finite
    <2>2. /\ Len(low) \in Nat /\ DOMAIN low = 1 .. Len(low)
          /\ low \in Seq({ranked[k] : k \in below})
      BY <2>1, KeptShape
    <2> QED
      BY <2>2
  <1>7. PICK overall \in Making!Overalls(rub, ordered) : 
          r = [verdict |-> Making!VerdictOf(overall, ordered),
               headline |-> ordered[ranked[1]].key,
               eligibility |-> grade,
               overall |-> overall,
               scores |-> ordered,
               strengths |-> [k \in DOMAIN Making!UpTo(2, Making!StrongestFirst(ordered)) |->
                                ordered[Making!UpTo(2, Making!StrongestFirst(ordered))[k]].key],
               gaps |-> [k \in DOMAIN low |->
                           [key |-> ordered[low[k]].key,
                            printed |-> Making!Printed(ordered[low[k]].score)]],
               drills |-> [k \in DOMAIN first |-> ordered[first[k]].key]]
    BY Zenon DEF Making!ReportsOf, Making!Kept
  <1> HIDE DEF ordered, ranked, first, below, low
  <1>8. /\ r.scores = ordered /\ r.overall = overall
        /\ r.verdict = Making!VerdictOf(overall, ordered) /\ r.headline = ordered[ranked[1]].key
        /\ r.gaps = [k \in DOMAIN low |->
                       [key |-> ordered[low[k]].key,
                        printed |-> Making!Printed(ordered[low[k]].score)]]
        /\ r.drills = [k \in DOMAIN first |-> ordered[first[k]].key]
    BY <1>7
  <1>9. r.drills[1] = ordered[i].key /\ r.headline = ordered[i].key
    BY <1>3, <1>4, <1>8
  <1>10. r.gaps # <<>> => r.gaps[1].key = ordered[i].key
    <2>1. low = <<>> => r.gaps = <<>>
      BY <1>8
    <2> QED
      BY <1>5, <1>6, <1>8, <2>1
  <1>11. r # Making!NoReport
    BY <1>1, <1>7 DEF Making!NoReport
  <1> QED
    BY <1>2, <1>8, <1>9, <1>10, <1>11 DEF ReadsOne, ordered

\* The web reads such a report as the worker meant it.
LEMMA ReadsOneIsEnough ==
  ASSUME report # Making!NoReport => ReadsOne(report)
  PROVE  Making!VerdictExplained /\ Making!OneWeakest
  <1> SUFFICES ASSUME report # Making!NoReport PROVE Making!VerdictExplained /\ Making!OneWeakest
    BY DEF Making!VerdictExplained, Making!OneWeakest
  <1> DEFINE scores == report.scores
             ranked == Making!WeakestFirst(scores)
             first == Making!UpTo(2, ranked)
  <1>1. Scored(scores) /\ report.verdict = Making!VerdictOf(report.overall, scores)
    BY DEF ReadsOne
  <1>2. PICK i \in DOMAIN scores :
          /\ IsWeakest(scores, i)
          /\ report.headline = scores[i].key /\ report.drills[1] = scores[i].key
          /\ report.gaps # <<>> => report.gaps[1].key = scores[i].key
    BY DEF ReadsOne
  <1>3. PICK n \in Nat \ {0} : DOMAIN scores = 1 .. n
    BY <1>1 DEF Scored
  <1>4. Making!WeakestDimension(scores) = scores[i]
    BY <1>1, <1>2, WeakestDimensionIs
  <1>5. \A j \in DOMAIN scores : scores[j].score \in Nat /\ scores[i].score <= scores[j].score
    BY <1>1, <1>2 DEF Scored, IsWeakest
  <1>6. Making!VerdictExplained
    <2> DEFINE clears == report.overall >= Making!ReadyOverall
               low == \E j \in DOMAIN scores : scores[j].score < Making!ReadyMinDimension
               floor == \A j \in DOMAIN scores : scores[j].score >= Making!ReadyMinDimension
               approaches == report.overall >= Making!ApproachingOverall
    <2>1. (low <=> ~floor) /\ (floor <=> scores[i].score >= Making!ReadyMinDimension)
      BY <1>5 DEF Making!ReadyMinDimension
    <2>2. report.verdict = IF clears /\ floor THEN "ready"
                           ELSE IF approaches THEN "approaching" ELSE "not_ready"
      BY <1>1 DEF Making!VerdictOf
    <2>3. Making!RecomputeVerdict(report.overall, scores) = report.verdict
      BY <2>2 DEF Making!RecomputeVerdict
    <2>4. Making!ClauseFor(report) =
            IF report.verdict = "not_ready" THEN "below-approaching"
            ELSE CASE clears /\ floor -> "both-clear"
                   [] clears /\ ~floor -> "dimension-below-floor"
                   [] ~clears /\ floor -> "overall-below-ready"
                   [] OTHER -> "both-open"
      BY <1>4, <2>1, <2>3, Zenon DEF Making!ClauseFor
    <2> HIDE DEF clears, low, floor, approaches
    <2>5. LET clause == Making!ClauseFor(report)
          IN /\ clause # "unreconciled"
             /\ clause = "both-clear" <=> report.verdict = "ready"
             /\ clause = "below-approaching" <=> report.verdict = "not_ready"
             /\ clause = "dimension-below-floor" => clears /\ low
             /\ clause = "overall-below-ready" => ~clears /\ ~low
             /\ clause = "both-open" => ~clears /\ low
      <3> DEFINE clause == Making!ClauseFor(report)
      <3>1. CASE clears /\ floor
        <4>1. report.verdict = "ready" /\ clause = "both-clear"
          BY <2>2, <2>4, <3>1
        <4> QED
          BY <2>1, <3>1, <4>1
      <3>2. CASE ~(clears /\ floor) /\ ~approaches
        <4>1. report.verdict = "not_ready"
          BY <2>2, <3>2
        <4>2. clause = "below-approaching"
          BY <2>4, <3>2, <4>1
        <4> QED
          BY <2>1, <3>2, <4>1, <4>2
      <3>3. CASE ~(clears /\ floor) /\ approaches
        <4>1. report.verdict = "approaching"
          BY <2>2, <3>3
        <4>2. clause = IF clears THEN "dimension-below-floor"
                       ELSE IF floor THEN "overall-below-ready" ELSE "both-open"
          BY <2>4, <3>3, <4>1
        <4> QED
          BY <2>1, <3>3, <4>1, <4>2
      <3> QED
        BY <3>1, <3>2, <3>3
    <2> QED
      BY <2>5 DEF Making!VerdictExplained, clears, low
  <1>7. ranked \in [1 .. n -> 1 .. n] /\ ranked[1] = i
    BY <1>1, <1>2, <1>3, WeakestFirstIs
  <1>8. 1 \in DOMAIN first /\ first[1] = i
    BY <1>3, <1>7 DEF Making!UpTo
  <1>9. Making!LeadCard(report).key = scores[i].key
    <2>1. CASE \E j \in DOMAIN scores : scores[j].score > scores[i].score
      BY <1>4, <2>1, Zenon DEF Making!LeadCard
    <2>2. CASE ~\E j \in DOMAIN scores : scores[j].score > scores[i].score
      <3>1. i = 1
        <4>1. 1 \in DOMAIN scores /\ i \in Nat /\ i >= 1
          BY <1>3
        <4>2. scores[1].score \in Nat /\ scores[i].score \in Nat /\ scores[i].score <= scores[1].score
          BY <1>5, <4>1
        <4>3. ~(scores[1].score > scores[i].score)
          BY <2>2, <4>1
        <4>4. scores[1].score = scores[i].score
          BY <4>2, <4>3
        <4> QED
          BY <1>2, <4>1, <4>2, <4>4 DEF IsWeakest
      <3>2. Making!LeadCard(report) = scores[1]
        BY <1>4, <2>2, Zenon DEF Making!LeadCard
      <3> QED
        BY <3>1, <3>2
    <2> QED
      BY <2>1, <2>2
  <1>10. scores[i].key \in Making!BottomTwoKeys([scores |-> scores])
    <2>1. Making!BottomTwoKeys([scores |-> scores]) = {scores[ranked[k]].key : k \in DOMAIN first}
      BY DEF Making!BottomTwoKeys
    <2> QED
      BY <1>7, <1>8, <2>1
  <1>11. Making!OneWeakest
    BY <1>2, <1>4, <1>9, <1>10 DEF Making!OneWeakest
  <1> QED
    BY <1>6, <1>11

\* The last score of a dimension is a number, where it has a score at all.
LEMMA LastScoreIs ==
  ASSUME NEW scores, Finite(scores), \A i \in DOMAIN scores : scores[i].score \in Nat,
         NEW key, \E i \in DOMAIN scores : scores[i].key = key
  PROVE  Making!LastScore(scores, key) \in Nat
  <1>1. PICK n \in Nat : DOMAIN scores = 1 .. n
    BY DEF Finite
  <1> DEFINE places == {i \in DOMAIN scores : scores[i].key = key}
             fromEnd == {n - i : i \in places}
             rule(i) == /\ scores[i].key = key
                        /\ \A j \in DOMAIN scores : scores[j].key = key => j <= i
  <1>2. fromEnd \in SUBSET Nat /\ fromEnd # {}
    BY <1>1
  <1>3. PICK d \in fromEnd : \A e \in fromEnd : d <= e
    BY <1>2, LeastNatural
  <1>4. PICK i \in places : d = n - i
    BY <1>3
  <1>5. \A j \in places : j <= i
    <2> SUFFICES ASSUME NEW j \in places PROVE j <= i
      OBVIOUS
    <2>1. n - j \in fromEnd
      OBVIOUS
    <2>2. n - i <= n - j /\ i \in Nat /\ j \in Nat
      BY <1>1, <1>3, <1>4, <2>1
    <2> QED
      BY <2>2
  <1>6. \E k \in DOMAIN scores : rule(k)
    BY <1>5
  <1>7. Making!LastScore(scores, key) = scores[CHOOSE k \in DOMAIN scores : rule(k)].score
    BY DEF Making!LastScore
  <1> HIDE DEF rule
  <1> QED
    BY <1>6, <1>7

-----------------------------------------------------------------------------
(* What the gates and governance make of a reply *)

\* What the gates saw of a reply, and what governance leaves of each of its dimensions.
LEMMA AdmittedFields ==
  ASSUME NEW r \in Replies \cup {Making!Malformed}, NEW rub \in Making!Admitted(r, jd)
  PROVE  LET seen == Making!RepairCitations(r.dims)
         IN /\ Making!IsValid(seen) /\ Making!IsFaithful(seen, jd)
            /\ seen \in Seq(Dimension) /\ DOMAIN rub.dims = DOMAIN seen
            /\ \A i \in DOMAIN seen :
                 /\ rub.dims[i].key = seen[i].key /\ rub.dims[i].channel = seen[i].channel
                 /\ rub.dims[i].license = seen[i].license /\ rub.dims[i].cited = seen[i].cited
                 /\ rub.dims[i].family = seen[i].family
                 /\ rub.dims[i].evidence = IF Making!IsLicensed(seen[i]) THEN seen[i].evidence
                                           ELSE Making!Located(seen[i].evidence)
                 /\ rub.dims[i].probing = IF Making!IsPeripheral(rub.dims[i]) THEN "indirect"
                                          ELSE "direct"
            /\ \A i \in DOMAIN seen : Making!IsPeripheral(rub.dims[i]) => rub.dims[i].key \notin rub.bank
  <1> DEFINE seen == Making!RepairCitations(r.dims)
             located == Making!WithLocated(seen)
             final == [r EXCEPT !.dims = located]
  <1>1. r \in Replies /\ r # Making!Malformed
    BY DEF Making!Admitted
  <1>2. /\ Making!IsValid(seen) /\ Making!IsFaithful(seen, jd) /\ rub = Making!Governed(final, jd)
    BY <1>1 DEF Making!Admitted
  <1>3. r \in [dims : Seq(Dimension), bank : SUBSET STRING] /\ r.dims \in Seq(Dimension)
    BY <1>1, RubricConstants
  <1>4. final.dims = located /\ final.bank = r.bank
    BY <1>3
  <1>5. /\ DOMAIN seen = DOMAIN r.dims /\ DOMAIN r.dims = 1 .. Len(r.dims) /\ Len(r.dims) \in Nat
        /\ \A i \in DOMAIN seen :
             seen[i] = IF Making!IsDelivery(r.dims[i]) THEN [r.dims[i] EXCEPT !.cited = TRUE] ELSE r.dims[i]
    BY <1>3 DEF Making!RepairCitations
  <1>6. ASSUME NEW i \in DOMAIN seen PROVE seen[i] \in Dimension
    <2>1. r.dims[i] \in Dimension
      BY <1>3, <1>5
    <2> QED
      BY <1>5, <2>1 DEF Dimension
  <1>7. seen \in Seq(Dimension)
    <2>1. seen = [i \in 1 .. Len(r.dims) |-> IF Making!IsDelivery(r.dims[i])
                                             THEN [r.dims[i] EXCEPT !.cited = TRUE] ELSE r.dims[i]]
      BY <1>5 DEF Making!RepairCitations
    <2>2. seen \in [1 .. Len(r.dims) -> Dimension]
      BY <1>5, <1>6, <2>1
    <2> QED
      BY <1>5, <2>2, CountedSequence
  <1> HIDE DEF seen
  <1>8. /\ DOMAIN located = DOMAIN seen
        /\ \A i \in DOMAIN seen :
             located[i] = IF Making!IsLicensed(seen[i]) THEN seen[i]
                          ELSE [seen[i] EXCEPT !.evidence = Making!Located(seen[i].evidence)]
    BY DEF Making!WithLocated
  <1> HIDE DEF located, final
  <1>9. /\ DOMAIN rub.dims = DOMAIN located
        /\ \E weights : \A i \in DOMAIN located :
             rub.dims[i] = [located[i] EXCEPT !.weight = weights[i],
                                              !.probing = IF Making!IsPeripheral(located[i])
                                                          THEN "indirect" ELSE "direct"]
        /\ rub.bank = r.bank \ {located[i].key : i \in Making!Having(located, Making!IsPeripheral)}
    BY <1>2, <1>4 DEF Making!Governed
  <1>10. ASSUME NEW i \in DOMAIN seen
         PROVE  /\ located[i].key = seen[i].key /\ located[i].channel = seen[i].channel
                /\ located[i].license = seen[i].license /\ located[i].cited = seen[i].cited
                /\ located[i].family = seen[i].family
                /\ located[i].evidence = IF Making!IsLicensed(seen[i]) THEN seen[i].evidence
                                         ELSE Making!Located(seen[i].evidence)
                /\ DOMAIN located[i] = DOMAIN seen[i] /\ "weight" \in DOMAIN located[i]
                /\ "probing" \in DOMAIN located[i]
    BY <1>6, <1>8 DEF Dimension
  <1>11. ASSUME NEW i \in DOMAIN seen
         PROVE  /\ rub.dims[i].key = seen[i].key /\ rub.dims[i].channel = seen[i].channel
                /\ rub.dims[i].license = seen[i].license /\ rub.dims[i].cited = seen[i].cited
                /\ rub.dims[i].family = seen[i].family
                /\ rub.dims[i].evidence = located[i].evidence
                /\ rub.dims[i].probing = IF Making!IsPeripheral(located[i]) THEN "indirect"
                                         ELSE "direct"
                /\ Making!IsPeripheral(located[i]) <=> Making!IsPeripheral(rub.dims[i])
    <2>1. PICK weights : rub.dims[i] = [located[i] EXCEPT !.weight = weights[i],
                                              !.probing = IF Making!IsPeripheral(located[i])
                                                          THEN "indirect" ELSE "direct"]
      BY <1>8, <1>9
    <2>2. /\ rub.dims[i].key = seen[i].key /\ rub.dims[i].channel = seen[i].channel
          /\ rub.dims[i].license = seen[i].license /\ rub.dims[i].cited = seen[i].cited
          /\ rub.dims[i].family = seen[i].family
          /\ rub.dims[i].evidence = located[i].evidence
          /\ rub.dims[i].probing = IF Making!IsPeripheral(located[i]) THEN "indirect" ELSE "direct"
      BY <1>10, <2>1
    <2> QED
      BY <1>10, <2>2 DEF Making!IsPeripheral, Making!IsContent
  <1>12. ASSUME NEW i \in DOMAIN seen, Making!IsPeripheral(rub.dims[i])
         PROVE  rub.dims[i].key \notin rub.bank
    <2>1. i \in Making!Having(located, Making!IsPeripheral) /\ located[i].key = rub.dims[i].key
      BY <1>8, <1>10, <1>11, <1>12 DEF Making!Having
    <2> QED
      BY <1>9, <2>1
  <1>13. ASSUME NEW i \in DOMAIN seen
         PROVE  /\ rub.dims[i].key = seen[i].key /\ rub.dims[i].channel = seen[i].channel
                /\ rub.dims[i].license = seen[i].license /\ rub.dims[i].cited = seen[i].cited
                /\ rub.dims[i].family = seen[i].family
                /\ rub.dims[i].evidence = IF Making!IsLicensed(seen[i]) THEN seen[i].evidence
                                          ELSE Making!Located(seen[i].evidence)
                /\ rub.dims[i].probing = IF Making!IsPeripheral(rub.dims[i]) THEN "indirect"
                                         ELSE "direct"
    BY <1>10, <1>11
  <1>14. DOMAIN rub.dims = DOMAIN seen
    BY <1>8, <1>9
  <1> QED
    BY <1>2, <1>7, <1>12, <1>13, <1>14 DEF seen

\* An admitted rubric keeps the contract.
LEMMA AdmittedKeeps ==
  ASSUME NEW r \in Replies \cup {Making!Malformed}, rubric' \in Making!Admitted(r, jd), jd' = jd
  PROVE  Making!AdmittedIsFaithful'
  <1> DEFINE seen == Making!RepairCitations(r.dims)
             dims == rubric'.dims
  <1>1. /\ Making!IsValid(seen) /\ Making!IsFaithful(seen, jd) /\ DOMAIN dims = DOMAIN seen
        /\ \A i \in DOMAIN seen :
             /\ dims[i].key = seen[i].key /\ dims[i].channel = seen[i].channel
             /\ dims[i].license = seen[i].license /\ dims[i].cited = seen[i].cited
             /\ dims[i].evidence = IF Making!IsLicensed(seen[i]) THEN seen[i].evidence
                                   ELSE Making!Located(seen[i].evidence)
             /\ dims[i].probing = IF Making!IsPeripheral(dims[i]) THEN "indirect" ELSE "direct"
        /\ \A i \in DOMAIN seen : Making!IsPeripheral(dims[i]) => dims[i].key \notin rubric'.bank
    BY AdmittedFields
  <1> HIDE DEF seen
  <1>2. Making!Having(dims, Making!IsLicensed) = Making!Having(seen, Making!IsLicensed)
    BY <1>1 DEF Making!Having, Making!IsLicensed
  <1>3. ASSUME NEW i \in DOMAIN dims
        PROVE  /\ dims[i].cited
               /\ Making!IsContent(dims[i]) =>
                    IF Making!IsLicensed(dims[i]) THEN jd.profile /\ dims[i].key = Making!FitKey
                    ELSE dims[i].evidence = "exact"
    <2>1. dims[i].cited
      BY <1>1 DEF Making!IsValid
    <2>2. CASE Making!IsLicensed(dims[i])
      <3>1. i \in Making!Having(seen, Making!IsLicensed)
        BY <1>1, <1>2, <2>2 DEF Making!Having
      <3> QED
        BY <1>1, <2>1, <2>2, <3>1 DEF Making!IsFaithful, Making!IsLicensed
    <2>3. CASE ~Making!IsLicensed(dims[i])
      BY <1>1, <2>1, <2>3 DEF Making!IsFaithful, Making!IsLicensed, Making!IsContent, Making!IsDelivery
    <2> QED
      BY <2>2, <2>3
  <1>4. Making!Cardinality(Making!Having(dims, Making!IsLicensed)) <= 1
    BY <1>1, <1>2 DEF Making!IsFaithful
  <1>5. /\ \A i \in DOMAIN dims : dims[i].probing = "indirect" <=> i \in Making!Having(dims, Making!IsPeripheral)
        /\ \A i \in Making!Having(dims, Making!IsPeripheral) : dims[i].key \notin rubric'.bank
    BY <1>1 DEF Making!Having
  <1> HIDE DEF dims
  <1> QED
    BY <1>3, <1>4, <1>5 DEF Making!AdmittedIsFaithful, dims

\* What JudgeStarts submits: the keys of the content dimensions, every one of them.
LEMMA KeysShape ==
  ASSUME NEW dims, Finite(dims)
  PROVE  LET keys == Making!Keys(dims, Making!IsContent)
         IN /\ Len(keys) \in Nat /\ DOMAIN keys = 1 .. Len(keys)
            /\ keys = <<>> <=> Len(keys) = 0
            /\ \A i \in Making!Having(dims, Making!IsContent) :
                 \E n \in DOMAIN keys : keys[n] = dims[i].key
  <1> DEFINE places == Making!Having(dims, Making!IsContent)
             kept == Making!AtPlaces(dims, places)
             keys == Making!Keys(dims, Making!IsContent)
  <1>1. places \subseteq DOMAIN dims
    BY DEF Making!Having
  <1>2. keys = [n \in DOMAIN kept |-> kept[n].key]
    BY Zenon DEF Making!Keys, Making!Kept, Making!Having
  <1> HIDE DEF places, kept, keys
  <1>3. /\ Len(kept) \in Nat /\ DOMAIN kept = 1 .. Len(kept)
        /\ \A i \in places : \E n \in DOMAIN kept : kept[n] = dims[i]
    BY <1>1, KeptShape DEF kept
  <1>4. keys \in [1 .. Len(kept) -> {kept[n].key : n \in DOMAIN kept}]
    BY <1>2, <1>3
  <1>5. /\ Len(keys) = Len(kept) /\ DOMAIN keys = 1 .. Len(keys)
        /\ keys = <<>> <=> Len(kept) = 0
    BY <1>3, <1>4, CountedSequence
  <1>6. \A i \in places : \E n \in DOMAIN keys : keys[n] = dims[i].key
    BY <1>2, <1>3
  <1> QED
    BY <1>3, <1>5, <1>6 DEF keys, places

-----------------------------------------------------------------------------
(* What holds of a report on its way. *)
RubricInv ==
  /\ Finite(rubric.dims)
  /\ stage \notin {"compiling", "refused"} =>
       /\ DOMAIN rubric.dims # {}
       /\ \A d \in DOMAIN rubric.dims : rubric.dims[d].channel \in {"content", "delivery"}

StageInv ==
  /\ attempts \in 0 .. 2 /\ (stage = "compiling" => attempts \in 0 .. 1)
  /\ stage \in {"compiling", "refused", "ready", "insufficient", "transcribed",
                "content-judge", "delivery-judge", "saved", "scored", "failed"}
  /\ eligibility \in {"none", "insufficient", "limited", "scored"}
  /\ order # <<>> => stage \in {"content-judge", "failed"}
  /\ rows # <<>> => Len(rows) = Slots /\ report # Making!NoReport

\* Each content dimension is submitted, and has its score when the judge returns.
Numbered(scores) ==
  (\E S : scores \in Seq(S)) /\ \A i \in DOMAIN scores : scores[i].score \in Nat

ContentInv ==
  /\ stage = "content-judge" => order = Making!Keys(rubric.dims, Making!IsContent)
  /\ stage = "delivery-judge" =>
       /\ Numbered(content)
       /\ \A d \in Making!Having(rubric.dims, Making!IsContent) :
            \E i \in DOMAIN content : content[i].key = rubric.dims[d].key

ReportInv == report # Making!NoReport => ReadsOne(report)

JobInv ==
  JudgeInv /\ RubricInv /\ StageInv /\ ContentInv /\ Making!AdmittedIsFaithful /\ ReportInv

LEMMA JobInvIsEnough == JobInv => JobEndsInOrder /\ ReportReadsOne
  <1> SUFFICES ASSUME JobInv PROVE JobEndsInOrder /\ ReportReadsOne
    OBVIOUS
  <1>1. JobEndsInOrder
    BY JudgeInvIsEnough DEF JobInv
  <1>2. Making!JudgeTypeOK
    BY DEF JobInv, JudgeInv, TasksOK, TaskRecord, Making!JudgeTypeOK
  <1>3. Making!ReportTypeOK
    BY <1>2 DEF JobInv, StageInv, Making!ReportTypeOK
  <1>4. Making!VerdictExplained /\ Making!OneWeakest
    BY ReadsOneIsEnough DEF JobInv, ReportInv
  <1> QED
    BY <1>1, <1>3, <1>4 DEF JobInv, ReportReadsOne, Making!ReportReadsOne

LEMMA JobInit == PartsInit => JobInv
  <1> SUFFICES ASSUME PartsInit PROVE JobInv
    OBVIOUS
  <1>1. /\ Making!JudgeInit /\ rubric = Making!NoRubric /\ stage = "compiling" /\ attempts = 0
        /\ eligibility = "none" /\ report = Making!NoReport /\ rows = <<>>
    BY DEF PartsInit, Making!Init
  <1>2. JudgeInv
    BY <1>1 DEF Making!JudgeInit, JudgeInv, TasksOK, TaskInv, MainInv
  <1>3. DOMAIN rubric.dims = 1 .. 0
    BY <1>1 DEF Making!NoRubric
  <1>4. RubricInv
    BY <1>1, <1>3 DEF RubricInv, Finite
  <1>5. StageInv /\ ContentInv /\ ReportInv
    BY <1>1 DEF Making!JudgeInit, StageInv, ContentInv, ReportInv
  <1>6. Making!AdmittedIsFaithful
    BY <1>1 DEF Making!AdmittedIsFaithful
  <1> QED
    BY <1>2, <1>4, <1>5, <1>6 DEF JobInv

\* An admitted rubric has a dimension, and each is judged from words or from sound.
LEMMA AdmittedShape ==
  ASSUME NEW r \in Replies \cup {Making!Malformed}, NEW rub \in Making!Admitted(r, jd)
  PROVE  /\ Finite(rub.dims) /\ DOMAIN rub.dims # {}
         /\ \A d \in DOMAIN rub.dims : rub.dims[d].channel \in {"content", "delivery"}
  <1> DEFINE seen == Making!RepairCitations(r.dims)
  <1>1. /\ Making!IsValid(seen) /\ seen \in Seq(Dimension) /\ DOMAIN rub.dims = DOMAIN seen
        /\ \A i \in DOMAIN seen : rub.dims[i].channel = seen[i].channel
    BY AdmittedFields
  <1> HIDE DEF seen
  <1>2. DOMAIN seen = 1 .. Len(seen) /\ Len(seen) \in Nat
    BY <1>1
  <1>3. \A i \in DOMAIN seen : seen[i].channel \in {"content", "delivery"}
    <2>1. \A i \in DOMAIN seen : seen[i] \in Dimension
      BY <1>1
    <2> QED
      BY <2>1 DEF Dimension
  <1>4. DOMAIN seen # {}
    BY <1>1 DEF Making!IsValid, Making!Having
  <1> QED
    BY <1>1, <1>2, <1>3, <1>4 DEF Finite

LEMMA CompileKeeps ==
  ASSUME JobInv, NEW r \in Replies \cup {Making!Malformed}, Making!CompileAccepts(r)
  PROVE  JobInv'
  <1>1. /\ rubric' \in Making!Admitted(r, jd) /\ attempts' = 0 /\ stage = "compiling" /\ stage' = "ready"
        /\ UNCHANGED <<order, task, main, awaited, jd, eligibility, content, report, rows>>
    BY DEF Making!CompileAccepts, Making!judgeVars
  <1>2. JudgeInv'
    BY <1>1 DEF JobInv, JudgeInv, TasksOK, TaskInv, MainInv
  <1>3. RubricInv'
    BY <1>1, AdmittedShape DEF RubricInv
  <1>4. StageInv' /\ ContentInv' /\ ReportInv'
    BY <1>1 DEF JobInv, StageInv, ContentInv, ReportInv
  <1>5. Making!AdmittedIsFaithful'
    BY <1>1, AdmittedKeeps
  <1> QED
    BY <1>2, <1>3, <1>4, <1>5 DEF JobInv

LEMMA StartKeeps ==
  ASSUME JobInv, Making!JudgeStarts
  PROVE  JobInv'
  <1> DEFINE keys == Making!Keys(rubric.dims, Making!IsContent)
  <1>1. /\ order' = keys /\ task' = [i \in DOMAIN keys |-> Making!Fresh] /\ awaited' = 1
        /\ main' = IF keys = <<>> THEN "scored" ELSE "awaiting"
        /\ stage = "transcribed" /\ stage' = "content-judge"
        /\ UNCHANGED <<jd, attempts, rubric, eligibility, content, report, rows>>
    BY DEF Making!JudgeStarts, Making!Submit
  <1>2. Len(keys) \in Nat /\ DOMAIN keys = 1 .. Len(keys) /\ (keys = <<>> <=> Len(keys) = 0)
    BY KeysShape DEF JobInv, RubricInv
  <1>3. RubricInv' /\ StageInv' /\ ContentInv' /\ ReportInv'
    BY <1>1 DEF JobInv, RubricInv, StageInv, ContentInv, ReportInv
  <1>4. Making!AdmittedIsFaithful'
    BY <1>1 DEF JobInv, Making!AdmittedIsFaithful
  <1> HIDE DEF keys
  <1>5. /\ Making!Fresh \in TaskRecord /\ Making!Fresh.state = "pending"
        /\ Making!Fresh.count = 0 /\ Making!Fresh.calls = 0
    BY JudgeConstants DEF Making!Fresh, TaskRecord
  <1>6. TasksOK'
    BY <1>1, <1>2, <1>5 DEF TasksOK
  <1>7. TaskInv' /\ MainInv'
    BY <1>1, <1>2, <1>5, JudgeConstants DEF TaskInv, MainInv
  <1> QED
    BY <1>3, <1>4, <1>6, <1>7 DEF JobInv, JudgeInv

LEMMA JudgingKeeps ==
  ASSUME JobInv, Making!Judging
  PROVE  JobInv'
  <1>1. JudgeInv'
    BY JudgeStepKeeps DEF JobInv, Making!Judging
  <1>2. /\ UNCHANGED <<jd, attempts, rubric, stage, eligibility, content, report, rows>>
    BY DEF Making!Judging, Making!reportVars
  <1>3. UNCHANGED order
    BY DEF Making!Judging, Making!JudgeNext, Making!Take, Making!Answer, Making!Sampled,
           Making!Unusable, Making!GaveUp, Making!Collect, Making!Join
  <1>4. RubricInv' /\ StageInv' /\ ContentInv' /\ ReportInv'
    BY <1>2, <1>3 DEF JobInv, RubricInv, StageInv, ContentInv, ReportInv
  <1>5. Making!AdmittedIsFaithful'
    BY <1>2 DEF JobInv, Making!AdmittedIsFaithful
  <1> QED
    BY <1>1, <1>4, <1>5 DEF JobInv

\* Rounding a mean leaves a number.
LEMMA QuotientIsNatural ==
  ASSUME NEW a \in Nat, NEW b \in Nat \ {0}
  PROVE  a \div b \in Nat
  OBVIOUS

LEMMA ReturnKeeps ==
  ASSUME JobInv, Making!JudgeReturns
  PROVE  JobInv'
  <1>1. /\ content' = Making!ContentScores /\ order' = <<>> /\ task' = <<>> /\ main' = "idle"
        /\ awaited' = 1 /\ stage = "content-judge" /\ stage' = "delivery-judge" /\ main = "scored"
        /\ UNCHANGED <<jd, attempts, rubric, eligibility, report, rows>>
    BY DEF Making!JudgeReturns
  <1>2. JudgeInv'
    BY <1>1 DEF JudgeInv, TasksOK, TaskInv, MainInv
  <1>3. RubricInv' /\ StageInv' /\ ReportInv'
    BY <1>1 DEF JobInv, RubricInv, StageInv, ReportInv
  <1>4. Making!AdmittedIsFaithful'
    BY <1>1 DEF JobInv, Making!AdmittedIsFaithful
  <1>5. Len(order) \in Nat /\ DOMAIN order = 1 .. Len(order)
    BY DEF JobInv, JudgeInv, TasksOK
  <1>6. ASSUME NEW i \in DOMAIN order PROVE Making!Mean(i) \in Nat
    <2>1. task[i].count = Samples /\ task[i].sum \in Nat
      BY <1>1, <1>5 DEF JobInv, JudgeInv, TasksOK, TaskInv, MainInv, TaskRecord
    <2>2. 20 * task[i].sum + task[i].count \in Nat /\ 2 * task[i].count \in Nat \ {0}
      BY <2>1, JudgeConstants
    <2> QED
      BY <2>2, QuotientIsNatural DEF Making!Mean
  <1>7. content' = [i \in 1 .. Len(order) |-> [key |-> order[i], score |-> Making!Mean(i)]]
    BY <1>1, <1>5 DEF Making!ContentScores
  <1>8. /\ content' \in Seq({content'[i] : i \in 1 .. Len(order)}) /\ DOMAIN content' = 1 .. Len(order)
        /\ \A i \in 1 .. Len(order) : content'[i].key = order[i] /\ content'[i].score \in Nat
    BY <1>5, <1>6, <1>7
  <1>9. ASSUME NEW d \in Making!Having(rubric.dims, Making!IsContent)
        PROVE  \E i \in DOMAIN content' : content'[i].key = rubric.dims[d].key
    <2>1. order = Making!Keys(rubric.dims, Making!IsContent) /\ Finite(rubric.dims)
      BY <1>1 DEF JobInv, ContentInv, RubricInv
    <2>2. \E i \in DOMAIN order : order[i] = rubric.dims[d].key
      BY <2>1, KeysShape
    <2> QED
      BY <1>5, <1>8, <2>2
  <1>10. ContentInv'
    BY <1>1, <1>8, <1>9 DEF ContentInv, Numbered
  <1> QED
    BY <1>2, <1>3, <1>4, <1>10 DEF JobInv

\* Scores one after the other are scores, and none is lost.
Joined(s, t) == s \o t

LEMMA ScoresJoined ==
  ASSUME NEW s, Numbered(s), NEW t, Numbered(t)
  PROVE  /\ Numbered(Joined(s, t)) /\ Finite(Joined(s, t))
         /\ \A i \in DOMAIN s : \E n \in DOMAIN Joined(s, t) : Joined(s, t)[n] = s[i]
         /\ \A i \in DOMAIN t : \E n \in DOMAIN Joined(s, t) : Joined(s, t)[n] = t[i]
  <1> DEFINE st == Joined(s, t)
  <1>1. PICK S : s \in Seq(S)
    BY DEF Numbered
  <1>2. PICK T : t \in Seq(T)
    BY DEF Numbered
  <1>3. s \in Seq(S \cup T) /\ t \in Seq(S \cup T)
    BY <1>1, <1>2
  <1>4. /\ Len(s) \in Nat /\ DOMAIN s = 1 .. Len(s) /\ Len(t) \in Nat /\ DOMAIN t = 1 .. Len(t)
        /\ st \in Seq(S \cup T) /\ DOMAIN st = 1 .. Len(s) + Len(t)
        /\ \A n \in 1 .. Len(s) + Len(t) :
             st[n] = IF n <= Len(s) THEN s[n] ELSE t[n - Len(s)]
    BY <1>3 DEF Joined
  <1> HIDE DEF st
  <1>5. ASSUME NEW n \in DOMAIN st PROVE st[n].score \in Nat
    <2>1. CASE n <= Len(s)
      BY <1>4, <2>1 DEF Numbered
    <2>2. CASE n > Len(s)
      <3>1. st[n] = t[n - Len(s)] /\ n - Len(s) \in DOMAIN t
        BY <1>4, <2>2
      <3> QED
        BY <3>1 DEF Numbered
    <2> QED
      BY <1>4, <2>1, <2>2
  <1>6. \A i \in DOMAIN s : \E n \in DOMAIN st : st[n] = s[i]
    BY <1>4
  <1>7. ASSUME NEW i \in DOMAIN t PROVE \E n \in DOMAIN st : st[n] = t[i]
    <2>1. Len(s) + i \in DOMAIN st /\ st[Len(s) + i] = t[i]
      BY <1>4
    <2> QED
      BY <2>1
  <1> QED
    BY <1>4, <1>5, <1>6, <1>7 DEF Numbered, Finite, st

LEMMA SequenceIsFinite ==
  ASSUME NEW S, NEW s \in Seq(S)
  PROVE  Finite(s) /\ \A i \in DOMAIN s : s[i] \in S
  <1>1. DOMAIN s = 1 .. Len(s) /\ Len(s) \in Nat /\ s \in [1 .. Len(s) -> S]
    OBVIOUS
  <1>2. \A i \in DOMAIN s : s[i] \in S
    BY <1>1
  <1> QED
    BY <1>1, <1>2 DEF Finite

\* What is delivered is the report of some scores, one for each dimension of the rubric.
LEMMA ReportDelivered ==
  ASSUME JobInv, NEW scores \in DeliveryReplies, Making!Delivered(scores)
  PROVE  \E all : /\ Scored(Making!InRubricOrder(rubric.dims, all))
                  /\ report' \in Making!ReportsOf(rubric, all, eligibility)
  <1> DEFINE keys == {rubric.dims[i].key : i \in Making!Having(rubric.dims, Making!IsDelivery)}
             places == {i \in DOMAIN scores : scores[i].key \in keys}
             own == Making!DeliveryScores(scores, keys)
             all == Joined(content, own)
             ordered == Making!InRubricOrder(rubric.dims, all)
  <1>1. /\ stage = "delivery-judge"
        /\ Making!Covers(own, keys)
        /\ report' \in Making!ReportsOf(rubric, all, eligibility)
    BY DEF Making!Delivered, Joined
  <1>2. scores \in Seq([key : STRING, score : Nat])
    BY ReportConstants
  <1>3. /\ Finite(scores) /\ \A i \in DOMAIN scores : scores[i].score \in Nat
    <2>1. Finite(scores) /\ \A i \in DOMAIN scores : scores[i] \in [key : STRING, score : Nat]
      BY <1>2, SequenceIsFinite
    <2> QED
      BY <2>1
  <1>4. own = Making!AtPlaces(scores, places)
    BY Zenon DEF Making!DeliveryScores, Making!Kept
  <1> HIDE DEF keys, own, ordered, all
  <1>5. Numbered(own)
    <2>1. places \subseteq DOMAIN scores
      OBVIOUS
    <2> HIDE DEF places
    <2>2. /\ own \in Seq({scores[i] : i \in places})
          /\ \A n \in DOMAIN own : \E i \in places : own[n] = scores[i]
      BY <1>3, <1>4, <2>1, KeptShape
    <2> QED
      BY <1>3, <2>1, <2>2 DEF Numbered
  <1>6. /\ Numbered(content) /\ Finite(rubric.dims) /\ DOMAIN rubric.dims # {}
        /\ \A d \in DOMAIN rubric.dims : rubric.dims[d].channel \in {"content", "delivery"}
        /\ \A d \in Making!Having(rubric.dims, Making!IsContent) :
             \E i \in DOMAIN content : content[i].key = rubric.dims[d].key
    BY <1>1 DEF JobInv, ContentInv, RubricInv
  <1>7. /\ Numbered(all) /\ Finite(all)
        /\ \A i \in DOMAIN content : \E n \in DOMAIN all : all[n] = content[i]
        /\ \A i \in DOMAIN own : \E n \in DOMAIN all : all[n] = own[i]
    <2>1. Numbered(content)
      BY <1>6
    <2> QED
      BY <1>5, <2>1, ScoresJoined DEF all
  <1>8. ASSUME NEW d \in DOMAIN rubric.dims
        PROVE  \E n \in DOMAIN all : all[n].key = rubric.dims[d].key
    <2>1. CASE rubric.dims[d].channel = "content"
      BY <1>6, <1>7, <2>1 DEF Making!Having, Making!IsContent
    <2>2. CASE rubric.dims[d].channel = "delivery"
      <3>1. rubric.dims[d].key \in keys
        BY <2>2 DEF keys, Making!Having, Making!IsDelivery
      <3>2. PICK i \in DOMAIN own : own[i].key = rubric.dims[d].key
        BY <1>1, <3>1 DEF Making!Covers
      <3> QED
        BY <1>7, <3>2
    <2> QED
      BY <1>6, <2>1, <2>2
  <1>9. ASSUME NEW d \in DOMAIN rubric.dims
        PROVE  Making!LastScore(all, rubric.dims[d].key) \in Nat
    BY <1>7, <1>8, LastScoreIs DEF Numbered
  <1>10. Scored(ordered)
    <2>1. PICK n \in Nat : DOMAIN rubric.dims = 1 .. n
      BY <1>6 DEF Finite
    <2>2. n \in Nat \ {0}
      BY <1>6, <2>1
    <2>3. /\ DOMAIN ordered = DOMAIN rubric.dims
          /\ \A d \in DOMAIN ordered : ordered[d].score = Making!LastScore(all, rubric.dims[d].key)
      BY DEF ordered, Making!InRubricOrder
    <2> QED
      BY <1>9, <2>1, <2>2, <2>3 DEF Scored
  <1> QED
    BY <1>1, <1>10 DEF ordered

LEMMA DeliveredKeeps ==
  ASSUME JobInv, NEW scores \in DeliveryReplies, Making!Delivered(scores)
  PROVE  JobInv'
  <1>1. /\ stage = "delivery-judge" /\ stage' = "saved" /\ content' = <<>>
        /\ UNCHANGED <<order, task, main, awaited, jd, attempts, rubric, eligibility, rows>>
    BY DEF Making!Delivered, Making!judgeVars
  <1>2. ReadsOne(report') /\ report' # Making!NoReport
    BY ReportDelivered, ReportsReadOne
  <1>3. RubricInv' /\ StageInv' /\ ContentInv' /\ ReportInv'
    BY <1>1, <1>2 DEF JobInv, RubricInv, StageInv, ContentInv, ReportInv
  <1>4. JudgeInv'
    BY <1>1 DEF JobInv, JudgeInv, TasksOK, TaskInv, MainInv
  <1>5. Making!AdmittedIsFaithful'
    BY <1>1 DEF JobInv, Making!AdmittedIsFaithful
  <1> QED
    BY <1>3, <1>4, <1>5 DEF JobInv

LEMMA JobStep ==
  ASSUME JobInv, Making!Next
  PROVE  JobInv'
  <1>1. ASSUME UNCHANGED <<Making!judgeVars, jd, attempts, rubric, content, rows>>,
               eligibility' \in {"none", "insufficient", "limited", "scored"},
               stage' \in {"insufficient", "transcribed", "saved", "scored", "failed"},
               stage \in {"ready", "content-judge", "saved"},
               order # <<>> => stage' = "failed", UNCHANGED report
        PROVE  JobInv'
    <2>1. JudgeInv' /\ RubricInv' /\ ContentInv' /\ StageInv' /\ ReportInv'
      BY <1>1 DEF Making!judgeVars, JobInv, JudgeInv, TasksOK, TaskInv, MainInv, RubricInv,
         ContentInv, StageInv, ReportInv
    <2>2. Making!AdmittedIsFaithful'
      BY <1>1 DEF JobInv, Making!AdmittedIsFaithful
    <2> QED
      BY <2>1, <2>2 DEF JobInv
  <1>2. ASSUME NEW r \in Replies \cup {Making!Malformed}, Making!CompileAccepts(r) PROVE JobInv'
    BY <1>2, CompileKeeps
  <1>3. ASSUME NEW r, Making!CompileRejects(r) \/ Making!CompileFails PROVE JobInv'
    <2>1. /\ UNCHANGED <<order, task, main, awaited, jd, rubric, eligibility, content, report, rows>>
          /\ stage = "compiling" /\ stage' \in {"compiling", "refused"}
          /\ attempts' \in {attempts, attempts + 1} /\ (stage' = "compiling" => attempts # 1)
          /\ stage' = "compiling" => attempts' = attempts + 1
      BY <1>3 DEF Making!CompileRejects, Making!CompileFails, Making!judgeVars
    <2>2. StageInv'
      BY <2>1 DEF JobInv, StageInv
    <2>3. JudgeInv' /\ RubricInv' /\ ContentInv' /\ ReportInv'
      BY <2>1 DEF JobInv, JudgeInv, TasksOK, TaskInv, MainInv, RubricInv, ContentInv, ReportInv
    <2>4. Making!AdmittedIsFaithful'
      BY <2>1 DEF JobInv, Making!AdmittedIsFaithful
    <2> QED
      BY <2>2, <2>3, <2>4 DEF JobInv
  <1>4. ASSUME NEW t, Making!Gate(t) PROVE JobInv'
    <2>1. /\ UNCHANGED <<Making!judgeVars, jd, attempts, rubric, content, report, rows>>
          /\ stage = "ready" /\ stage' \in {"insufficient", "transcribed"}
          /\ eligibility' = Making!Eligibility(t.seconds, t.turns, t.words)
      BY <1>4 DEF Making!Gate
    <2>2. eligibility' \in {"insufficient", "limited", "scored"}
      BY <2>1 DEF Making!Eligibility
    <2>3. order = <<>>
      BY <2>1 DEF JobInv, StageInv
    <2> QED
      BY <1>1, <2>1, <2>2, <2>3
  <1>5. CASE Making!JudgeRaises
    <2>1. eligibility \in {"none", "insufficient", "limited", "scored"}
      BY DEF JobInv, StageInv
    <2> QED
      BY <1>1, <1>5, <2>1 DEF Making!JudgeRaises
  <1>6. ASSUME NEW to \in {"scored", "failed"}, Making!Marked(to) PROVE JobInv'
    <2>1. eligibility \in {"none", "insufficient", "limited", "scored"}
      BY DEF JobInv, StageInv
    <2>2. order # <<>> => stage \in {"content-judge", "failed"}
      BY DEF JobInv, StageInv
    <2> QED
      BY <1>1, <1>6, <2>1, <2>2 DEF Making!Marked
  <1>7. CASE Making!DeliveryFails
    <2>1. /\ UNCHANGED <<order, task, main, awaited, jd, attempts, rubric, eligibility, report, rows>>
          /\ stage' = "failed" /\ stage = "delivery-judge" /\ content' = <<>>
      BY <1>7 DEF Making!DeliveryFails, Making!judgeVars
    <2>2. JudgeInv' /\ RubricInv' /\ ContentInv' /\ StageInv' /\ ReportInv'
      BY <2>1 DEF JobInv, JudgeInv, TasksOK, TaskInv, MainInv, RubricInv,
         ContentInv, StageInv, ReportInv
    <2>3. Making!AdmittedIsFaithful'
      BY <2>1 DEF JobInv, Making!AdmittedIsFaithful
    <2> QED
      BY <2>2, <2>3 DEF JobInv
  <1>8. ASSUME NEW index \in 1 .. Slots, Making!Read(index) PROVE JobInv'
    <2>1. /\ UNCHANGED <<order, task, main, awaited, jd, attempts, rubric, stage, eligibility, content, report>>
          /\ report # Making!NoReport
      BY <1>8 DEF Making!Read, Making!judgeVars
    <2>2. PICK others : rows' = [i \in 1 .. Slots |-> IF i = index THEN [status |-> stage, report |-> report]
                                                      ELSE others[i]]
      BY <1>8 DEF Making!Read
    <2>3. Len(rows') = Slots
      <3> DEFINE row(i) == IF i = index THEN [status |-> stage, report |-> report] ELSE others[i]
      <3>1. rows' \in [1 .. Slots -> {row(i) : i \in 1 .. Slots}]
        BY <2>2
      <3> QED
        BY <3>1, CountedSequence, ReportConstants
    <2>4. StageInv'
      BY <2>1, <2>3 DEF JobInv, StageInv
    <2>5. JudgeInv' /\ RubricInv' /\ ContentInv' /\ ReportInv'
      BY <2>1 DEF JobInv, JudgeInv, TasksOK, TaskInv, MainInv, RubricInv, ContentInv, ReportInv
    <2>6. Making!AdmittedIsFaithful'
      BY <2>1 DEF JobInv, Making!AdmittedIsFaithful
    <2> QED
      BY <2>4, <2>5, <2>6 DEF JobInv
  <1> QED
    BY <1>2, <1>3, <1>4, <1>5, <1>6, <1>7, <1>8, StartKeeps, JudgingKeeps, ReturnKeeps,
       DeliveredKeeps DEF Making!Next

LEMMA JobAlways == PartsSpec => []JobInv
  <1>1. JobInv /\ [PartsNext]_partsVars => JobInv'
    <2>1. CASE InMaking(Making!Next)
      BY <2>1, JobStep DEF InMaking
    <2>2. ASSUME JobInv, UNCHANGED makingVars PROVE JobInv'
      <3>1. JudgeInv' /\ RubricInv' /\ ContentInv' /\ StageInv' /\ ReportInv'
        BY <2>2 DEF makingVars, JobInv, JudgeInv, TasksOK, TaskInv, MainInv, RubricInv,
           ContentInv, StageInv, ReportInv
      <3>2. Making!AdmittedIsFaithful'
        BY <2>2 DEF makingVars, JobInv, Making!AdmittedIsFaithful
      <3> QED
        BY <3>1, <3>2 DEF JobInv
    <2> QED
      BY <2>1, <2>2 DEF PartsNext, InDoor, partsVars
  <1> QED
    BY <1>1, JobInit, PTL DEF PartsSpec

\* The thread pool's job ends as the sequential loop would have: the first failure in
\* rubric order is raised, no thread outlives it, and a dimension never buys more than
\* one call over its samples -- for any rubric, any pool and any number of samples
\* (score_content of content/judge.py).
THEOREM JobOrderHolds == PartsSpec => []JobEndsInOrder
  BY JobAlways, JobInvIsEnough, PTL

\* Whatever the model answers, an admitted rubric keeps the contract of both gates and
\* of governance, and a report on it gives the verdict the web reconstructs, and names
\* one dimension the weakest wherever it names one -- for any number of dimensions and
\* any scores (rubric/compiler.py, report/compile.py, lib/verdict.ts).
THEOREM ReportReadsOneHolds == PartsSpec => []ReportReadsOne
  BY JobAlways, JobInvIsEnough, PTL

-----------------------------------------------------------------------------
(* Sums.  A fold over a finite set is a function that the definition only     *)
(* chooses; that there is one is proved by the least size at which it fails.  *)

\* What holds of no smaller number and fails at none, holds of all.
LEMMA NoLeastFails ==
  ASSUME NEW Good \in SUBSET Nat, \A n \in Nat : (\A m \in Nat : m < n => m \in Good) => n \in Good
  PROVE  Good = Nat
  <1> SUFFICES ASSUME Nat \ Good # {} PROVE FALSE
    OBVIOUS
  <1>1. PICK n \in Nat \ Good : \A m \in Nat \ Good : n <= m
    BY LeastNatural
  <1>2. \A m \in Nat : m < n => m \in Good
    BY <1>1
  <1> QED
    BY <1>1, <1>2

\* The element that a fold takes from a set, and the function it makes of D.
Taken(s) == CHOOSE x \in s : TRUE
IsSumming(f, F, g) ==
  g = [s \in F |-> IF s = {} THEN 0 ELSE f[Taken(s)] + g[s \ {Taken(s)}]]
Summing(f) == CHOOSE g : IsSumming(f, SUBSET DOMAIN f, g)

LEMMA FoldIsSumming ==
  ASSUME NEW f
  PROVE  Making!FoldFunction(+, 0, f) = Summing(f)[DOMAIN f]
  BY Zenon DEF Making!FoldFunction, Making!FoldFunctionOnSet, Making!MapThenFoldSet,
     Summing, IsSumming, Taken

LEMMA TakenIs ==
  ASSUME NEW s, s # {}
  PROVE  Taken(s) \in s
  BY DEF Taken

\* The subsets of D with no more than n elements.
UpToSize(D, n) == {s \in SUBSET D : Cardinality(s) <= n}

LEMMA SizesOf ==
  ASSUME NEW D, IsFiniteSet(D)
  PROVE  /\ \A s \in SUBSET D : /\ IsFiniteSet(s) /\ Cardinality(s) \in Nat
                                /\ Cardinality(s) = 0 <=> s = {}
                                /\ \A x \in s : Cardinality(s \ {x}) = Cardinality(s) - 1
         /\ UpToSize(D, Cardinality(D)) = SUBSET D
  <1>1. ASSUME NEW s \in SUBSET D
        PROVE  /\ IsFiniteSet(s) /\ Cardinality(s) \in Nat /\ Cardinality(s) <= Cardinality(D)
               /\ Cardinality(s) = 0 <=> s = {}
               /\ \A x \in s : Cardinality(s \ {x}) = Cardinality(s) - 1
    <2>1. IsFiniteSet(s) /\ Cardinality(s) <= Cardinality(D)
      BY FS_Subset
    <2> QED
      BY <2>1, FS_CardinalityType, FS_EmptySet, FS_RemoveElement
  <1> QED
    BY <1>1 DEF UpToSize

\* Folding a finite set, element by element, is well defined: h is what a set's fold makes
\* of the fold of the rest.
Foldable(D, V, take, h) ==
  \A s \in SUBSET D : s # {} => take[s] \in s /\ \A v \in V : h[s][v] \in V

IsFold(g, D, V, base, take, h) ==
  /\ g \in [SUBSET D -> V]
  /\ \A s \in SUBSET D : g[s] = IF s = {} THEN base ELSE h[s][g[s \ {take[s]}]]

LEMMA FoldExists ==
  ASSUME NEW D, IsFiniteSet(D), NEW V, NEW base \in V, NEW take, NEW h, Foldable(D, V, take, h)
  PROVE  \E g : IsFold(g, D, V, base, take, h)
  <1> DEFINE rest(s) == s \ {take[s]}
             Folds(g, n) == /\ g \in [UpToSize(D, n) -> V]
                            /\ \A s \in UpToSize(D, n) :
                                 g[s] = IF s = {} THEN base ELSE h[s][g[rest(s)]]
             Good == {n \in Nat : \E g : Folds(g, n)}
  <1>1. ASSUME NEW s \in SUBSET D, s # {}
        PROVE  rest(s) \in SUBSET D /\ Cardinality(rest(s)) = Cardinality(s) - 1
    BY <1>1, SizesOf DEF Foldable
  <1>2. \A s \in SUBSET D : Cardinality(s) \in Nat /\ (Cardinality(s) = 0 <=> s = {})
    BY SizesOf
  <1> HIDE DEF rest, Folds
  <1>3. ASSUME NEW n \in Nat, \A m \in Nat : m < n => m \in Good PROVE n \in Good
    <2>1. CASE n = 0
      <3> DEFINE g == [s \in UpToSize(D, 0) |-> base]
      <3>1. \A s \in UpToSize(D, 0) : s = {}
        BY <1>2 DEF UpToSize
      <3>2. Folds(g, 0)
        BY <3>1 DEF Folds
      <3> QED
        BY <2>1, <3>2
    <2>2. CASE n # 0
      <3>1. n - 1 \in Good /\ n - 1 \in Nat
        BY <1>3, <2>2
      <3>2. PICK f : Folds(f, n - 1)
        BY <3>1
      <3> DEFINE g == [s \in UpToSize(D, n) |-> IF s = {} THEN base ELSE h[s][f[rest(s)]]]
      <3>3. ASSUME NEW s \in UpToSize(D, n - 1)
            PROVE  s \in UpToSize(D, n) /\ f[s] = g[s]
        <4>1. s \in UpToSize(D, n)
          BY <1>2, <3>1 DEF UpToSize
        <4> QED
          BY <3>2, <4>1 DEF Folds
      <3>4. ASSUME NEW s \in UpToSize(D, n), s # {} PROVE rest(s) \in UpToSize(D, n - 1)
        BY <1>1, <1>2, <3>4 DEF UpToSize
      <3>5. g \in [UpToSize(D, n) -> V]
        <4>1. ASSUME NEW s \in UpToSize(D, n), s # {} PROVE h[s][f[rest(s)]] \in V
          <5>1. f[rest(s)] \in V /\ s \in SUBSET D
            BY <3>2, <3>4, <4>1 DEF Folds, UpToSize
          <5> QED
            BY <4>1, <5>1 DEF Foldable
        <4> QED
          BY <4>1
      <3>6. ASSUME NEW s \in UpToSize(D, n), s # {} PROVE g[rest(s)] = f[rest(s)]
        BY <3>3, <3>4, <3>6
      <3>7. \A s \in UpToSize(D, n) : g[s] = IF s = {} THEN base ELSE h[s][g[rest(s)]]
        BY <3>6
      <3> HIDE DEF g
      <3>8. Folds(g, n)
        BY <3>5, <3>7 DEF Folds
      <3> QED
        BY <3>8
    <2> QED
      BY <2>1, <2>2
  <1> HIDE DEF Good
  <1>4. Good \in SUBSET Nat
    BY DEF Good
  <1>5. Good = Nat
    BY <1>3, <1>4, NoLeastFails
  <1>6. Cardinality(D) \in Nat /\ UpToSize(D, Cardinality(D)) = SUBSET D
    BY SizesOf, FS_CardinalityType
  <1>7. PICK g : Folds(g, Cardinality(D))
    BY <1>5, <1>6 DEF Good
  <1>8. IsFold(g, D, V, base, take, h)
    BY <1>6, <1>7, Zenon DEF Folds, rest, IsFold
  <1> QED
    BY <1>8

\* What is said of every set by taking its elements out one by one.
LEMMA ByTaking ==
  ASSUME NEW D, IsFiniteSet(D), NEW Good \in SUBSET (SUBSET D), {} \in Good,
         \A s \in SUBSET D : s # {} /\ (\A t \in SUBSET s : t # s => t \in Good) => s \in Good
  PROVE  Good = SUBSET D
  <1> DEFINE Sizes == {n \in Nat : \A s \in SUBSET D : Cardinality(s) = n => s \in Good}
  <1>1. ASSUME NEW n \in Nat, \A m \in Nat : m < n => m \in Sizes PROVE n \in Sizes
    <2> SUFFICES ASSUME NEW s \in SUBSET D, Cardinality(s) = n PROVE s \in Good
      OBVIOUS
    <2>1. ASSUME NEW t \in SUBSET s, t # s PROVE t \in Good
      <3>1. IsFiniteSet(s) /\ t \in SUBSET D
        BY SizesOf
      <3>2. Cardinality(t) < Cardinality(s) /\ Cardinality(t) \in Nat
        BY <2>1, <3>1, FS_Subset, FS_CardinalityType
      <3> QED
        BY <1>1, <3>1, <3>2
    <2> QED
      BY <2>1
  <1> HIDE DEF Sizes
  <1>2. Sizes \in SUBSET Nat
    BY DEF Sizes
  <1>3. Sizes = Nat
    BY <1>1, <1>2, NoLeastFails
  <1>4. \A s \in SUBSET D : Cardinality(s) \in Nat
    BY SizesOf
  <1> QED
    BY <1>3, <1>4 DEF Sizes

\* The integers of a function over a finite set.
Summable(f, D) == IsFiniteSet(D) /\ DOMAIN f = D /\ \A x \in D : f[x] \in Int

LEMMA SummingIs ==
  ASSUME NEW D, NEW f, Summable(f, D)
  PROVE  IsSumming(f, SUBSET D, Summing(f))
  <1> DEFINE take == [s \in SUBSET D |-> Taken(s)]
             h == [s \in SUBSET D |-> [v \in Int |-> f[Taken(s)] + v]]
  <1>1. \A s \in SUBSET D : s # {} => take[s] = Taken(s) /\ Taken(s) \in s
    BY TakenIs
  <1>2. \A s \in SUBSET D : \A v \in Int : h[s][v] = f[Taken(s)] + v
    OBVIOUS
  <1>3. IsFiniteSet(D) /\ 0 \in Int /\ \A x \in D : f[x] \in Int
    BY DEF Summable
  <1> HIDE DEF take, h
  <1>4. Foldable(D, Int, take, h)
    BY <1>1, <1>2, <1>3 DEF Foldable
  <1>5. PICK g : IsFold(g, D, Int, 0, take, h)
    BY <1>3, <1>4, FoldExists
  <1>6. \A s \in SUBSET D : g[s] = IF s = {} THEN 0 ELSE f[Taken(s)] + g[s \ {Taken(s)}]
    BY <1>1, <1>2, <1>5 DEF IsFold
  <1>7. IsSumming(f, SUBSET D, g)
    BY <1>5, <1>6 DEF IsFold, IsSumming
  <1> QED
    BY <1>7 DEF Summing, Summable

\* The sum of a function's integers does not depend on which is taken first.
LEMMA SumSteps ==
  ASSUME NEW D, NEW f, Summable(f, D)
  PROVE  /\ Summing(f)[{}] = 0
         /\ \A s \in SUBSET D : /\ Summing(f)[s] \in Int
                                /\ \A x \in s : Summing(f)[s] = f[x] + Summing(f)[s \ {x}]
  <1> DEFINE S(s) == Summing(f)[s]
             Good == {s \in SUBSET D : S(s) \in Int /\ \A x \in s : S(s) = f[x] + S(s \ {x})}
  <1>1. IsFiniteSet(D) /\ DOMAIN f = D /\ \A x \in D : f[x] \in Int
    BY DEF Summable
  <1>2. \A s \in SUBSET D : S(s) = IF s = {} THEN 0 ELSE f[Taken(s)] + S(s \ {Taken(s)})
    <2>1. IsSumming(f, SUBSET D, Summing(f))
      BY <1>1, SummingIs
    <2> DEFINE g == Summing(f)
    <2> HIDE DEF g
    <2>2. g = [s \in SUBSET D |-> IF s = {} THEN 0 ELSE f[Taken(s)] + g[s \ {Taken(s)}]]
      BY <2>1 DEF IsSumming, g
    <2>3. \A s \in SUBSET D : g[s] = IF s = {} THEN 0 ELSE f[Taken(s)] + g[s \ {Taken(s)}]
      BY <2>2
    <2> QED
      BY <2>3 DEF g
  <1> HIDE DEF S
  <1>3. S({}) = 0
    BY <1>2
  <1>4. {} \in Good
    BY <1>3
  <1>5. ASSUME NEW s \in SUBSET D, s # {}, \A t \in SUBSET s : t # s => t \in Good
        PROVE  s \in Good
    <2> DEFINE y == Taken(s)
    <2>1. y \in s /\ S(s) = f[y] + S(s \ {y})
      BY <1>2, <1>5, TakenIs
    <2> HIDE DEF y
    <2>2. \A x \in s : (s \ {x}) \in Good
      BY <1>5
    <2>3. S(s) \in Int
      BY <1>1, <2>1, <2>2
    <2>4. ASSUME NEW x \in s PROVE S(s) = f[x] + S(s \ {x})
      <3>1. CASE x = y
        BY <2>1, <3>1
      <3>2. CASE x # y
        <4>1. /\ x \in s \ {y} /\ y \in s \ {x}
              /\ (s \ {y}) \ {x} = (s \ {x}) \ {y}
              /\ (s \ {y}) \ {x} \in SUBSET s /\ (s \ {y}) \ {x} # s
          BY <2>1, <3>2
        <4>2. (s \ {y}) \ {x} \in Good
          BY <1>5, <4>1
        <4>3. /\ S(s \ {y}) = f[x] + S((s \ {y}) \ {x})
              /\ S(s \ {x}) = f[y] + S((s \ {y}) \ {x})
              /\ S((s \ {y}) \ {x}) \in Int
          BY <2>1, <2>2, <4>1, <4>2
        <4>4. f[x] \in Int /\ f[y] \in Int
          BY <1>1, <2>1
        <4> QED
          BY <2>1, <4>3, <4>4
      <3> QED
        BY <3>1, <3>2
    <2> QED
      BY <2>3, <2>4
  <1>6. Good = SUBSET D
    <2> HIDE DEF Good
    <2>1. Good \in SUBSET (SUBSET D)
      BY DEF Good
    <2> QED
      BY <1>1, <1>4, <1>5, <2>1, ByTaking
  <1>7. /\ S({}) = 0
        /\ \A s \in SUBSET D : S(s) \in Int /\ \A x \in s : S(s) = f[x] + S(s \ {x})
    BY <1>3, <1>6
  <1> QED
    BY <1>7 DEF S

LEMMA FoldSteps ==
  ASSUME NEW D, NEW f, Summable(f, D)
  PROVE  Making!FoldFunction(+, 0, f) = Summing(f)[D] /\ Summing(f)[D] \in Int
  <1>1. DOMAIN f = D
    BY DEF Summable
  <1>2. Making!FoldFunction(+, 0, f) = Summing(f)[D]
    BY <1>1, FoldIsSumming
  <1>3. D \in SUBSET D
    OBVIOUS
  <1> QED
    BY <1>2, <1>3, SumSteps

LEMMA Distributes ==
  ASSUME NEW a \in Int, NEW x \in Int, NEW y \in Int
  PROVE  a * (x + y) = a * x + a * y /\ a * x \in Int /\ a * y \in Int
  OBVIOUS

LEMMA Regroups ==
  ASSUME NEW p \in Int, NEW q \in Int, NEW r \in Int, NEW u \in Int, NEW v \in Int, NEW w \in Int
  PROVE  (p - q + r) + (u - v + w) = (p + u) - (q + v) + (r + w)
  OBVIOUS

\* f is, value by value, so many times g less h, and so many times k.
Combines(f, g, h, k, a, b, D) == \A x \in D : f[x] = a * g[x] - a * h[x] + b * k[x]

\* A sum of combinations is the combination of the sums.
LEMMA SumIsLinear ==
  ASSUME NEW D, NEW f, NEW g, NEW h, NEW k, NEW a \in Int, NEW b \in Int,
         Summable(f, D), Summable(g, D), Summable(h, D), Summable(k, D),
         Combines(f, g, h, k, a, b, D)
  PROVE  Summing(f)[D] = a * Summing(g)[D] - a * Summing(h)[D] + b * Summing(k)[D]
  <1> DEFINE F(s) == Summing(f)[s]
             G(s) == Summing(g)[s]
             H(s) == Summing(h)[s]
             K(s) == Summing(k)[s]
             Good == {s \in SUBSET D : F(s) = a * G(s) - a * H(s) + b * K(s)}
  <1>1. /\ F({}) = 0 /\ G({}) = 0 /\ H({}) = 0 /\ K({}) = 0
        /\ \A s \in SUBSET D :
             /\ F(s) \in Int /\ G(s) \in Int /\ H(s) \in Int /\ K(s) \in Int
             /\ \A x \in s : /\ F(s) = f[x] + F(s \ {x}) /\ G(s) = g[x] + G(s \ {x})
                             /\ H(s) = h[x] + H(s \ {x}) /\ K(s) = k[x] + K(s \ {x})
    BY SumSteps
  <1>2. /\ IsFiniteSet(D)
        /\ \A x \in D : f[x] \in Int /\ g[x] \in Int /\ h[x] \in Int /\ k[x] \in Int
    BY DEF Summable
  <1> HIDE DEF F, G, H, K
  <1>3. {} \in Good
    BY <1>1
  <1>4. ASSUME NEW s \in SUBSET D, s # {}, \A t \in SUBSET s : t # s => t \in Good
        PROVE  s \in Good
    <2>1. PICK x \in s : TRUE
      BY <1>4
    <2>2. s \ {x} \in Good /\ s \ {x} \in SUBSET D /\ x \in D
      BY <1>4, <2>1
    <2> DEFINE r == s \ {x}
    <2> HIDE DEF r
    <2>3. /\ F(s) = f[x] + F(r) /\ G(s) = g[x] + G(r) /\ H(s) = h[x] + H(r) /\ K(s) = k[x] + K(r)
          /\ F(r) \in Int /\ G(r) \in Int /\ H(r) \in Int /\ K(r) \in Int
          /\ F(r) = a * G(r) - a * H(r) + b * K(r)
          /\ f[x] = a * g[x] - a * h[x] + b * k[x]
          /\ f[x] \in Int /\ g[x] \in Int /\ h[x] \in Int /\ k[x] \in Int
      BY <1>1, <1>2, <2>1, <2>2 DEF r, Combines
    <2>4. /\ a * G(s) = a * g[x] + a * G(r) /\ a * g[x] \in Int /\ a * G(r) \in Int
          /\ a * H(s) = a * h[x] + a * H(r) /\ a * h[x] \in Int /\ a * H(r) \in Int
          /\ b * K(s) = b * k[x] + b * K(r) /\ b * k[x] \in Int /\ b * K(r) \in Int
      BY <2>3, Distributes
    <2>5. F(s) = (a * g[x] - a * h[x] + b * k[x]) + (a * G(r) - a * H(r) + b * K(r))
      BY <2>3, Zenon
    <2>6. F(s) = (a * g[x] + a * G(r)) - (a * h[x] + a * H(r)) + (b * k[x] + b * K(r))
      BY <2>4, <2>5, Regroups
    <2>7. F(s) = a * G(s) - a * H(s) + b * K(s)
      BY <2>4, <2>6, Zenon
    <2> QED
      BY <2>7
  <1>5. Good = SUBSET D
    <2> HIDE DEF Good
    <2>1. Good \in SUBSET (SUBSET D)
      BY DEF Good
    <2> QED
      BY <1>2, <1>3, <1>4, <2>1, ByTaking
  <1>6. D \in SUBSET D
    OBVIOUS
  <1>7. F(D) = a * G(D) - a * H(D) + b * K(D)
    BY <1>5, <1>6
  <1> QED
    BY <1>7 DEF F, G, H, K

-----------------------------------------------------------------------------
(* What governance does to the weights *)

\* The parts a rubric's weights are counted in, and how many make one: those of the
\* reply, or finer ones by `others' where an excess is spread over them.
Weighed(was, rub, family) ==
  \/ /\ rub.whole = Making!WeightOne
     /\ \A i \in DOMAIN was : rub.dims[i].weight = was[i].weight
     /\ \/ jd.foregrounds \/ Making!DirectWeight(was) <= 0
        \/ \A i \in family : was[i].weight <= Making!WeightCap
  \/ \E excess, others \in Nat \ {0} : \E over, direct :
       /\ rub.whole = Making!WeightOne * others
       /\ Summable(over, DOMAIN was) /\ Summable(direct, DOMAIN was)
       /\ Summing(over)[DOMAIN was] = excess /\ Summing(direct)[DOMAIN was] = others
       /\ \A i \in DOMAIN was :
            IF i \in family
            THEN /\ rub.dims[i].weight = (was[i].weight - over[i]) * others
                 /\ direct[i] = 0 /\ over[i] \in Nat
                 /\ was[i].weight - over[i] <= Making!WeightCap
            ELSE /\ rub.dims[i].weight = was[i].weight * (others + excess)
                 /\ direct[i] = was[i].weight /\ over[i] = 0

\* A sum of naturals is one.
LEMMA SumIsNatural ==
  ASSUME NEW D, NEW f, Summable(f, D), \A x \in D : f[x] \in Nat
  PROVE  \A s \in SUBSET D : Summing(f)[s] \in Nat
  <1> DEFINE S(s) == Summing(f)[s]
             Good == {s \in SUBSET D : S(s) \in Nat}
  <1>1. S({}) = 0 /\ \A s \in SUBSET D : \A x \in s : S(s) = f[x] + S(s \ {x})
    BY SumSteps
  <1> HIDE DEF S
  <1>2. {} \in Good
    BY <1>1
  <1>3. ASSUME NEW s \in SUBSET D, s # {}, \A t \in SUBSET s : t # s => t \in Good
        PROVE  s \in Good
    <2>1. PICK x \in s : TRUE
      BY <1>3
    <2>2. s \ {x} \in Good /\ S(s) = f[x] + S(s \ {x}) /\ f[x] \in Nat
      BY <1>1, <1>3, <2>1
    <2> QED
      BY <2>2
  <1>4. Good = SUBSET D
    <2> HIDE DEF Good
    <2>1. Good \in SUBSET (SUBSET D)
      BY DEF Good
    <2> QED
      BY <1>2, <1>3, <2>1, ByTaking DEF Summable
  <1>5. \A s \in SUBSET D : S(s) \in Nat
    BY <1>4
  <1> QED
    BY <1>5 DEF S

LEMMA NoneIsOver ==
  ASSUME NEW D, NEW f, Summable(f, D), \A x \in D : f[x] \in Nat, Summing(f)[D] = 0
  PROVE  \A x \in D : f[x] = 0
  <1> SUFFICES ASSUME NEW x \in D PROVE f[x] = 0
    OBVIOUS
  <1>1. D \in SUBSET D /\ D \ {x} \in SUBSET D
    OBVIOUS
  <1>2. Summing(f)[D] = f[x] + Summing(f)[D \ {x}]
    BY <1>1, SumSteps
  <1>3. Summing(f)[D \ {x}] \in Nat
    BY <1>1, SumIsNatural
  <1> QED
    BY <1>2, <1>3

LEMMA CappedIs ==
  ASSUME NEW dims \in Seq(Dimension), NEW rub,
         rub.whole = Making!CappedWeights(dims).whole,
         \A i \in DOMAIN dims : rub.dims[i].weight = Making!CappedWeights(dims).parts[i]
  PROVE  Weighed(dims, rub, Making!Having(dims, Making!IsPeripheral))
  <1>1. IsFiniteSet(DOMAIN dims)
    <2>1. DOMAIN dims = 1 .. Len(dims) /\ Len(dims) \in Nat
      OBVIOUS
    <2>2. IsFiniteSet(1 .. Len(dims))
      BY <2>1, FS_Interval
    <2> QED
      BY <2>1, <2>2, Zenon
  <1>2. \A i \in DOMAIN dims : dims[i].weight \in Int
    <2>1. \A i \in DOMAIN dims : dims[i] \in Dimension
      OBVIOUS
    <2> QED
      BY <2>1 DEF Dimension
  <1> DEFINE D == DOMAIN dims
             family == Making!Having(dims, Making!IsPeripheral)
             cut(dim) == IF Making!IsPeripheral(dim) /\ dim.weight > Making!WeightCap
                         THEN dim.weight - Making!WeightCap ELSE 0
             over == [i \in D |-> cut(dims[i])]
             direct == [i \in D |-> IF Making!IsPeripheral(dims[i]) THEN 0 ELSE dims[i].weight]
             excess == Making!FoldFunction(+, 0, over)
             others == Making!FoldFunction(+, 0, direct)
             moves == excess > 0 /\ others > 0
  <1> HIDE DEF family, cut, over, direct, excess, others, moves
  <1>3. \A i \in D : i \in family <=> Making!IsPeripheral(dims[i])
    BY DEF Making!Having, family
  <1>4. DOMAIN over = D /\ DOMAIN direct = D /\ family \subseteq D
    BY DEF over, direct, family, Making!Having
  <1>5. ASSUME NEW i \in D
        PROVE  /\ over[i] \in Nat /\ direct[i] \in Int
               /\ dims[i].weight - over[i] <= Making!WeightCap \/ i \notin family
               /\ over[i] = 0 => (dims[i].weight <= Making!WeightCap \/ i \notin family)
               /\ IF i \in family THEN direct[i] = 0
                  ELSE direct[i] = dims[i].weight /\ over[i] = 0
    <2>1. over[i] = IF i \in family /\ dims[i].weight > Making!WeightCap
                    THEN dims[i].weight - Making!WeightCap ELSE 0
      BY <1>3 DEF over, cut
    <2>2. direct[i] = IF i \in family THEN 0 ELSE dims[i].weight
      BY <1>3 DEF direct
    <2>3. dims[i].weight \in Int
      BY <1>2
    <2> QED
      BY <2>1, <2>2, <2>3 DEF Making!WeightCap
  <1>6. Summable(over, D) /\ Summable(direct, D)
    BY <1>1, <1>4, <1>5 DEF Summable
  <1>7. excess = Summing(over)[D] /\ others = Summing(direct)[D]
    BY <1>6, FoldSteps DEF excess, others
  <1>8. excess \in Nat /\ others \in Int /\ others = Making!DirectWeight(dims)
    <2>1. D \in SUBSET D
      OBVIOUS
    <2>2. \A i \in D : over[i] \in Nat
      BY <1>5
    <2>3. excess \in Nat
      BY <1>6, <1>7, <2>1, <2>2, SumIsNatural
    <2>4. others \in Int
      BY <1>6, <1>7, <2>1, SumSteps
    <2>5. others = Making!DirectWeight(dims)
      BY Zenon DEF Making!DirectWeight, others, direct
    <2> QED
      BY <2>3, <2>4, <2>5
  <1>9. Making!CappedWeights(dims) =
          [whole |-> IF moves THEN Making!WeightOne * others ELSE Making!WeightOne,
           parts |-> [i \in D |->
             IF ~moves THEN dims[i].weight
             ELSE IF Making!IsPeripheral(dims[i]) THEN (dims[i].weight - cut(dims[i])) * others
             ELSE dims[i].weight * (others + excess)]]
    BY Zenon DEF Making!CappedWeights, Making!DirectWeight, moves, excess, others, over, direct, cut
  <1>10. rub.whole = IF moves THEN Making!WeightOne * others ELSE Making!WeightOne
    BY <1>9
  <1>11. ASSUME NEW i \in D
         PROVE  rub.dims[i].weight =
                  IF ~moves THEN dims[i].weight
                  ELSE IF i \in family THEN (dims[i].weight - over[i]) * others
                  ELSE dims[i].weight * (others + excess)
    <2>1. over[i] = cut(dims[i])
      BY DEF over
    <2>2. Making!CappedWeights(dims).parts[i] =
            IF ~moves THEN dims[i].weight
            ELSE IF Making!IsPeripheral(dims[i]) THEN (dims[i].weight - cut(dims[i])) * others
            ELSE dims[i].weight * (others + excess)
      BY <1>9
    <2> QED
      BY <1>3, <2>1, <2>2
  <1>12. CASE moves
    <2>1. excess \in Nat \ {0} /\ others \in Nat \ {0}
      BY <1>8, <1>12 DEF moves
    <2>2. \A i \in D :
            IF i \in family
            THEN /\ rub.dims[i].weight = (dims[i].weight - over[i]) * others
                 /\ direct[i] = 0 /\ over[i] \in Nat
                 /\ dims[i].weight - over[i] <= Making!WeightCap
            ELSE /\ rub.dims[i].weight = dims[i].weight * (others + excess)
                 /\ direct[i] = dims[i].weight /\ over[i] = 0
      BY <1>5, <1>11, <1>12
    <2>3. rub.whole = Making!WeightOne * others
      BY <1>10, <1>12
    <2> QED
      BY <1>6, <1>7, <2>1, <2>2, <2>3 DEF Weighed, family
  <1>13. CASE ~moves
    <2>1. /\ rub.whole = Making!WeightOne
          /\ \A i \in D : rub.dims[i].weight = dims[i].weight
      BY <1>10, <1>11, <1>13
    <2>2. CASE excess = 0
      <3>1. \A i \in D : over[i] = 0
        <4>1. \A i \in D : over[i] \in Nat
          BY <1>5
        <4>2. Summing(over)[D] = 0
          BY <1>7, <2>2
        <4> HIDE DEF D
        <4> QED
          BY <1>6, <4>1, <4>2, NoneIsOver
      <3>2. \A i \in family : dims[i].weight <= Making!WeightCap
        BY <1>4, <1>5, <3>1
      <3> QED
        BY <2>1, <3>2 DEF Weighed, family
    <2>3. CASE others <= 0
      BY <1>8, <2>1, <2>3 DEF Weighed
    <2> QED
      BY <1>8, <1>13, <2>2, <2>3 DEF moves
  <1> QED
    BY <1>12, <1>13

\* The weight of a list of dimensions is a sum.
LEMMA TotalIs ==
  ASSUME NEW dims, IsFiniteSet(DOMAIN dims), \A i \in DOMAIN dims : dims[i].weight \in Int
  PROVE  LET weight == [i \in DOMAIN dims |-> dims[i].weight]
         IN /\ Summable(weight, DOMAIN dims)
            /\ Making!TotalWeight(dims) = Summing(weight)[DOMAIN dims]
            /\ Making!TotalWeight(dims) \in Int
  <1> DEFINE weight == [i \in DOMAIN dims |-> dims[i].weight]
  <1>1. Summable(weight, DOMAIN dims)
    BY DEF Summable
  <1>2. Making!TotalWeight(dims) = Making!FoldFunction(+, 0, weight)
    BY Zenon DEF Making!TotalWeight
  <1> HIDE DEF weight
  <1>3. Making!TotalWeight(dims) = Summing(weight)[DOMAIN dims] /\ Making!TotalWeight(dims) \in Int
    BY <1>1, <1>2, FoldSteps
  <1> QED
    BY <1>1, <1>3 DEF weight

LEMMA CutTimes ==
  ASSUME NEW w \in Int, NEW x \in Int, NEW o \in Int
  PROVE  (w - x) * o = o * w - o * x
  OBVIOUS

LEMMA GrownTimes ==
  ASSUME NEW w \in Int, NEW o \in Int, NEW e \in Int
  PROVE  w * (o + e) = o * w + e * w
  OBVIOUS

\* Products that the arithmetic of governance comes down to.
LEMMA Spread ==
  ASSUME NEW w \in Int, NEW v \in Int, NEW o \in Int, NEW e \in Int
  PROVE  /\ (w * (o + e)) * v = (v * (o + e)) * w
         /\ o * w - o * e + e * o = o * w
  <1>1. (w * (o + e)) * v = (v * (o + e)) * w
    <2>1. ASSUME NEW z \in Int PROVE (w * z) * v = (v * z) * w
      OBVIOUS
    <2> QED
      BY <2>1
  <1>2. o * e = e * o /\ o * w \in Int /\ o * e \in Int
    OBVIOUS
  <1> QED
    BY <1>1, <1>2

LEMMA Scaled ==
  ASSUME NEW o \in Nat, NEW c \in Int, NEW d \in Int, c <= d
  PROVE  o * c <= o * d
  <1>1. o * (d - c) >= 0
    OBVIOUS
  <1>2. o * (d - c) = o * d - o * c /\ o * d \in Int /\ o * c \in Int
    OBVIOUS
  <1> QED
    BY <1>1, <1>2

\* What the property says, of any weights before and after.
KeepsEmphasis(was, rub, family) ==
  LET is == rub.dims
      now(i) == is[i].weight * Making!WeightOne
      before(i) == was[i].weight * rub.whole
      bound == Making!Tolerance * rub.whole
  IN /\ Making!TotalWeight(is) * Making!WeightOne = Making!TotalWeight(was) * rub.whole
     /\ (Making!TotalWeight(is) - rub.whole) * Making!WeightOne \in -bound .. bound
     /\ \A i \in DOMAIN is : IF i \notin family THEN was[i].weight >= 0 => now(i) >= before(i)
                             ELSE now(i) <= before(i)
     /\ \A i \in family : \/ now(i) <= Making!WeightCap * rub.whole
                          \/ jd.foregrounds \/ Making!DirectWeight(was) <= 0
     /\ \A i, j \in DOMAIN is \ family :
          is[i].weight * was[j].weight = is[j].weight * was[i].weight

LEMMA WeighedKeeps ==
  ASSUME NEW was \in Seq(Dimension), NEW rub, DOMAIN rub.dims = DOMAIN was,
         NEW family \in SUBSET DOMAIN was, Weighed(was, rub, family),
         Making!TotalWeight(was) - Making!WeightOne \in -Making!Tolerance .. Making!Tolerance
  PROVE  KeepsEmphasis(was, rub, family)
  <1> DEFINE is == rub.dims
             D == DOMAIN was
             T == Making!TotalWeight(was)
  <1>1. IsFiniteSet(D)
    <2>1. DOMAIN was = 1 .. Len(was) /\ Len(was) \in Nat
      OBVIOUS
    <2>2. IsFiniteSet(1 .. Len(was))
      BY <2>1, FS_Interval
    <2> QED
      BY <2>1, <2>2, Zenon
  <1>2. \A i \in D : was[i].weight \in Int
    <2>1. \A i \in D : was[i] \in Dimension
      OBVIOUS
    <2> QED
      BY <2>1 DEF Dimension
  <1>3. T \in Int /\ T - 1000 \in -10 .. 10
    BY <1>1, <1>2, TotalIs DEF Making!WeightOne, Making!Tolerance
  <1> HIDE DEF T
  <1>4. CASE /\ rub.whole = Making!WeightOne
             /\ \A i \in D : is[i].weight = was[i].weight
             /\ \/ jd.foregrounds \/ Making!DirectWeight(was) <= 0
                \/ \A i \in family : was[i].weight <= Making!WeightCap
    <2>1. Making!TotalWeight(is) = T
      <3>1. [i \in DOMAIN is |-> is[i].weight] = [i \in DOMAIN was |-> was[i].weight]
        BY <1>4
      <3> QED
        BY <3>1, Zenon DEF Making!TotalWeight, T
    <2>2. rub.whole = 1000
      BY <1>4 DEF Making!WeightOne
    <2>3. (T - 1000) * 1000 \in -(10 * 1000) .. 10 * 1000
      BY <1>3
    <2>4. \A i \in D : is[i].weight * 1000 <= was[i].weight * 1000 /\ is[i].weight * 1000 >= was[i].weight * 1000
      BY <1>2, <1>4
    <2>5. \A i \in family : \/ is[i].weight * 1000 <= 100 * 1000
                            \/ jd.foregrounds \/ Making!DirectWeight(was) <= 0
      BY <1>2, <1>4 DEF Making!WeightCap
    <2>6. \A i, j \in D : is[i].weight * was[j].weight = is[j].weight * was[i].weight
      <3>1. ASSUME NEW i \in D, NEW j \in D
            PROVE  is[i].weight * was[j].weight = is[j].weight * was[i].weight
        <4>1. was[i].weight * was[j].weight = was[j].weight * was[i].weight
          BY <1>2
        <4> QED
          BY <1>4, <4>1
      <3> QED
        BY <3>1
    <2>7. /\ Making!TotalWeight(is) * Making!WeightOne = Making!TotalWeight(was) * rub.whole
          /\ (Making!TotalWeight(is) - rub.whole) * Making!WeightOne
               \in -(Making!Tolerance * rub.whole) .. Making!Tolerance * rub.whole
      BY <2>1, <2>2, <2>3 DEF T, Making!WeightOne, Making!Tolerance
    <2> HIDE DEF is
    <2>8. /\ \A i \in D : IF i \notin family
                          THEN was[i].weight >= 0 =>
                                 is[i].weight * Making!WeightOne >= was[i].weight * rub.whole
                          ELSE is[i].weight * Making!WeightOne <= was[i].weight * rub.whole
          /\ \A i \in family : \/ is[i].weight * Making!WeightOne <= Making!WeightCap * rub.whole
                               \/ jd.foregrounds \/ Making!DirectWeight(was) <= 0
      BY <2>2, <2>4, <2>5 DEF Making!WeightOne, Making!WeightCap
    <2> QED
      BY <2>6, <2>7, <2>8, Zenon DEF KeepsEmphasis, is
  <1>5. ASSUME NEW excess \in Nat \ {0}, NEW others \in Nat \ {0}, NEW over, NEW direct,
               rub.whole = Making!WeightOne * others,
               Summable(over, D), Summable(direct, D),
               Summing(over)[D] = excess, Summing(direct)[D] = others,
               \A i \in D :
                 IF i \in family
                 THEN /\ is[i].weight = (was[i].weight - over[i]) * others
                      /\ direct[i] = 0 /\ over[i] \in Nat
                      /\ was[i].weight - over[i] <= Making!WeightCap
                 ELSE /\ is[i].weight = was[i].weight * (others + excess)
                      /\ direct[i] = was[i].weight /\ over[i] = 0
        PROVE  KeepsEmphasis(was, rub, family)
    <2> DEFINE had == [i \in D |-> was[i].weight]
               has == [i \in D |-> is[i].weight]
    <2>0. rub.whole = 1000 * others /\ Making!WeightOne = 1000
      BY <1>5 DEF Making!WeightOne
    <2>1. ASSUME NEW i \in D
          PROVE  /\ is[i].weight \in Int
                 /\ is[i].weight = others * was[i].weight - others * over[i] + excess * direct[i]
      <3>1. /\ was[i].weight \in Int /\ over[i] \in Int /\ direct[i] \in Int
            /\ others \in Int /\ excess \in Int
        BY <1>2, <1>5 DEF Summable
      <3>2. CASE i \in family
        <4>1. is[i].weight = (was[i].weight - over[i]) * others /\ direct[i] = 0
          BY <1>5, <3>2
        <4>2. (was[i].weight - over[i]) * others = others * was[i].weight - others * over[i]
          BY <3>1, CutTimes, Zenon
        <4>3. others * was[i].weight \in Int /\ others * over[i] \in Int /\ excess * direct[i] = 0
          BY <3>1, <4>1
        <4> QED
          BY <4>1, <4>2, <4>3
      <3>3. CASE i \notin family
        <4>1. /\ is[i].weight = was[i].weight * (others + excess)
              /\ direct[i] = was[i].weight /\ over[i] = 0
          BY <1>5, <3>3
        <4>2. was[i].weight * (others + excess) = others * was[i].weight + excess * was[i].weight
          BY <3>1, GrownTimes, Zenon
        <4>3. others * was[i].weight \in Int /\ others * over[i] = 0 /\ excess * was[i].weight \in Int
          BY <3>1, <4>1
        <4> QED
          BY <4>1, <4>2, <4>3
      <3> QED
        BY <3>2, <3>3
    <2>2. Making!TotalWeight(is) = others * T
      <3>1. /\ Summable(had, D) /\ T = Summing(had)[D]
        BY <1>1, <1>2, TotalIs DEF T
      <3>2. /\ Summable(has, D) /\ Making!TotalWeight(is) = Summing(has)[D]
        <4>1. IsFiniteSet(DOMAIN is) /\ \A i \in DOMAIN is : is[i].weight \in Int
          BY <1>1, <2>1
        <4>2. DOMAIN is = D
          OBVIOUS
        <4> HIDE DEF is, D
        <4> QED
          BY <4>1, <4>2, TotalIs
      <3>3. Combines(has, had, over, direct, others, excess, D)
        BY <2>1 DEF Combines
      <3> HIDE DEF had, has, D
      <3>a. /\ Summable(over, D) /\ Summable(direct, D) /\ others \in Int /\ excess \in Int
            /\ Summing(over)[D] = excess /\ Summing(direct)[D] = others
        BY <1>5
      <3>b. Summing(has)[D] = others * Summing(had)[D] - others * Summing(over)[D]
                              + excess * Summing(direct)[D]
        BY <3>1, <3>2, <3>3, <3>a, SumIsLinear
      <3>4. Summing(has)[D] = others * Summing(had)[D] - others * excess + excess * others
        BY <3>a, <3>b
      <3> QED
        BY <1>3, <3>1, <3>2, <3>4, Spread
    <2>3. Making!TotalWeight(is) * 1000 = T * rub.whole
      BY <1>3, <2>0, <2>2
    <2>4. (Making!TotalWeight(is) - rub.whole) * 1000 \in -(10 * rub.whole) .. 10 * rub.whole
      <3>1. (others * T - 1000 * others) * 1000 = (others * (T - 1000)) * 1000
        BY <1>3
      <3>2. others * (T - 1000) <= others * 10 /\ others * (0 - 10) <= others * (T - 1000)
        BY <1>3, Scaled
      <3>3. others * (T - 1000) \in Int
        BY <1>3
      <3> QED
        BY <2>0, <2>2, <3>1, <3>2, <3>3
    <2>5. ASSUME NEW i \in D
          PROVE  /\ IF i \notin family
                    THEN was[i].weight >= 0 => is[i].weight * 1000 >= was[i].weight * rub.whole
                    ELSE is[i].weight * 1000 <= was[i].weight * rub.whole
                 /\ i \in family => is[i].weight * 1000 <= 100 * rub.whole
      <3>1. was[i].weight \in Int /\ others \in Nat /\ 100 \in Int
        BY <1>2
      <3>2. CASE i \in family
        <4>1. /\ is[i].weight = (was[i].weight - over[i]) * others
              /\ over[i] \in Nat /\ was[i].weight - over[i] <= 100
          BY <1>5, <3>2 DEF Making!WeightCap
        <4>2. PICK c \in Int : c = was[i].weight - over[i]
          BY <3>1, <4>1
        <4>3. is[i].weight = c * others /\ c <= was[i].weight /\ c <= 100
          BY <3>1, <4>1, <4>2
        <4>4. others * c <= others * was[i].weight /\ others * c <= others * 100
          BY <3>1, <4>3, Scaled, Zenon
        <4>5. /\ (c * others) * 1000 = 1000 * (others * c)
              /\ was[i].weight * (1000 * others) = 1000 * (others * was[i].weight)
              /\ others * c \in Int /\ others * was[i].weight \in Int
          BY <3>1
        <4>6. is[i].weight * 1000 <= was[i].weight * rub.whole
          BY <2>0, <4>3, <4>4, <4>5
        <4>7. is[i].weight * 1000 <= 100 * rub.whole
          BY <2>0, <4>3, <4>4, <4>5
        <4> QED
          BY <3>2, <4>6, <4>7
      <3>3. CASE i \notin family
        <4>1. is[i].weight = was[i].weight * (others + excess)
          BY <1>5, <3>3
        <4>2. is[i].weight = others * was[i].weight + excess * was[i].weight
          BY <3>1, <4>1, GrownTimes
        <4>3. was[i].weight >= 0 => excess * was[i].weight >= 0
          BY <3>1
        <4>4. others * was[i].weight \in Int /\ excess * was[i].weight \in Int
          BY <3>1
        <4>5. was[i].weight * (1000 * others) = 1000 * (others * was[i].weight)
          BY <3>1
        <4> QED
          BY <2>0, <3>3, <4>2, <4>3, <4>4, <4>5
      <3> QED
        BY <3>2, <3>3
    <2>6. ASSUME NEW i \in D \ family, NEW j \in D \ family
          PROVE  is[i].weight * was[j].weight = is[j].weight * was[i].weight
      <3>1. /\ is[i].weight = was[i].weight * (others + excess)
            /\ is[j].weight = was[j].weight * (others + excess)
            /\ was[i].weight \in Int /\ was[j].weight \in Int
        BY <1>2, <1>5
      <3> QED
        BY <3>1, Spread
    <2> HIDE DEF is
    <2>7. /\ Making!TotalWeight(is) * Making!WeightOne = Making!TotalWeight(was) * rub.whole
          /\ (Making!TotalWeight(is) - rub.whole) * Making!WeightOne
               \in -(Making!Tolerance * rub.whole) .. Making!Tolerance * rub.whole
      BY <2>0, <2>3, <2>4 DEF T, Making!Tolerance
    <2>8. /\ \A i \in D : IF i \notin family
                          THEN was[i].weight >= 0 =>
                                 is[i].weight * Making!WeightOne >= was[i].weight * rub.whole
                          ELSE is[i].weight * Making!WeightOne <= was[i].weight * rub.whole
          /\ \A i \in family : is[i].weight * Making!WeightOne <= Making!WeightCap * rub.whole
      <3>1. Making!WeightCap = 100
        BY DEF Making!WeightCap
      <3> QED
        BY <2>0, <2>5, <3>1
    <2> QED
      BY <2>6, <2>7, <2>8, Zenon DEF KeepsEmphasis, is
  <1> QED
    BY <1>4, <1>5 DEF Weighed

\* An admitted rubric keeps the emphasis of the reply it was made of.
LEMMA AdmittedEmphasis ==
  ASSUME reply \in Replies \cup {Making!Malformed}, rubric \in Making!Admitted(reply, jd)
  PROVE  /\ Making!EmphasisKept
         /\ rubric.whole \in Nat \ {0}
         /\ \A i \in DOMAIN rubric.dims : rubric.dims[i].weight \in Int
  <1> DEFINE was == reply.dims
             seen == Making!RepairCitations(was)
             located == Making!WithLocated(seen)
             final == [reply EXCEPT !.dims = located]
             family == Making!Having(located, Making!IsPeripheral)
  <1>1. reply \in Replies /\ reply # Making!Malformed
    BY DEF Making!Admitted
  <1>2. /\ Making!IsValid(seen) /\ rubric = Making!Governed(final, jd)
    BY <1>1 DEF Making!Admitted
  <1>3. reply \in [dims : Seq(Dimension), bank : SUBSET STRING] /\ was \in Seq(Dimension)
    BY <1>1, RubricConstants
  <1>4. final.dims = located
    BY <1>3
  <1>5. /\ DOMAIN was = 1 .. Len(was) /\ Len(was) \in Nat
        /\ \A i \in DOMAIN was : was[i] \in Dimension
    BY <1>3
  <1>6. /\ DOMAIN seen = DOMAIN was
        /\ \A i \in DOMAIN was :
             seen[i] = IF Making!IsDelivery(was[i]) THEN [was[i] EXCEPT !.cited = TRUE] ELSE was[i]
    BY DEF Making!RepairCitations
  <1> HIDE DEF seen, was
  <1>7. /\ DOMAIN located = DOMAIN was
        /\ \A i \in DOMAIN was :
             located[i] = IF Making!IsLicensed(seen[i]) THEN seen[i]
                          ELSE [seen[i] EXCEPT !.evidence = Making!Located(seen[i].evidence)]
    BY <1>6 DEF Making!WithLocated
  <1>a. located = [i \in DOMAIN was |-> IF Making!IsLicensed(seen[i]) THEN seen[i]
                          ELSE [seen[i] EXCEPT !.evidence = Making!Located(seen[i].evidence)]]
    BY <1>6 DEF Making!WithLocated
  <1> HIDE DEF located, final
  <1>8. ASSUME NEW i \in DOMAIN was
        PROVE  /\ seen[i] \in Dimension /\ seen[i].weight = was[i].weight
               /\ located[i] \in Dimension /\ located[i].weight = was[i].weight
               /\ Making!IsPeripheral(located[i]) <=> Making!IsPeripheral(was[i])
               /\ "weight" \in DOMAIN located[i] /\ "probing" \in DOMAIN located[i]
    <2>1. /\ seen[i] \in Dimension /\ seen[i].weight = was[i].weight /\ seen[i].channel = was[i].channel
          /\ seen[i].license = was[i].license /\ seen[i].key = was[i].key
          /\ seen[i].family = was[i].family
      BY <1>5, <1>6 DEF Dimension
    <2>2. Making!Located(seen[i].evidence) \in {"exact", "variant", "long", "invented", "null"}
      BY <2>1 DEF Making!Located, Dimension
    <2>3. /\ located[i] \in Dimension /\ located[i].weight = was[i].weight
          /\ located[i].channel = was[i].channel
          /\ located[i].license = was[i].license /\ located[i].key = was[i].key
          /\ located[i].family = was[i].family
      BY <1>7, <2>1, <2>2 DEF Dimension
    <2>4. Making!IsPeripheral(located[i]) <=> Making!IsPeripheral(was[i])
      BY <2>3 DEF Making!IsPeripheral, Making!IsContent
    <2> QED
      BY <2>1, <2>3, <2>4 DEF Dimension
  <1>9. located \in Seq(Dimension)
    <2>1. located \in [1 .. Len(was) -> Dimension]
      BY <1>5, <1>8, <1>a
    <2> QED
      BY <1>5, <2>1, CountedSequence
  <1>10. /\ Making!TotalWeight(located) = Making!TotalWeight(was)
         /\ Making!TotalWeight(seen) = Making!TotalWeight(was)
    <2>1. /\ [i \in DOMAIN located |-> located[i].weight] = [i \in DOMAIN was |-> was[i].weight]
          /\ [i \in DOMAIN seen |-> seen[i].weight] = [i \in DOMAIN was |-> was[i].weight]
      BY <1>6, <1>7, <1>8
    <2> QED
      BY <2>1, Zenon DEF Making!TotalWeight
  <1>11. Making!DirectWeight(located) = Making!DirectWeight(was)
    <2>1. [i \in DOMAIN located |-> IF Making!IsPeripheral(located[i]) THEN 0 ELSE located[i].weight]
            = [i \in DOMAIN was |-> IF Making!IsPeripheral(was[i]) THEN 0 ELSE was[i].weight]
      BY <1>7, <1>8
    <2> QED
      BY <2>1, Zenon DEF Making!DirectWeight
  <1> DEFINE weights == IF jd.foregrounds
                        THEN [whole |-> Making!WeightOne, parts |-> [i \in DOMAIN located |-> located[i].weight]]
                        ELSE Making!CappedWeights(located)
  <1>12. rubric = [dims |-> [i \in DOMAIN located |->
                      [located[i] EXCEPT !.weight = weights.parts[i],
                                         !.probing = IF Making!IsPeripheral(located[i])
                                                     THEN "indirect" ELSE "direct"]],
                   whole |-> weights.whole,
                   bank |-> final.bank \ {located[i].key : i \in family}]
    BY <1>2, <1>4, Zenon DEF Making!Governed
  <1> HIDE DEF weights, family
  <1>13. /\ rubric.whole = weights.whole /\ DOMAIN rubric.dims = DOMAIN located
         /\ \A i \in DOMAIN located :
              /\ rubric.dims[i].weight = weights.parts[i]
              /\ rubric.dims[i].channel = located[i].channel
              /\ rubric.dims[i].license = located[i].license /\ rubric.dims[i].key = located[i].key
              /\ rubric.dims[i].family = located[i].family
    <2>1. \A i \in DOMAIN located : located[i] \in Dimension
      BY <1>7, <1>8
    <2> QED
      BY <1>12, <2>1 DEF Dimension
  <1>14. \A i \in DOMAIN was : i \in family <=> Making!IsPeripheral(rubric.dims[i])
    <2>1. \A i \in DOMAIN located : Making!IsPeripheral(rubric.dims[i]) <=> Making!IsPeripheral(located[i])
      BY <1>13 DEF Making!IsPeripheral, Making!IsContent
    <2> QED
      BY <1>7, <2>1 DEF family, Making!Having
  <1>15. family \in SUBSET DOMAIN located
    BY DEF family, Making!Having
  <1>16. Weighed(located, rubric, family)
    <2>1. CASE jd.foregrounds
      <3>1. /\ weights.whole = Making!WeightOne
            /\ \A i \in DOMAIN located : weights.parts[i] = located[i].weight
        BY <2>1 DEF weights
      <3> QED
        BY <1>13, <2>1, <3>1 DEF Weighed
    <2>2. CASE ~jd.foregrounds
      <3>1. weights = Making!CappedWeights(located)
        BY <2>2 DEF weights
      <3>2. /\ rubric.whole = Making!CappedWeights(located).whole
            /\ \A i \in DOMAIN located : rubric.dims[i].weight = Making!CappedWeights(located).parts[i]
        BY <1>13, <3>1
      <3> QED
        BY <1>9, <3>2, CappedIs DEF family
    <2> QED
      BY <2>1, <2>2
  <1>b. /\ rubric.whole \in Nat \ {0}
        /\ \A i \in DOMAIN rubric.dims : rubric.dims[i].weight \in Int
    <2>1. \A i \in DOMAIN located : located[i].weight \in Int
      BY <1>7, <1>8 DEF Dimension
    <2>2. CASE /\ rubric.whole = Making!WeightOne
               /\ \A i \in DOMAIN located : rubric.dims[i].weight = located[i].weight
      BY <1>13, <2>1, <2>2 DEF Making!WeightOne
    <2>3. ASSUME NEW excess \in Nat \ {0}, NEW others \in Nat \ {0}, NEW over, NEW direct,
                 rubric.whole = Making!WeightOne * others, Summable(over, DOMAIN located),
                 \A i \in DOMAIN located :
                   IF i \in family
                   THEN rubric.dims[i].weight = (located[i].weight - over[i]) * others
                   ELSE rubric.dims[i].weight = located[i].weight * (others + excess)
          PROVE  /\ rubric.whole \in Nat \ {0}
                 /\ \A i \in DOMAIN rubric.dims : rubric.dims[i].weight \in Int
      BY <1>13, <2>1, <2>3 DEF Making!WeightOne, Summable
    <2> DEFINE kept == /\ rubric.whole = Making!WeightOne
                       /\ \A i \in DOMAIN located : rubric.dims[i].weight = located[i].weight
               spread(excess, others, over, direct) ==
                 /\ rubric.whole = Making!WeightOne * others
                 /\ Summable(over, DOMAIN located)
                 /\ \A i \in DOMAIN located :
                      IF i \in family
                      THEN rubric.dims[i].weight = (located[i].weight - over[i]) * others
                      ELSE rubric.dims[i].weight = located[i].weight * (others + excess)
    <2>4. kept \/ \E excess, others \in Nat \ {0} : \E over, direct :
                   spread(excess, others, over, direct)
      BY <1>16, Zenon DEF Weighed
    <2>5. CASE kept
      BY <2>2, <2>5
    <2>6. ASSUME NEW excess \in Nat \ {0}, NEW others \in Nat \ {0}, NEW over, NEW direct,
                 spread(excess, others, over, direct)
          PROVE  /\ rubric.whole \in Nat \ {0}
                 /\ \A i \in DOMAIN rubric.dims : rubric.dims[i].weight \in Int
      BY <2>3, <2>6
    <2> HIDE DEF kept, spread
    <2> QED
      BY <2>4, <2>5, <2>6
  <1>17. Making!TotalWeight(located) - Making!WeightOne \in -Making!Tolerance .. Making!Tolerance
    BY <1>2, <1>10 DEF Making!IsValid
  <1>18. KeepsEmphasis(located, rubric, family)
    BY <1>9, <1>13, <1>15, <1>16, <1>17, WeighedKeeps
  <1> DEFINE is == rubric.dims
             now(i) == is[i].weight * Making!WeightOne
             before(i) == was[i].weight * rubric.whole
             bound == Making!Tolerance * rubric.whole
             direct == {i \in DOMAIN is : ~Making!IsPeripheral(is[i])}
  <1> HIDE DEF is, bound
  <1>19. /\ Making!TotalWeight(is) * Making!WeightOne = Making!TotalWeight(was) * rubric.whole
         /\ (Making!TotalWeight(is) - rubric.whole) * Making!WeightOne \in -bound .. bound
    BY <1>10, <1>18, Zenon DEF KeepsEmphasis, is, bound
  <1>20. \A i \in DOMAIN is : IF i \notin family THEN located[i].weight >= 0 =>
                                       now(i) >= located[i].weight * rubric.whole
                              ELSE now(i) <= located[i].weight * rubric.whole
    BY <1>18, Zenon DEF KeepsEmphasis, is
  <1>21. \A i \in family : \/ now(i) <= Making!WeightCap * rubric.whole
                           \/ jd.foregrounds \/ Making!DirectWeight(was) <= 0
    BY <1>11, <1>18, Zenon DEF KeepsEmphasis, is
  <1>22. \A i, j \in DOMAIN is \ family :
           is[i].weight * located[j].weight = is[j].weight * located[i].weight
    BY <1>18, Zenon DEF KeepsEmphasis, is
  <1>23. DOMAIN is = DOMAIN was /\ direct = DOMAIN is \ family /\ DOMAIN is \ direct = family
    BY <1>7, <1>13, <1>14, <1>15 DEF is
  <1>24. /\ \A i \in DOMAIN is : IF i \in direct THEN was[i].weight >= 0 => now(i) >= before(i)
                                 ELSE now(i) <= before(i)
         /\ \A i \in DOMAIN is \ direct : \/ now(i) <= Making!WeightCap * rubric.whole
                                          \/ jd.foregrounds \/ Making!DirectWeight(was) <= 0
         /\ \A i, j \in direct : is[i].weight * was[j].weight = is[j].weight * was[i].weight
    <2> HIDE DEF direct
    <2> QED
      BY <1>8, <1>20, <1>21, <1>22, <1>23, Zenon
  <1>25. Making!EmphasisKept
    BY <1>19, <1>24, Zenon DEF Making!EmphasisKept, is, bound, was
  <1> QED
    BY <1>b, <1>25

-----------------------------------------------------------------------------
(* The reports of one rubric *)

\* The places of the scores under the gap line, and what a report prints of one.
BelowLine(scores) == {i \in DOMAIN scores : scores[i].score < Making!GapThreshold}
GapLine(s) == [key |-> s.key, printed |-> Making!Printed(s.score)]

\* A report on a rubric: a score for each of its dimensions, the same where the dimension
\* is, a number overall, and a gap line for each score below.
OnRubric(rub, r) ==
  /\ r # Making!NoReport /\ Scored(r.scores) /\ r.overall \in Int
  /\ DOMAIN r.scores = DOMAIN rub.dims
  /\ \A i \in DOMAIN r.scores : r.scores[i].key = rub.dims[i].key
  /\ \A i, j \in DOMAIN r.scores : r.scores[i].key = r.scores[j].key =>
                                     r.scores[i].score = r.scores[j].score
  /\ {r.gaps[n] : n \in DOMAIN r.gaps} = {GapLine(r.scores[i]) : i \in BelowLine(r.scores)}

LEMMA Quotient ==
  ASSUME NEW a \in Int, NEW b \in Nat \ {0}
  PROVE  a \div b \in Int
  OBVIOUS

LEMMA OverallIs ==
  ASSUME NEW rub, NEW scores, Scored(scores), DOMAIN scores = DOMAIN rub.dims,
         rub.whole \in Nat \ {0}, \A i \in DOMAIN rub.dims : rub.dims[i].weight \in Int
  PROVE  Making!Overalls(rub, scores) \in SUBSET Int
  <1> DEFINE D == DOMAIN scores
             f == [i \in D |-> rub.dims[i].weight * scores[i].score]
             total == Making!FoldFunction(+, 0, f)
  <1>1. Summable(f, D)
    <2>1. PICK n \in Nat \ {0} : DOMAIN scores = 1 .. n
      BY DEF Scored
    <2>2. IsFiniteSet(D)
      BY <2>1, FS_Interval
    <2>3. \A i \in D : rub.dims[i].weight * scores[i].score \in Int
      BY DEF Scored
    <2> QED
      BY <2>2, <2>3 DEF Summable
  <1> HIDE DEF f, D
  <1>2. total \in Int
    BY <1>1, FoldSteps
  <1> DEFINE up == (2 * total + rub.whole) \div (2 * rub.whole)
  <1>3. Making!Overalls(rub, scores) \in {{up - 1, up}, {up}}
    BY Zenon DEF Making!Overalls, f, D
  <1> HIDE DEF total
  <1>4. up \in Int
    <2>1. 2 * total + rub.whole \in Int /\ 2 * rub.whole \in Nat \ {0}
      BY <1>2
    <2> QED
      BY <2>1, Quotient
  <1> HIDE DEF up
  <1> QED
    BY <1>3, <1>4

LEMMA ReportsAreOn ==
  ASSUME NEW rub, NEW scores, NEW grade, NEW r \in Making!ReportsOf(rub, scores, grade),
         Scored(Making!InRubricOrder(rub.dims, scores)),
         rub.whole \in Nat \ {0}, \A i \in DOMAIN rub.dims : rub.dims[i].weight \in Int
  PROVE  OnRubric(rub, r)
  <1> DEFINE ordered == Making!InRubricOrder(rub.dims, scores)
             ranked == Making!WeakestFirst(ordered)
             below == {k \in DOMAIN ranked : ordered[ranked[k]].score < Making!GapThreshold}
             low == Making!AtPlaces(ranked, below)
             gaps == [k \in DOMAIN low |-> [key |-> ordered[low[k]].key,
                                            printed |-> Making!Printed(ordered[low[k]].score)]]
  <1>1. PICK n \in Nat \ {0} : DOMAIN ordered = 1 .. n
    BY DEF Scored
  <1>2. /\ DOMAIN ordered = DOMAIN rub.dims
        /\ \A i \in DOMAIN ordered : /\ ordered[i].key = rub.dims[i].key
                                     /\ ordered[i].score = Making!LastScore(scores, rub.dims[i].key)
    BY DEF Making!InRubricOrder
  <1>3. PICK overall \in Making!Overalls(rub, ordered) :
          r = [verdict |-> Making!VerdictOf(overall, ordered),
               headline |-> ordered[ranked[1]].key,
               eligibility |-> grade,
               overall |-> overall,
               scores |-> ordered,
               strengths |-> [k \in DOMAIN Making!UpTo(2, Making!StrongestFirst(ordered)) |->
                                ordered[Making!UpTo(2, Making!StrongestFirst(ordered))[k]].key],
               gaps |-> gaps,
               drills |-> [k \in DOMAIN Making!UpTo(2, ranked) |->
                             ordered[Making!UpTo(2, ranked)[k]].key]]
    BY Zenon DEF Making!ReportsOf, Making!Kept
  <1> HIDE DEF ordered, gaps
  <1>4. r.scores = ordered /\ r.overall = overall /\ r.gaps = gaps /\ r # Making!NoReport
    <2>1. r.scores = ordered /\ r.overall = overall /\ r.gaps = gaps
      BY <1>3
    <2>2. r # Making!NoReport
      BY <1>1, <1>3 DEF Making!NoReport
    <2> QED
      BY <2>1, <2>2
  <1>5. overall \in Int
    BY <1>2, OverallIs DEF ordered
  <1>6. \A i, j \in DOMAIN ordered : ordered[i].key = ordered[j].key =>
                                       ordered[i].score = ordered[j].score
    BY <1>2
  <1>7. /\ ranked \in [DOMAIN ordered -> DOMAIN ordered]
        /\ \A k \in DOMAIN ordered : Rank(ordered, k) \in DOMAIN ordered
                                     /\ ranked[Rank(ordered, k)] = k
    BY RankedPlaces DEF ordered
  <1> HIDE DEF ranked
  <1>8. {gaps[k] : k \in DOMAIN gaps} = {GapLine(ordered[i]) : i \in BelowLine(ordered)}
    <2>1. Finite(ranked) /\ below \subseteq DOMAIN ranked /\ DOMAIN ranked = DOMAIN ordered
      BY <1>1, <1>7 DEF Finite
    <2>2. \A k \in DOMAIN ranked : k \in below <=> ordered[ranked[k]].score < Making!GapThreshold
      OBVIOUS
    <2> HIDE DEF below, low
    <2>3. /\ \A m \in DOMAIN low : \E k \in below : low[m] = ranked[k]
          /\ \A k \in below : \E m \in DOMAIN low : low[m] = ranked[k]
      BY <2>1, KeptShape DEF low
    <2>4. DOMAIN gaps = DOMAIN low /\ \A k \in DOMAIN low : gaps[k] = GapLine(ordered[low[k]])
      BY DEF gaps, GapLine
    <2>5. ASSUME NEW k \in DOMAIN gaps
          PROVE  \E i \in BelowLine(ordered) : gaps[k] = GapLine(ordered[i])
      <3>1. PICK m \in below : low[k] = ranked[m]
        BY <2>3, <2>4
      <3>2. ranked[m] \in BelowLine(ordered)
        BY <1>7, <2>1, <2>2, <3>1 DEF BelowLine
      <3> QED
        BY <2>4, <3>1, <3>2
    <2>6. ASSUME NEW i \in BelowLine(ordered)
          PROVE  \E k \in DOMAIN gaps : gaps[k] = GapLine(ordered[i])
      <3>1. i \in DOMAIN ordered /\ ordered[i].score < Making!GapThreshold
        BY DEF BelowLine
      <3>2. Rank(ordered, i) \in below /\ ranked[Rank(ordered, i)] = i
        BY <1>7, <2>1, <2>2, <3>1
      <3>3. PICK m \in DOMAIN low : low[m] = i
        BY <2>3, <3>2
      <3> QED
        BY <2>4, <3>3
    <2> QED
      BY <2>5, <2>6
  <1> QED
    BY <1>2, <1>4, <1>5, <1>6, <1>8 DEF OnRubric, ordered

\* The last score of a dimension is its score.
LEMMA LastOfReport ==
  ASSUME NEW rub, NEW r, OnRubric(rub, r), NEW i \in DOMAIN r.scores
  PROVE  /\ Making!LastScore(r.scores, r.scores[i].key) = r.scores[i].score
         /\ r.scores[i].score \in Nat
  <1> DEFINE scores == r.scores
             key == scores[i].key
             places == {j \in DOMAIN scores : scores[j].key = key}
             rule(k) == /\ scores[k].key = key
                        /\ \A j \in DOMAIN scores : scores[j].key = key => j <= k
  <1>1. PICK n \in Nat : DOMAIN scores = 1 .. n
    BY DEF OnRubric, Scored
  <1>2. places \in SUBSET (1 .. n) /\ places # {}
    BY <1>1
  <1>3. \E k \in places : \A j \in places : j <= k
    BY <1>2, GreatestPlace
  <1>4. \E k \in DOMAIN scores : rule(k)
    BY <1>3
  <1>5. Making!LastScore(scores, key) = scores[CHOOSE k \in DOMAIN scores : rule(k)].score
    BY DEF Making!LastScore
  <1> DEFINE chosen == CHOOSE k \in DOMAIN scores : rule(k)
  <1>6. chosen \in DOMAIN scores /\ scores[chosen].key = key
    BY <1>4
  <1> HIDE DEF chosen, rule
  <1>7. scores[chosen].score = scores[i].score /\ scores[i].score \in Nat
    BY <1>6 DEF OnRubric, Scored
  <1> QED
    BY <1>5, <1>7 DEF chosen

-----------------------------------------------------------------------------
(* What holds of the numbers *)

\* A row is marked "scored" only with a report, and all reports are on one rubric.
RowOn(rub, row) == IF row.report = Making!NoReport THEN row.status # "scored"
                   ELSE OnRubric(rub, row.report)

NumbersInv ==
  /\ rubric # Making!NoRubric =>
       reply \in Replies \cup {Making!Malformed} /\ rubric \in Making!Admitted(reply, jd)
  /\ report # Making!NoReport =>
       /\ stage \in {"saved", "scored", "failed"}
       /\ rubric # Making!NoRubric /\ OnRubric(rubric, report)
  /\ rows # <<>> => DOMAIN rows = 1 .. Slots /\ \A i \in DOMAIN rows : RowOn(rubric, rows[i])

\* A rubric that is there has dimensions.
LEMMA RubricIsThere ==
  ASSUME RubricInv, stage \notin {"compiling", "refused"}
  PROVE  rubric # Making!NoRubric
  <1>1. DOMAIN rubric.dims # {}
    BY DEF RubricInv
  <1>2. DOMAIN Making!NoRubric.dims = {}
    BY DEF Making!NoRubric
  <1> QED
    BY <1>1, <1>2, Zenon

\* Another row of the package is on this rubric too.
LEMMA RowsAreOn ==
  ASSUME JobInv, NumbersInv, rubric # Making!NoRubric, DOMAIN rubric.dims # {},
         NEW row \in Making!Rows
  PROVE  RowOn(rubric, row)
  <1> DEFINE given(past) == [i \in DOMAIN rubric.dims |->
                               [key |-> rubric.dims[i].key, score |-> past.scores[i]]]
             ofPast(past) == IF past.scores = <<>> THEN {[status |-> past.status, report |-> Making!NoReport]}
                             ELSE {[status |-> past.status, report |-> r] :
                                     r \in Making!ReportsOf(rubric, given(past), "scored")}
  <1>1. Making!Rows = UNION {ofPast(past) : past \in PastRows}
    BY Zenon DEF Making!Rows
  <1> HIDE DEF ofPast, given
  <1>2. PICK past \in PastRows : row \in ofPast(past)
    BY <1>1
  <1>3. past \in [status : STRING, scores : Seq(Nat)]
    BY PastConstants
  <1>4. CASE past.scores = <<>>
    <2>1. row = [status |-> past.status, report |-> Making!NoReport]
      BY <1>2, <1>4 DEF ofPast
    <2>2. past.status # "scored"
      BY <1>4, PastConstants
    <2> QED
      BY <2>1, <2>2 DEF RowOn
  <1>5. CASE past.scores # <<>>
    <2>1. PICK r \in Making!ReportsOf(rubric, given(past), "scored") :
            row = [status |-> past.status, report |-> r]
      BY <1>2, <1>5 DEF ofPast
    <2>2. /\ reply \in Replies /\ rubric \in Making!Admitted(reply, jd)
      BY DEF NumbersInv, Making!Admitted
    <2>3. /\ rubric.whole \in Nat \ {0} /\ \A i \in DOMAIN rubric.dims : rubric.dims[i].weight \in Int
      BY <2>2, AdmittedEmphasis
    <2>4. DOMAIN rubric.dims = DOMAIN reply.dims
      <3>1. DOMAIN rubric.dims = DOMAIN Making!RepairCitations(reply.dims)
        BY <2>2, AdmittedFields
      <3> QED
        BY <3>1 DEF Making!RepairCitations
    <2>5. /\ reply.dims \in Seq(Dimension) /\ Len(reply.dims) <= Len(past.scores)
      BY <1>5, <2>2, PastConstants, RubricConstants
    <2>6. PICK n \in Nat \ {0} : DOMAIN rubric.dims = 1 .. n /\ n <= Len(past.scores)
      BY <2>4, <2>5
    <2>7. \A i \in DOMAIN rubric.dims : past.scores[i] \in Nat
      BY <1>3, <2>6
    <2> DEFINE scores == given(past)
               ordered == Making!InRubricOrder(rubric.dims, scores)
    <2>8. /\ DOMAIN scores = DOMAIN rubric.dims
          /\ \A i \in DOMAIN scores : scores[i].key = rubric.dims[i].key /\ scores[i].score \in Nat
      BY <2>7 DEF given
    <2> HIDE DEF scores
    <2>9. ASSUME NEW d \in DOMAIN rubric.dims
          PROVE  Making!LastScore(scores, rubric.dims[d].key) \in Nat
      <3>1. Finite(scores)
        BY <2>6, <2>8 DEF Finite
      <3>2. \E i \in DOMAIN scores : scores[i].key = rubric.dims[d].key
        BY <2>8
      <3>3. \A i \in DOMAIN scores : scores[i].score \in Nat
        BY <2>8
      <3> QED
        BY <3>1, <3>2, <3>3, LastScoreIs
    <2>10. Scored(ordered)
      <3>1. /\ DOMAIN ordered = DOMAIN rubric.dims
            /\ \A d \in DOMAIN ordered : ordered[d].score = Making!LastScore(scores, rubric.dims[d].key)
        BY DEF Making!InRubricOrder
      <3> QED
        BY <2>6, <2>9, <3>1 DEF Scored
    <2>11. OnRubric(rubric, r)
      BY <2>1, <2>3, <2>10, ReportsAreOn DEF scores
    <2>12. row.report = r /\ r # Making!NoReport
      BY <2>1, <2>11 DEF OnRubric
    <2> QED
      BY <2>11, <2>12 DEF RowOn
  <1> QED
    BY <1>4, <1>5

LEMMA NumbersInit == PartsInit => NumbersInv
  BY DEF PartsInit, Making!Init, NumbersInv

LEMMA NumbersStep ==
  ASSUME JobInv, NumbersInv, Making!Next
  PROVE  NumbersInv'
  <1>1. RubricInv /\ StageInv
    BY DEF JobInv
  <1>2. ASSUME UNCHANGED <<jd, reply, rubric, report, rows>>,
               report # Making!NoReport => stage' \in {"saved", "scored", "failed"}
        PROVE  NumbersInv'
    BY <1>2 DEF NumbersInv
  <1>3. ASSUME NEW r \in Replies \cup {Making!Malformed}, Making!CompileAccepts(r) PROVE NumbersInv'
    <2>1. /\ rubric' \in Making!Admitted(r, jd) /\ reply' = r /\ stage = "compiling"
          /\ UNCHANGED <<jd, report, rows>>
      BY <1>3 DEF Making!CompileAccepts
    <2>2. report = Making!NoReport
      BY <2>1 DEF NumbersInv
    <2>3. rows = <<>>
      BY <1>1, <2>2 DEF StageInv
    <2> QED
      BY <2>1, <2>2, <2>3 DEF NumbersInv
  <1>4. ASSUME NEW r, Making!CompileRejects(r) \/ Making!CompileFails PROVE NumbersInv'
    BY <1>2, <1>4 DEF NumbersInv, Making!CompileRejects, Making!CompileFails
  <1>5. ASSUME NEW t, Making!Gate(t) PROVE NumbersInv'
    BY <1>2, <1>5 DEF NumbersInv, Making!Gate
  <1>6. CASE Making!JudgeStarts \/ Making!Judging \/ Making!JudgeReturns
    BY <1>2, <1>6 DEF NumbersInv, Making!JudgeStarts, Making!Judging, Making!JudgeReturns,
       Making!reportVars
  <1>7. CASE Making!JudgeRaises \/ Making!DeliveryFails
    BY <1>2, <1>7 DEF Making!JudgeRaises, Making!DeliveryFails
  <1>8. ASSUME NEW to \in {"scored", "failed"}, Making!Marked(to) PROVE NumbersInv'
    BY <1>2, <1>8 DEF Making!Marked
  <1>9. ASSUME NEW scores \in DeliveryReplies, Making!Delivered(scores) PROVE NumbersInv'
    <2>1. /\ stage = "delivery-judge" /\ stage' = "saved" /\ UNCHANGED <<jd, reply, rubric, rows>>
      BY <1>9 DEF Making!Delivered
    <2>2. rubric # Making!NoRubric
      BY <1>1, <2>1, RubricIsThere
    <2>3. reply \in Replies \cup {Making!Malformed} /\ rubric \in Making!Admitted(reply, jd)
      BY <2>2 DEF NumbersInv
    <2>4. /\ rubric.whole \in Nat \ {0} /\ \A i \in DOMAIN rubric.dims : rubric.dims[i].weight \in Int
      BY <2>3, AdmittedEmphasis
    <2>5. PICK all : /\ Scored(Making!InRubricOrder(rubric.dims, all))
                     /\ report' \in Making!ReportsOf(rubric, all, eligibility)
      BY <1>9, ReportDelivered
    <2>6. OnRubric(rubric, report')
      BY <2>4, <2>5, ReportsAreOn
    <2> QED
      BY <2>1, <2>2, <2>6 DEF NumbersInv
  <1>10. ASSUME NEW index \in 1 .. Slots, Making!Read(index) PROVE NumbersInv'
    <2>1. /\ UNCHANGED <<jd, reply, rubric, stage, report>>
          /\ report # Making!NoReport /\ stage \in {"scored", "failed"}
      BY <1>10 DEF Making!Read
    <2>2. PICK others \in [(1 .. Slots) \ {index} -> Making!Rows] :
            rows' = [i \in 1 .. Slots |-> IF i = index THEN [status |-> stage, report |-> report]
                                          ELSE others[i]]
      BY <1>10, Zenon DEF Making!Read
    <2>3. /\ rubric # Making!NoRubric /\ DOMAIN rubric.dims # {} /\ OnRubric(rubric, report)
      BY <1>1, <2>1 DEF NumbersInv, RubricInv
    <2>4. ASSUME NEW i \in 1 .. Slots PROVE RowOn(rubric, rows'[i])
      <3>1. CASE i = index
        BY <2>1, <2>2, <2>3, <3>1 DEF RowOn
      <3>2. CASE i # index
        <4>1. rows'[i] \in Making!Rows
          BY <2>2, <3>2
        <4> QED
          BY <2>3, <4>1, RowsAreOn
      <3> QED
        BY <3>1, <3>2
    <2>5. DOMAIN rows' = 1 .. Slots
      BY <2>2
    <2> QED
      BY <2>1, <2>3, <2>4, <2>5 DEF NumbersInv
  <1> QED
    BY <1>3, <1>4, <1>5, <1>6, <1>7, <1>8, <1>9, <1>10 DEF Making!Next

LEMMA NumbersAlways == PartsSpec => []NumbersInv
  <1>1. JobInv /\ NumbersInv /\ [PartsNext]_partsVars => NumbersInv'
    <2>1. CASE InMaking(Making!Next)
      BY <2>1, NumbersStep DEF InMaking
    <2>2. ASSUME NumbersInv, UNCHANGED makingVars PROVE NumbersInv'
      BY <2>2 DEF makingVars, NumbersInv
    <2> QED
      BY <2>1, <2>2 DEF PartsNext, InDoor, partsVars
  <1> QED
    BY <1>1, NumbersInit, JobAlways, PTL DEF PartsSpec

-----------------------------------------------------------------------------
(* The ticket's lowest *)

\* What the fold of lib/home.ts keeps of some scores: the lowest so far, or s.
Lower(low, s) == IF s.score < low.score THEN s ELSE low
IsLowering(scores, g) ==
  g = [s \in SUBSET DOMAIN scores |->
         IF s = {} THEN scores[1] ELSE Lower(g[s \ {Making!Max(s)}], scores[Making!Max(s)])]
Lowering(scores) == CHOOSE g : IsLowering(scores, g)

LEMMA HighestIs ==
  ASSUME NEW n \in Nat, NEW s \in SUBSET (1 .. n), s # {}
  PROVE  Making!Max(s) \in s /\ \A j \in s : j <= Making!Max(s)
  <1>1. PICK k \in s : \A j \in s : j <= k
    BY GreatestPlace
  <1>2. \A j \in s : k >= j
    <2>1. \A j \in s : j \in Nat
      OBVIOUS
    <2> QED
      BY <1>1, <2>1
  <1>3. Making!Max(s) = CHOOSE x \in s : \A y \in s : x >= y
    BY DEF Making!Max
  <1> DEFINE m == Making!Max(s)
  <1>4. m \in s /\ \A j \in s : m >= j
    BY <1>2, <1>3
  <1> HIDE DEF m
  <1>5. \A j \in s : j <= m
    <2>1. \A j \in s : j \in Nat
      OBVIOUS
    <2> QED
      BY <1>4, <2>1
  <1> QED
    BY <1>4, <1>5 DEF m

LEMMA LowestClauseIs ==
  ASSUME NEW r
  PROVE  Making!LowestClause(r) = Lowering(r.scores)[DOMAIN r.scores].key
  BY Zenon DEF Making!LowestClause, Making!FoldLeft, Making!MapThenFoldSet, Lowering, IsLowering,
     Lower

LEMMA LoweringIs ==
  ASSUME NEW scores, Scored(scores)
  PROVE  IsLowering(scores, Lowering(scores))
  <1>1. PICK n \in Nat \ {0} : DOMAIN scores = 1 .. n
    BY DEF Scored
  <1> DEFINE D == DOMAIN scores
             V == {scores[i] : i \in D}
             take == [s \in SUBSET D |-> Making!Max(s)]
             h == [s \in SUBSET D |-> [v \in V |-> Lower(v, scores[Making!Max(s)])]]
  <1>2. \A s \in SUBSET D : s # {} => take[s] = Making!Max(s) /\ Making!Max(s) \in s
    BY <1>1, HighestIs
  <1>3. \A s \in SUBSET D : \A v \in V : h[s][v] = Lower(v, scores[Making!Max(s)])
    OBVIOUS
  <1>4. IsFiniteSet(D) /\ scores[1] \in V
    <2>1. D = 1 .. n /\ 1 \in D /\ IsFiniteSet(1 .. n)
      BY <1>1, FS_Interval
    <2>2. scores[1] \in V
      BY <2>1
    <2> HIDE DEF D, V
    <2> QED
      BY <2>1, <2>2
  <1>5. \A i \in D : scores[i] \in V
    OBVIOUS
  <1> HIDE DEF take, h, D, V
  <1>6. Foldable(D, V, take, h)
    BY <1>2, <1>3, <1>5 DEF Foldable, Lower
  <1>7. PICK g : IsFold(g, D, V, scores[1], take, h)
    BY <1>4, <1>6, FoldExists
  <1>8. \A s \in SUBSET D :
          g[s] = IF s = {} THEN scores[1] ELSE Lower(g[s \ {Making!Max(s)}], scores[Making!Max(s)])
    BY <1>2, <1>3, <1>7 DEF IsFold
  <1>9. g = [s \in SUBSET D |->
          IF s = {} THEN scores[1] ELSE Lower(g[s \ {Making!Max(s)}], scores[Making!Max(s)])]
    BY <1>7, <1>8 DEF IsFold
  <1>10. IsLowering(scores, g)
    BY <1>9, Zenon DEF IsLowering, D
  <1> QED
    BY <1>10 DEF Lowering

\* It comes to the first of the lowest.
LEMMA LowestIsWeakest ==
  ASSUME NEW scores, Scored(scores), NEW i, IsWeakest(scores, i)
  PROVE  Lowering(scores)[DOMAIN scores] = scores[i]
  <1>1. PICK n \in Nat \ {0} : DOMAIN scores = 1 .. n
    BY DEF Scored
  <1> DEFINE D == DOMAIN scores
             G(s) == Lowering(scores)[s]
             lowest(j, k) == \A l \in 1 .. k : \/ scores[j].score < scores[l].score
                                               \/ scores[j].score = scores[l].score /\ j <= l
             Good == {k \in Nat : k \in 1 .. n => \E j \in 1 .. k : G(1 .. k) = scores[j]
                                                                      /\ lowest(j, k)}
  <1>2. \A s \in SUBSET D :
          G(s) = IF s = {} THEN scores[1] ELSE Lower(G(s \ {Making!Max(s)}), scores[Making!Max(s)])
    <2> DEFINE g == Lowering(scores)
    <2>1. IsLowering(scores, g)
      BY LoweringIs
    <2> HIDE DEF g
    <2>2. g = [s \in SUBSET D |-> IF s = {} THEN scores[1]
                                  ELSE Lower(g[s \ {Making!Max(s)}], scores[Making!Max(s)])]
      BY <2>1, Zenon DEF IsLowering
    <2>3. \A s \in SUBSET D : g[s] = IF s = {} THEN scores[1]
                                  ELSE Lower(g[s \ {Making!Max(s)}], scores[Making!Max(s)])
      BY <2>2
    <2> QED
      BY <2>3 DEF g
  <1> HIDE DEF G
  <1>3. \A j \in D : scores[j].score \in Nat
    BY DEF Scored
  <1>4. ASSUME NEW k \in 1 .. n
        PROVE  G(1 .. k) = Lower(G(1 .. k - 1), scores[k])
    <2>0. k \in Nat /\ 1 <= k /\ k <= n /\ n \in Nat
      BY <1>1
    <2>1. 1 .. k \in SUBSET D /\ 1 .. k # {} /\ (1 .. k) \ {k} = 1 .. k - 1
      <3>1. 1 .. k \subseteq 1 .. n /\ k \in 1 .. k
        BY <2>0
      <3>2. (1 .. k) \ {k} = 1 .. k - 1
        BY <2>0
      <3> QED
        BY <1>1, <3>1, <3>2
    <2>2. Making!Max(1 .. k) = k
      <3> DEFINE m == Making!Max(1 .. k)
      <3>1. m \in 1 .. k /\ \A j \in 1 .. k : j <= m
        BY <1>1, <2>1, HighestIs
      <3> HIDE DEF m
      <3>2. k <= m
        BY <3>1
      <3> QED
        BY <3>1, <3>2 DEF m
    <2> QED
      BY <1>2, <2>1, <2>2
  <1>5. ASSUME NEW k \in Nat, \A m \in Nat : m < k => m \in Good PROVE k \in Good
    <2> SUFFICES ASSUME k \in 1 .. n
                 PROVE  \E j \in 1 .. k : G(1 .. k) = scores[j] /\ lowest(j, k)
      OBVIOUS
    <2> HIDE DEF Good
    <2>1. CASE k = 1
      <3>1. G({}) = scores[1] /\ 1 .. k - 1 = {} /\ scores[1].score \in Nat
        BY <1>1, <1>2, <1>3, <2>1
      <3>2. G(1 .. k) = scores[1]
        BY <1>4, <2>1, <3>1 DEF Lower
      <3>3. lowest(1, 1)
        BY <3>1
      <3> QED
        BY <2>1, <3>2, <3>3
    <2>2. CASE k # 1
      <3>1. k - 1 \in 1 .. n /\ k - 1 \in Nat /\ k - 1 < k
        BY <2>2
      <3>2. k - 1 \in Good
        BY <1>5, <3>1
      <3>3. PICK j \in 1 .. k - 1 : G(1 .. k - 1) = scores[j] /\ lowest(j, k - 1)
        BY <3>1, <3>2 DEF Good
      <3>4. /\ scores[j].score \in Nat /\ scores[k].score \in Nat
            /\ \A l \in 1 .. k : scores[l].score \in Nat
            /\ j \in 1 .. k /\ k \in 1 .. k /\ \A l \in 1 .. k : l = k \/ l \in 1 .. k - 1
        BY <1>1, <1>3, <3>1
      <3>5. CASE scores[k].score < scores[j].score
        <4>1. G(1 .. k) = scores[k]
          BY <1>4, <3>3, <3>5 DEF Lower
        <4>2. lowest(k, k)
          BY <3>3, <3>4, <3>5
        <4> QED
          BY <3>4, <4>1, <4>2
      <3>6. CASE ~(scores[k].score < scores[j].score)
        <4>1. G(1 .. k) = scores[j]
          BY <1>4, <3>3, <3>6 DEF Lower
        <4>2. lowest(j, k)
          BY <3>3, <3>4, <3>6
        <4> QED
          BY <3>4, <4>1, <4>2
      <3> QED
        BY <3>5, <3>6
    <2> QED
      BY <2>1, <2>2
  <1>6. Good = Nat
    <2> HIDE DEF Good
    <2>1. Good \in SUBSET Nat
      BY DEF Good
    <2> QED
      BY <1>5, <2>1, NoLeastFails
  <1>7. PICK j \in 1 .. n : G(1 .. n) = scores[j] /\ lowest(j, n)
    BY <1>6
  <1>8. IsWeakest(scores, j)
    BY <1>1, <1>7 DEF IsWeakest
  <1>9. i = j
    BY <1>8, OneIsWeakest DEF IsWeakest
  <1> QED
    BY <1>1, <1>7, <1>9 DEF G

LEMMA TicketHolds ==
  ASSUME NumbersInv
  PROVE  Making!TicketNamesWeakest
  <1> SUFFICES ASSUME report # Making!NoReport
               PROVE  Making!LowestClause(report) = Making!WeakestDimension(report.scores).key
    BY DEF Making!TicketNamesWeakest
  <1>1. Scored(report.scores)
    BY DEF NumbersInv, OnRubric
  <1>2. PICK i \in DOMAIN report.scores : IsWeakest(report.scores, i)
    BY <1>1, OneIsWeakest
  <1> QED
    BY <1>1, <1>2, LowestClauseIs, LowestIsWeakest, WeakestDimensionIs

-----------------------------------------------------------------------------
(* The package's sessions as the web has them *)

LEMMA FeedIs ==
  ASSUME NumbersInv, rows # <<>>
  PROVE  LET feed == Making!Feed(rows)
         IN /\ DOMAIN feed = 1 .. Slots /\ DOMAIN rows = 1 .. Slots /\ Slots \in Nat
            /\ \A i \in 1 .. Slots :
                 LET r == rows[i].report
                 IN /\ feed[i].status = rows[i].status
                    /\ IF r = Making!NoReport
                       THEN feed[i].status # "scored" /\ feed[i].gaps = {} /\ feed[i].overall = {}
                       ELSE /\ OnRubric(rubric, r)
                            /\ feed[i].overall = {r.overall} /\ feed[i].scores = r.scores
                            /\ feed[i].gaps = {r.gaps[n] : n \in DOMAIN r.gaps}
  <1> DEFINE feed == Making!Feed(rows)
  <1>1. DOMAIN rows = 1 .. Slots /\ Slots \in Nat /\ \A i \in 1 .. Slots : RowOn(rubric, rows[i])
    BY ReportConstants DEF NumbersInv
  <1>2. DOMAIN feed = DOMAIN rows
        /\ \A i \in DOMAIN rows : feed[i] = Making!ProgressEntry(rows[i])
    BY DEF Making!Feed
  <1>3. ASSUME NEW i \in 1 .. Slots
        PROVE  LET r == rows[i].report
               IN /\ feed[i].status = rows[i].status
                  /\ IF r = Making!NoReport
                     THEN feed[i].status # "scored" /\ feed[i].gaps = {} /\ feed[i].overall = {}
                     ELSE /\ OnRubric(rubric, r)
                          /\ feed[i].overall = {r.overall} /\ feed[i].scores = r.scores
                          /\ feed[i].gaps = {r.gaps[n] : n \in DOMAIN r.gaps}
    <2>1. feed[i] = Making!ProgressEntry(rows[i]) /\ RowOn(rubric, rows[i])
      BY <1>1, <1>2
    <2> HIDE DEF feed
    <2> QED
      BY <2>1 DEF Making!ProgressEntry, RowOn
  <1> QED
    BY <1>1, <1>2, <1>3

\* A gap is in a session's entry when its report bears it.
LEMMA GapIsBorne ==
  ASSUME NEW rub, NEW r, OnRubric(rub, r), NEW gap, NEW d \in DOMAIN rub.dims, NEW printed,
         gap = [key |-> rub.dims[d].key, printed |-> printed]
  PROVE  gap \in {r.gaps[n] : n \in DOMAIN r.gaps} <=>
           /\ Making!LastScore(r.scores, gap.key) < Making!GapThreshold
           /\ Making!Printed(Making!LastScore(r.scores, gap.key)) = gap.printed
  <1> DEFINE s(i) == r.scores[i]
  <1>1. /\ d \in DOMAIN r.scores /\ s(d).key = gap.key
        /\ \A i, j \in DOMAIN r.scores : s(i).key = s(j).key => s(i).score = s(j).score
        /\ {r.gaps[n] : n \in DOMAIN r.gaps} = {GapLine(s(i)) : i \in BelowLine(r.scores)}
    BY DEF OnRubric
  <1>2. Making!LastScore(r.scores, gap.key) = s(d).score
    BY <1>1, LastOfReport
  <1>3. gap \in {GapLine(s(i)) : i \in BelowLine(r.scores)} <=>
          s(d).score < Making!GapThreshold /\ Making!Printed(s(d).score) = printed
    <2>1. ASSUME NEW i \in BelowLine(r.scores), gap = GapLine(s(i))
          PROVE  s(d).score < Making!GapThreshold /\ Making!Printed(s(d).score) = printed
      <3>1. s(i).key = s(d).key /\ Making!Printed(s(i).score) = printed
        BY <1>1, <2>1 DEF GapLine
      <3>2. s(i).score = s(d).score /\ s(i).score < Making!GapThreshold
        BY <1>1, <3>1 DEF BelowLine
      <3> QED
        BY <3>1, <3>2
    <2>2. ASSUME s(d).score < Making!GapThreshold, Making!Printed(s(d).score) = printed
          PROVE  gap = GapLine(s(d)) /\ d \in BelowLine(r.scores)
      BY <1>1, <2>2 DEF GapLine, BelowLine
    <2> QED
      BY <2>1, <2>2
  <1> QED
    BY <1>1, <1>2, <1>3

LEMMA GapCountHolds ==
  ASSUME NumbersInv
  PROVE  Making!GapCountTrue
  <1> SUFFICES ASSUME rows # <<>> PROVE Making!GapCountTrue
    BY DEF Making!GapCountTrue
  <1> DEFINE feed == Making!Feed(rows)
             last(i, gap) == Making!LastScore(rows[i].report.scores, gap.key)
             bears(i, gap) == /\ rows[i].report # Making!NoReport
                              /\ last(i, gap) < Making!GapThreshold
                              /\ Making!Printed(last(i, gap)) = gap.printed
  <1>1. /\ DOMAIN feed = 1 .. Slots /\ DOMAIN rows = 1 .. Slots
        /\ \A i \in 1 .. Slots :
             LET r == rows[i].report
             IN IF r = Making!NoReport THEN feed[i].gaps = {}
                ELSE /\ OnRubric(rubric, r)
                     /\ feed[i].gaps = {r.gaps[n] : n \in DOMAIN r.gaps}
    BY FeedIs
  <1> HIDE DEF feed
  <1>2. ASSUME NEW gap \in Making!RecurringGaps(feed)
        PROVE  /\ Making!GapRecurrenceCount(feed, gap) >= 2
               /\ Making!GapRecurrenceCount(feed, gap) =
                    Making!Cardinality({i \in DOMAIN rows : bears(i, gap)})
    <2>1. /\ gap \in UNION {feed[i].gaps : i \in DOMAIN feed}
          /\ Making!Cardinality({i \in DOMAIN feed : gap \in feed[i].gaps}) >= 2
      BY DEF Making!RecurringGaps
    <2>2. PICK j \in 1 .. Slots : gap \in feed[j].gaps
      BY <1>1, <2>1
    <2>3. OnRubric(rubric, rows[j].report)
          /\ gap \in {rows[j].report.gaps[n] : n \in DOMAIN rows[j].report.gaps}
      BY <1>1, <2>2
    <2>4. PICK d \in DOMAIN rows[j].report.scores : gap = GapLine(rows[j].report.scores[d])
      BY <2>3 DEF OnRubric, BelowLine
    <2>5. /\ d \in DOMAIN rubric.dims
          /\ gap = [key |-> rubric.dims[d].key,
                    printed |-> Making!Printed(rows[j].report.scores[d].score)]
      BY <2>3, <2>4 DEF OnRubric, GapLine
    <2>6. ASSUME NEW i \in 1 .. Slots PROVE gap \in feed[i].gaps <=> bears(i, gap)
      <3>1. CASE rows[i].report = Making!NoReport
        BY <1>1, <3>1
      <3>2. CASE rows[i].report # Making!NoReport
        <4>1. OnRubric(rubric, rows[i].report)
              /\ feed[i].gaps = {rows[i].report.gaps[n] : n \in DOMAIN rows[i].report.gaps}
          BY <1>1, <3>2
        <4>2. gap \in feed[i].gaps <=> last(i, gap) < Making!GapThreshold
                                       /\ Making!Printed(last(i, gap)) = gap.printed
          BY <2>5, <4>1, GapIsBorne
        <4> QED
          BY <3>2, <4>2
      <3> QED
        BY <3>1, <3>2
    <2> HIDE DEF bears
    <2>7. {i \in DOMAIN feed : gap \in feed[i].gaps} = {i \in DOMAIN rows : bears(i, gap)}
      BY <1>1, <2>6
    <2> QED
      BY <2>1, <2>7 DEF Making!GapRecurrenceCount
  <1> QED
    BY <1>2, Zenon DEF Making!GapCountTrue, feed

-----------------------------------------------------------------------------
(* Movement from one session to the next *)

\* The places of a chain after its first, up to the n-th.
After(at, n) == {at[m] : m \in 2 .. n}
Rising(at, k) == /\ k \in Nat /\ \E m \in Nat : at \in [1 .. k -> 1 .. m]
                 /\ \A a, b \in 1 .. k : a < b <=> at[a] < at[b]
                 /\ \A a, b \in 1 .. k : at[a] = at[b] => a = b

\* f has the change of v at every place of a chain but the first.
Changes(f, at, v, k) == /\ DOMAIN f = After(at, k)
                        /\ \A n \in 1 .. k : v[n] \in Int
                        /\ \A n \in 2 .. k : f[at[n]] = v[n] - v[n - 1]

Total(f) == Making!FoldFunction(+, 0, f)

\* The changes add up to the change from the first to the last.
LEMMA Telescopes ==
  ASSUME NEW at, NEW k, NEW f, NEW v, Rising(at, k), Changes(f, at, v, k)
  PROVE  Total(f) = IF k < 2 THEN 0 ELSE v[k] - v[1]
  <1> DEFINE D == After(at, k)
             G(s) == Summing(f)[s]
             Good == {n \in Nat : n \in 1 .. k => G(After(at, n)) = v[n] - v[1]}
  <1>1. /\ k \in Nat /\ DOMAIN f = D
        /\ \A n \in 1 .. k : v[n] \in Int
        /\ \A n \in 2 .. k : f[at[n]] = v[n] - v[n - 1]
        /\ \A a, b \in 1 .. k : at[a] = at[b] => a = b
    BY DEF Rising, Changes
  <1>2. Summable(f, D)
    <2>1. PICK m \in Nat : at \in [1 .. k -> 1 .. m]
      BY DEF Rising
    <2>2. IsFiniteSet(D)
      <3>1. D \subseteq 1 .. m
        BY <1>1, <2>1 DEF After
      <3>2. IsFiniteSet(1 .. m)
        BY FS_Interval
      <3> QED
        BY <3>1, <3>2, FS_Subset
    <2>3. ASSUME NEW x \in D PROVE f[x] \in Int
      <3>1. PICK n \in 2 .. k : x = at[n]
        BY DEF After
      <3>2. n \in 1 .. k /\ n - 1 \in 1 .. k
        BY <1>1
      <3>3. v[n] \in Int /\ v[n - 1] \in Int /\ f[x] = v[n] - v[n - 1]
        BY <1>1, <3>1, <3>2
      <3> QED
        BY <3>3
    <2> QED
      BY <1>1, <2>2, <2>3 DEF Summable
  <1>3. /\ G({}) = 0
        /\ \A s \in SUBSET D : G(s) \in Int /\ \A x \in s : G(s) = f[x] + G(s \ {x})
    BY <1>2, SumSteps
  <1>4. Total(f) = G(D)
    BY <1>2, FoldSteps DEF Total
  <1> HIDE DEF G, D
  <1>5. ASSUME NEW n \in Nat, \A m \in Nat : m < n => m \in Good PROVE n \in Good
    <2> SUFFICES ASSUME n \in 1 .. k PROVE G(After(at, n)) = v[n] - v[1]
      OBVIOUS
    <2> HIDE DEF Good
    <2>1. CASE n = 1
      <3>1. After(at, n) = {} /\ v[n] \in Int
        BY <1>1, <2>1 DEF After
      <3>2. v[n] - v[1] = 0
        BY <2>1, <3>1
      <3> QED
        BY <1>3, <3>1, <3>2
    <2>2. CASE n # 1
      <3>1. /\ n - 1 \in Nat /\ n - 1 < n /\ n - 1 \in 1 .. k /\ n \in 2 .. n /\ n \in 2 .. k
            /\ n \notin 2 .. n - 1 /\ 2 .. n = (2 .. n - 1) \cup {n}
            /\ 2 .. n \subseteq 1 .. k /\ 2 .. n \subseteq 2 .. k /\ 1 \in 1 .. k
        BY <1>1, <2>2
      <3>2. G(After(at, n - 1)) = v[n - 1] - v[1]
        BY <1>5, <3>1 DEF Good
      <3>3. After(at, n) \in SUBSET D /\ at[n] \in After(at, n)
        BY <3>1 DEF After, D
      <3>4. After(at, n) \ {at[n]} = After(at, n - 1)
        <4>1. \A m \in 2 .. n - 1 : at[m] # at[n]
          BY <1>1, <3>1
        <4> QED
          BY <3>1, <4>1 DEF After
      <3>5. G(After(at, n)) = f[at[n]] + G(After(at, n - 1))
        BY <1>3, <3>3, <3>4
      <3>6. f[at[n]] = v[n] - v[n - 1] /\ v[n] \in Int /\ v[n - 1] \in Int /\ v[1] \in Int
        BY <1>1, <3>1
      <3> QED
        BY <3>2, <3>5, <3>6
    <2> QED
      BY <2>1, <2>2
  <1>6. Good = Nat
    <2> HIDE DEF Good
    <2>1. Good \in SUBSET Nat
      BY DEF Good
    <2> QED
      BY <1>5, <2>1, NoLeastFails
  <1>7. CASE k < 2
    <2>1. D = {}
      BY <1>1, <1>7 DEF D, After
    <2> QED
      BY <1>3, <1>4, <1>7, <2>1
  <1>8. CASE ~(k < 2)
    <2>1. k \in Good /\ k \in 1 .. k
      BY <1>1, <1>6, <1>8
    <2>2. G(D) = v[k] - v[1]
      BY <2>1 DEF D
    <2> QED
      BY <1>4, <1>8, <2>2
  <1> QED
    BY <1>7, <1>8

\* The first numbers are in order.
LEMMA NumbersInOrder ==
  ASSUME NEW k \in Nat
  PROVE  /\ Cardinality(1 .. k) = k
         /\ \A n \in 1 .. k : InOrder(1 .. k)[n] = n
  <1>1. IsFiniteSet(1 .. k) /\ Cardinality(1 .. k) = k
    BY FS_Interval
  <1>2. ASSUME NEW i \in 1 .. k PROVE CountUpTo(1 .. k, i) = i
    <2>1. {j \in 1 .. k : j <= i} = 1 .. i /\ i \in Nat
      OBVIOUS
    <2>2. Cardinality(1 .. i) = i
      BY <2>1, FS_Interval
    <2> QED
      BY <2>1, <2>2 DEF CountUpTo
  <1>3. InOrder(1 .. k) = [n \in 1 .. k |-> CHOOSE i \in 1 .. k : n = CountUpTo(1 .. k, i)]
    BY <1>1 DEF InOrder
  <1>4. ASSUME NEW n \in 1 .. k PROVE InOrder(1 .. k)[n] = n
    <2> DEFINE i == CHOOSE i \in 1 .. k : n = CountUpTo(1 .. k, i)
    <2>1. i \in 1 .. k /\ n = CountUpTo(1 .. k, i)
      BY <1>2
    <2>2. i = n
      <3> HIDE DEF i
      <3> QED
        BY <1>2, <2>1
    <2> QED
      BY <1>3, <2>2
  <1> QED
    BY <1>1, <1>4

\* The scored session before the n-th is the one before it.
LEMMA PreviousIs ==
  ASSUME NEW m \in Nat, NEW feed, NEW scored \in SUBSET (1 .. m), scored = Making!ScoredPlaces(feed),
         NEW n \in 1 .. Cardinality(scored)
  PROVE  LET at == InOrder(scored)
         IN Making!PreviousScored(feed, at[n]) = IF n = 1 THEN 0 ELSE at[n - 1]
  <1> DEFINE k == Cardinality(scored)
             at == InOrder(scored)
             earlier == {i \in scored : i < at[n]}
  <1>1. /\ k \in Nat /\ at \in [1 .. k -> scored]
        /\ \A i \in scored : \E l \in 1 .. k : at[l] = i
        /\ \A a, b \in 1 .. k : a < b <=> at[a] < at[b]
    BY PlacesInOrder
  <1>2. Making!PreviousScored(feed, at[n]) =
          IF earlier = {} THEN 0 ELSE CHOOSE i \in earlier : \A j \in earlier : j <= i
    BY DEF Making!PreviousScored
  <1>n. \A i \in scored : i \in Nat
    OBVIOUS
  <1>i. \A i : i \in earlier <=> i \in scored /\ i < at[n]
    OBVIOUS
  <1>k. n \in 1 .. k
    OBVIOUS
  <1> HIDE DEF k, at, earlier
  <1>3. CASE n = 1
    <2>1. ASSUME NEW i \in earlier PROVE FALSE
      <3>1. PICK l \in 1 .. k : at[l] = i
        BY <1>1, <1>i
      <3>2. l < n
        BY <1>1, <1>i, <1>k, <3>1
      <3> QED
        BY <1>1, <1>3, <3>2
    <2> QED
      BY <1>2, <1>3, <2>1 DEF at
  <1>4. CASE n # 1
    <2> DEFINE p == at[n - 1]
    <2>1. n - 1 \in 1 .. k /\ n - 1 < n
      BY <1>1, <1>4, <1>k
    <2>2. p \in earlier
      BY <1>1, <1>i, <1>k, <2>1
    <2>3. ASSUME NEW j \in earlier PROVE j <= p
      <3>1. PICK l \in 1 .. k : at[l] = j
        BY <1>1, <1>i
      <3>2. l < n
        BY <1>1, <1>i, <1>k, <3>1
      <3>3. ~(n - 1 < l)
        BY <1>1, <1>k, <3>2
      <3>4. ~(p < j)
        BY <1>1, <2>1, <3>1, <3>3
      <3>5. j \in Nat /\ p \in Nat
        BY <1>i, <1>n, <2>2
      <3> QED
        BY <3>4, <3>5
    <2> HIDE DEF p
    <2>4. ASSUME NEW q \in earlier, \A j \in earlier : j <= q PROVE q = p
      <3>1. q <= p /\ p <= q /\ q \in Nat /\ p \in Nat
        BY <1>i, <1>n, <2>2, <2>3, <2>4
      <3> QED
        BY <3>1
    <2>5. (CHOOSE i \in earlier : \A j \in earlier : j <= i) = p
      BY <2>2, <2>3, <2>4
    <2> QED
      BY <1>2, <1>4, <2>2, <2>5 DEF p, at
  <1> QED
    BY <1>3, <1>4

\* The feed the web has of the rows; its scored sessions one after the other, how many
\* they are, and their overall scores.
WebFeed == Making!Feed(rows)
Verdicts == Making!ScoredPlaces(WebFeed)
Chain == InOrder(Verdicts)
ChainLength == Cardinality(Verdicts)
ChainOverall == [n \in 1 .. ChainLength |-> rows[Chain[n]].report.overall]

LEMMA ChainIs ==
  ASSUME NumbersInv, rows # <<>>
  PROVE  /\ Verdicts \in SUBSET (1 .. Slots) /\ Slots \in Nat /\ DOMAIN WebFeed = 1 .. Slots
         /\ Rising(Chain, ChainLength) /\ Chain \in [1 .. ChainLength -> Verdicts]
         /\ \A i \in Verdicts : \E n \in 1 .. ChainLength : Chain[n] = i
         /\ \A n \in 1 .. ChainLength :
              /\ ChainOverall[n] \in Int /\ WebFeed[Chain[n]].overall = {ChainOverall[n]}
              /\ WebFeed[Chain[n]].scores = rows[Chain[n]].report.scores
              /\ OnRubric(rubric, rows[Chain[n]].report)
              /\ rows[Chain[n]].report.overall = ChainOverall[n]
         /\ {i \in DOMAIN WebFeed : Making!IsMeasured(WebFeed[i])} = Verdicts
         /\ {i \in DOMAIN WebFeed : Making!IsScored(WebFeed[i])} = Verdicts
  <1>1. /\ DOMAIN WebFeed = 1 .. Slots /\ Slots \in Nat
        /\ \A i \in 1 .. Slots :
             LET r == rows[i].report
             IN IF r = Making!NoReport
                THEN WebFeed[i].status # "scored"
                ELSE /\ OnRubric(rubric, r)
                     /\ WebFeed[i].overall = {r.overall} /\ WebFeed[i].scores = r.scores
    BY FeedIs DEF WebFeed
  <1>2. Verdicts = {i \in 1 .. Slots : WebFeed[i].status = "scored"}
    BY <1>1 DEF Verdicts, Making!ScoredPlaces
  <1>3. ASSUME NEW i \in Verdicts
        PROVE  /\ i \in 1 .. Slots /\ WebFeed[i].status = "scored"
               /\ OnRubric(rubric, rows[i].report)
               /\ WebFeed[i].overall = {rows[i].report.overall}
               /\ WebFeed[i].scores = rows[i].report.scores /\ rows[i].report.overall \in Int
    BY <1>1, <1>2 DEF OnRubric
  <1>4. Verdicts \in SUBSET (1 .. Slots)
    BY <1>2
  <1>5. /\ ChainLength \in Nat /\ Chain \in [1 .. ChainLength -> Verdicts]
        /\ \A i \in Verdicts : \E n \in 1 .. ChainLength : Chain[n] = i
        /\ \A a, b \in 1 .. ChainLength : a < b <=> Chain[a] < Chain[b]
        /\ \A a, b \in 1 .. ChainLength : Chain[a] = Chain[b] => a = b
    BY <1>1, <1>4, PlacesInOrder DEF Chain, ChainLength
  <1>6. Rising(Chain, ChainLength)
    <2>1. Chain \in [1 .. ChainLength -> 1 .. Slots]
      BY <1>4, <1>5
    <2> QED
      BY <1>1, <1>5, <2>1 DEF Rising
  <1>7. ASSUME NEW n \in 1 .. ChainLength
        PROVE  /\ ChainOverall[n] \in Int /\ WebFeed[Chain[n]].overall = {ChainOverall[n]}
               /\ WebFeed[Chain[n]].scores = rows[Chain[n]].report.scores
               /\ OnRubric(rubric, rows[Chain[n]].report)
               /\ rows[Chain[n]].report.overall = ChainOverall[n]
    <2>1. Chain[n] \in Verdicts /\ ChainOverall[n] = rows[Chain[n]].report.overall
      BY <1>5 DEF ChainOverall
    <2> QED
      BY <1>3, <2>1
  <1>8. /\ {i \in DOMAIN WebFeed : Making!IsMeasured(WebFeed[i])} = Verdicts
        /\ {i \in DOMAIN WebFeed : Making!IsScored(WebFeed[i])} = Verdicts
    <2>1. \A i \in 1 .. Slots : Making!IsScored(WebFeed[i]) <=> i \in Verdicts
      BY <1>2 DEF Making!IsScored
    <2>2. \A i \in 1 .. Slots : Making!IsMeasured(WebFeed[i]) <=> i \in Verdicts
      BY <1>3, <2>1 DEF Making!IsMeasured
    <2> QED
      BY <1>1, <1>4, <2>1, <2>2
  <1> QED
    BY <1>1, <1>4, <1>5, <1>6, <1>7, <1>8

LEMMA KeptChain ==
  ASSUME NumbersInv, rows # <<>>
  PROVE  /\ Making!Numbers(WebFeed, Making!IsMeasured) = [n \in 1 .. ChainLength |-> Chain[n]]
         /\ Making!Kept(WebFeed, Making!IsMeasured) =
              [n \in 1 .. ChainLength |-> WebFeed[Chain[n]]]
         /\ Making!ScoredInOrder(WebFeed) = [n \in 1 .. ChainLength |-> WebFeed[Chain[n]]]
  <1> DEFINE ids == [i \in DOMAIN WebFeed |-> i]
  <1>1. /\ Verdicts \in SUBSET DOMAIN WebFeed /\ Chain \in [1 .. ChainLength -> Verdicts]
        /\ {i \in DOMAIN WebFeed : Making!IsMeasured(WebFeed[i])} = Verdicts
        /\ {i \in DOMAIN WebFeed : Making!IsScored(WebFeed[i])} = Verdicts
    BY ChainIs
  <1>2. \A s : Making!AtPlaces(s, Verdicts) = [n \in 1 .. ChainLength |-> s[Chain[n]]]
    BY KeptInOrder DEF ChainLength, Chain
  <1>3. Making!Kept(WebFeed, Making!IsMeasured) = [n \in 1 .. ChainLength |-> WebFeed[Chain[n]]]
    <2>1. Making!Kept(WebFeed, Making!IsMeasured) =
            Making!AtPlaces(WebFeed, {i \in DOMAIN WebFeed : Making!IsMeasured(WebFeed[i])})
      BY Zenon DEF Making!Kept
    <2> QED
      BY <1>1, <1>2, <2>1
  <1>4. Making!ScoredInOrder(WebFeed) = [n \in 1 .. ChainLength |-> WebFeed[Chain[n]]]
    <2>1. Making!ScoredInOrder(WebFeed) =
            Making!AtPlaces(WebFeed, {i \in DOMAIN WebFeed : Making!IsScored(WebFeed[i])})
      BY Zenon DEF Making!ScoredInOrder, Making!Kept
    <2> QED
      BY <1>1, <1>2, <2>1
  <1>5. Making!Numbers(WebFeed, Making!IsMeasured) = [n \in 1 .. ChainLength |-> Chain[n]]
    <2>1. Making!Numbers(WebFeed, Making!IsMeasured) =
            Making!AtPlaces(ids, {i \in DOMAIN ids : Making!IsMeasured(WebFeed[ids[i]])})
      BY Zenon DEF Making!Numbers, Making!Kept
    <2>2. {i \in DOMAIN ids : Making!IsMeasured(WebFeed[ids[i]])} = Verdicts
      BY <1>1
    <2>3. \A n \in 1 .. ChainLength : ids[Chain[n]] = Chain[n]
      BY <1>1
    <2> HIDE DEF ids
    <2>4. Making!AtPlaces(ids, Verdicts) = [n \in 1 .. ChainLength |-> ids[Chain[n]]]
      BY <1>2
    <2> QED
      BY <2>1, <2>2, <2>3, <2>4
  <1> QED
    BY <1>3, <1>4, <1>5

\* The changes the archive lists.
LEMMA DeltasAre ==
  ASSUME NumbersInv, rows # <<>>
  PROVE  Changes(Making!OverallDeltas(WebFeed), Chain, ChainOverall, ChainLength)
  <1> DEFINE chain == Making!Numbers(WebFeed, Making!IsMeasured)
             k == ChainLength
             o(n) == CHOOSE o \in WebFeed[chain[n]].overall : TRUE
             deltas == Making!OverallDeltas(WebFeed)
             which(i) == CHOOSE n \in 2 .. k : chain[n] = i
  <1>1. /\ k \in Nat /\ chain = [n \in 1 .. k |-> Chain[n]]
        /\ \A n \in 1 .. k : ChainOverall[n] \in Int /\ WebFeed[Chain[n]].overall = {ChainOverall[n]}
        /\ \A a, b \in 1 .. k : Chain[a] = Chain[b] => a = b
        /\ Chain \in [1 .. k -> Verdicts]
    BY ChainIs, KeptChain DEF Rising
  <1>2. Len(chain) = k
    <2>1. chain \in [1 .. k -> Verdicts]
      BY <1>1
    <2> HIDE DEF chain
    <2> QED
      BY <1>1, <2>1, CountedSequence
  <1>3. deltas = [i \in {chain[n] : n \in 2 .. Len(chain)} |->
                   LET n == CHOOSE n \in 2 .. Len(chain) : chain[n] = i IN o(n) - o(n - 1)]
    BY Zenon DEF Making!OverallDeltas
  <1> HIDE DEF chain, deltas
  <1>4. deltas = [i \in {chain[n] : n \in 2 .. k} |-> o(which(i)) - o(which(i) - 1)]
    BY <1>2, <1>3
  <1>5. \A n \in 1 .. k : chain[n] = Chain[n] /\ o(n) = ChainOverall[n]
    BY <1>1
  <1> HIDE DEF o
  <1>6. \A n \in 2 .. k : n \in 1 .. k /\ n - 1 \in 1 .. k
    BY <1>1
  <1>7. ASSUME NEW n \in 2 .. k PROVE which(Chain[n]) = n
    <2>1. \A l \in 2 .. k : chain[l] = Chain[n] <=> l = n
      BY <1>1, <1>5, <1>6
    <2> QED
      BY <2>1
  <1> HIDE DEF which, k
  <1>8. DOMAIN deltas = After(Chain, k)
    BY <1>4, <1>5, <1>6 DEF After
  <1>9. ASSUME NEW n \in 2 .. k
        PROVE  deltas[Chain[n]] = ChainOverall[n] - ChainOverall[n - 1]
    <2>1. Chain[n] \in {chain[l] : l \in 2 .. k}
      BY <1>5, <1>6
    <2>2. deltas[Chain[n]] = o(n) - o(n - 1)
      BY <1>4, <1>7, <2>1
    <2> QED
      BY <1>5, <1>6, <2>2
  <1> QED
    BY <1>1, <1>8, <1>9 DEF Changes, deltas, k

LEMMA PreviousInChain ==
  ASSUME NumbersInv, rows # <<>>, NEW n \in 1 .. ChainLength
  PROVE  Making!PreviousScored(WebFeed, Chain[n]) = IF n = 1 THEN 0 ELSE Chain[n - 1]
  <1>1. Verdicts \in SUBSET (1 .. Slots) /\ Slots \in Nat
    BY ChainIs
  <1>2. Verdicts = Making!ScoredPlaces(WebFeed) /\ n \in 1 .. Cardinality(Verdicts)
    BY DEF Verdicts, ChainLength
  <1>3. Making!PreviousScored(WebFeed, InOrder(Verdicts)[n]) =
          IF n = 1 THEN 0 ELSE InOrder(Verdicts)[n - 1]
    BY <1>1, <1>2, PreviousIs
  <1> QED
    BY <1>3 DEF Chain

LEMMA DeltasHold ==
  ASSUME NumbersInv
  PROVE  Making!DeltasAgree
  <1> SUFFICES ASSUME rows # <<>> PROVE Making!DeltasAgree
    BY DEF Making!DeltasAgree
  <1> DEFINE deltas == Making!OverallDeltas(WebFeed)
  <1>1. /\ Verdicts \in SUBSET (1 .. Slots) /\ Slots \in Nat /\ ChainLength \in Nat
        /\ \A i \in Verdicts : \E n \in 1 .. ChainLength : Chain[n] = i
        /\ \A n \in 1 .. ChainLength :
             /\ Chain[n] \in Verdicts
             /\ WebFeed[Chain[n]].overall = {ChainOverall[n]}
             /\ rows[Chain[n]].report.overall = ChainOverall[n]
        /\ \A a, b \in 1 .. ChainLength : Chain[a] = Chain[b] => a = b
    BY ChainIs DEF Rising
  <1>2. /\ DOMAIN deltas = After(Chain, ChainLength)
        /\ \A n \in 2 .. ChainLength : deltas[Chain[n]] = ChainOverall[n] - ChainOverall[n - 1]
    BY DeltasAre DEF Changes
  <1> HIDE DEF deltas
  <1>3. ASSUME NEW i \in Making!ScoredPlaces(WebFeed)
        PROVE  Making!HeaderDelta(WebFeed, rows[i].report, i) =
                 IF i \in DOMAIN deltas THEN {deltas[i]} ELSE {}
    <2>1. PICK n \in 1 .. ChainLength : Chain[n] = i
      BY <1>1 DEF Verdicts
    <2>2. Making!PreviousScored(WebFeed, i) = IF n = 1 THEN 0 ELSE Chain[n - 1]
      BY <2>1, PreviousInChain
    <2>3. CASE n = 1
      <3>1. Making!HeaderDelta(WebFeed, rows[i].report, i) = {}
        BY <2>2, <2>3 DEF Making!HeaderDelta
      <3>2. i \notin DOMAIN deltas
        <4>1. ASSUME NEW l \in 2 .. ChainLength PROVE Chain[l] # i
          <5>1. l \in 1 .. ChainLength /\ l # n
            BY <1>1, <2>3
          <5> QED
            BY <1>1, <2>1, <5>1
        <4> QED
          BY <1>2, <4>1 DEF After
      <3> QED
        BY <3>1, <3>2
    <2>4. CASE n # 1
      <3> DEFINE p == Chain[n - 1]
      <3>1. n - 1 \in 1 .. ChainLength /\ n \in 2 .. ChainLength
        BY <1>1, <2>4
      <3>2. /\ p \in Verdicts /\ WebFeed[p].overall = {ChainOverall[n - 1]}
            /\ rows[i].report.overall = ChainOverall[n]
        BY <1>1, <2>1, <3>1
      <3>3. p # 0 /\ Making!PreviousScored(WebFeed, i) = p
        BY <1>1, <2>2, <2>4, <3>2
      <3> HIDE DEF p
      <3>4. Making!HeaderDelta(WebFeed, rows[i].report, i) = {ChainOverall[n] - ChainOverall[n - 1]}
        BY <3>2, <3>3 DEF Making!HeaderDelta
      <3>5. i \in DOMAIN deltas /\ deltas[i] = ChainOverall[n] - ChainOverall[n - 1]
        BY <1>2, <2>1, <3>1 DEF After
      <3> QED
        BY <3>4, <3>5
    <2> QED
      BY <2>3, <2>4
  <1> QED
    BY <1>3, Zenon DEF Making!DeltasAgree, deltas, WebFeed

\* The scores a dimension had in the chain.
ScoresOf(key) ==
  [n \in 1 .. ChainLength |-> Making!LastScore(WebFeed[Chain[n]].scores, key)]

LEMMA TrendIs ==
  ASSUME NumbersInv, rows # <<>>
  PROVE  Making!OverallTrend(WebFeed) = ChainOverall
  <1> DEFINE measured == Making!Kept(WebFeed, Making!IsMeasured)
             k == ChainLength
  <1>1. measured = [n \in 1 .. k |-> WebFeed[Chain[n]]]
    BY KeptChain
  <1>2. \A n \in 1 .. k : WebFeed[Chain[n]].overall = {ChainOverall[n]}
    BY ChainIs
  <1>3. Making!OverallTrend(WebFeed) =
          [n \in DOMAIN measured |-> CHOOSE o \in measured[n].overall : TRUE]
    BY Zenon DEF Making!OverallTrend
  <1> HIDE DEF measured, k
  <1>4. \A n \in 1 .. k : (CHOOSE o \in measured[n].overall : TRUE) = ChainOverall[n]
    <2> SUFFICES ASSUME NEW n \in 1 .. k
                 PROVE  (CHOOSE o \in measured[n].overall : TRUE) = ChainOverall[n]
      OBVIOUS
    <2>1. measured[n].overall = {ChainOverall[n]}
      BY <1>1, <1>2
    <2> QED
      BY <2>1
  <1>5. DOMAIN measured = 1 .. k /\ DOMAIN ChainOverall = 1 .. k
    BY <1>1 DEF ChainOverall, k
  <1>6. ChainOverall = [n \in 1 .. k |-> ChainOverall[n]]
    BY DEF ChainOverall, k
  <1> QED
    BY <1>3, <1>4, <1>5, <1>6

\* A dimension has a score in every session with a verdict.
LEMMA PointsAre ==
  ASSUME NumbersInv, rows # <<>>, NEW d \in DOMAIN rubric.dims
  PROVE  LET key == rubric.dims[d].key
         IN /\ Making!DimensionPoints(WebFeed, key) = ScoresOf(key)
            /\ \A n \in 1 .. ChainLength : ScoresOf(key)[n] \in Int
  <1> DEFINE key == rubric.dims[d].key
             k == ChainLength
             chained == Making!ScoredInOrder(WebFeed)
             has(entry) == \E i \in DOMAIN entry.scores : entry.scores[i].key = key
             places == {n \in DOMAIN chained : has(chained[n])}
             having == Making!AtPlaces(chained, places)
  <1>1. k \in Nat /\ chained = [n \in 1 .. k |-> WebFeed[Chain[n]]]
    BY ChainIs, KeptChain DEF Rising
  <1>2. Making!DimensionPoints(WebFeed, key) =
          [m \in DOMAIN having |-> Making!LastScore(having[m].scores, key)]
    BY Zenon DEF Making!DimensionPoints, Making!Kept
  <1>3. ASSUME NEW n \in 1 .. k
        PROVE  has(WebFeed[Chain[n]]) /\ Making!LastScore(WebFeed[Chain[n]].scores, key) \in Nat
    <2> DEFINE r == rows[Chain[n]].report
    <2>1. OnRubric(rubric, r) /\ WebFeed[Chain[n]].scores = r.scores
      BY ChainIs
    <2> HIDE DEF r
    <2>2. d \in DOMAIN r.scores /\ r.scores[d].key = key
      BY <2>1 DEF OnRubric
    <2>3. Making!LastScore(r.scores, key) \in Nat
      BY <2>1, <2>2, LastOfReport
    <2> QED
      BY <2>1, <2>2, <2>3
  <1> HIDE DEF has, chained
  <1>4. places = 1 .. k
    BY <1>1, <1>3
  <1>5. having = [n \in 1 .. k |-> chained[n]]
    <2>1. having = [n \in 1 .. Cardinality(1 .. k) |-> chained[InOrder(1 .. k)[n]]]
      BY <1>4, KeptInOrder
    <2> QED
      BY <1>1, <2>1, NumbersInOrder
  <1> HIDE DEF having
  <1>6. having = [n \in 1 .. k |-> WebFeed[Chain[n]]]
    BY <1>1, <1>5
  <1>7. Making!DimensionPoints(WebFeed, key) =
          [n \in 1 .. k |-> Making!LastScore(WebFeed[Chain[n]].scores, key)]
    BY <1>2, <1>6
  <1> QED
    BY <1>3, <1>7 DEF ScoresOf

\* The changes of a dimension, session by session.
LEMMA ScoreChanges ==
  ASSUME NumbersInv, rows # <<>>, NEW key,
         \A n \in 1 .. ChainLength : ScoresOf(key)[n] \in Int
  PROVE  LET later == {i \in Verdicts : Making!PreviousScored(WebFeed, i) # 0}
             score(i) == Making!LastScore(WebFeed[i].scores, key)
         IN Changes([i \in later |-> score(i) - score(Making!PreviousScored(WebFeed, i))],
                    Chain, ScoresOf(key), ChainLength)
  <1> DEFINE k == ChainLength
             previous(i) == Making!PreviousScored(WebFeed, i)
             later == {i \in Verdicts : previous(i) # 0}
             score(i) == Making!LastScore(WebFeed[i].scores, key)
             f == [i \in later |-> score(i) - score(previous(i))]
  <1>1. /\ Verdicts \in SUBSET (1 .. Slots) /\ Slots \in Nat /\ k \in Nat
        /\ Chain \in [1 .. k -> Verdicts] /\ \A i \in Verdicts : \E n \in 1 .. k : Chain[n] = i
    BY ChainIs DEF Rising
  <1>2. \A n \in 1 .. k : previous(Chain[n]) = IF n = 1 THEN 0 ELSE Chain[n - 1]
    BY PreviousInChain
  <1>3. \A n \in 1 .. k : score(Chain[n]) = ScoresOf(key)[n]
    BY DEF ScoresOf
  <1>4. \A n \in 1 .. k : Chain[n] \in Verdicts /\ Chain[n] # 0
    BY <1>1
  <1>5. \A n \in 2 .. k : n \in 1 .. k /\ n # 1 /\ n - 1 \in 1 .. k
    BY <1>1
  <1>i. \A i : i \in later <=> i \in Verdicts /\ previous(i) # 0
    OBVIOUS
  <1>f. DOMAIN f = later /\ \A i \in later : f[i] = score(i) - score(previous(i))
    OBVIOUS
  <1> HIDE DEF previous, score, f, later
  <1>6. ASSUME NEW n \in 2 .. k
        PROVE  Chain[n] \in later /\ f[Chain[n]] = ScoresOf(key)[n] - ScoresOf(key)[n - 1]
    <2>1. previous(Chain[n]) = Chain[n - 1] /\ Chain[n] \in later
      BY <1>2, <1>4, <1>5, <1>i
    <2> QED
      BY <1>3, <1>5, <1>f, <2>1
  <1>7. ASSUME NEW i \in later PROVE \E n \in 2 .. k : i = Chain[n]
    <2>1. PICK n \in 1 .. k : Chain[n] = i
      BY <1>1, <1>i
    <2>2. n # 1
      BY <1>2, <1>i, <2>1
    <2>3. n \in 2 .. k
      BY <1>1, <2>2
    <2> QED
      BY <2>1, <2>3
  <1>8. DOMAIN f = After(Chain, k)
    BY <1>6, <1>7, <1>f DEF After
  <1>9. Changes(f, Chain, ScoresOf(key), k)
    BY <1>6, <1>8 DEF Changes
  <1> QED
    BY <1>9, Zenon DEF f, later, score, previous, k

LEMMA NetHolds ==
  ASSUME NumbersInv
  PROVE  Making!NetIsSumOfDeltas
  <1> SUFFICES ASSUME rows # <<>> PROVE Making!NetIsSumOfDeltas
    BY DEF Making!NetIsSumOfDeltas
  <1> DEFINE k == ChainLength
             deltas == Making!OverallDeltas(WebFeed)
             points == Making!OverallTrend(WebFeed)
             later == {i \in Making!ScoredPlaces(WebFeed) : Making!PreviousScored(WebFeed, i) # 0}
             score(i, key) == Making!LastScore(WebFeed[i].scores, key)
             moved(key) == [i \in later |->
                              score(i, key) - score(Making!PreviousScored(WebFeed, i), key)]
  <1>1. /\ k \in Nat /\ Rising(Chain, k) /\ Chain \in [1 .. k -> Verdicts]
        /\ Verdicts \in SUBSET (1 .. Slots) /\ Slots \in Nat
        /\ \A i \in Verdicts : \E n \in 1 .. k : Chain[n] = i
        /\ \A n \in 1 .. k : ChainOverall[n] \in Int
                             /\ rows[Chain[n]].report.overall = ChainOverall[n]
    BY ChainIs DEF Rising
  <1>2. points = ChainOverall
    BY TrendIs
  <1>3. DOMAIN points = 1 .. k /\ Len(points) = k /\ (points = <<>> <=> k = 0)
    <2>1. ChainOverall \in [1 .. k -> Int]
      BY <1>1 DEF ChainOverall
    <2> QED
      BY <1>1, <1>2, <2>1, CountedSequence
  <1>4. Changes(deltas, Chain, ChainOverall, k)
    BY DeltasAre
  <1>5. Making!OverallNet(WebFeed) = IF k < 2 THEN 0 ELSE ChainOverall[k] - ChainOverall[1]
    BY <1>2, <1>3 DEF Making!OverallNet
  <1> HIDE DEF deltas, points, k
  <1>6. Making!OverallNet(WebFeed) = Total(deltas)
    BY <1>1, <1>4, <1>5, Telescopes
  <1>7. Making!TrendSectionVisible(WebFeed) <=> DOMAIN deltas # {}
    <2>1. Making!TrendSectionVisible(WebFeed) <=> k >= 2
      BY <1>3 DEF Making!TrendSectionVisible, points
    <2>2. DOMAIN deltas = After(Chain, k)
      BY <1>4 DEF Changes
    <2>3. After(Chain, k) # {} <=> k >= 2
      BY <1>1 DEF After
    <2> QED
      BY <2>1, <2>2, <2>3
  <1>8. points # <<>> =>
          points[Len(points)] = rows[Making!LatestScored(WebFeed)].report.overall
    <2> SUFFICES ASSUME k # 0
                 PROVE  points[k] = rows[Making!LatestScored(WebFeed)].report.overall
      BY <1>3
    <2> DEFINE last == Chain[k]
    <2>1. k \in 1 .. k /\ last \in Verdicts
      BY <1>1
    <2>n. \A i \in Verdicts : i \in Nat
      BY <1>1
    <2>2. ASSUME NEW j \in Verdicts PROVE j <= last
      <3>1. PICK n \in 1 .. k : Chain[n] = j
        BY <1>1
      <3>2. ~(k < n)
        BY <1>1
      <3>3. ~(last < j)
        BY <1>1, <2>1, <3>1, <3>2 DEF Rising
      <3>4. last \in Nat /\ j \in Nat
        BY <2>1, <2>n
      <3> QED
        BY <3>3, <3>4
    <2>3. Making!LatestScored(WebFeed) =
            IF Verdicts = {} THEN 0 ELSE CHOOSE i \in Verdicts : \A j \in Verdicts : j <= i
      BY Zenon DEF Making!LatestScored, Verdicts
    <2> HIDE DEF last
    <2>4. ASSUME NEW q \in Verdicts, \A j \in Verdicts : j <= q PROVE q = last
      <3>1. q <= last /\ last <= q /\ q \in Nat /\ last \in Nat
        BY <2>1, <2>n, <2>2, <2>4
      <3> QED
        BY <3>1
    <2>5. Making!LatestScored(WebFeed) = last
      BY <2>1, <2>2, <2>3, <2>4
    <2> QED
      BY <1>1, <1>2, <2>1, <2>5 DEF last
  <1>9. ASSUME NEW d \in DOMAIN rubric.dims
        PROVE  LET key == rubric.dims[d].key
               IN Making!DimensionNet(WebFeed, key) = Total(moved(key))
    <2> DEFINE key == rubric.dims[d].key
               v == ScoresOf(key)
    <2>1. /\ Making!DimensionPoints(WebFeed, key) = v
          /\ \A n \in 1 .. ChainLength : v[n] \in Int
      BY PointsAre
    <2>2. Len(v) = k
      <3>1. v \in [1 .. k -> Int]
        BY <2>1 DEF ScoresOf, k
      <3> HIDE DEF v
      <3> QED
        BY <1>1, <3>1, CountedSequence
    <2> DEFINE f == moved(key)
    <2> HIDE DEF v, key
    <2>3. Making!DimensionNet(WebFeed, key) = IF k < 2 THEN 0 ELSE v[k] - v[1]
      BY <2>1, <2>2 DEF Making!DimensionNet
    <2>4. Changes(f, Chain, v, k)
      BY <2>1, ScoreChanges, Zenon DEF v, k, Verdicts
    <2> HIDE DEF f
    <2>5. Total(f) = IF k < 2 THEN 0 ELSE v[k] - v[1]
      BY <1>1, <2>4, Telescopes
    <2>6. Making!DimensionNet(WebFeed, key) = Total(f)
      BY <2>3, <2>5
    <2> HIDE DEF moved
    <2>7. Making!DimensionNet(WebFeed, key) = Total(moved(key))
      BY <2>6, Zenon DEF f
    <2> QED
      BY <2>7, Zenon DEF key
  <1> QED
    BY <1>6, <1>7, <1>8, <1>9, Zenon DEF Making!NetIsSumOfDeltas, Total, WebFeed, deltas, points

-----------------------------------------------------------------------------
(* What recurs *)

\* The two rules for the bottom two are one: the places of the first two ranks.
LEMMA BottomTwoSame ==
  ASSUME NEW entry, Scored(entry.scores)
  PROVE  Making!BottomTwoKeys(entry) = Making!BottomTwoOfView(entry)
  <1> DEFINE scores == entry.scores
             ranked == Making!WeakestFirst(scores)
             first == Making!UpTo(2, ranked)
             low == {i \in DOMAIN scores : Cardinality(Ahead(scores, i)) < 2}
  <1>1. PICK n \in Nat \ {0} : DOMAIN scores = 1 .. n
    BY DEF Scored
  <1>2. /\ ranked \in [1 .. n -> 1 .. n]
        /\ \A k \in 1 .. n : /\ Cardinality(Ahead(scores, k)) \in Nat
                             /\ Rank(scores, k) \in 1 .. n /\ ranked[Rank(scores, k)] = k
        /\ \A m \in 1 .. n : Rank(scores, ranked[m]) = m
    BY <1>1, RankedPlaces, FS_CardinalityType
  <1>3. Making!BottomTwoKeys(entry) = {scores[ranked[m]].key : m \in DOMAIN first}
    BY Zenon DEF Making!BottomTwoKeys
  <1>4. Making!BottomTwoOfView(entry) = {scores[i].key : i \in low}
    <2>1. \A i : Making!Cardinality(Ahead(scores, i)) = Cardinality(Ahead(scores, i))
      BY SameCardinality
    <2>2. Making!BottomTwoOfView(entry) =
            {scores[i].key : i \in {i \in DOMAIN scores : Making!Cardinality(Ahead(scores, i)) < 2}}
      BY Zenon DEF Making!BottomTwoOfView, Ahead, Before
    <2> QED
      BY <2>1, <2>2
  <1>5. DOMAIN first = {m \in 1 .. n : m <= 2}
    <2>1. FirstOf(first, ranked, n)
      <3>1. ranked \in [1 .. n -> 1 .. n] /\ n \in Nat \ {0}
        BY <1>2
      <3> HIDE DEF ranked
      <3> QED
        BY <3>1, FirstTwo
    <2> QED
      BY <2>1 DEF FirstOf
  <1>l. \A i : i \in low <=> i \in 1 .. n /\ Cardinality(Ahead(scores, i)) < 2
    BY <1>1
  <1> HIDE DEF scores, ranked, first, low
  <1>6. ASSUME NEW i \in 1 .. n
        PROVE  i \in low <=> Rank(scores, i) <= 2
    <2> DEFINE c == Cardinality(Ahead(scores, i))
    <2>1. c \in Nat
      BY <1>2
    <2>2. Rank(scores, i) = 1 + c
      BY Zenon DEF Rank
    <2>3. i \in low <=> c < 2
      BY <1>l
    <2> HIDE DEF c
    <2> QED
      BY <2>1, <2>2, <2>3
  <1>7. \A m \in DOMAIN first : ranked[m] \in low
    BY <1>2, <1>5, <1>6
  <1>8. \A i \in low : Rank(scores, i) \in DOMAIN first /\ ranked[Rank(scores, i)] = i
    BY <1>2, <1>5, <1>6, <1>l
  <1> QED
    BY <1>3, <1>4, <1>7, <1>8

\* The longest run of one thing at the end of a list.
LEMMA RunIs ==
  ASSUME NEW k \in Nat, NEW low \in SUBSET (1 .. k)
  PROVE  \E n \in 0 .. k : /\ \A i \in k - n + 1 .. k : i \in low
                           /\ n = k \/ ~(\A i \in k - (n + 1) + 1 .. k : i \in low)
  <1> DEFINE unbroken(n) == \A i \in k - n + 1 .. k : i \in low
             broken == {n \in 0 .. k : ~unbroken(n)}
  <1>1. unbroken(0)
    OBVIOUS
  <1>2. CASE unbroken(k)
    <2>1. k \in 0 .. k
      OBVIOUS
    <2> QED
      BY <1>2, <2>1
  <1>3. CASE ~unbroken(k)
    <2>1. broken \in SUBSET Nat /\ broken # {}
      BY <1>3
    <2>2. PICK b \in broken : \A c \in broken : b <= c
      BY <2>1, LeastNatural
    <2> HIDE DEF unbroken
    <2>3. b \in 0 .. k /\ ~unbroken(b) /\ b # 0
      BY <1>1, <2>2
    <2> DEFINE n == b - 1
    <2>4. n \in 0 .. k /\ ~(b <= n) /\ n + 1 = b
      BY <2>3
    <2>5. unbroken(n)
      BY <2>2, <2>4
    <2> HIDE DEF n
    <2>6. ~unbroken(n + 1)
      BY <2>3, <2>4
    <2> QED
      BY <2>4, <2>5, <2>6 DEF unbroken
  <1> QED
    BY <1>2, <1>3

LEMMA FocusHolds ==
  ASSUME NumbersInv
  PROVE  Making!FocusCopyTrue
  <1> SUFFICES ASSUME rows # <<>> PROVE Making!FocusCopyTrue
    BY DEF Making!FocusCopyTrue
  <1> DEFINE k == ChainLength
             scored == Making!ScoredInOrder(WebFeed)
             Low(i, key) == key \in Making!BottomTwoKeys(scored[i])
             Last(count, key) ==
               /\ \A i \in Len(scored) - count + 1 .. Len(scored) : Low(i, key)
               /\ count < Len(scored) => ~Low(Len(scored) - count, key)
             Earlier(key) == \E i \in 1 .. Len(scored) - 2 : Low(i, key) /\ Low(i + 1, key)
  <1>1. /\ k \in Nat /\ scored = [n \in 1 .. k |-> WebFeed[Chain[n]]]
        /\ \A n \in 1 .. k : /\ WebFeed[Chain[n]].scores = rows[Chain[n]].report.scores
                             /\ OnRubric(rubric, rows[Chain[n]].report)
    BY ChainIs, KeptChain DEF Rising
  <1>2. Len(scored) = k
    <2>1. scored \in [1 .. k -> {WebFeed[Chain[n]] : n \in 1 .. k}]
      BY <1>1
    <2> HIDE DEF scored
    <2> QED
      BY <1>1, <2>1, CountedSequence
  <1> HIDE DEF k, scored
  <1>3. ASSUME NEW i \in 1 .. k
        PROVE  Making!BottomTwoOfView(scored[i]) = Making!BottomTwoKeys(scored[i])
    <2>1. scored[i].scores = rows[Chain[i]].report.scores /\ OnRubric(rubric, rows[Chain[i]].report)
      BY <1>1
    <2>2. Scored(scored[i].scores)
      BY <2>1 DEF OnRubric
    <2> QED
      BY <2>2, BottomTwoSame
  <1>4. ASSUME NEW key \in Making!WeakDimensions(WebFeed)
        PROVE  IF Making!WeakDimensionLine(WebFeed, key).says = "last"
               THEN Last(Making!WeakDimensionLine(WebFeed, key).count, key) ELSE Earlier(key)
    <2> DEFINE low == {i \in 1 .. k : Low(i, key)}
               streak == Making!TrailingStreak(WebFeed, key)
               line == Making!WeakDimensionLine(WebFeed, key)
               unbroken(n) == \A i \in k - n + 1 .. k : i \in low
    <2>1. PICK weak \in 1 .. k - 1 : Low(weak, key) /\ Low(weak + 1, key)
      <3>1. Making!WeakDimensions(WebFeed) =
              UNION {Making!BottomTwoKeys(scored[i]) \cap Making!BottomTwoKeys(scored[i + 1]) :
                     i \in 1 .. k - 1}
        BY <1>2, Zenon DEF Making!WeakDimensions, scored
      <3> QED
        BY <3>1
    <2>l. \A i : i \in low <=> i \in 1 .. k /\ Low(i, key)
      OBVIOUS
    <2> HIDE DEF Low, low, Last, Earlier
    <2>2. /\ streak \in 0 .. k /\ unbroken(streak)
          /\ streak = k \/ ~unbroken(streak + 1)
      <3> DEFINE seen(n) == \A i \in k - n + 1 .. k : key \in Making!BottomTwoOfView(scored[i])
      <3>1. streak = CHOOSE n \in 0 .. k : seen(n) /\ (n = k \/ ~seen(n + 1))
        BY <1>2, Zenon DEF Making!TrailingStreak, scored
      <3>2. ASSUME NEW n \in 0 .. k PROVE seen(n) <=> unbroken(n)
        <4>1. \A i \in k - n + 1 .. k : i \in 1 .. k
          BY <1>1
        <4>2. \A i \in 1 .. k : key \in Making!BottomTwoOfView(scored[i]) <=> i \in low
          BY <1>3, <2>l DEF Low
        <4> QED
          BY <4>1, <4>2
      <3>3. \E n \in 0 .. k : unbroken(n) /\ (n = k \/ ~unbroken(n + 1))
        <4>1. low \in SUBSET (1 .. k)
          BY <2>l
        <4> QED
          BY <1>1, <4>1, RunIs
      <3> HIDE DEF unbroken, seen, streak
      <3>4. \A n \in 0 .. k : n = k \/ n + 1 \in 0 .. k
        BY <1>1
      <3>5. \E n \in 0 .. k : seen(n) /\ (n = k \/ ~seen(n + 1))
        BY <3>2, <3>3, <3>4
      <3>6. streak \in 0 .. k /\ seen(streak) /\ (streak = k \/ ~seen(streak + 1))
        BY <3>1, <3>5
      <3> QED
        BY <3>2, <3>4, <3>6
    <2>3. line = IF streak >= 2 THEN [says |-> "last", count |-> streak]
                 ELSE [says |-> "earlier", count |-> 0]
      BY Zenon DEF Making!WeakDimensionLine
    <2> HIDE DEF streak, line
    <2> SUFFICES IF line.says = "last" THEN Last(line.count, key) ELSE Earlier(key)
      BY Zenon DEF line
    <2>4. CASE streak >= 2
      <3>1. line.says = "last" /\ line.count = streak
        BY <2>3, <2>4
      <3>2. \A i \in k - streak + 1 .. k : Low(i, key)
        BY <2>2, <2>l
      <3>3. ASSUME streak < k PROVE ~Low(k - streak, key)
        <4>1. PICK i \in k - (streak + 1) + 1 .. k : i \notin low
          BY <2>2, <3>3
        <4>2. i \notin k - streak + 1 .. k
          BY <2>2, <4>1
        <4>3. i = k - streak /\ i \in 1 .. k
          BY <1>1, <2>2, <3>3, <4>1, <4>2
        <4> QED
          BY <2>l, <4>1, <4>3
      <3>4. Last(streak, key)
        BY <1>2, <3>2, <3>3 DEF Last
      <3> QED
        BY <3>1, <3>4
    <2>5. CASE ~(streak >= 2)
      <3>1. line.says # "last"
        BY <2>3, <2>5
      <3>2. weak \in 1 .. k - 2
        <4> SUFFICES ASSUME weak = k - 1 PROVE FALSE
          BY <1>1
        <4>1. weak \in low /\ weak + 1 \in low /\ weak + 1 = k /\ k >= 2
          BY <1>1, <2>1, <2>l
        <4>2. streak \in {0, 1} /\ streak # k
          BY <1>1, <2>2, <2>5, <4>1
        <4>3. PICK i \in k - (streak + 1) + 1 .. k : i \notin low
          BY <2>2, <4>2
        <4>4. i = k \/ i = k - 1
          BY <1>1, <4>1, <4>2, <4>3
        <4> QED
          BY <4>1, <4>3, <4>4
      <3>3. Earlier(key)
        BY <1>2, <2>1, <3>2 DEF Earlier
      <3> QED
        BY <3>1, <3>3
    <2> QED
      BY <2>4, <2>5
  <1> QED
    BY <1>4, Zenon DEF Making!FocusCopyTrue, WebFeed, scored, Low

\* NumbersAddUp follows from the reports being on one rubric, and the rubric being an
\* admitted one.
LEMMA NumbersInvIsEnough == NumbersInv => NumbersAddUp
  <1> SUFFICES ASSUME NumbersInv PROVE NumbersAddUp
    OBVIOUS
  <1>1. Making!EmphasisKept
    <2>1. CASE rubric = Making!NoRubric
      BY <2>1 DEF Making!EmphasisKept
    <2>2. CASE rubric # Making!NoRubric
      BY <2>2, AdmittedEmphasis DEF NumbersInv
    <2> QED
      BY <2>1, <2>2
  <1> QED
    BY <1>1, TicketHolds, DeltasHold, NetHolds, FocusHolds, GapCountHolds
       DEF NumbersAddUp, Making!NumbersAddUp

\* NumbersAddUp, for any number of dimensions, sessions and past rows, and any weights and
\* scores: governance keeps every emphasis (rubric/governance.py), and what home, archive and
\* progress page say of several reports, deltas, nets, recurring gaps and "last N", adds up
\* to what the reports behind it say (lib/progress.ts, lib/progress-view.ts).
THEOREM NumbersAddUpHolds == PartsSpec => []NumbersAddUp
  BY NumbersAlways, NumbersInvIsEnough, PTL

-----------------------------------------------------------------------------
(* How the recording came (RecordingDoor) *)

\* A URL that is still held while the session is submitted was asked for before its
\* newest run; and so was whatever has been written over what that run downloaded.
DoorInv ==
  /\ Door!TypeOK /\ told \in [Tabs -> {"nothing", "unavailable", "denied", "submitted"}]
  /\ object.asked \in 0 .. score_attempt_cap
  /\ status \in {"scoring", "scored", "failed", "insufficient"} => runs > 0
  /\ status = "scored" => judged # NoTake
  /\ exists /\ status \in {"scoring", "scored"} /\ judged # NoTake =>
       object.take = judged \/ object.asked < runs
  /\ \A t \in Tabs :
       /\ asked[t] <= runs
       /\ status \in {"scoring", "scored"} /\ stands[t] \in {"mint", "put"} => asked[t] < runs
       /\ told[t] = "denied" => ~exists
       /\ told[t] = "submitted" \/ stands[t] = "done" => runs > 0 \/ status = "failed_permanent"

LEMMA DoorInvIsEnough == DoorInv => RecordingIsKept
  BY DEF DoorInv, Door!TypeOK, RecordingIsKept, Door!EvidenceKept, Door!ToldTheTruth, Door!mintAudioUrl

LEMMA DoorInit == PartsInit => DoorInv
  BY DoorConstants DEF PartsInit, Door!Init, DoorInv, Door!TypeOK, Door!Steps

LEMMA DoorStep ==
  ASSUME DoorInv, Door!Next
  PROVE  DoorInv'
  <1> USE DoorConstants DEF DoorInv, Door!TypeOK, Door!Steps, Door!row, Door!Goes, Door!Fails, Door!Loses
  <1>1. ASSUME NEW t \in Tabs, Door!uploadAndComplete(t) PROVE DoorInv'
    BY <1>1 DEF Door!uploadAndComplete
  <1>2. ASSUME NEW t \in Tabs, Door!AuthorizeUpload(t) PROVE DoorInv'
    BY <1>2 DEF Door!AuthorizeUpload, Door!authorizeViewerSession
  <1>3. ASSUME NEW t \in Tabs, Door!AskGuard(t) PROVE DoorInv'
    BY <1>3 DEF Door!AskGuard, Door!Submitted
  <1>4. ASSUME NEW t \in Tabs, Door!mintUploadUrl(t) PROVE DoorInv'
    BY <1>4 DEF Door!mintUploadUrl
  <1>5. ASSUME NEW t \in Tabs, Door!Put(t) PROVE DoorInv'
    <2>1. /\ stands[t] = "put" /\ object' = [take |-> t, asked |-> asked[t]]
          /\ UNCHANGED <<exists, status, runs, judged, asked>>
          /\ stands' \in {[stands EXCEPT ![t] = "complete"], [stands EXCEPT ![t] = "error"]}
          /\ told' \in {told, [told EXCEPT ![t] = "unavailable"]} /\ losses' \in 0 .. MaxLosses
      BY <1>5 DEF Door!Put
    <2>2. object'.take = t /\ object'.asked = asked[t]
      BY <2>1
    <2> QED
      BY <2>1, <2>2
  <1>6. ASSUME NEW t \in Tabs, Door!AuthorizeComplete(t) PROVE DoorInv'
    BY <1>6 DEF Door!AuthorizeComplete, Door!authorizeViewerSession
  <1>7. ASSUME NEW t \in Tabs, Door!storedRecordingBytes(t) PROVE DoorInv'
    BY <1>7 DEF Door!storedRecordingBytes
  <1>8. ASSUME NEW t \in Tabs, Door!completeSession(t) PROVE DoorInv'
    <2>1. stands' \in {[stands EXCEPT ![t] = "done"], [stands EXCEPT ![t] = "error"]}
          /\ told' \in {told, [told EXCEPT ![t] = "unavailable"]} /\ losses' \in 0 .. MaxLosses
          /\ UNCHANGED <<exists, object, asked>>
      BY <1>8 DEF Door!completeSession
    <2>2. CASE /\ status \in {"planned", "failed", "insufficient"} /\ runs < score_attempt_cap
               /\ status' = "scoring" /\ runs' = runs + 1 /\ judged' = NoTake
      BY <2>1, <2>2
    <2>3. CASE status' = "failed_permanent" /\ UNCHANGED <<runs, judged>>
      BY <2>1, <2>3
    <2>4. CASE status \in {"scoring", "scored", "failed_permanent"} /\ UNCHANGED <<status, runs, judged>>
      BY <2>1, <2>4
    <2>5. CASE stands' = [stands EXCEPT ![t] = "error"] /\ UNCHANGED <<status, runs, judged>>
      BY <2>1, <2>5
    <2> QED
      BY <1>8, <2>2, <2>3, <2>4, <2>5 DEF Door!completeSession
  <1>9. ASSUME NEW t \in Tabs, Door!Unanswered(t) PROVE DoorInv'
    <2>1. /\ UNCHANGED <<exists, status, runs, object, judged, asked>> /\ losses' \in 0 .. MaxLosses
          /\ stands' = [stands EXCEPT ![t] = "error"] /\ told' = [told EXCEPT ![t] = "unavailable"]
      BY <1>9 DEF Door!Unanswered
    <2> QED
      BY <2>1
  <1>10. CASE Door!Downloads
    BY <1>10 DEF Door!Downloads
  <1>11. CASE Door!Scores
    BY <1>11 DEF Door!Scores
  <1>12. CASE Door!JobFails \/ Door!CreateSession
    BY <1>12 DEF Door!JobFails, Door!CreateSession
  <1>13. CASE Door!DeletePackage
    <2>1. /\ object'.take = NoTake /\ object'.asked = 0 /\ exists' = FALSE
          /\ UNCHANGED <<status, runs, judged, stands, asked, told, losses>>
      BY <1>13 DEF Door!DeletePackage
    <2>2. ~exists' /\ exists' \in BOOLEAN
      BY <2>1
    <2>3. /\ status' = status /\ runs' = runs /\ judged' = judged /\ stands' = stands
          /\ asked' = asked /\ told' = told /\ losses' = losses
      BY <2>1
    <2>4. Door!TypeOK'
      BY <2>1, <2>2, <2>3
    <2> QED
      BY <2>1, <2>2, <2>3, <2>4
  <1> QED
    BY <1>1, <1>2, <1>3, <1>4, <1>5, <1>6, <1>7, <1>8, <1>9, <1>10, <1>11, <1>12, <1>13
    DEF Door!Next, Door!Advances

\* What the report's page plays is what was judged, or came by a URL that is older than
\* the run that judged; no tab is told that it has no access, or that all is done, where
\* it is not so -- for any number of tabs, of attempts and of calls without an answer
\* (app/api/recordings/route.ts, app/api/sessions/[id]/route.ts, components/SessionRoom.tsx).
THEOREM RecordingKeptHolds == PartsSpec => []RecordingIsKept
  <1>1. DoorInv /\ [PartsNext]_partsVars => DoorInv'
    <2>1. CASE InDoor(Door!Next)
      BY <2>1, DoorStep DEF InDoor
    <2>2. CASE UNCHANGED doorVars
      BY <2>2 DEF doorVars, DoorInv, Door!TypeOK
    <2> QED
      BY <2>1, <2>2 DEF PartsNext, InMaking, partsVars
  <1> QED
    BY <1>1, DoorInit, DoorInvIsEnough, PTL DEF PartsSpec

-----------------------------------------------------------------------------
\* The run's behaviours are behaviours of JobTiming: what is proved of Spec above holds of
\* them.
THEOREM PartsAreTimed == PartsSpec => Spec
  <1>1. PartsInit => Init
    BY DEF PartsInit
  <1>2. [PartsNext]_partsVars => [Next]_vars
    BY DEF PartsNext, InMaking, InDoor, partsVars
  <1> QED
    BY <1>1, <1>2, PTL DEF PartsSpec, Spec
=============================================================================
