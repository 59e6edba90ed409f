------------------------------ MODULE ContentJudge ------------------------------
(***************************************************************************)
(* score_content of services/scorer/src/scorer/content/judge.py: one task  *)
(* per content dimension in a ThreadPoolExecutor, each asking the model    *)
(* for its samples one after the other, while the job's own thread awaits  *)
(* the results in rubric order.                                            *)
(* A call returns a score, a reply the judge cannot use, or a failure that *)
(* call_with_retry gave up on.  The interleavings are those of the pool:   *)
(* any running task may be the next to hear from the model.                *)
(***************************************************************************)
EXTENDS Integers, Sequences, FiniteSets

CONSTANTS
  Samples,  \* _JUDGE_SAMPLES
  Workers,  \* _JUDGE_MAX_WORKERS
  Draws     \* the scores a sample may carry, in tenths

VARIABLES
  order,    \* the dimensions submitted, in rubric order
  task,     \* what became of each: its state and the samples it has
  main,     \* the job's thread: "idle", "awaiting", "unwinding", "scored", "failed"
  awaited   \* the place in order it waits for

judgeVars == <<order, task, main, awaited>>

Fresh == [state |-> "pending", count |-> 0, sum |-> 0, retried |-> FALSE, calls |-> 0]

In(state) == {i \in DOMAIN order : task[i].state = state}

JudgeTypeOK ==
  /\ DOMAIN task = DOMAIN order
  /\ \A i \in DOMAIN order :
       /\ task[i].state \in {"pending", "running", "done", "failed", "cancelled"}
       /\ task[i].count \in 0 .. Samples
       /\ task[i].sum \in Nat /\ task[i].calls \in Nat /\ task[i].retried \in BOOLEAN
  /\ main \in {"idle", "awaiting", "unwinding", "scored", "failed"}
  /\ awaited \in 1 .. Len(order) + 1

JudgeInit == order = <<>> /\ task = <<>> /\ main = "idle" /\ awaited = 1

\* The pool is made and one task per dimension submitted; a rubric without a
\* content dimension makes no pool at all.
Submit(dims) ==
  /\ main = "idle"
  /\ order' = dims
  /\ task' = [i \in DOMAIN dims |-> Fresh]
  /\ main' = IF dims = <<>> THEN "scored" ELSE "awaiting"
  /\ awaited' = 1

\* An idle worker takes the oldest task that is still in the queue.
Take(i) ==
  /\ i \in In("pending") /\ \A j \in In("pending") : i <= j
  /\ Cardinality(In("running")) < Workers
  /\ task' = [task EXCEPT ![i].state = "running"]
  /\ UNCHANGED <<order, main, awaited>>

\* A usable reply is one sample; with the last the task is done.
Sampled(i, draw) ==
  /\ i \in In("running")
  /\ task' = [task EXCEPT
       ![i].state = IF task[i].count + 1 = Samples THEN "done" ELSE "running",
       ![i].count = @ + 1, ![i].sum = @ + draw, ![i].calls = @ + 1]
  /\ UNCHANGED <<order, main, awaited>>

\* ContentJudgeError: the dimension's one retry, and then the task fails.
Unusable(i) ==
  /\ i \in In("running")
  /\ task' = [task EXCEPT ![i].state = IF task[i].retried THEN "failed" ELSE "running",
                          ![i].retried = TRUE, ![i].calls = @ + 1]
  /\ UNCHANGED <<order, main, awaited>>

\* Any other exception: no retry is made of it here.
GaveUp(i) ==
  /\ i \in In("running")
  /\ task' = [task EXCEPT ![i].state = "failed", ![i].calls = @ + 1]
  /\ UNCHANGED <<order, main, awaited>>

Answer(i) == (\E draw \in Draws : Sampled(i, draw)) \/ Unusable(i) \/ GaveUp(i)

\* Wrong variant for FirstFailureIsRaised: the first to finish is looked at first.
CollectAny ==
  /\ main = "awaiting"
  /\ IF In("failed") # {}
     THEN \E i \in In("failed") :
       /\ main' = "unwinding" /\ awaited' = i
       /\ task' = [j \in DOMAIN order |-> IF task[j].state = "pending"
                     THEN [task[j] EXCEPT !.state = "cancelled"] ELSE task[j]]
     ELSE /\ awaited \in In("done") /\ awaited' = awaited + 1
          /\ main' = IF awaited = Len(order) THEN "scored" ELSE "awaiting"
          /\ UNCHANGED task
  /\ UNCHANGED order

\* Wrong variant for JudgingEnds: the exception of a task is never asked for.
CollectDone ==
  /\ main = "awaiting" /\ awaited \in In("done")
  /\ awaited' = awaited + 1
  /\ main' = IF awaited = Len(order) THEN "scored" ELSE "awaiting"
  /\ UNCHANGED <<order, task>>

\* pool.map yields in the order of its input.  When the awaited task failed,
\* its iterator cancels what is still queued and the exception leaves the
\* with block, which joins the threads first.
Collect ==
  /\ main = "awaiting"
  /\ \/ /\ awaited \in In("done")
        /\ awaited' = awaited + 1
        /\ main' = IF awaited = Len(order) THEN "scored" ELSE "awaiting"
        /\ UNCHANGED task
     \/ /\ awaited \in In("failed")
        /\ main' = "unwinding"
        /\ task' = [j \in DOMAIN order |-> IF task[j].state = "pending"
                      THEN [task[j] EXCEPT !.state = "cancelled"] ELSE task[j]]
        /\ UNCHANGED awaited
  /\ UNCHANGED order

Join ==
  /\ main = "unwinding" /\ In("running") = {}
  /\ main' = "failed"
  /\ UNCHANGED <<order, task, awaited>>

JudgeNext == (\E i \in DOMAIN order : Take(i) \/ Answer(i)) \/ Collect \/ Join

\* The mean of a task's samples, rounded to the hundredth.
Mean(i) == (20 * task[i].sum + task[i].count) \div (2 * task[i].count)

\* What score_content returns.
ContentScores == [i \in DOMAIN order |-> [key |-> order[i], score |-> Mean(i)]]

-----------------------------------------------------------------------------
\* The samples of a dimension share one retry: however its replies fail, it
\* never buys more than one call over its samples (_collect_samples).
JudgeSpendBounded == \A i \in DOMAIN order : task[i].calls <= Samples + 1

\* "The first failing dimension in rubric order is the one whose
\* ContentJudgeError propagates -- exactly as in the sequential version"
\* (judge.py:294-297), whatever order the threads finish in; and with no
\* exception every dimension has all its samples.
FirstFailureIsRaised ==
  /\ main \in {"unwinding", "failed"} =>
       /\ task[awaited].state = "failed"
       /\ \A i \in 1 .. awaited - 1 : task[i].state = "done"
  /\ main = "scored" => \A i \in DOMAIN order : task[i].count = Samples

\* No judge thread outlives the call that started it: the row is failed, and
\* may be scored again, only when none can still spend a model call on it.
JobEndsAlone == main \in {"idle", "scored", "failed"} => In("running") = {}
=============================================================================
