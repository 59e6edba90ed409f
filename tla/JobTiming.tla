------------------------------ MODULE JobTiming ------------------------------
(***************************************************************************)
(* How long one background job of the worker may run, and how long it may   *)
(* leave its row untouched: the deadline, the retry policy and the          *)
(* concurrency gate of scorer/resilience.py around the scoring pipeline and *)
(* the package compile (api/pipeline.py, api/jobs.py), against the reaper's *)
(* window (api/reaper.py).                                                  *)
(*                                                                          *)
(* Time is a count of units.  What a model call answers, how long it takes  *)
(* within its HTTP timeout, when the gate opens and the jitter are free.    *)
(***************************************************************************)
EXTENDS Naturals, Sequences

CONSTANTS
  Script,       \* the job's steps, in order
  QueueWait,    \* queue_wait_s: longest wait for the concurrency gate
  Deadline,     \* deadline_s
  CallTimeout,  \* GEMINI_HTTP_TIMEOUT_MS: longest a model call takes
  LocalWork,    \* bound: longest a step works outside model calls
  MaxAttempts,  \* retry.max_attempts
  FirstWait,    \* retry.initial_backoff_s
  Multiplier,   \* retry.backoff_multiplier
  MaxWait,      \* retry.max_backoff_s
  Jitter,       \* bound: most units retry.jitter_ratio adds to a wait
  Stale         \* limits.reaper_stale_after_s

\* A step of a job: does it check the deadline and touch the row as it begins,
\* may it work outside model calls, how many model calls can it make, does the
\* thread that makes them see the deadline, and does the job survive its failure.
StepRecord ==
  [checked : BOOLEAN, touches : BOOLEAN, local : BOOLEAN,
   calls : (SUBSET Nat) \ {{}}, sees : BOOLEAN, optional : BOOLEAN]

ASSUME TimingConstants ==
  /\ Script \in Seq(StepRecord) /\ Len(Script) > 0
  /\ \A k \in 1..Len(Script) : Script[k].local => Script[k].checked
  /\ QueueWait \in Nat
  /\ Deadline \in Nat \ {0}
  /\ CallTimeout \in Nat \ {0}
  /\ LocalWork \in Nat
  /\ MaxAttempts \in Nat \ {0}
  /\ FirstWait \in Nat /\ Multiplier \in Nat /\ MaxWait \in Nat /\ Jitter \in Nat
  /\ Stale \in Nat

VARIABLES
  phase,    \* what the job's thread is doing
  step,     \* index of the step in Script
  left,     \* model calls the step has still to make
  attempt,  \* of the call being made
  delay,    \* call_with_retry's next delay, before jitter
  timer,    \* units the phase may still take
  elapsed,  \* Deadline.elapsed_s: since the gate opened
  age       \* since the row's updated_at was last written

vars == <<phase, step, left, attempt, delay, timer, elapsed, age>>

----------------------------------------------------------------------------
Steps   == 1..Len(Script)
Current == Script[step]

Work(checked, touches, local, calls) ==
  [checked |-> checked, touches |-> touches, local |-> local,
   calls |-> calls, sees |-> TRUE, optional |-> FALSE]

\* score_session.  The content judge makes three calls per dimension, and one
\* more after a bad reply, on pool threads, where the deadline's ContextVar is
\* unset; the coaching documents come after the report and may fail.
ScoringScript ==
  LET begin    == Work(FALSE, TRUE, FALSE, {0})
      judge    == [Work(TRUE, TRUE, FALSE, {3, 4}) EXCEPT !.sees = FALSE]
      coaching == [Work(FALSE, FALSE, FALSE, {0, 1}) EXCEPT !.optional = TRUE]
  IN  << begin,
         Work(TRUE, TRUE, TRUE, {0}),      \* download
         Work(TRUE, TRUE, FALSE, {2}),     \* transcribe
         Work(TRUE, TRUE, TRUE, {0}),      \* delivery-metrics
         judge,                            \* content-judge
         Work(TRUE, TRUE, FALSE, {2}),     \* delivery-judge
         Work(TRUE, TRUE, FALSE, {0}),     \* compile, save_report, "scored"
         coaching, coaching >>             \* paraphrases, insights

\* compile_package: the row is touched when it ends, not on the way.
CompileScript ==
  << Work(TRUE, FALSE, FALSE, {0, 1}),     \* intake
     Work(TRUE, FALSE, FALSE, {1}),        \* jd-facts
     Work(TRUE, FALSE, TRUE, {0}),         \* corpus-sync
     Work(TRUE, FALSE, FALSE, {3, 5}),     \* research-sweep: queries, structuring
     Work(TRUE, FALSE, FALSE, {1, 2}) >>   \* rubric-compile: and one repair

Smaller(m, n) == IF m < n THEN m ELSE n

\* Deadline.expired: nothing remains.
Expired(t) == t >= Deadline

\* Wrong variant for OverrunBounded and LiveJobIsFresh: boundaries check the
\* deadline, attempts do not.
NeverMustStop == FALSE

\* A check on this thread: only a deadline it sees can stop it.
MustStop == Current.sees /\ Expired(elapsed)

\* delay * (1 + jitter_ratio * random()), capped.
Waits(d) == {Smaller(w, MaxWait) : w \in d..(d + Jitter)}

----------------------------------------------------------------------------
\* The route has just written the row: "scoring", or a new "compiling" package.
Init ==
  /\ phase = "queued"
  /\ step = 1
  /\ left = 0
  /\ attempt = 0
  /\ delay = 0
  /\ timer = QueueWait
  /\ elapsed = 0
  /\ age = 0

\* Time passes while the thread waits, works or is in a call, up to the phase's
\* limit; the deadline is bound, and starts, when the gate opens.
Tick ==
  /\ phase \in {"queued", "working", "calling", "waiting"}
  /\ timer > 0
  /\ timer' = timer - 1
  /\ elapsed' = IF phase = "queued" THEN elapsed ELSE elapsed + 1
  /\ age' = age + 1
  /\ UNCHANGED <<phase, step, left, attempt, delay>>

\* ConcurrencySlot.acquire times out, or too little memory: the job is over.
Refused ==
  /\ phase = "queued"
  /\ phase' = "done"
  /\ UNCHANGED <<step, left, attempt, delay, timer, elapsed, age>>

Admitted ==
  /\ phase = "queued"
  /\ phase' = "ready"
  /\ UNCHANGED <<step, left, attempt, delay, timer, elapsed, age>>

\* _check_deadline, and the boundary's row writes.
StepBegins ==
  /\ phase = "ready"
  /\ ~(Current.checked /\ Expired(elapsed))
  /\ phase' = "working"
  /\ timer' = IF Current.local THEN LocalWork ELSE 0
  /\ left' \in Current.calls
  /\ age' = IF Current.touches THEN 0 ELSE age
  /\ UNCHANGED <<step, attempt, delay, elapsed>>

\* DeadlineExceeded at a boundary ends the job.
StepRefused ==
  /\ phase = "ready"
  /\ Current.checked /\ Expired(elapsed)
  /\ phase' = "done"
  /\ UNCHANGED <<step, left, attempt, delay, timer, elapsed, age>>

\* On to the next boundary, or off the end of the script.
MovesOn ==
  /\ IF step = Len(Script)
     THEN phase' = "done" /\ UNCHANGED step
     ELSE phase' = "ready" /\ step' = step + 1
  /\ UNCHANGED <<left, attempt, delay, timer, elapsed, age>>

StepEnds ==
  /\ phase = "working" /\ left = 0
  /\ MovesOn

\* An exception leaves the step: the job's end, except in the coaching calls.
StepFails ==
  IF Current.optional
  THEN MovesOn
  ELSE /\ phase' = "done"
       /\ UNCHANGED <<step, left, attempt, delay, timer, elapsed, age>>

\* The step's own work fails, a call fails for good, or its last attempt does.
StepRaises ==
  /\ phase \in {"working", "calling"}
  /\ StepFails

\* call_with_retry is about to make an attempt: the step's next call, or a call
\* whose backoff has been slept.
AttemptIsDue ==
  \/ phase = "working" /\ left > 0
  \/ phase = "waiting" /\ timer = 0

AttemptBegins ==
  /\ AttemptIsDue
  /\ ~MustStop
  /\ phase' = "calling"
  /\ timer' = CallTimeout
  /\ attempt' = IF phase = "working" THEN 1 ELSE attempt + 1
  /\ delay' = IF phase = "working" THEN FirstWait ELSE delay
  /\ UNCHANGED <<step, left, elapsed, age>>

AttemptStopped ==
  /\ AttemptIsDue
  /\ MustStop
  /\ StepFails

\* The answer is used; work outside calls is over for this step.
CallAnswers ==
  /\ phase = "calling"
  /\ phase' = "working"
  /\ left' = left - 1
  /\ timer' = 0
  /\ UNCHANGED <<step, attempt, delay, elapsed, age>>

\* 429, 5xx, a transport error or the HTTP timeout: back off if the budget
\* covers the wait.
CallBacksOff ==
  /\ phase = "calling"
  /\ attempt < MaxAttempts
  /\ \E wait \in Waits(delay) :
       /\ Current.sees => elapsed + wait < Deadline
       /\ timer' = wait
  /\ phase' = "waiting"
  /\ delay' = Smaller(delay * Multiplier, MaxWait)
  /\ UNCHANGED <<step, left, attempt, elapsed, age>>

\* ... and give up if it does not.
BackoffRefused ==
  /\ phase = "calling"
  /\ attempt < MaxAttempts
  /\ \E wait \in Waits(delay) : Current.sees /\ elapsed + wait >= Deadline
  /\ StepFails

Next ==
  \/ Tick
  \/ Refused \/ Admitted
  \/ StepBegins \/ StepRefused \/ StepEnds
  \/ StepRaises \/ AttemptBegins \/ AttemptStopped
  \/ CallAnswers \/ CallBacksOff \/ BackoffRefused

Spec == Init /\ [][Next]_vars

----------------------------------------------------------------------------
TypeOK ==
  /\ phase \in {"queued", "ready", "working", "calling", "waiting", "done"}
  /\ step \in Steps
  /\ left \in Nat
  /\ attempt \in 0..MaxAttempts
  /\ delay \in Nat
  /\ timer \in Nat
  /\ elapsed \in Nat
  /\ age \in Nat

Larger(m, n) == IF m > n THEN m ELSE n

\* "a job overruns by at most one in-flight call's timeout, never by the sum of
\* every remaining one" (Deadline), or by one stretch of work outside the calls,
\* which nothing interrupts either.
OverrunBounded == elapsed <= Deadline + Larger(CallTimeout, LocalWork)

\* "a row whose clock is older than the config threshold has no worker behind
\* it" (reaper.py): while the job is in flight its row is not stale.
LiveJobIsFresh ==
  phase # "done" /\ ~Current.optional => age <= Stale
=============================================================================
