-------------------------- MODULE SessionLifecycle --------------------------
(***************************************************************************)
(* The interview sessions of ONE package, from the first POST /api/sessions *)
(* to a verdict: the scoring worker's session routes (api/routers/          *)
(* sessions.py), its background scoring job (api/jobs.py and                *)
(* api/pipeline.py), the stuck-row reaper (api/reaper.py) and a restart of  *)
(* the worker process.                                                      *)
(*                                                                          *)
(* A request handler is one step here: SessionRaces splits the handlers at  *)
(* their database calls.  A scoring job takes one step per pipeline stage,  *)
(* and the reaper, the clocks, the payments and restarts run between them.  *)
(*                                                                          *)
(* A session row is named by its "index" column.  Each column the code      *)
(* decides on is a function of the index.                                   *)
(***************************************************************************)
EXTENDS Naturals, FiniteSets, FiniteSetsExt

CONSTANTS
  Total,      \* PAID_TOTAL_SESSIONS: sessions an unlocked standard package has
  MintCap,    \* limits.secret_mint_cap
  ResumeCap,  \* limits.resume_attempt_cap
  ScoreCap,   \* limits.score_attempt_cap
  MaxIndex,   \* bound: row indices the model can represent, more than Total
  Jobs,       \* bound: background scoring tasks that can be outstanding
  MaxBoots,   \* bound: worker processes in a behaviour (1 = no restart)
  LongStages  \* may one pipeline stage outlast limits.reaper_stale_after_s?

ASSUME LifecycleConstants ==
  /\ Total \in Nat \ {0}
  /\ MintCap \in Nat \ {0}
  /\ ResumeCap \in Nat \ {0}
  /\ ScoreCap \in Nat \ {0}
  /\ MaxIndex \in Nat /\ MaxIndex > Total
  /\ MaxBoots \in Nat \ {0}
  /\ LongStages \in BOOLEAN

VARIABLES
  \* packages row
  quick,      \* kind = "quick"
  access,     \* "locked": neither paid_at nor comped_at; "expired": past expires_at
  ready,      \* status = "ready" (the rubric, once stored, is never cleared)
  \* sessions table, by index
  status,     \* status column, or "none" while the row does not exist
  mints,      \* secret_mints
  heartbeat,  \* last_heartbeat_at against the staleness threshold
  clock,      \* updated_at against the hard cut and the reaper's window
  report,     \* report column is not null
  \* worker process memory
  resumes,    \* resume_attempts counter
  scores,     \* score_attempts counter
  stage,      \* where each background scoring task stands
  target,     \* the row each background scoring task works on
  \* history
  granted,    \* realtime secrets the worker has approved for each row
  boots       \* worker processes so far

packageVars == <<quick, access, ready>>
columnVars  == <<status, mints, heartbeat, clock, report>>
processVars == <<resumes, scores, stage, target>>
vars == <<packageVars, columnVars, processVars, granted, boots>>

----------------------------------------------------------------------------
Slots == 1..MaxIndex

Retriable     == {"planned", "failed", "insufficient", "abandoned"}
ResumeCounted == {"failed", "insufficient", "abandoned"}
SlotConsuming == {"scoring", "scored", "quick_done", "failed_permanent"}
Status        == Retriable \union SlotConsuming

\* Statuses the job wrapper never rewrites.
SettledStatus == {"scored", "failed", "insufficient", "failed_permanent"}

\* A stage write moves the job along these edges.  A "queued" task waits for
\* the concurrency slot; "begun" has written status "scoring".
Pipeline ==
  { <<"begun", "download">>,
    <<"download", "transcribe">>,
    <<"transcribe", "delivery-metrics">>,
    <<"delivery-metrics", "content-judge">>,
    <<"content-judge", "delivery-judge">>,
    <<"delivery-judge", "compile">> }

\* Between taking the slot and save_report.
ScoringStage ==
  { "begun", "download", "transcribe", "delivery-metrics",
    "content-judge", "delivery-judge", "compile" }

Stage == {"idle", "queued", "saved"} \union ScoringStage

Exists(i)  == status[i] # "none"
Planned(i) == status[i] = "planned"
Rows       == {i \in Slots : Exists(i)}

\* The job j occupies the one scoring slot (resilience.toml: concurrency 1).
Running(j) == stage[j] \notin {"idle", "queued"}

\* Some task, waiting or running, will still write to row i.
HasJob(i)     == \E j \in Jobs : stage[j] # "idle" /\ target[j] = i
HasQueued(i)  == \E j \in Jobs : stage[j] = "queued" /\ target[j] = i
HasRunning(i) == \E j \in Jobs : Running(j) /\ target[j] = i

EffectiveTotal == IF quick THEN 1 ELSE IF access = "locked" THEN 0 ELSE Total

RoomIsClosed == ~quick /\ access # "open"

Live(i) ==
  /\ Planned(i)
  /\ mints[i] >= 1
  /\ clock[i] = "fresh"
  /\ heartbeat[i] # "stale"

\* Wrong variant for LiveRoomUndisturbed: a room that has not beaten yet counts
\* as silent.
StoppedOrNeverReported(i) ==
  Planned(i) /\ mints[i] >= 1 /\ clock[i] = "fresh" /\ heartbeat[i] # "fresh"

StoppedReporting(i) ==
  /\ Planned(i)
  /\ mints[i] >= 1
  /\ clock[i] = "fresh"
  /\ heartbeat[i] = "stale"

\* A counter only decides whether the next bump is past its cap, so it stops
\* counting there.
Bump(count, cap) == IF count >= cap THEN count ELSE count + 1

----------------------------------------------------------------------------
Init ==
  /\ quick \in BOOLEAN
  /\ access = "locked"
  /\ ready = quick
  /\ status    = [i \in Slots |-> "none"]
  /\ mints     = [i \in Slots |-> 0]
  /\ heartbeat = [i \in Slots |-> "null"]
  /\ clock     = [i \in Slots |-> "fresh"]
  /\ report    = [i \in Slots |-> FALSE]
  /\ resumes   = [i \in Slots |-> 0]
  /\ scores    = [i \in Slots |-> 0]
  /\ stage     = [j \in Jobs |-> "idle"]
  /\ target    = [j \in Jobs |-> 1]
  /\ granted   = [i \in Slots |-> 0]
  /\ boots     = 1

----------------------------------------------------------------------------
(* The package row, as far as the session routes read it. *)

\* set_package_paid, set_package_comped, set_package_cbt.
Unlock ==
  /\ ~quick /\ access = "locked"
  /\ access' = "open"
  /\ UNCHANGED <<quick, ready, columnVars, processVars, granted, boots>>

Expire ==
  /\ ~quick /\ access = "open"
  /\ access' = "expired"
  /\ UNCHANGED <<quick, ready, columnVars, processVars, granted, boots>>

\* A closed-beta package is paid for after its window: paid_at was null, so
\* expires_at is written anew.
PayAgain ==
  /\ ~quick /\ access = "expired"
  /\ access' = "open"
  /\ UNCHANGED <<quick, ready, columnVars, processVars, granted, boots>>

\* A compile run ends: "ready", or "failed" (also a late run over a ready row).
CompileSettles ==
  /\ ~quick
  /\ ready' \in BOOLEAN
  /\ UNCHANGED <<quick, access, columnVars, processVars, granted, boots>>

----------------------------------------------------------------------------
(* POST /api/sessions *)

\* Rows the retry loop would hand back: "planned" for free, the rest while the
\* resume counter allows one more.
Resumable ==
  {i \in Slots : \/ Planned(i)
                 \/ status[i] \in ResumeCounted /\ resumes[i] < ResumeCap}

\* Rows the retry loop retires when it reaches them.
OutOfResumes ==
  {i \in Slots : status[i] \in ResumeCounted /\ resumes[i] >= ResumeCap}

StatusAfterRetiring(gone) ==
  [i \in Slots |-> IF i \in gone THEN "failed_permanent" ELSE status[i]]

\* Wrong variant for QuotaHeld: a retired row gives its slot back.
UsedWithoutRetired(st) ==
  {i \in Slots : st[i] \in SlotConsuming \ {"failed_permanent"}}

Used(st) == {i \in Slots : st[i] \in SlotConsuming}

Exhausted(gone) ==
  Cardinality(Used(StatusAfterRetiring(gone))) >= EffectiveTotal

NextIndex == Max({0} \union Rows) + 1

Touched(rows) == [i \in Slots |-> IF i \in rows THEN "fresh" ELSE clock[i]]

\* Wrong variant for SpendBounded: resuming an abandoned row is free.
ChargedUnlessAbandoned(rows) ==
  [i \in Slots |-> IF i \in rows /\ status[i] # "abandoned"
                   THEN Bump(resumes[i], ResumeCap) ELSE resumes[i]]

Charged(rows) ==
  [i \in Slots |-> IF i \in rows THEN Bump(resumes[i], ResumeCap) ELSE resumes[i]]

\* The loop stops at row i: a planned row as it stands, a counted one re-armed.
HandBack(i) ==
  LET gone == {k \in OutOfResumes : k < i}
      rearm == ~Planned(i)
  IN  /\ i \in Resumable
      /\ \A k \in Resumable : i <= k
      /\ status' = [StatusAfterRetiring(gone) EXCEPT ![i] = "planned"]
      /\ clock' = Touched(gone)
      /\ resumes' = Charged(IF rearm THEN gone \union {i} ELSE gone)
      /\ mints' = [mints EXCEPT ![i] = IF rearm THEN 0 ELSE @]
      /\ heartbeat' = [heartbeat EXCEPT ![i] = IF rearm THEN "null" ELSE @]

\* No row to hand back and a free slot: insert the next index.
InsertNext ==
  LET gone == OutOfResumes
      next == NextIndex
  IN  /\ Resumable = {}
      /\ ~Exhausted(gone)
      /\ ready
      /\ next \in Slots
      /\ status' = [StatusAfterRetiring(gone) EXCEPT ![next] = "planned"]
      /\ clock' = Touched(gone \union {next})
      /\ resumes' = Charged(gone)
      /\ UNCHANGED <<mints, heartbeat>>

\* Exhausted, or the package is not ready: the retirements stay.
RefuseNext ==
  LET gone == OutOfResumes
  IN  /\ Resumable = {}
      /\ Exhausted(gone) \/ ~ready
      /\ status' = StatusAfterRetiring(gone)
      /\ clock' = Touched(gone)
      /\ resumes' = Charged(gone)
      /\ UNCHANGED <<mints, heartbeat>>

CreateSession ==
  /\ ~RoomIsClosed
  /\ \A i \in Slots : ~Live(i)
  /\ \/ \E i \in Slots : HandBack(i)
     \/ InsertNext
     \/ RefuseNext
  /\ UNCHANGED <<packageVars, report, scores, stage, target, granted, boots>>

----------------------------------------------------------------------------
(* The room: secret-mint, heartbeat, reclaim *)

\* The counter moves, and the clock with it, even when the answer is 429.
MintSecret(i) ==
  /\ Planned(i)
  /\ ~RoomIsClosed
  /\ mints' = [mints EXCEPT ![i] = Bump(@, MintCap)]
  /\ clock' = [clock EXCEPT ![i] = "fresh"]
  /\ granted' = [granted EXCEPT ![i] = IF mints[i] < MintCap THEN @ + 1 ELSE @]
  /\ UNCHANGED <<packageVars, status, heartbeat, report, processVars, boots>>

Heartbeat(i) ==
  /\ Planned(i)
  /\ heartbeat' = [heartbeat EXCEPT ![i] = "fresh"]
  /\ UNCHANGED <<packageVars, status, mints, clock, report, processVars, granted, boots>>

Reclaim(i) ==
  /\ StoppedReporting(i)
  /\ status' = [status EXCEPT ![i] = "abandoned"]
  /\ UNCHANGED <<packageVars, mints, heartbeat, clock, report, processVars, granted, boots>>

----------------------------------------------------------------------------
(* POST /api/sessions/{id}/complete *)

\* Wrong variants for SettledIsFinal and OneJobPerRow: a refusal is missing.
CompletableOnceRetired(i) == status[i] \in Retriable \union {"failed_permanent"}
CompletableWhileScoring(i) == status[i] \in Retriable \union {"scoring"}

Completable(i) == status[i] \in Retriable

CompleteQuick(i) ==
  /\ quick /\ Completable(i)
  /\ status' = [status EXCEPT ![i] = "quick_done"]
  /\ clock' = [clock EXCEPT ![i] = "fresh"]
  /\ UNCHANGED <<packageVars, mints, heartbeat, report, processVars, granted, boots>>

CompleteRetires(i) ==
  /\ ~quick /\ Completable(i)
  /\ scores[i] >= ScoreCap
  /\ scores' = [scores EXCEPT ![i] = Bump(@, ScoreCap)]
  /\ status' = [status EXCEPT ![i] = "failed_permanent"]
  /\ clock' = [clock EXCEPT ![i] = "fresh"]
  /\ UNCHANGED <<packageVars, mints, heartbeat, report, resumes, stage, target, granted, boots>>

CompleteScores(i) ==
  /\ ~quick /\ Completable(i)
  /\ scores[i] < ScoreCap
  /\ \E j \in Jobs :
       /\ stage[j] = "idle"
       /\ stage' = [stage EXCEPT ![j] = "queued"]
       /\ target' = [target EXCEPT ![j] = i]
  /\ scores' = [scores EXCEPT ![i] = Bump(@, ScoreCap)]
  /\ status' = [status EXCEPT ![i] = "scoring"]
  /\ clock' = [clock EXCEPT ![i] = "fresh"]
  /\ UNCHANGED <<packageVars, mints, heartbeat, report, resumes, granted, boots>>

Complete(i) == CompleteQuick(i) \/ CompleteRetires(i) \/ CompleteScores(i)

----------------------------------------------------------------------------
(* The background scoring job: score_session_job around score_session *)

\* _set_session_status by the job: the status, and the row's clock.
JobWrites(j, st) ==
  /\ status' = [status EXCEPT ![target[j]] = st]
  /\ clock' = [clock EXCEPT ![target[j]] = "fresh"]

JobEnds(j) == stage' = [stage EXCEPT ![j] = "idle"]

rowsBesideStatus == <<mints, heartbeat, report>>
besideJobs == <<packageVars, resumes, scores, target, granted, boots>>

\* No slot within queue_wait_s, or too little memory: the wrapper fails the row
\* unless its status already says the run is over.
JobRefused(j) ==
  /\ stage[j] = "queued"
  /\ JobEnds(j)
  /\ IF status[target[j]] \in SettledStatus
     THEN UNCHANGED <<status, clock>>
     ELSE JobWrites(j, "failed")
  /\ UNCHANGED <<rowsBesideStatus, besideJobs>>

\* The slot is free.  The status is written whatever the row says by now.
JobBegins(j) ==
  /\ stage[j] = "queued"
  /\ \A k \in Jobs : ~Running(k)
  /\ stage' = [stage EXCEPT ![j] = "begun"]
  /\ JobWrites(j, "scoring")
  /\ UNCHANGED <<rowsBesideStatus, besideJobs>>

\* _set_scoring_stage: the stage column and the clock, not the status.
JobAdvances(j) ==
  /\ \E next \in ScoringStage :
       /\ <<stage[j], next>> \in Pipeline
       /\ stage' = [stage EXCEPT ![j] = next]
  /\ clock' = [clock EXCEPT ![target[j]] = "fresh"]
  /\ UNCHANGED <<status, rowsBesideStatus, besideJobs>>

\* The recording is over recording_max_minutes.
JobFindsTooLong(j) ==
  /\ stage[j] = "download"
  /\ JobEnds(j)
  /\ JobWrites(j, "failed")
  /\ UNCHANGED <<rowsBesideStatus, besideJobs>>

\* The evidence is below the floors: no judge runs.
JobFindsInsufficient(j) ==
  /\ stage[j] = "transcribe"
  /\ JobEnds(j)
  /\ JobWrites(j, "insufficient")
  /\ UNCHANGED <<rowsBesideStatus, besideJobs>>

\* Wrong variant for ScoredHasReport: the status goes first.
JobAnnouncesReport(j) ==
  /\ stage[j] = "compile"
  /\ stage' = [stage EXCEPT ![j] = "saved"]
  /\ status' = [status EXCEPT ![target[j]] = "scored"]
  /\ UNCHANGED <<clock, report, mints, heartbeat, besideJobs>>

\* save_report: report and status in one update, the clock not touched.
JobSavesReport(j) ==
  /\ stage[j] = "compile"
  /\ stage' = [stage EXCEPT ![j] = "saved"]
  /\ report' = [report EXCEPT ![target[j]] = TRUE]
  /\ status' = [status EXCEPT ![target[j]] = "scored"]
  /\ UNCHANGED <<clock, mints, heartbeat, besideJobs>>

\* The second "scored" write; the coaching documents change no status.
JobFinishes(j) ==
  /\ stage[j] = "saved"
  /\ JobEnds(j)
  /\ JobWrites(j, "scored")
  /\ UNCHANGED <<rowsBesideStatus, besideJobs>>

\* Any exception inside score_session, the spent deadline included.
JobFails(j) ==
  /\ Running(j)
  /\ JobEnds(j)
  /\ JobWrites(j, "failed")
  /\ UNCHANGED <<rowsBesideStatus, besideJobs>>

\* The database is down for the failure write as well, so nothing is written.
JobIsLost(j) ==
  /\ stage[j] # "idle"
  /\ JobEnds(j)
  /\ UNCHANGED <<status, clock, rowsBesideStatus, besideJobs>>

JobStep(j) ==
  \/ JobRefused(j)
  \/ JobBegins(j)
  \/ JobAdvances(j)
  \/ JobFindsTooLong(j)
  \/ JobFindsInsufficient(j)
  \/ JobSavesReport(j)
  \/ JobFinishes(j)
  \/ JobFails(j)
  \/ JobIsLost(j)

----------------------------------------------------------------------------
(* The reaper, restarts and the passage of time *)

\* Wrong variant for ScoringEnds: the pass looks for rows the hard cut has passed.
StuckByHardCut == {i \in Slots : status[i] = "scoring" /\ clock[i] = "pastCut"}

Stuck == {i \in Slots : status[i] = "scoring" /\ clock[i] = "pastReap"}

ReapStuck ==
  /\ status' = [i \in Slots |-> IF i \in Stuck THEN "failed" ELSE status[i]]
  /\ clock' = Touched(Stuck)

Reap ==
  /\ Stuck # {}
  /\ ReapStuck
  /\ UNCHANGED <<packageVars, mints, heartbeat, report, processVars, granted, boots>>

\* The process dies with its tasks and counters; the new one reaps once before
\* it serves.
Restart ==
  /\ boots < MaxBoots
  /\ boots' = boots + 1
  /\ stage' = [j \in Jobs |-> "idle"]
  /\ resumes' = [i \in Slots |-> 0]
  /\ scores' = [i \in Slots |-> 0]
  /\ ReapStuck
  /\ UNCHANGED <<packageVars, mints, heartbeat, report, target, granted>>

HeartbeatGoesStale(i) ==
  /\ Planned(i) /\ heartbeat[i] = "fresh"
  /\ heartbeat' = [heartbeat EXCEPT ![i] = "stale"]
  /\ UNCHANGED <<packageVars, status, mints, clock, report, processVars, granted, boots>>

\* updated_at is read on planned rows, against the hard cut (25 min) ...
RoomClockAges(i) ==
  /\ Planned(i) /\ clock[i] = "fresh"
  /\ clock' = [clock EXCEPT ![i] = "pastCut"]
  /\ UNCHANGED <<packageVars, status, mints, heartbeat, report, processVars, granted, boots>>

\* ... and on scoring rows, against the reaper's window (30 min).  A task waits
\* for its slot at most queue_wait_s (15 min) after the row was touched, so only
\* a running stage can outlast the window, and only if stages can be that long.
ScoringClockAges(i) ==
  /\ status[i] = "scoring" /\ clock[i] # "pastReap"
  /\ ~HasQueued(i)
  /\ LongStages \/ ~HasRunning(i)
  /\ clock' = [clock EXCEPT ![i] = "pastReap"]
  /\ UNCHANGED <<packageVars, status, mints, heartbeat, report, processVars, granted, boots>>

----------------------------------------------------------------------------
Next ==
  \/ Unlock \/ Expire \/ PayAgain \/ CompileSettles
  \/ CreateSession
  \/ \E i \in Slots : MintSecret(i) \/ Heartbeat(i) \/ Reclaim(i) \/ Complete(i)
  \/ \E j \in Jobs : JobStep(j)
  \/ Reap
  \/ Restart
  \/ \E i \in Slots : HeartbeatGoesStale(i) \/ RoomClockAges(i) \/ ScoringClockAges(i)

Spec == Init /\ [][Next]_vars

\* Time passes, the reaper wakes every reaper_interval_s, and a running task
\* moves on (every wait in it has a timeout).  Nothing a customer does is fair.
Fairness ==
  /\ \A i \in Slots : WF_vars(ScoringClockAges(i))
  /\ \A j \in Jobs : WF_vars(JobStep(j))
  /\ WF_vars(Reap)

FairSpec == Spec /\ Fairness

----------------------------------------------------------------------------
TypeOK ==
  /\ quick \in BOOLEAN
  /\ access \in {"locked", "open", "expired"}
  /\ ready \in BOOLEAN
  /\ status \in [Slots -> Status \union {"none"}]
  /\ mints \in [Slots -> 0..MintCap]
  /\ heartbeat \in [Slots -> {"null", "fresh", "stale"}]
  /\ clock \in [Slots -> {"fresh", "pastCut", "pastReap"}]
  /\ report \in [Slots -> BOOLEAN]
  /\ resumes \in [Slots -> 0..ResumeCap]
  /\ scores \in [Slots -> 0..ScoreCap]
  /\ stage \in [Jobs -> Stage]
  /\ target \in [Jobs -> Slots]
  /\ granted \in [Slots -> Nat]
  /\ boots \in 1..MaxBoots

\* A package never holds more session rows than it sells, whatever order rows
\* fail, are retired, are re-armed and are scored in (quota.py, create_session):
\* row indices are dense and none passes the package's total.
QuotaHeld ==
  \A i \in Slots : Exists(i) =>
    /\ i <= EffectiveTotal
    /\ \A k \in 1..i : Exists(k)

\* Why QuotaHeld is inductive: the rows are exactly the first n indices, n
\* within the package's total, and no task writes to a row that does not exist.
DenseRows == \E n \in 0..EffectiveTotal : Rows = 1..n

JobsHaveRows == \A j \in Jobs : stage[j] # "idle" => Exists(target[j])

\* The realtime secrets the worker approves for a row are bounded however often
\* it is reclaimed and resumed: one mint cap for the first attempt, and one more
\* for each counted resume a worker process allows (quota.py, the reason an
\* abandoned row is not resumed for free; secret-mint; rearm_session).
SpendBounded ==
  \A i \in Slots : granted[i] <= MintCap * (1 + ResumeCap * boots)

\* Why SpendBounded is inductive: each counted resume of this process, and at
\* most ResumeCap of each process before it, has bought one more mint cap.
SpendLedger ==
  \A i \in Slots :
    granted[i] <= MintCap * (ResumeCap * (boots - 1) + resumes[i]) + mints[i]

\* "scored" is never seen without the report behind it (score_session saves the
\* report before the status that announces it; no writer goes the other way).
ScoredHasReport ==
  \A i \in Slots : status[i] = "scored" => report[i]

\* A spent slot stays spent: once no task holds a finished row, neither a late
\* complete, a resume, the reaper nor a restart moves its status again
\* (complete_session's refusals, create_session's retriable set).
SettledIsFinal ==
  [][\A i \in Slots :
       (status[i] \in SlotConsuming \ {"scoring"} /\ ~HasJob(i))
          => status'[i] = status[i]]_vars

\* No row is stuck scoring: a lost job, a dead worker or a database outage ends
\* in a status the customer can act on (reaper.py, "no row is stuck forever").
ScoringEnds ==
  \A i \in Slots : status[i] = "scoring" ~> status[i] # "scoring"

\* While stages are shorter than the reaper's window, one task at most works on
\* a row, and the row it works on still says so: "scoring" until the report is
\* saved (jobs.py and reaper.py rely on it; score_session writes blindly).
OneJobPerRow ==
  /\ \A j, k \in Jobs :
       stage[j] # "idle" /\ stage[k] # "idle" /\ target[j] = target[k] => j = k
  /\ \A j \in Jobs :
       /\ stage[j] \in ScoringStage \union {"queued"} => status[target[j]] = "scoring"
       /\ stage[j] = "saved" => status[target[j]] = "scored"

\* While stages are shorter than the reaper's window, a customer who is in a
\* live room loses it to nothing but their own complete or the reclaim of a
\* silent room (live_session, the lock every start reads).
LiveRoomUndisturbed ==
  [][\A i \in Slots : Live(i) => Planned(i)' \/ Complete(i)]_vars
=============================================================================
