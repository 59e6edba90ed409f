--------------------------- MODULE PackageCompile ---------------------------
(***************************************************************************)
(* The packages of ONE account, from POST /packages to a rubric: the create *)
(* handler with its beta grant, the compile-retry route (routers/           *)
(* packages.py), the background compile job (api/jobs.py, api/pipeline.py), *)
(* the package half of the stuck-row reaper and restarts of the worker.     *)
(*                                                                          *)
(* Requests run in a thread pool, so a handler takes one step per database  *)
(* call and any number of other steps come between two of them.             *)
(***************************************************************************)
EXTENDS Naturals, FiniteSets

CONSTANTS
  Packages,      \* bound: rows the account may come to have
  Handlers,      \* bound: requests in progress at once
  Jobs,          \* bound: background compile tasks outstanding at once
  Concurrency,   \* resilience.toml [compile] max_concurrency
  MaxPackages,   \* limits.max_packages_per_user
  PerRedemption, \* CBT_PACKAGES_PER_REDEMPTION
  RetryCap,      \* limits.compile_retry_cap
  MaxBoots,      \* bound: worker processes in a behaviour
  NoPackage,     \* a handler that works on no row yet
  LongCompiles   \* may a compile outlast limits.reaper_stale_after_s?

ASSUME CompileConstants ==
  /\ IsFiniteSet(Packages) /\ IsFiniteSet(Handlers) /\ Handlers # {}
  /\ NoPackage \notin Packages
  /\ Concurrency \in Nat \ {0}
  /\ MaxPackages \in Nat \ {0}
  /\ PerRedemption \in Nat \ {0}
  /\ RetryCap \in Nat \ {0}
  /\ MaxBoots \in Nat \ {0}
  /\ LongCompiles \in BOOLEAN

VARIABLES
  \* packages table
  status,    \* status column, or "none" while the row does not exist
  clock,     \* updated_at: "null", "fresh", or "stale" for the reaper
  opened,    \* comped_at: "locked", "comp" (allowlist) or "code" (beta)
  \* the account
  allowlisted, \* COMP_ACCOUNT_IDS names it
  code,      \* its beta code: "none", "redeemed" or "closed"
  granted,   \* cbt_redemptions.packages_granted
  \* worker process
  retries,   \* compile_retry_attempts counter
  pc,        \* where each request stands
  pkg,       \* the row it works on
  seen,      \* the count increment_cbt_packages_granted selected
  stage,     \* where each compile task stands
  target,    \* the row it works on
  \* history
  runs,      \* compile tasks started for each row
  boots      \* worker processes so far

rowVars == <<status, clock, opened>>
accountVars == <<allowlisted, code, granted>>
requestVars == <<pc, pkg, seen>>
jobVars == <<stage, target, runs>>
vars == <<rowVars, accountVars, retries, requestVars, jobVars, boots>>

----------------------------------------------------------------------------
Rows == {p \in Packages : status[p] # "none"}

Coded == {p \in Packages : opened[p] = "code"}

\* Requests that may still write to row p, and tasks that will.
InRequest(p) == \E h \in Handlers : pc[h] # "idle" /\ pkg[h] = p
HasJob(p)    == \E j \in Jobs : stage[j] # "idle" /\ target[j] = p

Running == {j \in Jobs : stage[j] \in {"running", "saved"}}

Goto(h, step) == pc' = [pc EXCEPT ![h] = step] /\ UNCHANGED pkg

\* The request is answered.
Answer(h) ==
  /\ pc' = [pc EXCEPT ![h] = "idle"]
  /\ pkg' = [pkg EXCEPT ![h] = NoPackage]

\* The counter only decides whether a bump is past the cap, and stops there.
Bump(count) == IF count >= RetryCap THEN count ELSE count + 1

Init ==
  /\ status = [p \in Packages |-> "none"]
  /\ clock  = [p \in Packages |-> "null"]
  /\ opened = [p \in Packages |-> "locked"]
  /\ allowlisted \in BOOLEAN
  /\ code = "none"
  /\ granted = 0
  /\ retries = [p \in Packages |-> 0]
  /\ pc   = [h \in Handlers |-> "idle"]
  /\ pkg  = [h \in Handlers |-> NoPackage]
  /\ seen = [h \in Handlers |-> 0]
  /\ stage  = [j \in Jobs |-> "idle"]
  /\ target = [j \in Jobs |-> NoPackage]
  /\ runs = [p \in Packages |-> 0]
  /\ boots = 1

----------------------------------------------------------------------------
(* The account's beta code *)

Redeem ==
  /\ code = "none"
  /\ code' = "redeemed"
  /\ UNCHANGED <<rowVars, allowlisted, granted, retries, requestVars, jobVars, boots>>

\* disabled_at, or package_expires_at has passed.
CodeCloses ==
  /\ code = "redeemed"
  /\ code' = "closed"
  /\ UNCHANGED <<rowVars, allowlisted, granted, retries, requestVars, jobVars, boots>>

----------------------------------------------------------------------------
(* POST /packages *)

\* Wrong variant for PackagesBounded: the cap itself is let through.
ListUpToCap(h) ==
  /\ pc[h] = "idle"
  /\ Cardinality(Rows) <= MaxPackages
  /\ Goto(h, "insert")
  /\ UNCHANGED <<rowVars, accountVars, retries, seen, jobVars, boots>>

\* The cap is checked on the list; a request over it changes nothing.
ListOwned(h) ==
  /\ pc[h] = "idle"
  /\ Cardinality(Rows) < MaxPackages
  /\ Goto(h, "insert")
  /\ UNCHANGED <<rowVars, accountVars, retries, seen, jobVars, boots>>

\* The insert leaves updated_at null.
InsertRow(h) ==
  /\ pc[h] = "insert"
  /\ \E p \in Packages \ Rows :
       /\ status' = [status EXCEPT ![p] = "compiling"]
       /\ pkg' = [pkg EXCEPT ![h] = p]
  /\ pc' = [pc EXCEPT ![h] = "touch"]
  /\ UNCHANGED <<clock, opened, accountVars, retries, seen, jobVars, boots>>

TouchRow(h) ==
  /\ pc[h] = "touch"
  /\ clock' = [clock EXCEPT ![pkg[h]] = "fresh"]
  /\ Goto(h, IF allowlisted THEN "comp" ELSE "redemption")
  /\ UNCHANGED <<status, opened, accountVars, retries, seen, jobVars, boots>>

CompRow(h) ==
  /\ pc[h] = "comp"
  /\ opened' = [opened EXCEPT ![pkg[h]] = "comp"]
  /\ clock' = [clock EXCEPT ![pkg[h]] = "fresh"]
  /\ Goto(h, "reuse")
  /\ UNCHANGED <<status, accountVars, retries, seen, jobVars, boots>>

ReadRedemption(h) ==
  /\ pc[h] = "redemption"
  /\ Goto(h, IF code = "redeemed" /\ granted < PerRedemption THEN "grant" ELSE "reuse")
  /\ UNCHANGED <<rowVars, accountVars, retries, seen, jobVars, boots>>

\* set_package_cbt
GrantCode(h) ==
  /\ pc[h] = "grant"
  /\ opened' = [opened EXCEPT ![pkg[h]] = "code"]
  /\ clock' = [clock EXCEPT ![pkg[h]] = "fresh"]
  /\ Goto(h, "select")
  /\ UNCHANGED <<status, accountVars, retries, seen, jobVars, boots>>

\* increment_cbt_packages_granted selects the count ...
SelectGranted(h) ==
  /\ pc[h] = "select"
  /\ seen' = [seen EXCEPT ![h] = granted]
  /\ Goto(h, "update")
  /\ UNCHANGED <<rowVars, accountVars, retries, jobVars, boots>>

\* ... and writes one more than it saw, in a second request.
UpdateGranted(h) ==
  /\ pc[h] = "update"
  /\ granted' = seen[h] + 1
  /\ seen' = [seen EXCEPT ![h] = 0]
  /\ Goto(h, "reuse")
  /\ UNCHANGED <<rowVars, allowlisted, code, retries, jobVars, boots>>

\* The account's newest ready package for the same job description lends its
\* rubric.
ReuseRubric(h) ==
  /\ pc[h] = "reuse"
  /\ \E q \in Packages : status[q] = "ready"
  /\ status' = [status EXCEPT ![pkg[h]] = "ready"]
  /\ clock' = [clock EXCEPT ![pkg[h]] = "fresh"]
  /\ Answer(h)
  /\ UNCHANGED <<opened, accountVars, retries, seen, jobVars, boots>>

StartsJob(p) ==
  /\ \E j \in Jobs :
       /\ stage[j] = "idle"
       /\ stage' = [stage EXCEPT ![j] = "queued"]
       /\ target' = [target EXCEPT ![j] = p]
  /\ runs' = [runs EXCEPT ![p] = @ + 1]

Enqueue(h) ==
  /\ pc[h] = "reuse"
  /\ StartsJob(pkg[h])
  /\ Answer(h)
  /\ UNCHANGED <<rowVars, accountVars, retries, seen, boots>>

CreatePackage(h) ==
  \/ ListOwned(h) \/ InsertRow(h) \/ TouchRow(h)
  \/ CompRow(h)
  \/ ReadRedemption(h) \/ GrantCode(h) \/ SelectGranted(h) \/ UpdateGranted(h)
  \/ ReuseRubric(h) \/ Enqueue(h)

----------------------------------------------------------------------------
(* POST /packages/{id}/compile-retry *)

RetryReads(h, p) ==
  /\ pc[h] = "idle"
  /\ status[p] = "failed"
  /\ pkg' = [pkg EXCEPT ![h] = p]
  /\ pc' = [pc EXCEPT ![h] = "bump"]
  /\ UNCHANGED <<rowVars, accountVars, retries, seen, jobVars, boots>>

RetryBumps(h) ==
  /\ pc[h] = "bump"
  /\ retries' = [retries EXCEPT ![pkg[h]] = Bump(@)]
  /\ IF retries[pkg[h]] < RetryCap THEN Goto(h, "reset") ELSE Answer(h)
  /\ UNCHANGED <<rowVars, accountVars, seen, jobVars, boots>>

\* reset_package_for_compile, whatever the row says by now, and the task.
RetryResets(h) ==
  /\ pc[h] = "reset"
  /\ status' = [status EXCEPT ![pkg[h]] = "compiling"]
  /\ clock' = [clock EXCEPT ![pkg[h]] = "fresh"]
  /\ StartsJob(pkg[h])
  /\ Answer(h)
  /\ UNCHANGED <<opened, accountVars, retries, seen, boots>>

RetryCompile(h) ==
  (\E p \in Packages : RetryReads(h, p)) \/ RetryBumps(h) \/ RetryResets(h)

\* A database call raises: 500, and no task is started.
RequestFails(h) ==
  /\ pc[h] # "idle"
  /\ Answer(h)
  /\ seen' = [seen EXCEPT ![h] = 0]
  /\ UNCHANGED <<rowVars, accountVars, retries, jobVars, boots>>

----------------------------------------------------------------------------
(* The background compile: compile_package_job around compile_package *)

JobEnds(j) ==
  /\ stage' = [stage EXCEPT ![j] = "idle"]
  /\ target' = [target EXCEPT ![j] = NoPackage]

besideRow == <<opened, accountVars, retries, requestVars, runs, boots>>

PackageFails(p) ==
  /\ status' = [status EXCEPT ![p] = "failed"]
  /\ clock' = [clock EXCEPT ![p] = "fresh"]

\* No slot within queue_wait_s: failed, unless the row says the run is over.
JobRefused(j) ==
  /\ stage[j] = "queued"
  /\ JobEnds(j)
  /\ IF status[target[j]] \in {"ready", "failed"}
     THEN UNCHANGED <<status, clock>>
     ELSE PackageFails(target[j])
  /\ UNCHANGED besideRow

\* The row is not written before the rubric is there.
JobBegins(j) ==
  /\ stage[j] = "queued"
  /\ Cardinality(Running) < Concurrency
  /\ stage' = [stage EXCEPT ![j] = "running"]
  /\ UNCHANGED target
  /\ UNCHANGED <<status, clock, besideRow>>

JobSavesRubric(j) ==
  /\ stage[j] = "running"
  /\ stage' = [stage EXCEPT ![j] = "saved"]
  /\ UNCHANGED target
  /\ status' = [status EXCEPT ![target[j]] = "ready"]
  /\ UNCHANGED <<clock, besideRow>>

JobTouches(j) ==
  /\ stage[j] = "saved"
  /\ JobEnds(j)
  /\ clock' = [clock EXCEPT ![target[j]] = "fresh"]
  /\ UNCHANGED <<status, besideRow>>

\* Any exception, that of the last touch included.
JobFails(j) ==
  /\ j \in Running
  /\ JobEnds(j)
  /\ PackageFails(target[j])
  /\ UNCHANGED besideRow

\* The failure write raises as well.
JobIsLost(j) ==
  /\ stage[j] # "idle"
  /\ JobEnds(j)
  /\ UNCHANGED <<status, clock, besideRow>>

JobStep(j) ==
  \/ JobRefused(j) \/ JobBegins(j)
  \/ JobSavesRubric(j) \/ JobTouches(j)
  \/ JobFails(j) \/ JobIsLost(j)

----------------------------------------------------------------------------
(* The reaper, restarts and the passage of time *)

\* A null updated_at is not older than anything.
Stuck == {p \in Packages : status[p] = "compiling" /\ clock[p] = "stale"}

ReapStuck ==
  /\ status' = [p \in Packages |-> IF p \in Stuck THEN "failed" ELSE status[p]]
  /\ clock'  = [p \in Packages |-> IF p \in Stuck THEN "fresh" ELSE clock[p]]

Reap ==
  /\ Stuck # {}
  /\ ReapStuck
  /\ UNCHANGED <<opened, accountVars, retries, requestVars, jobVars, boots>>

\* Requests, tasks and counters die with the process.
Restart ==
  /\ boots < MaxBoots
  /\ boots' = boots + 1
  /\ pc' = [h \in Handlers |-> "idle"]
  /\ pkg' = [h \in Handlers |-> NoPackage]
  /\ seen' = [h \in Handlers |-> 0]
  /\ stage' = [j \in Jobs |-> "idle"]
  /\ target' = [j \in Jobs |-> NoPackage]
  /\ retries' = [p \in Packages |-> 0]
  /\ ReapStuck
  /\ UNCHANGED <<opened, accountVars, runs>>

\* No request is as long as the reaper's window; a compile may be.
ClockAges(p) ==
  /\ status[p] = "compiling" /\ clock[p] = "fresh"
  /\ ~InRequest(p)
  /\ LongCompiles \/ ~HasJob(p)
  /\ clock' = [clock EXCEPT ![p] = "stale"]
  /\ UNCHANGED <<status, opened, accountVars, retries, requestVars, jobVars, boots>>

----------------------------------------------------------------------------
Next ==
  \/ Redeem \/ CodeCloses
  \/ \E h \in Handlers : CreatePackage(h) \/ RetryCompile(h) \/ RequestFails(h)
  \/ \E j \in Jobs : JobStep(j)
  \/ Reap \/ Restart
  \/ \E p \in Packages : ClockAges(p)

Spec == Init /\ [][Next]_vars

----------------------------------------------------------------------------
TypeOK ==
  /\ status \in [Packages -> {"none", "compiling", "ready", "failed"}]
  /\ clock \in [Packages -> {"null", "fresh", "stale"}]
  /\ opened \in [Packages -> {"locked", "comp", "code"}]
  /\ allowlisted \in BOOLEAN
  /\ code \in {"none", "redeemed", "closed"}
  /\ granted \in Nat
  /\ retries \in [Packages -> 0..RetryCap]
  /\ pc \in [Handlers ->
       {"idle", "insert", "touch", "comp", "redemption", "grant", "select",
        "update", "reuse", "bump", "reset"}]
  /\ pkg \in [Handlers -> Packages \union {NoPackage}]
  /\ \A h \in Handlers : pc[h] \notin {"idle", "insert"} => pkg[h] \in Packages
  /\ seen \in [Handlers -> Nat]
  /\ stage \in [Jobs -> {"idle", "queued", "running", "saved"}]
  /\ target \in [Jobs -> Packages \union {NoPackage}]
  /\ \A j \in Jobs : stage[j] # "idle" => target[j] \in Packages
  /\ runs \in [Packages -> Nat]
  /\ boots \in 1..MaxBoots

\* An account passes its package cap by the requests that were in progress at
\* once, less one, and no more: the cap is read before the insert
\* (create_package, max_packages_per_user).
PackagesBounded ==
  Cardinality(Rows) + 1 <= MaxPackages + Cardinality(Handlers)

\* A row buys one compile when it is born and, from each worker process, as many
\* retries as the cap allows, however retries race (retry_compile).
CompilesBounded ==
  \A p \in Packages : runs[p] <= 1 + RetryCap * boots

\* The beta count never says more packages were granted than were: creates that
\* race or die can only leave the account a grant to spare
\* (increment_cbt_packages_granted, set_package_cbt).
GrantsNotOvercounted == granted <= Cardinality(Coded)

\* However requests race and processes restart: packages, the compiles they buy and
\* the beta's count stay within their caps (packages.py, db.py:684).
CompileCapsHeld == PackagesBounded /\ CompilesBounded /\ GrantsNotOvercounted
=============================================================================
