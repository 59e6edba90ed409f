---------------------------- MODULE SessionRaces ----------------------------
(***************************************************************************)
(* The session handlers of SessionLifecycle, split at their database calls: *)
(* FastAPI runs them on a thread pool, each call is one PostgREST request,   *)
(* and what a handler read may be stale when it writes.                      *)
(*                                                                          *)
(* The package is open and ready throughout, so only the rows matter.        *)
(***************************************************************************)
EXTENDS Naturals, FiniteSets, FiniteSetsExt

CONSTANTS
  Handlers,   \* worker threads serving a request each
  Total,      \* sessions the package sells
  MintCap, ResumeCap, ScoreCap,
  MaxIndex    \* bound: row indices the model can represent

ASSUME RacesConstants ==
  /\ IsFiniteSet(Handlers)
  /\ Total \in Nat \ {0}
  /\ MintCap \in Nat \ {0}
  /\ ResumeCap \in Nat \ {0}
  /\ ScoreCap \in Nat \ {0}
  /\ MaxIndex \in Nat /\ MaxIndex >= Total

VARIABLES
  \* sessions table
  status, mints, heartbeat, clock,
  \* worker memory
  resumes,    \* resume_attempts, saturating one past its cap
  scores,     \* score_attempts, likewise
  waiting,    \* scoring tasks of each row that wait for the slot
  running,    \* the row whose task holds the slot, or NoRow
  pc,         \* what each handler does next
  row,        \* the row each handler works on
  snap,       \* the statuses create_session listed
  seen,       \* the mint count increment_secret_mints read
  \* history
  runs,       \* scoring tasks ever started by complete, per row
  rearms      \* re-armings, per row

tableVars   == <<status, mints, heartbeat, clock>>
taskVars    == <<waiting, running>>
handlerVars == <<pc, row, snap, seen>>
historyVars == <<runs, rearms>>
vars == <<tableVars, resumes, scores, taskVars, handlerVars, historyVars>>

----------------------------------------------------------------------------
Slots == 1..MaxIndex
NoRow == 0

ResumeCounted == {"failed", "insufficient", "abandoned"}
Retriable     == {"planned"} \union ResumeCounted
SlotConsuming == {"scoring", "scored", "failed_permanent"}
SettledStatus == {"scored", "failed", "insufficient", "failed_permanent"}
Status        == Retriable \union SlotConsuming

\* In a handler's list: the row as the retry loop leaves it behind.
RetiredHere == "retired here"

Live(i) ==
  /\ status[i] = "planned" /\ mints[i] >= 1
  /\ clock[i] = "fresh" /\ heartbeat[i] # "stale"

StoppedReporting(i) ==
  /\ status[i] = "planned" /\ mints[i] >= 1
  /\ clock[i] = "fresh" /\ heartbeat[i] = "stale"

\* bump(...) returns the new count, under the counter's lock; it stops counting
\* one past the cap, where only "over the cap" is asked of it.
Bumped(count, cap) == IF count > cap THEN count ELSE count + 1

\* Wrong variant for RunsBounded and RearmsBounded: the old count is compared.
AdmitsOneMore(count, cap) == count <= cap
Admits(count, cap) == count + 1 <= cap

Init ==
  /\ status    = [i \in Slots |-> "none"]
  /\ mints     = [i \in Slots |-> 0]
  /\ heartbeat = [i \in Slots |-> "null"]
  /\ clock     = [i \in Slots |-> "fresh"]
  /\ resumes   = [i \in Slots |-> 0]
  /\ scores    = [i \in Slots |-> 0]
  /\ waiting   = [i \in Slots |-> 0]
  /\ running   = NoRow
  /\ pc        = [h \in Handlers |-> "idle"]
  /\ row       = [h \in Handlers |-> NoRow]
  /\ snap      = [h \in Handlers |-> status]
  /\ seen      = [h \in Handlers |-> 0]
  /\ runs      = [i \in Slots |-> 0]
  /\ rearms    = [i \in Slots |-> 0]

At(h, label) == pc[h] = label

\* The handler moves on, with its row; its list and its read are kept while it
\* still needs them.
Goto(h, label, i) ==
  /\ pc' = [pc EXCEPT ![h] = label]
  /\ row' = [row EXCEPT ![h] = i]

\* The handler answers its request and forgets what it read.
Answers(h) ==
  /\ Goto(h, "idle", NoRow)
  /\ snap' = [snap EXCEPT ![h] = [i \in Slots |-> "none"]]
  /\ seen' = [seen EXCEPT ![h] = 0]

----------------------------------------------------------------------------
(* POST /api/sessions *)

ListedRetriable(h) == {i \in Slots : snap[h][i] \in Retriable}
First(h, i) == i \in ListedRetriable(h) /\ \A k \in ListedRetriable(h) : i <= k
LoopIsOver(h) == ListedRetriable(h) = {}
RetiredSome(h) == \E i \in Slots : snap[h][i] = RetiredHere

ListedRows(h) == {i \in Slots : snap[h][i] # "none"}
ListedUsed(h) == {i \in Slots : snap[h][i] \in SlotConsuming}

\* list_sessions, and the live-session refusal on what it returned.
CreateLists(h) ==
  /\ At(h, "idle")
  /\ \A i \in Slots : ~Live(i)
  /\ Goto(h, "retry loop", NoRow)
  /\ snap' = [snap EXCEPT ![h] = status]
  /\ UNCHANGED <<tableVars, resumes, scores, taskVars, seen, historyVars>>

\* The lowest retriable row was planned when listed: it is the answer.
CreateHandsBack(h) ==
  /\ At(h, "retry loop")
  /\ \E i \in Slots : First(h, i) /\ snap[h][i] = "planned"
  /\ Answers(h)
  /\ UNCHANGED <<tableVars, resumes, scores, taskVars, historyVars>>

\* resume_attempts.bump decides: one more attempt, or retire the row.
CreateCounts(h) ==
  /\ At(h, "retry loop")
  /\ \E i \in Slots :
       /\ First(h, i) /\ snap[h][i] \in ResumeCounted
       /\ resumes' = [resumes EXCEPT ![i] = Bumped(@, ResumeCap)]
       /\ Goto(h, IF Admits(resumes[i], ResumeCap) THEN "rearm" ELSE "retire", i)
  /\ UNCHANGED <<tableVars, scores, taskVars, snap, seen, historyVars>>

\* rearm_session: one update by id, whatever the row says by now.
CreateRearms(h) ==
  /\ At(h, "rearm")
  /\ status' = [status EXCEPT ![row[h]] = "planned"]
  /\ mints' = [mints EXCEPT ![row[h]] = 0]
  /\ heartbeat' = [heartbeat EXCEPT ![row[h]] = "null"]
  /\ rearms' = [rearms EXCEPT ![row[h]] = @ + 1]
  /\ Answers(h)
  /\ UNCHANGED <<clock, resumes, scores, taskVars, runs>>

\* set_session_status(TERMINAL_STATUS) and the touch; the loop goes on.
CreateRetires(h) ==
  /\ At(h, "retire")
  /\ status' = [status EXCEPT ![row[h]] = "failed_permanent"]
  /\ clock' = [clock EXCEPT ![row[h]] = "fresh"]
  /\ snap' = [snap EXCEPT ![h][row[h]] = RetiredHere]
  /\ Goto(h, "retry loop", NoRow)
  /\ UNCHANGED <<mints, heartbeat, resumes, scores, taskVars, seen, historyVars>>

\* Every retriable row was retired: the list is read again.
CreateRelists(h) ==
  /\ At(h, "retry loop") /\ LoopIsOver(h) /\ RetiredSome(h)
  /\ snap' = [snap EXCEPT ![h] = status]
  /\ Goto(h, "insert", NoRow)
  /\ UNCHANGED <<tableVars, resumes, scores, taskVars, seen, historyVars>>

ReadyToInsert(h) ==
  \/ At(h, "insert")
  \/ At(h, "retry loop") /\ LoopIsOver(h) /\ ~RetiredSome(h)

\* A slot is free in the list: insert the index after its last.  The unique key
\* (package_id, index) refuses a row another request inserted meanwhile, and an
\* index past the bound MaxIndex is not represented.
CreateInserts(h) ==
  /\ ReadyToInsert(h)
  /\ Cardinality(ListedUsed(h)) < Total
  /\ LET next == Max({0} \union ListedRows(h)) + 1
     IN  IF next \in Slots /\ status[next] = "none"
         THEN /\ status' = [status EXCEPT ![next] = "planned"]
              /\ clock' = [clock EXCEPT ![next] = "fresh"]
         ELSE UNCHANGED <<status, clock>>
  /\ Answers(h)
  /\ UNCHANGED <<mints, heartbeat, resumes, scores, taskVars, historyVars>>

CreateRefuses(h) ==
  /\ ReadyToInsert(h)
  /\ Cardinality(ListedUsed(h)) >= Total
  /\ Answers(h)
  /\ UNCHANGED <<tableVars, resumes, scores, taskVars, historyVars>>

CreateSession(h) ==
  \/ CreateLists(h) \/ CreateHandsBack(h) \/ CreateCounts(h) \/ CreateRearms(h)
  \/ CreateRetires(h) \/ CreateRelists(h) \/ CreateInserts(h) \/ CreateRefuses(h)

----------------------------------------------------------------------------
(* POST /api/sessions/{id}/complete *)

CompleteReads(h, i) ==
  /\ At(h, "idle") /\ status[i] \in Retriable
  /\ Goto(h, "complete", i)
  /\ UNCHANGED <<tableVars, resumes, scores, taskVars, snap, seen, historyVars>>

CompleteCounts(h) ==
  /\ At(h, "complete")
  /\ scores' = [scores EXCEPT ![row[h]] = Bumped(@, ScoreCap)]
  /\ Goto(h, IF Admits(scores[row[h]], ScoreCap) THEN "score" ELSE "close", row[h])
  /\ UNCHANGED <<tableVars, resumes, taskVars, snap, seen, historyVars>>

CompleteScores(h) ==
  /\ At(h, "score")
  /\ status' = [status EXCEPT ![row[h]] = "scoring"]
  /\ clock' = [clock EXCEPT ![row[h]] = "fresh"]
  /\ waiting' = [waiting EXCEPT ![row[h]] = @ + 1]
  /\ runs' = [runs EXCEPT ![row[h]] = @ + 1]
  /\ Answers(h)
  /\ UNCHANGED <<mints, heartbeat, resumes, scores, running, rearms>>

CompleteCloses(h) ==
  /\ At(h, "close")
  /\ status' = [status EXCEPT ![row[h]] = "failed_permanent"]
  /\ clock' = [clock EXCEPT ![row[h]] = "fresh"]
  /\ Answers(h)
  /\ UNCHANGED <<mints, heartbeat, resumes, scores, taskVars, historyVars>>

CompleteSession(h) ==
  \/ \E i \in Slots : CompleteReads(h, i)
  \/ CompleteCounts(h) \/ CompleteScores(h) \/ CompleteCloses(h)

----------------------------------------------------------------------------
(* The room: secret-mint, heartbeat, reclaim *)

\* The status check, on a row read before the counter moves.
MintReads(h, i) ==
  /\ At(h, "idle") /\ status[i] = "planned"
  /\ Goto(h, "mint", i)
  /\ UNCHANGED <<tableVars, resumes, scores, taskVars, snap, seen, historyVars>>

\* increment_secret_mints is a select ...
MintSelects(h) ==
  /\ At(h, "mint")
  /\ seen' = [seen EXCEPT ![h] = mints[row[h]]]
  /\ Goto(h, "minting", row[h])
  /\ UNCHANGED <<tableVars, resumes, scores, taskVars, snap, historyVars>>

\* ... and an update of the number it read; the touch follows.
MintUpdates(h) ==
  /\ At(h, "minting")
  /\ LET count == seen[h] + 1
     IN  mints' = [mints EXCEPT ![row[h]] = IF count > MintCap THEN MintCap ELSE count]
  /\ clock' = [clock EXCEPT ![row[h]] = "fresh"]
  /\ Answers(h)
  /\ UNCHANGED <<status, heartbeat, resumes, scores, taskVars, historyVars>>

\* touch_session_heartbeat: one update, conditional on "planned".
Heartbeat(i) ==
  /\ status[i] = "planned"
  /\ heartbeat' = [heartbeat EXCEPT ![i] = "fresh"]
  /\ UNCHANGED <<status, mints, clock, resumes, scores, taskVars, handlerVars, historyVars>>

ReclaimReads(h, i) ==
  /\ At(h, "idle") /\ StoppedReporting(i)
  /\ Goto(h, "reclaim", i)
  /\ UNCHANGED <<tableVars, resumes, scores, taskVars, snap, seen, historyVars>>

\* Wrong variant for ReclaimedWasSilent: the update trusts the row it read.
ReclaimUnconditionally(h) ==
  /\ At(h, "reclaim")
  /\ status' = [status EXCEPT ![row[h]] = IF @ = "planned" THEN "abandoned" ELSE @]
  /\ Answers(h)
  /\ UNCHANGED <<mints, heartbeat, clock, resumes, scores, taskVars, historyVars>>

\* reclaim_session: one update, conditional on a planned row still silent.
ReclaimUpdates(h) ==
  /\ At(h, "reclaim")
  /\ status' = [status EXCEPT ![row[h]] =
       IF @ = "planned" /\ heartbeat[row[h]] = "stale" THEN "abandoned" ELSE @]
  /\ Answers(h)
  /\ UNCHANGED <<mints, heartbeat, clock, resumes, scores, taskVars, historyVars>>

Room(h) ==
  \/ \E i \in Slots : MintReads(h, i) \/ ReclaimReads(h, i)
  \/ MintSelects(h) \/ MintUpdates(h) \/ ReclaimUpdates(h)

----------------------------------------------------------------------------
(* Scoring tasks, as far as they write statuses *)

TaskWrites(i, st) ==
  /\ status' = [status EXCEPT ![i] = st]
  /\ clock' = [clock EXCEPT ![i] = "fresh"]

TaskRefused(i) ==
  /\ waiting[i] > 0
  /\ waiting' = [waiting EXCEPT ![i] = @ - 1]
  /\ IF status[i] \in SettledStatus THEN UNCHANGED <<status, clock>> ELSE TaskWrites(i, "failed")
  /\ UNCHANGED <<mints, heartbeat, resumes, scores, running, handlerVars, historyVars>>

TaskBegins(i) ==
  /\ waiting[i] > 0 /\ running = NoRow
  /\ waiting' = [waiting EXCEPT ![i] = @ - 1]
  /\ running' = i
  /\ TaskWrites(i, "scoring")
  /\ UNCHANGED <<mints, heartbeat, resumes, scores, handlerVars, historyVars>>

TaskEnds(i) ==
  /\ running = i
  /\ running' = NoRow
  /\ \E outcome \in {"scored", "insufficient", "failed"} : TaskWrites(i, outcome)
  /\ UNCHANGED <<mints, heartbeat, resumes, scores, waiting, handlerVars, historyVars>>

GoesSilent(i) ==
  /\ status[i] = "planned" /\ heartbeat[i] = "fresh"
  /\ heartbeat' = [heartbeat EXCEPT ![i] = "stale"]
  /\ UNCHANGED <<status, mints, clock, resumes, scores, taskVars, handlerVars, historyVars>>

RoomClockAges(i) ==
  /\ status[i] = "planned" /\ clock[i] = "fresh"
  /\ clock' = [clock EXCEPT ![i] = "pastCut"]
  /\ UNCHANGED <<status, mints, heartbeat, resumes, scores, taskVars, handlerVars, historyVars>>

----------------------------------------------------------------------------
Next ==
  \/ \E h \in Handlers : CreateSession(h) \/ CompleteSession(h) \/ Room(h)
  \/ \E i \in Slots :
       \/ Heartbeat(i) \/ TaskRefused(i) \/ TaskBegins(i) \/ TaskEnds(i)
       \/ GoesSilent(i) \/ RoomClockAges(i)

Spec == Init /\ [][Next]_vars

Label ==
  {"idle", "retry loop", "rearm", "retire", "insert", "complete", "score", "close",
   "mint", "minting", "reclaim"}

TypeOK ==
  /\ status \in [Slots -> Status \union {"none"}]
  /\ mints \in [Slots -> 0..MintCap]
  /\ heartbeat \in [Slots -> {"null", "fresh", "stale"}]
  /\ clock \in [Slots -> {"fresh", "pastCut"}]
  /\ resumes \in [Slots -> 0..(ResumeCap + 1)]
  /\ scores \in [Slots -> 0..(ScoreCap + 1)]
  /\ waiting \in [Slots -> Nat]
  /\ running \in Slots \union {NoRow}
  /\ pc \in [Handlers -> Label]
  /\ row \in [Handlers -> Slots \union {NoRow}]
  /\ snap \in [Handlers -> [Slots -> Status \union {"none", RetiredHere}]]
  /\ seen \in [Handlers -> 0..MintCap]
  /\ runs \in [Slots -> Nat]
  /\ rearms \in [Slots -> Nat]

\* However completes race, one worker process starts at most ScoreCap scoring
\* runs on a row: the counter is bumped under its lock before the row is written
\* (complete_session, AttemptCounter).
RunsBounded == \A i \in Slots : runs[i] <= ScoreCap

\* However starts race, one worker process re-arms a row at most ResumeCap times
\* (create_session, AttemptCounter).
RearmsBounded == \A i \in Slots : rearms[i] <= ResumeCap

\* Neither counter is passed by requests that race it.
CapsHeld == RunsBounded /\ RearmsBounded

\* A room is taken away by a reclaim only if it is still silent when the update
\* lands, however long ago the request read it (reclaim_session).
ReclaimedWasSilent ==
  [][\A i \in Slots :
       status[i] = "planned" /\ status'[i] = "abandoned" => heartbeat[i] = "stale"]_vars

----------------------------------------------------------------------------
(* What a comment of the code says, and an interleaving refutes. *)

\* The quota chokepoint (create_session): no more rows than the package sells.
QuotaHeld == Cardinality({i \in Slots : status[i] # "none"}) <= Total
=============================================================================
