------------------------- MODULE SessionSeriesProofs -------------------------
(***************************************************************************)
(* Proofs about SessionLifecycle, for every value of its constants, and    *)
(* about SessionSeries and its pages, for every rubric, every bank of      *)
(* questions, every total and every cap.  The series refines the lifecycle *)
(* of its rows, so what is proved of SessionLifecycle holds of it.  Then   *)
(* about the waiting tab and the forms that the session run sets beside it.*)
(***************************************************************************)
EXTENDS SeriesPages, MCSessionLifecycle, FiniteSetTheorems, WellFoundedInduction, TLAPS

-----------------------------------------------------------------------------
(* The rows of one package (SessionLifecycle).                             *)

\* A counter stays between zero and its cap (AttemptCounter and the mint count).
LEMMA BumpType ==
  ASSUME NEW cap \in Nat, NEW count \in 0..cap
  PROVE  Bump(count, cap) \in 0..cap
  BY DEF Bump

\* The three functions create_session's retry loop writes have the columns' types.
LEMMA RetiringType ==
  ASSUME TypeOK, NEW gone
  PROVE  /\ StatusAfterRetiring(gone) \in [Slots -> Status \union {"none"}]
         /\ Touched(gone) \in [Slots -> {"fresh", "pastCut", "pastReap"}]
         /\ Charged(gone) \in [Slots -> 0..ResumeCap]
  <1>1. StatusAfterRetiring(gone) \in [Slots -> Status \union {"none"}]
    BY DEF StatusAfterRetiring, TypeOK, Status, SlotConsuming
  <1>2. Touched(gone) \in [Slots -> {"fresh", "pastCut", "pastReap"}]
    BY DEF Touched, TypeOK
  <1>3. \A i \in Slots : Bump(resumes[i], ResumeCap) \in 0..ResumeCap
    BY BumpType, LifecycleConstants DEF TypeOK
  <1>4. Charged(gone) \in [Slots -> 0..ResumeCap]
    BY <1>3 DEF Charged, TypeOK
  <1>5. QED BY <1>1, <1>2, <1>4

\* One handler, job stage, reaper pass, restart or tick keeps every type.
LEMMA TypeInductive == TypeOK /\ [Next]_vars => TypeOK'
  <1> SUFFICES ASSUME TypeOK, [Next]_vars PROVE TypeOK'
    OBVIOUS
  <1> USE DEF packageVars, columnVars, processVars, rowsBesideStatus, besideJobs
  <1>1. CASE Unlock \/ Expire \/ PayAgain \/ CompileSettles
    BY <1>1 DEF TypeOK, Unlock, Expire, PayAgain, CompileSettles
  <1>2. CASE CreateSession
    <2>1. ASSUME NEW i \in Slots, HandBack(i) PROVE TypeOK'
      BY <1>2, <2>1, RetiringType, LifecycleConstants
         DEF TypeOK, CreateSession, HandBack, Status, Retriable
    <2>2. CASE InsertNext
      BY <1>2, <2>2, RetiringType
         DEF TypeOK, CreateSession, InsertNext, Status, Retriable
    <2>3. CASE RefuseNext
      BY <1>2, <2>3, RetiringType DEF TypeOK, CreateSession, RefuseNext
    <2>4. QED BY <1>2, <2>1, <2>2, <2>3 DEF CreateSession
  <1>3. ASSUME NEW i \in Slots, MintSecret(i) PROVE TypeOK'
    <2>1. Bump(mints[i], MintCap) \in 0..MintCap
      BY BumpType, LifecycleConstants DEF TypeOK
    <2>2. QED BY <1>3, <2>1 DEF TypeOK, MintSecret
  <1>4. ASSUME NEW i \in Slots, Heartbeat(i) \/ Reclaim(i) PROVE TypeOK'
    BY <1>4 DEF TypeOK, Heartbeat, Reclaim, Status, Retriable
  <1>5. ASSUME NEW i \in Slots, Complete(i) PROVE TypeOK'
    <2>1. Bump(scores[i], ScoreCap) \in 0..ScoreCap
      BY BumpType, LifecycleConstants DEF TypeOK
    <2>2. QED
      BY <1>5, <2>1 DEF TypeOK, Complete, CompleteQuick, CompleteRetires,
                        CompleteScores, Status, SlotConsuming, Stage
  <1>6. ASSUME NEW j \in Jobs, JobStep(j) PROVE TypeOK'
    <2> USE DEF TypeOK, JobWrites, JobEnds, Status, SlotConsuming, Retriable, Stage
    <2>1. CASE JobRefused(j)           BY <2>1 DEF JobRefused
    <2>2. CASE JobBegins(j)            BY <2>2 DEF JobBegins, ScoringStage
    <2>3. CASE JobAdvances(j)          BY <2>3 DEF JobAdvances
    <2>4. CASE JobFindsTooLong(j)      BY <2>4 DEF JobFindsTooLong
    <2>5. CASE JobFindsInsufficient(j) BY <2>5 DEF JobFindsInsufficient
    <2>6. CASE JobSavesReport(j)       BY <2>6 DEF JobSavesReport
    <2>7. CASE JobFinishes(j)          BY <2>7 DEF JobFinishes
    <2>8. CASE JobFails(j)             BY <2>8 DEF JobFails
    <2>9. CASE JobIsLost(j)            BY <2>9 DEF JobIsLost
    <2>10. QED
      BY <1>6, <2>1, <2>2, <2>3, <2>4, <2>5, <2>6, <2>7, <2>8, <2>9 DEF JobStep
  <1>7. CASE Reap
    BY <1>7 DEF TypeOK, Reap, ReapStuck, Touched, Status, Retriable
  <1>8. CASE Restart
    BY <1>8, LifecycleConstants
       DEF TypeOK, Restart, ReapStuck, Touched, Status, Retriable, Stage
  <1>9. ASSUME NEW i \in Slots,
               HeartbeatGoesStale(i) \/ RoomClockAges(i) \/ ScoringClockAges(i)
        PROVE TypeOK'
    BY <1>9 DEF TypeOK, HeartbeatGoesStale, RoomClockAges, ScoringClockAges
  <1>10. CASE UNCHANGED vars
    BY <1>10 DEF TypeOK, vars
  <1>11. QED
    BY <1>1, <1>2, <1>3, <1>4, <1>5, <1>6, <1>7, <1>8, <1>9, <1>10 DEF Next

\* Every variable keeps its type through every handler, job stage, reaper pass,
\* restart and tick.
THEOREM TypeCorrect == Spec => []TypeOK
  <1>1. Init => TypeOK
    BY LifecycleConstants DEF Init, TypeOK, Slots, Stage
  <1>2. QED BY <1>1, TypeInductive, PTL DEF Spec

----------------------------------------------------------------------------
QuotaInv == TypeOK /\ DenseRows /\ JobsHaveRows

\* What a package exposes is a number the index bound leaves room for.
LEMMA EffectiveTotalType ==
  ASSUME TypeOK
  PROVE  EffectiveTotal \in 0..Total
  BY LifecycleConstants DEF EffectiveTotal, TypeOK

\* A step that creates and removes no row, and points every outstanding task at
\* a row, keeps the invariant.
LEMMA RowsKept ==
  ASSUME QuotaInv, TypeOK',
         \A i \in Slots : Exists(i)' <=> Exists(i),
         EffectiveTotal' >= EffectiveTotal \/ Rows = {},
         \A j \in Jobs : stage'[j] # "idle" =>
            \/ Exists(target'[j])
            \/ stage[j] # "idle" /\ target'[j] = target[j]
  PROVE  QuotaInv'
  <1> USE DEF QuotaInv
  <1>1. Rows' = Rows
    BY DEF Rows
  <1>2. EffectiveTotal \in Nat /\ EffectiveTotal' \in Nat
    BY EffectiveTotalType, LifecycleConstants DEF EffectiveTotal, TypeOK
  <1>3. DenseRows'
    <2>1. PICK n \in 0..EffectiveTotal : Rows = 1..n
      BY DEF DenseRows
    <2>2. CASE EffectiveTotal' >= EffectiveTotal
      BY <1>1, <1>2, <2>1, <2>2 DEF DenseRows
    <2>3. CASE Rows = {}
      <3>1. Rows' = 1..0
        BY <1>1, <2>3
      <3>2. QED BY <1>2, <3>1 DEF DenseRows
    <2>4. QED BY <2>2, <2>3
  <1>4. JobsHaveRows'
    BY DEF JobsHaveRows, TypeOK
  <1>5. QED BY <1>3, <1>4

\* With nothing to hand back, every row is spent once the retiring is done, so a
\* free slot means the next index is within the total.
LEMMA NextIndexFits ==
  ASSUME QuotaInv, Resumable = {}, ~Exhausted(OutOfResumes)
  PROVE  \E n \in Nat : /\ Rows = 1..n
                        /\ n + 1 <= EffectiveTotal
                        /\ NextIndex = n + 1
  <1> USE DEF QuotaInv
  <1>1. PICK n \in 0..EffectiveTotal : Rows = 1..n
    BY DEF DenseRows
  <1>2. EffectiveTotal \in Nat
    BY EffectiveTotalType, LifecycleConstants
  <1>3. Used(StatusAfterRetiring(OutOfResumes)) = Rows
    <2>1. \A i \in Slots : Exists(i) => status[i] \in SlotConsuming \/ i \in OutOfResumes
      BY LifecycleConstants
         DEF Resumable, OutOfResumes, Exists, Planned, TypeOK, Status, Retriable,
             ResumeCounted
    <2>2. \A i \in OutOfResumes : Exists(i)
      BY DEF OutOfResumes, Exists, ResumeCounted
    <2>3. QED
      BY <2>1, <2>2 DEF Used, Rows, StatusAfterRetiring, SlotConsuming, Exists, TypeOK
  <1>4. Cardinality(Rows) = n
    BY <1>1, <1>2, FS_Interval
  <1>5. n < EffectiveTotal
    BY <1>1, <1>2, <1>3, <1>4 DEF Exhausted
  <1>6. Max({0} \union Rows) = n
    <2>1. n \in {0} \union Rows /\ \A y \in {0} \union Rows : n >= y
      BY <1>1, <1>2
    <2>2. \A x \in {0} \union Rows :
            (\A y \in {0} \union Rows : x >= y) => x = n
      BY <1>1, <1>2
    <2>3. QED BY <2>1, <2>2 DEF Max
  <1>7. QED BY <1>1, <1>2, <1>5, <1>6 DEF NextIndex


\* Every step but an insert leaves the set of rows alone.
LEMMA QuotaInductive == QuotaInv /\ [Next]_vars => QuotaInv'
  <1> SUFFICES ASSUME QuotaInv, [Next]_vars PROVE QuotaInv'
    OBVIOUS
  <1>t. TypeOK'
    BY TypeInductive DEF QuotaInv
  <1>e. EffectiveTotal \in Nat
    BY EffectiveTotalType, LifecycleConstants DEF QuotaInv
  <1> USE <1>t, <1>e DEF packageVars, columnVars, processVars, rowsBesideStatus, besideJobs
  <1>1. CASE Unlock \/ Expire \/ PayAgain \/ CompileSettles
    <2>1. /\ \A i \in Slots : Exists(i)' <=> Exists(i)
          /\ \A j \in Jobs : stage'[j] = stage[j] /\ target'[j] = target[j]
      BY <1>1 DEF Unlock, Expire, PayAgain, CompileSettles, Exists
    <2>2. EffectiveTotal' >= EffectiveTotal
      BY <1>1, LifecycleConstants
         DEF Unlock, Expire, PayAgain, CompileSettles, EffectiveTotal
    <2>3. QED BY <2>1, <2>2, RowsKept
  <1>2. CASE CreateSession
    <2>1. /\ EffectiveTotal' = EffectiveTotal
          /\ stage' = stage
          /\ target' = target
      BY <1>2 DEF CreateSession, EffectiveTotal
    <2>2. \A gone : gone \subseteq OutOfResumes =>
             \A i \in Slots : StatusAfterRetiring(gone)[i] # "none" <=> Exists(i)
      BY DEF StatusAfterRetiring, OutOfResumes, ResumeCounted, Exists
    <2>3. ASSUME NEW i \in Slots, HandBack(i) PROVE QuotaInv'
      <3>1. Exists(i)
        BY <2>3 DEF HandBack, Resumable, Planned, ResumeCounted, Exists
      <3>2. \A k \in Slots : Exists(k)' <=> Exists(k)
        BY <2>2, <2>3, <3>1 DEF HandBack, Exists, StatusAfterRetiring
      <3>3. QED BY <2>1, <3>2, RowsKept
    <2>4. CASE RefuseNext
      <3>1. \A k \in Slots : Exists(k)' <=> Exists(k)
        BY <2>2, <2>4 DEF RefuseNext, Exists
      <3>2. QED BY <2>1, <3>1, RowsKept
    <2>5. CASE InsertNext
      <3>1. PICK n \in Nat : /\ Rows = 1..n
                             /\ n + 1 <= EffectiveTotal
                             /\ NextIndex = n + 1
        BY <2>5, NextIndexFits DEF InsertNext
      <3>2. n + 1 \in Slots
        BY <2>5, <3>1 DEF InsertNext
      <3>3. \A k \in Slots : Exists(k)' <=> Exists(k) \/ k = n + 1
        BY <2>2, <2>5, <3>1 DEF InsertNext, Exists, StatusAfterRetiring
      <3>4. Rows' = 1..(n + 1)
        BY <3>1, <3>2, <3>3 DEF Rows
      <3>5. DenseRows'
        BY <2>1, <3>1, <3>4 DEF DenseRows
      <3>6. JobsHaveRows'
        BY <2>1, <3>3 DEF JobsHaveRows, QuotaInv, TypeOK
      <3>7. QED BY <3>5, <3>6 DEF QuotaInv
    <2>6. QED BY <1>2, <2>3, <2>4, <2>5 DEF CreateSession
  <1>3. ASSUME NEW i \in Slots, MintSecret(i) \/ Heartbeat(i) \/ Reclaim(i)
        PROVE QuotaInv'
    <2>1. /\ \A k \in Slots : Exists(k)' <=> Exists(k)
          /\ EffectiveTotal' = EffectiveTotal
          /\ \A j \in Jobs : stage'[j] = stage[j] /\ target'[j] = target[j]
      BY <1>3 DEF MintSecret, Heartbeat, Reclaim, StoppedReporting, Planned, Exists,
                  EffectiveTotal, QuotaInv, TypeOK
    <2>2. QED BY <2>1, RowsKept
  <1>4. ASSUME NEW i \in Slots, Complete(i) PROVE QuotaInv'
    <2>1. Exists(i)
      BY <1>4 DEF Complete, CompleteQuick, CompleteRetires, CompleteScores,
                  Completable, Retriable, Exists
    <2>2. /\ \A k \in Slots : Exists(k)' <=> Exists(k)
          /\ EffectiveTotal' = EffectiveTotal
      <3>1. \E st \in Status : status' = [status EXCEPT ![i] = st]
        BY <1>4 DEF Complete, CompleteQuick, CompleteRetires, CompleteScores,
                    Status, SlotConsuming
      <3>2. UNCHANGED <<quick, access>>
        BY <1>4 DEF Complete, CompleteQuick, CompleteRetires, CompleteScores
      <3>3. QED
        BY <2>1, <3>1, <3>2 DEF Exists, EffectiveTotal, QuotaInv, TypeOK, Status,
                                Retriable, SlotConsuming
    <2>3. \A j \in Jobs : stage'[j] # "idle" =>
            target'[j] = i \/ (stage[j] # "idle" /\ target'[j] = target[j])
      <3>1. CASE CompleteQuick(i)
        BY <3>1 DEF CompleteQuick
      <3>2. CASE CompleteRetires(i)
        BY <3>2 DEF CompleteRetires
      <3>3. CASE CompleteScores(i)
        BY <3>3 DEF CompleteScores, QuotaInv, TypeOK
      <3>4. QED BY <1>4, <3>1, <3>2, <3>3 DEF Complete
    <2>4. QED BY <2>1, <2>2, <2>3, RowsKept
  <1>5. ASSUME NEW j \in Jobs, JobStep(j) PROVE QuotaInv'
    <2>1. Exists(target[j]) /\ target[j] \in Slots
      BY <1>5 DEF JobStep, JobRefused, JobBegins, JobAdvances, JobFindsTooLong,
                  JobFindsInsufficient, JobSavesReport, JobFinishes, JobFails, JobIsLost,
                  Running, Pipeline, JobsHaveRows, QuotaInv, TypeOK
    <2>2. \/ UNCHANGED status
          \/ \E st \in Status : status' = [status EXCEPT ![target[j]] = st]
      BY <1>5 DEF JobStep, JobRefused, JobBegins, JobAdvances, JobFindsTooLong,
                  JobFindsInsufficient, JobSavesReport, JobFinishes, JobFails, JobIsLost,
                  JobWrites, Status, Retriable, SlotConsuming
    <2>3. "none" \notin Status
      BY DEF Status, Retriable, SlotConsuming
    <2>4. \A k \in Slots : Exists(k)' <=> Exists(k)
      BY <2>1, <2>2, <2>3 DEF Exists, QuotaInv, TypeOK
    <2>5. UNCHANGED <<quick, access, target>>
      BY <1>5 DEF JobStep, JobRefused, JobBegins, JobAdvances, JobFindsTooLong,
                  JobFindsInsufficient, JobSavesReport, JobFinishes, JobFails, JobIsLost
    <2>6. \E st : stage' = [stage EXCEPT ![j] = st]
      BY <1>5 DEF JobStep, JobRefused, JobBegins, JobAdvances, JobFindsTooLong,
                  JobFindsInsufficient, JobSavesReport, JobFinishes, JobFails, JobIsLost,
                  JobEnds
    <2>7. \A k \in Jobs : stage'[k] # "idle" =>
            Exists(target'[k]) \/ (stage[k] # "idle" /\ target'[k] = target[k])
      BY <2>1, <2>5, <2>6 DEF QuotaInv, TypeOK
    <2>9. EffectiveTotal' = EffectiveTotal
      BY <2>5 DEF EffectiveTotal
    <2>8. QED BY <2>4, <2>7, <2>9, RowsKept
  <1>6. CASE Reap \/ Restart
    <2>1. \A k \in Slots : Exists(k)' <=> Exists(k)
      BY <1>6 DEF Reap, Restart, ReapStuck, Stuck, Exists
    <2>2. /\ EffectiveTotal' = EffectiveTotal
          /\ target' = target
          /\ \A j \in Jobs : stage'[j] = "idle" \/ stage'[j] = stage[j]
      BY <1>6 DEF Reap, Restart, EffectiveTotal
    <2>3. QED BY <2>1, <2>2, RowsKept
  <1>7. ASSUME NEW i \in Slots,
               HeartbeatGoesStale(i) \/ RoomClockAges(i) \/ ScoringClockAges(i)
        PROVE QuotaInv'
    <2>1. UNCHANGED <<quick, access, status, stage, target>>
      BY <1>7 DEF HeartbeatGoesStale, RoomClockAges, ScoringClockAges
    <2>2. /\ \A k \in Slots : Exists(k)' <=> Exists(k)
          /\ EffectiveTotal' = EffectiveTotal
      BY <2>1 DEF Exists, EffectiveTotal
    <2>3. QED BY <2>1, <2>2, RowsKept
  <1>8. CASE UNCHANGED vars
    <2>1. /\ \A k \in Slots : Exists(k)' <=> Exists(k)
          /\ EffectiveTotal' = EffectiveTotal
          /\ stage' = stage /\ target' = target
      BY <1>8 DEF vars, Exists, EffectiveTotal
    <2>2. QED BY <2>1, RowsKept
  <1>9. QED
    BY <1>1, <1>2, <1>3, <1>4, <1>5, <1>6, <1>7, <1>8 DEF Next

\* The quota invariant holds throughout.
LEMMA QuotaAlways == Spec => []QuotaInv
  <1>1. Init => QuotaInv
    <2> SUFFICES ASSUME Init PROVE QuotaInv
      OBVIOUS
    <2>1. TypeOK
      BY LifecycleConstants DEF Init, TypeOK, Slots, Stage
    <2>2. Rows = 1..0 /\ 0 \in 0..EffectiveTotal
      BY <2>1, EffectiveTotalType, LifecycleConstants DEF Init, Rows, Exists
    <2>3. QED BY <2>1, <2>2 DEF QuotaInv, DenseRows, JobsHaveRows, Init
  <1>2. QED BY <1>1, QuotaInductive, PTL DEF Spec

\* A package never holds more session rows than it sells, for every total, every
\* cap, any number of tasks and restarts, and stages of any length.
THEOREM QuotaHolds == Spec => []QuotaHeld
  <1>1. QuotaInv => QuotaHeld
    BY EffectiveTotalType, LifecycleConstants
       DEF QuotaInv, DenseRows, QuotaHeld, Rows, Slots
  <1>2. QED BY <1>1, QuotaAlways, PTL

----------------------------------------------------------------------------
SpendInv == TypeOK /\ SpendLedger

\* The two facts of arithmetic the ledger needs: a larger number of resumes buys
\* no fewer secrets, and one more buys MintCap more.
LEMMA MintCapTimes ==
  /\ \A a \in Nat : MintCap * a \in Nat
  /\ \A a \in Nat : MintCap * (a + 1) = MintCap * a + MintCap
  /\ \A a, b \in Nat : a <= b => MintCap * a <= MintCap * b
  <1>1. MintCap \in Nat
    BY LifecycleConstants
  <1>2. \A a \in Nat : MintCap * a \in Nat
    BY <1>1
  <1>3. \A a \in Nat : MintCap * (a + 1) = MintCap * a + MintCap
    BY <1>1
  <1>4. ASSUME NEW a \in Nat, NEW b \in Nat, a <= b
        PROVE  MintCap * a <= MintCap * b
    <2>1. PICK d \in Nat : b = a + d
      <3>1. b - a \in Nat /\ b = a + (b - a)
        BY <1>4
      <3>2. QED BY <3>1
    <2>2. MintCap * b = MintCap * a + MintCap * d
      BY <1>1, <2>1
    <2>3. QED BY <1>2, <2>2
  <1>5. QED BY <1>2, <1>3, <1>4

\* Counted resumes a row may have had so far.
Bought(i) == ResumeCap * (boots - 1) + resumes[i]

\* It is a number.
LEMMA BoughtType ==
  ASSUME TypeOK, NEW i \in Slots
  PROVE  Bought(i) \in Nat
  <1>1. boots - 1 \in Nat /\ ResumeCap \in Nat /\ resumes[i] \in Nat
    BY LifecycleConstants DEF TypeOK
  <1>2. ResumeCap * (boots - 1) \in Nat
    BY <1>1
  <1>3. QED BY <1>1, <1>2 DEF Bought

\* The same after a step.
LEMMA BoughtTypeNext ==
  ASSUME TypeOK', NEW i \in Slots
  PROVE  Bought(i)' \in Nat
  <1>1. boots' \in 1..MaxBoots /\ resumes'[i] \in 0..ResumeCap
    BY DEF TypeOK
  <1>2. ResumeCap \in Nat /\ MaxBoots \in Nat
    BY LifecycleConstants
  <1>a. \A b \in 1..MaxBoots : b - 1 \in Nat
    BY <1>2
  <1>b. boots' - 1 \in Nat
    BY <1>1, <1>a
  <1>c. resumes'[i] \in Nat
    BY <1>1, <1>2
  <1>3. \A b \in Nat : ResumeCap * b \in Nat
    BY <1>2
  <1>d. ResumeCap * (boots' - 1) \in Nat
    BY <1>b, <1>3
  <1>4. QED BY <1>c, <1>d DEF Bought

\* A row whose mint count stands and whose resumes do not fall keeps its ledger.
LEMMA LedgerKept ==
  ASSUME TypeOK, TypeOK', NEW i \in Slots,
         granted[i] <= MintCap * Bought(i) + mints[i],
         granted'[i] = granted[i],
         Bought(i) <= Bought(i)',
         mints'[i] = mints[i]
  PROVE  granted'[i] <= MintCap * Bought(i)' + mints'[i]
  <1>1. Bought(i) \in Nat /\ Bought(i)' \in Nat
    <2>1. Bought(i) \in Nat
      BY BoughtType
    <2>2. Bought(i)' \in Nat
      BY BoughtTypeNext
    <2>3. QED BY <2>1, <2>2
  <1>2. MintCap * Bought(i) <= MintCap * Bought(i)'
    BY <1>1, MintCapTimes
  <1>3. MintCap * Bought(i) \in Nat /\ MintCap * Bought(i)' \in Nat
    BY <1>1, MintCapTimes
  <1>4. mints[i] \in Nat /\ granted[i] \in Nat
    BY LifecycleConstants DEF TypeOK
  <1>5. QED BY <1>2, <1>3, <1>4

\* A counted resume never lowers the counter, and costs one while the counter is
\* below its cap.
LEMMA ChargedCounts ==
  ASSUME TypeOK, NEW rows, NEW i \in Slots
  PROVE  /\ resumes[i] <= Charged(rows)[i]
         /\ i \in rows /\ resumes[i] < ResumeCap
              => Charged(rows)[i] = resumes[i] + 1
  BY LifecycleConstants DEF TypeOK, Charged, Bump

\* Only a mint adds to granted, only a resume of this row clears its mint count,
\* and only a restart clears the counters.
LEMMA SpendInductive == SpendInv /\ [Next]_vars => SpendInv'
  <1> SUFFICES ASSUME SpendInv, [Next]_vars PROVE SpendInv'
    OBVIOUS
  <1> USE DEF SpendInv, packageVars, columnVars, processVars, rowsBesideStatus,
              besideJobs
  <1>t. TypeOK'
    BY TypeInductive
  <1>l. \A i \in Slots : granted[i] <= MintCap * Bought(i) + mints[i]
    BY DEF SpendLedger, Bought
  <1>n. \A i \in Slots : /\ mints[i] \in 0..MintCap /\ granted[i] \in Nat
                         /\ resumes[i] \in 0..ResumeCap
                         /\ Bought(i) \in Nat /\ MintCap * Bought(i) \in Nat
    BY BoughtType, MintCapTimes DEF TypeOK
  <1>c. MintCap \in Nat /\ ResumeCap \in Nat
    BY LifecycleConstants
  <1>s. SUFFICES \A i \in Slots : granted'[i] <= MintCap * Bought(i)' + mints'[i]
    BY <1>t DEF SpendLedger, Bought
  <1>k. ASSUME UNCHANGED <<granted, mints, resumes, boots>>
        PROVE  \A i \in Slots : granted'[i] <= MintCap * Bought(i)' + mints'[i]
    BY <1>k, <1>l DEF Bought
  <1>1. CASE Unlock \/ Expire \/ PayAgain \/ CompileSettles
    BY <1>1, <1>k DEF Unlock, Expire, PayAgain, CompileSettles
  <1>2. CASE CreateSession
    <2>1. UNCHANGED <<granted, boots>>
      BY <1>2 DEF CreateSession
    <2>2. ASSUME NEW gone, resumes' = Charged(gone), mints' = mints
          PROVE  \A i \in Slots : granted'[i] <= MintCap * Bought(i)' + mints'[i]
      <3> TAKE i \in Slots
      <3>1. Bought(i) <= Bought(i)'
        <4>1. resumes[i] <= resumes'[i]
          BY <2>2, ChargedCounts
        <4>2. ResumeCap * (boots - 1) \in Int /\ boots' = boots
          BY <1>c, <2>1 DEF TypeOK
        <4>3. resumes[i] \in Int /\ resumes'[i] \in Int
          BY <1>t, <1>n DEF TypeOK
        <4>4. QED BY <4>1, <4>2, <4>3 DEF Bought
      <3>2. QED BY <1>t, <1>l, <2>1, <2>2, <3>1, LedgerKept
    <2>3. CASE InsertNext
      BY <2>2, <2>3 DEF InsertNext
    <2>4. CASE RefuseNext
      BY <2>2, <2>4 DEF RefuseNext
    <2>5. ASSUME NEW k \in Slots, HandBack(k)
          PROVE  \A i \in Slots : granted'[i] <= MintCap * Bought(i)' + mints'[i]
      <3>1. CASE Planned(k)
        <4>1. mints' = mints
          BY <2>5, <3>1 DEF HandBack, TypeOK
        <4>2. \E gone : resumes' = Charged(gone)
          BY <2>5, <3>1 DEF HandBack
        <4>3. QED BY <2>2, <4>1, <4>2
      <3>2. CASE ~Planned(k)
        <4>1. resumes' = Charged({r \in OutOfResumes : r < k} \union {k})
          BY <2>5, <3>2 DEF HandBack
        <4>2. resumes[k] < ResumeCap
          BY <2>5, <3>2 DEF HandBack, Resumable
        <4>3. mints' = [mints EXCEPT ![k] = 0]
          BY <2>5, <3>2 DEF HandBack
        <4>4. ASSUME NEW i \in Slots
              PROVE  granted'[i] <= MintCap * Bought(i)' + mints'[i]
          <5>1. ResumeCap * (boots - 1) \in Int /\ boots' = boots
            BY <1>c, <2>1 DEF TypeOK
          <5>2. resumes[i] \in Int /\ resumes'[i] \in Int
            BY <1>t, <1>n DEF TypeOK
          <5>3. CASE i # k
            <6>1. resumes[i] <= resumes'[i]
              BY <4>1, ChargedCounts
            <6>2. Bought(i) <= Bought(i)'
              BY <5>1, <5>2, <6>1 DEF Bought
            <6>3. mints'[i] = mints[i]
              BY <4>3, <5>3 DEF TypeOK
            <6>4. QED BY <1>t, <1>l, <2>1, <6>2, <6>3, LedgerKept
          <5>4. CASE i = k
            <6>1. resumes'[i] = resumes[i] + 1
              BY <4>1, <4>2, <5>4, ChargedCounts
            <6>2. Bought(i)' = Bought(i) + 1
              BY <5>1, <5>2, <6>1 DEF Bought
            <6>3. MintCap * Bought(i)' = MintCap * Bought(i) + MintCap
              BY <1>n, <6>2, MintCapTimes
            <6>4. mints'[i] = 0
              BY <4>3, <5>4 DEF TypeOK
            <6>5. QED BY <1>c, <1>l, <1>n, <2>1, <6>3, <6>4
          <5>5. QED BY <5>3, <5>4
        <4>5. QED BY <4>4
      <3>3. QED BY <3>1, <3>2
    <2>6. QED BY <1>2, <2>3, <2>4, <2>5 DEF CreateSession
  <1>3. ASSUME NEW k \in Slots, MintSecret(k)
        PROVE  \A i \in Slots : granted'[i] <= MintCap * Bought(i)' + mints'[i]
    <2> TAKE i \in Slots
    <2>1. Bought(i)' = Bought(i)
      BY <1>3 DEF MintSecret, Bought
    <2>2. CASE i = k
      BY <1>3, <1>c, <1>l, <1>n, <2>1, <2>2 DEF MintSecret, Bump, TypeOK
    <2>3. CASE i # k
      BY <1>3, <1>l, <2>1, <2>3 DEF MintSecret, TypeOK
    <2>4. QED BY <2>2, <2>3
  <1>4. ASSUME NEW k \in Slots,
               \/ Heartbeat(k) \/ Reclaim(k) \/ Complete(k) \/ HeartbeatGoesStale(k)
               \/ RoomClockAges(k) \/ ScoringClockAges(k)
        PROVE  \A i \in Slots : granted'[i] <= MintCap * Bought(i)' + mints'[i]
    <2>1. UNCHANGED <<granted, mints, resumes, boots>>
      BY <1>4 DEF Heartbeat, Reclaim, Complete, CompleteQuick, CompleteRetires,
                  CompleteScores, HeartbeatGoesStale, RoomClockAges, ScoringClockAges
    <2>2. QED BY <1>k, <2>1
  <1>5. ASSUME NEW j \in Jobs, JobStep(j)
        PROVE  \A i \in Slots : granted'[i] <= MintCap * Bought(i)' + mints'[i]
    <2>1. UNCHANGED <<granted, mints, resumes, boots>>
      BY <1>5 DEF JobStep, JobRefused, JobBegins, JobAdvances, JobFindsTooLong,
                  JobFindsInsufficient, JobSavesReport, JobFinishes, JobFails, JobIsLost
    <2>2. QED BY <1>k, <2>1
  <1>6. CASE Reap
    BY <1>6, <1>k DEF Reap
  <1>7. CASE Restart
    <2> TAKE i \in Slots
    <2>1. Bought(i)' = ResumeCap * boots
      <3>1. resumes'[i] = 0 /\ boots' = boots + 1
        BY <1>7 DEF Restart
      <3>2. (boots + 1) - 1 = boots /\ ResumeCap * boots \in Nat
        BY <1>c, LifecycleConstants DEF TypeOK
      <3>3. QED BY <3>1, <3>2 DEF Bought
    <2>2. ResumeCap * boots = ResumeCap * (boots - 1) + ResumeCap
      BY <1>c, LifecycleConstants DEF TypeOK
    <2>3. Bought(i) <= Bought(i)'
      <3>1. ResumeCap * (boots - 1) \in Int
        BY <1>c, LifecycleConstants DEF TypeOK
      <3>2. QED BY <1>c, <1>n, <2>1, <2>2, <3>1 DEF Bought
    <2>4. UNCHANGED <<granted, mints>>
      BY <1>7 DEF Restart
    <2>5. QED BY <1>t, <1>l, <2>3, <2>4, LedgerKept
  <1>8. CASE UNCHANGED vars
    BY <1>8, <1>k DEF vars
  <1>9. QED
    BY <1>1, <1>2, <1>3, <1>4, <1>5, <1>6, <1>7, <1>8 DEF Next

\* The realtime secrets approved for a row are bounded by the caps and the number
\* of worker processes, however often the row is reclaimed, failed and resumed.
THEOREM SpendHolds == Spec => []SpendBounded
  <1>1. Init => SpendInv
    <2> SUFFICES ASSUME Init PROVE SpendInv
      OBVIOUS
    <2>1. TypeOK
      BY LifecycleConstants DEF Init, TypeOK, Slots, Stage
    <2>2. MintCap * (ResumeCap * (1 - 1) + 0) \in Nat
      BY LifecycleConstants
    <2>3. SpendLedger
      BY <2>2 DEF Init, SpendLedger
    <2>4. QED BY <2>1, <2>3 DEF SpendInv
  <1>2. SpendInv => SpendBounded
    <2> SUFFICES ASSUME SpendInv, NEW i \in Slots
                 PROVE  granted[i] <= MintCap * (1 + ResumeCap * boots)
      BY DEF SpendBounded
    <2>1. granted[i] <= MintCap * Bought(i) + mints[i]
      BY DEF SpendInv, SpendLedger, Bought
    <2>2. Bought(i) \in Nat
      BY BoughtType DEF SpendInv
    <2>3. ResumeCap * boots = ResumeCap * (boots - 1) + ResumeCap
      BY LifecycleConstants DEF SpendInv, TypeOK
    <2>4. ResumeCap * boots \in Nat /\ ResumeCap * (boots - 1) \in Nat
      BY LifecycleConstants DEF SpendInv, TypeOK
    <2>5. Bought(i) <= ResumeCap * boots
      BY <2>3, <2>4, LifecycleConstants DEF SpendInv, TypeOK, Bought
    <2>6. MintCap * Bought(i) <= MintCap * (ResumeCap * boots)
      BY <2>2, <2>4, <2>5, MintCapTimes
    <2>7. MintCap * (ResumeCap * boots + 1) = MintCap * (ResumeCap * boots) + MintCap
      BY <2>4, MintCapTimes
    <2>8. mints[i] <= MintCap /\ mints[i] \in Nat /\ granted[i] \in Nat /\ MintCap \in Nat
      BY LifecycleConstants DEF SpendInv, TypeOK
    <2>9. 1 + ResumeCap * boots = ResumeCap * boots + 1
      BY <2>4
    <2>10. MintCap * Bought(i) \in Nat /\ MintCap * (ResumeCap * boots) \in Nat
      BY <2>2, <2>4, MintCapTimes
    <2>11. QED BY <2>1, <2>6, <2>7, <2>8, <2>9, <2>10
  <1>3. QED BY <1>1, <1>2, SpendInductive, PTL DEF Spec

----------------------------------------------------------------------------
(* The scoring job: what it owns while it runs and what it leaves behind. *)

\* The statuses a complete or a resume starts from are none of those a spent row
\* or a working task has.
LEMMA StatusesDiffer ==
  /\ Retriable \intersect SlotConsuming = {}
  /\ ResumeCounted \subseteq Retriable
  /\ "none" \notin Status
  BY DEF Retriable, SlotConsuming, ResumeCounted, Status

\* The row create_session inserts is new.
LEMMA NextIsNew ==
  ASSUME QuotaInv, Resumable = {}, ~Exhausted(OutOfResumes), NextIndex \in Slots
  PROVE  ~Exists(NextIndex)
  <1>1. PICK n \in Nat : Rows = 1..n /\ NextIndex = n + 1
    BY NextIndexFits
  <1>2. NextIndex \notin Rows
    BY <1>1
  <1>3. QED BY <1>2 DEF Rows

\* create_session moves no row but those it finds retriable and the new one, and
\* leaves every other clock alone.
LEMMA CreateMovesRetriable ==
  ASSUME QuotaInv, CreateSession, NEW i \in Slots,
         status[i] \in SlotConsuming
  PROVE  status'[i] = status[i] /\ clock'[i] = clock[i]
  <1>1. i \notin OutOfResumes /\ i \notin Resumable
    BY StatusesDiffer DEF OutOfResumes, Resumable, Planned, Retriable
  <1>2. \A gone : gone \subseteq OutOfResumes =>
          /\ StatusAfterRetiring(gone)[i] = status[i]
          /\ Touched(gone)[i] = clock[i]
    BY <1>1 DEF StatusAfterRetiring, Touched
  <1>3. ASSUME NEW k \in Slots, HandBack(k)
        PROVE  status'[i] = status[i] /\ clock'[i] = clock[i]
    <2>1. k # i
      BY <1>1, <1>3 DEF HandBack
    <2>2. status'[i] = StatusAfterRetiring({r \in OutOfResumes : r < k})[i]
      BY <1>3, <2>1 DEF HandBack, StatusAfterRetiring
    <2>3. clock'[i] = Touched({r \in OutOfResumes : r < k})[i]
      BY <1>3 DEF HandBack
    <2>4. QED BY <1>2, <2>2, <2>3
  <1>4. CASE InsertNext
    <2>1. NextIndex # i
      BY <1>4, NextIsNew, StatusesDiffer DEF InsertNext, Exists, Status
    <2>2. status'[i] = StatusAfterRetiring(OutOfResumes)[i]
      BY <1>4, <2>1 DEF InsertNext, StatusAfterRetiring
    <2>3. clock'[i] = clock[i]
      BY <1>1, <1>4, <2>1 DEF InsertNext, Touched
    <2>4. QED BY <1>2, <2>2, <2>3
  <1>5. CASE RefuseNext
    BY <1>2, <1>5 DEF RefuseNext
  <1>6. QED BY <1>3, <1>4, <1>5 DEF CreateSession

----------------------------------------------------------------------------
\* A spent slot stays spent: once no task holds a finished row, nothing moves its
\* status again (complete_session's refusals, create_session's retriable set).
THEOREM SettledHolds == Spec => SettledIsFinal
  <1>1. ASSUME QuotaInv, [Next]_vars, NEW i \in Slots,
               status[i] \in SlotConsuming \ {"scoring"}, ~HasJob(i)
        PROVE  status'[i] = status[i]
    <2> USE <1>1 DEF packageVars, columnVars, processVars, rowsBesideStatus, besideJobs
    <2>1. CASE CreateSession
      BY <2>1, CreateMovesRetriable
    <2>2. ASSUME NEW k \in Slots, Complete(k) PROVE status'[i] = status[i]
      <3>1. k # i
        BY <2>2, StatusesDiffer
           DEF Complete, CompleteQuick, CompleteRetires, CompleteScores, Completable
      <3>2. \E st : status' = [status EXCEPT ![k] = st]
        BY <2>2 DEF Complete, CompleteQuick, CompleteRetires, CompleteScores
      <3>3. QED BY <3>1, <3>2
    <2>3. ASSUME NEW k \in Slots, Reclaim(k) PROVE status'[i] = status[i]
      BY <2>3 DEF Reclaim, StoppedReporting, Planned, SlotConsuming
    <2>4. ASSUME NEW j \in Jobs, JobStep(j) PROVE status'[i] = status[i]
      <3>1. stage[j] # "idle"
        BY <2>4 DEF JobStep, JobRefused, JobBegins, JobAdvances, JobFindsTooLong,
                    JobFindsInsufficient, JobSavesReport, JobFinishes, JobFails,
                    JobIsLost, Running, Pipeline
      <3>2. target[j] # i
        BY <3>1 DEF HasJob
      <3>3. status' = status \/ \E st : status' = [status EXCEPT ![target[j]] = st]
        BY <2>4 DEF JobStep, JobRefused, JobBegins, JobAdvances, JobFindsTooLong,
                    JobFindsInsufficient, JobSavesReport, JobFinishes, JobFails,
                    JobIsLost, JobWrites
      <3>4. QED BY <3>2, <3>3 DEF QuotaInv, TypeOK
    <2>5. CASE Reap \/ Restart
      BY <2>5 DEF Reap, Restart, ReapStuck, Stuck
    <2>6. CASE Unlock \/ Expire \/ PayAgain \/ CompileSettles \/ UNCHANGED vars
      BY <2>6 DEF Unlock, Expire, PayAgain, CompileSettles, vars
    <2>7. ASSUME NEW k \in Slots,
                 \/ MintSecret(k) \/ Heartbeat(k) \/ HeartbeatGoesStale(k)
                 \/ RoomClockAges(k) \/ ScoringClockAges(k)
          PROVE  status'[i] = status[i]
      BY <2>7 DEF MintSecret, Heartbeat, HeartbeatGoesStale, RoomClockAges,
                  ScoringClockAges
    <2>8. QED
      BY <2>1, <2>2, <2>3, <2>4, <2>5, <2>6, <2>7 DEF Next
  <1>2. QuotaInv /\ [Next]_vars =>
          [\A i \in Slots : (status[i] \in SlotConsuming \ {"scoring"} /\ ~HasJob(i))
                               => status'[i] = status[i]]_vars
    BY <1>1
  <1>3. QED BY <1>2, QuotaAlways, PTL DEF Spec, SettledIsFinal

----------------------------------------------------------------------------
\* Why ScoredHasReport is inductive: a task that has saved its report found the
\* row it wrote it to, and no writer clears a report.
ReportInv ==
  /\ TypeOK
  /\ ScoredHasReport
  /\ \A j \in Jobs : stage[j] = "saved" => report[target[j]]

\* A step that writes no "scored" and moves no task into "saved" keeps it.
LEMMA ReportKept ==
  ASSUME ReportInv, TypeOK',
         report' = report,
         \A i \in Slots : status'[i] = "scored" => status[i] = "scored",
         \A j \in Jobs : stage'[j] = "saved" =>
            stage[j] = "saved" /\ target'[j] = target[j]
  PROVE  ReportInv'
  BY DEF ReportInv, ScoredHasReport, TypeOK

\* Every step keeps the report invariant: only a task that has saved the report
\* announces "scored".
LEMMA ReportInductive == ReportInv /\ [Next]_vars => ReportInv'
  <1> SUFFICES ASSUME ReportInv, [Next]_vars PROVE ReportInv'
    OBVIOUS
  <1> USE DEF packageVars, columnVars, processVars, rowsBesideStatus, besideJobs
  <1>t. TypeOK /\ TypeOK'
    BY TypeInductive DEF ReportInv
  <1>1. CASE CreateSession
    <2>1. UNCHANGED <<report, stage, target>>
      BY <1>1 DEF CreateSession
    <2>2. \A gone : \A i \in Slots :
            StatusAfterRetiring(gone)[i] = "scored" => status[i] = "scored"
      BY DEF StatusAfterRetiring
    <2>3. \A gone : StatusAfterRetiring(gone) \in [Slots -> Status \union {"none"}]
      BY <1>t, RetiringType
    <2>4. \A i \in Slots : status'[i] = "scored" => status[i] = "scored"
      <3>1. ASSUME NEW k \in Slots, HandBack(k)
            PROVE  \A i \in Slots : status'[i] = "scored" => status[i] = "scored"
        BY <2>2, <2>3, <3>1 DEF HandBack
      <3>2. CASE InsertNext
        BY <2>2, <2>3, <3>2 DEF InsertNext
      <3>3. CASE RefuseNext
        BY <2>2, <3>3 DEF RefuseNext
      <3>4. QED BY <1>1, <3>1, <3>2, <3>3 DEF CreateSession
    <2>5. QED BY <1>t, <2>1, <2>4, ReportKept
  <1>2. ASSUME NEW k \in Slots, Complete(k) \/ Reclaim(k) PROVE ReportInv'
    <2>1. report' = report
      BY <1>2 DEF Complete, CompleteQuick, CompleteRetires, CompleteScores, Reclaim
    <2>2. \E st : st # "scored" /\ status' = [status EXCEPT ![k] = st]
      BY <1>2 DEF Complete, CompleteQuick, CompleteRetires, CompleteScores, Reclaim
    <2>3. \A i \in Slots : status'[i] = "scored" => status[i] = "scored"
      BY <1>t, <2>2 DEF TypeOK
    <2>4. \A j \in Jobs : stage'[j] = "saved" =>
            stage[j] = "saved" /\ target'[j] = target[j]
      <3>1. CASE CompleteScores(k)
        BY <1>t, <3>1 DEF CompleteScores, TypeOK
      <3>2. CASE ~CompleteScores(k)
        BY <1>2, <3>2 DEF Complete, CompleteQuick, CompleteRetires, Reclaim
      <3>3. QED BY <3>1, <3>2
    <2>5. QED BY <1>t, <2>1, <2>3, <2>4, ReportKept
  <1>3. ASSUME NEW j \in Jobs, JobStep(j) PROVE ReportInv'
    <2>1. target' = target
      BY <1>3 DEF JobStep, JobRefused, JobBegins, JobAdvances, JobFindsTooLong,
                  JobFindsInsufficient, JobSavesReport, JobFinishes, JobFails, JobIsLost
    <2>2. target[j] \in Slots
      BY <1>t DEF TypeOK
    <2>3. CASE JobSavesReport(j)
      <3>1. /\ report' = [report EXCEPT ![target[j]] = TRUE]
            /\ status' = [status EXCEPT ![target[j]] = "scored"]
            /\ stage' = [stage EXCEPT ![j] = "saved"]
        BY <2>3 DEF JobSavesReport
      <3>2. ScoredHasReport'
        BY <1>t, <3>1 DEF ReportInv, ScoredHasReport, TypeOK
      <3>3. \A k \in Jobs : stage'[k] = "saved" => report'[target'[k]]
        BY <1>t, <2>1, <3>1 DEF ReportInv, TypeOK
      <3>4. QED BY <1>t, <3>2, <3>3 DEF ReportInv
    <2>4. CASE JobFinishes(j)
      <3>1. /\ report' = report
            /\ status' = [status EXCEPT ![target[j]] = "scored"]
            /\ stage' = [stage EXCEPT ![j] = "idle"]
            /\ report[target[j]]
        BY <2>4 DEF JobFinishes, JobWrites, JobEnds, ReportInv
      <3>2. ScoredHasReport'
        BY <1>t, <3>1 DEF ReportInv, ScoredHasReport, TypeOK
      <3>3. \A k \in Jobs : stage'[k] = "saved" => report'[target'[k]]
        BY <1>t, <2>1, <3>1 DEF ReportInv, TypeOK
      <3>4. QED BY <1>t, <3>2, <3>3 DEF ReportInv
    <2>5. CASE ~JobSavesReport(j) /\ ~JobFinishes(j)
      <3>1. report' = report
        BY <1>3, <2>5 DEF JobStep, JobRefused, JobBegins, JobAdvances, JobFindsTooLong,
                          JobFindsInsufficient, JobFails, JobIsLost
      <3>2. \/ status' = status
            \/ \E st : st # "scored" /\ status' = [status EXCEPT ![target[j]] = st]
        BY <1>3, <2>5 DEF JobStep, JobRefused, JobBegins, JobAdvances, JobFindsTooLong,
                          JobFindsInsufficient, JobFails, JobIsLost, JobWrites
      <3>3. \E st : st # "saved" /\ stage' = [stage EXCEPT ![j] = st]
        BY <1>3, <2>5 DEF JobStep, JobRefused, JobBegins, JobAdvances, JobFindsTooLong,
                          JobFindsInsufficient, JobFails, JobIsLost, JobEnds, ScoringStage
      <3>4. \A i \in Slots : status'[i] = "scored" => status[i] = "scored"
        BY <1>t, <2>2, <3>2 DEF TypeOK
      <3>5. \A k \in Jobs : stage'[k] = "saved" =>
              stage[k] = "saved" /\ target'[k] = target[k]
        BY <1>t, <2>1, <3>3 DEF TypeOK
      <3>6. QED BY <1>t, <3>1, <3>4, <3>5, ReportKept
    <2>6. QED BY <2>3, <2>4, <2>5
  <1>4. CASE Reap \/ Restart
    <2>1. report' = report /\ target' = target
      BY <1>4 DEF Reap, Restart
    <2>2. \A i \in Slots : status'[i] = "scored" => status[i] = "scored"
      BY <1>4 DEF Reap, Restart, ReapStuck
    <2>3. \A j \in Jobs : stage'[j] = stage[j] \/ stage'[j] = "idle"
      BY <1>4 DEF Reap, Restart
    <2>4. QED BY <1>t, <2>1, <2>2, <2>3, ReportKept
  <1>5. ASSUME \/ Unlock \/ Expire \/ PayAgain \/ CompileSettles \/ UNCHANGED vars
               \/ \E i \in Slots : \/ MintSecret(i) \/ Heartbeat(i)
                                   \/ HeartbeatGoesStale(i) \/ RoomClockAges(i)
                                   \/ ScoringClockAges(i)
        PROVE  ReportInv'
    <2>1. UNCHANGED <<report, status, stage, target>>
      BY <1>5 DEF Unlock, Expire, PayAgain, CompileSettles, vars, MintSecret, Heartbeat,
                  HeartbeatGoesStale, RoomClockAges, ScoringClockAges
    <2>2. QED BY <1>t, <2>1, ReportKept
  <1>6. QED
    BY <1>1, <1>2, <1>3, <1>4, <1>5 DEF Next

\* "scored" is never seen without the report behind it, for any interleaving of
\* tasks, however many, with reaping, re-arming and restarts.
THEOREM ReportHolds == Spec => []ScoredHasReport
  <1>1. Init => ReportInv
    <2> SUFFICES ASSUME Init PROVE ReportInv
      OBVIOUS
    <2>1. TypeOK
      BY LifecycleConstants DEF Init, TypeOK, Slots, Stage
    <2>2. QED BY <2>1 DEF Init, ReportInv, ScoredHasReport
  <1>2. ReportInv => ScoredHasReport
    BY DEF ReportInv
  <1>3. QED BY <1>1, <1>2, ReportInductive, PTL DEF Spec

----------------------------------------------------------------------------
\* Why OneJobPerRow is inductive when stages are short: the reaper's window never
\* passes over a row a task works on.
WorkedRowsFresh == \A i \in Slots : HasJob(i) => clock[i] # "pastReap"

JobInv == QuotaInv /\ OneJobPerRow /\ WorkedRowsFresh

\* A row with a task is "scoring" or "scored".
LEMMA WorkedRowConsumes ==
  ASSUME JobInv, NEW i \in Slots, HasJob(i)
  PROVE  status[i] \in {"scoring", "scored"} /\ status[i] \in SlotConsuming
  <1>1. PICK j \in Jobs : stage[j] # "idle" /\ target[j] = i
    BY DEF HasJob
  <1>2. stage[j] \in Stage
    BY DEF JobInv, QuotaInv, TypeOK
  <1>3. status[i] \in {"scoring", "scored"}
    BY <1>1, <1>2 DEF JobInv, OneJobPerRow, Stage
  <1>4. QED BY <1>3 DEF SlotConsuming

\* A step that leaves the tasks, their rows and those rows' clocks alone keeps it.
LEMMA TasksKept ==
  ASSUME JobInv, QuotaInv', stage' = stage, target' = target,
         \A i \in Slots : HasJob(i) =>
            status'[i] = status[i] /\ clock'[i] # "pastReap"
  PROVE  JobInv'
  <1>1. \A i \in Slots : HasJob(i)' <=> HasJob(i)
    BY DEF HasJob
  <1>2. WorkedRowsFresh'
    BY <1>1 DEF WorkedRowsFresh
  <1>3. \A j \in Jobs : stage[j] # "idle" => status'[target[j]] = status[target[j]]
    BY DEF HasJob, JobInv, QuotaInv, TypeOK
  <1>4. OneJobPerRow'
    BY <1>3 DEF JobInv, OneJobPerRow, ScoringStage
  <1>5. QED BY <1>2, <1>4 DEF JobInv

\* A step of one task that writes to no row but its own, and leaves that row as
\* its new stage demands, keeps it.
LEMMA TaskMoves ==
  ASSUME JobInv, QuotaInv', target' = target,
         NEW j \in Jobs, stage[j] # "idle",
         \E st : stage' = [stage EXCEPT ![j] = st],
         \A i \in Slots : i # target[j] =>
            status'[i] = status[i] /\ clock'[i] = clock[i],
         stage'[j] # "idle" => clock'[target[j]] # "pastReap",
         stage'[j] \in ScoringStage \union {"queued"}
            => status'[target[j]] = "scoring",
         stage'[j] = "saved" => status'[target[j]] = "scored"
  PROVE  JobInv'
  <1> USE DEF JobInv
  <1>t. stage \in [Jobs -> Stage] /\ target \in [Jobs -> Slots]
    BY DEF QuotaInv, TypeOK
  <1>1. \A k \in Jobs : k # j => stage'[k] = stage[k]
    BY <1>t
  <1>2. \A k \in Jobs : k # j /\ stage[k] # "idle" => target[k] # target[j]
    BY DEF OneJobPerRow
  <1>3. \A k \in Jobs : k # j /\ stage'[k] # "idle" =>
          /\ stage[k] # "idle"
          /\ status'[target[k]] = status[target[k]]
          /\ clock'[target[k]] = clock[target[k]]
    BY <1>t, <1>1, <1>2
  <1>4. WorkedRowsFresh'
    <2> SUFFICES ASSUME NEW i \in Slots, HasJob(i)' PROVE clock'[i] # "pastReap"
      BY DEF WorkedRowsFresh
    <2>1. PICK k \in Jobs : stage'[k] # "idle" /\ target[k] = i
      BY DEF HasJob
    <2>2. CASE k = j
      BY <2>1, <2>2
    <2>3. CASE k # j
      <3>1. HasJob(i)
        BY <1>3, <2>1, <2>3 DEF HasJob
      <3>2. QED BY <1>3, <2>1, <2>3, <3>1 DEF WorkedRowsFresh
    <2>4. QED BY <2>2, <2>3
  <1>5. OneJobPerRow'
    <2>1. \A k, l \in Jobs :
            stage'[k] # "idle" /\ stage'[l] # "idle" /\ target[k] = target[l] => k = l
      BY <1>2, <1>3 DEF OneJobPerRow
    <2>2. ASSUME NEW k \in Jobs
          PROVE  /\ stage'[k] \in ScoringStage \union {"queued"}
                      => status'[target[k]] = "scoring"
                 /\ stage'[k] = "saved" => status'[target[k]] = "scored"
      <3>1. CASE k = j
        BY <3>1
      <3>2. CASE k # j
        <4>1. CASE stage'[k] = "idle"
          BY <4>1 DEF ScoringStage
        <4>2. CASE stage'[k] # "idle"
          BY <1>1, <1>3, <3>2, <4>2 DEF OneJobPerRow
        <4>3. QED BY <4>1, <4>2
      <3>3. QED BY <3>1, <3>2
    <2>3. QED BY <2>1, <2>2 DEF OneJobPerRow
  <1>6. QED BY <1>4, <1>5

\* complete_session hands a new task a row no task works on.
LEMMA CompleteKeepsJobs ==
  ASSUME JobInv, QuotaInv', NEW i \in Slots, Complete(i)
  PROVE  JobInv'
  <1> USE DEF columnVars, processVars
  <1>t. TypeOK
    BY DEF JobInv, QuotaInv
  <1>1. ~HasJob(i)
    <2>1. status[i] \in Retriable
      BY DEF Complete, CompleteQuick, CompleteRetires, CompleteScores, Completable
    <2>2. QED BY <2>1, StatusesDiffer, WorkedRowConsumes
  <1>2. /\ clock' = [clock EXCEPT ![i] = "fresh"]
        /\ \E st : status' = [status EXCEPT ![i] = st]
    BY DEF Complete, CompleteQuick, CompleteRetires, CompleteScores
  <1>3. \A k \in Slots : HasJob(k) => status'[k] = status[k] /\ clock'[k] # "pastReap"
    BY <1>t, <1>1, <1>2 DEF TypeOK, JobInv, WorkedRowsFresh
  <1>4. CASE CompleteQuick(i) \/ CompleteRetires(i)
    <2>1. stage' = stage /\ target' = target
      BY <1>4 DEF CompleteQuick, CompleteRetires
    <2>2. QED BY <1>3, <2>1, TasksKept
  <1>5. CASE CompleteScores(i)
    <2>1. PICK j \in Jobs : /\ stage[j] = "idle"
                            /\ stage' = [stage EXCEPT ![j] = "queued"]
                            /\ target' = [target EXCEPT ![j] = i]
      BY <1>5 DEF CompleteScores
    <2>2. status'[i] = "scoring" /\ clock'[i] = "fresh"
      BY <1>t, <1>5 DEF CompleteScores, TypeOK
    <2>3. /\ stage'[j] = "queued" /\ target'[j] = i
          /\ \A k \in Jobs : k # j => stage'[k] = stage[k] /\ target'[k] = target[k]
      BY <1>t, <2>1 DEF TypeOK
    <2>4. \A k \in Jobs : k # j /\ stage[k] # "idle" =>
            target[k] # i /\ HasJob(target[k]) /\ target[k] \in Slots
      BY <1>t, <1>1 DEF HasJob, TypeOK
    <2>5. WorkedRowsFresh'
      <3> SUFFICES ASSUME NEW r \in Slots, HasJob(r)' PROVE clock'[r] # "pastReap"
        BY DEF WorkedRowsFresh
      <3>1. CASE r = i
        BY <2>2, <3>1
      <3>2. CASE r # i
        <4>1. HasJob(r)
          BY <2>3, <3>2 DEF HasJob
        <4>2. QED BY <1>3, <4>1
      <3>3. QED BY <3>1, <3>2
    <2>6. OneJobPerRow'
      <3>1. \A k, l \in Jobs :
              stage'[k] # "idle" /\ stage'[l] # "idle" /\ target'[k] = target'[l]
                => k = l
        BY <2>3, <2>4 DEF JobInv, OneJobPerRow
      <3>2. ASSUME NEW k \in Jobs
            PROVE  /\ stage'[k] \in ScoringStage \union {"queued"}
                        => status'[target'[k]] = "scoring"
                   /\ stage'[k] = "saved" => status'[target'[k]] = "scored"
        <4>1. CASE k = j
          BY <2>2, <2>3, <4>1
        <4>2. CASE k # j /\ stage[k] = "idle"
          BY <2>3, <4>2 DEF ScoringStage
        <4>3. CASE k # j /\ stage[k] # "idle"
          <5>1. status'[target[k]] = status[target[k]]
            BY <1>3, <2>4, <4>3
          <5>2. QED BY <2>3, <4>3, <5>1 DEF JobInv, OneJobPerRow
        <4>4. QED BY <4>1, <4>2, <4>3
      <3>3. QED BY <3>1, <3>2 DEF OneJobPerRow
    <2>7. QED BY <2>5, <2>6 DEF JobInv
  <1>6. QED BY <1>4, <1>5 DEF Complete

\* Every stage of a task leaves its row as the next stage expects it.
LEMMA JobStepKeepsJobs ==
  ASSUME JobInv, QuotaInv', NEW j \in Jobs, JobStep(j)
  PROVE  JobInv'
  <1> USE DEF rowsBesideStatus, besideJobs
  <1>t. TypeOK /\ TypeOK'
    BY DEF JobInv, QuotaInv
  <1>1. stage[j] # "idle"
    BY DEF JobStep, JobRefused, JobBegins, JobAdvances, JobFindsTooLong,
           JobFindsInsufficient, JobSavesReport, JobFinishes, JobFails, JobIsLost,
           Running, Pipeline
  <1>2. target' = target /\ target[j] \in Slots
    BY <1>t DEF JobStep, JobRefused, JobBegins, JobAdvances, JobFindsTooLong,
           JobFindsInsufficient, JobSavesReport, JobFinishes, JobFails, JobIsLost, TypeOK
  <1>3. \E st : stage' = [stage EXCEPT ![j] = st]
    BY DEF JobStep, JobRefused, JobBegins, JobAdvances, JobFindsTooLong,
           JobFindsInsufficient, JobSavesReport, JobFinishes, JobFails, JobIsLost, JobEnds
  <1>4. /\ status' = status \/ \E st : status' = [status EXCEPT ![target[j]] = st]
        /\ clock' = clock \/ clock' = [clock EXCEPT ![target[j]] = "fresh"]
    BY DEF JobStep, JobRefused, JobBegins, JobAdvances, JobFindsTooLong,
           JobFindsInsufficient, JobSavesReport, JobFinishes, JobFails, JobIsLost,
           JobWrites
  <1>5. \A i \in Slots : i # target[j] => status'[i] = status[i] /\ clock'[i] = clock[i]
    BY <1>t, <1>4 DEF TypeOK
  <1>6. HasJob(target[j])
    BY <1>1 DEF HasJob
  <1>7. clock'[target[j]] # "pastReap"
    BY <1>t, <1>2, <1>4, <1>6 DEF TypeOK, JobInv, WorkedRowsFresh
  <1>8. /\ stage'[j] \in ScoringStage \union {"queued"}
             => status'[target[j]] = "scoring"
        /\ stage'[j] = "saved" => status'[target[j]] = "scored"
    <2>1. CASE JobBegins(j)
      BY <1>t, <1>2, <2>1 DEF JobBegins, JobWrites, TypeOK
    <2>2. CASE JobAdvances(j)
      <3>1. stage[j] \in ScoringStage /\ status' = status
        BY <2>2 DEF JobAdvances, Pipeline, ScoringStage
      <3>2. stage'[j] \in ScoringStage
        BY <1>t, <2>2 DEF JobAdvances, TypeOK
      <3>3. QED BY <3>1, <3>2 DEF JobInv, OneJobPerRow, ScoringStage
    <2>3. CASE JobSavesReport(j)
      BY <1>t, <1>2, <2>3 DEF JobSavesReport, TypeOK, ScoringStage
    <2>4. CASE ~JobBegins(j) /\ ~JobAdvances(j) /\ ~JobSavesReport(j)
      <3>1. JobEnds(j)
        BY <2>4 DEF JobStep, JobRefused, JobFindsTooLong, JobFindsInsufficient,
                    JobFinishes, JobFails, JobIsLost
      <3>2. stage'[j] = "idle"
        BY <1>t, <3>1 DEF JobEnds, TypeOK
      <3>3. QED BY <3>2 DEF ScoringStage
    <2>5. QED BY <2>1, <2>2, <2>3, <2>4
  <1>9. QED BY <1>1, <1>2, <1>3, <1>5, <1>7, <1>8, TaskMoves

\* While stages are short, every step keeps the job invariant.
LEMMA JobInductive ==
  ASSUME LongStages = FALSE
  PROVE  JobInv /\ [Next]_vars => JobInv'
  <1> SUFFICES ASSUME JobInv, [Next]_vars PROVE JobInv'
    OBVIOUS
  <1> USE DEF packageVars, columnVars, processVars
  <1>q. QuotaInv /\ QuotaInv' /\ TypeOK
    BY QuotaInductive DEF JobInv, QuotaInv
  <1>f. \A i \in Slots : HasJob(i) => clock[i] # "pastReap" /\ status[i] \in SlotConsuming
    BY WorkedRowConsumes DEF JobInv, WorkedRowsFresh
  <1>1. CASE CreateSession
    <2>1. stage' = stage /\ target' = target
      BY <1>1 DEF CreateSession
    <2>2. \A i \in Slots : HasJob(i) => status'[i] = status[i] /\ clock'[i] # "pastReap"
      BY <1>1, <1>q, <1>f, CreateMovesRetriable
    <2>3. QED BY <1>q, <2>1, <2>2, TasksKept
  <1>2. ASSUME NEW i \in Slots, Complete(i) PROVE JobInv'
    BY <1>2, <1>q, CompleteKeepsJobs
  <1>3. ASSUME NEW j \in Jobs, JobStep(j) PROVE JobInv'
    BY <1>3, <1>q, JobStepKeepsJobs
  <1>4. ASSUME NEW i \in Slots,
               \/ MintSecret(i) \/ Heartbeat(i) \/ Reclaim(i) \/ HeartbeatGoesStale(i)
               \/ RoomClockAges(i)
        PROVE  JobInv'
    <2>1. stage' = stage /\ target' = target
      BY <1>4 DEF MintSecret, Heartbeat, Reclaim, HeartbeatGoesStale, RoomClockAges
    <2>2. ~HasJob(i)
      <3>1. Planned(i)
        BY <1>4 DEF MintSecret, Heartbeat, Reclaim, StoppedReporting, HeartbeatGoesStale,
                    RoomClockAges
      <3>2. QED BY <1>f, <3>1 DEF Planned, SlotConsuming
    <2>3. \A k \in Slots : k # i => status'[k] = status[k] /\ clock'[k] = clock[k]
      BY <1>4, <1>q DEF MintSecret, Heartbeat, Reclaim, HeartbeatGoesStale,
                        RoomClockAges, TypeOK
    <2>4. QED BY <1>q, <1>f, <2>1, <2>2, <2>3, TasksKept
  <1>5. ASSUME NEW i \in Slots, ScoringClockAges(i) PROVE JobInv'
    <2>1. stage' = stage /\ target' = target /\ status' = status
      BY <1>5 DEF ScoringClockAges
    <2>2. ~HasJob(i)
      BY <1>5 DEF ScoringClockAges, HasQueued, HasRunning, Running, HasJob
    <2>3. \A k \in Slots : k # i => clock'[k] = clock[k]
      BY <1>5, <1>q DEF ScoringClockAges, TypeOK
    <2>4. QED BY <1>q, <1>f, <2>1, <2>2, <2>3, TasksKept
  <1>6. CASE Reap
    <2>1. stage' = stage /\ target' = target
      BY <1>6 DEF Reap
    <2>2. \A i \in Slots : HasJob(i) => i \notin Stuck
      BY <1>f DEF Stuck
    <2>3. \A i \in Slots : HasJob(i) => status'[i] = status[i] /\ clock'[i] # "pastReap"
      BY <1>6, <1>f, <2>2 DEF Reap, ReapStuck, Touched
    <2>4. QED BY <1>q, <2>1, <2>3, TasksKept
  <1>7. CASE Restart
    <2>1. \A j \in Jobs : stage'[j] = "idle"
      BY <1>7 DEF Restart
    <2>2. OneJobPerRow' /\ WorkedRowsFresh'
      BY <2>1 DEF OneJobPerRow, WorkedRowsFresh, HasJob, ScoringStage
    <2>3. QED BY <1>q, <2>2 DEF JobInv
  <1>8. CASE Unlock \/ Expire \/ PayAgain \/ CompileSettles \/ UNCHANGED vars
    <2>1. UNCHANGED <<stage, target, status, clock>>
      BY <1>8 DEF Unlock, Expire, PayAgain, CompileSettles, vars
    <2>2. QED BY <1>q, <1>f, <2>1, TasksKept
  <1>9. QED
    BY <1>1, <1>2, <1>3, <1>4, <1>5, <1>6, <1>7, <1>8 DEF Next

\* While stages are short, the job invariant holds throughout.
LEMMA JobAlways ==
  ASSUME LongStages = FALSE
  PROVE  Spec => []JobInv
  <1>1. Init => JobInv
    <2> SUFFICES ASSUME Init PROVE JobInv
      OBVIOUS
    <2>1. TypeOK
      BY LifecycleConstants DEF Init, TypeOK, Slots, Stage
    <2>2. Rows = 1..0 /\ 0 \in 0..EffectiveTotal
      BY <2>1, EffectiveTotalType, LifecycleConstants DEF Init, Rows, Exists
    <2>3. QuotaInv
      BY <2>1, <2>2 DEF QuotaInv, DenseRows, JobsHaveRows, Init
    <2>4. OneJobPerRow /\ WorkedRowsFresh
      BY DEF Init, OneJobPerRow, WorkedRowsFresh, HasJob, ScoringStage
    <2>5. QED BY <2>3, <2>4 DEF JobInv
  <1>2. QED BY <1>1, JobInductive, PTL DEF Spec

\* While stages are shorter than the reaper's window one task at most works on a
\* row, for any number of tasks, rows and restarts.
THEOREM OneJobHolds ==
  ASSUME LongStages = FALSE
  PROVE  Spec => []OneJobPerRow
  <1>1. JobInv => OneJobPerRow
    BY DEF JobInv
  <1>2. QED BY <1>1, JobAlways, PTL

\* While stages are shorter than the reaper's window, a live room is lost only to
\* its own complete: no reclaim, resume, task, reaper pass or restart takes it.
THEOREM LiveRoomHolds ==
  ASSUME LongStages = FALSE
  PROVE  Spec => LiveRoomUndisturbed
  <1>1. ASSUME JobInv, [Next]_vars, NEW i \in Slots, Live(i), ~Complete(i)
        PROVE  Planned(i)'
    <2> USE <1>1 DEF packageVars, columnVars, processVars, rowsBesideStatus, besideJobs
    <2>t. TypeOK
      BY DEF JobInv, QuotaInv
    <2>p. status[i] = "planned"
      BY DEF Live, Planned
    <2>s. SUFFICES status'[i] = status[i]
      BY <2>p DEF Planned
    <2>1. CASE CreateSession
      BY <2>1 DEF CreateSession
    <2>2. ASSUME NEW k \in Slots, Complete(k) PROVE status'[i] = status[i]
      BY <2>t, <2>2 DEF Complete, CompleteQuick, CompleteRetires, CompleteScores, TypeOK
    <2>3. ASSUME NEW k \in Slots, Reclaim(k) PROVE status'[i] = status[i]
      BY <2>t, <2>3 DEF Reclaim, StoppedReporting, Live, TypeOK
    <2>4. ASSUME NEW j \in Jobs, JobStep(j) PROVE status'[i] = status[i]
      <3>1. stage[j] # "idle"
        BY <2>4 DEF JobStep, JobRefused, JobBegins, JobAdvances, JobFindsTooLong,
                    JobFindsInsufficient, JobSavesReport, JobFinishes, JobFails,
                    JobIsLost, Running, Pipeline
      <3>2. target[j] # i
        BY <2>p, <3>1, WorkedRowConsumes DEF HasJob
      <3>3. status' = status \/ \E st : status' = [status EXCEPT ![target[j]] = st]
        BY <2>4 DEF JobStep, JobRefused, JobBegins, JobAdvances, JobFindsTooLong,
                    JobFindsInsufficient, JobSavesReport, JobFinishes, JobFails,
                    JobIsLost, JobWrites
      <3>4. QED BY <2>t, <3>2, <3>3 DEF TypeOK
    <2>5. CASE Reap \/ Restart
      BY <2>p, <2>5 DEF Reap, Restart, ReapStuck, Stuck
    <2>6. CASE Unlock \/ Expire \/ PayAgain \/ CompileSettles \/ UNCHANGED vars
      BY <2>6 DEF Unlock, Expire, PayAgain, CompileSettles, vars
    <2>7. ASSUME NEW k \in Slots,
                 \/ MintSecret(k) \/ Heartbeat(k) \/ HeartbeatGoesStale(k)
                 \/ RoomClockAges(k) \/ ScoringClockAges(k)
          PROVE  status'[i] = status[i]
      BY <2>7 DEF MintSecret, Heartbeat, HeartbeatGoesStale, RoomClockAges,
                  ScoringClockAges
    <2>8. QED
      BY <2>1, <2>2, <2>3, <2>4, <2>5, <2>6, <2>7 DEF Next
  <1>2. JobInv /\ [Next]_vars =>
          [\A i \in Slots : Live(i) => Planned(i)' \/ Complete(i)]_vars
    BY <1>1
  <1>3. QED BY <1>2, JobAlways, PTL DEF Spec, LiveRoomUndisturbed

-----------------------------------------------------------------------------
(* The rows as the planner and the reports fill them (SessionSeries).      *)

\* Every behaviour of the series is one of the lifecycle: the planner and the
\* reports decide what the rows hold, and never which row exists.
THEOREM SeriesIsLifecycle == SeriesSpec => Spec
  <1>1. SeriesInit => Init
    BY DEF SeriesInit
  <1>2. [SeriesNext]_seriesVars => [Next]_vars
    BY DEF SeriesNext, seriesVars
  <1>3. QED BY <1>1, <1>2, PTL DEF SeriesSpec, Spec

\* What the screens need of the rows: the lifecycle's quota invariant, on a
\* package that is not the quick one.
SeriesInv == QuotaInv /\ ~quick

LEMMA KindKept == [Next]_vars => quick' = quick
  <1> SUFFICES ASSUME [Next]_vars PROVE quick' = quick
    OBVIOUS
  <1>1. CASE Unlock \/ Expire \/ PayAgain \/ CompileSettles
    BY <1>1 DEF Unlock, Expire, PayAgain, CompileSettles
  <1>2. CASE CreateSession
    BY <1>2 DEF CreateSession, packageVars
  <1>3. CASE \E i \in Slots : MintSecret(i) \/ Heartbeat(i) \/ Reclaim(i) \/ Complete(i)
    BY <1>3 DEF MintSecret, Heartbeat, Reclaim, Complete, CompleteQuick, CompleteRetires,
                CompleteScores, packageVars
  <1>4. CASE \E j \in Jobs : JobStep(j)
    BY <1>4 DEF JobStep, JobRefused, JobBegins, JobAdvances, JobFindsTooLong,
                JobFindsInsufficient, JobSavesReport, JobFinishes, JobFails, JobIsLost,
                besideJobs, packageVars
  <1>5. CASE Reap \/ Restart
    BY <1>5 DEF Reap, Restart, packageVars
  <1>6. CASE \E i \in Slots : HeartbeatGoesStale(i) \/ RoomClockAges(i) \/ ScoringClockAges(i)
    BY <1>6 DEF HeartbeatGoesStale, RoomClockAges, ScoringClockAges, packageVars
  <1>7. CASE UNCHANGED vars
    BY <1>7 DEF vars, packageVars
  <1>8. QED BY <1>1, <1>2, <1>3, <1>4, <1>5, <1>6, <1>7 DEF Next

LEMMA SeriesInvAlways == SeriesSpec => []SeriesInv
  <1>1. SeriesSpec => []QuotaInv
    BY SeriesIsLifecycle, QuotaAlways, PTL
  <1>2. SeriesInit => ~quick
    BY DEF SeriesInit
  <1>3. ~quick /\ [SeriesNext]_seriesVars => (~quick)'
    BY KindKept DEF SeriesNext, seriesVars
  <1>4. QED BY <1>1, <1>2, <1>3, PTL DEF SeriesSpec, SeriesInv

-----------------------------------------------------------------------------
\* The probe of a row is its index's turn in the list, from its insertion on: no
\* step rewrites the plan of a row that exists.
MomentInv == \A i \in Slots : Exists(i) => plan[i].probe = Turn(i, 0, Probes)

LEMMA MomentInductive == MomentInv /\ [SeriesNext]_seriesVars => MomentInv'
  <1> SUFFICES ASSUME MomentInv, [SeriesNext]_seriesVars,
                      NEW i \in Slots, Exists(i)'
               PROVE  plan'[i].probe = Turn(i, 0, Probes)
    BY DEF MomentInv
  <1>1. CASE SeriesNext /\ ~Exists(i)
    <2>1. plan'[i] = Plans(i)
      BY <1>1 DEF SeriesNext
    <2>2. QED BY <2>1 DEF Plans, plan_baseline_session
  <1>2. CASE SeriesNext /\ Exists(i)
    <2>1. plan'[i] = plan[i]
      BY <1>2 DEF SeriesNext
    <2>2. QED BY <1>2, <2>1 DEF MomentInv
  <1>3. CASE UNCHANGED seriesVars
    BY <1>3 DEF seriesVars, vars, columnVars, Exists, MomentInv
  <1>4. QED BY <1>1, <1>2, <1>3

\* Turning by nothing is standing still, within one round.
LEMMA ProbeOfIndex ==
  ASSUME NEW i \in 1 .. Probes
  PROVE  Turn(i, 0, Probes) = i
  BY FallbackAssumption DEF Turn

\* No two sessions of a package share their pressure moment, for any number of
\* sessions up to the number of probes.
THEOREM MomentsDiffer == SeriesSpec => []NoMomentTwice
  <1>1. SeriesInit => MomentInv
    BY DEF SeriesInit, Init, MomentInv, Exists
  <1>2. SeriesInv /\ MomentInv => NoMomentTwice
    <2> SUFFICES ASSUME SeriesInv, MomentInv, Total <= Probes,
                        NEW i \in Rows, NEW j \in Rows, plan[i].probe = plan[j].probe
                 PROVE  i = j
      BY DEF NoMomentTwice
    <2>1. i \in 1 .. Probes /\ j \in 1 .. Probes
      BY EffectiveTotalType, LifecycleConstants, FallbackAssumption
         DEF SeriesInv, QuotaInv, DenseRows
    <2>2. plan[i].probe = i /\ plan[j].probe = j
      BY <2>1, ProbeOfIndex DEF MomentInv, Rows
    <2>3. QED BY <2>2
  <1>3. QED BY <1>1, <1>2, MomentInductive, SeriesInvAlways, PTL DEF SeriesSpec

-----------------------------------------------------------------------------
\* The room page and the mint agree on when an interview can start.
THEOREM StartCardHolds == SeriesSpec => []StartCardIsLive
  <1>1. SeriesInv => StartCardIsLive
    BY DEF SeriesInv, QuotaInv, TypeOK, StartCardIsLive, RoomScreen, Planned, RoomIsClosed
  <1>2. QED BY <1>1, SeriesInvAlways, PTL

-----------------------------------------------------------------------------
\* With no row to hand back or to retire, every row is spent.
LEMMA AllSpent ==
  ASSUME SeriesInv, Resumable = {}, OutOfResumes = {}
  PROVE  /\ StatusAfterRetiring(OutOfResumes) = status
         /\ Used(status) = Rows
         /\ \A i \in Rows : status[i] # "abandoned"
  <1>1. StatusAfterRetiring(OutOfResumes) = status
    BY DEF SeriesInv, QuotaInv, TypeOK, StatusAfterRetiring
  <1>2. \A i \in Rows : status[i] \in SlotConsuming
    BY LifecycleConstants
       DEF SeriesInv, QuotaInv, TypeOK, Status, Retriable, ResumeCounted, Resumable,
           OutOfResumes, Rows, Exists, Planned
  <1>3. Used(status) = Rows
    BY <1>2 DEF Used, Rows, Exists, SlotConsuming
  <1>4. QED BY <1>1, <1>2, <1>3 DEF SlotConsuming

\* A series of rows that are all settled has no next session.
LEMMA SettledHasNoNext ==
  ASSUME NEW st, DOMAIN st = 1..Total, \A i \in 1..Total : st[i] \notin Open
  PROVE  nextSessionNumber(st, Total) = 0
  <1>1. Total \in Nat
    BY LifecycleConstants
  <1>2. Max({0} \union (1..Total)) = Total
    <2>1. Total \in {0} \union (1..Total) /\ \A y \in {0} \union (1..Total) : Total >= y
      BY <1>1
    <2>2. \A x \in {0} \union (1..Total) :
            (\A y \in {0} \union (1..Total) : x >= y) => x = Total
      BY <1>1
    <2>3. QED BY <2>1, <2>2 DEF Max
  <1> DEFINE owned == DOMAIN st \intersect 1..Total
  <1>3. owned = 1..Total
    OBVIOUS
  <1>4. {i \in owned : st[i] \in Open} = {}
    BY <1>3
  <1>5. ~(Max({0} \union owned) + 1 <= Total)
    <2>1. Max({0} \union owned) = Total
      BY <1>2, <1>3, Zenon
    <2>2. QED BY <1>1, <2>1
  <1>6. QED BY <1>4, <1>5 DEF nextSessionNumber

\* A package whose slots are all spent has no next session on any screen.
LEMMA SpentHasNoNext ==
  ASSUME SeriesInv, Resumable = {}, OutOfResumes = {}, Exhausted(OutOfResumes),
         access # "locked"
  PROVE  /\ nextSessionNumber(ListedRows(St), Total) = 0
         /\ nextSessionNumber(St, Total) = 0
  <1>1. EffectiveTotal = Total /\ Total \in Nat \ {0}
    BY LifecycleConstants DEF SeriesInv, EffectiveTotal
  <1>2. PICK n \in 0..Total : Rows = 1..n
    BY <1>1 DEF SeriesInv, QuotaInv, DenseRows
  <1>3. n = Total
    <2>1. Cardinality(Rows) >= Total
      BY <1>1, AllSpent DEF Exhausted
    <2>2. Cardinality(Rows) = n
      BY <1>1, <1>2, FS_Interval
    <2>3. QED BY <1>1, <1>2, <2>1, <2>2
  <1>4. \A i \in Rows : status[i] \in SlotConsuming
    BY AllSpent DEF Used
  <1>5. DOMAIN St = 1..Total /\ \A i \in 1..Total : St[i] \notin Open
    BY <1>2, <1>3, <1>4 DEF St, Open, SlotConsuming
  <1>6. /\ DOMAIN ListedRows(St) = 1..Total
        /\ \A i \in 1..Total : ListedRows(St)[i] \notin Open
    BY <1>2, <1>3, <1>5, AllSpent DEF ListedRows, St
  <1>7. QED BY <1>5, <1>6, SettledHasNoNext

\* A locked package exposes no session.
LEMMA LockedHasNoNext == nextSessionNumber(ListedRows(St), 0) = 0
  <1> DEFINE owned == DOMAIN ListedRows(St) \intersect 1..0
  <1>1. owned = {}
    OBVIOUS
  <1>2. Max({0} \union owned) = 0
    BY <1>1 DEF Max
  <1>3. {i \in owned : ListedRows(St)[i] \in Open} = {}
    BY <1>1
  <1>4. ~(Max({0} \union owned) + 1 <= 0)
    BY <1>2
  <1>5. QED BY <1>3, <1>4 DEF nextSessionNumber

\* Where the home screen offers to start, and nothing is left to retire, the
\* answer is never that the package is used up.
THEOREM StartHonest == SeriesSpec => []StartIsHonest
  <1>1. SeriesInv => StartIsHonest
    <2> SUFFICES ASSUME SeriesInv, HomeButton = "start", ready,
                        startFailureView(CreateAnswer) = "exhausted",
                        OutOfResumes = {}
                 PROVE  FALSE
      BY DEF StartIsHonest
    <2>1. CreateAnswer \in {"package-exhausted", "package-locked", "package-not-ready"}
      BY DEF startFailureView
    <2>2. access = "locked" \/ (Resumable = {} /\ Exhausted(OutOfResumes))
      BY <2>1 DEF CreateAnswer
    <2>3. nextSessionNumber(ListedRows(St),
                            effectiveTotalSessions(access # "locked", Total)) # 0
      BY DEF HomeButton, HomeAction
    <2>4. CASE access = "locked"
      BY <2>3, <2>4, LockedHasNoNext DEF effectiveTotalSessions
    <2>5. CASE access # "locked"
      BY <2>2, <2>3, <2>5, SpentHasNoNext DEF effectiveTotalSessions
    <2>6. QED BY <2>4, <2>5
  <1>2. QED BY <1>1, SeriesInvAlways, PTL

-----------------------------------------------------------------------------
(* Which session a start gives. *)

\* A non-empty set of naturals has a least element, and Min names it.
LEMMA MinOfNat ==
  ASSUME NEW S \in SUBSET Nat, S # {}
  PROVE  Min(S) \in S /\ \A y \in S : Min(S) <= y
  <1>1. IsWellFoundedOn(OpToRel(<, Nat), Nat)
    BY NatLessThanWellFounded
  <1>2. PICK R : /\ R = {ss \in Nat \X Nat : ss[1] < ss[2]}
                 /\ IsWellFoundedOn(R, Nat)
    BY <1>1, Zenon DEF OpToRel
  <1>3. PICK x \in S : \A y \in S : ~(<<y, x>> \in R)
    BY <1>2, WFMin, Zenon
  <1>4. ASSUME NEW y \in S PROVE x <= y
    <2>1. x \in Nat /\ y \in Nat
      OBVIOUS
    <2>2. y < x => <<y, x>> \in R
      <3> DEFINE p == <<y, x>>
      <3>1. p \in Nat \X Nat /\ p[1] = y /\ p[2] = x
        BY <2>1
      <3>2. y < x => p \in R
        BY <1>2, <3>1
      <3>3. QED BY <3>2
    <2>3. QED BY <1>3, <2>1, <2>2
  <1>5. QED BY <1>4 DEF Min

\* The rows a screen counts as open.
OpenRows == {i \in Rows : status[i] \in Open}

LEMMA OpenRowsSplit ==
  ASSUME SeriesInv
  PROVE  /\ OpenRows \in SUBSET Nat
         /\ OpenRows = Resumable \union OutOfResumes
         /\ Resumable \intersect OutOfResumes = {}
  <1>1. OpenRows \in SUBSET Nat
    BY DEF OpenRows, Rows, Slots
  <1>2. OpenRows = Resumable \union OutOfResumes
    BY LifecycleConstants
       DEF SeriesInv, QuotaInv, TypeOK, OpenRows, Open, Resumable, OutOfResumes,
           ResumeCounted, Rows, Exists, Planned
  <1>3. Resumable \intersect OutOfResumes = {}
    BY LifecycleConstants
       DEF SeriesInv, QuotaInv, TypeOK, Resumable, OutOfResumes, ResumeCounted, Planned
  <1>4. QED BY <1>1, <1>2, <1>3

\* A start re-arms the lowest open row, or retires it.
LEMMA LowestIsTaken ==
  ASSUME SeriesInv, CreateSession, NEW n \in OpenRows, \A k \in OpenRows : n <= k
  PROVE  /\ HandBack(n) \/ status'[n] = "failed_permanent"
         /\ status'[n] \in {"planned", "failed_permanent"}
  <1> USE DEF SeriesInv, QuotaInv
  <1>1. n \in Slots /\ n \in Nat /\ status \in [Slots -> Status \union {"none"}]
    BY OpenRowsSplit DEF OpenRows, Rows, TypeOK
  <1>2. CASE \E k \in Slots : HandBack(k)
    <2>1. PICK k \in Slots : HandBack(k)
      BY <1>2
    <2>2. k \in Resumable /\ \A m \in Resumable : k <= m
      BY <2>1 DEF HandBack
    <2>3. n <= k /\ k \in Nat
      BY <2>2, OpenRowsSplit
    <2>4. CASE n = k
      BY <1>1, <2>1, <2>4 DEF HandBack, StatusAfterRetiring
    <2>5. CASE n # k
      <3>1. n < k
        BY <1>1, <2>3, <2>5
      <3>2. n \in OutOfResumes
        BY <1>1, <2>2, <2>3, <3>1, OpenRowsSplit
      <3>3. status'[n] = "failed_permanent"
        BY <1>1, <2>1, <2>5, <3>1, <3>2 DEF HandBack, StatusAfterRetiring
      <3>4. QED BY <3>3
    <2>6. QED BY <2>4, <2>5
  <1>3. CASE InsertNext
    <2>1. n \in OutOfResumes
      BY <1>3, OpenRowsSplit DEF InsertNext
    <2>2. NextIndex # n
      BY <1>3, NextIsNew DEF InsertNext, OpenRows, Rows
    <2>3. QED BY <1>1, <1>3, <2>1, <2>2 DEF InsertNext, StatusAfterRetiring
  <1>4. CASE RefuseNext
    <2>1. n \in OutOfResumes
      BY <1>4, OpenRowsSplit DEF RefuseNext
    <2>2. QED BY <1>1, <1>4, <2>1 DEF RefuseNext, StatusAfterRetiring
  <1>5. QED BY <1>2, <1>3, <1>4 DEF CreateSession

\* The standard package has no quick session in it.
NoQuickRow == \A i \in Slots : status[i] # "quick_done"

LEMMA NoQuickRowKept == SeriesInv /\ NoQuickRow /\ [Next]_vars => NoQuickRow'
  <1> SUFFICES ASSUME SeriesInv, NoQuickRow, [Next]_vars, NEW i \in Slots
               PROVE  status'[i] # "quick_done"
    BY DEF NoQuickRow
  <1>1. status[i] # "quick_done" /\ status \in [Slots -> Status \union {"none"}]
    BY DEF NoQuickRow, SeriesInv, QuotaInv, TypeOK
  <1>2. CASE Unlock \/ Expire \/ PayAgain \/ CompileSettles
    BY <1>1, <1>2 DEF Unlock, Expire, PayAgain, CompileSettles, columnVars
  <1>3. CASE CreateSession
    BY <1>1, <1>3 DEF CreateSession, HandBack, InsertNext, RefuseNext, StatusAfterRetiring
  <1>4. CASE \E k \in Slots : MintSecret(k) \/ Heartbeat(k) \/ Reclaim(k)
    BY <1>1, <1>4 DEF MintSecret, Heartbeat, Reclaim
  <1>5. CASE \E k \in Slots : Complete(k)
    <2>1. ~quick
      BY DEF SeriesInv
    <2>2. QED
      BY <1>1, <1>5, <2>1 DEF Complete, CompleteQuick, CompleteRetires, CompleteScores
  <1>6. CASE \E j \in Jobs : JobStep(j)
    BY <1>1, <1>6 DEF JobStep, JobRefused, JobBegins, JobAdvances, JobFindsTooLong,
                      JobFindsInsufficient, JobSavesReport, JobFinishes, JobFails, JobIsLost,
                      JobWrites, rowsBesideStatus
  <1>7. CASE Reap \/ Restart
    BY <1>1, <1>7 DEF Reap, Restart, ReapStuck
  <1>8. CASE \E k \in Slots : HeartbeatGoesStale(k) \/ RoomClockAges(k) \/ ScoringClockAges(k)
    BY <1>1, <1>8 DEF HeartbeatGoesStale, RoomClockAges, ScoringClockAges
  <1>9. CASE UNCHANGED vars
    BY <1>1, <1>9 DEF vars, columnVars
  <1>10. QED BY <1>2, <1>3, <1>4, <1>5, <1>6, <1>7, <1>8, <1>9 DEF Next

LEMMA NoQuickRowAlways == SeriesSpec => []NoQuickRow
  <1>1. SeriesInit => NoQuickRow
    BY DEF SeriesInit, Init, NoQuickRow
  <1>2. SeriesInv /\ NoQuickRow /\ [SeriesNext]_seriesVars => NoQuickRow'
    BY NoQuickRowKept DEF SeriesNext, seriesVars
  <1>3. QED BY <1>1, <1>2, SeriesInvAlways, PTL DEF SeriesSpec

\* A page says "Run this session again" of the lowest open row only.
LEMMA ResumePageIsLowest ==
  ASSUME SeriesInv, NoQuickRow, NEW i \in Rows, PageCta(i).kind = "resume"
  PROVE  i \in OpenRows /\ \A k \in OpenRows : i <= k
  <1> DEFINE lowest == Min({k \in DOMAIN St : St[k] \in Open})
             state == deriveSessionDetailState(St[i], report[i])
  <1>1. {k \in DOMAIN St : St[k] \in Open} = OpenRows
    BY DEF St, OpenRows
  <1>2. state \in {"failed", "insufficient"} /\ lowest = i
    <2> HIDE DEF lowest, state
    <2>1. PageCta(i) =
            (LET next == nextSessionNumber(St, Total)
             IN CASE state = "not_started" -> [kind |-> "room", to |-> i]
                  [] state \in {"failed", "insufficient"} /\ lowest = i ->
                       [kind |-> "resume", to |-> i]
                  [] state \in {"failed", "insufficient"} -> [kind |-> "detail", to |-> lowest]
                  [] state = "scored" /\ next # 0 -> [kind |-> "start", to |-> next]
                  [] OTHER -> [kind |-> "home", to |-> 0])
      BY DEF PageCta, detailCta, lowest, state
    <2>2. QED BY <2>1
  <1>3. status[i] \in {"failed", "insufficient", "abandoned"}
    BY <1>2 DEF deriveSessionDetailState, St, NoQuickRow, Rows
  <1>4. i \in OpenRows
    BY <1>3 DEF OpenRows, Open
  <1>5. QED BY <1>1, <1>2, <1>4, MinOfNat, OpenRowsSplit

\* The one page that offers to run a session again offers the session a start
\* re-arms or retires.
THEOREM ResumeDoorHolds == SeriesSpec => ResumeDoorResumes
  <1>1. SeriesInv /\ NoQuickRow /\ [SeriesNext]_seriesVars =>
          [CreateSession =>
             \A i \in Rows : PageCta(i).kind = "resume" =>
               status'[i] \in {"planned", "failed_permanent"}]_seriesVars
    BY ResumePageIsLowest, LowestIsTaken
  <1>2. QED
    BY <1>1, SeriesInvAlways, NoQuickRowAlways, PTL DEF SeriesSpec, ResumeDoorResumes

\* With no open row, the next session is the index after the last.
LEMMA NextWithoutOpen ==
  ASSUME SeriesInv, OpenRows = {}
  PROVE  nextSessionNumber(St, Total) = IF NextIndex <= Total THEN NextIndex ELSE 0
  <1>1. DOMAIN St \intersect 1..Total = Rows
    BY EffectiveTotalType, LifecycleConstants
       DEF SeriesInv, QuotaInv, DenseRows, St
  <1>2. {i \in DOMAIN St \intersect 1..Total : St[i] \in Open} = {}
    BY <1>1 DEF OpenRows, St
  <1>3. QED BY <1>1, <1>2 DEF nextSessionNumber, NextIndex

LEMMA NextWithOpen ==
  ASSUME SeriesInv, OpenRows # {}
  PROVE  nextSessionNumber(St, Total) = Min(OpenRows)
  <1>1. DOMAIN St \intersect 1..Total = Rows
    BY EffectiveTotalType, LifecycleConstants
       DEF SeriesInv, QuotaInv, DenseRows, St
  <1>2. {i \in DOMAIN St \intersect 1..Total : St[i] \in Open} = OpenRows
    BY <1>1 DEF OpenRows, St
  <1>3. QED BY <1>2 DEF nextSessionNumber

\* The session a page names as next is the one a start gives.
THEOREM OfferedHolds == SeriesSpec => OfferedIsGiven
  <1> DEFINE n == nextSessionNumber(St, Total)
             Given == \/ n # 0 /\ HandBack(n)
                      \/ n # 0 /\ status'[n] = "failed_permanent"
                      \/ InsertNext /\ n = NextIndex
                      \/ RefuseNext /\ (n = 0 \/ ~ready)
  <1>1. ASSUME SeriesInv, CreateSession PROVE Given
    <2>1. CASE OpenRows # {}
      <3>1. n \in OpenRows /\ \A k \in OpenRows : n <= k
        BY <1>1, <2>1, NextWithOpen, MinOfNat, OpenRowsSplit
      <3>2. n # 0
        BY <3>1 DEF OpenRows, Rows, Slots
      <3>3. HandBack(n) \/ status'[n] = "failed_permanent"
        BY <1>1, <3>1, LowestIsTaken
      <3>4. QED BY <3>2, <3>3
    <2>2. CASE OpenRows = {}
      <3>1. Resumable = {} /\ OutOfResumes = {}
        BY <1>1, <2>2, OpenRowsSplit
      <3>2. n = IF NextIndex <= Total THEN NextIndex ELSE 0
        BY <1>1, <2>2, NextWithoutOpen
      <3>3. CASE \E k \in Slots : HandBack(k)
        BY <3>1, <3>3 DEF HandBack
      <3>4. CASE InsertNext
        <4>1. PICK m \in Nat : m + 1 <= EffectiveTotal /\ NextIndex = m + 1
          BY <1>1, <3>1, <3>4, NextIndexFits DEF SeriesInv, InsertNext
        <4>2. NextIndex <= Total
          BY <1>1, <4>1, EffectiveTotalType, LifecycleConstants DEF SeriesInv, QuotaInv
        <4>3. QED BY <3>2, <3>4, <4>2
      <3>5. CASE RefuseNext
        <4>1. access # "locked"
          BY <1>1 DEF CreateSession, RoomIsClosed, SeriesInv
        <4>2. Exhausted(OutOfResumes) => n = 0
          BY <1>1, <3>1, <4>1, SpentHasNoNext
        <4>3. QED BY <3>5, <4>2 DEF RefuseNext
      <3>6. QED BY <1>1, <3>3, <3>4, <3>5 DEF CreateSession
    <2>3. QED BY <2>1, <2>2
  <1>2. SeriesInv /\ [SeriesNext]_seriesVars => [CreateSession => Given]_seriesVars
    BY <1>1
  <1>3. QED BY <1>2, SeriesInvAlways, PTL DEF SeriesSpec, OfferedIsGiven

\* Both kinds of door lead where they say (home.ts, transcript.ts).
THEOREM DoorsHold == SeriesSpec => DoorsLead
  <1>1. QED BY OfferedHolds, ResumeDoorHolds DEF DoorsLead

\* Both ends of a start are honest (start-session.ts, room/page.tsx).
THEOREM StartTells == SeriesSpec => []StartTellsTrue
  <1>1. StartIsHonest /\ StartCardIsLive => StartTellsTrue
    BY DEF StartTellsTrue
  <1>2. QED BY <1>1, StartHonest, StartCardHolds, PTL

-----------------------------------------------------------------------------
(* What a session asks (SessionPlanner). *)

\* "below" gives what stands before each member of S in a linear order.
LinesUp(S, below) ==
  /\ below \in [S -> SUBSET S]
  /\ \A d \in S : d \notin below[d]
  /\ \A d, e \in S : d = e \/ d \in below[e] \/ e \in below[d]
  /\ \A d, e \in S : d \in below[e] => below[d] \subseteq below[e]

\* Of a finite set in a linear order, one member has k others before it for each k
\* below its size: the counts are all different, and as many as the members.
LEMMA RankExists ==
  ASSUME NEW S, IsFiniteSet(S), NEW below, LinesUp(S, below)
  PROVE  \A k \in 0 .. Cardinality(S) - 1 : \E d \in S : Cardinality(below[d]) = k
  <1> DEFINE T == 0 .. Cardinality(S) - 1
             rank == [d \in S |-> Cardinality(below[d])]
  <1>1. Cardinality(S) \in Nat /\ IsFiniteSet(T) /\ Cardinality(T) = Cardinality(S)
    <2>1. Cardinality(S) \in Nat
      BY FS_CardinalityType
    <2>2. QED BY <2>1, FS_Interval
  <1> USE DEF LinesUp
  <1>2. \A d \in S : IsFiniteSet(below[d]) /\ Cardinality(below[d]) \in T
    <2> SUFFICES ASSUME NEW d \in S
                 PROVE  IsFiniteSet(below[d]) /\ Cardinality(below[d]) \in T
      OBVIOUS
    <2>1. IsFiniteSet(S \ {d}) /\ Cardinality(S \ {d}) = Cardinality(S) - 1
      BY FS_RemoveElement
    <2>2. below[d] \in SUBSET (S \ {d})
      OBVIOUS
    <2>3. IsFiniteSet(below[d]) /\ Cardinality(below[d]) <= Cardinality(S \ {d})
      BY <2>1, <2>2, FS_Subset
    <2>4. Cardinality(below[d]) \in Nat
      BY <2>3, FS_CardinalityType
    <2>5. QED BY <1>1, <2>1, <2>3, <2>4
  <1>3. \A d, e \in S : d # e => rank[d] # rank[e]
    <2>1. ASSUME NEW d \in S, NEW e \in S, d \in below[e]
          PROVE  Cardinality(below[d]) # Cardinality(below[e])
      <3>1. below[d] \in SUBSET below[e] /\ d \in below[e] /\ d \notin below[d]
        BY <2>1
      <3>2. Cardinality(below[e]) = Cardinality(below[d]) => below[e] = below[d]
        BY <1>2, <3>1, FS_Subset
      <3>3. QED BY <3>1, <3>2
    <2>2. QED BY <2>1
  <1>4. rank \in Injection(S, T)
    BY <1>2, <1>3 DEF Injection, IsInjective
  <1>5. rank \in Surjection(S, T)
    BY <1>1, <1>4, FS_Injection
  <1>6. \A k \in T : \E d \in S : rank[d] = k
    BY <1>5 DEF Surjection
  <1>7. QED BY <1>6

\* Nth finds a member.
LEMMA NthMember ==
  ASSUME NEW S, IsFiniteSet(S), NEW k \in 0 .. Cardinality(S) - 1
  PROVE  S \subseteq Nat => Nth(S, k) \in S
  <1>1. PICK below : below = [n \in S |-> {m \in S : m < n}]
    OBVIOUS
  <1>2. below \in [S -> SUBSET S] /\ \A d \in S : below[d] = {m \in S : m < d}
    BY <1>1
  <1>3. S \subseteq Nat => LinesUp(S, below)
    <2> SUFFICES ASSUME S \subseteq Nat PROVE LinesUp(S, below)
      OBVIOUS
    <2>1. \A n \in S : n \in Nat
      OBVIOUS
    <2>2. \A d \in S : d \notin below[d]
      BY <1>2, <2>1
    <2>3. \A d, e \in S : d = e \/ d \in below[e] \/ e \in below[d]
      <3>1. \A d, e \in Nat : d = e \/ d < e \/ e < d
        OBVIOUS
      <3>2. QED BY <1>2, <2>1, <3>1
    <2>4. \A d, e \in S : d \in below[e] => below[d] \subseteq below[e]
      <3> SUFFICES ASSUME NEW d \in S, NEW e \in S, NEW m \in S, d < e, m < d
                   PROVE  m < e
        BY <1>2
      <3>1. QED BY <2>1
    <2>5. QED BY <1>2, <2>2, <2>3, <2>4 DEF LinesUp
  <1>4. LinesUp(S, below) => \E n \in S : Cardinality(below[n]) = k
    BY RankExists
  <1>5. QED BY <1>2, <1>3, <1>4 DEF Nth

\* A turn stays within its round, and a round comes by every place.
LEMMA TurnType ==
  ASSUME NEW index \in Nat \ {0}, NEW k \in Nat, NEW n \in Nat \ {0}
  PROVE  Turn(index, k, n) \in 1 .. n
  BY DEF Turn

LEMMA TurnReaches ==
  ASSUME NEW index \in Nat \ {0}, NEW n \in Nat \ {0}, NEW i \in 1 .. n
  PROVE  \E k \in 0 .. n - 1 : Turn(index, k, n) = i
  <1> DEFINE x == index - 1
             q == x \div n
             r == x % n
  <1>1. x \in Nat /\ q \in Nat /\ r \in 0 .. n - 1 /\ x = n * q + r
    <2>1. x \in Nat
      OBVIOUS
    <2> HIDE DEF x
    <2>2. QED BY <2>1
  <1> HIDE DEF x, q, r
  <1>2. \A m \in Nat : \A s \in 0 .. n - 1 : (n * m + s) % n = s
    OBVIOUS
  <1>3. CASE r <= i - 1
    <2>1. x + (i - 1 - r) = n * q + (i - 1)
      BY <1>1
    <2>2. (x + (i - 1 - r)) % n = i - 1
      BY <1>1, <1>2, <2>1
    <2>3. PICK k \in 0 .. n - 1 : k = i - 1 - r
      BY <1>1, <1>3
    <2>4. (index - 1 + k) % n = i - 1
      BY <2>2, <2>3 DEF x
    <2>5. Turn(index, k, n) = i
      BY <2>4 DEF Turn
    <2>6. QED BY <2>5
  <1>4. CASE r > i - 1
    <2>1. x + (n + i - 1 - r) = n * (q + 1) + (i - 1)
      BY <1>1
    <2>2. (x + (n + i - 1 - r)) % n = i - 1
      BY <1>1, <1>2, <2>1
    <2>3. PICK k \in 0 .. n - 1 : k = n + i - 1 - r
      BY <1>1, <1>4
    <2>4. (index - 1 + k) % n = i - 1
      BY <2>2, <2>3 DEF x
    <2>5. Turn(index, k, n) = i
      BY <2>4 DEF Turn
    <2>6. QED BY <2>5
  <1>5. QED BY <1>1, <1>3, <1>4

\* With some template free, the rotation finds a free one.
LEMMA FirstFreeIsFree ==
  ASSUME NEW index \in Nat \ {0}, NEW free \in SUBSET (1 .. Templates), free # {}
  PROVE  FirstFree(index, free) \in free
  <1> DEFINE K == {k \in 0 .. Templates - 1 : Turn(index, k, Templates) \in free}
  <1>1. PICK i \in 1 .. Templates : i \in free
    OBVIOUS
  <1>2. \E k \in 0 .. Templates - 1 : Turn(index, k, Templates) = i
    BY TurnReaches, FallbackAssumption
  <1>3. K \in SUBSET Nat /\ K # {}
    BY <1>1, <1>2, FallbackAssumption
  <1>4. Min(K) \in K /\ \A k \in K : Min(K) <= k
    BY <1>3, MinOfNat
  <1>5. PICK k \in 0 .. Templates - 1 :
          /\ Turn(index, k, Templates) \in free
          /\ \A m \in K : k <= m
    BY <1>4
  <1>6. \A j \in 0 .. k - 1 : Turn(index, j, Templates) \notin free
    BY <1>5, FallbackAssumption
  <1>7. QED BY <1>5, <1>6 DEF FirstFree

\* A finite set of questions leaves one of the variants that are counted on to out,
\* so the least of those is a new question.
LEMMA RevisitIsNew ==
  ASSUME NEW d, d \notin Fit, NEW index, NEW asked, IsFiniteSet(asked)
  PROVE  /\ Revisit(d, index, asked) \notin asked
         /\ \E n \in Nat : Revisit(d, index, asked) = <<d, "again", n>>
  <1> DEFINE N == Cardinality(asked) + 1
             K == {n \in 1 .. N : <<d, "again", n>> \notin asked}
  <1>1. Cardinality(asked) \in Nat
    BY FS_CardinalityType
  <1>2. K # {}
    <2> SUFFICES ASSUME \A n \in 1 .. N : <<d, "again", n>> \in asked PROVE FALSE
      OBVIOUS
    <2> DEFINE f == [n \in 1 .. N |-> <<d, "again", n>>]
    <2>1. f \in Injection(1 .. N, asked)
      BY DEF Injection, IsInjective
    <2>2. Cardinality(1 .. N) <= Cardinality(asked)
      BY <2>1, FS_Injection
    <2>3. Cardinality(1 .. N) = N
      BY <1>1, FS_Interval
    <2>4. QED BY <1>1, <2>2, <2>3
  <1>3. Min(K) \in K /\ \A n \in K : Min(K) <= n
    <2>1. K \in SUBSET Nat
      BY <1>1
    <2>2. QED BY <1>2, <2>1, MinOfNat
  <1>4. PICK n \in 1 .. N : /\ <<d, "again", n>> \notin asked
                           /\ \A m \in 1 .. n - 1 : <<d, "again", m>> \in asked
    <2>1. PICK n \in K : \A m \in K : n <= m
      BY <1>3
    <2>2. n \in 1 .. N /\ <<d, "again", n>> \notin asked
      BY <2>1
    <2>3. \A m \in 1 .. n - 1 : m \in 1 .. N /\ ~(n <= m)
      BY <1>1, <2>2
    <2>4. \A m \in 1 .. n - 1 : <<d, "again", m>> \in asked
      BY <2>1, <2>3
    <2>5. QED BY <2>2, <2>4
  <1> DEFINE chosen == CHOOSE m \in 1 .. N : /\ <<d, "again", m>> \notin asked
                                             /\ \A k \in 1 .. m - 1 : <<d, "again", k>> \in asked
  <1>5. chosen \in 1 .. N /\ <<d, "again", chosen>> \notin asked
    BY <1>4
  <1>6. Revisit(d, index, asked) = <<d, "again", chosen>>
    BY DEF Revisit
  <1> HIDE DEF chosen
  <1>7. QED BY <1>1, <1>5, <1>6

\* What a question is made of.
Asked == DimSet \X {"bank", "template", "again"} \X Nat

\* A question is about the dimension it is asked for, and new, unless the templates
\* of the fit dimension are used up.
LEMMA QuestionIsNew ==
  ASSUME NEW d \in DimSet, NEW index \in Nat \ {0}, NEW asked, IsFiniteSet(asked)
  PROVE  /\ QuestionFor(d, index, asked) \in Asked
         /\ QuestionFor(d, index, asked)[1] = d
         /\ QuestionFor(d, index, asked) \in asked =>
              d \in Fit /\ QuestionFor(d, index, asked)[2] = "again"
  <1> DEFINE bank == FreeBank(d, asked)
             free == FreeTemplates(d, asked)
             q == QuestionFor(d, index, asked)
  <1>1. CASE bank # {}
    <2> DEFINE n == Nth(bank, (index - 1) % Cardinality(bank))
    <2>1. Bank[d] \in Nat /\ bank \subseteq 1 .. Bank[d]
      BY RubricAssumption DEF FreeBank
    <2>2. bank \subseteq Nat /\ IsFiniteSet(bank)
      <3>1. IsFiniteSet(1 .. Bank[d])
        BY <2>1, FS_Interval
      <3>2. IsFiniteSet(bank)
        BY <2>1, <3>1, FS_Subset
      <3>3. QED BY <2>1, <3>2
    <2>3. Cardinality(bank) \in Nat \ {0}
      BY <1>1, <2>2, FS_CardinalityType, FS_EmptySet
    <2>4. (index - 1) % Cardinality(bank) \in 0 .. Cardinality(bank) - 1
      BY <2>3
    <2>5. n \in bank
      BY <2>2, <2>4, NthMember
    <2>6. q = <<d, "bank", n>>
      BY <1>1 DEF QuestionFor
    <2> HIDE DEF n
    <2>7. n \in Nat /\ <<d, "bank", n>> \notin asked
      BY <2>2, <2>5 DEF FreeBank
    <2>8. QED BY <2>6, <2>7 DEF Asked
  <1>2. CASE bank = {} /\ free # {}
    <2>1. free \in SUBSET (1 .. Templates)
      BY DEF FreeTemplates
    <2>2. FirstFree(index, free) \in free
      BY <1>2, <2>1, FirstFreeIsFree
    <2>3. q = <<d, "template", FirstFree(index, free)>>
      BY <1>2 DEF QuestionFor
    <2>4. FirstFree(index, free) \in Nat /\ <<d, "template", FirstFree(index, free)>> \notin asked
      BY <2>1, <2>2, FallbackAssumption DEF FreeTemplates
    <2>5. QED BY <2>3, <2>4 DEF Asked
  <1>3. CASE bank = {} /\ free = {} /\ d \in Fit
    <2>1. q = <<d, "again", Turn(index, 0, Templates)>>
      BY <1>3 DEF QuestionFor, Revisit
    <2>2. Turn(index, 0, Templates) \in Nat
      BY TurnType, FallbackAssumption
    <2>3. QED BY <1>3, <2>1, <2>2 DEF Asked
  <1>4. CASE bank = {} /\ free = {} /\ d \notin Fit
    <2>1. q = Revisit(d, index, asked)
      BY <1>4 DEF QuestionFor
    <2>2. q \notin asked /\ \E n \in Nat : q = <<d, "again", n>>
      BY <1>4, <2>1, RevisitIsNew
    <2>3. QED BY <2>2 DEF Asked
  <1>5. QED BY <1>1, <1>2, <1>3, <1>4

\* The rubric has finitely many dimensions, each in its place.
LEMMA DimsFacts ==
  /\ IsFiniteSet(DimSet)
  /\ \A d \in DimSet : Place(d) \in DOMAIN Dims /\ Dims[Place(d)] = d
  /\ DOMAIN Dims = 1 .. Len(Dims) /\ Len(Dims) \in Nat
  <1>1. DOMAIN Dims = 1 .. Len(Dims) /\ Len(Dims) \in Nat /\ Dims \in [1 .. Len(Dims) -> DimSet]
    BY DimsAssumption
  <1>2. Dims \in Surjection(1 .. Len(Dims), DimSet)
    BY <1>1 DEF Surjection, DimSet
  <1>3. IsFiniteSet(1 .. Len(Dims))
    BY <1>1, FS_Interval
  <1>4. IsFiniteSet(DimSet)
    BY <1>2, <1>3, FS_Surjection
  <1>5. \A d \in DimSet : Place(d) \in DOMAIN Dims /\ Dims[Place(d)] = d
    BY DEF DimSet, Place
  <1>6. QED BY <1>1, <1>4, <1>5

\* The scores a plan goes by.
Scores == [DimSet -> Nat] \union {NoReport}

\* By score, weight and place, the dimensions line up.
LEMMA DimensionsLineUp ==
  ASSUME NEW S \in SUBSET DimSet, NEW latest \in Scores
  PROVE  LinesUp(S, [d \in S |-> {e \in S : Before(latest, e, d)}])
  <1> DEFINE worth(d) == IF latest = NoReport THEN 0 ELSE latest[d]
  <1>1. \A d \in S : worth(d) \in Nat /\ Weight[d] \in Nat /\ Place(d) \in Nat
    <2>1. ASSUME NEW d \in S PROVE worth(d) \in Nat
      BY DEF Scores
    <2>2. ASSUME NEW d \in S PROVE Weight[d] \in Nat
      BY RubricAssumption
    <2>3. ASSUME NEW d \in S PROVE Place(d) \in Nat
      BY DimsFacts
    <2>4. QED BY <2>1, <2>2, <2>3
  <1>2. \A d, e \in S : Place(d) = Place(e) => d = e
    BY DimsFacts
  <1>3. \A d, e \in S :
          Before(latest, d, e) <=>
            \/ worth(d) < worth(e)
            \/ worth(d) = worth(e) /\ Weight[d] > Weight[e]
            \/ worth(d) = worth(e) /\ Weight[d] = Weight[e] /\ Place(d) < Place(e)
    BY DEF Before
  <1> HIDE DEF worth
  <1>4. \A d \in S : ~Before(latest, d, d)
    BY <1>1, <1>3
  <1>5. \A d, e \in S : d = e \/ Before(latest, d, e) \/ Before(latest, e, d)
    BY <1>1, <1>2, <1>3
  <1>6. \A d, e, f \in S : Before(latest, d, e) /\ Before(latest, e, f) => Before(latest, d, f)
    BY <1>1, <1>3
  <1>7. QED BY <1>4, <1>5, <1>6 DEF LinesUp

\* Every place of the order is a member's, and the first one has none before it.
LEMMA OrderedMember ==
  ASSUME NEW S \in SUBSET DimSet, NEW latest \in Scores
  PROVE  /\ Cardinality(S) \in Nat /\ DOMAIN Ordered(S, latest) = 1 .. Cardinality(S)
         /\ \A i \in 1 .. Cardinality(S) :
              /\ Ordered(S, latest)[i] \in S
              /\ Cardinality({e \in S : Before(latest, e, Ordered(S, latest)[i])}) = i - 1
  <1>1. IsFiniteSet(S) /\ Cardinality(S) \in Nat
    <2>1. IsFiniteSet(S)
      BY DimsFacts, FS_Subset
    <2>2. QED BY <2>1, FS_CardinalityType
  <1>2. PICK below : below = [d \in S |-> {e \in S : Before(latest, e, d)}]
    OBVIOUS
  <1>3. \A k \in 0 .. Cardinality(S) - 1 : \E d \in S : Cardinality(below[d]) = k
    <2>1. LinesUp(S, below)
      BY <1>2, DimensionsLineUp
    <2>2. QED BY <1>1, <2>1, RankExists
  <1>4. ASSUME NEW i \in 1 .. Cardinality(S)
        PROVE  \E d \in S : Cardinality({e \in S : Before(latest, e, d)}) = i - 1
    <2>1. PICK d \in S : Cardinality(below[d]) = i - 1
      BY <1>1, <1>3
    <2>2. QED BY <1>2, <2>1
  <1>5. ASSUME NEW i \in 1 .. Cardinality(S)
        PROVE  /\ Ordered(S, latest)[i] \in S
               /\ Cardinality({e \in S : Before(latest, e, Ordered(S, latest)[i])}) = i - 1
    <2> DEFINE d == CHOOSE d \in S : Cardinality({e \in S : Before(latest, e, d)}) = i - 1
    <2>1. d \in S /\ Cardinality({e \in S : Before(latest, e, d)}) = i - 1
      BY <1>4
    <2>2. Ordered(S, latest)[i] = d
      BY DEF Ordered
    <2>3. QED BY <2>1, <2>2
  <1>6. DOMAIN Ordered(S, latest) = 1 .. Cardinality(S)
    BY DEF Ordered
  <1>7. QED BY <1>1, <1>5, <1>6

\* A bounded set of naturals has a greatest element.
LEMMA GreatestOfNat ==
  ASSUME NEW n \in Nat, NEW S \in SUBSET (0 .. n), S # {}
  PROVE  \E m \in S : \A s \in S : s <= m
  <1> DEFINE D == {d \in 0 .. n : n - d \in S}
  <1>1. D \in SUBSET Nat /\ D # {}
    <2>1. PICK s \in S : TRUE
      OBVIOUS
    <2>2. n - s \in D
      BY <2>1
    <2>3. QED BY <2>2
  <1>2. Min(D) \in D /\ \A d \in D : Min(D) <= d
    BY <1>1, MinOfNat
  <1>3. PICK m \in S : m = n - Min(D)
    BY <1>2
  <1>4. ASSUME NEW s \in S PROVE s <= m
    <2>1. n - s \in D
      OBVIOUS
    <2>2. Min(D) <= n - s /\ Min(D) \in Nat
      BY <1>1, <1>2, <2>1
    <2>3. QED BY <1>3, <2>2
  <1>5. QED BY <1>4

\* What a session plan is.
PlanRecord ==
  [focus : {"none", "baseline", "targeted"}, questions : Seq(Asked),
   target : DimSet \union {"none"}, probe : 0 .. Probes]

\* A question is asked of each dimension in the order, and each of them is new.
LEMMA AsksAreNew ==
  ASSUME NEW n \in Nat, NEW order, DOMAIN order = 1 .. n,
         \A i \in 1 .. n : order[i] \in DimSet,
         NEW index \in Nat \ {0}, NEW asked, IsFiniteSet(asked),
         NEW asks, asks = [i \in DOMAIN order |-> QuestionFor(order[i], index, asked)]
  PROVE  /\ asks \in Seq(Asked)
         /\ \A i \in DOMAIN asks :
              asks[i] \in asked => asks[i][1] \in Fit /\ asks[i][2] = "again"
  <1>1. ASSUME NEW i \in 1 .. n
        PROVE  /\ asks[i] \in Asked
               /\ asks[i] \in asked => asks[i][1] \in Fit /\ asks[i][2] = "again"
    <2>1. PICK d \in DimSet : d = order[i]
      OBVIOUS
    <2>2. asks[i] = QuestionFor(d, index, asked)
      BY <2>1
    <2>3. QED BY <2>2, QuestionIsNew
  <1>2. asks \in [1 .. n -> Asked]
    BY <1>1
  <1>3. asks \in Seq(Asked)
    BY <1>2
  <1>4. QED BY <1>1, <1>3

\* The pressure probe is put to a dimension of the rubric.
LEMMA PressureType ==
  ASSUME NEW latest \in Scores
  PROVE  PressureTarget(latest) \in DimSet
  <1>1. ASSUME NEW S \in SUBSET DimSet, S # {} PROVE Ordered(S, latest)[1] \in DimSet
    <2>1. IsFiniteSet(S)
      BY DimsFacts, FS_Subset
    <2>2. Cardinality(S) \in Nat /\ Cardinality(S) # 0
      BY <1>1, <2>1, FS_CardinalityType, FS_EmptySet
    <2>3. 1 \in 1 .. Cardinality(S)
      BY <2>2
    <2>4. Ordered(S, latest)[1] \in S
      BY <2>3, OrderedMember
    <2>5. QED BY <2>4
  <1>2. /\ Content \ Indirect \in SUBSET DimSet
        /\ DimSet \ Indirect \in SUBSET DimSet /\ DimSet \ Indirect # {}
    BY RubricAssumption
  <1>3. QED BY <1>1, <1>2 DEF PressureTarget

\* A plan is well formed, and asks nothing that its history has asked, unless the
\* templates of the fit dimension are used up.
LEMMA PlanIsNew ==
  ASSUME NEW index \in Nat \ {0}, NEW history, LatestScores(history) \in Scores,
         IsFiniteSet(AskedQuestions(history)),
         NEW p, p = plan_baseline_session(index, history)
  PROVE  /\ p \in PlanRecord
         /\ \A k \in DOMAIN p.questions :
              p.questions[k] \in AskedQuestions(history) =>
                p.questions[k][1] \in Fit /\ p.questions[k][2] = "again"
  <1>1. PICK latest \in Scores : latest = LatestScores(history)
    OBVIOUS
  <1>2. PICK asked : asked = AskedQuestions(history) /\ IsFiniteSet(asked)
    OBVIOUS
  <1>3. PICK direct \in SUBSET DimSet : direct = DimSet \ Indirect
    OBVIOUS
  <1>4. PICK order : order = Ordered(direct, latest)
    OBVIOUS
  <1>5. PICK asks : asks = [i \in DOMAIN order |-> QuestionFor(order[i], index, asked)]
    OBVIOUS
  <1>6. /\ Cardinality(direct) \in Nat /\ DOMAIN order = 1 .. Cardinality(direct)
        /\ \A i \in 1 .. Cardinality(direct) : order[i] \in direct
    BY <1>4, OrderedMember
  <1>7. PICK n \in Nat : DOMAIN order = 1 .. n /\ \A i \in 1 .. n : order[i] \in DimSet
    BY <1>6
  <1>8. /\ asks \in Seq(Asked)
        /\ \A i \in DOMAIN asks :
             asks[i] \in asked => asks[i][1] \in Fit /\ asks[i][2] = "again"
    BY <1>2, <1>5, <1>7, AsksAreNew
  <1>9. PressureTarget(latest) \in DimSet
    BY PressureType
  <1>10. Turn(index, 0, Probes) \in 0 .. Probes
    <2>1. Turn(index, 0, Probes) \in 1 .. Probes
      BY TurnType, FallbackAssumption
    <2>2. QED BY <2>1, FallbackAssumption
  <1>11. p = [focus |-> IF latest = NoReport THEN "baseline" ELSE "targeted",
              questions |-> asks, target |-> PressureTarget(latest),
              probe |-> Turn(index, 0, Probes)]
    BY <1>1, <1>2, <1>3, <1>4, <1>5 DEF plan_baseline_session
  <1>12. p \in PlanRecord
    BY <1>8, <1>9, <1>10, <1>11 DEF PlanRecord
  <1>13. p.questions = asks
    BY <1>11
  <1>14. QED BY <1>2, <1>8, <1>12, <1>13

-----------------------------------------------------------------------------
\* A row has a report once a task has saved one, and only then.
LEMMA ReportMoves ==
  ASSUME TypeOK, [Next]_vars
  PROVE  /\ Saved \in SUBSET Slots
         /\ \A i \in Slots : report'[i] <=> report[i] \/ i \in Saved
  <1> USE DEF packageVars, columnVars, processVars, rowsBesideStatus, besideJobs
  <1>t. /\ report \in [Slots -> BOOLEAN] /\ target \in [Jobs -> Slots]
        /\ stage \in [Jobs -> Stage]
    BY DEF TypeOK
  <1>s. Saved \in SUBSET Slots
    BY <1>t DEF Saved
  <1>k. ASSUME report' = report,
               \A j \in Jobs : stage'[j] = "saved" => stage[j] = "saved"
        PROVE  \A i \in Slots : report'[i] <=> report[i] \/ i \in Saved
    <2>1. Saved = {}
      BY <1>k DEF Saved
    <2>2. QED BY <1>k, <2>1
  <1>1. CASE CreateSession
    BY <1>k, <1>1, <1>s DEF CreateSession
  <1>2. ASSUME NEW k \in Slots, Complete(k) \/ Reclaim(k)
        PROVE  \A i \in Slots : report'[i] <=> report[i] \/ i \in Saved
    <2>1. report' = report
      BY <1>2 DEF Complete, CompleteQuick, CompleteRetires, CompleteScores, Reclaim
    <2>2. \A j \in Jobs : stage'[j] = "saved" => stage[j] = "saved"
      <3>1. CASE CompleteScores(k)
        BY <1>t, <3>1 DEF CompleteScores
      <3>2. CASE ~CompleteScores(k)
        BY <1>2, <3>2 DEF Complete, CompleteQuick, CompleteRetires, Reclaim
      <3>3. QED BY <3>1, <3>2
    <2>3. QED BY <1>k, <2>1, <2>2
  <1>3. ASSUME NEW j \in Jobs, JobStep(j)
        PROVE  \A i \in Slots : report'[i] <=> report[i] \/ i \in Saved
    <2>1. CASE JobSavesReport(j)
      <3>1. /\ report' = [report EXCEPT ![target[j]] = TRUE]
            /\ stage' = [stage EXCEPT ![j] = "saved"] /\ stage[j] = "compile"
        BY <2>1 DEF JobSavesReport
      <3>2. Saved = {target[j]}
        BY <1>t, <3>1 DEF Saved
      <3>3. QED BY <1>t, <3>1, <3>2
    <2>2. CASE ~JobSavesReport(j)
      <3>1. report' = report
        BY <1>3, <2>2 DEF JobStep, JobRefused, JobBegins, JobAdvances, JobFindsTooLong,
                          JobFindsInsufficient, JobFinishes, JobFails, JobIsLost
      <3>2. \E st : st # "saved" /\ stage' = [stage EXCEPT ![j] = st]
        BY <1>3, <2>2 DEF JobStep, JobRefused, JobBegins, JobAdvances, JobFindsTooLong,
                          JobFindsInsufficient, JobFinishes, JobFails, JobIsLost, JobEnds,
                          ScoringStage
      <3>3. \A k \in Jobs : stage'[k] = "saved" => stage[k] = "saved"
        BY <1>t, <3>2
      <3>4. QED BY <1>k, <3>1, <3>3
    <2>3. QED BY <2>1, <2>2
  <1>4. CASE Reap \/ Restart
    <2>1. report' = report
      BY <1>4 DEF Reap, Restart
    <2>2. \A j \in Jobs : stage'[j] = stage[j] \/ stage'[j] = "idle"
      BY <1>4 DEF Reap, Restart
    <2>3. \A j \in Jobs : stage'[j] = "saved" => stage[j] = "saved"
      BY <2>2
    <2>4. QED BY <1>k, <1>s, <2>1, <2>3
  <1>5. CASE \/ Unlock \/ Expire \/ PayAgain \/ CompileSettles \/ UNCHANGED vars
             \/ \E i \in Slots : \/ MintSecret(i) \/ Heartbeat(i)
                                 \/ HeartbeatGoesStale(i) \/ RoomClockAges(i)
                                 \/ ScoringClockAges(i)
    <2>1. UNCHANGED <<report, stage>>
      BY <1>5 DEF Unlock, Expire, PayAgain, CompileSettles, vars, MintSecret, Heartbeat,
                  HeartbeatGoesStale, RoomClockAges, ScoringClockAges
    <2>2. \A j \in Jobs : stage'[j] = "saved" => stage[j] = "saved"
      BY <2>1
    <2>3. QED BY <1>k, <1>s, <2>1, <2>2
  <1>6. QED
    BY <1>s, <1>1, <1>2, <1>3, <1>4, <1>5 DEF Next

\* A step inserts one row at most, the one with the next index, and removes none.
LEMMA OneRowAtATime ==
  ASSUME QuotaInv, [Next]_vars, NEW i \in Slots
  PROVE  /\ Exists(i) => Exists(i)'
         /\ Exists(i)' => Exists(i) \/ i = NextIndex
  <1> USE DEF packageVars, columnVars, processVars, rowsBesideStatus, besideJobs
  <1>t. status \in [Slots -> Status \union {"none"}] /\ "none" \notin Status
    BY StatusesDiffer DEF QuotaInv, TypeOK
  <1>1. CASE CreateSession
    <2>1. \A gone : gone \subseteq OutOfResumes =>
             \A k \in Slots : StatusAfterRetiring(gone)[k] # "none" <=> Exists(k)
      BY DEF StatusAfterRetiring, OutOfResumes, ResumeCounted, Exists
    <2>2. ASSUME NEW k \in Slots, HandBack(k) PROVE Exists(i)' <=> Exists(i)
      <3>1. Exists(k)
        BY <2>2 DEF HandBack, Resumable, Planned, ResumeCounted, Exists
      <3>2. QED
        BY <2>1, <2>2, <3>1 DEF HandBack, Exists, StatusAfterRetiring
    <2>3. CASE InsertNext
      <3>1. Exists(i)' <=> Exists(i) \/ i = NextIndex
        BY <2>1, <2>3 DEF InsertNext, Exists, StatusAfterRetiring
      <3>2. QED BY <3>1
    <2>4. CASE RefuseNext
      BY <2>1, <2>4 DEF RefuseNext, Exists
    <2>5. QED BY <1>1, <2>2, <2>3, <2>4 DEF CreateSession
  <1>2. ASSUME NEW k \in Slots, MintSecret(k) \/ Heartbeat(k) \/ Reclaim(k) \/ Complete(k)
        PROVE  Exists(i)' <=> Exists(i)
    <2>1. CASE Complete(k)
      <3>1. Exists(k)
        BY <2>1 DEF Complete, CompleteQuick, CompleteRetires, CompleteScores,
                    Completable, Retriable, Exists
      <3>2. \E st \in Status : status' = [status EXCEPT ![k] = st]
        BY <2>1 DEF Complete, CompleteQuick, CompleteRetires, CompleteScores,
                    Status, SlotConsuming
      <3>3. QED BY <1>t, <3>1, <3>2 DEF Exists
    <2>2. CASE ~Complete(k)
      BY <1>t, <1>2, <2>2 DEF MintSecret, Heartbeat, Reclaim, StoppedReporting, Planned, Exists
    <2>3. QED BY <2>1, <2>2
  <1>3. ASSUME NEW j \in Jobs, JobStep(j) PROVE Exists(i)' <=> Exists(i)
    <2>1. Exists(target[j]) /\ target[j] \in Slots
      BY <1>3 DEF JobStep, JobRefused, JobBegins, JobAdvances, JobFindsTooLong,
                  JobFindsInsufficient, JobSavesReport, JobFinishes, JobFails, JobIsLost,
                  Running, Pipeline, JobsHaveRows, QuotaInv, TypeOK
    <2>2. \/ UNCHANGED status
          \/ \E st \in Status : status' = [status EXCEPT ![target[j]] = st]
      BY <1>3 DEF JobStep, JobRefused, JobBegins, JobAdvances, JobFindsTooLong,
                  JobFindsInsufficient, JobSavesReport, JobFinishes, JobFails, JobIsLost,
                  JobWrites, Status, Retriable, SlotConsuming
    <2>3. QED BY <1>t, <2>1, <2>2 DEF Exists
  <1>4. CASE Reap \/ Restart
    BY <1>4 DEF Reap, Restart, ReapStuck, Stuck, Exists
  <1>5. CASE \/ Unlock \/ Expire \/ PayAgain \/ CompileSettles \/ UNCHANGED vars
             \/ \E k \in Slots : \/ HeartbeatGoesStale(k) \/ RoomClockAges(k)
                                 \/ ScoringClockAges(k)
    <2>1. status' = status
      BY <1>5 DEF Unlock, Expire, PayAgain, CompileSettles, vars,
                  HeartbeatGoesStale, RoomClockAges, ScoringClockAges
    <2>2. QED BY <2>1 DEF Exists
  <1>6. QED
    BY <1>1, <1>2, <1>3, <1>4, <1>5 DEF Next

\* The history a new row is planned from covers every row there is.
LEMMA HistoryFacts ==
  ASSUME SeriesInv, SeriesTypeOK
  PROVE  /\ LatestScores(History) \in Scores
         /\ IsFiniteSet(AskedQuestions(History))
         /\ \A j \in Rows : Questions(j) \subseteq AskedQuestions(History)
  <1>1. PICK n \in Nat : Rows = 1 .. n /\ Cardinality(Rows) = n
    <2>1. PICK n \in 0 .. EffectiveTotal : Rows = 1 .. n
      BY DEF SeriesInv, QuotaInv, DenseRows
    <2>2. n \in Nat
      BY EffectiveTotalType, LifecycleConstants DEF SeriesInv, QuotaInv
    <2>3. Cardinality(1 .. n) = n
      BY <2>2, FS_Interval
    <2>4. QED BY <2>1, <2>2, <2>3
  <1>2. PICK history : /\ history = History
                       /\ DOMAIN history = 1 .. n
                       /\ \A i \in 1 .. n : /\ history[i].plan = plan[i]
                                            /\ history[i].report = scored[i]
    <2>1. PICK history : history = History
      OBVIOUS
    <2>2. history = [i \in 1 .. n |-> [plan |-> plan[i], report |-> scored[i]]]
      BY <1>1, <2>1 DEF History
    <2>3. QED BY <2>1, <2>2
  <1>3. \A i \in 1 .. n : /\ plan[i] \in PlanRecord /\ scored[i] \in Scores
                          /\ Questions(i) = {plan[i].questions[k] :
                                               k \in DOMAIN plan[i].questions}
    <2>1. 1 .. n \subseteq Slots
      BY <1>1 DEF Rows
    <2>2. \A i \in Slots : plan[i] \in PlanRecord /\ scored[i] \in Scores
      BY ReportsAssumption DEF SeriesTypeOK, PlanRecord, Scores, Asked
    <2>3. QED BY <2>1, <2>2 DEF Questions
  <1>4. LatestScores(history) \in Scores
    <2> DEFINE reported == {i \in DOMAIN history : history[i].report # NoReport}
               last == CHOOSE i \in reported : \A j \in reported : j <= i
    <2>1. CASE reported = {}
      <3>1. LatestScores(history) = NoReport
        BY <2>1 DEF LatestScores
      <3>2. QED BY <3>1 DEF Scores
    <2>2. CASE reported # {}
      <3>1. reported \in SUBSET (0 .. n)
        BY <1>2
      <3>2. \E i \in reported : \A j \in reported : j <= i
        BY <2>2, <3>1, GreatestOfNat
      <3>3. last \in reported
        BY <3>2
      <3>4. LatestScores(history) = history[last].report
        BY <2>2 DEF LatestScores
      <3> HIDE DEF last
      <3>5. QED BY <1>2, <1>3, <3>3, <3>4
    <2>3. QED BY <2>1, <2>2
  <1>5. AskedQuestions(history) = UNION {Questions(i) : i \in 1 .. n}
    <2>1. \A i \in 1 .. n :
            Questions(i) = {history[i].plan.questions[k] :
                              k \in DOMAIN history[i].plan.questions}
      BY <1>2, <1>3
    <2>2. QED BY <1>2, <2>1 DEF AskedQuestions
  <1>6. ASSUME NEW i \in 1 .. n PROVE IsFiniteSet(Questions(i))
    <2>1. PICK qs \in Seq(Asked) : qs = plan[i].questions
      BY <1>3 DEF PlanRecord
    <2>2. PICK m \in Nat : qs \in [1 .. m -> Asked]
      BY <2>1
    <2>3. qs \in Surjection(1 .. m, Questions(i))
      BY <1>3, <2>1, <2>2 DEF Surjection
    <2>4. IsFiniteSet(1 .. m)
      BY FS_Interval
    <2>5. QED BY <2>3, <2>4, FS_Surjection
  <1>7. IsFiniteSet({Questions(i) : i \in 1 .. n})
    <2>1. PICK f : f = [i \in 1 .. n |-> Questions(i)]
      OBVIOUS
    <2>2. f \in Surjection(1 .. n, {Questions(i) : i \in 1 .. n})
      BY <2>1 DEF Surjection
    <2>3. IsFiniteSet(1 .. n)
      BY FS_Interval
    <2>4. QED BY <2>2, <2>3, FS_Surjection
  <1>8. IsFiniteSet(UNION {Questions(i) : i \in 1 .. n})
    <2>1. \A T \in {Questions(i) : i \in 1 .. n} : IsFiniteSet(T)
      BY <1>6
    <2>2. QED BY <1>7, <2>1, FS_UNION
  <1>9. \A j \in 1 .. n : Questions(j) \subseteq UNION {Questions(i) : i \in 1 .. n}
    OBVIOUS
  <1>10. QED BY <1>1, <1>2, <1>4, <1>5, <1>8, <1>9

\* Of the row a step inserts, the plan is the one of its index and the history.
LEMMA NewPlan ==
  ASSUME SeriesInv, SeriesTypeOK, NEW i \in Slots
  PROVE  /\ Plans(i) \in PlanRecord
         /\ \A k \in DOMAIN Plans(i).questions :
              Plans(i).questions[k] \in AskedQuestions(History) =>
                Plans(i).questions[k][1] \in Fit /\ Plans(i).questions[k][2] = "again"
  <1>1. i \in Nat \ {0}
    BY DEF Slots
  <1>2. PICK history : /\ history = History /\ LatestScores(history) \in Scores
                       /\ IsFiniteSet(AskedQuestions(history))
    BY HistoryFacts
  <1>3. PICK p : p = plan_baseline_session(i, history)
    OBVIOUS
  <1>4. Plans(i) = p
    BY <1>2, <1>3 DEF Plans
  <1>5. /\ p \in PlanRecord
        /\ \A k \in DOMAIN p.questions :
             p.questions[k] \in AskedQuestions(history) =>
               p.questions[k][1] \in Fit /\ p.questions[k][2] = "again"
    BY <1>1, <1>2, <1>3, PlanIsNew
  <1>6. QED BY <1>2, <1>4, <1>5

\* The columns the planner and the reports fill keep their types, and a row has
\* scores exactly when it has a report.
LEMMA SeriesTypeInductive ==
  SeriesInv /\ SeriesTypeOK /\ [SeriesNext]_seriesVars => SeriesTypeOK'
  <1> SUFFICES ASSUME SeriesInv, SeriesTypeOK, [SeriesNext]_seriesVars
               PROVE  SeriesTypeOK'
    OBVIOUS
  <1>p. SeriesTypeOK <=> /\ plan \in [Slots -> PlanRecord]
                         /\ scored \in [Slots -> Reports \union {NoReport}]
                         /\ \A i \in Slots : report[i] <=> scored[i] # NoReport
    BY DEF SeriesTypeOK, PlanRecord, Asked
  <1>n. SeriesTypeOK' <=> /\ plan' \in [Slots -> PlanRecord]
                          /\ scored' \in [Slots -> Reports \union {NoReport}]
                          /\ \A i \in Slots : report'[i] <=> scored'[i] # NoReport
    BY DEF SeriesTypeOK, PlanRecord, Asked
  <1>1. CASE SeriesNext
    <2>1. \A i \in Slots : Plans(i) \in PlanRecord
      BY NewPlan
    <2>2. plan' \in [Slots -> PlanRecord]
      BY <1>1, <1>p, <2>1 DEF SeriesNext
    <2>3. /\ Saved \in SUBSET Slots
          /\ \A i \in Slots : report'[i] <=> report[i] \/ i \in Saved
      BY <1>1, ReportMoves DEF SeriesNext, SeriesInv, QuotaInv
    <2>4. CASE Saved = {}
      <3>1. scored' = scored
        BY <1>1, <2>4 DEF SeriesNext
      <3>2. QED BY <1>p, <1>n, <2>2, <2>3, <2>4, <3>1
    <2>5. CASE Saved # {}
      <3>1. PICK r \in Reports :
              scored' = [i \in Slots |-> IF i \in Saved THEN r ELSE scored[i]]
        BY <1>1, <2>5 DEF SeriesNext
      <3>2. r # NoReport
        <4>1. DOMAIN r = DimSet
          BY <3>1, ReportsAssumption
        <4>2. DOMAIN NoReport = {}
          BY DEF NoReport
        <4>3. DimSet # {}
          BY RubricAssumption
        <4>4. QED BY <4>1, <4>2, <4>3
      <3>3. \A i \in Slots : scored'[i] = IF i \in Saved THEN r ELSE scored[i]
        BY <3>1
      <3>4. \A i \in Slots : report'[i] <=> scored'[i] # NoReport
        BY <1>p, <2>3, <3>2, <3>3
      <3>5. scored' \in [Slots -> Reports \union {NoReport}]
        BY <1>p, <3>1
      <3>6. QED BY <1>n, <2>2, <3>4, <3>5
    <2>6. QED BY <2>4, <2>5
  <1>2. CASE UNCHANGED seriesVars
    BY <1>2 DEF SeriesTypeOK, seriesVars, vars, columnVars
  <1>3. QED BY <1>1, <1>2

\* An insert asks what no earlier row asked, and no other step changes a plan.
LEMMA NoQuestionInductive ==
  SeriesInv /\ SeriesTypeOK /\ NoQuestionTwice /\ [SeriesNext]_seriesVars => NoQuestionTwice'
  <1> SUFFICES ASSUME SeriesInv, SeriesTypeOK, NoQuestionTwice, [SeriesNext]_seriesVars
               PROVE  NoQuestionTwice'
    OBVIOUS
  <1>1. CASE SeriesNext
    <2>1. \A i \in Slots : /\ Exists(i) => Exists(i)' /\ plan'[i] = plan[i]
                           /\ ~Exists(i) /\ Exists(i)' => i = NextIndex /\ plan'[i] = Plans(i)
      BY <1>1, OneRowAtATime DEF SeriesNext, SeriesInv
    <2>2. \A i \in Slots : Exists(i) => Questions(i)' = Questions(i)
      BY <2>1 DEF Questions
    <2>3. ASSUME NEW i \in Slots, ~Exists(i), Exists(i)',
                 NEW j \in Slots, Exists(j),
                 NEW q \in Questions(i)', q \in Questions(j)'
          PROVE  q[1] \in Fit /\ q[2] = "again"
      <3>1. q \in AskedQuestions(History)
        BY <2>2, <2>3, HistoryFacts DEF Rows
      <3>2. PICK k \in DOMAIN Plans(i).questions : q = Plans(i).questions[k]
        BY <2>1, <2>3 DEF Questions
      <3>3. QED BY <3>1, <3>2, NewPlan
    <2>4. ASSUME NEW i \in Slots, Exists(i)', NEW j \in Slots, Exists(j)', i # j,
                 NEW q \in Questions(i)', q \in Questions(j)'
          PROVE  q[1] \in Fit /\ q[2] = "again"
      <3>1. CASE Exists(i) /\ Exists(j)
        BY <2>2, <2>4, <3>1 DEF NoQuestionTwice, Rows
      <3>2. CASE ~Exists(i) /\ Exists(j)
        BY <2>3, <2>4, <3>2
      <3>3. CASE Exists(i) /\ ~Exists(j)
        BY <2>3, <2>4, <3>3
      <3>4. CASE ~Exists(i) /\ ~Exists(j)
        BY <2>1, <2>4, <3>4
      <3>5. QED BY <3>1, <3>2, <3>3, <3>4
    <2>5. QED BY <2>4 DEF NoQuestionTwice, Rows
  <1>2. CASE UNCHANGED seriesVars
    BY <1>2 DEF NoQuestionTwice, Questions, Rows, Exists, seriesVars, vars, columnVars
  <1>3. QED BY <1>1, <1>2

\* Every plan is well formed, and across the sessions of a package no question and
\* no pressure moment comes twice, for any rubric, bank, reports, total and caps,
\* whatever was resumed, retired or scored late in between (planner.py).
THEOREM PlansHold == SeriesSpec => []PlansAreSound
  <1>1. SeriesInit => SeriesTypeOK /\ NoQuestionTwice
    <2> SUFFICES ASSUME SeriesInit PROVE SeriesTypeOK /\ NoQuestionTwice
      OBVIOUS
    <2>1. NoPlan \in PlanRecord
      BY FallbackAssumption DEF NoPlan, PlanRecord
    <2>2. /\ plan \in [Slots -> PlanRecord]
          /\ scored = [i \in Slots |-> NoReport] /\ report = [i \in Slots |-> FALSE]
      BY <2>1 DEF SeriesInit, Init
    <2>3. \A i \in Slots : ~report[i] /\ scored[i] = NoReport
      BY <2>2
    <2>4. SeriesTypeOK
      BY <2>2, <2>3 DEF SeriesTypeOK, PlanRecord, Asked
    <2>5. NoQuestionTwice
      BY DEF SeriesInit, Init, NoQuestionTwice, Rows, Exists
    <2>6. QED BY <2>4, <2>5
  <1>2. SeriesTypeOK /\ NoQuestionTwice /\ NoMomentTwice => PlansAreSound
    BY DEF PlansAreSound
  <1>3. QED
    BY <1>1, <1>2, SeriesTypeInductive, NoQuestionInductive, MomentsDiffer,
       SeriesInvAlways, PTL DEF SeriesSpec

-----------------------------------------------------------------------------
(* What the home card promises (SessionSeries, home.ts).                   *)

\* A member of a set of naturals with none above it is what Max names.
LEMMA MaxIs ==
  ASSUME NEW S \in SUBSET Nat, NEW m \in S, \A s \in S : s <= m
  PROVE  Max(S) = m
  <1>1. \A s \in S : m >= s
    OBVIOUS
  <1>2. \A x \in S : (\A s \in S : x >= s) => x = m
    OBVIOUS
  <1>3. QED BY <1>1, <1>2 DEF Max

\* A place and its dimension name each other.
LEMMA PlaceOfDim ==
  ASSUME NEW i \in DOMAIN Dims
  PROVE  Dims[i] \in DimSet /\ Place(Dims[i]) = i
  <1>1. Dims[i] \in DimSet
    BY DEF DimSet
  <1>2. Place(Dims[i]) \in DOMAIN Dims /\ Dims[Place(Dims[i])] = Dims[i]
    BY <1>1, DimsFacts
  <1>3. QED BY <1>1, <1>2, DimsAssumption

\* The dimension that the card promises is the one the planner's order begins with:
\* the web's order of places and the planner's order of dimensions are the same.
LEMMA FocusIsFirst ==
  ASSUME NEW latest \in [DimSet -> Nat]
  PROVE  PromisedFocus(Dims, latest, Weight, Indirect) = Ordered(DimSet \ Indirect, latest)[1]
  <1>1. PICK S \in SUBSET DimSet : S = DimSet \ Indirect
    OBVIOUS
  <1>2. latest \in Scores /\ latest # NoReport
    <2>1. DOMAIN latest = DimSet /\ DOMAIN NoReport = {} /\ DimSet # {}
      BY RubricAssumption DEF NoReport
    <2>2. QED BY <2>1 DEF Scores
  <1>3. PICK d : d = Ordered(S, latest)[1]
    OBVIOUS
  <1>4. d \in S /\ \A e \in S : ~Before(latest, e, d)
    <2>1. IsFiniteSet(S) /\ S # {}
      BY <1>1, RubricAssumption, DimsFacts, FS_Subset
    <2>2. Cardinality(S) \in Nat /\ Cardinality(S) # 0
      BY <2>1, FS_CardinalityType, FS_EmptySet
    <2>3. 1 \in 1 .. Cardinality(S)
      BY <2>2
    <2>4. d \in S /\ Cardinality({e \in S : Before(latest, e, d)}) = 1 - 1
      BY <1>2, <1>3, <2>3, OrderedMember
    <2>5. {e \in S : Before(latest, e, d)} \in SUBSET S
      OBVIOUS
    <2>6. IsFiniteSet({e \in S : Before(latest, e, d)})
      BY <2>1, <2>5, FS_Subset
    <2>7. {e \in S : Before(latest, e, d)} = {}
      BY <2>4, <2>6, FS_EmptySet
    <2>8. QED BY <2>4, <2>7
  <1> DEFINE direct == {i \in DOMAIN Dims : Dims[i] \notin Indirect}
             wins(i, j) ==
               \/ latest[Dims[i]] < latest[Dims[j]]
               \/ latest[Dims[i]] = latest[Dims[j]] /\ Weight[Dims[i]] > Weight[Dims[j]]
               \/ /\ latest[Dims[i]] = latest[Dims[j]] /\ Weight[Dims[i]] = Weight[Dims[j]]
                  /\ i < j
             first == CHOOSE i \in direct : \A j \in direct \ {i} : wins(i, j)
  <1>5. PromisedFocus(Dims, latest, Weight, Indirect) = Dims[first]
    BY DEF PromisedFocus
  <1>6. \A i, j \in direct :
          /\ Dims[i] \in S
          /\ wins(i, j) <=> Before(latest, Dims[i], Dims[j])
    <2> SUFFICES ASSUME NEW i \in direct, NEW j \in direct
                 PROVE  /\ Dims[i] \in S
                        /\ wins(i, j) <=> Before(latest, Dims[i], Dims[j])
      OBVIOUS
    <2>1. Place(Dims[i]) = i /\ Place(Dims[j]) = j /\ Dims[i] \in DimSet
      BY PlaceOfDim
    <2>2. QED BY <1>1, <1>2, <2>1 DEF Before
  <1>7. \A e, f \in S : e = f \/ Before(latest, e, f) \/ Before(latest, f, e)
    <2>1. PICK below : below = [e \in S |-> {f \in S : Before(latest, f, e)}]
      OBVIOUS
    <2>2. LinesUp(S, below)
      BY <1>2, <2>1, DimensionsLineUp
    <2>3. QED BY <2>1, <2>2 DEF LinesUp
  <1>8. PICK p \in direct : Dims[p] = d
    <2>1. Place(d) \in DOMAIN Dims /\ Dims[Place(d)] = d
      BY <1>4, DimsFacts
    <2>2. QED BY <1>1, <1>4, <2>1
  <1> HIDE DEF wins, direct
  <1>9. \A j \in direct \ {p} : wins(p, j)
    <2>1. ASSUME NEW j \in direct, j # p PROVE wins(p, j)
      <3>1. Dims[j] # Dims[p]
        BY <1>8, <2>1, PlaceOfDim DEF direct
      <3>2. Dims[j] \in S /\ Dims[p] \in S
        BY <1>6, <1>8, <2>1
      <3>3. Before(latest, Dims[p], Dims[j])
        BY <1>4, <1>7, <1>8, <3>1, <3>2
      <3>4. QED BY <1>6, <1>8, <2>1, <3>3
    <2>2. QED BY <2>1
  <1>10. \A i \in direct : (\A j \in direct \ {i} : wins(i, j)) => i = p
    <2>1. ASSUME NEW i \in direct, i # p, wins(i, p) PROVE FALSE
      <3>1. Before(latest, Dims[i], d) /\ Dims[i] \in S
        BY <1>6, <1>8, <2>1
      <3>2. QED BY <1>4, <3>1
    <2>2. QED BY <1>8, <2>1
  <1>11. first = p
    BY <1>8, <1>9, <1>10
  <1>12. QED BY <1>1, <1>3, <1>5, <1>8, <1>11

\* The row that is inserted opens on the dimension the home ticket names.
LEMMA PromiseInductive ==
  ASSUME SeriesInv, SeriesTypeOK, SeriesNext, NEW i \in Slots,
         ~Exists(i), Exists(i)', LastScored # {},
         \A k \in Rows : report[k] => status[k] = "scored"
  PROVE  plan'[i].questions[1][1] = HomeFocus
  <1>1. PICK n \in Nat : Rows = 1 .. n /\ Cardinality(Rows) = n
    <2>1. PICK n \in 0 .. EffectiveTotal : Rows = 1 .. n
      BY DEF SeriesInv, QuotaInv, DenseRows
    <2>2. n \in Nat
      BY EffectiveTotalType, LifecycleConstants DEF SeriesInv, QuotaInv
    <2>3. Cardinality(1 .. n) = n
      BY <2>2, FS_Interval
    <2>4. QED BY <2>1, <2>2, <2>3
  <1>2. PICK history : /\ history = History
                       /\ DOMAIN history = 1 .. n
                       /\ \A k \in 1 .. n : history[k].report = scored[k]
    <2>1. PICK history : history = History
      OBVIOUS
    <2>2. history = [k \in 1 .. n |-> [plan |-> plan[k], report |-> scored[k]]]
      BY <1>1, <2>1 DEF History
    <2>3. QED BY <2>1, <2>2
  <1>3. \A k \in 1 .. n : k \in Slots /\ (report[k] <=> scored[k] # NoReport)
    BY <1>1 DEF Rows, SeriesTypeOK
  <1>4. LastScored = {k \in DOMAIN history : history[k].report # NoReport}
    BY <1>1, <1>2, <1>3 DEF LastScored
  <1>5. PICK m \in LastScored : \A k \in LastScored : k <= m
    <2>1. LastScored \in SUBSET (0 .. n)
      BY <1>2, <1>4
    <2>2. QED BY <2>1, GreatestOfNat
  <1>6. LastScored \in SUBSET Nat /\ m \in 1 .. n
    BY <1>2, <1>4
  <1>7. Max(LastScored) = m
    BY <1>5, <1>6, MaxIs
  <1>8. LatestScores(history) = scored[m]
    <2> DEFINE reported == {k \in DOMAIN history : history[k].report # NoReport}
               last == CHOOSE k \in reported : \A j \in reported : j <= k
    <2>1. LatestScores(history) = history[last].report
      BY <1>4 DEF LatestScores
    <2>2. last = m
      <3>1. m \in reported /\ \A k \in reported : k <= m
        BY <1>4, <1>5
      <3>2. \A k \in reported : (\A j \in reported : j <= k) => k = m
        BY <1>4, <1>6, <3>1
      <3>3. QED BY <3>1, <3>2
    <2> HIDE DEF last
    <2>3. QED BY <1>2, <1>6, <2>1, <2>2
  <1>9. PICK latest \in [DimSet -> Nat] : latest = scored[m]
    <2>1. scored[m] \in Reports \union {NoReport} /\ scored[m] # NoReport
      BY <1>2, <1>3, <1>4, <1>5, <1>6 DEF SeriesTypeOK
    <2>2. QED BY <2>1, ReportsAssumption
  <1>10. HomeFocus = Ordered(DimSet \ Indirect, latest)[1]
    BY <1>7, <1>9, FocusIsFirst DEF HomeFocus
  <1>11. PICK order : order = Ordered(DimSet \ Indirect, latest)
    OBVIOUS
  <1>12. 1 \in DOMAIN order /\ order[1] \in DimSet
    <2>1. PICK S \in SUBSET DimSet : S = DimSet \ Indirect
      OBVIOUS
    <2>2. IsFiniteSet(S) /\ S # {}
      BY <2>1, RubricAssumption, DimsFacts, FS_Subset
    <2>3. Cardinality(S) \in Nat /\ Cardinality(S) # 0
      BY <2>2, FS_CardinalityType, FS_EmptySet
    <2>4. latest \in Scores
      BY DEF Scores
    <2>5. DOMAIN order = 1 .. Cardinality(S) /\ \A k \in 1 .. Cardinality(S) : order[k] \in S
      BY <1>11, <2>1, <2>4, OrderedMember
    <2>6. QED BY <2>3, <2>5
  <1>13. plan'[i] = Plans(i)
    BY DEF SeriesNext
  <1>14. PICK asked : asked = AskedQuestions(history) /\ IsFiniteSet(asked)
    BY <1>2, HistoryFacts
  <1>15. Plans(i).questions[1] = QuestionFor(order[1], i, asked)
    <2>1. PICK p : p = plan_baseline_session(i, history)
      OBVIOUS
    <2>2. p.questions = [k \in DOMAIN order |-> QuestionFor(order[k], i, asked)]
      BY <1>8, <1>9, <1>11, <1>14, <2>1 DEF plan_baseline_session
    <2>3. Plans(i) = p
      BY <1>2, <2>1 DEF Plans
    <2>4. QED BY <1>12, <2>2, <2>3
  <1>16. QuestionFor(order[1], i, asked)[1] = order[1]
    <2>1. i \in Nat \ {0}
      BY DEF Slots
    <2>2. PICK d \in DimSet : d = order[1]
      BY <1>12
    <2>3. QuestionFor(d, i, asked)[1] = d
      BY <1>14, <2>1, QuestionIsNew
    <2>4. QED BY <2>2, <2>3
  <1>17. QED BY <1>10, <1>11, <1>13, <1>15, <1>16

\* While home says that a package is complete, a start finds no row that the list
\* shows, and no free index.
LEMMA CompleteMeansDone ==
  ASSUME SeriesInv, access = "open", HomeNext = 0, CreateAnswer = "session"
  PROVE  \E i \in Resumable : status[i] = "abandoned"
  <1> SUFFICES ASSUME \A i \in Resumable : status[i] # "abandoned" PROVE FALSE
    OBVIOUS
  <1>1. PICK n \in 0 .. Total : Rows = 1 .. n
    BY EffectiveTotalType, LifecycleConstants DEF SeriesInv, QuotaInv, DenseRows
  <1>2. Total \in Nat /\ n \in Nat
    BY <1>1, LifecycleConstants
  <1> DEFINE owned == DOMAIN ListedRows(St) \intersect 1 .. Total
             resumable == {i \in owned : ListedRows(St)[i] \in Open}
             next == Max({0} \union owned) + 1
  <1>3. owned = {i \in 1 .. n : status[i] # "abandoned"}
        /\ \A i \in owned : ListedRows(St)[i] = status[i]
    BY <1>1, <1>2 DEF ListedRows, St
  <1>4. nextSessionNumber(ListedRows(St), Total) = 0
    BY DEF HomeNext, effectiveTotalSessions
  <1>5. resumable = {} /\ ~(next <= Total)
    <2>1. resumable # {} => Min(resumable) \in resumable
      <3>1. resumable \in SUBSET Nat
        BY <1>3
      <3>2. QED BY <3>1, MinOfNat
    <2>2. resumable # {} => Min(resumable) # 0
      BY <1>3, <2>1
    <2>3. PICK m \in {0} \union owned : \A k \in {0} \union owned : k <= m
      <3>1. {0} \union owned \in SUBSET (0 .. n)
        BY <1>2, <1>3
      <3>2. QED BY <1>2, <3>1, GreatestOfNat
    <2>4. next = m + 1 /\ m \in Nat
      <3>1. {0} \union owned \in SUBSET Nat
        BY <1>3
      <3>2. QED BY <2>3, <3>1, MaxIs
    <2> HIDE DEF owned, next
    <2>5. nextSessionNumber(ListedRows(St), Total) =
            IF resumable # {} THEN Min(resumable) ELSE IF next <= Total THEN next ELSE 0
      BY DEF nextSessionNumber, owned, next
    <2>6. QED BY <1>4, <2>2, <2>4, <2>5
  <1>6. Resumable = {}
    <2>1. ASSUME NEW i \in Resumable PROVE i \in resumable
      <3>1. i \in OpenRows
        BY <2>1, OpenRowsSplit
      <3>2. i \in Rows /\ status[i] \in Open /\ status[i] # "abandoned"
        BY <2>1, <3>1 DEF OpenRows
      <3>3. QED BY <1>1, <1>3, <3>2
    <2>2. QED BY <1>5, <2>1
  <1>7. ~Exhausted(OutOfResumes)
    BY <1>6 DEF CreateAnswer
  <1>8. PICK k \in Nat : Rows = 1 .. k /\ k + 1 <= Total
    BY <1>6, <1>7, NextIndexFits DEF SeriesInv, EffectiveTotal
  <1>9. n + 1 <= Total
    <2>1. n <= k
      <3>1. n = 0 \/ n \in 1 .. k
        BY <1>1, <1>2, <1>8
      <3>2. QED BY <1>2, <3>1
    <2>2. QED BY <1>2, <1>8, <2>1
  <1>10. next <= Total
    <2>1. PICK m \in {0} \union owned : \A j \in {0} \union owned : j <= m
      <3>1. {0} \union owned \in SUBSET (0 .. n)
        BY <1>2, <1>3
      <3>2. QED BY <1>2, <3>1, GreatestOfNat
    <2>2. {0} \union owned \in SUBSET Nat
      BY <1>3
    <2>3. next = m + 1
      BY <2>1, <2>2, MaxIs
    <2>4. m \in Nat /\ m <= n
      BY <1>2, <1>3, <2>1
    <2> HIDE DEF next
    <2>5. QED BY <1>2, <1>9, <2>3, <2>4
  <1>11. QED BY <1>5, <1>10

\* The home card keeps its word, on the dimension it names and on the package it
\* calls complete, whatever the reports and the order they are saved in (home.ts).
THEOREM CardHolds == SeriesSpec => CardKeepsItsWord
  <1>1. SeriesInv => CompleteIsComplete
    BY CompleteMeansDone DEF CompleteIsComplete
  <1>2. PlansAreSound => SeriesTypeOK
    BY DEF PlansAreSound
  <1>3. SeriesInv /\ SeriesTypeOK /\ [SeriesNext]_seriesVars =>
          [\A i \in Slots :
             /\ ~Exists(i) /\ Exists(i)'
             /\ LastScored # {}
             /\ \A k \in Rows : report[k] => status[k] = "scored"
             => plan'[i].questions[1][1] = HomeFocus]_seriesVars
    BY PromiseInductive
  <1>4. QED
    BY <1>1, <1>2, <1>3, PlansHold, SeriesInvAlways, PTL
       DEF SeriesSpec, CardKeepsItsWord, PromiseKept

-----------------------------------------------------------------------------
(* What two pages tell of one package (SeriesPages).                       *)

\* The screens' invariant: rows without a gap, none of them quick.
PagesInv == SeriesInv /\ NoQuickRow

\* The rows of a standard package, what is listed of them and what is used up.
LEMMA RowsOnPages ==
  ASSUME PagesInv
  PROVE  /\ Total \in Nat \ {0} /\ \E n \in 0 .. Total : Rows = 1 .. n
         /\ Rows \in SUBSET Nat /\ 0 \notin Rows
         /\ DOMAIN St = Rows /\ \A i \in Rows : St[i] = status[i]
         /\ DOMAIN ListedRows(St) = {i \in Rows : status[i] # "abandoned"}
         /\ \A i \in DOMAIN ListedRows(St) : ListedRows(St)[i] = status[i]
         /\ Used(status) = {i \in Rows : status[i] \in SlotConsuming}
         /\ \A i \in Rows : \/ status[i] \in Open /\ status[i] \notin SlotConsuming
                            \/ status[i] \in {"scoring", "scored", "failed_permanent"}
                               /\ status[i] \in SlotConsuming /\ status[i] \notin Open
  <1>1. Total \in Nat \ {0} /\ \E n \in 0 .. Total : Rows = 1 .. n
    BY EffectiveTotalType, LifecycleConstants DEF PagesInv, SeriesInv, QuotaInv, DenseRows
  <1>2. Rows \in SUBSET Nat /\ 0 \notin Rows
    BY DEF Rows, Slots
  <1>3. DOMAIN St = Rows /\ \A i \in Rows : St[i] = status[i]
    BY DEF St
  <1>4. /\ DOMAIN ListedRows(St) = {i \in Rows : status[i] # "abandoned"}
        /\ \A i \in DOMAIN ListedRows(St) : ListedRows(St)[i] = status[i]
    BY <1>3 DEF ListedRows
  <1>5. Used(status) = {i \in Rows : status[i] \in SlotConsuming}
    BY DEF Used, Rows, Exists, SlotConsuming
  <1>6. \A i \in Rows : \/ status[i] \in Open /\ status[i] \notin SlotConsuming
                        \/ status[i] \in {"scoring", "scored", "failed_permanent"}
                           /\ status[i] \in SlotConsuming /\ status[i] \notin Open
    BY DEF PagesInv, SeriesInv, QuotaInv, TypeOK, NoQuickRow, Rows, Exists, Status, Retriable,
           SlotConsuming, Open
  <1>7. QED BY <1>1, <1>2, <1>3, <1>4, <1>5, <1>6

\* The next session of a list of rows is an open row or the index after the last, and
\* there is none only when no row is open and the last index is taken.
LEMMA NextSession ==
  ASSUME NEW total \in Nat, NEW st, DOMAIN st \in SUBSET (1 .. Total), Total \in Nat
  PROVE  LET next == nextSessionNumber(st, total)
             owned == DOMAIN st \intersect 1 .. total
         IN  /\ next \in 0 .. total
             /\ next # 0 => \/ next \in owned /\ st[next] \in Open
                            \/ next \notin DOMAIN st /\ \A i \in owned : st[i] \notin Open
             /\ next = 0 => /\ \A i \in owned : st[i] \notin Open
                            /\ \E i \in {0} \union owned : i = total
  <1> DEFINE owned == DOMAIN st \intersect 1 .. total
             open == {i \in owned : st[i] \in Open}
             top == Max({0} \union owned)
             next == nextSessionNumber(st, total)
  <1>1. next = IF open # {} THEN Min(open) ELSE IF top + 1 <= total THEN top + 1 ELSE 0
    BY DEF nextSessionNumber
  <1>2. /\ top \in {0} \union owned /\ \A i \in {0} \union owned : i <= top
    <2>1. {0} \union owned \in SUBSET (0 .. total)
      OBVIOUS
    <2>2. PICK m \in {0} \union owned : \A i \in {0} \union owned : i <= m
      BY <2>1, GreatestOfNat
    <2>3. {0} \union owned \in SUBSET Nat
      OBVIOUS
    <2>4. top = m
      BY <2>2, <2>3, MaxIs
    <2>5. QED BY <2>2, <2>4
  <1>3. open # {} => Min(open) \in open
    <2>1. open \in SUBSET Nat
      OBVIOUS
    <2>2. QED BY <2>1, MinOfNat
  <1>4. owned \in SUBSET (1 .. total) /\ open \in SUBSET owned
    OBVIOUS
  <1>5. \A i \in open : st[i] \in Open /\ i \in owned
    OBVIOUS
  <1>6. \A i \in owned : st[i] \in Open => i \in open
    OBVIOUS
  <1>7. \A i \in DOMAIN st : i \in 1 .. total => i \in owned
    OBVIOUS
  <1> HIDE DEF owned, open, top, next
  <1>8. CASE open # {}
    <2>1. next \in open
      BY <1>1, <1>3, <1>8
    <2>2. next \in 1 .. total
      BY <1>4, <2>1
    <2>3. QED BY <1>5, <2>1, <2>2 DEF next, owned
  <1>9. CASE open = {} /\ top + 1 <= total
    <2>1. next = top + 1 /\ top \in 0 .. total
      BY <1>1, <1>2, <1>4, <1>9
    <2>2. next \in 1 .. total /\ next \notin owned
      BY <1>2, <1>9, <2>1
    <2>3. next \notin DOMAIN st /\ \A i \in owned : st[i] \notin Open
      BY <1>6, <1>7, <1>9, <2>2
    <2>4. QED BY <2>2, <2>3 DEF next, owned
  <1>10. CASE open = {} /\ ~(top + 1 <= total)
    <2>1. next = 0 /\ top \in 0 .. total
      BY <1>1, <1>2, <1>4, <1>10
    <2>2. top = total /\ top \in {0} \union owned
      BY <1>2, <1>10, <2>1
    <2>3. \A i \in owned : st[i] \notin Open
      BY <1>6, <1>10
    <2>4. QED BY <2>1, <2>2, <2>3 DEF next, owned
  <1>11. QED BY <1>8, <1>9, <1>10

\* A package row says what the access, the compile and the rows are.
LEMMA ViewFacts ==
  ASSUME PagesInv, NEW pkg \in Views
  PROVE  /\ pkg # NoPackage /\ pkg.kind = "standard" /\ pkg.total = Total
         /\ pkg.used = Cardinality(Used(status))
         /\ pkg.compile = "ready" \/ pkg.compile \in {"compiling", "failed"}
         /\ isUnlocked(pkg) <=> access # "locked"
         /\ pkg.paid => access # "locked"
         /\ ~pkg.comped /\ access # "locked" => pkg.paid
         /\ Offered(pkg) = effectiveTotalSessions(access # "locked", Total)
         /\ pkg.paid => OfferedWhenPaid(pkg) = Total
         /\ expiryLine(pkg) = "expired" <=> access = "expired"
  <1>1. PICK c \in Compiles, u \in Unlocks :
          pkg = [kind |-> "standard", compile |-> c, rubric |-> ready, paid |-> u[1],
                 comped |-> u[2],
                 daysLeft |-> CASE access = "locked" -> NoWindow
                                [] access = "expired" -> 0 [] OTHER -> 1,
                 used |-> Cardinality(Used(status)), total |-> Total]
    BY DEF Views
  <1>2. /\ pkg.kind = "standard" /\ pkg.total = Total /\ pkg.used = Cardinality(Used(status))
        /\ pkg.compile = c /\ pkg.paid = u[1] /\ pkg.comped = u[2]
        /\ pkg.daysLeft = CASE access = "locked" -> NoWindow
                            [] access = "expired" -> 0 [] OTHER -> 1
    BY <1>1
  <1>3. pkg # NoPackage
    <2>1. NoPackage.kind = "none"
      BY DEF NoPackage
    <2>2. QED BY <1>2, <2>1
  <1>4. c = "ready" \/ c \in {"compiling", "failed"}
    BY <1>1 DEF Compiles
  <1>5. \/ access = "locked" /\ u = <<FALSE, FALSE>>
        \/ access # "locked" /\ u \in {<<TRUE, FALSE>>, <<FALSE, TRUE>>}
    BY <1>1 DEF Unlocks
  <1>a. /\ u[1] \/ u[2] <=> access # "locked"
        /\ u[1] => access # "locked"
        /\ ~u[2] /\ access # "locked" => u[1]
    <2>1. CASE access = "locked" /\ u = <<FALSE, FALSE>>
      BY <2>1
    <2>2. CASE access # "locked" /\ u = <<TRUE, FALSE>>
      BY <2>2
    <2>3. CASE access # "locked" /\ u = <<FALSE, TRUE>>
      BY <2>3
    <2>4. QED BY <1>5, <2>1, <2>2, <2>3
  <1>b. (pkg.paid <=> u[1]) /\ (pkg.comped <=> u[2])
    BY <1>2, Zenon
  <1>6. isUnlocked(pkg) <=> access # "locked"
    BY <1>a, <1>b, Zenon DEF isUnlocked
  <1>7. (pkg.paid => access # "locked") /\ (~pkg.comped /\ access # "locked" => pkg.paid)
    BY <1>a, <1>b, Zenon
  <1>8. Offered(pkg) = effectiveTotalSessions(access # "locked", Total)
    BY <1>2, <1>6 DEF Offered, effectiveTotalSessions
  <1>9. pkg.paid => OfferedWhenPaid(pkg) = Total
    BY <1>2 DEF OfferedWhenPaid, effectiveTotalSessions, isUnpaid
  <1>10. expiryLine(pkg) = "expired" <=> access = "expired"
    <2>1. CASE access = "locked"
      BY <1>6, <2>1 DEF expiryLine
    <2>2. CASE access = "expired"
      <3>1. pkg.daysLeft = 0
        BY <1>2, <2>2
      <3>2. QED BY <1>6, <2>2, <3>1, WindowAssumption DEF expiryLine
    <2>3. CASE access \notin {"locked", "expired"}
      <3>1. pkg.daysLeft = 1
        BY <1>2, <2>3
      <3>2. QED BY <1>6, <2>3, <3>1, WindowAssumption DEF expiryLine
    <2>4. QED BY <2>1, <2>2, <2>3
  <1>11. QED BY <1>2, <1>3, <1>4, <1>6, <1>7, <1>8, <1>9, <1>10

\* Without an open row all rows are used up; a full package has no open row.
LEMMA UsedUp ==
  ASSUME PagesInv
  PROVE  /\ IsFiniteSet(Rows) /\ Cardinality(Used(status)) \in Nat
         /\ Cardinality(Used(status)) >= Total =>
              Rows = 1 .. Total /\ \A i \in Rows : status[i] \notin Open
         /\ Rows = 1 .. Total /\ (\A i \in Rows : status[i] \notin Open) =>
              Cardinality(Used(status)) = Total
  <1>1. PICK n \in 0 .. Total : Rows = 1 .. n
    BY RowsOnPages
  <1>2. Total \in Nat /\ n \in Nat /\ IsFiniteSet(Rows) /\ Cardinality(Rows) = n
    <2>1. Total \in Nat /\ n \in Nat
      BY <1>1, RowsOnPages
    <2>2. QED BY <1>1, <2>1, FS_Interval
  <1>3. Used(status) \in SUBSET Rows
    BY RowsOnPages
  <1>4. /\ IsFiniteSet(Used(status)) /\ Cardinality(Used(status)) <= n
        /\ Cardinality(Used(status)) = n => Used(status) = Rows
    BY <1>2, <1>3, FS_Subset
  <1>5. Cardinality(Used(status)) \in Nat
    BY <1>4, FS_CardinalityType
  <1>6. ASSUME Cardinality(Used(status)) >= Total
        PROVE  Rows = 1 .. Total /\ \A i \in Rows : status[i] \notin Open
    <2>1. n = Total /\ Cardinality(Used(status)) = n
      BY <1>1, <1>2, <1>4, <1>5, <1>6
    <2>2. Used(status) = Rows
      BY <1>4, <2>1
    <2>3. \A i \in Rows : status[i] \in SlotConsuming
      BY <2>2, RowsOnPages
    <2>4. QED BY <1>1, <2>1, <2>3, RowsOnPages
  <1>7. ASSUME Rows = 1 .. Total, \A i \in Rows : status[i] \notin Open
        PROVE  Cardinality(Used(status)) = Total
    <2>1. Used(status) = Rows
      BY <1>7, RowsOnPages
    <2>2. QED BY <1>2, <1>7, <2>1, FS_Interval
  <1>8. QED BY <1>2, <1>5, <1>6, <1>7

\* The lists a page goes by have indices of the package only.
LEMMA ListsFit ==
  ASSUME PagesInv
  PROVE  /\ Total \in Nat
         /\ DOMAIN St \in SUBSET (1 .. Total)
         /\ DOMAIN ListedRows(St) \in SUBSET (1 .. Total)
  <1>1. PICK n \in 0 .. Total : Rows = 1 .. n
    BY RowsOnPages
  <1>2. Total \in Nat /\ Rows \in SUBSET (1 .. Total)
    BY <1>1, RowsOnPages
  <1>3. QED BY <1>2, RowsOnPages

\* The doors home offers beside the lists.
LEMMA HomeOffers ==
  ASSUME PagesInv, NEW pkg \in Views, pkg.compile = "ready" \/ pkg.compile = "compiling"
  PROVE  LET next == nextSessionNumber(ListedRows(St), Offered(pkg))
             offers == {d.kind : d \in Home(pkg, Fetches).doors}
         IN  /\ next = 0 => offers \intersect {"start", "reclaim"} = {}
             /\ offers \intersect {"pricing", "unlock"} # {} => next = 0
  <1> DEFINE next == nextSessionNumber(ListedRows(St), Offered(pkg))
             ticket == SessionTicket(next, pkg, Dropped)
             home == Home(pkg, Fetches)
  <1>1. home.doors = {ticket, Door("packages", 0)} \union SessionList(ListedRows(St))
    <2>1. /\ {"list", "sessions"} \subseteq Fetches /\ "list" \in Fetches
          /\ "sessions" \in Fetches /\ pkg # NoPackage /\ pkg.compile # "failed"
      BY ViewFacts DEF Fetches
    <2> HIDE DEF ticket
    <2>2. home = Page("dashboard", DoneLegs(journeyLegs(ListedRows(St), Offered(pkg))),
                      {ticket, Door("packages", 0)} \union SessionList(ListedRows(St)),
                      scoringStageLine(ListedRows(St)) # 0)
      BY <2>1 DEF Home, HomePage, ticket
    <2>3. QED BY <2>2 DEF Page
  <1>2. next = 0 => ticket.kind \in {"unlock", "pricing"}
    BY DEF SessionTicket, Door
  <1>3. next # 0 => ticket.kind \in {"reclaim", "start"}
    BY DEF SessionTicket, Door
  <1>4. \A d \in home.doors : d = ticket \/ d.kind \in {"packages", "detail"}
    BY <1>1 DEF SessionList, Door
  <1> HIDE DEF home, ticket, next
  <1>5. next = 0 => {d.kind : d \in home.doors} \intersect {"start", "reclaim"} = {}
    BY <1>2, <1>4
  <1>6. {d.kind : d \in home.doors} \intersect {"pricing", "unlock"} # {} => next = 0
    BY <1>3, <1>4
  <1>7. QED BY <1>5, <1>6 DEF home, next

\* The pill, the ticket and the expiry line go by the same rows and the same access.
LEMMA PillHolds == PagesInv => PillIsTrue
  <1> SUFFICES ASSUME PagesInv, NEW pkg \in Views
               PROVE  /\ expiryLine(pkg) = "expired" <=> CreateAnswer = "package-expired"
                      /\ pkg.compile = "ready" /\ isUnlocked(pkg) =>
                           LET complete == packagePill(pkg, Cardinality(Rows)) = "Complete"
                               offers == {d.kind : d \in Home(pkg, Fetches).doors}
                           IN /\ complete => offers \intersect {"start", "reclaim"} = {}
                              /\ offers \intersect {"pricing", "unlock"} # {} =>
                                   complete \/ SomeAbandoned
    BY DEF PillIsTrue
  <1>1. CreateAnswer = "package-expired" <=> access = "expired"
    <2>1. CASE access = "expired"
      BY <2>1 DEF CreateAnswer
    <2>2. CASE access # "expired"
      BY <2>2 DEF CreateAnswer
    <2>3. QED BY <2>1, <2>2
  <1>2. ASSUME pkg.compile = "ready", isUnlocked(pkg)
        PROVE  LET complete == packagePill(pkg, Cardinality(Rows)) = "Complete"
                   offers == {d.kind : d \in Home(pkg, Fetches).doors}
               IN /\ complete => offers \intersect {"start", "reclaim"} = {}
                  /\ offers \intersect {"pricing", "unlock"} # {} => complete \/ SomeAbandoned
    <2>1. Offered(pkg) = Total /\ pkg.used = Cardinality(Used(status))
      BY <1>2, ViewFacts DEF effectiveTotalSessions
    <2>2. Total \in Nat \ {0} /\ Cardinality(Used(status)) \in Nat
      BY RowsOnPages, UsedUp
    <2>3. packagePill(pkg, Cardinality(Rows)) = "Complete" <=> Cardinality(Used(status)) >= Total
      <3>1. CASE pkg.used >= Offered(pkg)
        BY <1>2, <2>1, <2>2, <3>1 DEF packagePill
      <3>2. CASE ~(pkg.used >= Offered(pkg))
        BY <1>2, <2>1, <2>2, <3>2 DEF packagePill
      <3>3. QED BY <2>1, <3>1, <3>2
    <2>4. PICK next : next = nextSessionNumber(ListedRows(St), Total)
      OBVIOUS
    <2>5. /\ next = 0 =>
               {d.kind : d \in Home(pkg, Fetches).doors} \intersect {"start", "reclaim"} = {}
          /\ {d.kind : d \in Home(pkg, Fetches).doors} \intersect {"pricing", "unlock"} # {} =>
               next = 0
      BY <1>2, <2>1, <2>4, HomeOffers
    <2>6. /\ next # 0 => \/ next \in DOMAIN ListedRows(St) /\ ListedRows(St)[next] \in Open
                         \/ next \in 1 .. Total /\ next \notin DOMAIN ListedRows(St)
          /\ next = 0 =>
               /\ \A i \in DOMAIN ListedRows(St) : ListedRows(St)[i] \notin Open
               /\ Total \in DOMAIN ListedRows(St)
      BY <2>2, <2>4, ListsFit, NextSession
    <2>7. Cardinality(Used(status)) >= Total => next = 0
      <3> SUFFICES ASSUME Cardinality(Used(status)) >= Total, next # 0 PROVE FALSE
        OBVIOUS
      <3>1. Rows = 1 .. Total /\ \A i \in Rows : status[i] \notin Open
        BY UsedUp
      <3>2. \A i \in Rows : status[i] # "abandoned"
        BY <3>1 DEF Open
      <3>3. /\ DOMAIN ListedRows(St) = 1 .. Total
            /\ \A i \in 1 .. Total : ListedRows(St)[i] \notin Open
        BY <3>1, <3>2, RowsOnPages
      <3>4. QED BY <2>6, <3>3
    <2>8. next = 0 => Cardinality(Used(status)) >= Total \/ SomeAbandoned
      <3> SUFFICES ASSUME next = 0, ~SomeAbandoned PROVE Cardinality(Used(status)) >= Total
        OBVIOUS
      <3>1. DOMAIN ListedRows(St) = Rows
        BY RowsOnPages DEF SomeAbandoned
      <3>2. (\A i \in Rows : status[i] \notin Open) /\ Total \in Rows
        BY <2>6, <3>1, RowsOnPages
      <3>3. Rows = 1 .. Total
        <4>1. PICK n \in 0 .. Total : Rows = 1 .. n
          BY RowsOnPages
        <4>2. n = Total
          BY <2>2, <3>2, <4>1
        <4>3. QED BY <4>1, <4>2
      <3>4. QED BY <2>2, <3>2, <3>3, UsedUp
    <2>9. QED BY <2>3, <2>5, <2>7, <2>8
  <1>3. QED BY <1>1, <1>2, ViewFacts

\* A page whose doors to a session all lead to one names no other.
LEMMA OneDoor ==
  ASSUME NEW page, NEW next,
         \A d \in page.doors : d.kind \in {"start", "reclaim"} => d.to \in {0, next}
  PROVE  Named(page) \in SUBSET {next}
  BY DEF Named

\* Home, the progress page on either of its sources and the rubric page go by one
\* list when no row is abandoned.
LEMMA OneNextHolds == PagesInv => OneNextSession
  <1> SUFFICES ASSUME PagesInv, ~SomeAbandoned, NEW pkg \in Views, pkg.paid
               PROVE  Cardinality(Named(Home(pkg, Fetches)) \union Named(RubricOf(pkg, Fetches))
                                  \union Named(Progress(pkg, Fetches))
                                  \union Named(Progress(pkg, Fetches \ {"progress"}))) <= 1
    BY DEF OneNextSession
  <1>1. ListedRows(St) = St
    <2>1. {k \in DOMAIN St : St[k] # "abandoned"} = Rows
      BY RowsOnPages DEF SomeAbandoned
    <2>2. ListedRows(St) = [i \in Rows |-> St[i]]
      BY <2>1 DEF ListedRows
    <2>3. QED BY <2>2 DEF St
  <1>2. /\ pkg # NoPackage /\ pkg.total = Total /\ Offered(pkg) = Total
        /\ OfferedWhenPaid(pkg) = Total
        /\ pkg.compile = "ready" \/ pkg.compile \in {"compiling", "failed"}
    BY ViewFacts DEF effectiveTotalSessions
  <1>3. PICK next : next = nextSessionNumber(St, Total)
    OBVIOUS
  <1>4. Named(Home(pkg, Fetches)) \in SUBSET {next}
    <2> DEFINE ticket == SessionTicket(next, pkg, Dropped)
    <2>1. ticket.kind \in {"start", "reclaim"} => ticket.to \in {0, next}
      BY DEF SessionTicket, Door
    <2> HIDE DEF ticket
    <2>2. \/ Home(pkg, Fetches).doors = {Door("retry", 0), Door("new", 0), Door("packages", 0)}
          \/ Home(pkg, Fetches).doors = {ticket, Door("packages", 0)} \union SessionList(St)
      <3>1. /\ {"list", "sessions"} \subseteq Fetches /\ "list" \in Fetches
            /\ "sessions" \in Fetches
        BY DEF Fetches
      <3>2. CASE pkg.compile = "failed"
        BY <1>2, <3>1, <3>2 DEF Home, HomePage, Page
      <3>3. CASE pkg.compile # "failed"
        BY <1>1, <1>2, <1>3, <3>1, <3>3 DEF Home, HomePage, Page, ticket
      <3>4. QED BY <3>2, <3>3
    <2>3. \A d \in Home(pkg, Fetches).doors :
            d.kind \in {"start", "reclaim"} => d.to \in {0, next}
      BY <2>1, <2>2 DEF Door, SessionList
    <2>4. QED BY <2>3, OneDoor
  <1>5. Named(RubricOf(pkg, Fetches)) \in SUBSET {next}
    <2> DEFINE ticket == SessionTicket(next, pkg, FALSE)
    <2>1. ticket.kind \in {"start", "reclaim"} => ticket.to \in {0, next}
      BY DEF SessionTicket, Door
    <2> HIDE DEF ticket
    <2>2. \/ RubricOf(pkg, Fetches).doors = {}
          \/ RubricOf(pkg, Fetches).doors = {Door("new", 0)}
          \/ RubricOf(pkg, Fetches).doors = {ticket}
      <3>1. "list" \in Fetches /\ "sessions" \in Fetches /\ "package" \in Fetches
        BY DEF Fetches
      <3>2. CASE pkg.compile = "compiling"
        BY <1>2, <3>1, <3>2 DEF RubricOf, RubricPage, Page
      <3>3. CASE pkg.compile = "failed" \/ (pkg.compile = "ready" /\ ~pkg.rubric)
        BY <1>2, <3>1, <3>3 DEF RubricOf, RubricPage, Page
      <3>4. CASE pkg.compile = "ready" /\ pkg.rubric
        BY <1>1, <1>2, <1>3, <3>1, <3>4 DEF RubricOf, RubricPage, Page, ticket
      <3>5. QED BY <1>2, <3>2, <3>3, <3>4
    <2>3. \A d \in RubricOf(pkg, Fetches).doors :
            d.kind \in {"start", "reclaim"} => d.to \in {0, next}
      BY <2>1, <2>2 DEF Door
    <2>4. QED BY <2>3, OneDoor
  <1>6. \A d \in StartCta(pkg, St) : d.to \in {0, next}
    BY <1>2, <1>3 DEF StartCta, Door
  <1>7. Named(Progress(pkg, Fetches)) \in SUBSET {next}
    <2>1. {"list", "progress"} \subseteq Fetches /\ "list" \in Fetches /\ "progress" \in Fetches
      BY DEF Fetches
    <2>2. Progress(pkg, Fetches).doors = StartCta(pkg, St)
      BY <1>2, <2>1 DEF Progress, ProgressPage, Page
    <2>3. QED BY <1>6, <2>2, OneDoor
  <1>8. Named(Progress(pkg, Fetches \ {"progress"})) \in SUBSET {next}
    <2> DEFINE up == Fetches \ {"progress"}
    <2>1. "list" \in up /\ "progress" \notin up /\ "sessions" \in up
      BY DEF Fetches
    <2> HIDE DEF up
    <2>2. Progress(pkg, up).doors = StartCta(pkg, St)
      BY <1>1, <1>2, <2>1 DEF Progress, ProgressPage, Page
    <2>3. Named(Progress(pkg, up)) \in SUBSET {next}
      BY <1>6, <2>2, OneDoor
    <2>4. QED BY <2>3 DEF up
  <1>9. PICK named : /\ named = Named(Home(pkg, Fetches)) \union Named(RubricOf(pkg, Fetches))
                                \union Named(Progress(pkg, Fetches))
                                \union Named(Progress(pkg, Fetches \ {"progress"}))
                     /\ named \in SUBSET {next}
    BY <1>4, <1>5, <1>7, <1>8
  <1>10. PICK one : one = {next} /\ IsFiniteSet(one) /\ Cardinality(one) = 1
    BY FS_Singleton
  <1>11. Cardinality(named) <= 1
    <2>1. named \in SUBSET one
      BY <1>9, <1>10
    <2>2. QED BY <1>10, <2>1, FS_Subset
  <1>12. QED BY <1>9, <1>11

\* The strip points at the ticket's session and counts every row that is used up.
LEMMA StripHolds == PagesInv => StripIsTrue
  <1> SUFFICES ASSUME PagesInv, NEW pkg \in Views, ~pkg.comped
               PROVE  LET legs == journeyLegs(ListedRows(St), Offered(pkg))
                      IN /\ {i \in DOMAIN legs : legs[i] = "next"} = {HomeNext} \ {0}
                         /\ isUnlocked(pkg) => DoneLegs(legs) >= PackagesPage(pkg, Fetches).count
    BY DEF StripIsTrue
  <1>1. PICK total \in Nat : /\ total = Offered(pkg)
                             /\ total = effectiveTotalSessions(access # "locked", Total)
    BY ViewFacts, RowsOnPages DEF effectiveTotalSessions
  <1>2. PICK st : st = ListedRows(St)
    OBVIOUS
  <1>3. PICK next : next = nextSessionNumber(st, total)
    OBVIOUS
  <1>4. HomeNext = next
    BY <1>1, <1>2, <1>3 DEF HomeNext
  <1>5. /\ next \in 0 .. total
        /\ next # 0 => next \notin DOMAIN st \/ st[next] \in Open
    <2>1. /\ next \in 0 .. total
          /\ next # 0 => \/ next \in DOMAIN st \intersect 1 .. total /\ st[next] \in Open
                         \/ /\ next \notin DOMAIN st
                            /\ \A i \in DOMAIN st \intersect 1 .. total : st[i] \notin Open
      BY <1>2, <1>3, ListsFit, NextSession
    <2>2. QED BY <2>1
  <1>6. PICK legs : legs = journeyLegs(st, total)
    OBVIOUS
  <1>7. legs = [i \in 1 .. total |->
                  IF i = next THEN "next"
                  ELSE IF i \in {k \in DOMAIN st \intersect 1 .. total : st[k] \in Attempted}
                       THEN "done" ELSE "todo"]
    BY <1>3, <1>6 DEF journeyLegs, WithinPackage
  <1>8. {i \in DOMAIN legs : legs[i] = "next"} = {HomeNext} \ {0}
    <2>1. \A i \in 1 .. total : legs[i] = "next" <=> i = next
      BY <1>7
    <2>2. DOMAIN legs = 1 .. total
      BY <1>7
    <2>3. QED BY <1>4, <1>5, <2>1, <2>2
  <1>9. ASSUME isUnlocked(pkg) PROVE DoneLegs(legs) >= PackagesPage(pkg, Fetches).count
    <2>1. PackagesPage(pkg, Fetches).count = Cardinality(Used(status))
      <3>1. "list" \in Fetches /\ pkg # NoPackage /\ pkg.used = Cardinality(Used(status))
        BY ViewFacts DEF Fetches
      <3>2. QED BY <3>1 DEF PackagesPage, Page
    <2>2. total = Total
      BY <1>1, <1>9, ViewFacts DEF effectiveTotalSessions
    <2>3. PICK done : done = {i \in DOMAIN legs : legs[i] = "done"}
      OBVIOUS
    <2>4. done \in SUBSET (1 .. Total) /\ IsFiniteSet(done)
      <3>1. done \in SUBSET (1 .. Total)
        BY <1>7, <2>2, <2>3
      <3>2. IsFiniteSet(1 .. Total)
        BY RowsOnPages, FS_Interval
      <3>3. QED BY <3>1, <3>2, FS_Subset
    <2>5. ASSUME NEW i \in Used(status) PROVE i \in done
      <3>1. i \in Rows /\ status[i] \in {"scoring", "scored", "failed_permanent"}
            /\ status[i] \notin Open
        BY <2>5, RowsOnPages
      <3>2. i \in DOMAIN st /\ st[i] = status[i]
        BY <1>2, <3>1, RowsOnPages
      <3>3. i \in 1 .. Total /\ st[i] \in Attempted /\ st[i] \notin Open
        BY <1>2, <3>1, <3>2, ListsFit DEF Attempted
      <3>4. i # next
        BY <1>5, <3>2, <3>3
      <3>5. QED BY <1>7, <2>2, <2>3, <3>2, <3>3, <3>4
    <2>6. Used(status) \in SUBSET done
      BY <2>5
    <2>7. Cardinality(Used(status)) <= Cardinality(done)
      BY <2>4, <2>6, FS_Subset
    <2>8. Cardinality(done) \in Nat /\ Cardinality(Used(status)) \in Nat
      BY <2>4, UsedUp, FS_CardinalityType
    <2>9. DoneLegs(legs) = Cardinality(done)
      BY <2>3 DEF DoneLegs
    <2>10. QED BY <2>1, <2>7, <2>8, <2>9
  <1>10. QED BY <1>1, <1>2, <1>6, <1>8, <1>9

\* A row in scoring has its line.
LEMMA ScoringHasLine ==
  ASSUME PagesInv, NEW i \in Rows, status[i] = "scoring"
  PROVE  scoringStageLine(ListedRows(St)) # 0
  <1> DEFINE lines == {0} \union {k \in DOMAIN ListedRows(St) : ListedRows(St)[k] = "scoring"}
  <1>1. i \in lines /\ i \in Nat /\ i # 0
    BY RowsOnPages
  <1>2. Total \in Nat /\ lines \in SUBSET (0 .. Total) /\ lines \in SUBSET Nat
    BY ListsFit
  <1>3. PICK m \in lines : \A k \in lines : k <= m
    BY <1>1, <1>2, GreatestOfNat
  <1>4. Max(lines) = m
    BY <1>2, <1>3, MaxIs
  <1>5. scoringStageLine(ListedRows(St)) = Max(lines)
    BY DEF scoringStageLine
  <1> HIDE DEF lines
  <1>6. i <= m /\ m \in Nat
    BY <1>1, <1>2, <1>3
  <1>7. QED BY <1>1, <1>4, <1>5, <1>6

\* What is still moving, and what could not be fetched, is fetched again.
LEMMA RefreshHolds == PagesInv => PagesRefresh
  <1> SUFFICES ASSUME PagesInv, NEW pkg \in Views, NEW up \in Answered
               PROVE  LET home == Home(pkg, up)
                          archive == Archive(pkg, up)
                          progress == Progress(pkg, up)
                      IN /\ (\E i \in Rows : status[i] = "scoring") =>
                              archive.polls /\ (home.polls \/ home.name = "compile failed")
                         /\ \A i \in Rows : status[i] = "scoring" => Detail(pkg, i, up).polls
                         /\ archive.doors = {} => archive.polls
                         /\ progress.name \in {"unreachable", "partial progress"} =>
                              progress.polls
    BY DEF PagesRefresh
  <1>1. pkg # NoPackage
    BY ViewFacts
  <1>2. "list" \in up /\ "package" \in up
    BY DEF Answered, Fetches
  <1>3. Archive(pkg, up).polls <=> ArchivePolls(ListedRows(St), up)
    BY <1>1, <1>2 DEF Archive, SessionsPage, Page
  <1>4. ASSUME NEW i \in Rows, status[i] = "scoring"
        PROVE  /\ Archive(pkg, up).polls
               /\ Home(pkg, up).polls \/ Home(pkg, up).name = "compile failed"
               /\ Detail(pkg, i, up).polls
    <2>1. scoringStageLine(ListedRows(St)) # 0
      BY <1>4, ScoringHasLine
    <2>2. Archive(pkg, up).polls
      BY <1>3, <2>1 DEF ArchivePolls
    <2>3. Home(pkg, up).polls \/ Home(pkg, up).name = "compile failed"
      <3>1. CASE "sessions" \notin up
        BY <1>1, <1>2, <3>1 DEF Home, HomePage, Unreachable, Page
      <3>2. CASE "sessions" \in up /\ pkg.compile = "failed"
        BY <1>1, <1>2, <3>2 DEF Home, HomePage, Page
      <3>3. CASE "sessions" \in up /\ pkg.compile # "failed"
        BY <1>1, <1>2, <2>1, <3>3 DEF Home, HomePage, Page
      <3>4. QED BY <3>1, <3>2, <3>3
    <2>4. Detail(pkg, i, up).polls
      <3>1. St[i] = "scoring"
        BY <1>4, RowsOnPages
      <3>2. deriveSessionDetailState(St[i], report[i]) = "scoring"
        BY <3>1 DEF deriveSessionDetailState
      <3>3. Detail(pkg, i, up).polls <=> DetailRefreshes(St[i], report[i])
        BY <1>2 DEF Detail, SessionDetailPage, Page
      <3>4. QED BY <3>2, <3>3 DEF DetailRefreshes
    <2>5. QED BY <2>2, <2>3, <2>4
  <1>5. Archive(pkg, up).doors = {} => Archive(pkg, up).polls
    <2>1. CASE "sessions" \notin up
      BY <1>3, <2>1 DEF ArchivePolls
    <2>2. CASE "sessions" \in up
      <3>1. Archive(pkg, up).doors =
              IF DOMAIN ListedRows(St) = {} THEN {Door("home", 0)}
              ELSE SessionList(ListedRows(St))
        BY <1>1, <1>2, <2>2 DEF Archive, SessionsPage, Page
      <3>2. DOMAIN ListedRows(St) # {} => SessionList(ListedRows(St)) # {}
        BY DEF SessionList
      <3>3. QED BY <3>1, <3>2
    <2>3. QED BY <2>1, <2>2
  <1>6. Progress(pkg, up).name \in {"unreachable", "partial progress"} => Progress(pkg, up).polls
    <2>1. CASE "progress" \in up
      <3>1. {"list", "progress"} \subseteq up
        BY <1>2, <2>1
      <3>2. Progress(pkg, up).name = "progress"
        BY <1>1, <1>2, <2>1, <3>1 DEF Progress, ProgressPage, Page
      <3>3. QED BY <3>2
    <2>2. CASE "progress" \notin up /\ "sessions" \in up
      BY <1>1, <1>2, <2>2 DEF Progress, ProgressPage, Page
    <2>3. CASE "progress" \notin up /\ "sessions" \notin up
      BY <1>1, <1>2, <2>3 DEF Progress, ProgressPage, Unreachable, Page
    <2>4. QED BY <2>1, <2>2, <2>3
  <1>7. QED BY <1>4, <1>5, <1>6

\* Pill, strip, next session and refreshing tell one story of a package on every
\* page, whichever fetches failed (home.ts: "so the two cannot drift screen by screen").
THEOREM PagesHold == SeriesSpec => []PagesAgree
  <1>1. PagesInv => PagesAgree
    BY PillHolds, OneNextHolds, StripHolds, RefreshHolds DEF PagesAgree
  <1>2. SeriesInv /\ NoQuickRow => PagesInv
    BY DEF PagesInv
  <1>3. QED BY <1>1, <1>2, SeriesInvAlways, NoQuickRowAlways, PTL

-----------------------------------------------------------------------------
(* A tab that waits (PollRefresh).                                         *)

\* The refreshes of one run, up to the k-th.
RunUpTo(f, ms, k) ==
  f = [n \in 0 .. k |->
         IF n = 0 THEN Poller!INITIAL_POLL_STATE ELSE Poller!afterPoll(f[n - 1], ms)]

\* There is such a function: the least number without one would have a predecessor with one.
LEMMA RunExists ==
  ASSUME NEW ms, NEW k \in Nat
  PROVE  \E f : RunUpTo(f, ms, k)
  <1> DEFINE Missing == {n \in Nat : ~ \E f : RunUpTo(f, ms, n)}
  <1> SUFFICES ASSUME Missing # {} PROVE FALSE
    OBVIOUS
  <1>1. PICK m \in Missing : \A n \in Missing : m <= n
    <2>1. Missing \in SUBSET Nat
      OBVIOUS
    <2> QED
      BY <2>1, MinOfNat
  <1>2. m \in Nat /\ ~ \E f : RunUpTo(f, ms, m)
    BY <1>1
  <1>3. CASE m = 0
    <2> DEFINE f == [n \in 0 .. 0 |-> Poller!INITIAL_POLL_STATE]
    <2>1. f = [n \in 0 .. 0 |->
                 IF n = 0 THEN Poller!INITIAL_POLL_STATE ELSE Poller!afterPoll(f[n - 1], ms)]
      OBVIOUS
    <2>2. RunUpTo(f, ms, 0)
      BY <2>1, Zenon DEF RunUpTo
    <2> QED
      BY <1>2, <1>3, <2>2
  <1>4. CASE m # 0
    <2>1. m - 1 \in Nat /\ m - 1 \notin Missing
      BY <1>1, <1>2, <1>4
    <2>2. PICK f : RunUpTo(f, ms, m - 1)
      BY <2>1
    <2>3. \A n \in 0 .. m - 1 :
            f[n] = IF n = 0 THEN Poller!INITIAL_POLL_STATE ELSE Poller!afterPoll(f[n - 1], ms)
      BY <2>2 DEF RunUpTo
    <2> DEFINE g == [n \in 0 .. m |-> IF n = m THEN Poller!afterPoll(f[m - 1], ms) ELSE f[n]]
    <2>4. ASSUME NEW n \in 0 .. m
          PROVE  g[n] = IF n = 0 THEN Poller!INITIAL_POLL_STATE
                        ELSE Poller!afterPoll(g[n - 1], ms)
      <3>1. CASE n = m
        <4>1. n - 1 \in 0 .. m /\ n - 1 # m /\ n # 0
          BY <1>2, <1>4, <3>1
        <4>2. g[n] = Poller!afterPoll(f[m - 1], ms) /\ g[n - 1] = f[n - 1]
          BY <3>1, <4>1
        <4> QED
          BY <3>1, <4>1, <4>2
      <3>2. CASE n # m
        <4>1. n \in 0 .. m - 1 /\ g[n] = f[n]
          BY <1>2, <3>2
        <4>2. CASE n = 0
          BY <2>3, <4>1, <4>2
        <4>3. CASE n # 0
          <5>1. n - 1 \in 0 .. m /\ n - 1 # m
            BY <1>2, <4>1, <4>3
          <5>2. g[n - 1] = f[n - 1]
            BY <5>1
          <5> QED
            BY <2>3, <4>1, <4>3, <5>2
        <4> QED
          BY <4>2, <4>3
      <3> QED
        BY <3>1, <3>2
    <2>5. g = [n \in 0 .. m |-> g[n]]
      OBVIOUS
    <2> HIDE DEF g
    <2>6. g = [n \in 0 .. m |->
                 IF n = 0 THEN Poller!INITIAL_POLL_STATE ELSE Poller!afterPoll(g[n - 1], ms)]
      BY <2>4, <2>5
    <2> QED
      BY <1>2, <2>6 DEF RunUpTo
  <1> QED
    BY <1>3, <1>4

LEMMA SpentIs ==
  ASSUME NEW ms
  PROVE  /\ Spent(ms)[0] = Poller!INITIAL_POLL_STATE
         /\ \A n \in 0 .. 15 : Spent(ms)[n + 1] = Poller!afterPoll(Spent(ms)[n], ms)
  <1>1. Spent(ms) = CHOOSE f : RunUpTo(f, ms, 16)
    BY Zenon DEF Spent, RunUpTo
  <1>2. RunUpTo(Spent(ms), ms, 16)
    BY <1>1, RunExists
  <1>3. \A n \in 0 .. 16 :
          Spent(ms)[n] = IF n = 0 THEN Poller!INITIAL_POLL_STATE
                         ELSE Poller!afterPoll(Spent(ms)[n - 1], ms)
    BY <1>2 DEF RunUpTo
  <1>4. ASSUME NEW n \in 0 .. 15 PROVE Spent(ms)[n + 1] = Poller!afterPoll(Spent(ms)[n], ms)
    <2>1. n + 1 \in 0 .. 16 /\ n + 1 # 0 /\ (n + 1) - 1 = n
      OBVIOUS
    <2> QED
      BY <1>3, <2>1
  <1> QED
    BY <1>3, <1>4

PollInv ==
  /\ base \in BaseMs /\ truth \in {"waiting", "settled"} /\ reachable \in BOOLEAN
  /\ screen \in {"waiting", "unreachable", "settled"}
  /\ flaps \in Nat /\ sent \in Nat /\ poll.attempts \in 0 .. 16
  /\ ~reachable \/ screen = "unreachable" => flaps > 0
  /\ screen = "settled" => ~pending
  /\ poll = Spent(Poller!Interval)[poll.attempts]
  /\ screen = "waiting" /\ reachable => sent <= 16 * (2 * flaps) + poll.attempts
  /\ screen = "waiting" /\ ~reachable => sent <= 16 * (2 * flaps - 2) + poll.attempts
  /\ screen = "unreachable" => sent <= 16 * (2 * flaps - 1) + poll.attempts
  /\ screen = "settled" => sent <= 16 * (2 * flaps + 1)

LEMMA PollInit == PartsInit => PollInv
  <1> SUFFICES ASSUME PartsInit PROVE PollInv
    OBVIOUS
  <1>1. /\ base \in BaseMs /\ poll = Poller!INITIAL_POLL_STATE /\ pending = FALSE
        /\ screen = "waiting" /\ truth = "waiting" /\ flaps = 0 /\ reachable = TRUE /\ sent = 0
    BY DEF PartsInit, Poller!Init
  <1>2. poll.attempts = 0
    BY <1>1 DEF Poller!INITIAL_POLL_STATE
  <1>3. poll = Spent(Poller!Interval)[poll.attempts]
    BY <1>1, <1>2, SpentIs
  <1> QED
    BY <1>1, <1>2, <1>3 DEF PollInv

LEMMA PollIsBounded == PollInv => Poller!TabIsBounded
  BY DEF PollInv, Poller!TabIsBounded

\* A fresh run has spent nothing.
LEMMA FreshRun ==
  ASSUME NEW ms
  PROVE  /\ Poller!INITIAL_POLL_STATE.attempts = 0
         /\ Poller!INITIAL_POLL_STATE = Spent(ms)[Poller!INITIAL_POLL_STATE.attempts]
  <1>1. Poller!INITIAL_POLL_STATE.attempts = 0
    BY DEF Poller!INITIAL_POLL_STATE
  <1> QED
    BY <1>1, SpentIs

LEMMA PollStep == PollInv /\ [Poller!Next]_pollVars => PollInv'
  <1> SUFFICES ASSUME PollInv, [Poller!Next]_pollVars PROVE PollInv'
    OBVIOUS
  <1>1. CASE UNCHANGED pollVars
    BY <1>1 DEF pollVars, PollInv, Poller!Interval
  <1>2. CASE Poller!Poll
    <2> DEFINE ms == Poller!Interval
               n == poll.attempts
    <2>1. /\ screen # "settled" /\ ~poll.tripped /\ poll' = Poller!afterPoll(poll, ms)
          /\ sent' = sent + 1 /\ UNCHANGED <<base, screen, truth, flaps, reachable>>
      BY <1>2 DEF Poller!Poll
    <2>2. ms \in BaseMs \union {UnreachableMs} /\ ms' = ms
      BY <2>1 DEF Poller!Interval, PollInv
    <2>3. n \in 0 .. 15
      <3>1. n # 16
        BY <2>1, <2>2, PollerConstants DEF PollInv
      <3> QED
        BY <3>1 DEF PollInv
    <2>4. poll'.attempts = n + 1
      BY <2>1 DEF Poller!afterPoll
    <2>5. poll' = Spent(ms)[n + 1]
      BY <2>1, <2>3, SpentIs DEF PollInv
    <2>6. poll' = Spent(ms')[poll'.attempts]
      BY <2>2, <2>4, <2>5
    <2> HIDE DEF ms
    <2> QED
      BY <2>1, <2>3, <2>4, <2>6 DEF PollInv, ms
  <1>3. CASE Poller!Answered
    <2>1. /\ pending /\ pending' = FALSE /\ screen # "settled"
          /\ screen' = (IF reachable THEN truth ELSE "unreachable")
          /\ poll' = (IF screen' = screen THEN poll ELSE Poller!INITIAL_POLL_STATE)
          /\ UNCHANGED <<base, truth, flaps, reachable, sent>>
      BY <1>3 DEF Poller!Answered, PollInv
    <2>2. CASE screen' = screen
      BY <2>1, <2>2 DEF PollInv, Poller!Interval
    <2>3. CASE screen' # screen
      <3>1. poll'.attempts = 0 /\ poll' = Spent(Poller!Interval')[poll'.attempts]
        BY <2>1, <2>3, FreshRun
      <3> QED
        BY <2>1, <2>3, <3>1 DEF PollInv
    <2> QED
      BY <2>2, <2>3
  <1>4. CASE Poller!Shown \/ Poller!Touched
    <2>1. /\ poll' = Poller!INITIAL_POLL_STATE /\ sent' = 0
          /\ UNCHANGED <<base, pending, screen, truth, flaps, reachable>>
      BY <1>4 DEF Poller!Shown, Poller!Touched
    <2>2. poll'.attempts = 0 /\ poll' = Spent(Poller!Interval')[poll'.attempts]
      BY <2>1, FreshRun
    <2> QED
      BY <2>1, <2>2 DEF PollInv
  <1>5. CASE Poller!Hidden \/ Poller!Settles \/ Poller!GoesAway \/ Poller!ComesBack
    <2>1. /\ UNCHANGED <<base, poll, pending, screen, sent>>
          /\ truth' \in {truth, "settled"}
          /\ \/ UNCHANGED <<flaps, reachable>>
             \/ reachable /\ reachable' = FALSE /\ flaps' = flaps + 1
             \/ ~reachable /\ reachable' = TRUE /\ flaps' = flaps
      BY <1>5 DEF Poller!Hidden, Poller!Settles, Poller!GoesAway, Poller!ComesBack
    <2>2. Poller!Interval' = Poller!Interval /\ truth' \in {"waiting", "settled"}
      BY <2>1 DEF Poller!Interval, PollInv
    <2>3. CASE UNCHANGED <<flaps, reachable>>
      BY <2>1, <2>2, <2>3 DEF PollInv
    <2>4. CASE reachable /\ reachable' = FALSE /\ flaps' = flaps + 1
      <3>1. flaps' \in Nat /\ flaps' > 0 /\ 2 * flaps' - 2 = 2 * flaps
        BY <2>4 DEF PollInv
      <3>2. /\ UNCHANGED <<sent, screen, poll, base, pending>>
            /\ sent \in Nat /\ poll.attempts \in Nat /\ flaps \in Nat
        BY <2>1 DEF PollInv
      <3>3. /\ screen' = "waiting" => sent' <= 16 * (2 * flaps' - 2) + poll'.attempts
            /\ screen' = "unreachable" => sent' <= 16 * (2 * flaps' - 1) + poll'.attempts
            /\ screen' = "settled" => sent' <= 16 * (2 * flaps' + 1)
        BY <2>4, <3>1, <3>2 DEF PollInv
      <3> QED
        BY <2>1, <2>2, <2>4, <3>1, <3>3 DEF PollInv
    <2>5. CASE ~reachable /\ reachable' = TRUE /\ flaps' = flaps
      BY <2>1, <2>2, <2>5 DEF PollInv
    <2> QED
      BY <2>1, <2>3, <2>4, <2>5
  <1> QED
    BY <1>1, <1>2, <1>3, <1>4, <1>5 DEF Poller!Next

-----------------------------------------------------------------------------
(* The forms (WebForms).                                                   *)

\* How far the request of a form is, and what the form shows.
Stages == {"idle", "route", "again", "call", "insert", "restart", "signin", "refreshing",
           "login", "stuck", "room", "away"}
Sayings == {"nothing", "failed", "signed-out", "denied", "refused", "kept", "already",
            "quick-cap", "partly", "done"}

\* What holds at one form.
FormOK(t) ==
  /\ requested[t] = "signin" => form[t] = "account" /\ package = "gone"
  /\ said[t] = "partly" => form[t] = "account"
  /\ form[t] = "account" /\ Forms!Alone(t) /\ ~account =>
       requested[t] \in {"idle", "route", "away"} /\ said[t] # "partly"
  /\ said[t] = "denied" => package = "gone"
  /\ form[t] = "delete" /\ said[t] \in {"done", "refused"} => package = "gone"
  /\ form[t] = "redeem" /\ said[t] \in {"done", "already"} /\ Forms!AccountStays => redeemed
  /\ form[t] \in {"start", "reclaim"} /\ requested[t] = "room" =>
       session = "planned" \/ ~Forms!AccountStays \/ \E u \in Tabs : form[u] = "delete"
  /\ form[t] = "quick" /\ requested[t] = "room" /\ Forms!Alone(t) => ~stash /\ rooms > 0
  /\ said[t] = "quick-cap" /\ Forms!AccountStays => quickMade >= quick_package_cap
  /\ form[t] = "account" /\ said[t] = "done" => ~account

FormTypes ==
  /\ form \in [Tabs -> Forms!Forms]
  /\ requested \in [Tabs -> Stages] /\ said \in [Tabs -> Sayings]
  /\ signedIn \in BOOLEAN /\ account \in BOOLEAN /\ redeemed \in BOOLEAN /\ stash \in BOOLEAN
  /\ made \in Nat /\ quickMade \in Nat /\ rooms \in Nat

Inserting == {t \in Tabs : requested[t] = "insert"}
AccountOK ==
  /\ quickMade + Cardinality(Inserting) <= quick_package_cap + Cardinality(Tabs) - 1
  /\ ~account => ~signedIn /\ package = "gone" /\ made = 0 /\ quickMade = 0

FormsInv == FormTypes /\ AccountOK /\ \A t \in Tabs : FormOK(t)

LEMMA FormsInvIsEnough == FormsInv => Forms!FormsTellTrue
  <1>1. Forms!Cardinality(Inserting) = Cardinality(Inserting)
        /\ Forms!Cardinality(Tabs) = Cardinality(Tabs)
    BY DEF Forms!Cardinality, Cardinality
  <1>2. ASSUME FormsInv, NEW t \in Tabs PROVE
       /\ said[t] = "denied" => package = "gone"
       /\ form[t] = "delete" /\ said[t] \in {"done", "refused"} => package = "gone"
       /\ form[t] = "redeem" /\ said[t] \in {"done", "already"} /\ Forms!AccountStays => redeemed
       /\ form[t] \in {"start", "reclaim"} /\ requested[t] = "room" =>
            session = "planned" \/ ~Forms!AccountStays \/ \E u \in Tabs : form[u] = "delete"
       /\ form[t] = "quick" /\ requested[t] = "room" /\ Forms!Alone(t) => ~stash /\ rooms > 0
       /\ said[t] = "quick-cap" /\ Forms!AccountStays => quickMade >= quick_package_cap
       /\ form[t] = "account" /\ said[t] = "done" => ~account
       /\ said[t] = "partly" /\ Forms!Alone(t) => account
    BY <1>2 DEF FormsInv, FormOK
  <1> QED
    BY <1>1, <1>2 DEF FormsInv, AccountOK, Forms!FormsTellTrue, Inserting

-----------------------------------------------------------------------------
\* Only the form of one tab moves.
Moves(t) ==
  /\ UNCHANGED form
  /\ requested' \in [Tabs -> Stages] /\ said' \in [Tabs -> Sayings]
  /\ \A u \in Tabs \ {t} : requested'[u] = requested[u] /\ said'[u] = said[u]

\* What the form of one tab does to the rest takes nothing back that another was told.
WorldKeeps(t) ==
  /\ package = "gone" => package' = "gone"
  /\ Forms!AccountStays /\ redeemed => redeemed'
  /\ session = "planned" => \/ session' = "planned" \/ ~Forms!AccountStays
                            \/ \E u \in Tabs : form[u] = "delete"
  /\ rooms > 0 => rooms' > 0
  /\ stash' => stash \/ form[t] = "quick"
  /\ Forms!AccountStays /\ quickMade >= quick_package_cap => quickMade' >= quick_package_cap
  /\ ~account => ~account'
  /\ account => account' \/ form[t] = "account"

\* Then what holds at the form of another tab goes on holding.
LEMMA OthersKeep ==
  ASSUME NEW t \in Tabs, NEW u \in Tabs \ {t}, FormOK(u), Moves(t), WorldKeeps(t)
  PROVE  FormOK(u)'
  <1>1. /\ form' = form /\ requested'[u] = requested[u] /\ said'[u] = said[u]
        /\ Forms!AccountStays' = Forms!AccountStays /\ Forms!Alone(u)' = Forms!Alone(u)
    BY DEF Moves, Forms!AccountStays, Forms!Alone
  <1>2. Forms!Alone(u) /\ form[u] \in {"quick", "account"} => form[t] # form[u]
    BY DEF Forms!Alone
  <1>3. (\E v \in Tabs : form[v] = "delete") => \E v \in Tabs : form'[v] = "delete"
    BY <1>1
  <1> QED
    BY <1>1, <1>2, <1>3 DEF FormOK, WorldKeeps

\* The quick starts that have passed the cap and not inserted yet, before and after a move.
LEMMA InsertCount ==
  ASSUME NEW t \in Tabs, Moves(t), IsFiniteSet(Tabs)
  PROVE  /\ Cardinality(Inserting) \in Nat /\ Cardinality(Inserting') \in Nat
         /\ Cardinality(Tabs) \in Nat /\ Cardinality(Inserting') <= Cardinality(Tabs)
         /\ requested'[t] # "insert" =>
              /\ Cardinality(Inserting') <= Cardinality(Inserting)
              /\ Cardinality(Inserting') <= Cardinality(Tabs) - 1
         /\ requested'[t] # "insert" /\ requested[t] = "insert" =>
              Cardinality(Inserting') = Cardinality(Inserting) - 1
  <1>1. Inserting \subseteq Tabs /\ Inserting' \subseteq Tabs
    BY DEF Inserting
  <1>2. /\ IsFiniteSet(Inserting) /\ IsFiniteSet(Inserting')
        /\ Cardinality(Inserting') <= Cardinality(Tabs)
    BY <1>1, FS_Subset
  <1>3. /\ Cardinality(Inserting) \in Nat /\ Cardinality(Inserting') \in Nat
        /\ Cardinality(Tabs) \in Nat
    BY <1>2, FS_CardinalityType
  <1>4. ASSUME requested'[t] # "insert"
        PROVE  /\ Cardinality(Inserting') <= Cardinality(Inserting)
               /\ Cardinality(Inserting') <= Cardinality(Tabs) - 1
    <2>1. Inserting' \subseteq Inserting /\ Inserting' \subseteq Tabs \ {t}
      BY <1>4 DEF Inserting, Moves
    <2>2. IsFiniteSet(Tabs \ {t}) /\ Cardinality(Tabs \ {t}) = Cardinality(Tabs) - 1
      BY FS_RemoveElement
    <2> QED
      BY <1>2, <2>1, <2>2, FS_Subset
  <1>5. ASSUME requested'[t] # "insert", requested[t] = "insert"
        PROVE  Cardinality(Inserting') = Cardinality(Inserting) - 1
    <2>1. Inserting' = Inserting \ {t} /\ t \in Inserting
      BY <1>5 DEF Inserting, Moves
    <2> QED
      BY <1>2, <2>1, FS_RemoveElement
  <1> QED
    BY <1>2, <1>3, <1>4, <1>5


\* A step of one form keeps all of it, if it keeps what holds at that form.
LEMMA OneForm ==
  ASSUME FormsInv, NEW t \in Tabs,
         Moves(t), WorldKeeps(t), FormOK(t)', FormTypes', AccountOK'
  PROVE  FormsInv'
  <1>1. ASSUME NEW u \in Tabs PROVE FormOK(u)'
    <2>1. CASE u = t
      BY <2>1
    <2>2. CASE u # t
      <3>1. u \in Tabs \ {t} /\ FormOK(u)
        BY <2>2 DEF FormsInv
      <3> QED
        BY <3>1, OthersKeep
    <2> QED
      BY <2>1, <2>2
  <1> QED
    BY <1>1 DEF FormsInv

\* The form of a tab says or does something else; the rest stays.
LEMMA FormOnly ==
  ASSUME FormsInv, NEW t \in Tabs, Moves(t), UNCHANGED <<account, Forms!rows>>,
         signedIn' \in BOOLEAN, signedIn' => signedIn, stash' \in BOOLEAN,
         stash' => stash \/ form[t] = "quick", requested'[t] # "insert", FormOK(t)'
  PROVE  FormsInv'
  <1>1. UNCHANGED <<package, session, retries, redeemed, made, quickMade, rooms>>
    BY DEF Forms!rows
  <1>2. WorldKeeps(t)
    BY <1>1 DEF WorldKeeps
  <1>3. FormTypes'
    BY <1>1 DEF FormTypes, FormsInv, Moves
  <1>4. AccountOK'
    BY <1>1, InsertCount, FormsConstants DEF AccountOK, FormsInv, FormTypes
  <1> QED
    BY <1>2, <1>3, <1>4, OneForm

\* The browser's part.
LEMMA PressKeeps ==
  ASSUME FormsInv, NEW t \in Tabs, Forms!Press(t)
  PROVE  FormsInv'
  <1>1. Forms!Locks(t)
    BY Zenon
       DEF Forms!Press, Forms!onSubmit, Forms!submit, Forms!start, Forms!reclaim,
           Forms!retry, Forms!remove, Forms!destroy, Forms!sendQuick
  <1>2. /\ requested' = [requested EXCEPT ![t] = "route"]
        /\ said' = [said EXCEPT ![t] = "nothing"]
        /\ UNCHANGED <<signedIn, account, Forms!rows, stash, form, mishaps>>
    BY <1>1 DEF Forms!Locks, Forms!Goes
  <1>3. Moves(t) /\ requested'[t] = "route" /\ said'[t] = "nothing"
    BY <1>2 DEF Moves, FormsInv, FormTypes, Stages, Sayings
  <1>4. FormOK(t)'
    BY <1>2, <1>3 DEF FormOK
  <1> QED
    BY <1>2, <1>3, <1>4, FormOnly DEF FormsInv, FormTypes

LEMMA ReloadKeeps ==
  ASSUME FormsInv, NEW t \in Tabs, Forms!Reload(t) \/ Forms!Refreshed(t)
  PROVE  FormsInv'
  <1>1. PICK place \in {"idle", "away", "stuck"}, what \in {"nothing", said[t]} :
          /\ requested' = [requested EXCEPT ![t] = place]
          /\ said' = [said EXCEPT ![t] = what]
          /\ UNCHANGED <<signedIn, account, Forms!rows, stash, form, mishaps>>
          /\ requested[t] \in {"stuck", "idle", "refreshing"}
          /\ place = "stuck" => form[t] = "retry"
    BY DEF Forms!Reload, Forms!Refreshed, Forms!Says, Forms!Goes, FormsInv, FormTypes
  <1>2. Moves(t) /\ requested'[t] = place /\ said'[t] = what
    BY <1>1 DEF Moves, FormsInv, FormTypes, Stages, Sayings
  <1>3. FormOK(t)
    BY DEF FormsInv
  <1>4. Forms!Alone(t)' = Forms!Alone(t) /\ Forms!AccountStays' = Forms!AccountStays
    BY <1>1 DEF Forms!Alone, Forms!AccountStays
  <1>5. FormOK(t)'
    BY <1>1, <1>2, <1>3, <1>4 DEF FormOK, Forms!rows
  <1> QED
    BY <1>1, <1>2, <1>5, FormOnly DEF FormsInv, FormTypes


LEMMA SignKeeps ==
  ASSUME FormsInv, Forms!SignOut \/ Forms!SignIn \/ Forms!Compiles
  PROVE  FormsInv'
  <1>1. CASE Forms!SignOut
    <2>1. signedIn' = FALSE /\ UNCHANGED <<account, Forms!rows, stash, form, requested, said>>
      BY <1>1 DEF Forms!SignOut
    <2>2. Inserting' = Inserting /\ FormTypes'
      BY <2>1 DEF Inserting, FormsInv, FormTypes, Forms!rows
    <2> QED
      BY <2>1, <2>2 DEF FormsInv, FormOK, AccountOK, Forms!rows, Forms!Alone, Forms!AccountStays
  <1>2. CASE Forms!SignIn
    <2>1. /\ account /\ signedIn' = TRUE
          /\ UNCHANGED <<account, Forms!rows, stash, form, said>>
          /\ requested' \in [Tabs -> Stages]
          /\ \A t \in Tabs : \/ requested'[t] = requested[t]
                             \/ requested[t] = "login" /\ requested'[t] = "idle"
      BY <1>2 DEF Forms!SignIn, FormsInv, FormTypes, Stages
    <2>2. Inserting' = Inserting /\ FormTypes'
      BY <2>1 DEF Inserting, FormsInv, FormTypes, Forms!rows
    <2>3. AccountOK'
      BY <2>1, <2>2 DEF FormsInv, AccountOK, Forms!rows
    <2>4. ASSUME NEW t \in Tabs PROVE FormOK(t)'
      BY <2>1 DEF FormsInv, FormOK, Forms!rows, Forms!Alone, Forms!AccountStays
    <2> QED
      BY <2>2, <2>3, <2>4 DEF FormsInv
  <1>3. CASE Forms!Compiles
    <2>1. /\ package # "gone"
          /\ UNCHANGED <<signedIn, account, session, retries, redeemed, made, quickMade, rooms,
                         stash, form, requested, said>>
      BY <1>3 DEF Forms!Compiles
    <2>2. Inserting' = Inserting /\ FormTypes'
      BY <2>1 DEF Inserting, FormsInv, FormTypes
    <2>3. AccountOK'
      BY <2>1, <2>2 DEF FormsInv, AccountOK
    <2>4. ASSUME NEW t \in Tabs PROVE FormOK(t)'
      BY <2>1 DEF FormsInv, FormOK, Forms!Alone, Forms!AccountStays
    <2> QED
      BY <2>2, <2>3, <2>4 DEF FormsInv
  <1> QED
    BY <1>1, <1>2, <1>3

\* A call that does not reach the worker, and what its route does.
LEMMA UnansweredKeeps ==
  ASSUME FormsInv, NEW t \in Tabs, Forms!Unanswered(t)
  PROVE  FormsInv'
  <1>1. PICK place \in {"idle", "stuck"}, what \in {"failed", said[t]} :
          /\ requested' = [requested EXCEPT ![t] = place]
          /\ said' = [said EXCEPT ![t] = what]
          /\ UNCHANGED <<signedIn, account, Forms!rows, stash, form>>
          /\ requested[t] \in {"call", "insert", "restart", "signin"}
          /\ place = "stuck" => form[t] \in {"retry", "delete"}
    BY DEF Forms!Unanswered, Forms!Loses, Forms!Actions, Forms!Says, Forms!Goes,
           FormsInv, FormTypes
  <1>2. Moves(t) /\ requested'[t] = place /\ said'[t] = what
    BY <1>1 DEF Moves, FormsInv, FormTypes, Stages, Sayings
  <1>3. FormOK(t)
    BY DEF FormsInv
  <1>4. Forms!Alone(t)' = Forms!Alone(t) /\ Forms!AccountStays' = Forms!AccountStays
    BY <1>1 DEF Forms!Alone, Forms!AccountStays
  <1>5. FormOK(t)'
    BY <1>1, <1>2, <1>3, <1>4 DEF FormOK, Forms!rows
  <1> QED
    BY <1>1, <1>2, <1>5, FormOnly DEF FormsInv, FormTypes

\* What a route does with a request: it goes on, or the form hears why not.
RouteGives(t, place, what) ==
  /\ requested' = [requested EXCEPT ![t] = place]
  /\ said' = [said EXCEPT ![t] = what]
  /\ place = "stuck" => form[t] \in {"retry", "delete"}
  /\ place = "login" => form[t] = "quick"
  /\ place \in {"call", "restart"} => signedIn
  /\ what = "denied" => package = "gone" \/ said[t] = "denied"
RouteGoes(t) ==
  \E place \in {"idle", "stuck", "login", "call", "restart"},
     what \in {"failed", "signed-out", "denied", said[t]} : RouteGives(t, place, what)

\* A request is let through, refused, or lost on its way.
LEMMA AsksGoes ==
  ASSUME FormsInv, NEW t \in Tabs, NEW to \in {"call", "restart"},
         Forms!AsksOwned(t, to) \/ Forms!Asks(t, to)
  PROVE  RouteGoes(t)
  <1>1. said = [said EXCEPT ![t] = said[t]]
    BY DEF FormsInv, FormTypes
  <1>2. ASSUME Forms!Asks(t, to) PROVE RouteGoes(t)
    <2>1. CASE ~signedIn /\ Forms!Says(t, "signed-out")
      <3>1. RouteGives(t, "idle", "signed-out")
        BY <2>1 DEF RouteGives, Forms!Says, Forms!Goes
      <3> QED
        BY <3>1 DEF RouteGoes
    <2>2. CASE signedIn /\ Forms!Goes(t, to) /\ UNCHANGED <<said, mishaps>>
      <3>1. RouteGives(t, to, said[t])
        BY <1>1, <2>2 DEF RouteGives, Forms!Goes
      <3> QED
        BY <3>1 DEF RouteGoes
    <2>3. CASE Forms!Loses(t)
      <3>1. RouteGives(t, "idle", "failed") \/ RouteGives(t, "stuck", said[t])
        BY <1>1, <2>3 DEF RouteGives, Forms!Loses, Forms!Says, Forms!Goes, Forms!Actions
      <3> QED
        BY <3>1 DEF RouteGoes
    <2> QED
      BY <1>2, <2>1, <2>2, <2>3 DEF Forms!Asks
  <1>3. ASSUME package = "gone", Forms!Says(t, "denied") PROVE RouteGoes(t)
    <2>1. RouteGives(t, "idle", "denied")
      BY <1>3 DEF RouteGives, Forms!Says, Forms!Goes
    <2> QED
      BY <2>1 DEF RouteGoes
  <1> QED
    BY <1>2, <1>3 DEF Forms!AsksOwned

LEMMA RouteKeeps ==
  ASSUME FormsInv, NEW t \in Tabs, Forms!Route(t)
  PROVE  FormsInv'
  <1>0. UNCHANGED <<signedIn, account, Forms!rows, form>> /\ requested[t] \in {"route", "again"}
    BY DEF Forms!Route
  <1>1. RouteGoes(t) /\ stash' \in BOOLEAN /\ (stash' => stash \/ form[t] = "quick")
    <2>1. CASE Forms!quickStart(t)
      <3>1. CASE Forms!Goes(t, "login") /\ stash' = TRUE /\ UNCHANGED <<said, mishaps>>
        <4>1. said = [said EXCEPT ![t] = said[t]]
          BY DEF FormsInv, FormTypes
        <4>2. form[t] = "quick"
          BY <2>1 DEF Forms!quickStart
        <4>3. RouteGives(t, "login", said[t])
          BY <3>1, <4>1, <4>2 DEF RouteGives, Forms!Goes
        <4> QED
          BY <3>1, <4>2, <4>3 DEF RouteGoes
      <3>2. CASE Forms!Asks(t, "call") /\ UNCHANGED stash
        BY <3>2, AsksGoes DEF FormsInv, FormTypes
      <3> QED
        BY <2>1, <3>1, <3>2 DEF Forms!quickStart
    <2>2. CASE UNCHANGED stash /\ \E to \in {"call", "restart"} :
                                     Forms!AsksOwned(t, to) \/ Forms!Asks(t, to)
      BY <2>2, AsksGoes DEF FormsInv, FormTypes
    <2> QED
      BY <2>1, <2>2
         DEF Forms!Route, Forms!postPackages, Forms!postRedeem, Forms!postAccountDelete,
             Forms!postReclaim, Forms!retryCompileAction, Forms!deletePackageAction,
             Forms!postSessions
  <1>2. PICK place \in {"idle", "stuck", "login", "call", "restart"},
             what \in {"failed", "signed-out", "denied", said[t]} : RouteGives(t, place, what)
    BY <1>1 DEF RouteGoes
  <1>3. Moves(t) /\ requested'[t] = place /\ said'[t] = what
    BY <1>0, <1>2 DEF RouteGives, Moves, FormsInv, FormTypes, Stages, Sayings
  <1>4. FormOK(t) /\ (~account => ~signedIn)
    BY DEF FormsInv, AccountOK
  <1>5. Forms!Alone(t)' = Forms!Alone(t) /\ Forms!AccountStays' = Forms!AccountStays
    BY <1>0 DEF Forms!Alone, Forms!AccountStays
  <1>6. FormOK(t)'
    BY <1>0, <1>2, <1>3, <1>4, <1>5 DEF FormOK, RouteGives, Forms!rows
  <1> QED
    BY <1>0, <1>1, <1>3, <1>6, FormOnly DEF FormsInv, FormTypes

-----------------------------------------------------------------------------
\* How a call ends at its form: with an answer, or one that failed or was lost.
Tells(t, place, what) ==
  /\ requested' = [requested EXCEPT ![t] = place]
  /\ said' = [said EXCEPT ![t] = what]
Ends(t, place, what) ==
  \/ Tells(t, place, what)
  \/ Tells(t, "idle", "failed")
  \/ Tells(t, "stuck", said[t]) /\ form[t] \in {"retry", "delete"}

LEMMA LosesEnds ==
  ASSUME FormsInv, NEW t \in Tabs, NEW place, NEW what, Forms!Loses(t)
  PROVE  Ends(t, place, what)
  <1>1. said = [said EXCEPT ![t] = said[t]]
    BY DEF FormsInv, FormTypes
  <1> QED
    BY <1>1 DEF Ends, Tells, Forms!Loses, Forms!Says, Forms!Goes, Forms!Actions

LEMMA EndsMove ==
  ASSUME FormsInv, NEW t \in Tabs, NEW place \in Stages, NEW what \in Sayings,
         Ends(t, place, what), UNCHANGED form
  PROVE  /\ Moves(t)
         /\ \/ requested'[t] = place /\ said'[t] = what
            \/ requested'[t] = "idle" /\ said'[t] = "failed"
            \/ requested'[t] = "stuck" /\ said'[t] = said[t] /\ form[t] \in {"retry", "delete"}
  <1>1. CASE Tells(t, place, what)
    BY <1>1 DEF Tells, Moves, FormsInv, FormTypes
  <1>2. CASE Tells(t, "idle", "failed")
    BY <1>2 DEF Tells, Moves, FormsInv, FormTypes, Stages, Sayings
  <1>3. CASE Tells(t, "stuck", said[t]) /\ form[t] \in {"retry", "delete"}
    BY <1>3 DEF Tells, Moves, FormsInv, FormTypes, Stages
  <1> QED
    BY <1>1, <1>2, <1>3 DEF Ends

\* A call that leaves the account and its quick packages alone.
LEMMA CallOnly ==
  ASSUME FormsInv, NEW t \in Tabs, Moves(t), requested'[t] # "insert", FormOK(t)',
         UNCHANGED <<signedIn, account, quickMade>>, WorldKeeps(t),
         ~account => made' = made,
         redeemed' \in BOOLEAN, stash' \in BOOLEAN, made' \in Nat, rooms' \in Nat
  PROVE  FormsInv'
  <1>1. FormTypes'
    BY DEF FormTypes, FormsInv, Moves
  <1>2. AccountOK'
    BY InsertCount, FormsConstants DEF AccountOK, FormsInv, FormTypes, WorldKeeps
  <1> QED
    BY <1>1, <1>2, OneForm

LEMMA FormStays ==
  ASSUME NEW t \in Tabs, UNCHANGED form
  PROVE  Forms!Alone(t)' = Forms!Alone(t) /\ Forms!AccountStays' = Forms!AccountStays
  BY DEF Forms!Alone, Forms!AccountStays

LEMMA CreatePackageKeeps ==
  ASSUME FormsInv, NEW t \in Tabs, Forms!createPackage(t), UNCHANGED form
  PROVE  FormsInv'
  <1>1. /\ form[t] = "new"
        /\ UNCHANGED <<signedIn, account, package, session, redeemed, quickMade, rooms, stash>>
        /\ made' \in Nat /\ (~account => made' = made)
    BY DEF Forms!createPackage, FormsInv, FormTypes
  <1>2. Ends(t, "away", "done")
    BY LosesEnds DEF Forms!createPackage, Forms!Answered, Forms!Succeeds, Forms!Says, Forms!Goes,
       Ends, Tells
  <1>3. /\ Moves(t) /\ requested'[t] \notin {"insert", "signin"}
        /\ said'[t] \in {"done", "failed"}
    BY <1>1, <1>2, EndsMove DEF Stages, Sayings
  <1>4. FormOK(t)'
    BY <1>1, <1>3 DEF FormOK
  <1>5. WorldKeeps(t)
    BY <1>1 DEF WorldKeeps
  <1> QED
    BY <1>1, <1>3, <1>4, <1>5, CallOnly DEF FormsInv, FormTypes

LEMMA CountQuickKeeps ==
  ASSUME FormsInv, NEW t \in Tabs, Forms!countQuick(t), UNCHANGED form
  PROVE  FormsInv'
  <1>1. /\ form[t] = "quick" /\ requested[t] = "call"
        /\ UNCHANGED <<signedIn, account, package, session, redeemed, made, quickMade, rooms,
                       stash>>
    BY DEF Forms!countQuick, Forms!rows
  <1>2. WorldKeeps(t)
    BY <1>1 DEF WorldKeeps
  <1>3. CASE quickMade < quick_package_cap /\ Forms!Goes(t, "insert") /\ UNCHANGED said
    <2>1. Tells(t, "insert", said[t])
      BY <1>3 DEF Tells, Forms!Goes, FormsInv, FormTypes
    <2>2. Moves(t) /\ requested'[t] = "insert" /\ said'[t] = said[t]
      BY <2>1 DEF Tells, Moves, FormsInv, FormTypes, Stages
    <2>3. FormOK(t)'
      BY <1>1, <2>2, FormStays DEF FormOK, FormsInv
    <2>4. AccountOK'
      BY <1>1, <1>3, <2>2, InsertCount, FormsConstants DEF AccountOK, FormsInv, FormTypes
    <2>5. FormTypes'
      BY <1>1, <2>2 DEF FormTypes, FormsInv, Moves
    <2> QED
      BY <1>2, <2>2, <2>3, <2>4, <2>5, OneForm
  <1>4. CASE quickMade >= quick_package_cap /\ Forms!Answered(t, Forms!Says(t, "quick-cap"))
    <2>1. Ends(t, "idle", "quick-cap")
      BY <1>4, LosesEnds DEF Forms!Answered, Forms!Says, Forms!Goes, Ends, Tells
    <2>2. /\ Moves(t) /\ requested'[t] = "idle" /\ said'[t] \in {"quick-cap", "failed"}
      BY <1>1, <2>1, EndsMove DEF Stages, Sayings
    <2>3. FormOK(t)'
      BY <1>1, <1>4, <2>2 DEF FormOK
    <2> QED
      BY <1>1, <1>2, <2>2, <2>3, CallOnly DEF FormsInv, FormTypes
  <1> QED
    BY <1>3, <1>4 DEF Forms!countQuick

LEMMA CreateQuickPackageKeeps ==
  ASSUME FormsInv, NEW t \in Tabs, Forms!createQuickPackage(t), UNCHANGED form
  PROVE  FormsInv'
  <1>1. /\ requested[t] = "insert"
        /\ UNCHANGED <<signedIn, account, package, session, redeemed, made, rooms, stash>>
        /\ \/ account /\ quickMade' = quickMade + 1
           \/ ~account /\ quickMade' = quickMade
    BY DEF Forms!createQuickPackage
  <1>2. Ends(t, "restart", said[t])
    <2>1. said = [said EXCEPT ![t] = said[t]]
      BY DEF FormsInv, FormTypes
    <2> QED
      BY <2>1, LosesEnds
         DEF Forms!createQuickPackage, Forms!Answered, Forms!Says, Forms!Goes, Ends, Tells
  <1>3. /\ Moves(t) /\ requested'[t] # "insert" /\ requested'[t] # "signin"
        /\ requested'[t] # "room" /\ said'[t] \in {said[t], "failed"}
    BY <1>2, EndsMove DEF Stages, FormsInv, FormTypes
  <1>4. WorldKeeps(t)
    BY <1>1, FormsConstants DEF WorldKeeps, FormsInv, FormTypes
  <1>5. FormOK(t)'
    <2>1. FormOK(t) /\ UNCHANGED form
      BY <1>3 DEF FormsInv, Moves
    <2>2. said[t] = "quick-cap" /\ Forms!AccountStays => quickMade' >= quick_package_cap
      BY <1>4, <2>1 DEF FormOK, WorldKeeps
    <2> QED
      BY <1>1, <1>3, <2>1, <2>2, FormStays DEF FormOK
  <1>6. FormTypes'
    BY <1>1, <1>3 DEF FormTypes, FormsInv, Moves
  <1>7. AccountOK'
    BY <1>1, <1>3, InsertCount, FormsConstants DEF AccountOK, FormsInv, FormTypes
  <1> QED
    BY <1>3, <1>4, <1>5, <1>6, <1>7, OneForm

LEMMA CreateQuickSessionKeeps ==
  ASSUME FormsInv, NEW t \in Tabs, Forms!createQuickSession(t), UNCHANGED form
  PROVE  FormsInv'
  <1>1. /\ form[t] = "quick"
        /\ UNCHANGED <<signedIn, account, package, session, redeemed, made, quickMade>>
        /\ rooms' \in {rooms, rooms + 1} /\ stash' \in {stash, FALSE}
    BY DEF Forms!createQuickSession
  <1>a. \/ rooms' = rooms + 1 /\ stash' = FALSE /\ Tells(t, "room", "done")
        \/ Ends(t, "idle", "failed")
    BY LosesEnds DEF Forms!createQuickSession, Forms!Succeeds, Forms!Says, Forms!Goes, Ends, Tells
  <1>b. rooms' \in Nat /\ (rooms > 0 => rooms' > 0) /\ rooms + 1 > 0
    BY <1>1 DEF FormsInv, FormTypes
  <1>3. /\ Moves(t) /\ requested'[t] \notin {"insert", "signin"}
        /\ said'[t] \in {"done", "failed"}
        /\ requested'[t] = "room" => rooms' > 0 /\ ~stash'
    <2>1. ASSUME Tells(t, "room", "done")
          PROVE  /\ Moves(t) /\ requested'[t] = "room" /\ said'[t] = "done"
      BY <2>1 DEF Tells, Moves, FormsInv, FormTypes, Stages, Sayings
    <2>2. ASSUME Ends(t, "idle", "failed")
          PROVE  /\ Moves(t) /\ requested'[t] = "idle" /\ said'[t] = "failed"
      BY <1>1, <2>2, EndsMove DEF Stages, Sayings
    <2> QED
      BY <1>a, <1>b, <2>1, <2>2
  <1>4. FormOK(t)'
    BY <1>1, <1>3 DEF FormOK
  <1>5. WorldKeeps(t)
    BY <1>1, <1>b DEF WorldKeeps
  <1> QED
    BY <1>1, <1>b, <1>3, <1>4, <1>5, CallOnly DEF FormsInv, FormTypes

LEMMA RedeemKeeps ==
  ASSUME FormsInv, NEW t \in Tabs, Forms!redeemCbtCode(t), UNCHANGED form
  PROVE  FormsInv'
  <1>1. /\ form[t] = "redeem" /\ redeemed' = TRUE
        /\ UNCHANGED <<signedIn, account, package, session, made, quickMade, rooms, stash>>
    BY DEF Forms!redeemCbtCode
  <1>2. Ends(t, "idle", "already") \/ Ends(t, "idle", "done")
    BY LosesEnds DEF Forms!redeemCbtCode, Forms!Answered, Forms!Succeeds, Forms!Says,
       Forms!Goes, Ends, Tells
  <1>3. Moves(t) /\ requested'[t] = "idle" /\ said'[t] \in {"already", "done", "failed"}
    BY <1>1, <1>2, EndsMove DEF Stages, Sayings
  <1>4. FormOK(t)'
    BY <1>1, <1>3 DEF FormOK
  <1>5. WorldKeeps(t)
    BY <1>1 DEF WorldKeeps
  <1> QED
    BY <1>1, <1>3, <1>4, <1>5, CallOnly DEF FormsInv, FormTypes

LEMMA RetryCompileKeeps ==
  ASSUME FormsInv, NEW t \in Tabs, Forms!retryCompile(t), UNCHANGED form
  PROVE  FormsInv'
  <1>1. /\ form[t] = "retry"
        /\ UNCHANGED <<signedIn, account, session, redeemed, made, quickMade, rooms, stash>>
        /\ package = "gone" => package' = "gone"
    BY DEF Forms!retryCompile
  <1>2. Ends(t, "refreshing", "done") \/ Ends(t, "idle", "refused")
    BY LosesEnds DEF Forms!retryCompile, Forms!Answered, Forms!Succeeds, Forms!Says, Forms!Goes,
       Ends, Tells
  <1>3. /\ Moves(t) /\ requested'[t] \notin {"insert", "signin", "room"}
        /\ said'[t] \in {"done", "refused", "failed", said[t]}
    BY <1>2, EndsMove DEF Stages, Sayings
  <1>4. FormOK(t)'
    BY <1>1, <1>3, FormStays DEF FormOK, FormsInv
  <1>5. WorldKeeps(t)
    BY <1>1 DEF WorldKeeps
  <1> QED
    BY <1>1, <1>3, <1>4, <1>5, CallOnly DEF FormsInv, FormTypes

LEMMA DeletePackageKeeps ==
  ASSUME FormsInv, NEW t \in Tabs, Forms!deletePackage(t), UNCHANGED form
  PROVE  FormsInv'
  <1>1. /\ form[t] = "delete" /\ requested[t] = "call"
        /\ UNCHANGED <<signedIn, account, redeemed, made, quickMade, rooms, stash>>
        /\ package = "gone" => package' = "gone"
    BY DEF Forms!deletePackage
  <1>2. \/ package' = "gone" /\ (Ends(t, "refreshing", "done") \/ Ends(t, "idle", "refused"))
        \/ package' = package /\ (Ends(t, "idle", "kept") \/ Ends(t, "idle", "failed"))
    BY LosesEnds DEF Forms!deletePackage, Forms!Answered, Forms!Succeeds, Forms!Says, Forms!Goes,
       Ends, Tells
  <1>3. /\ Moves(t) /\ requested'[t] \notin {"insert", "signin", "room"}
        /\ \/ package' = "gone" /\ said'[t] \in {"done", "refused", "failed", said[t]}
           \/ said'[t] \in {"kept", "failed", said[t]}
    BY <1>2, EndsMove DEF Stages, Sayings
  <1>4. FormOK(t)'
    BY <1>1, <1>3, FormStays DEF FormOK, FormsInv
  <1>5. WorldKeeps(t)
    BY <1>1 DEF WorldKeeps
  <1> QED
    BY <1>1, <1>3, <1>4, <1>5, CallOnly DEF FormsInv, FormTypes

LEMMA CreateSessionKeeps ==
  ASSUME FormsInv, NEW t \in Tabs, Forms!createSession(t), UNCHANGED form
  PROVE  FormsInv'
  <1>1. /\ form[t] \in {"start", "reclaim"}
        /\ UNCHANGED <<signedIn, account, package, redeemed, made, quickMade, rooms, stash>>
        /\ session = "planned" => session' = "planned"
    BY DEF Forms!createSession
  <1>2. \/ session' = "planned" /\ Ends(t, "room", "done")
        \/ Ends(t, "idle", "refused")
    BY LosesEnds DEF Forms!createSession, Forms!Answered, Forms!Succeeds, Forms!Says, Forms!Goes,
       Ends, Tells
  <1>3. /\ Moves(t) /\ requested'[t] \notin {"insert", "signin"}
        /\ requested'[t] = "room" => session' = "planned"
        /\ said'[t] \in {"done", "refused", "failed"}
    BY <1>1, <1>2, EndsMove DEF Stages, Sayings
  <1>4. FormOK(t)'
    BY <1>1, <1>3 DEF FormOK
  <1>5. WorldKeeps(t)
    BY <1>1 DEF WorldKeeps
  <1> QED
    BY <1>1, <1>3, <1>4, <1>5, CallOnly DEF FormsInv, FormTypes

LEMMA ReclaimSessionKeeps ==
  ASSUME FormsInv, NEW t \in Tabs, Forms!reclaimSession(t), UNCHANGED form
  PROVE  FormsInv'
  <1>1. /\ form[t] = "reclaim"
        /\ UNCHANGED <<signedIn, account, package, redeemed, made, quickMade, rooms, stash>>
        /\ session = "planned" => session' = "planned"
    BY DEF Forms!reclaimSession, Forms!Reclaimable
  <1>2. Ends(t, "again", said[t]) \/ Ends(t, "idle", "refused")
    <2>1. said = [said EXCEPT ![t] = said[t]]
      BY DEF FormsInv, FormTypes
    <2> QED
      BY <2>1, LosesEnds DEF Forms!reclaimSession, Forms!Answered, Forms!Says, Forms!Goes,
         Ends, Tells
  <1>3. /\ Moves(t) /\ requested'[t] \notin {"insert", "signin", "room"}
        /\ said'[t] \in {"refused", "failed", said[t]}
    BY <1>2, EndsMove DEF Stages, Sayings, FormsInv, FormTypes
  <1>4. FormOK(t)'
    BY <1>1, <1>3, FormStays DEF FormOK, FormsInv
  <1>5. WorldKeeps(t)
    BY <1>1 DEF WorldKeeps
  <1> QED
    BY <1>1, <1>3, <1>4, <1>5, CallOnly DEF FormsInv, FormTypes

LEMMA DeleteAccountKeeps ==
  ASSUME FormsInv, NEW t \in Tabs, Forms!deleteAccount(t), UNCHANGED form
  PROVE  FormsInv'
  <1>1. /\ form[t] = "account" /\ requested[t] = "call" /\ ~Forms!AccountStays
        /\ UNCHANGED <<signedIn, account, rooms, stash>>
        /\ \/ package' = "gone" /\ made' = 0 /\ quickMade' = 0 /\ redeemed' = FALSE
              /\ Ends(t, "signin", said[t])
           \/ UNCHANGED <<package, made, quickMade, redeemed>>
              /\ (Ends(t, "idle", "kept") \/ Ends(t, "idle", "failed"))
    <2>1. said = [said EXCEPT ![t] = said[t]]
      BY DEF FormsInv, FormTypes
    <2> QED
      BY <2>1, LosesEnds DEF Forms!deleteAccount, Forms!Answered, Forms!Says, Forms!Goes,
         Ends, Tells, Forms!AccountStays
  <1>2. /\ Moves(t) /\ requested'[t] \notin {"insert", "room"}
        /\ requested'[t] = "signin" => package' = "gone"
        /\ said'[t] \in {"kept", "failed", said[t]}
    BY <1>1, EndsMove DEF Stages, Sayings, FormsInv, FormTypes
  <1>3. /\ package = "gone" => package' = "gone"
        /\ made' \in Nat /\ quickMade' \in Nat /\ redeemed' \in BOOLEAN
        /\ made' \in {0, made} /\ quickMade' \in {0, quickMade}
    <2>1. made \in Nat /\ quickMade \in Nat /\ redeemed \in BOOLEAN
      BY DEF FormsInv, FormTypes
    <2>2. CASE package' = "gone" /\ made' = 0 /\ quickMade' = 0 /\ redeemed' = FALSE
      BY <2>1, <2>2
    <2>3. CASE UNCHANGED <<package, made, quickMade, redeemed>>
      BY <2>1, <2>3
    <2> QED
      BY <1>1, <2>2, <2>3
  <1>4. FormOK(t)'
    BY <1>1, <1>2, <1>3, FormStays DEF FormOK, FormsInv
  <1>5. WorldKeeps(t)
    BY <1>1, <1>3 DEF WorldKeeps
  <1>6. FormTypes'
    BY <1>1, <1>2, <1>3 DEF FormTypes, FormsInv, Moves
  <1>7. AccountOK'
    BY <1>1, <1>2, <1>3, InsertCount, FormsConstants DEF AccountOK, FormsInv, FormTypes
  <1> QED
    BY <1>2, <1>4, <1>5, <1>6, <1>7, OneForm

LEMMA RemoveSignInKeeps ==
  ASSUME FormsInv, NEW t \in Tabs, Forms!removeSignInRecord(t), UNCHANGED form
  PROVE  FormsInv'
  <1>1. /\ requested[t] = "signin" /\ signedIn' = FALSE
        /\ UNCHANGED <<Forms!rows, stash>>
        /\ \/ made = 0 /\ quickMade = 0 /\ account' = FALSE /\ Ends(t, "away", "done")
           \/ account' = account /\ Tells(t, "away", "partly")
    BY LosesEnds DEF Forms!removeSignInRecord, Forms!Answered, Forms!Succeeds, Forms!Goes,
       Ends, Tells
  <1>2. form[t] = "account" /\ package = "gone" /\ FormOK(t)
    BY <1>1 DEF FormsInv, FormOK
  <1>3. /\ Moves(t) /\ requested'[t] \in {"away", "idle"}
        /\ \/ made = 0 /\ quickMade = 0 /\ account' = FALSE /\ said'[t] \in {"done", "failed"}
           \/ account' = account /\ said'[t] = "partly"
    <2>1. CASE made = 0 /\ quickMade = 0 /\ account' = FALSE /\ Ends(t, "away", "done")
      BY <1>2, <2>1, EndsMove DEF Stages, Sayings
    <2>2. CASE account' = account /\ Tells(t, "away", "partly")
      BY <2>2 DEF Tells, Moves, FormsInv, FormTypes, Stages, Sayings
    <2> QED
      BY <1>1, <2>1, <2>2
  <1>4. UNCHANGED <<package, session, retries, redeemed, made, quickMade, rooms>>
    BY <1>1 DEF Forms!rows
  <1>5. FormOK(t)'
    BY <1>1, <1>2, <1>3, <1>4, FormStays DEF FormOK
  <1>6. WorldKeeps(t)
    BY <1>1, <1>2, <1>3, <1>4 DEF WorldKeeps
  <1>7. FormTypes'
    BY <1>1, <1>3, <1>4 DEF FormTypes, FormsInv, Moves
  <1>8. AccountOK'
    BY <1>1, <1>2, <1>3, <1>4, InsertCount, FormsConstants DEF AccountOK, FormsInv, FormTypes
  <1> QED
    BY <1>3, <1>5, <1>6, <1>7, <1>8, OneForm

LEMMA FormsStep == FormsInv /\ [Forms!Next]_formsVars => FormsInv'
  <1> SUFFICES ASSUME FormsInv, [Forms!Next]_formsVars PROVE FormsInv'
    OBVIOUS
  <1>1. CASE UNCHANGED formsVars
    BY <1>1 DEF formsVars, FormsInv, FormTypes, AccountOK, Inserting, FormOK, Forms!Alone,
       Forms!AccountStays
  <1>2. ASSUME NEW t \in Tabs, Forms!Call(t) PROVE FormsInv'
    BY <1>2, CreatePackageKeeps, CountQuickKeeps, CreateQuickPackageKeeps,
       CreateQuickSessionKeeps, RedeemKeeps, RetryCompileKeeps, DeletePackageKeeps,
       CreateSessionKeeps, ReclaimSessionKeeps, DeleteAccountKeeps, RemoveSignInKeeps, Zenon
       DEF Forms!Call
  <1> QED
    BY <1>1, <1>2, PressKeeps, ReloadKeeps, SignKeeps, UnansweredKeeps, RouteKeeps
       DEF Forms!Next

LEMMA FormsInit == PartsInit => FormsInv
  <1> SUFFICES ASSUME PartsInit PROVE FormsInv
    OBVIOUS
  <1>1. /\ account = TRUE /\ quickMade \in {0, quick_package_cap} /\ made = 0 /\ rooms = 0
        /\ redeemed = FALSE /\ stash = FALSE /\ signedIn \in BOOLEAN
        /\ form \in [Tabs -> Forms!Forms]
        /\ requested = [t \in Tabs |-> "idle"] /\ said = [t \in Tabs |-> "nothing"]
    BY DEF PartsInit, Forms!Init
  <1>2. FormTypes
    <2>1. requested \in [Tabs -> Stages] /\ said \in [Tabs -> Sayings]
      BY <1>1 DEF Stages, Sayings
    <2>2. made \in Nat /\ quickMade \in Nat /\ rooms \in Nat
      BY <1>1, FormsConstants
    <2>3. account \in BOOLEAN /\ redeemed \in BOOLEAN /\ stash \in BOOLEAN
      BY <1>1
    <2> QED
      BY <1>1, <2>1, <2>2, <2>3 DEF FormTypes
  <1>3. AccountOK
    <2>1. Inserting = {}
      BY <1>1 DEF Inserting
    <2>2. Cardinality(Tabs) \in Nat /\ Cardinality(Tabs) # 0 /\ Cardinality({}) = 0
      BY FormsConstants, FS_CardinalityType, FS_EmptySet
    <2> QED
      BY <1>1, <2>1, <2>2, FormsConstants DEF AccountOK
  <1>4. ASSUME NEW t \in Tabs PROVE FormOK(t)
    BY <1>1 DEF FormOK
  <1> QED
    BY <1>2, <1>3, <1>4 DEF FormsInv

-----------------------------------------------------------------------------
\* A tab nobody comes back to sends at most sixteen refreshes for each screen it is put
\* through (poll-backoff.ts), and what a form has told is so, whoever else presses
\* something meanwhile (WebForms): for any number of tabs, outages and lost answers.
THEOREM TabsHold == PartsSpec => []TabsAreHonest
  <1>1. PartsInit => PollInv /\ FormsInv
    BY PollInit, FormsInit
  <1>2. [PartsNext]_partsVars => [Poller!Next]_pollVars /\ [Forms!Next]_formsVars
    BY DEF PartsNext, InSession, InPoll, InForms, partsVars, pollVars, formsVars
  <1>3. PollInv /\ FormsInv /\ [PartsNext]_partsVars => PollInv' /\ FormsInv'
    BY <1>2, PollStep, FormsStep
  <1>4. PollInv /\ FormsInv => TabsAreHonest
    BY PollIsBounded, FormsInvIsEnough DEF TabsAreHonest
  <1> QED
    BY <1>1, <1>3, <1>4, PTL DEF PartsSpec

\* The run's behaviours are behaviours of SessionLifecycle, the forms and the waiting tab
\* beside it notwithstanding: what is proved of Spec above holds of them.
THEOREM PartsAreLifecycle == PartsSpec => Spec
  <1>1. PartsInit => Init
    BY DEF PartsInit
  <1>2. [PartsNext]_partsVars => [Next]_vars
    BY DEF PartsNext, InSession, InPoll, InForms, partsVars
  <1> QED
    BY <1>1, <1>2, PTL DEF PartsSpec, Spec
=============================================================================
