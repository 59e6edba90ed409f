--------------------------- MODULE CompileProofs ---------------------------
(***************************************************************************)
(* Proofs about PackageCompile: its types, and the three bounds that hold   *)
(* however requests, background tasks and restarts interleave.              *)
(*                                                                          *)
(* Each bound is the sum of what was done and what a request is past the    *)
(* check for and has not done yet.                                          *)
(***************************************************************************)
EXTENDS PackageCompile, FiniteSetTheorems, TLAPS

Step  == {"idle", "insert", "touch", "comp", "redemption", "grant", "select",
          "update", "reuse", "bump", "reset"}
Phase == {"idle", "queued", "running", "saved"}

\* A create that has not opened its row yet.
Unopened == {"touch", "comp", "redemption", "grant"}

RowTypeOK ==
  /\ status \in [Packages -> {"none", "compiling", "ready", "failed"}]
  /\ clock \in [Packages -> {"null", "fresh", "stale"}]
  /\ opened \in [Packages -> {"locked", "comp", "code"}]

AccountTypeOK ==
  /\ allowlisted \in BOOLEAN
  /\ code \in {"none", "redeemed", "closed"}
  /\ granted \in Nat
  /\ retries \in [Packages -> 0..RetryCap]

RequestTypeOK ==
  /\ pc \in [Handlers -> Step]
  /\ pkg \in [Handlers -> Packages \union {NoPackage}]
  /\ \A h \in Handlers : pc[h] \notin {"idle", "insert"} => pkg[h] \in Packages
  /\ seen \in [Handlers -> Nat]

JobTypeOK ==
  /\ stage \in [Jobs -> Phase]
  /\ target \in [Jobs -> Packages \union {NoPackage}]
  /\ \A j \in Jobs : stage[j] # "idle" => target[j] \in Packages
  /\ runs \in [Packages -> Nat]

LEMMA TypeParts ==
  /\ TypeOK <=> /\ RowTypeOK /\ AccountTypeOK /\ RequestTypeOK /\ JobTypeOK
                /\ boots \in 1..MaxBoots
  /\ TypeOK' <=> /\ RowTypeOK' /\ AccountTypeOK' /\ RequestTypeOK' /\ JobTypeOK'
                 /\ boots' \in 1..MaxBoots
  BY DEF TypeOK, RowTypeOK, AccountTypeOK, RequestTypeOK, JobTypeOK, Step, Phase

----------------------------------------------------------------------------
(* Types *)

\* Answering a request and starting a task keep the types.
LEMMA RequestEnds ==
  ASSUME RequestTypeOK, NEW h \in Handlers, Answer(h),
         UNCHANGED seen \/ seen' = [seen EXCEPT ![h] = 0]
  PROVE  RequestTypeOK'
  BY DEF RequestTypeOK, Answer, Step

LEMMA JobStarts ==
  ASSUME JobTypeOK, NEW p \in Packages, StartsJob(p)
  PROVE  JobTypeOK'
  BY DEF JobTypeOK, StartsJob, Phase

LEMMA CreateType ==
  ASSUME TypeOK, NEW h \in Handlers, CreatePackage(h)
  PROVE  TypeOK'
  <1> USE TypeParts
  <1>1. CASE ListOwned(h)
    <2>1. RequestTypeOK'
      BY <1>1 DEF ListOwned, Goto, RequestTypeOK, Step
    <2> QED
      BY <1>1, <2>1 DEF ListOwned, rowVars, accountVars, jobVars, RowTypeOK, AccountTypeOK,
         JobTypeOK
  <1>2. CASE InsertRow(h)
    <2>1. RowTypeOK'
      BY <1>2 DEF InsertRow, RowTypeOK
    <2>2. RequestTypeOK'
      BY <1>2 DEF InsertRow, RequestTypeOK, Step
    <2> QED
      BY <1>2, <2>1, <2>2 DEF InsertRow, accountVars, jobVars, AccountTypeOK, JobTypeOK
  <1>3. CASE TouchRow(h)
    <2>1. RowTypeOK' /\ RequestTypeOK'
      BY <1>3 DEF TouchRow, Goto, RowTypeOK, RequestTypeOK, Step
    <2> QED
      BY <1>3, <2>1 DEF TouchRow, accountVars, jobVars, AccountTypeOK, JobTypeOK
  <1>4. CASE CompRow(h) \/ GrantCode(h)
    <2>1. RowTypeOK' /\ RequestTypeOK'
      BY <1>4 DEF CompRow, GrantCode, Goto, RowTypeOK, RequestTypeOK, Step
    <2> QED
      BY <1>4, <2>1 DEF CompRow, GrantCode, accountVars, jobVars, AccountTypeOK, JobTypeOK
  <1>5. CASE ReadRedemption(h) \/ SelectGranted(h)
    <2>1. RequestTypeOK'
      BY <1>5 DEF ReadRedemption, SelectGranted, Goto, RequestTypeOK, AccountTypeOK, Step
    <2> QED
      BY <1>5, <2>1 DEF ReadRedemption, SelectGranted, rowVars, accountVars, jobVars, RowTypeOK,
         AccountTypeOK, JobTypeOK
  <1>6. CASE UpdateGranted(h)
    <2>1. RequestTypeOK' /\ AccountTypeOK'
      BY <1>6 DEF UpdateGranted, Goto, RequestTypeOK, AccountTypeOK, Step
    <2> QED
      BY <1>6, <2>1 DEF UpdateGranted, rowVars, jobVars, RowTypeOK, JobTypeOK
  <1>7. CASE ReuseRubric(h)
    <2>1. RowTypeOK' /\ RequestTypeOK'
      BY <1>7, RequestEnds DEF ReuseRubric, RowTypeOK
    <2> QED
      BY <1>7, <2>1 DEF ReuseRubric, accountVars, jobVars, AccountTypeOK, JobTypeOK
  <1>8. CASE Enqueue(h)
    <2>1. RequestTypeOK' /\ JobTypeOK'
      BY <1>8, RequestEnds, JobStarts DEF Enqueue, RequestTypeOK
    <2> QED
      BY <1>8, <2>1 DEF Enqueue, rowVars, accountVars, RowTypeOK, AccountTypeOK
  <1> QED
    BY <1>1, <1>2, <1>3, <1>4, <1>5, <1>6, <1>7, <1>8 DEF CreatePackage

LEMMA RetryType ==
  ASSUME TypeOK, NEW h \in Handlers, RetryCompile(h) \/ RequestFails(h)
  PROVE  TypeOK'
  <1> USE TypeParts
  <1>1. ASSUME NEW p \in Packages, RetryReads(h, p)
        PROVE  TypeOK'
    <2>1. RequestTypeOK'
      BY <1>1 DEF RetryReads, RequestTypeOK, Step
    <2> QED
      BY <1>1, <2>1 DEF RetryReads, rowVars, accountVars, jobVars, RowTypeOK, AccountTypeOK, JobTypeOK
  <1>2. CASE RetryBumps(h)
    <2>1. RequestTypeOK'
      BY <1>2 DEF RetryBumps, Goto, Answer, RequestTypeOK, Step
    <2>2. AccountTypeOK'
      BY <1>2, CompileConstants DEF RetryBumps, Bump, accountVars, RequestTypeOK, AccountTypeOK
    <2> QED
      BY <1>2, <2>1, <2>2 DEF RetryBumps, rowVars, jobVars, RowTypeOK, JobTypeOK
  <1>3. CASE RetryResets(h)
    <2>1. RowTypeOK' /\ RequestTypeOK' /\ JobTypeOK'
      BY <1>3, RequestEnds, JobStarts DEF RetryResets, RowTypeOK, RequestTypeOK
    <2> QED
      BY <1>3, <2>1 DEF RetryResets, accountVars, AccountTypeOK
  <1>4. CASE RequestFails(h)
    BY <1>4, RequestEnds DEF RequestFails, rowVars, accountVars, jobVars, RowTypeOK,
       AccountTypeOK, JobTypeOK
  <1> QED
    BY <1>1, <1>2, <1>3, <1>4 DEF RetryCompile

LEMMA JobType ==
  ASSUME TypeOK, NEW j \in Jobs, JobStep(j)
  PROVE  TypeOK'
  <1> USE TypeParts
  <1>1. RowTypeOK'
    BY DEF JobStep, JobRefused, JobBegins, JobSavesRubric, JobTouches, JobFails, JobIsLost,
       PackageFails, besideRow, RowTypeOK, JobTypeOK
  <1>2. JobTypeOK'
    BY DEF JobStep, JobRefused, JobBegins, JobSavesRubric, JobTouches, JobFails, JobIsLost,
       JobEnds, besideRow, JobTypeOK, Phase
  <1>3. UNCHANGED <<accountVars, retries, requestVars, boots>>
    BY DEF JobStep, JobRefused, JobBegins, JobSavesRubric, JobTouches, JobFails, JobIsLost, besideRow
  <1> QED
    BY <1>1, <1>2, <1>3 DEF accountVars, requestVars, AccountTypeOK, RequestTypeOK

LEMMA WorldType ==
  ASSUME TypeOK,
         Redeem \/ CodeCloses \/ Reap \/ Restart \/ \E p \in Packages : ClockAges(p)
  PROVE  TypeOK'
  <1> USE TypeParts
  <1>1. CASE Redeem \/ CodeCloses
    BY <1>1 DEF Redeem, CodeCloses, rowVars, requestVars, jobVars, RowTypeOK, AccountTypeOK,
       RequestTypeOK, JobTypeOK
  <1>2. CASE Reap
    <2>1. RowTypeOK'
      BY <1>2 DEF Reap, ReapStuck, RowTypeOK
    <2> QED
      BY <1>2, <2>1 DEF Reap, accountVars, requestVars, jobVars, AccountTypeOK, RequestTypeOK, JobTypeOK
  <1>3. CASE Restart
    <2>1. RowTypeOK'
      BY <1>3 DEF Restart, ReapStuck, RowTypeOK
    <2>2. AccountTypeOK' /\ RequestTypeOK' /\ JobTypeOK'
      BY <1>3, CompileConstants DEF Restart, accountVars, AccountTypeOK, RequestTypeOK, JobTypeOK,
         Step, Phase
    <2>3. boots' \in 1..MaxBoots
      BY <1>3, CompileConstants DEF Restart
    <2> QED
      BY <2>1, <2>2, <2>3
  <1>4. ASSUME NEW p \in Packages, ClockAges(p)
        PROVE  TypeOK'
    <2>1. RowTypeOK'
      BY <1>4 DEF ClockAges, RowTypeOK
    <2> QED
      BY <1>4, <2>1 DEF ClockAges, accountVars, requestVars, jobVars, AccountTypeOK,
         RequestTypeOK, JobTypeOK
  <1> QED
    BY <1>1, <1>2, <1>3, <1>4

LEMMA TypeInductive ==
  /\ Init => TypeOK
  /\ TypeOK /\ [Next]_vars => TypeOK'
  <1>1. Init => TypeOK
    BY CompileConstants DEF Init, TypeOK
  <1>2. TypeOK /\ UNCHANGED vars => TypeOK'
    BY DEF TypeOK, vars, rowVars, accountVars, requestVars, jobVars
  <1> QED
    BY <1>1, <1>2, CreateType, RetryType, JobType, WorldType DEF Next

\* The rows, the counters, the requests and the tasks keep their types, the
\* retry counter never past its cap (packages.py, jobs.py, reaper.py).
THEOREM CompileTypes == Spec => []TypeOK
  BY TypeInductive, PTL DEF Spec

----------------------------------------------------------------------------
(* What a request and a task know of their row *)

\* Nothing was done for a row that does not exist; a request past the insert and
\* a task work on a row that does; a row is locked, and one request's own, until
\* its create opens it.
RowInv ==
  /\ \A p \in Packages : status[p] = "none" => runs[p] = 0 /\ opened[p] = "locked"
  /\ \A h \in Handlers : pc[h] \notin {"idle", "insert"} => status[pkg[h]] # "none"
  /\ \A j \in Jobs : stage[j] # "idle" => status[target[j]] # "none"
  /\ \A h \in Handlers : pc[h] \in Unopened => opened[pkg[h]] = "locked"
  /\ \A g, h \in Handlers :
       pc[g] \in Unopened /\ pc[h] \in Unopened /\ pkg[g] = pkg[h] => g = h

LEMMA RowInductive ==
  ASSUME TypeOK, RowInv, [Next]_vars
  PROVE  RowInv'
  <1> USE TypeParts DEF RowTypeOK, RequestTypeOK, JobTypeOK
  <1>1. ASSUME NEW h \in Handlers, CreatePackage(h)
        PROVE  RowInv'
    <2>1. CASE ListOwned(h) \/ ReadRedemption(h) \/ SelectGranted(h) \/ UpdateGranted(h)
      BY <2>1 DEF ListOwned, ReadRedemption, SelectGranted, UpdateGranted, Goto, rowVars, jobVars,
         RowInv, Unopened
    <2>2. CASE InsertRow(h)
      BY <2>2 DEF InsertRow, Rows, jobVars, RowInv, Unopened
    <2>3. CASE TouchRow(h)
      BY <2>3 DEF TouchRow, Goto, jobVars, RowInv, Unopened
    <2>4. CASE CompRow(h) \/ GrantCode(h)
      BY <2>4 DEF CompRow, GrantCode, Goto, jobVars, RowInv, Unopened
    <2>5. CASE ReuseRubric(h)
      BY <2>5 DEF ReuseRubric, Answer, jobVars, RowInv, Unopened
    <2>6. CASE Enqueue(h)
      BY <2>6 DEF Enqueue, StartsJob, Answer, rowVars, RowInv, Unopened
    <2> QED
      BY <1>1, <2>1, <2>2, <2>3, <2>4, <2>5, <2>6 DEF CreatePackage
  <1>2. ASSUME NEW h \in Handlers, RetryCompile(h) \/ RequestFails(h)
        PROVE  RowInv'
    <2>1. ASSUME NEW p \in Packages, RetryReads(h, p)
          PROVE  RowInv'
      BY <2>1 DEF RetryReads, rowVars, jobVars, RowInv, Unopened
    <2>2. CASE RetryBumps(h) \/ RequestFails(h)
      BY <2>2 DEF RetryBumps, RequestFails, Goto, Answer, rowVars, jobVars, RowInv, Unopened
    <2>3. CASE RetryResets(h)
      BY <2>3 DEF RetryResets, StartsJob, Answer, RowInv, Unopened
    <2> QED
      BY <1>2, <2>1, <2>2, <2>3 DEF RetryCompile
  <1>3. ASSUME NEW j \in Jobs, JobStep(j)
        PROVE  RowInv'
    <2>1. /\ UNCHANGED <<opened, requestVars, runs>>
          /\ \A p \in Packages : status'[p] = "none" <=> status[p] = "none"
          /\ \A i \in Jobs : stage'[i] # "idle" => stage[i] # "idle" /\ target'[i] = target[i]
      BY <1>3 DEF JobStep, JobRefused, JobBegins, JobSavesRubric, JobTouches, JobFails, JobIsLost,
         PackageFails, JobEnds, Running, besideRow, RowInv
    <2> QED
      BY <2>1 DEF requestVars, RowInv
  <1>4. CASE Redeem \/ CodeCloses
    BY <1>4 DEF Redeem, CodeCloses, rowVars, requestVars, jobVars, RowInv
  <1>5. CASE Reap
    BY <1>5 DEF Reap, ReapStuck, Stuck, requestVars, jobVars, RowInv
  <1>6. CASE Restart
    BY <1>6 DEF Restart, ReapStuck, Stuck, RowInv, Unopened
  <1>7. ASSUME NEW p \in Packages, ClockAges(p)
        PROVE  RowInv'
    BY <1>7 DEF ClockAges, requestVars, jobVars, RowInv
  <1>8. CASE UNCHANGED vars
    BY <1>8 DEF vars, rowVars, requestVars, jobVars, RowInv
  <1> QED
    BY <1>1, <1>2, <1>3, <1>4, <1>5, <1>6, <1>7, <1>8 DEF Next

----------------------------------------------------------------------------
(* Counting *)

\* A part of a finite set has a size; a part of the part is no larger, one
\* without a member smaller by it, and one more member is one more.
LEMMA Sizes ==
  ASSUME NEW S, IsFiniteSet(S), NEW A \in SUBSET S
  PROVE  /\ Cardinality(A) \in Nat
         /\ \A B \in SUBSET A : Cardinality(B) <= Cardinality(A)
         /\ \A x \in A : \A B \in SUBSET (A \ {x}) : Cardinality(B) + 1 <= Cardinality(A)
         /\ \A x \in S \ A : Cardinality(A \union {x}) = Cardinality(A) + 1
         /\ \A x \in S : \A B \in SUBSET (A \union {x}) : Cardinality(B) <= Cardinality(A) + 1
  <1>1. IsFiniteSet(A) /\ Cardinality(A) \in Nat
    BY FS_Subset, FS_CardinalityType
  <1>2. \A B \in SUBSET A : IsFiniteSet(B) /\ Cardinality(B) \in Nat /\ Cardinality(B) <= Cardinality(A)
    BY <1>1, FS_Subset, FS_CardinalityType
  <1>3. ASSUME NEW x \in A, NEW B \in SUBSET (A \ {x})
        PROVE  Cardinality(B) + 1 <= Cardinality(A)
    <2>1. IsFiniteSet(A \ {x}) /\ Cardinality(A \ {x}) = Cardinality(A) - 1
      BY <1>1, <1>2, FS_RemoveElement
    <2>2. Cardinality(B) <= Cardinality(A \ {x}) /\ Cardinality(B) \in Nat
      BY <1>2, <2>1, FS_Subset
    <2> QED
      BY <1>1, <2>1, <2>2
  <1>4. ASSUME NEW x \in S \ A
        PROVE  Cardinality(A \union {x}) = Cardinality(A) + 1
    BY <1>1, <1>4, FS_AddElement
  <1>5. ASSUME NEW x \in S, NEW B \in SUBSET (A \union {x})
        PROVE  Cardinality(B) <= Cardinality(A) + 1
    <2>1. IsFiniteSet(A \union {x}) /\ Cardinality(A \union {x}) <= Cardinality(A) + 1
      BY <1>1, FS_AddElement
    <2>2. Cardinality(B) <= Cardinality(A \union {x}) /\ Cardinality(B) \in Nat
      BY <2>1, FS_Subset, FS_CardinalityType
    <2>3. Cardinality(A \union {x}) \in Nat
      BY <2>1, FS_CardinalityType
    <2> QED
      BY <1>1, <2>1, <2>2, <2>3
  <1> QED
    BY <1>1, <1>2, <1>3, <1>4, <1>5

----------------------------------------------------------------------------
(* The package cap *)

\* The creates past the cap check.
Inserting == {h \in Handlers : pc[h] = "insert"}

RowsInv == Cardinality(Rows) + Cardinality(Inserting) + 1 <= MaxPackages + Cardinality(Handlers)

LEMMA RowSizes ==
  /\ Cardinality(Rows) \in Nat /\ Cardinality(Inserting) \in Nat
  /\ Cardinality(Rows)' \in Nat /\ Cardinality(Inserting)' \in Nat
  /\ Cardinality(Handlers) \in Nat
  /\ Cardinality(Inserting)' <= Cardinality(Handlers)
  <1>1. /\ Rows \in SUBSET Packages /\ Rows' \in SUBSET Packages
        /\ Inserting \in SUBSET Handlers /\ Inserting' \in SUBSET Handlers
    BY DEF Rows, Inserting
  <1> QED
    BY <1>1, CompileConstants, Sizes

LEMMA RowsInductive ==
  ASSUME TypeOK, RowInv, RowsInv, [Next]_vars
  PROVE  RowsInv'
  <1> USE TypeParts, RowSizes DEF RowTypeOK, RequestTypeOK, JobTypeOK
  <1>1. ASSUME NEW h \in Handlers, ListOwned(h)
        PROVE  RowsInv'
    <2>1. Rows' = Rows /\ Cardinality(Rows) < MaxPackages
      BY <1>1 DEF ListOwned, rowVars, Rows
    <2> QED
      BY <2>1, CompileConstants DEF RowsInv
  <1>2. ASSUME NEW h \in Handlers, InsertRow(h)
        PROVE  RowsInv'
    <2>1. PICK p \in Packages \ Rows : status' = [status EXCEPT ![p] = "compiling"]
      BY <1>2 DEF InsertRow
    <2>2. Rows' = Rows \union {p} /\ Rows \in SUBSET Packages
      BY <2>1 DEF Rows
    <2>3. Cardinality(Rows') = Cardinality(Rows) + 1
      BY <2>2, CompileConstants, Sizes
    <2>4. h \in Inserting /\ Inserting' \in SUBSET (Inserting \ {h}) /\ Inserting \in SUBSET Handlers
      BY <1>2 DEF InsertRow, Inserting
    <2>5. Cardinality(Inserting') + 1 <= Cardinality(Inserting)
      BY <2>4, CompileConstants, Sizes
    <2> QED
      BY <2>3, <2>5, CompileConstants DEF RowsInv
  <1>3. ASSUME Rows' = Rows, Inserting' \in SUBSET Inserting
        PROVE  RowsInv'
    <2>1. Inserting \in SUBSET Handlers
      BY DEF Inserting
    <2>2. Cardinality(Inserting') <= Cardinality(Inserting)
      BY <1>3, <2>1, CompileConstants, Sizes
    <2> QED
      BY <1>3, <2>2, CompileConstants DEF RowsInv
  <1>4. ASSUME NEW h \in Handlers,
               \/ TouchRow(h) \/ CompRow(h) \/ ReadRedemption(h) \/ GrantCode(h)
               \/ SelectGranted(h) \/ UpdateGranted(h) \/ ReuseRubric(h) \/ Enqueue(h)
               \/ RetryCompile(h) \/ RequestFails(h)
        PROVE  RowsInv'
    <2>1. Rows' = Rows
      BY <1>4 DEF TouchRow, CompRow, ReadRedemption, GrantCode, SelectGranted, UpdateGranted,
         ReuseRubric, Enqueue, RetryCompile, RetryReads, RetryBumps, RetryResets, RequestFails,
         rowVars, RowInv, Rows
    <2>2. Inserting' \in SUBSET Inserting
      BY <1>4 DEF TouchRow, CompRow, ReadRedemption, GrantCode, SelectGranted, UpdateGranted,
         ReuseRubric, Enqueue, RetryCompile, RetryReads, RetryBumps, RetryResets, RequestFails,
         Goto, Answer, Inserting
    <2> QED
      BY <1>3, <2>1, <2>2
  <1>5. ASSUME NEW j \in Jobs, JobStep(j)
        PROVE  RowsInv'
    <2>1. Rows' = Rows /\ Inserting' = Inserting
      BY <1>5 DEF JobStep, JobRefused, JobBegins, JobSavesRubric, JobTouches, JobFails, JobIsLost,
         PackageFails, Running, besideRow, requestVars, RowInv, Rows, Inserting
    <2> QED
      BY <1>3, <2>1
  <1>6. CASE Redeem \/ CodeCloses \/ Reap \/ (\E p \in Packages : ClockAges(p)) \/ UNCHANGED vars
    <2>1. Rows' = Rows /\ Inserting' = Inserting
      BY <1>6 DEF Redeem, CodeCloses, Reap, ReapStuck, Stuck, ClockAges, vars, rowVars,
         requestVars, Rows, Inserting
    <2> QED
      BY <1>3, <2>1
  <1>7. CASE Restart
    <2>1. Rows' = Rows /\ Inserting' \in SUBSET Inserting
      BY <1>7 DEF Restart, ReapStuck, Stuck, Rows, Inserting
    <2> QED
      BY <1>3, <2>1
  <1> QED
    BY <1>1, <1>2, <1>4, <1>5, <1>6, <1>7 DEF Next, CreatePackage

\* What every bound below starts from.
LEMMA RowsKnown == Spec => [](TypeOK /\ RowInv)
  <1>1. Init => RowInv
    BY DEF Init, RowInv, Unopened
  <1> QED
    BY <1>1, RowInductive, TypeInductive, PTL DEF Spec

\* However many creates race, an account passes its package cap by less than
\* the number of them (create_package, max_packages_per_user).
THEOREM PackagesHold == Spec => []PackagesBounded
  <1>1. Init => RowsInv
    <2> SUFFICES ASSUME Init PROVE RowsInv
      OBVIOUS
    <2>1. Rows = {} /\ Inserting = {}
      BY DEF Init, Rows, Inserting
    <2>2. Cardinality(Handlers) \in Nat /\ Cardinality(Handlers) # 0
      BY CompileConstants, FS_CardinalityType, FS_EmptySet
    <2> QED
      BY <2>1, <2>2, FS_EmptySet, CompileConstants DEF RowsInv
  <1>2. RowsInv => PackagesBounded
    BY RowSizes, CompileConstants DEF RowsInv, PackagesBounded
  <1> QED
    BY <1>1, <1>2, RowsInductive, RowsKnown, PTL DEF Spec

----------------------------------------------------------------------------
(* Compiles of a row *)

\* The requests that still owe row p the start of a task.
Owing == {"touch", "comp", "redemption", "grant", "select", "update", "reuse", "reset"}

Owed(p) == {h \in Handlers : pc[h] \in Owing /\ pkg[h] = p}

\* One birth, the cap for each process that is gone, and the counter of this one.
Paid(p) == 1 + RetryCap * (boots - 1) + retries[p]

CompilesInv == \A p \in Packages : runs[p] + Cardinality(Owed(p)) <= Paid(p)

LEMMA OwedSizes ==
  ASSUME NEW p \in Packages
  PROVE  /\ Owed(p) \in SUBSET Handlers /\ Owed(p)' \in SUBSET Handlers
         /\ Cardinality(Owed(p)) \in Nat /\ Cardinality(Owed(p)') \in Nat
  <1>1. Owed(p) \in SUBSET Handlers /\ Owed(p)' \in SUBSET Handlers
    BY DEF Owed
  <1> QED
    BY <1>1, CompileConstants, Sizes

\* Past boots are paid for in natural numbers, a restart pays the cap once more.
LEMMA BootPays ==
  ASSUME NEW n \in Nat \ {0}
  PROVE  /\ RetryCap * (n - 1) \in Nat
         /\ RetryCap * n = RetryCap * (n - 1) + RetryCap
  BY CompileConstants

\* A step that starts no task, takes nothing from the counter and makes nobody
\* owe a row keeps the account.
LEMMA CompilesKept ==
  ASSUME TypeOK, TypeOK', CompilesInv, UNCHANGED <<runs, retries, boots>>,
         \A p \in Packages : Owed(p)' \in SUBSET Owed(p)
  PROVE  CompilesInv'
  <1> SUFFICES ASSUME NEW p \in Packages
               PROVE  (runs[p] + Cardinality(Owed(p)) <= Paid(p))'
    BY DEF CompilesInv
  <1>1. Cardinality(Owed(p)') <= Cardinality(Owed(p))
    BY OwedSizes, CompileConstants, Sizes
  <1>2. RetryCap * (boots - 1) \in Nat
    BY BootPays, CompileConstants DEF TypeOK
  <1> QED
    BY <1>1, <1>2, OwedSizes, CompileConstants DEF CompilesInv, Paid, TypeOK

\* A request that owes row p starts its task and owes nothing any more.
LEMMA TaskPaid ==
  ASSUME TypeOK, TypeOK', CompilesInv, NEW h \in Handlers,
         pc[h] \in Owing, pkg[h] \in Packages, Answer(h),
         runs' = [runs EXCEPT ![pkg[h]] = @ + 1], UNCHANGED <<retries, boots>>
  PROVE  CompilesInv'
  <1> SUFFICES ASSUME NEW p \in Packages
               PROVE  (runs[p] + Cardinality(Owed(p)) <= Paid(p))'
    BY DEF CompilesInv
  <1>1. RetryCap * (boots - 1) \in Nat
    BY BootPays, CompileConstants DEF TypeOK
  <1>2. Owed(p)' \in SUBSET (Owed(p) \ {h})
    BY TypeParts DEF Answer, Owed, Owing, RequestTypeOK
  <1>3. CASE p = pkg[h]
    <2>1. h \in Owed(p)
      BY <1>3 DEF Owed
    <2>2. Cardinality(Owed(p)') + 1 <= Cardinality(Owed(p))
      BY <1>2, <2>1, OwedSizes, CompileConstants, Sizes
    <2>3. runs'[p] = runs[p] + 1
      BY <1>3 DEF TypeOK
    <2> QED
      BY <1>1, <2>2, <2>3, OwedSizes, CompileConstants DEF CompilesInv, Paid, TypeOK
  <1>4. CASE p # pkg[h]
    <2>1. Cardinality(Owed(p)') <= Cardinality(Owed(p))
      BY <1>2, OwedSizes, CompileConstants, Sizes
    <2>2. runs'[p] = runs[p]
      BY <1>4 DEF TypeOK
    <2> QED
      BY <1>1, <2>1, <2>2, OwedSizes, CompileConstants DEF CompilesInv, Paid, TypeOK
  <1> QED
    BY <1>3, <1>4

LEMMA CompilesInductive ==
  ASSUME TypeOK, TypeOK', RowInv, CompilesInv, [Next]_vars
  PROVE  CompilesInv'
  <1> USE TypeParts DEF RowTypeOK, RequestTypeOK, JobTypeOK
  <1>1. ASSUME NEW h \in Handlers, InsertRow(h)
        PROVE  CompilesInv'
    <2>1. PICK q \in Packages \ Rows : pkg' = [pkg EXCEPT ![h] = q]
      BY <1>1 DEF InsertRow
    <2>2. UNCHANGED <<runs, retries, boots>>
      BY <1>1 DEF InsertRow, jobVars
    <2> SUFFICES ASSUME NEW p \in Packages
                 PROVE  (runs[p] + Cardinality(Owed(p)) <= Paid(p))'
      BY DEF CompilesInv
    <2>3. RetryCap * (boots - 1) \in Nat
      BY BootPays, CompileConstants DEF TypeOK
    <2>4. CASE p = q
      <3>1. runs[p] = 0 /\ Owed(p) = {}
        BY <2>1, <2>4 DEF Rows, RowInv, Owed, Owing
      <3>2. Owed(p)' \in SUBSET (Owed(p) \union {h})
        BY <1>1, <2>1, <2>4 DEF InsertRow, Owed
      <3>3. Cardinality(Owed(p)') <= 1
        BY <3>1, <3>2, OwedSizes, FS_EmptySet, CompileConstants, Sizes
      <3>4. retries[p] \in Nat /\ runs'[p] = 0 /\ Paid(p)' = Paid(p)
        BY <2>2, <3>1, CompileConstants DEF Paid, TypeOK
      <3>5. 1 <= Paid(p) /\ Paid(p) \in Nat
        BY <2>3, <3>4 DEF Paid
      <3> QED
        BY <3>3, <3>4, <3>5, OwedSizes
    <2>5. CASE p # q
      <3>1. Owed(p)' \in SUBSET Owed(p)
        BY <1>1, <2>1, <2>5 DEF InsertRow, Owed
      <3>2. Cardinality(Owed(p)') <= Cardinality(Owed(p))
        BY <3>1, OwedSizes, CompileConstants, Sizes
      <3> QED
        BY <2>2, <2>3, <3>2, OwedSizes, CompileConstants DEF CompilesInv, Paid, TypeOK
    <2> QED
      BY <2>4, <2>5
  <1>2. ASSUME NEW h \in Handlers, RetryBumps(h)
        PROVE  CompilesInv'
    <2>1. /\ pc[h] = "bump" /\ pkg[h] \in Packages
          /\ retries' = [retries EXCEPT ![pkg[h]] = Bump(@)]
          /\ UNCHANGED <<runs, boots>>
      BY <1>2 DEF RetryBumps, jobVars
    <2> SUFFICES ASSUME NEW p \in Packages
                 PROVE  (runs[p] + Cardinality(Owed(p)) <= Paid(p))'
      BY DEF CompilesInv
    <2>2. RetryCap * (boots - 1) \in Nat
      BY BootPays, CompileConstants DEF TypeOK
    <2>3. retries[p] \in 0..RetryCap /\ retries'[p] \in 0..RetryCap /\ retries[p] <= retries'[p]
      BY <2>1, CompileConstants DEF Bump, AccountTypeOK
    <2>4. CASE p = pkg[h] /\ retries[p] < RetryCap
      <3>1. Owed(p)' \in SUBSET (Owed(p) \union {h})
        BY <1>2, <2>4 DEF RetryBumps, Goto, Owed
      <3>2. Cardinality(Owed(p)') <= Cardinality(Owed(p)) + 1
        BY <3>1, OwedSizes, CompileConstants, Sizes
      <3>3. retries'[p] = retries[p] + 1
        BY <2>1, <2>3, <2>4, CompileConstants DEF Bump, AccountTypeOK
      <3> QED
        BY <2>1, <2>2, <2>3, <3>2, <3>3, OwedSizes, CompileConstants DEF CompilesInv, Paid, TypeOK
    <2>5. CASE ~(p = pkg[h] /\ retries[p] < RetryCap)
      <3>1. Owed(p)' \in SUBSET Owed(p)
        BY <1>2, <2>1, <2>5, CompileConstants DEF RetryBumps, Goto, Answer, Owed, Owing
      <3>2. Cardinality(Owed(p)') <= Cardinality(Owed(p))
        BY <3>1, OwedSizes, CompileConstants, Sizes
      <3> QED
        BY <2>1, <2>2, <2>3, <3>2, OwedSizes, CompileConstants DEF CompilesInv, Paid, TypeOK
    <2> QED
      BY <2>4, <2>5
  <1>3. ASSUME NEW h \in Handlers, Enqueue(h) \/ RetryResets(h)
        PROVE  CompilesInv'
    <2>1. /\ pc[h] \in Owing /\ pkg[h] \in Packages /\ Answer(h)
          /\ runs' = [runs EXCEPT ![pkg[h]] = @ + 1]
          /\ UNCHANGED <<retries, boots>>
      BY <1>3 DEF Enqueue, RetryResets, StartsJob, Owing
    <2> QED
      BY <2>1, TaskPaid
  <1>4. ASSUME NEW h \in Handlers,
               \/ ListOwned(h) \/ TouchRow(h) \/ CompRow(h) \/ ReadRedemption(h) \/ GrantCode(h)
               \/ SelectGranted(h) \/ UpdateGranted(h) \/ ReuseRubric(h) \/ RequestFails(h)
               \/ \E p \in Packages : RetryReads(h, p)
        PROVE  CompilesInv'
    <2>1. UNCHANGED <<runs, retries, boots>>
      BY <1>4 DEF ListOwned, TouchRow, CompRow, ReadRedemption, GrantCode, SelectGranted,
         UpdateGranted, ReuseRubric, RequestFails, RetryReads, jobVars
    <2>2. \A p \in Packages : Owed(p)' \in SUBSET Owed(p)
      BY <1>4 DEF ListOwned, TouchRow, CompRow, ReadRedemption, GrantCode, SelectGranted,
         UpdateGranted, ReuseRubric, RequestFails, RetryReads, Goto, Answer, Owed, Owing
    <2> QED
      BY <2>1, <2>2, CompilesKept
  <1>5. CASE Restart
    <2> SUFFICES ASSUME NEW p \in Packages
                 PROVE  (runs[p] + Cardinality(Owed(p)) <= Paid(p))'
      BY DEF CompilesInv
    <2>1. Owed(p)' = {}
      BY <1>5 DEF Restart, Owed, Owing
    <2>2. boots \in Nat \ {0} /\ boots' = boots + 1 /\ runs' = runs /\ retries'[p] = 0
      BY <1>5, CompileConstants DEF Restart, TypeOK
    <2>3. RetryCap * (boots' - 1) = RetryCap * (boots - 1) + RetryCap /\ RetryCap * (boots - 1) \in Nat
      <3>1. boots' - 1 = boots
        BY <2>2
      <3> QED
        BY <2>2, <3>1, BootPays
    <2>4. Cardinality(Owed(p)') = 0
      BY <2>1, FS_EmptySet
    <2>5. runs[p] <= 1 + RetryCap * (boots - 1) + RetryCap
      BY <2>3, OwedSizes, CompileConstants DEF CompilesInv, Paid, TypeOK
    <2> QED
      BY <2>2, <2>3, <2>4, <2>5, CompileConstants DEF Paid, TypeOK
  <1>6. CASE \/ Redeem \/ CodeCloses \/ Reap \/ (\E p \in Packages : ClockAges(p))
             \/ (\E j \in Jobs : JobStep(j)) \/ UNCHANGED vars
    <2>1. UNCHANGED <<runs, retries, boots, requestVars>>
      BY <1>6 DEF Redeem, CodeCloses, Reap, ClockAges, JobStep, JobRefused, JobBegins,
         JobSavesRubric, JobTouches, JobFails, JobIsLost, besideRow, vars, jobVars
    <2>2. \A p \in Packages : Owed(p)' = Owed(p)
      BY <2>1 DEF requestVars, Owed
    <2> QED
      BY <2>1, <2>2, CompilesKept
  <1> QED
    BY <1>1, <1>2, <1>3, <1>4, <1>5, <1>6 DEF Next, CreatePackage, RetryCompile

\* However retries race each other, the create and the compile itself, a row
\* costs one compile and the retry cap for every worker process (create_package,
\* retry_compile, compile_retry_attempts).
THEOREM CompilesHold == Spec => []CompilesBounded
  <1>1. Init => CompilesInv
    <2> SUFFICES ASSUME Init, NEW p \in Packages
                 PROVE  runs[p] + Cardinality(Owed(p)) <= Paid(p)
      BY DEF CompilesInv
    <2>1. Owed(p) = {}
      BY DEF Init, Owed, Owing
    <2>2. RetryCap * (boots - 1) = 0
      BY CompileConstants DEF Init
    <2> QED
      BY <2>1, <2>2, FS_EmptySet, CompileConstants DEF Init, Paid
  <1>2. TypeOK /\ CompilesInv => CompilesBounded
    <2> SUFFICES ASSUME TypeOK, CompilesInv, NEW p \in Packages
                 PROVE  runs[p] <= 1 + RetryCap * boots
      BY DEF CompilesBounded
    <2>1. /\ RetryCap * boots = RetryCap * (boots - 1) + RetryCap
          /\ RetryCap * (boots - 1) \in Nat
      BY BootPays, CompileConstants DEF TypeOK
    <2> QED
      BY <2>1, OwedSizes, CompileConstants DEF CompilesInv, Paid, TypeOK
  <1>3. TypeOK /\ TypeOK' /\ RowInv /\ CompilesInv /\ [Next]_vars => CompilesInv'
    BY CompilesInductive
  <1> QED
    BY <1>1, <1>2, <1>3, RowsKnown, PTL DEF Spec

----------------------------------------------------------------------------
(* The beta grants *)

\* The creates that have opened a row by the code and not counted it yet.
Uncounted == {h \in Handlers : pc[h] \in {"select", "update"}}

\* The count, or what a request is about to write one more than, leaves room for
\* every grant that is still to be counted.
GrantsInv ==
  /\ granted + Cardinality(Uncounted) <= Cardinality(Coded)
  /\ \A h \in Handlers :
       pc[h] = "update" => seen[h] + Cardinality(Uncounted) <= Cardinality(Coded)

LEMMA GrantSizes ==
  /\ Uncounted \in SUBSET Handlers /\ Uncounted' \in SUBSET Handlers
  /\ Coded \in SUBSET Packages /\ Coded' \in SUBSET Packages
  /\ Cardinality(Uncounted) \in Nat /\ Cardinality(Uncounted') \in Nat
  /\ Cardinality(Coded) \in Nat /\ Cardinality(Coded') \in Nat
  <1>1. /\ Uncounted \in SUBSET Handlers /\ Uncounted' \in SUBSET Handlers
        /\ Coded \in SUBSET Packages /\ Coded' \in SUBSET Packages
    BY DEF Uncounted, Coded
  <1> QED
    BY <1>1, CompileConstants, Sizes

\* A step that counts nothing, grants nothing and sends nobody to count keeps it.
LEMMA GrantsKept ==
  ASSUME TypeOK, TypeOK', GrantsInv, Coded' = Coded, UNCHANGED granted,
         Uncounted' \in SUBSET Uncounted,
         \A h \in Handlers : pc'[h] = "update" => pc[h] = "update" /\ seen'[h] = seen[h]
  PROVE  GrantsInv'
  <1>1. Cardinality(Uncounted') <= Cardinality(Uncounted)
    BY GrantSizes, CompileConstants, Sizes
  <1> QED
    BY <1>1, GrantSizes DEF GrantsInv, TypeOK

LEMMA GrantsInductive ==
  ASSUME TypeOK, TypeOK', RowInv, GrantsInv, [Next]_vars
  PROVE  GrantsInv'
  <1> USE TypeParts DEF RowTypeOK, RequestTypeOK, JobTypeOK
  <1>1. ASSUME NEW h \in Handlers, GrantCode(h)
        PROVE  GrantsInv'
    <2>1. pkg[h] \in Packages \ Coded /\ Coded' = Coded \union {pkg[h]}
      BY <1>1 DEF GrantCode, RowInv, Unopened, Coded
    <2>2. Cardinality(Coded') = Cardinality(Coded) + 1
      BY <2>1, GrantSizes, CompileConstants, Sizes
    <2>3. Uncounted' \in SUBSET (Uncounted \union {h})
      BY <1>1 DEF GrantCode, Goto, Uncounted
    <2>4. Cardinality(Uncounted') <= Cardinality(Uncounted) + 1
      BY <2>3, GrantSizes, CompileConstants, Sizes
    <2>5. \A g \in Handlers : pc'[g] = "update" => pc[g] = "update" /\ seen'[g] = seen[g]
      BY <1>1 DEF GrantCode, Goto
    <2>6. granted' = granted
      BY <1>1 DEF GrantCode, accountVars
    <2> QED
      BY <2>2, <2>4, <2>5, <2>6, GrantSizes DEF GrantsInv, TypeOK
  <1>2. ASSUME NEW h \in Handlers, SelectGranted(h)
        PROVE  GrantsInv'
    <2>1. Uncounted' = Uncounted /\ Coded' = Coded /\ granted' = granted
      BY <1>2 DEF SelectGranted, Goto, rowVars, accountVars, Uncounted, Coded
    <2>2. \A g \in Handlers : pc'[g] = "update" =>
            \/ seen'[g] = granted
            \/ pc[g] = "update" /\ seen'[g] = seen[g]
      BY <1>2 DEF SelectGranted, Goto
    <2> QED
      BY <2>1, <2>2 DEF GrantsInv
  <1>3. ASSUME NEW h \in Handlers, UpdateGranted(h)
        PROVE  GrantsInv'
    <2>1. h \in Uncounted /\ Uncounted' \in SUBSET (Uncounted \ {h})
      BY <1>3 DEF UpdateGranted, Goto, Uncounted
    <2>2. Cardinality(Uncounted') + 1 <= Cardinality(Uncounted)
      BY <2>1, GrantSizes, CompileConstants, Sizes
    <2>3. Coded' = Coded /\ granted' = seen[h] + 1 /\ pc[h] = "update"
      BY <1>3 DEF UpdateGranted, rowVars, Coded
    <2>4. \A g \in Handlers : pc'[g] = "update" => pc[g] = "update" /\ seen'[g] = seen[g]
      BY <1>3 DEF UpdateGranted, Goto
    <2> QED
      BY <2>2, <2>3, <2>4, GrantSizes DEF GrantsInv, TypeOK
  <1>4. ASSUME NEW h \in Handlers, CompRow(h)
        PROVE  GrantsInv'
    <2>1. Coded' = Coded /\ UNCHANGED granted
      BY <1>4 DEF CompRow, RowInv, Unopened, Coded, accountVars
    <2>2. /\ Uncounted' \in SUBSET Uncounted
          /\ \A g \in Handlers : pc'[g] = "update" => pc[g] = "update" /\ seen'[g] = seen[g]
      BY <1>4 DEF CompRow, Goto, Uncounted
    <2> QED
      BY <2>1, <2>2, GrantsKept
  <1>5. ASSUME NEW h \in Handlers,
               \/ ListOwned(h) \/ InsertRow(h) \/ TouchRow(h) \/ ReadRedemption(h)
               \/ ReuseRubric(h) \/ Enqueue(h) \/ RetryCompile(h) \/ RequestFails(h)
        PROVE  GrantsInv'
    <2>1. Coded' = Coded /\ UNCHANGED granted
      BY <1>5 DEF ListOwned, InsertRow, TouchRow, ReadRedemption, ReuseRubric, Enqueue,
         RetryCompile, RetryReads, RetryBumps, RetryResets, RequestFails, rowVars, accountVars, Coded
    <2>2. /\ Uncounted' \in SUBSET Uncounted
          /\ \A g \in Handlers : pc'[g] = "update" => pc[g] = "update" /\ seen'[g] = seen[g]
      BY <1>5 DEF ListOwned, InsertRow, TouchRow, ReadRedemption, ReuseRubric, Enqueue,
         RetryCompile, RetryReads, RetryBumps, RetryResets, RequestFails, Goto, Answer, Uncounted
    <2> QED
      BY <2>1, <2>2, GrantsKept
  <1>6. CASE \/ Redeem \/ CodeCloses \/ Reap \/ (\E p \in Packages : ClockAges(p))
             \/ (\E j \in Jobs : JobStep(j)) \/ UNCHANGED vars
    <2>1. UNCHANGED <<opened, granted, requestVars>>
      BY <1>6 DEF Redeem, CodeCloses, Reap, ClockAges, JobStep, JobRefused, JobBegins,
         JobSavesRubric, JobTouches, JobFails, JobIsLost, besideRow, vars, rowVars, accountVars
    <2>2. Coded' = Coded /\ Uncounted' = Uncounted
      BY <2>1 DEF requestVars, Coded, Uncounted
    <2> QED
      BY <2>1, <2>2, GrantsKept DEF requestVars
  <1>7. CASE Restart
    <2>1. /\ Coded' = Coded /\ UNCHANGED granted /\ Uncounted' \in SUBSET Uncounted
          /\ \A h \in Handlers : pc'[h] # "update"
      BY <1>7 DEF Restart, accountVars, Coded, Uncounted
    <2> QED
      BY <2>1, GrantsKept
  <1> QED
    BY <1>1, <1>2, <1>3, <1>4, <1>5, <1>6, <1>7 DEF Next, CreatePackage

\* Creates that race or die between the grant and the count never make the
\* account's count say more than it was granted (increment_cbt_packages_granted).
THEOREM GrantsHold == Spec => []GrantsNotOvercounted
  <1>1. Init => GrantsInv
    <2> SUFFICES ASSUME Init PROVE GrantsInv
      OBVIOUS
    <2>1. Coded = {} /\ Uncounted = {} /\ granted = 0 /\ \A h \in Handlers : pc[h] # "update"
      BY DEF Init, Coded, Uncounted
    <2> QED
      BY <2>1, FS_EmptySet DEF GrantsInv
  <1>2. TypeOK /\ GrantsInv => GrantsNotOvercounted
    BY GrantSizes DEF GrantsInv, GrantsNotOvercounted, TypeOK
  <1>3. TypeOK /\ TypeOK' /\ RowInv /\ GrantsInv /\ [Next]_vars => GrantsInv'
    BY GrantsInductive
  <1> QED
    BY <1>1, <1>2, <1>3, RowsKnown, PTL DEF Spec

-----------------------------------------------------------------------------
\* The three caps together (packages.py, db.py:684).
THEOREM CompileCapsHold == Spec => []CompileCapsHeld
  <1>1. PackagesBounded /\ CompilesBounded /\ GrantsNotOvercounted => CompileCapsHeld
    BY DEF CompileCapsHeld
  <1>2. QED
    BY PackagesHold, CompilesHold, GrantsHold, <1>1, PTL
=============================================================================
