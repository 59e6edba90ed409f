------------------------- MODULE SessionRacesProofs -------------------------
(***************************************************************************)
(* For any number of handlers and rows: however requests interleave at      *)
(* their database calls, one worker process starts a bounded number of      *)
(* scoring runs on a row.                                                   *)
(***************************************************************************)
EXTENDS SessionRaces, FiniteSetTheorems, TLAPS

\* A handler that works on a row has one.
RowLabel == {"rearm", "retire", "complete", "score", "close", "mint", "minting", "reclaim"}
RowInv   == \A h \in Handlers : pc[h] \in RowLabel => row[h] \in Slots

----------------------------------------------------------------------------
(* Types *)

\* A count saturates one past its cap (AttemptCounter).
LEMMA BumpedType ==
  ASSUME NEW cap \in Nat, NEW count \in 0..(cap + 1)
  PROVE  /\ Bumped(count, cap) \in 0..(cap + 1)
         /\ count <= Bumped(count, cap)
         /\ Admits(count, cap) => Bumped(count, cap) = count + 1
  BY DEF Bumped, Admits

\* The handlers' part of the types.
HandlerTypeOK ==
  /\ pc \in [Handlers -> Label]
  /\ row \in [Handlers -> Slots \union {NoRow}]
  /\ snap \in [Handlers -> [Slots -> Status \union {"none", RetiredHere}]]
  /\ seen \in [Handlers -> 0..MintCap]

\* The table's and the counters' part.
TableTypeOK ==
  /\ status \in [Slots -> Status \union {"none"}]
  /\ mints \in [Slots -> 0..MintCap]
  /\ heartbeat \in [Slots -> {"null", "fresh", "stale"}]
  /\ clock \in [Slots -> {"fresh", "pastCut"}]
  /\ resumes \in [Slots -> 0..(ResumeCap + 1)]
  /\ scores \in [Slots -> 0..(ScoreCap + 1)]
  /\ waiting \in [Slots -> Nat]
  /\ running \in Slots \union {NoRow}
  /\ runs \in [Slots -> Nat]
  /\ rearms \in [Slots -> Nat]

\* The two parts are the whole.
LEMMA TypeParts ==
  /\ TypeOK <=> TableTypeOK /\ HandlerTypeOK
  /\ TypeOK' <=> TableTypeOK' /\ HandlerTypeOK'
  BY DEF TypeOK, TableTypeOK, HandlerTypeOK

\* A handler that answers forgets what it read and has no row.
LEMMA AnswersType ==
  ASSUME HandlerTypeOK, RowInv, NEW h \in Handlers, Answers(h)
  PROVE  HandlerTypeOK' /\ RowInv'
  <1>1. [i \in Slots |-> "none"] \in [Slots -> Status \union {"none", RetiredHere}]
    OBVIOUS
  <1>2. snap' \in [Handlers -> [Slots -> Status \union {"none", RetiredHere}]]
    BY <1>1 DEF Answers, HandlerTypeOK
  <1>3. 0 \in 0..MintCap
    BY RacesConstants
  <1> QED
    BY <1>2, <1>3
       DEF HandlerTypeOK, RowInv, RowLabel, Label, Answers, Goto

\* A handler that goes on to work on a row has one.
LEMMA GotoType ==
  ASSUME HandlerTypeOK, RowInv, NEW h \in Handlers,
         NEW label \in Label, NEW i \in Slots \union {NoRow},
         label \in RowLabel => i \in Slots, Goto(h, label, i),
         snap' \in [Handlers -> [Slots -> Status \union {"none", RetiredHere}]],
         seen' \in [Handlers -> 0..MintCap]
  PROVE  HandlerTypeOK' /\ RowInv'
  BY DEF HandlerTypeOK, RowInv, Goto

\* The table is a list create_session can hold.
LEMMA ListType ==
  ASSUME TableTypeOK, HandlerTypeOK, NEW h \in Handlers,
         snap' = [snap EXCEPT ![h] = status]
  PROVE  snap' \in [Handlers -> [Slots -> Status \union {"none", RetiredHere}]]
  <1>1. status \in [Slots -> Status \union {"none", RetiredHere}]
    BY DEF TableTypeOK
  <1> QED
    BY <1>1 DEF HandlerTypeOK

\* A step of create_session keeps every type.
LEMMA CreateType ==
  ASSUME TableTypeOK, HandlerTypeOK, RowInv, NEW h \in Handlers, CreateSession(h)
  PROVE  TableTypeOK' /\ HandlerTypeOK' /\ RowInv'
  <1> USE DEF tableVars, taskVars, historyVars
  <1>1. CASE CreateLists(h)
    <2>1. TableTypeOK' BY <1>1 DEF CreateLists, TableTypeOK
    <2>2. Goto(h, "retry loop", NoRow) /\ UNCHANGED seen
      BY <1>1 DEF CreateLists
    <2> QED
      BY <1>1, <2>1, <2>2, ListType, GotoType
         DEF CreateLists, HandlerTypeOK, Label, RowLabel
  <1>2. CASE CreateHandsBack(h)
    BY <1>2, AnswersType DEF CreateHandsBack, TableTypeOK
  <1>3. CASE CreateCounts(h)
    <2>1. PICK i \in Slots :
            /\ resumes' = [resumes EXCEPT ![i] = Bumped(@, ResumeCap)]
            /\ Goto(h, IF Admits(resumes[i], ResumeCap) THEN "rearm" ELSE "retire", i)
      BY <1>3 DEF CreateCounts
    <2>2. Bumped(resumes[i], ResumeCap) \in 0..(ResumeCap + 1)
      BY BumpedType, RacesConstants DEF TableTypeOK
    <2>3. TableTypeOK'
      BY <1>3, <2>1, <2>2 DEF TableTypeOK, CreateCounts
    <2>4. Goto(h, "rearm", i) \/ Goto(h, "retire", i)
      BY <2>1
    <2>5. UNCHANGED <<snap, seen>>
      BY <1>3 DEF CreateCounts
    <2>6. HandlerTypeOK' /\ RowInv'
      BY <2>4, <2>5, GotoType DEF HandlerTypeOK, Label
    <2> QED
      BY <2>3, <2>6
  <1>4. CASE CreateRearms(h)
    <2>1. 0 \in 0..MintCap /\ "planned" \in Status
      BY RacesConstants DEF Status, Retriable
    <2>2. /\ status' \in [Slots -> Status \union {"none"}]
          /\ mints' \in [Slots -> 0..MintCap]
          /\ heartbeat' \in [Slots -> {"null", "fresh", "stale"}]
      BY <1>4, <2>1 DEF CreateRearms, TableTypeOK
    <2>3. rearms' \in [Slots -> Nat]
      <3>1. row[h] \in Slots
        BY <1>4 DEF CreateRearms, RowInv, RowLabel, At
      <3>2. rearms[row[h]] + 1 \in Nat
        BY <3>1 DEF TableTypeOK
      <3> QED
        BY <1>4, <2>1, <3>1, <3>2 DEF CreateRearms, TableTypeOK
    <2>4. TableTypeOK'
      BY <1>4, <2>2, <2>3 DEF CreateRearms, TableTypeOK
    <2> QED
      BY <1>4, <2>4, AnswersType DEF CreateRearms
  <1>5. CASE CreateRetires(h)
    <2>1. TableTypeOK'
      BY <1>5 DEF CreateRetires, TableTypeOK, Status, SlotConsuming
    <2>2. snap' \in [Handlers -> [Slots -> Status \union {"none", RetiredHere}]]
      BY <1>5 DEF CreateRetires, HandlerTypeOK
    <2>3. Goto(h, "retry loop", NoRow) /\ UNCHANGED seen
      BY <1>5 DEF CreateRetires
    <2> QED
      BY <2>1, <2>2, <2>3, GotoType DEF HandlerTypeOK, Label, RowLabel
  <1>6. CASE CreateRelists(h)
    <2>1. TableTypeOK' BY <1>6 DEF CreateRelists, TableTypeOK
    <2>2. Goto(h, "insert", NoRow) /\ UNCHANGED seen
      BY <1>6 DEF CreateRelists
    <2> QED
      BY <1>6, <2>1, <2>2, ListType, GotoType
         DEF CreateRelists, HandlerTypeOK, Label, RowLabel
  <1>7. CASE CreateInserts(h)
    <2>1. TableTypeOK'
      BY <1>7 DEF CreateInserts, TableTypeOK, Status, Retriable
    <2> QED
      BY <1>7, <2>1, AnswersType DEF CreateInserts
  <1>8. CASE CreateRefuses(h)
    BY <1>8, AnswersType DEF CreateRefuses, TableTypeOK
  <1> QED
    BY <1>1, <1>2, <1>3, <1>4, <1>5, <1>6, <1>7, <1>8 DEF CreateSession

\* So does a step of complete_session.
LEMMA CompleteType ==
  ASSUME TableTypeOK, HandlerTypeOK, RowInv, NEW h \in Handlers, CompleteSession(h)
  PROVE  TableTypeOK' /\ HandlerTypeOK' /\ RowInv'
  <1> USE DEF tableVars, taskVars, historyVars
  <1>1. ASSUME NEW i \in Slots, CompleteReads(h, i)
        PROVE  TableTypeOK' /\ HandlerTypeOK' /\ RowInv'
    <2>1. TableTypeOK' BY <1>1 DEF CompleteReads, TableTypeOK
    <2> QED
      BY <1>1, <2>1, GotoType DEF CompleteReads, HandlerTypeOK, Label
  <1>2. CASE CompleteCounts(h)
    <2>1. row[h] \in Slots
      BY <1>2 DEF RowInv, RowLabel, CompleteCounts, At
    <2>2. Bumped(scores[row[h]], ScoreCap) \in 0..(ScoreCap + 1)
      BY <2>1, BumpedType, RacesConstants DEF TableTypeOK
    <2>3. TableTypeOK'
      BY <1>2, <2>1, <2>2 DEF TableTypeOK, CompleteCounts
    <2>4. Goto(h, "score", row[h]) \/ Goto(h, "close", row[h])
      BY <1>2 DEF CompleteCounts
    <2>5. UNCHANGED <<snap, seen>>
      BY <1>2 DEF CompleteCounts
    <2> QED
      BY <2>1, <2>3, <2>4, <2>5, GotoType DEF HandlerTypeOK, Label
  <1>3. CASE CompleteScores(h)
    <2>1. row[h] \in Slots
      BY <1>3 DEF CompleteScores, RowInv, RowLabel, At
    <2>2. runs[row[h]] + 1 \in Nat /\ waiting[row[h]] + 1 \in Nat
      BY <2>1 DEF TableTypeOK
    <2>3. runs' \in [Slots -> Nat] /\ waiting' \in [Slots -> Nat]
      BY <1>3, <2>1, <2>2 DEF CompleteScores, TableTypeOK
    <2>4. TableTypeOK'
      BY <1>3, <2>3 DEF CompleteScores, TableTypeOK, Status, SlotConsuming
    <2> QED
      BY <1>3, <2>4, AnswersType DEF CompleteScores
  <1>4. CASE CompleteCloses(h)
    <2>1. TableTypeOK'
      BY <1>4 DEF CompleteCloses, TableTypeOK, Status, SlotConsuming
    <2> QED
      BY <1>4, <2>1, AnswersType DEF CompleteCloses
  <1> QED
    BY <1>1, <1>2, <1>3, <1>4 DEF CompleteSession

\* And a step of the room's routes.
LEMMA RoomType ==
  ASSUME TableTypeOK, HandlerTypeOK, RowInv, NEW h \in Handlers, Room(h)
  PROVE  TableTypeOK' /\ HandlerTypeOK' /\ RowInv'
  <1> USE DEF tableVars, taskVars, historyVars
  <1>1. ASSUME NEW i \in Slots, MintReads(h, i) \/ ReclaimReads(h, i)
        PROVE  TableTypeOK' /\ HandlerTypeOK' /\ RowInv'
    <2>1. TableTypeOK' BY <1>1 DEF MintReads, ReclaimReads, TableTypeOK
    <2>2. UNCHANGED <<snap, seen>> BY <1>1 DEF MintReads, ReclaimReads
    <2>3. Goto(h, "mint", i) \/ Goto(h, "reclaim", i)
      BY <1>1 DEF MintReads, ReclaimReads
    <2> QED
      BY <2>1, <2>2, <2>3, GotoType DEF HandlerTypeOK, Label
  <1>2. CASE MintSelects(h)
    <2>1. row[h] \in Slots
      BY <1>2 DEF RowInv, RowLabel, MintSelects, At
    <2>2. seen' \in [Handlers -> 0..MintCap]
      BY <1>2, <2>1 DEF MintSelects, TableTypeOK, HandlerTypeOK
    <2>3. TableTypeOK' BY <1>2 DEF MintSelects, TableTypeOK
    <2> QED
      BY <1>2, <2>1, <2>2, <2>3, GotoType DEF MintSelects, HandlerTypeOK, Label
  <1>3. CASE MintUpdates(h)
    <2>1. (IF seen[h] + 1 > MintCap THEN MintCap ELSE seen[h] + 1) \in 0..MintCap
      BY RacesConstants DEF HandlerTypeOK
    <2>3. row[h] \in Slots
      BY <1>3 DEF MintUpdates, RowInv, RowLabel, At
    <2>4. mints' \in [Slots -> 0..MintCap]
      BY <1>3, <2>1, <2>3 DEF MintUpdates, TableTypeOK
    <2>6. TableTypeOK'
      BY <1>3, <2>4 DEF MintUpdates, TableTypeOK
    <2> QED
      BY <1>3, <2>6, AnswersType DEF MintUpdates
  <1>4. CASE ReclaimUpdates(h)
    <2>1. TableTypeOK'
      BY <1>4 DEF ReclaimUpdates, TableTypeOK, Status, Retriable, ResumeCounted
    <2> QED
      BY <1>4, <2>1, AnswersType DEF ReclaimUpdates
  <1> QED
    BY <1>1, <1>2, <1>3, <1>4 DEF Room

\* A task, a heartbeat or a clock moves no handler and no count.
LEMMA OthersType ==
  ASSUME TypeOK, RowInv, NEW i \in Slots,
         \/ Heartbeat(i) \/ TaskRefused(i) \/ TaskBegins(i) \/ TaskEnds(i)
         \/ GoesSilent(i) \/ RoomClockAges(i)
  PROVE  /\ TypeOK' /\ RowInv'
         /\ UNCHANGED <<handlerVars, historyVars, resumes, scores>>
  <1> USE DEF TypeOK, RowInv, tableVars, taskVars, handlerVars, historyVars,
              TaskWrites, Status, Retriable, ResumeCounted, SlotConsuming
  <1>1. CASE Heartbeat(i)     BY <1>1 DEF Heartbeat
  <1>2. CASE TaskRefused(i)
    <2>1. waiting' \in [Slots -> Nat]
      BY <1>2 DEF TaskRefused
    <2>2. /\ status' \in [Slots -> Status \union {"none"}]
          /\ clock' \in [Slots -> {"fresh", "pastCut"}]
      BY <1>2 DEF TaskRefused
    <2> QED
      BY <1>2, <2>1, <2>2 DEF TaskRefused
  <1>3. CASE TaskBegins(i)    BY <1>3 DEF TaskBegins
  <1>4. CASE TaskEnds(i)      BY <1>4 DEF TaskEnds
  <1>5. CASE GoesSilent(i)    BY <1>5 DEF GoesSilent
  <1>6. CASE RoomClockAges(i) BY <1>6 DEF RoomClockAges
  <1> QED
    BY <1>1, <1>2, <1>3, <1>4, <1>5, <1>6

\* Every step keeps the types.
LEMMA TypeInductive == TypeOK /\ RowInv /\ [Next]_vars => TypeOK' /\ RowInv'
  <1> SUFFICES ASSUME TypeOK, RowInv, [Next]_vars PROVE TypeOK' /\ RowInv'
    OBVIOUS
  <1>1. ASSUME NEW h \in Handlers, CreateSession(h) \/ CompleteSession(h) \/ Room(h)
        PROVE  TypeOK' /\ RowInv'
    BY <1>1, CreateType, CompleteType, RoomType, TypeParts
  <1>2. CASE UNCHANGED vars
    BY <1>2 DEF TypeOK, RowInv, vars, tableVars, taskVars, handlerVars, historyVars
  <1> QED
    BY <1>1, <1>2, OthersType DEF Next

\* Every column, counter and handler keeps its type, for any number of handlers
\* and rows.
THEOREM RacesTypes == Spec => [](TypeOK /\ RowInv)
  <1>1. Init => TypeOK /\ RowInv
    <2> SUFFICES ASSUME Init PROVE TypeOK /\ RowInv
      OBVIOUS
    <2>1. RowInv
      BY DEF Init, RowInv, RowLabel
    <2>2. HandlerTypeOK
      BY RacesConstants DEF Init, HandlerTypeOK, Label
    <2>3. TableTypeOK
      BY RacesConstants DEF Init, TableTypeOK
    <2> QED
      BY <2>1, <2>2, <2>3, TypeParts
  <1> QED
    BY <1>1, TypeInductive, PTL DEF Spec

----------------------------------------------------------------------------
(* The attempt counters *)

\* The handlers a counter has admitted for row i and that have not written yet.
Pending(label, i) == {h \in Handlers : pc[h] = label /\ row[h] = i}

\* What complete has started or is about to start is within the count and the cap.
RunsInv ==
  \A i \in Slots :
    /\ runs[i] + Cardinality(Pending("score", i)) <= scores[i]
    /\ runs[i] + Cardinality(Pending("score", i)) <= ScoreCap

\* A set of handlers has a size; a smaller one is no larger, one without a member
\* is smaller by it, and one more handler is one more.
LEMMA HandlerSizes ==
  ASSUME NEW A \in SUBSET Handlers, NEW h \in Handlers
  PROVE  /\ Cardinality(A) \in Nat
         /\ \A B \in SUBSET A : Cardinality(B) \in Nat /\ Cardinality(B) <= Cardinality(A)
         /\ h \in A => \A B \in SUBSET (A \ {h}) : Cardinality(B) + 1 <= Cardinality(A)
         /\ \A B \in SUBSET (A \union {h}) : Cardinality(B) <= Cardinality(A) + 1
  <1>1. IsFiniteSet(A)
    BY FS_Subset, RacesConstants
  <1>2. Cardinality(A) \in Nat
    BY <1>1, FS_CardinalityType
  <1>3. \A B \in SUBSET A : IsFiniteSet(B) /\ Cardinality(B) \in Nat /\ Cardinality(B) <= Cardinality(A)
    BY <1>1, FS_Subset, FS_CardinalityType
  <1>4. IsFiniteSet(A \ {h})
    BY <1>3
  <1>5. h \in A => \A B \in SUBSET (A \ {h}) : Cardinality(B) + 1 <= Cardinality(A)
    <2> SUFFICES ASSUME h \in A, NEW B \in SUBSET (A \ {h})
                 PROVE  Cardinality(B) + 1 <= Cardinality(A)
      OBVIOUS
    <2>1. Cardinality(A \ {h}) = Cardinality(A) - 1
      BY <1>1, FS_RemoveElement
    <2>2. Cardinality(B) <= Cardinality(A \ {h}) /\ Cardinality(B) \in Nat
      BY <1>3, <1>4, FS_Subset
    <2> QED
      BY <1>2, <2>1, <2>2
  <1>6. \A B \in SUBSET (A \union {h}) : Cardinality(B) <= Cardinality(A) + 1
    <2> TAKE B \in SUBSET (A \union {h})
    <2>1. IsFiniteSet(A \union {h}) /\ Cardinality(A \union {h}) <= Cardinality(A) + 1
      BY <1>1, <1>2, FS_AddElement
    <2>2. Cardinality(B) <= Cardinality(A \union {h}) /\ Cardinality(B) \in Nat
      BY <2>1, FS_Subset, FS_CardinalityType
    <2>3. Cardinality(A \union {h}) \in Nat
      BY <2>1, FS_CardinalityType
    <2> QED
      BY <1>2, <2>1, <2>2, <2>3
  <1> QED
    BY <1>2, <1>3, <1>5, <1>6

\* A handler that goes anywhere else than to the write leaves the pending ones.
LEMMA Departs ==
  ASSUME HandlerTypeOK, NEW h \in Handlers, NEW label, NEW i, NEW write,
         label # write, Goto(h, label, i)
  PROVE  \A k \in Slots : Pending(write, k)' \in SUBSET (Pending(write, k) \ {h})
  BY DEF HandlerTypeOK, Goto, Pending

\* One that goes to the write joins those of its row.
LEMMA Joins ==
  ASSUME HandlerTypeOK, NEW h \in Handlers, NEW i \in Slots, NEW write, Goto(h, write, i)
  PROVE  \A k \in Slots :
           Pending(write, k)' \in SUBSET (IF k = i THEN Pending(write, k) \union {h}
                                                   ELSE Pending(write, k))
  BY DEF HandlerTypeOK, Goto, Pending

\* A step that starts no run, moves no count and sends no handler to the write
\* keeps the account of the runs.
LEMMA RunsKept ==
  ASSUME TypeOK, TypeOK', RunsInv, UNCHANGED <<runs, scores>>,
         \A k \in Slots : Pending("score", k)' \in SUBSET Pending("score", k)
  PROVE  RunsInv'
  <1> SUFFICES ASSUME NEW k \in Slots
               PROVE  /\ runs[k] + Cardinality(Pending("score", k)') <= scores[k]
                      /\ runs[k] + Cardinality(Pending("score", k)') <= ScoreCap
    BY DEF RunsInv
  <1>1. Pending("score", k) \in SUBSET Handlers
    BY DEF Pending
  <1>2. CASE Handlers = {}
    BY <1>1, <1>2, FS_EmptySet DEF RunsInv
  <1>3. CASE Handlers # {}
    <2>1. /\ Cardinality(Pending("score", k)') \in Nat
          /\ Cardinality(Pending("score", k)) \in Nat
          /\ Cardinality(Pending("score", k)') <= Cardinality(Pending("score", k))
      BY <1>1, <1>3, HandlerSizes
    <2> QED
      BY <2>1, RacesConstants DEF RunsInv, TypeOK
  <1> QED
    BY <1>2, <1>3

\* Every step keeps the account of the runs.
LEMMA RunsInductive ==
  ASSUME TypeOK, TypeOK', RowInv, RunsInv, [Next]_vars
  PROVE  RunsInv'
  <1> USE TypeParts DEF Answers, At
  <1>1. ASSUME NEW h \in Handlers, CompleteCounts(h)
        PROVE  RunsInv'
    <2>1. row[h] \in Slots
      BY <1>1 DEF CompleteCounts, RowInv, RowLabel
    <2> DEFINE i == row[h]
    <2>2. /\ scores' = [scores EXCEPT ![i] = Bumped(@, ScoreCap)]
          /\ runs' = runs
      BY <1>1 DEF CompleteCounts, historyVars
    <2>3. scores[i] \in 0..(ScoreCap + 1) /\ scores'[i] = Bumped(scores[i], ScoreCap)
      BY <2>1, <2>2 DEF TypeOK
    <2>4. CASE Admits(scores[i], ScoreCap)
      <3>1. Goto(h, "score", i)
        BY <1>1, <2>4 DEF CompleteCounts
      <3>2. scores'[i] = scores[i] + 1 /\ scores[i] + 1 <= ScoreCap
        BY <2>3, <2>4, BumpedType, RacesConstants DEF Admits
      <3>3. ASSUME NEW k \in Slots
            PROVE  /\ runs[k] + Cardinality(Pending("score", k)') <= scores'[k]
                   /\ runs[k] + Cardinality(Pending("score", k)') <= ScoreCap
        <4>1. Pending("score", k) \in SUBSET Handlers
          BY DEF Pending
        <4>2. Cardinality(Pending("score", k)) \in Nat
          BY <4>1, HandlerSizes
        <4>3. CASE k = i
          <5>1. Pending("score", k)' \in SUBSET (Pending("score", k) \union {h})
            BY <2>1, <3>1, <4>3, Joins
          <5>2. Pending("score", k)' \in SUBSET Handlers
            BY DEF Pending
          <5>3. Cardinality(Pending("score", k)') <= Cardinality(Pending("score", k)) + 1
            BY <4>1, <5>1, HandlerSizes
          <5>4. Cardinality(Pending("score", k)') \in Nat
            BY <5>2, HandlerSizes
          <5> QED
            BY <2>3, <3>2, <4>2, <4>3, <5>3, <5>4, RacesConstants DEF RunsInv, TypeOK
        <4>4. CASE k # i
          <5>1. Pending("score", k)' \in SUBSET Pending("score", k)
            BY <2>1, <3>1, <4>4, Joins
          <5>2. /\ Cardinality(Pending("score", k)') \in Nat
                /\ Cardinality(Pending("score", k)') <= Cardinality(Pending("score", k))
            BY <4>1, <5>1, HandlerSizes
          <5>3. scores'[k] = scores[k]
            BY <2>2, <4>4 DEF TypeOK
          <5> QED
            BY <4>2, <5>2, <5>3, RacesConstants DEF RunsInv, TypeOK
        <4> QED
          BY <4>3, <4>4
      <3> QED
        BY <2>2, <3>3 DEF RunsInv
    <2>5. CASE ~Admits(scores[i], ScoreCap)
      <3>1. Goto(h, "close", i)
        BY <1>1, <2>5 DEF CompleteCounts
      <3>2. \A k \in Slots : Pending("score", k)' \in SUBSET (Pending("score", k) \ {h})
        BY <3>1, Departs
      <3>3. ASSUME NEW k \in Slots
            PROVE  /\ runs[k] + Cardinality(Pending("score", k)') <= scores'[k]
                   /\ runs[k] + Cardinality(Pending("score", k)') <= ScoreCap
        <4>1. Pending("score", k) \in SUBSET Handlers
          BY DEF Pending
        <4>2. Pending("score", k)' \in SUBSET Pending("score", k)
          BY <3>2
        <4>3. /\ Cardinality(Pending("score", k)') \in Nat
              /\ Cardinality(Pending("score", k)) \in Nat
              /\ Cardinality(Pending("score", k)') <= Cardinality(Pending("score", k))
          BY <4>1, <4>2, HandlerSizes
        <4>4. scores[k] <= scores'[k]
          <5>1. scores[i] <= scores'[i]
            BY <2>3, BumpedType, RacesConstants
          <5>2. k # i => scores'[k] = scores[k]
            BY <2>2 DEF TypeOK
          <5> QED
            BY <5>1, <5>2 DEF TypeOK
        <4> QED
          BY <4>3, <4>4, RacesConstants DEF RunsInv, TypeOK
      <3> QED
        BY <2>2, <3>3 DEF RunsInv
    <2> QED
      BY <2>4, <2>5
  <1>2. ASSUME NEW h \in Handlers, CompleteScores(h)
        PROVE  RunsInv'
    <2>1. row[h] \in Slots /\ h \in Pending("score", row[h])
      BY <1>2 DEF CompleteScores, RowInv, RowLabel, Pending
    <2>2. /\ runs' = [runs EXCEPT ![row[h]] = @ + 1]
          /\ scores' = scores
          /\ Goto(h, "idle", NoRow)
      BY <1>2 DEF CompleteScores
    <2>3. \A k \in Slots : Pending("score", k)' \in SUBSET (Pending("score", k) \ {h})
      BY <2>2, Departs
    <2>4. ASSUME NEW k \in Slots
          PROVE  /\ runs'[k] + Cardinality(Pending("score", k)') <= scores[k]
                 /\ runs'[k] + Cardinality(Pending("score", k)') <= ScoreCap
      <3>1. Pending("score", k) \in SUBSET Handlers
        BY DEF Pending
      <3>2. /\ Cardinality(Pending("score", k)') \in Nat
            /\ Cardinality(Pending("score", k)) \in Nat
            /\ Cardinality(Pending("score", k)') <= Cardinality(Pending("score", k))
        <4>1. Pending("score", k)' \in SUBSET Pending("score", k)
          BY <2>3
        <4> QED
          BY <3>1, <4>1, HandlerSizes
      <3>3. CASE k = row[h]
        <4>1. Cardinality(Pending("score", k)') + 1 <= Cardinality(Pending("score", k))
          BY <2>1, <2>3, <3>1, <3>3, HandlerSizes
        <4>2. runs'[k] = runs[k] + 1
          BY <2>2, <3>3 DEF TypeOK
        <4> QED
          BY <3>2, <4>1, <4>2, RacesConstants DEF RunsInv, TypeOK
      <3>4. CASE k # row[h]
        <4>1. runs'[k] = runs[k]
          BY <2>2, <3>4 DEF TypeOK
        <4> QED
          BY <3>2, <4>1, RacesConstants DEF RunsInv, TypeOK
      <3> QED
        BY <3>3, <3>4
    <2> QED
      BY <2>2, <2>4 DEF RunsInv
  <1>3. ASSUME NEW h \in Handlers,
               CreateSession(h) \/ Room(h) \/ CompleteCloses(h) \/ \E i \in Slots : CompleteReads(h, i)
        PROVE  RunsInv'
    <2>1. UNCHANGED <<runs, scores>>
      BY <1>3 DEF CreateSession, CreateLists, CreateHandsBack, CreateCounts, CreateRearms,
                  CreateRetires, CreateRelists, CreateInserts, CreateRefuses, Room, MintReads,
                  MintSelects, MintUpdates, ReclaimReads, ReclaimUpdates, CompleteCloses,
                  CompleteReads, historyVars
    <2>2. \E label \in Label \ {"score"}, i \in Slots \union {NoRow} : Goto(h, label, i)
      BY <1>3, TypeParts DEF CreateSession, CreateLists, CreateHandsBack, CreateCounts, CreateRearms,
                  CreateRetires, CreateRelists, CreateInserts, CreateRefuses, Room, MintReads,
                  MintSelects, MintUpdates, ReclaimReads, ReclaimUpdates, CompleteCloses,
                  CompleteReads, Label, HandlerTypeOK
    <2>3. \A k \in Slots : Pending("score", k)' \in SUBSET Pending("score", k)
      BY <2>2, Departs
    <2> QED
      BY <2>1, <2>3, RunsKept
  <1>4. CASE UNCHANGED <<handlerVars, historyVars, resumes, scores>>
    <2>1. \A k \in Slots : Pending("score", k)' \in SUBSET Pending("score", k)
      BY <1>4 DEF Pending, handlerVars
    <2> QED
      BY <1>4, <2>1, RunsKept DEF historyVars
  <1>5. UNCHANGED vars => UNCHANGED <<handlerVars, historyVars, resumes, scores>>
    BY DEF vars
  <1> QED
    BY <1>1, <1>2, <1>3, <1>4, <1>5, OthersType DEF Next, CompleteSession

\* However many completes race on a row, and wherever they are interrupted, one
\* worker process starts at most ScoreCap scoring runs on it (complete_session,
\* AttemptCounter).
THEOREM RunsHold == Spec => []RunsBounded
  <1>1. Init => RunsInv
    <2> SUFFICES ASSUME Init, NEW i \in Slots
                 PROVE  /\ runs[i] + Cardinality(Pending("score", i)) <= scores[i]
                        /\ runs[i] + Cardinality(Pending("score", i)) <= ScoreCap
      BY DEF RunsInv
    <2>1. Pending("score", i) = {}
      BY DEF Init, Pending
    <2> QED
      BY <2>1, FS_EmptySet, RacesConstants DEF Init
  <1>2. TypeOK /\ TypeOK' /\ RowInv /\ RunsInv /\ [Next]_vars => RunsInv'
    BY RunsInductive
  <1>3. TypeOK /\ RunsInv => RunsBounded
    <2> SUFFICES ASSUME TypeOK, RunsInv, NEW i \in Slots PROVE runs[i] <= ScoreCap
      BY DEF RunsBounded
    <2>1. Pending("score", i) \in SUBSET Handlers
      BY DEF Pending
    <2>2. Cardinality(Pending("score", i)) \in Nat
      BY <2>1, FS_Subset, FS_CardinalityType, RacesConstants
    <2> QED
      BY <2>2, RacesConstants DEF TypeOK, RunsInv
  <1> QED
    BY <1>1, <1>2, <1>3, RacesTypes, PTL DEF Spec

----------------------------------------------------------------------------
(* Re-armings *)

\* What create_session has re-armed or is about to re-arm is within the count
\* and the cap.
RearmsInv ==
  \A i \in Slots :
    /\ rearms[i] + Cardinality(Pending("rearm", i)) <= resumes[i]
    /\ rearms[i] + Cardinality(Pending("rearm", i)) <= ResumeCap

\* A step that re-arms nothing, moves no count and sends no handler to the
\* re-arming keeps the account.
LEMMA RearmsKept ==
  ASSUME TypeOK, TypeOK', RearmsInv, UNCHANGED <<rearms, resumes>>,
         \A k \in Slots : Pending("rearm", k)' \in SUBSET Pending("rearm", k)
  PROVE  RearmsInv'
  <1> SUFFICES ASSUME NEW k \in Slots
               PROVE  /\ rearms[k] + Cardinality(Pending("rearm", k)') <= resumes[k]
                      /\ rearms[k] + Cardinality(Pending("rearm", k)') <= ResumeCap
    BY DEF RearmsInv
  <1>1. Pending("rearm", k) \in SUBSET Handlers
    BY DEF Pending
  <1>2. CASE Handlers = {}
    BY <1>1, <1>2, FS_EmptySet DEF RearmsInv
  <1>3. CASE Handlers # {}
    <2>1. /\ Cardinality(Pending("rearm", k)') \in Nat
          /\ Cardinality(Pending("rearm", k)) \in Nat
          /\ Cardinality(Pending("rearm", k)') <= Cardinality(Pending("rearm", k))
      BY <1>1, <1>3, HandlerSizes
    <2> QED
      BY <2>1, RacesConstants DEF RearmsInv, TypeOK
  <1> QED
    BY <1>2, <1>3

\* The count of a resume: it admits the handler to the re-arming, or it moves on
\* and the row is retired.
LEMMA CountKeepsRearms ==
  ASSUME TypeOK, TypeOK', RearmsInv, NEW h \in Handlers, CreateCounts(h)
  PROVE  RearmsInv'
  <1> USE TypeParts
  <1>1. PICK i \in Slots :
          /\ resumes' = [resumes EXCEPT ![i] = Bumped(@, ResumeCap)]
          /\ Goto(h, IF Admits(resumes[i], ResumeCap) THEN "rearm" ELSE "retire", i)
    BY DEF CreateCounts
  <1>2. rearms' = rearms
    BY DEF CreateCounts, historyVars
  <1>3. resumes[i] \in 0..(ResumeCap + 1) /\ resumes'[i] = Bumped(resumes[i], ResumeCap)
    BY <1>1 DEF TypeOK
  <1>4. CASE Admits(resumes[i], ResumeCap)
    <2>1. Goto(h, "rearm", i)
      BY <1>1, <1>4
    <2>2. resumes'[i] = resumes[i] + 1 /\ resumes[i] + 1 <= ResumeCap
      BY <1>3, <1>4, BumpedType, RacesConstants DEF Admits
    <2>3. ASSUME NEW k \in Slots
          PROVE  /\ rearms[k] + Cardinality(Pending("rearm", k)') <= resumes'[k]
                 /\ rearms[k] + Cardinality(Pending("rearm", k)') <= ResumeCap
      <3>1. Pending("rearm", k) \in SUBSET Handlers
        BY DEF Pending
      <3>2. Cardinality(Pending("rearm", k)) \in Nat
        BY <3>1, HandlerSizes
      <3>3. CASE k = i
        <4>1. Pending("rearm", k)' \in SUBSET (Pending("rearm", k) \union {h})
          BY <2>1, <3>3, Joins
        <4>2. Pending("rearm", k)' \in SUBSET Handlers
          BY DEF Pending
        <4>3. /\ Cardinality(Pending("rearm", k)') \in Nat
              /\ Cardinality(Pending("rearm", k)') <= Cardinality(Pending("rearm", k)) + 1
          BY <3>1, <4>1, <4>2, HandlerSizes
        <4> QED
          BY <1>3, <2>2, <3>2, <3>3, <4>3, RacesConstants DEF RearmsInv, TypeOK
      <3>4. CASE k # i
        <4>1. Pending("rearm", k)' \in SUBSET Pending("rearm", k)
          BY <2>1, <3>4, Joins
        <4>2. /\ Cardinality(Pending("rearm", k)') \in Nat
              /\ Cardinality(Pending("rearm", k)') <= Cardinality(Pending("rearm", k))
          BY <3>1, <4>1, HandlerSizes
        <4>3. resumes'[k] = resumes[k]
          BY <1>1, <3>4 DEF TypeOK
        <4> QED
          BY <3>2, <4>2, <4>3, RacesConstants DEF RearmsInv, TypeOK
      <3> QED
        BY <3>3, <3>4
    <2> QED
      BY <1>2, <2>3 DEF RearmsInv
  <1>5. CASE ~Admits(resumes[i], ResumeCap)
    <2>1. Goto(h, "retire", i)
      BY <1>1, <1>5
    <2>2. \A k \in Slots : Pending("rearm", k)' \in SUBSET (Pending("rearm", k) \ {h})
      BY <2>1, Departs
    <2>3. ASSUME NEW k \in Slots
          PROVE  /\ rearms[k] + Cardinality(Pending("rearm", k)') <= resumes'[k]
                 /\ rearms[k] + Cardinality(Pending("rearm", k)') <= ResumeCap
      <3>1. Pending("rearm", k) \in SUBSET Handlers
        BY DEF Pending
      <3>2. Pending("rearm", k)' \in SUBSET Pending("rearm", k)
        BY <2>2
      <3>3. /\ Cardinality(Pending("rearm", k)') \in Nat
            /\ Cardinality(Pending("rearm", k)) \in Nat
            /\ Cardinality(Pending("rearm", k)') <= Cardinality(Pending("rearm", k))
        BY <3>1, <3>2, HandlerSizes
      <3>4. resumes[k] <= resumes'[k]
        <4>1. resumes[i] <= resumes'[i]
          BY <1>3, BumpedType, RacesConstants
        <4>2. k # i => resumes'[k] = resumes[k]
          BY <1>1 DEF TypeOK
        <4> QED
          BY <4>1, <4>2 DEF TypeOK
      <3> QED
        BY <3>3, <3>4, RacesConstants DEF RearmsInv, TypeOK
    <2> QED
      BY <1>2, <2>3 DEF RearmsInv
  <1> QED
    BY <1>4, <1>5

\* The re-arming itself: one handler less is about to, one re-arming more is done.
LEMMA RearmKeepsRearms ==
  ASSUME TypeOK, TypeOK', RowInv, RearmsInv, NEW h \in Handlers, CreateRearms(h)
  PROVE  RearmsInv'
  <1> USE TypeParts DEF Answers, At
  <1>1. row[h] \in Slots /\ h \in Pending("rearm", row[h])
    BY DEF CreateRearms, RowInv, RowLabel, Pending
  <1>2. /\ rearms' = [rearms EXCEPT ![row[h]] = @ + 1]
        /\ resumes' = resumes
        /\ Goto(h, "idle", NoRow)
    BY DEF CreateRearms
  <1>3. \A k \in Slots : Pending("rearm", k)' \in SUBSET (Pending("rearm", k) \ {h})
    BY <1>2, Departs
  <1>4. ASSUME NEW k \in Slots
        PROVE  /\ rearms'[k] + Cardinality(Pending("rearm", k)') <= resumes[k]
               /\ rearms'[k] + Cardinality(Pending("rearm", k)') <= ResumeCap
    <2>1. Pending("rearm", k) \in SUBSET Handlers
      BY DEF Pending
    <2>2. Pending("rearm", k)' \in SUBSET Pending("rearm", k)
      BY <1>3
    <2>3. /\ Cardinality(Pending("rearm", k)') \in Nat
          /\ Cardinality(Pending("rearm", k)) \in Nat
          /\ Cardinality(Pending("rearm", k)') <= Cardinality(Pending("rearm", k))
      BY <2>1, <2>2, HandlerSizes
    <2>4. CASE k = row[h]
      <3>1. Cardinality(Pending("rearm", k)') + 1 <= Cardinality(Pending("rearm", k))
        BY <1>1, <1>3, <2>1, <2>4, HandlerSizes
      <3>2. rearms'[k] = rearms[k] + 1
        BY <1>2, <2>4 DEF TypeOK
      <3> QED
        BY <2>3, <3>1, <3>2, RacesConstants DEF RearmsInv, TypeOK
    <2>5. CASE k # row[h]
      <3>1. rearms'[k] = rearms[k]
        BY <1>2, <2>5 DEF TypeOK
      <3> QED
        BY <2>3, <3>1, RacesConstants DEF RearmsInv, TypeOK
    <2> QED
      BY <2>4, <2>5
  <1> QED
    BY <1>2, <1>4 DEF RearmsInv

\* Every step keeps the account of the re-armings.
LEMMA RearmsInductive ==
  ASSUME TypeOK, TypeOK', RowInv, RearmsInv, [Next]_vars
  PROVE  RearmsInv'
  <1> USE TypeParts DEF Answers, At
  <1>1. ASSUME NEW h \in Handlers, CreateCounts(h) \/ CreateRearms(h)
        PROVE  RearmsInv'
    BY <1>1, CountKeepsRearms, RearmKeepsRearms
  <1>2. ASSUME NEW h \in Handlers,
               \/ CreateLists(h) \/ CreateHandsBack(h) \/ CreateRetires(h) \/ CreateRelists(h)
               \/ CreateInserts(h) \/ CreateRefuses(h) \/ CompleteSession(h) \/ Room(h)
        PROVE  RearmsInv'
    <2>1. UNCHANGED <<rearms, resumes>>
      BY <1>2 DEF CreateLists, CreateHandsBack, CreateRetires, CreateRelists, CreateInserts,
                  CreateRefuses, CompleteSession, CompleteReads, CompleteCounts, CompleteScores,
                  CompleteCloses, Room, MintReads, MintSelects, MintUpdates, ReclaimReads,
                  ReclaimUpdates, historyVars
    <2>2. \E label \in Label \ {"rearm"}, i \in Slots \union {NoRow} : Goto(h, label, i)
      BY <1>2, TypeParts
         DEF CreateLists, CreateHandsBack, CreateRetires, CreateRelists, CreateInserts,
             CreateRefuses, CompleteSession, CompleteReads, CompleteCounts, CompleteScores,
             CompleteCloses, Room, MintReads, MintSelects, MintUpdates, ReclaimReads,
             ReclaimUpdates, Label, HandlerTypeOK
    <2>3. \A k \in Slots : Pending("rearm", k)' \in SUBSET Pending("rearm", k)
      BY <2>2, Departs
    <2> QED
      BY <2>1, <2>3, RearmsKept
  <1>3. CASE UNCHANGED <<handlerVars, historyVars, resumes, scores>>
    <2>1. \A k \in Slots : Pending("rearm", k)' \in SUBSET Pending("rearm", k)
      BY <1>3 DEF Pending, handlerVars
    <2> QED
      BY <1>3, <2>1, RearmsKept DEF historyVars
  <1>4. UNCHANGED vars => UNCHANGED <<handlerVars, historyVars, resumes, scores>>
    BY DEF vars
  <1> QED
    BY <1>1, <1>2, <1>3, <1>4, OthersType DEF Next, CreateSession

\* However starts race on a row, one worker process re-arms it at most ResumeCap
\* times (create_session, AttemptCounter).
THEOREM RearmsHold == Spec => []RearmsBounded
  <1>1. Init => RearmsInv
    <2> SUFFICES ASSUME Init, NEW i \in Slots
                 PROVE  /\ rearms[i] + Cardinality(Pending("rearm", i)) <= resumes[i]
                        /\ rearms[i] + Cardinality(Pending("rearm", i)) <= ResumeCap
      BY DEF RearmsInv
    <2>1. Pending("rearm", i) = {}
      BY DEF Init, Pending
    <2> QED
      BY <2>1, FS_EmptySet, RacesConstants DEF Init
  <1>2. TypeOK /\ TypeOK' /\ RowInv /\ RearmsInv /\ [Next]_vars => RearmsInv'
    BY RearmsInductive
  <1>3. TypeOK /\ RearmsInv => RearmsBounded
    <2> SUFFICES ASSUME TypeOK, RearmsInv, NEW i \in Slots PROVE rearms[i] <= ResumeCap
      BY DEF RearmsBounded
    <2>1. Pending("rearm", i) \in SUBSET Handlers
      BY DEF Pending
    <2>2. Cardinality(Pending("rearm", i)) \in Nat
      BY <2>1, FS_Subset, FS_CardinalityType, RacesConstants
    <2> QED
      BY <2>2, RacesConstants DEF TypeOK, RearmsInv
  <1> QED
    BY <1>1, <1>2, <1>3, RacesTypes, PTL DEF Spec

----------------------------------------------------------------------------
(* Reclaims *)

\* Only the conditional update of a reclaim abandons a planned row.
LEMMA OnlyReclaimAbandons ==
  ASSUME TypeOK, RowInv, [Next]_vars, NEW i \in Slots,
         status[i] = "planned", status'[i] = "abandoned"
  PROVE  heartbeat[i] = "stale"
  <1>1. ASSUME NEW h \in Handlers, CreateSession(h)
        PROVE  FALSE
    BY <1>1 DEF CreateSession, CreateLists, CreateHandsBack, CreateCounts, CreateRearms,
                CreateRetires, CreateRelists, CreateInserts, CreateRefuses, tableVars, TypeOK
  <1>2. ASSUME NEW h \in Handlers, CompleteSession(h)
        PROVE  FALSE
    BY <1>2 DEF CompleteSession, CompleteReads, CompleteCounts, CompleteScores,
                CompleteCloses, tableVars, TypeOK
  <1>3. ASSUME NEW h \in Handlers, Room(h)
        PROVE  heartbeat[i] = "stale"
    <2>1. CASE ReclaimUpdates(h)
      BY <2>1 DEF ReclaimUpdates, TypeOK
    <2>2. CASE ~ReclaimUpdates(h)
      BY <1>3, <2>2 DEF Room, MintReads, MintSelects, MintUpdates, ReclaimReads, tableVars
    <2> QED
      BY <2>1, <2>2
  <1>4. ASSUME NEW k \in Slots,
               \/ Heartbeat(k) \/ TaskRefused(k) \/ TaskBegins(k) \/ TaskEnds(k)
               \/ GoesSilent(k) \/ RoomClockAges(k)
        PROVE  FALSE
    BY <1>4 DEF Heartbeat, TaskRefused, TaskBegins, TaskEnds, GoesSilent, RoomClockAges,
                TaskWrites, TypeOK
  <1>5. CASE UNCHANGED vars
    BY <1>5 DEF vars, tableVars
  <1> QED
    BY <1>1, <1>2, <1>3, <1>4, <1>5 DEF Next

\* A reclaim takes only a room that is still silent when its update lands, for
\* any number of requests between its read and its update (reclaim_session).
THEOREM ReclaimHolds == Spec => ReclaimedWasSilent
  <1>1. TypeOK /\ RowInv /\ [Next]_vars =>
          [\A i \in Slots :
             status[i] = "planned" /\ status'[i] = "abandoned" => heartbeat[i] = "stale"]_vars
    BY OnlyReclaimAbandons
  <1> QED
    BY <1>1, RacesTypes, PTL DEF Spec, ReclaimedWasSilent

\* Both counters of a row hold against requests that race (AttemptCounter).
THEOREM CapsHold == Spec => []CapsHeld
  <1>1. RunsBounded /\ RearmsBounded => CapsHeld
    BY DEF CapsHeld
  <1> QED
    BY <1>1, RunsHold, RearmsHold, PTL
=============================================================================
