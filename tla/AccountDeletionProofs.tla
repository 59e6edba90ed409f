------------------------ MODULE AccountDeletionProofs ------------------------
(***************************************************************************)
(* Proofs about AccountDeletion, for any packages, sessions, indexes, any  *)
(* number of deletion requests at once and any number of failed calls: the *)
(* types, what a leftover tells, and what a removed sign-in leaves.        *)
(***************************************************************************)
EXTENDS AccountDeletion, TLAPS

\* The tables in the order a plan deletes them.
LEMMA DeletesOrder ==
  /\ Deletes[1] = "order" /\ Deletes[2] = "session" /\ Deletes[3] = "feedback"
  /\ Deletes[4] = "study" /\ Deletes[5] = "cbt_redemption" /\ Deletes[6] = "package"
  BY DEF Deletes

\* What the types say of one request.
LEMMA RequestTypes ==
  ASSUME TypeOK, NEW r \in Requests
  PROVE  /\ req[r] \in Request
         /\ req[r].stage \in Stages
         /\ req[r].scope \in {"account"} \cup Packages
         /\ req[r].todo \subseteq Packages
         /\ req[r].plan \subseteq Rows
  <1>1. req[r] \in Request
    BY DEF TypeOK
  <1>2. QED BY <1>1 DEF Request

\* Going on from a table leaves the plan alone and lands behind the sweep; it
\* lands behind the study table only from there, or with no package planned.
LEMMA OnwardLands ==
  ASSUME TypeOK, NEW r \in Requests, NEW i \in 0..6, Onward(r, i)
  PROVE  \/ /\ req' = [req EXCEPT ![r].stage = req'[r].stage]
            /\ req'[r].stage \in Swept
            /\ i < 4 /\ req'[r].stage \in Restudied => req[r].plan \cap Packages = {}
         \/ Answer(r)
  <1> USE DEF TypeOK
  <1>1. ASSUME NEW j \in i + 1..6, Goto(r, Deletes[j]),
               \A l \in i + 1..j - 1 : Doomed(r, Deletes[l]) = {}
        PROVE  /\ req' = [req EXCEPT ![r].stage = req'[r].stage]
               /\ req'[r].stage \in Swept
               /\ i < 4 /\ req'[r].stage \in Restudied => req[r].plan \cap Packages = {}
    <2>1. req'[r].stage = Deletes[j] /\ req' = [req EXCEPT ![r].stage = Deletes[j]]
      BY <1>1 DEF Goto
    <2>2. Deletes[j] \in Swept
      BY DEF Swept
    <2>3. ASSUME i < 4, Deletes[j] \in Restudied PROVE req[r].plan \cap Packages = {}
      <3>1. j > 4
        BY <2>3, DeletesOrder DEF Restudied
      <3>2. Doomed(r, "study") = {}
        BY <1>1, <2>3, <3>1, DeletesOrder
      <3>3. QED BY <3>2 DEF Doomed, RowsOf
    <2>4. QED BY <2>1, <2>2, <2>3
  <1>2. ASSUME \A l \in i + 1..6 : Doomed(r, Deletes[l]) = {}, Goto(r, "signin")
        PROVE  /\ req' = [req EXCEPT ![r].stage = req'[r].stage]
               /\ req'[r].stage \in Swept
               /\ i < 4 /\ req'[r].stage \in Restudied => req[r].plan \cap Packages = {}
    <2>1. req'[r].stage = "signin" /\ req' = [req EXCEPT ![r].stage = "signin"]
      BY <1>2 DEF Goto
    <2>2. "signin" \in Swept
      BY DEF Swept
    <2>3. ASSUME i < 4 PROVE req[r].plan \cap Packages = {}
      <3>1. Doomed(r, "study") = {}
        BY <1>2, <2>3, DeletesOrder
      <3>2. QED BY <3>1 DEF Doomed, RowsOf
    <2>4. QED BY <2>1, <2>2, <2>3
  <1>3. QED BY <1>1, <1>2 DEF Onward

\* One delete request keeps the types of what it writes.
LEMMA EraseTypes ==
  ASSUME TypeOK, NEW r \in Requests, NEW i \in 1..6,
         Erase(r, i) \/ UNCHANGED <<dbVars, study, late>>
  PROVE  /\ live' \subseteq Rows /\ dead' \subseteq Rows /\ named' \subseteq Sessions
         /\ study' \subseteq Packages /\ late' \subseteq Keys \cup Packages
  <1>1. \A t : Doomed(r, t) \subseteq Rows
    BY RequestTypes DEF Doomed
  <1>2. QED BY <1>1 DEF TypeOK, Erase, dbVars

\* A step of the product or of a deletion keeps every type.
LEMMA DeletionTypeInductive == TypeOK /\ [Next]_vars => TypeOK'
  <1> SUFFICES ASSUME TypeOK, [Next]_vars PROVE TypeOK'
    OBVIOUS
  <1> USE PlaceAssumption, RowsAssumption, FaultsAssumption
      DEF dbVars, bucketVars, studyVars
  <1>t. /\ \A i \in 1..6 : Deletes[i] \in Stages
        /\ Swept \subseteq Stages
        /\ {"idle", "packages", "walk", "sweep", "signin"} \subseteq Stages
    BY DEF Stages, Swept
  <1>i. Idle \in Request
    BY <1>t DEF Idle, Request
  <1>1. CASE Use
    <2>1. ASSUME NEW p \in Packages, CreatePackage(p) PROVE TypeOK'
      BY <2>1 DEF CreatePackage, TypeOK, Rows
    <2>2. ASSUME NEW p \in Packages, StudyCheck(p) \/ StudyLost(p) PROVE TypeOK'
      BY <2>2 DEF StudyCheck, StudyLost, TypeOK
    <2>3. ASSUME NEW p \in Packages, StudyBegin(p) \/ StudyEnd(p) PROVE TypeOK'
      BY <2>3 DEF StudyBegin, StudyEnd, WriteStudy, TypeOK
    <2>4. ASSUME NEW s \in Sessions, StartSession(s) \/ Complete(s) PROVE TypeOK'
      BY <2>4 DEF StartSession, Complete, TypeOK, Rows
    <2>5. ASSUME NEW f \in Filed, File(f) PROVE TypeOK'
      BY <2>5 DEF File, TypeOK, Rows
    <2>6. ASSUME NEW k \in Keys, SignUpload(k) \/ Upload(k) PROVE TypeOK'
      BY <2>6 DEF SignUpload, Upload, TypeOK
    <2>7. QED BY <1>1, <2>1, <2>2, <2>3, <2>4, <2>5, <2>6 DEF Use
  <1>2. ASSUME NEW r \in Requests, NEW what \in {"account"} \cup Packages, Ask(r, what)
        PROVE TypeOK'
    <2>1. [Idle EXCEPT !.stage = "packages", !.scope = what] \in Request
      BY <1>i, <1>t DEF Request
    <2>2. QED BY <1>2, <2>1 DEF Ask, TypeOK
  <1>3. ASSUME NEW r \in Requests, Serve(r) PROVE TypeOK'
    <2>a. Answer(r) => req' \in [Requests -> Request]
      BY <1>i DEF Answer, TypeOK
    <2>o. ASSUME NEW i \in 0..6, Onward(r, i)
          PROVE req' \in [Requests -> Request]
      <3>1. CASE req' = [req EXCEPT ![r].stage = req'[r].stage] /\ req'[r].stage \in Stages
        <4>1. [req[r] EXCEPT !.stage = req'[r].stage] \in Request
          BY <3>1 DEF TypeOK, Request
        <4>2. req' = [req EXCEPT ![r] = [req[r] EXCEPT !.stage = req'[r].stage]]
          BY <3>1
        <4>3. QED BY <4>1, <4>2 DEF TypeOK
      <3>2. QED BY <2>o, <2>a, <1>t, <3>1, OnwardLands
    <2>1. CASE ListPackages(r)
      <3>1. Owned(req[r].scope) \subseteq Packages /\ Owned(req[r].scope) \subseteq Rows
        <4>1. \A x : x \in Owned(req[r].scope) => x \in Packages
          BY RequestTypes DEF Owned
        <4>2. QED BY <4>1 DEF Rows
      <3>2. [req[r] EXCEPT !.stage = "walk", !.todo = Owned(req[r].scope),
                           !.plan = Owned(req[r].scope)] \in Request
        BY <3>1, <1>t, RequestTypes DEF Request
      <3>3. req' \in [Requests -> Request]
        <4>1. \/ Answer(r)
              \/ req' = [req EXCEPT ![r] = [req[r] EXCEPT !.stage = "walk", !.todo = Owned(req[r].scope),
                                                         !.plan = Owned(req[r].scope)]]
          BY <2>1 DEF ListPackages
        <4>2. QED BY <4>1, <3>2, <2>a DEF TypeOK
      <3>4. QED BY <2>1, <3>3 DEF ListPackages, TypeOK
    <2>2. CASE ListFiled(r)
      <3> DEFINE planned == IF req[r].scope = "account" THEN req[r].plan \cup (live \cap Filed)
                            ELSE req[r].plan
      <3>1. planned \subseteq Rows
        BY RequestTypes DEF Rows
      <3>2. [req[r] EXCEPT !.stage = "sweep", !.plan = planned] \in Request
        BY <3>1, <1>t, RequestTypes DEF Request
      <3>3. req' = [req EXCEPT ![r] = [req[r] EXCEPT !.stage = "sweep", !.plan = planned]]
        BY <2>2 DEF ListFiled
      <3>4. req' \in [Requests -> Request]
        BY <3>2, <3>3 DEF TypeOK
      <3>5. QED BY <2>2, <3>4 DEF ListFiled, TypeOK
    <2>3. CASE Sweep(r)
      BY <2>3, <2>o DEF Sweep, TypeOK
    <2>4. CASE SweepFails(r)
      BY <2>4, <2>a DEF SweepFails, TypeOK
    <2>5. CASE ListFails(r)
      BY <2>5, <2>a DEF ListFails, TypeOK
    <2>6. CASE RemoveSignIn(r) \/ RemoveSignInFails(r)
      <3>1. signedIn' \in BOOLEAN
        BY <2>6 DEF RemoveSignIn, RemoveSignInFails, TypeOK
      <3>2. QED BY <2>6, <2>a, <3>1 DEF RemoveSignIn, RemoveSignInFails, TypeOK
    <2>7. ASSUME NEW p \in Packages, ListSessions(r, p) PROVE TypeOK'
      <3>1. [req[r] EXCEPT !.todo = @ \ {p}, !.plan = @ \cup Listed(p)] \in Request
        <4>1. req[r].plan \cup Listed(p) \subseteq Rows
          BY RequestTypes DEF Listed, SessionsOf, Rows
        <4>2. QED BY <4>1, RequestTypes DEF Request
      <3>2. req' = [req EXCEPT ![r] = [req[r] EXCEPT !.todo = @ \ {p}, !.plan = @ \cup Listed(p)]]
        BY <2>7 DEF ListSessions
      <3>3. QED BY <2>7, <3>1, <3>2 DEF ListSessions, TypeOK
    <2>8. ASSUME NEW i \in 1..6, DeleteRows(r, i) PROVE TypeOK'
      BY <2>8, <2>o, EraseTypes DEF DeleteRows, TypeOK
    <2>9. ASSUME NEW i \in 1..6, DeleteFails(r, i) PROVE TypeOK'
      <3>1. Erase(r, i) \/ UNCHANGED <<dbVars, study, late>>
        BY <2>9 DEF DeleteFails
      <3>2. faults' \in 0..MaxFaults
        BY <2>9 DEF DeleteFails, TypeOK
      <3>3. QED BY <2>9, <2>a, <3>1, <3>2, EraseTypes DEF DeleteFails, TypeOK
    <2>10. QED
      BY <1>3, <2>1, <2>2, <2>3, <2>4, <2>5, <2>6, <2>7, <2>8, <2>9 DEF Serve
  <1>4. CASE UNCHANGED vars
    BY <1>4 DEF vars, TypeOK
  <1>5. QED BY <1>1, <1>2, <1>3, <1>4 DEF Next

\* The two stores, every request and every count keep their types.
THEOREM DeletionTypes == Spec => []TypeOK
  <1>1. Init => TypeOK
    <2>1. Idle \in Request
      BY DEF Idle, Request, Stages
    <2>2. SUFFICES ASSUME Init PROVE TypeOK
      OBVIOUS
    <2>3. task \in [Packages -> {"none", "checked", "running"}] /\ req \in [Requests -> Request]
      BY <2>1, <2>2 DEF Init
    <2>4. faults \in 0..MaxFaults
      BY <2>2, FaultsAssumption DEF Init
    <2>5. QED BY <2>2, <2>3, <2>4 DEF Init, TypeOK
  <1>2. QED BY <1>1, DeletionTypeInductive, PTL DEF Spec

-----------------------------------------------------------------------------
\* What makes LeftoversAreLate inductive: behind a request's sweep, its
\* recordings, and behind its study table, its study rows, are gone or late.
SweptClean ==
  \A r \in Requests : req[r].stage \in Swept =>
    \A k \in PlannedKeys(r) : k \in blobs => k \in late
StudyClean ==
  \A r \in Requests : req[r].stage \in Restudied =>
    \A p \in req[r].plan \cap Packages : p \in study => p \in late

LateInv == LeftoversAreLate /\ SweptClean /\ StudyClean

\* A write of the product keeps LateInv: one that lands behind a deletion is
\* recorded as late, and rows only come to be.
LEMMA UseKeepsLate ==
  ASSUME TypeOK, LateInv, Use
  PROVE  LateInv'
  <1> USE RowsAssumption DEF dbVars, bucketVars, studyVars
  <1>a. ASSUME live \subseteq live', UNCHANGED <<blobs, study, req, late>>
        PROVE  LateInv'
    BY <1>a DEF LateInv, LeftoversAreLate, SweptClean, StudyClean, HasRow, PlannedKeys
  <1>1. ASSUME NEW p \in Packages, CreatePackage(p) PROVE LateInv'
    BY <1>1, <1>a DEF CreatePackage
  <1>2. ASSUME NEW p \in Packages, StudyCheck(p) \/ StudyLost(p) PROVE LateInv'
    BY <1>2, <1>a DEF StudyCheck, StudyLost
  <1>3. ASSUME NEW p \in Packages, StudyBegin(p) \/ StudyEnd(p) PROVE LateInv'
    <2>1. /\ UNCHANGED <<live, blobs, req>>
          /\ study' = study \cup {p}
          /\ late' = IF UnseenStudy(p) THEN late \cup {p} ELSE late \ {p}
      BY <1>3 DEF StudyBegin, StudyEnd, WriteStudy
    <2>2. \A k \in Keys : k \in late' <=> k \in late
      BY <2>1
    <2>3. SweptClean'
      BY <2>1, <2>2 DEF LateInv, SweptClean, PlannedKeys, TypeOK
    <2>4. LeftoversAreLate'
      BY <2>1, <2>2 DEF LateInv, LeftoversAreLate, HasRow, UnseenStudy, TypeOK
    <2>5. StudyClean'
      BY <2>1 DEF LateInv, StudyClean, UnseenStudy
    <2>6. QED BY <2>3, <2>4, <2>5 DEF LateInv
  <1>4. ASSUME NEW s \in Sessions, StartSession(s) \/ Complete(s) PROVE LateInv'
    BY <1>4, <1>a DEF StartSession, Complete
  <1>5. ASSUME NEW f \in Filed, File(f) PROVE LateInv'
    BY <1>5, <1>a DEF File
  <1>6. ASSUME NEW k \in Keys, SignUpload(k) PROVE LateInv'
    BY <1>6, <1>a DEF SignUpload
  <1>7. ASSUME NEW k \in Keys, Upload(k) PROVE LateInv'
    <2>1. /\ UNCHANGED <<live, study, req>>
          /\ blobs' = blobs \cup {k}
          /\ late' = IF Unseen(k) THEN late \cup {k} ELSE late \ {k}
      BY <1>7 DEF Upload
    <2>2. \A p \in Packages : p \in late' <=> p \in late
      BY <2>1
    <2>3. SweptClean'
      BY <2>1 DEF LateInv, SweptClean, PlannedKeys, Unseen
    <2>4. LeftoversAreLate'
      BY <2>1, <2>2 DEF LateInv, LeftoversAreLate, HasRow, Unseen, TypeOK
    <2>5. StudyClean'
      BY <2>1, <2>2 DEF LateInv, StudyClean
    <2>6. QED BY <2>3, <2>4, <2>5 DEF LateInv
  <1>8. QED BY <1>1, <1>2, <1>3, <1>4, <1>5, <1>6, <1>7 DEF Use

\* A request that goes on with its plan unchanged, or ends, keeps LateInv when
\* it lands behind a stage only with what that stage promises, and what it
\* removes is removed from the store and from the late ones alike.
LEMMA MoveKeepsLate ==
  ASSUME TypeOK, LateInv, NEW r \in Requests,
         LeftoversAreLate',
         blobs' \subseteq blobs, study' \subseteq study,
         \A x \in late : x \in late' \/ x \notin blobs' \cup study',
         \A q \in Requests : q # r => req'[q] = req[q],
         req'[r].stage \in Swept => \A k \in PlannedKeys(r)' : k \in blobs' => k \in late',
         req'[r].stage \in Restudied =>
           \A p \in req'[r].plan \cap Packages : p \in study' => p \in late'
  PROVE  LateInv'
  BY DEF LateInv, SweptClean, StudyClean, PlannedKeys

\* Deleting the rows of a plan leaves no recording or study row behind that
\* was not late: the sweep and the study table went before.
LEMMA EraseKeepsLeftovers ==
  ASSUME TypeOK, LateInv, NEW r \in Requests, NEW i \in 1..6,
         req[r].stage = Deletes[i], Erase(r, i), UNCHANGED blobs
  PROVE  /\ LeftoversAreLate'
         /\ study' \subseteq study
         /\ \A x \in late : x \in late' \/ x \notin blobs' \cup study'
         /\ \A k \in Keys : k \in late' <=> k \in late
  <1> USE RowsAssumption DEF dbVars
  <1>s. req[r].stage \in Swept
    BY DEF Swept
  <1>1. CASE i = 4
    <2>1. /\ study' = study \ Doomed(r, "study")
          /\ late' = late \ Doomed(r, "study")
          /\ UNCHANGED live
          /\ Doomed(r, "study") \subseteq Packages
      BY <1>1, DeletesOrder DEF Erase, Doomed, RowsOf
    <2>2. QED BY <2>1 DEF LateInv, LeftoversAreLate, HasRow, TypeOK
  <1>2. CASE i # 4
    <2>1. /\ live' = live \ Doomed(r, Deletes[i])
          /\ UNCHANGED <<study, late>>
      BY <1>2, DeletesOrder DEF Erase
    <2>2. CASE i = 2
      <3>1. Doomed(r, Deletes[i]) = req[r].plan \cap Sessions
        BY <2>2, DeletesOrder DEF Doomed, RowsOf
      <3>2. ASSUME NEW k \in blobs, k \notin late PROVE HasRow(k)'
        <4>1. PICK s \in live \cap Sessions : Place[s] = k
          BY <3>2 DEF LateInv, LeftoversAreLate, HasRow
        <4>2. s \notin req[r].plan
          BY <1>s, <3>2, <4>1 DEF LateInv, SweptClean, PlannedKeys
        <4>3. QED BY <2>1, <3>1, <4>1, <4>2 DEF HasRow
      <3>3. \A p \in Packages : p \in live => p \in live'
        BY <2>1, <3>1
      <3>4. QED BY <2>1, <3>2, <3>3 DEF LateInv, LeftoversAreLate, TypeOK
    <2>3. CASE i = 6
      <3>1. Doomed(r, Deletes[i]) = req[r].plan \cap Packages
        BY <2>3, DeletesOrder DEF Doomed, RowsOf
      <3>2. \A p \in study : p \in live' \/ p \in late
        <4>1. req[r].stage \in Restudied
          BY <2>3, DeletesOrder DEF Restudied
        <4>2. QED BY <2>1, <3>1, <4>1 DEF LateInv, LeftoversAreLate, StudyClean, TypeOK
      <3>3. \A k : HasRow(k) => HasRow(k)'
        BY <2>1, <3>1 DEF HasRow
      <3>4. QED BY <2>1, <3>2, <3>3 DEF LateInv, LeftoversAreLate
    <2>4. CASE i \in {1, 3, 5}
      <3>1. Doomed(r, Deletes[i]) \subseteq Filed
        BY <2>4, DeletesOrder DEF Doomed, RowsOf
      <3>2. \A k : HasRow(k) => HasRow(k)'
        BY <2>1, <3>1 DEF HasRow
      <3>3. \A p \in Packages : p \in live => p \in live'
        BY <2>1, <3>1
      <3>4. QED BY <2>1, <3>2, <3>3 DEF LateInv, LeftoversAreLate, TypeOK
    <2>5. QED BY <1>2, <2>2, <2>3, <2>4
  <1>3. QED BY <1>1, <1>2

\* A step of a deletion keeps LateInv.
LEMMA ServeKeepsLate ==
  ASSUME TypeOK, LateInv, NEW r \in Requests, Serve(r)
  PROVE  LateInv'
  <1> USE RowsAssumption DEF dbVars, bucketVars, studyVars
  <1>n. Swept \cap {"idle", "packages", "walk", "sweep"} = {} /\ Restudied \subseteq Swept
    BY DeletesOrder DEF Swept, Restudied
  <1>i. Answer(r) => /\ \A q \in Requests : q # r => req'[q] = req[q]
                     /\ req'[r].stage \notin Swept
    BY <1>n DEF Answer, Idle, TypeOK
  <1>u. ASSUME UNCHANGED <<live, blobs, study, late>>,
               \A q \in Requests : q # r => req'[q] = req[q],
               req'[r].stage \notin Swept
        PROVE  LateInv'
    <2>1. LeftoversAreLate'
      BY <1>u DEF LateInv, LeftoversAreLate, HasRow
    <2>2. QED BY <1>u, <1>n, <2>1, MoveKeepsLate
  <1>1. CASE ListPackages(r)
    <2>1. /\ \A q \in Requests : q # r => req'[q] = req[q]
          /\ req'[r].stage \notin Swept
      <3>1. CASE Answer(r)
        BY <3>1, <1>i
      <3>2. CASE ~ Answer(r)
        <4>1. req' = [req EXCEPT ![r] = [req[r] EXCEPT !.stage = "walk", !.todo = Owned(req[r].scope),
                                                       !.plan = Owned(req[r].scope)]]
          BY <1>1, <3>2 DEF ListPackages
        <4>2. [req[r] EXCEPT !.stage = "walk", !.todo = Owned(req[r].scope),
                             !.plan = Owned(req[r].scope)].stage = "walk"
          BY RequestTypes DEF Request
        <4>3. QED BY <4>1, <4>2, <1>n DEF TypeOK
      <3>3. QED BY <3>1, <3>2
    <2>2. QED BY <1>1, <1>u, <2>1 DEF ListPackages
  <1>2. CASE ListFiled(r)
    <2>1. /\ \A q \in Requests : q # r => req'[q] = req[q]
          /\ req'[r].stage \notin Swept
      BY <1>2, <1>n DEF ListFiled, TypeOK
    <2>2. QED BY <1>2, <1>u, <2>1 DEF ListFiled
  <1>3. CASE Sweep(r)
    <2>1. /\ blobs' = blobs \ PlannedKeys(r)
          /\ late' = late \ PlannedKeys(r)
          /\ UNCHANGED <<live, study>>
          /\ Onward(r, 0)
      BY <1>3 DEF Sweep
    <2>2. PlannedKeys(r) \subseteq Keys
      BY PlaceAssumption DEF PlannedKeys
    <2>3. LeftoversAreLate'
      BY <2>1, <2>2 DEF LateInv, LeftoversAreLate, HasRow, TypeOK
    <2>4. \/ /\ req' = [req EXCEPT ![r].stage = req'[r].stage]
             /\ req'[r].stage \in Restudied => req[r].plan \cap Packages = {}
          \/ Answer(r)
      BY <2>1, OnwardLands
    <2>5. CASE Answer(r)
      BY <2>1, <2>2, <2>3, <2>5, <1>i, <1>n, MoveKeepsLate DEF TypeOK
    <2>6. CASE /\ req' = [req EXCEPT ![r].stage = req'[r].stage]
               /\ req'[r].stage \in Restudied => req[r].plan \cap Packages = {}
      <3>1. \A q \in Requests : q # r => req'[q] = req[q]
        BY <2>6 DEF TypeOK
      <3>2. req'[r].plan = req[r].plan
        BY <2>6, RequestTypes DEF TypeOK, Request
      <3>3. PlannedKeys(r)' = PlannedKeys(r)
        BY <3>2 DEF PlannedKeys
      <3>4. \A x \in late : x \in late' \/ x \notin blobs' \cup study'
        BY <2>1, <2>2 DEF TypeOK
      <3>5. QED BY <2>1, <2>3, <2>6, <3>1, <3>2, <3>3, <3>4, MoveKeepsLate
    <2>7. QED BY <2>4, <2>5, <2>6
  <1>4. CASE SweepFails(r)
    <2>1. PICK gone \in SUBSET PlannedKeys(r) : blobs' = blobs \ gone /\ late' = late \ gone
      BY <1>4 DEF SweepFails
    <2>2. UNCHANGED <<live, study>> /\ Answer(r)
      BY <1>4 DEF SweepFails
    <2>3. gone \subseteq Keys
      BY <2>1, PlaceAssumption DEF PlannedKeys
    <2>4. LeftoversAreLate'
      BY <2>1, <2>2, <2>3 DEF LateInv, LeftoversAreLate, HasRow, TypeOK
    <2>5. \A x \in late : x \in late' \/ x \notin blobs' \cup study'
      BY <2>1, <2>2, <2>3 DEF TypeOK
    <2>6. QED BY <2>1, <2>2, <2>4, <2>5, <1>i, <1>n, MoveKeepsLate
  <1>5. CASE ListFails(r)
    BY <1>5, <1>i, <1>u DEF ListFails
  <1>6. CASE RemoveSignIn(r) \/ RemoveSignInFails(r)
    BY <1>6, <1>i, <1>u DEF RemoveSignIn, RemoveSignInFails
  <1>7. ASSUME NEW p \in Packages, ListSessions(r, p) PROVE LateInv'
    <2>1. /\ \A q \in Requests : q # r => req'[q] = req[q]
          /\ req'[r].stage = "walk"
      <3>1. req' = [req EXCEPT ![r] = [req[r] EXCEPT !.todo = @ \ {p}, !.plan = @ \cup Listed(p)]]
        BY <1>7 DEF ListSessions
      <3>2. [req[r] EXCEPT !.todo = @ \ {p}, !.plan = @ \cup Listed(p)].stage = req[r].stage
        BY RequestTypes DEF Request
      <3>3. req[r].stage = "walk"
        BY <1>7 DEF ListSessions
      <3>4. QED BY <3>1, <3>2, <3>3 DEF TypeOK
    <2>2. QED BY <1>7, <1>u, <1>n, <2>1 DEF ListSessions
  <1>8. ASSUME NEW i \in 1..6, DeleteRows(r, i) PROVE LateInv'
    <2>1. req[r].stage = Deletes[i] /\ Erase(r, i) /\ Onward(r, i) /\ UNCHANGED blobs
      BY <1>8 DEF DeleteRows
    <2>2. /\ LeftoversAreLate'
          /\ study' \subseteq study
          /\ \A x \in late : x \in late' \/ x \notin blobs' \cup study'
          /\ \A k \in Keys : k \in late' <=> k \in late
      BY <2>1, EraseKeepsLeftovers
    <2>3. \/ /\ req' = [req EXCEPT ![r].stage = req'[r].stage]
             /\ i < 4 /\ req'[r].stage \in Restudied => req[r].plan \cap Packages = {}
          \/ Answer(r)
      BY <2>1, OnwardLands
    <2>4. CASE Answer(r)
      BY <2>1, <2>2, <2>4, <1>i, <1>n, MoveKeepsLate
    <2>5. CASE /\ req' = [req EXCEPT ![r].stage = req'[r].stage]
               /\ i < 4 /\ req'[r].stage \in Restudied => req[r].plan \cap Packages = {}
      <3>1. \A q \in Requests : q # r => req'[q] = req[q]
        BY <2>5 DEF TypeOK
      <3>2. req'[r].plan = req[r].plan
        BY <2>5, RequestTypes DEF TypeOK, Request
      <3>3. PlannedKeys(r)' = PlannedKeys(r) /\ PlannedKeys(r) \subseteq Keys
        BY <3>2, PlaceAssumption DEF PlannedKeys
      <3>4. req[r].stage \in Swept
        BY <2>1 DEF Swept
      <3>5. \A k \in PlannedKeys(r)' : k \in blobs' => k \in late'
        BY <2>1, <2>2, <3>3, <3>4 DEF LateInv, SweptClean
      <3>6. ASSUME req'[r].stage \in Restudied, NEW p \in req[r].plan \cap Packages,
                   p \in study'
            PROVE  p \in late'
        <4>1. CASE i < 4
          BY <2>5, <3>6, <4>1
        <4>2. CASE i = 4
          BY <2>1, <3>6, <4>2, DeletesOrder DEF Erase, Doomed, RowsOf
        <4>3. CASE i > 4
          <5>1. req[r].stage \in Restudied
            BY <2>1, <4>3, DeletesOrder DEF Restudied
          <5>2. UNCHANGED <<study, late>>
            BY <2>1, <4>3, DeletesOrder DEF Erase
          <5>3. QED BY <3>6, <5>1, <5>2 DEF LateInv, StudyClean
        <4>4. QED BY <4>1, <4>2, <4>3
      <3>7. QED BY <2>1, <2>2, <3>1, <3>2, <3>5, <3>6, MoveKeepsLate
    <2>6. QED BY <2>3, <2>4, <2>5
  <1>9. ASSUME NEW i \in 1..6, DeleteFails(r, i) PROVE LateInv'
    <2>1. req[r].stage = Deletes[i] /\ Answer(r) /\ UNCHANGED blobs
      BY <1>9 DEF DeleteFails
    <2>2. CASE Erase(r, i)
      <3>1. /\ LeftoversAreLate'
            /\ study' \subseteq study
            /\ \A x \in late : x \in late' \/ x \notin blobs' \cup study'
        BY <2>1, <2>2, EraseKeepsLeftovers
      <3>2. QED BY <2>1, <3>1, <1>i, <1>n, MoveKeepsLate
    <2>3. CASE UNCHANGED <<dbVars, study, late>>
      BY <2>1, <2>3, <1>i, <1>u
    <2>4. QED BY <1>9, <2>2, <2>3 DEF DeleteFails
  <1>10. QED
    BY <1>1, <1>2, <1>3, <1>4, <1>5, <1>6, <1>7, <1>8, <1>9 DEF Serve

\* No recording is left without its session row, and no study row without its
\* package, unless it was written behind a deletion's back: whatever fails,
\* whatever is retried, however many deletions run at once.
THEOREM LeftoversHold == Spec => []LeftoversAreLate
  <1>1. Init => LateInv
    BY DEF Init, Idle, LateInv, LeftoversAreLate, SweptClean, StudyClean, Swept, Restudied,
           Deletes
  <1>2. TypeOK /\ LateInv /\ [Next]_vars => LateInv'
    <2> SUFFICES ASSUME TypeOK, LateInv, [Next]_vars PROVE LateInv'
      OBVIOUS
    <2>1. ASSUME NEW r \in Requests, NEW what \in {"account"} \cup Packages, Ask(r, what)
          PROVE LateInv'
      <3>1. /\ UNCHANGED <<live, blobs, study, late>>
            /\ \A q \in Requests : q # r => req'[q] = req[q]
            /\ req'[r].stage = "packages"
        BY <2>1 DEF Ask, Idle, TypeOK, dbVars, bucketVars, studyVars
      <3>2. "packages" \notin Swept /\ "packages" \notin Restudied
        BY DeletesOrder DEF Swept, Restudied
      <3>3. LeftoversAreLate'
        BY <3>1 DEF LateInv, LeftoversAreLate, HasRow
      <3>4. QED BY <3>1, <3>2, <3>3, MoveKeepsLate
    <2>2. CASE UNCHANGED vars
      BY <2>2 DEF vars, dbVars, bucketVars, studyVars, LateInv, LeftoversAreLate, HasRow,
                  SweptClean, StudyClean, PlannedKeys
    <2>3. QED BY <2>1, <2>2, UseKeepsLate, ServeKeepsLate DEF Next
  <1>3. LateInv => LeftoversAreLate
    BY DEF LateInv
  <1>4. QED BY <1>1, <1>2, <1>3, DeletionTypes, PTL DEF Spec

-----------------------------------------------------------------------------
\* Why nothing is left behind a removed sign-in: a session row keeps its
\* package, and a package keeps the sign-in record (foreign keys).
HomesLive == \A s \in live \cap Sessions : Home[Place[s]] \in live

OwnerInv == SignedOutOwnsNothing /\ HomesLive

\* One delete request keeps OwnerInv: a package goes when its sessions have.
LEMMA EraseKeepsOwner ==
  ASSUME TypeOK, OwnerInv, NEW r \in Requests, NEW i \in 1..6,
         ~ Bound(r, Deletes[i]), Erase(r, i), UNCHANGED signedIn
  PROVE  OwnerInv'
  <1> USE RowsAssumption, PlaceAssumption DEF dbVars
  <1>1. CASE i = 4
    BY <1>1, DeletesOrder DEF Erase, OwnerInv, SignedOutOwnsNothing, HomesLive
  <1>2. CASE i # 4
    <2>1. live' = live \ Doomed(r, Deletes[i])
      BY <1>2, DeletesOrder DEF Erase
    <2>2. SignedOutOwnsNothing'
      BY <2>1 DEF OwnerInv, SignedOutOwnsNothing
    <2>3. ASSUME NEW s \in live' \cap Sessions PROVE Home[Place[s]] \notin Doomed(r, Deletes[i])
      <3>1. Home[Place[s]] \in Packages
        BY <2>3
      <3>2. CASE i = 6
        BY <2>1, <2>3, <3>2, DeletesOrder DEF Bound, SessionsOf
      <3>3. CASE i # 6
        BY <1>2, <3>1, <3>3, DeletesOrder DEF Doomed, RowsOf
      <3>4. QED BY <3>2, <3>3
    <2>4. HomesLive'
      BY <2>1, <2>3 DEF OwnerInv, HomesLive
    <2>5. QED BY <2>2, <2>4 DEF OwnerInv
  <1>3. QED BY <1>1, <1>2

\* Whoever's sign-in record is gone owns no package and no session.
THEOREM SignedOutHolds == Spec => []SignedOutOwnsNothing
  <1>1. Init => OwnerInv
    BY DEF Init, OwnerInv, SignedOutOwnsNothing, HomesLive
  <1>2. TypeOK /\ OwnerInv /\ [Next]_vars => OwnerInv'
    <2> SUFFICES ASSUME TypeOK, OwnerInv, [Next]_vars PROVE OwnerInv'
      OBVIOUS
    <2> USE RowsAssumption, PlaceAssumption DEF dbVars, bucketVars, studyVars
    <2>u. ASSUME UNCHANGED <<signedIn, live>> PROVE OwnerInv'
      BY <2>u DEF OwnerInv, SignedOutOwnsNothing, HomesLive
    <2>1. CASE Use
      <3>1. ASSUME NEW p \in Packages, CreatePackage(p) PROVE OwnerInv'
        BY <3>1 DEF CreatePackage, OwnerInv, SignedOutOwnsNothing, HomesLive
      <3>2. ASSUME NEW p \in Packages,
                   StudyCheck(p) \/ StudyBegin(p) \/ StudyEnd(p) \/ StudyLost(p)
            PROVE OwnerInv'
        BY <3>2, <2>u DEF StudyCheck, StudyBegin, StudyEnd, StudyLost
      <3>3. ASSUME NEW s \in Sessions, StartSession(s) PROVE OwnerInv'
        <4>1. Home[Place[s]] \in live \cap Packages /\ live' = live \cup {s}
              /\ UNCHANGED signedIn
          BY <3>3 DEF StartSession
        <4>2. QED BY <4>1 DEF OwnerInv, SignedOutOwnsNothing, HomesLive
      <3>4. ASSUME NEW s \in Sessions, Complete(s) PROVE OwnerInv'
        BY <3>4, <2>u DEF Complete
      <3>5. ASSUME NEW f \in Filed, File(f) PROVE OwnerInv'
        BY <3>5 DEF File, OwnerInv, SignedOutOwnsNothing, HomesLive
      <3>6. ASSUME NEW k \in Keys, SignUpload(k) \/ Upload(k) PROVE OwnerInv'
        BY <3>6, <2>u DEF SignUpload, Upload
      <3>7. QED BY <2>1, <3>1, <3>2, <3>3, <3>4, <3>5, <3>6 DEF Use
    <2>2. ASSUME NEW r \in Requests, NEW what \in {"account"} \cup Packages, Ask(r, what)
          PROVE OwnerInv'
      BY <2>2, <2>u DEF Ask
    <2>3. ASSUME NEW r \in Requests, Serve(r) PROVE OwnerInv'
      <3>1. CASE \/ ListPackages(r) \/ ListFiled(r) \/ Sweep(r) \/ SweepFails(r)
                 \/ ListFails(r) \/ RemoveSignInFails(r)
                 \/ \E p \in Packages : ListSessions(r, p)
        BY <3>1, <2>u DEF ListPackages, ListFiled, Sweep, SweepFails, ListFails,
                          RemoveSignInFails, ListSessions
      <3>2. CASE RemoveSignIn(r)
        <4>1. UNCHANGED live /\ signedIn' = (signedIn /\ live \cap Packages # {})
          BY <3>2 DEF RemoveSignIn
        <4>2. CASE live \cap Packages = {}
          <5>1. live \cap Sessions = {}
            BY <4>2 DEF OwnerInv, HomesLive
          <5>2. QED BY <4>1, <4>2, <5>1 DEF OwnerInv, SignedOutOwnsNothing, HomesLive
        <4>3. CASE live \cap Packages # {}
          BY <4>1, <4>3 DEF OwnerInv, SignedOutOwnsNothing, HomesLive
        <4>4. QED BY <4>2, <4>3
      <3>3. ASSUME NEW i \in 1..6, DeleteRows(r, i) PROVE OwnerInv'
        BY <3>3, EraseKeepsOwner DEF DeleteRows
      <3>4. ASSUME NEW i \in 1..6, DeleteFails(r, i) PROVE OwnerInv'
        BY <3>4, <2>u, EraseKeepsOwner DEF DeleteFails
      <3>5. QED BY <2>3, <3>1, <3>2, <3>3, <3>4 DEF Serve
    <2>4. CASE UNCHANGED vars
      BY <2>4, <2>u DEF vars
    <2>5. QED BY <2>1, <2>2, <2>3, <2>4 DEF Next
  <1>3. OwnerInv => SignedOutOwnsNothing
    BY DEF OwnerInv
  <1>4. QED BY <1>1, <1>2, <1>3, DeletionTypes, PTL DEF Spec
=============================================================================
