--------------------------- MODULE AccountDeletion ---------------------------
(***************************************************************************)
(* Deleting an account, or one package of it, while the product goes on.   *)
(*                                                                         *)
(* A deletion (api/deletion.py) first walks the account: its packages, the *)
(* sessions of each, the rows that name the account.  The plan that walk   *)
(* leaves is then executed against two stores: the recordings of every     *)
(* session in the plan go first, by the key a session's place determines,  *)
(* and any failure there ends the request before a row is touched; the     *)
(* rows follow, one table per request, children before packages.  After a  *)
(* worker that answered yes the web route removes the sign-in record.      *)
(* Every read and write is a step, so uploads with a URL signed earlier,   *)
(* study tasks already running, interviews and packages started meanwhile, *)
(* a second deletion and a failure of any call interleave with it.         *)
(*                                                                         *)
(* A row id is used once; a recording's key and a study row's id are not,  *)
(* which is what lets a late write bring one back.                         *)
(***************************************************************************)
EXTENDS Integers, FiniteSets

CONSTANTS
    Packages,   \* package ids of the account
    Sessions,   \* session ids
    Keys,       \* places of the recordings bucket: a package and an index
    Place,      \* Place[s]: the key of the package and index of session s
    Home,       \* Home[k]: the package of key k
    Filed,      \* rows of the account alone, by their table
    Requests,   \* deletion requests the worker may be serving at once
    MaxFaults   \* bound: calls that fail

Rows == Packages \cup Sessions \cup Filed

ASSUME PlaceAssumption ==
    /\ Place \in [Sessions -> Keys]
    /\ Home \in [Keys -> Packages]
ASSUME RowsAssumption ==
    /\ Packages \cap Sessions = {}
    /\ Filed \subseteq {"order", "feedback", "cbt_redemption"}
    /\ Filed \cap (Packages \cup Sessions) = {}
    /\ Keys \cap Packages = {}
    /\ "account" \notin Packages
ASSUME FaultsAssumption == MaxFaults \in Nat

VARIABLES
    signedIn,   \* the sign-in record exists
    live,       \* rows in the database, study rows apart
    dead,       \* ids of rows that were deleted
    named,      \* sessions whose row names its recording
    blobs,      \* keys of the recordings bucket that hold an object
    urls,       \* keys with a signed upload URL (one that expires is not used again)
    study,      \* packages with a study row
    task,       \* study generation of each package
    req,        \* each deletion request: its stage, its scope (the account or
                \* one package), the packages whose sessions it has still to
                \* list, and its plan, the rows it will delete
    wanted,     \* the customer has asked for the account to be deleted
    late,       \* keys and study rows written behind a deletion's back
    faults      \* calls that failed

dbVars == <<live, dead, named>>
bucketVars == <<blobs, urls>>
studyVars == <<study, task>>
vars == <<signedIn, dbVars, bucketVars, studyVars, req, wanted, late, faults>>

Deletes == <<"order", "session", "feedback", "study", "cbt_redemption", "package">>
Stages == {"idle", "packages", "walk", "sweep", "signin"} \cup {Deletes[i] : i \in 1..6}
Request == [stage : Stages, scope : {"account"} \cup Packages,
            todo : SUBSET Packages, plan : SUBSET Rows]
Idle == [stage |-> "idle", scope |-> "account", todo |-> {}, plan |-> {}]

TypeOK ==
    /\ signedIn \in BOOLEAN
    /\ live \subseteq Rows
    /\ dead \subseteq Rows
    /\ named \subseteq Sessions
    /\ blobs \subseteq Keys
    /\ urls \subseteq Keys
    /\ study \subseteq Packages
    /\ task \in [Packages -> {"none", "checked", "running"}]
    /\ req \in [Requests -> Request]
    /\ wanted \in BOOLEAN
    /\ late \subseteq Keys \cup Packages
    /\ faults \in 0..MaxFaults

Init ==
    /\ signedIn = TRUE
    /\ live = {}
    /\ dead = {}
    /\ named = {}
    /\ blobs = {}
    /\ urls = {}
    /\ study = {}
    /\ task = [p \in Packages |-> "none"]
    /\ req = [r \in Requests |-> Idle]
    /\ wanted = FALSE
    /\ late = {}
    /\ faults = 0

-----------------------------------------------------------------------------
(* The product, going on                                                   *)

SessionsOf(p) == {s \in live \cap Sessions : Home[Place[s]] = p}
HasRow(k) == \E s \in live \cap Sessions : Place[s] = k

Fresh(x) == x \notin live \cup dead

(* packages.user_id is a foreign key: no row for an account that is gone.  *)
CreatePackage(p) ==
    /\ signedIn
    /\ Fresh(p)
    /\ live' = live \cup {p}
    /\ UNCHANGED <<signedIn, dead, named, bucketVars, studyVars, req, wanted, late, faults>>

(* The row is bound to its package by a foreign key and alone at its index. *)
StartSession(s) ==
    /\ Fresh(s)
    /\ Home[Place[s]] \in live
    /\ ~ HasRow(Place[s])
    /\ live' = live \cup {s}
    /\ UNCHANGED <<signedIn, dead, named, bucketVars, studyVars, req, wanted, late, faults>>

(* An order by webhook, a note of feedback, a redeemed code.               *)
File(f) ==
    /\ signedIn
    /\ Fresh(f)
    /\ f = "order" => live \cap Packages # {}
    /\ live' = live \cup {f}
    /\ UNCHANGED <<signedIn, dead, named, bucketVars, studyVars, req, wanted, late, faults>>

(* The browser asks for an upload URL of a session's place ...             *)
SignUpload(k) ==
    /\ HasRow(k)
    /\ urls' = urls \cup {k}
    /\ UNCHANGED <<signedIn, dbVars, blobs, studyVars, req, wanted, late, faults>>

(* Where the recordings, and where the study row, of a plan are behind it. *)
Swept == {Deletes[i] : i \in 1..6} \cup {"signin"}
Restudied == {"cbt_redemption", "package", "signin"}

\* Wrong variant for LeftoversAreLate: only the keys the session rows name.
NamedKeys(r) == {Place[s] : s \in req[r].plan \cap named}

PlannedKeys(r) == {Place[s] : s \in req[r].plan \cap Sessions}

(* Whether a write at k lands where no deletion will look for it again.    *)
Unseen(k) == ~ HasRow(k) \/ \E r \in Requests : req[r].stage \in Swept /\ k \in PlannedKeys(r)

(* ... and puts the object there, whatever has happened since; signed with *)
(* upsert, so the object may replace another.                              *)
Upload(k) ==
    /\ k \in urls
    /\ blobs' = blobs \cup {k}
    /\ late' = IF Unseen(k) THEN late \cup {k} ELSE late \ {k}
    /\ UNCHANGED <<signedIn, dbVars, urls, studyVars, req, wanted, faults>>

(* POST complete: the write that puts the key on the row; it may never come. *)
Complete(s) ==
    /\ s \in live \ named
    /\ named' = named \cup {s}
    /\ UNCHANGED <<signedIn, live, dead, bucketVars, studyVars, req, wanted, late, faults>>

(* POST study: the reads that allow it, then begin_study_generation.       *)
StudyCheck(p) ==
    /\ task[p] = "none"
    /\ p \in live
    /\ SessionsOf(p) \cap named # {}
    /\ task' = [task EXCEPT ![p] = "checked"]
    /\ UNCHANGED <<signedIn, dbVars, bucketVars, study, req, wanted, late, faults>>

UnseenStudy(p) == p \notin live \/ \E r \in Requests : req[r].stage \in Restudied /\ p \in req[r].plan

(* An upsert of the study row, which no foreign key binds to a package.    *)
WriteStudy(p) ==
    /\ study' = study \cup {p}
    /\ late' = IF UnseenStudy(p) THEN late \cup {p} ELSE late \ {p}

StudyBegin(p) ==
    /\ task[p] = "checked"
    /\ WriteStudy(p)
    /\ task' = [task EXCEPT ![p] = "running"]
    /\ UNCHANGED <<signedIn, dbVars, bucketVars, req, wanted, faults>>

(* The task ends in save or in fail, both an upsert, or dies with its      *)
(* process.                                                                *)
StudyEnd(p) ==
    /\ task[p] = "running"
    /\ WriteStudy(p)
    /\ task' = [task EXCEPT ![p] = "none"]
    /\ UNCHANGED <<signedIn, dbVars, bucketVars, req, wanted, faults>>

StudyLost(p) ==
    /\ task[p] = "running"
    /\ task' = [task EXCEPT ![p] = "none"]
    /\ UNCHANGED <<signedIn, dbVars, bucketVars, study, req, wanted, late, faults>>

-----------------------------------------------------------------------------
(* A deletion request                                                      *)

Goto(r, stage) == req' = [req EXCEPT ![r].stage = stage]
Answer(r) == req' = [req EXCEPT ![r] = Idle]

Ask(r, what) ==
    /\ signedIn
    /\ req[r].stage = "idle"
    /\ req' = [req EXCEPT ![r] = [Idle EXCEPT !.stage = "packages", !.scope = what]]
    /\ wanted' = (wanted \/ what = "account")
    /\ UNCHANGED <<signedIn, dbVars, bucketVars, studyVars, late, faults>>

Owned(what) == live \cap (IF what = "account" THEN Packages ELSE {what})

(* The packages of the account, or the one asked for; 404 when it is gone. *)
ListPackages(r) ==
    /\ req[r].stage = "packages"
    /\ LET owned == Owned(req[r].scope)
       IN  IF req[r].scope # "account" /\ owned = {}
           THEN Answer(r)
           ELSE req' = [req EXCEPT ![r].stage = "walk", ![r].todo = owned, ![r].plan = owned]
    /\ UNCHANGED <<signedIn, dbVars, bucketVars, studyVars, wanted, late, faults>>

\* Wrong variant for Erased: sessions without a recording are passed over.
ListedRecorded(p) == SessionsOf(p) \cap named

(* What a listed package contributes: every session, whatever it names.    *)
Listed(p) == SessionsOf(p)

ListSessions(r, p) ==
    /\ req[r].stage = "walk"
    /\ p \in req[r].todo
    /\ req' = [req EXCEPT ![r].todo = @ \ {p}, ![r].plan = @ \cup Listed(p)]
    /\ UNCHANGED <<signedIn, dbVars, bucketVars, studyVars, wanted, late, faults>>

(* Orders, feedback and the redemption belong to the account alone: a      *)
(* receipt outlives the package it paid for.                               *)
ListFiled(r) ==
    /\ req[r].stage = "walk"
    /\ req[r].todo = {}
    /\ req' = [req EXCEPT ![r].stage = "sweep",
                           ![r].plan = IF req[r].scope = "account" THEN @ \cup (live \cap Filed) ELSE @]
    /\ UNCHANGED <<signedIn, dbVars, bucketVars, studyVars, wanted, late, faults>>

RowsOf(table) ==
    CASE table \in {"study", "package"} -> Packages
      [] table = "session" -> Sessions
      [] OTHER -> Filed \cap {table}

Doomed(r, table) == req[r].plan \cap RowsOf(table)

(* A package with a session that the plan does not know cannot go.         *)
Bound(r, table) == table = "package" /\ \E p \in Doomed(r, table) : SessionsOf(p) # {}

(* On to the next table the plan has ids for: no ids, no request.  After   *)
(* the last, the worker answers, and for an account the web route goes on. *)
Onward(r, i) ==
    \/ \E j \in i + 1..6 :
          /\ Doomed(r, Deletes[j]) # {}
          /\ \A l \in i + 1..j - 1 : Doomed(r, Deletes[l]) = {}
          /\ Goto(r, Deletes[j])
    \/ /\ \A l \in i + 1..6 : Doomed(r, Deletes[l]) = {}
       /\ IF req[r].scope = "account" THEN Goto(r, "signin") ELSE Answer(r)

(* remove_recordings of every planned key; an absent object counts as gone. *)
Sweep(r) ==
    /\ req[r].stage = "sweep"
    /\ blobs' = blobs \ PlannedKeys(r)
    /\ late' = late \ PlannedKeys(r)
    /\ Onward(r, 0)
    /\ UNCHANGED <<signedIn, dbVars, urls, studyVars, wanted, faults>>

(* The bucket failed, possibly after it removed some: 503, no row touched. *)
SweepFails(r) ==
    /\ req[r].stage = "sweep"
    /\ PlannedKeys(r) # {}
    /\ faults < MaxFaults
    /\ faults' = faults + 1
    /\ \E gone \in SUBSET PlannedKeys(r) :
          /\ blobs' = blobs \ gone
          /\ late' = late \ gone
    /\ Answer(r)
    /\ UNCHANGED <<signedIn, dbVars, urls, studyVars, wanted>>

(* One delete request of execute_deletion; ids already gone are no error.  *)
Erase(r, i) ==
    IF Deletes[i] = "study"
    THEN /\ study' = study \ Doomed(r, "study")
         /\ late' = late \ Doomed(r, "study")
         /\ UNCHANGED dbVars
    ELSE /\ live' = live \ Doomed(r, Deletes[i])
         /\ dead' = dead \cup Doomed(r, Deletes[i])
         /\ named' = named \ Doomed(r, Deletes[i])
         /\ UNCHANGED <<study, late>>

DeleteRows(r, i) ==
    /\ req[r].stage = Deletes[i]
    /\ ~ Bound(r, Deletes[i])
    /\ Erase(r, i)
    /\ Onward(r, i)
    /\ UNCHANGED <<signedIn, bucketVars, task, wanted, faults>>

(* The database refuses, or its answer is lost after the rows went.        *)
DeleteFails(r, i) ==
    /\ req[r].stage = Deletes[i]
    /\ \/ /\ Bound(r, Deletes[i])
          /\ UNCHANGED <<dbVars, study, late, faults>>
       \/ /\ ~ Bound(r, Deletes[i])
          /\ faults < MaxFaults
          /\ faults' = faults + 1
          /\ Erase(r, i) \/ UNCHANGED <<dbVars, study, late>>
    /\ Answer(r)
    /\ UNCHANGED <<signedIn, bucketVars, task, wanted>>

(* A read that raises, a request whose process stops.                      *)
ListFails(r) ==
    /\ req[r].stage \in {"packages", "walk"}
    /\ faults < MaxFaults
    /\ faults' = faults + 1
    /\ Answer(r)
    /\ UNCHANGED <<signedIn, dbVars, bucketVars, studyVars, wanted, late>>

\* Wrong variant for SignedOutOwnsNothing: the removal looks at no package.
RemoveSignInAtOnce(r) ==
    /\ req[r].stage = "signin"
    /\ signedIn' = FALSE
    /\ Answer(r)
    /\ UNCHANGED <<dbVars, bucketVars, studyVars, wanted, late, faults>>

(* The worker has answered yes: auth.admin.deleteUser, refused while a     *)
(* package still names the account.                                        *)
RemoveSignIn(r) ==
    /\ req[r].stage = "signin"
    /\ signedIn' = (signedIn /\ live \cap Packages # {})
    /\ Answer(r)
    /\ UNCHANGED <<dbVars, bucketVars, studyVars, wanted, late, faults>>

RemoveSignInFails(r) ==
    /\ req[r].stage = "signin"
    /\ faults < MaxFaults
    /\ faults' = faults + 1
    /\ Answer(r)
    /\ UNCHANGED <<signedIn, dbVars, bucketVars, studyVars, wanted, late>>

-----------------------------------------------------------------------------

Serve(r) ==
    \/ ListPackages(r) \/ ListFiled(r) \/ Sweep(r) \/ SweepFails(r)
    \/ ListFails(r) \/ RemoveSignIn(r) \/ RemoveSignInFails(r)
    \/ \E p \in Packages : ListSessions(r, p)
    \/ \E i \in 1..6 : DeleteRows(r, i) \/ DeleteFails(r, i)

Use ==
    \/ \E p \in Packages : CreatePackage(p) \/ StudyCheck(p) \/ StudyBegin(p)
                              \/ StudyEnd(p) \/ StudyLost(p)
    \/ \E s \in Sessions : StartSession(s) \/ Complete(s)
    \/ \E f \in Filed : File(f)
    \/ \E k \in Keys : SignUpload(k) \/ Upload(k)

Next ==
    \/ Use
    \/ \E r \in Requests : Serve(r)
    \/ \E r \in Requests, what \in {"account"} \cup Packages : Ask(r, what)

Spec == Init /\ [][Next]_vars

(* The worker works its requests off, and a customer who has once asked    *)
(* for the account to be deleted asks again until it is.                   *)
AskAgain == wanted /\ \E r \in Requests : Ask(r, "account")

FairSpec == Spec /\ SF_vars(AskAgain) /\ \A r \in Requests : WF_vars(Serve(r))

-----------------------------------------------------------------------------
(* What a recording without its session row, or a study row without its    *)
(* package, tells: it was written after the deletion had passed there.     *)
(* No failure, retry or second deletion strands one that was there before  *)
(* (deletion.py, "Ordering, and why it is the way it is").                 *)
LeftoversAreLate ==
    /\ \A k \in blobs : HasRow(k) \/ k \in late
    /\ \A p \in study : p \in live \/ p \in late

(* The sign-in record goes last: whoever can no longer sign in owns no     *)
(* package and no session (account/delete/route.ts, migration 003).        *)
SignedOutOwnsNothing == ~ signedIn => live \cap (Packages \cup Sessions) = {}

(* A deletion asked for often enough ends, whatever failed on the way and  *)
(* whatever was created meanwhile: "a retry converges" (deletion.py:26).   *)
Erased == wanted ~> ~ signedIn
=============================================================================
