----------------------------- MODULE RecordingDoor -----------------------------
(***************************************************************************)
(* How an interview's recording reaches the scorer: uploadAndComplete of   *)
(* components/SessionRoom.tsx in every tab that holds a recording of one   *)
(* session, the route that signs its upload (app/api/recordings/route.ts), *)
(* the route that hands the session over (app/api/sessions/[id]/route.ts), *)
(* and who may use either (lib/worker.ts).                                 *)
(* A recording is named by the tab that holds it.  All tabs write to one   *)
(* path of the storage bucket, which the scoring job reads.                *)
(***************************************************************************)
EXTENDS Naturals

CONSTANTS
  Tabs,
  score_attempt_cap,
  MaxLosses,       \* bound: the calls that get no answer
  NoTake           \* no recording

VARIABLES
  exists,  \* the session's package, which the account owns
  status,  \* the session's status column
  runs,    \* completes the worker accepted
  object,  \* external: the recording in storage, and the runs there were when the
           \* guard of the URL that it came by was asked
  judged,  \* the recording the newest run downloaded
  step,    \* where uploadAndComplete stands in each tab
  asked,   \* the runs there were when its guard was asked
  told,    \* the error it shows
  losses   \* calls that got no answer so far

vars == <<exists, status, runs, object, judged, step, asked, told, losses>>
row == <<exists, status, runs>>

Steps == {"recorded", "sign", "guard", "mint", "put", "complete", "probe", "post", "error", "done"}

Init ==
  /\ exists = TRUE /\ status = "planned" /\ runs = 0
  /\ object = [take |-> NoTake, asked |-> 0] /\ judged = NoTake
  /\ step = [t \in Tabs |-> "recorded"]
  /\ asked = [t \in Tabs |-> 0] /\ told = [t \in Tabs |-> "nothing"]
  /\ losses = 0

Goes(t, place) == step' = [step EXCEPT ![t] = place] /\ UNCHANGED told
Fails(t, why) == step' = [step EXCEPT ![t] = "error"] /\ told' = [told EXCEPT ![t] = why]

\* The answer of a call gets lost on its way, or nothing answers it.
Loses(t) == losses < MaxLosses /\ losses' = losses + 1 /\ Fails(t, "unavailable")

\* The interview ends, or Retry upload: the whole of it, from the signing on.
uploadAndComplete(t) ==
  /\ step[t] \in {"recorded", "error"}
  /\ step' = [step EXCEPT ![t] = "sign"] /\ told' = [told EXCEPT ![t] = "nothing"]
  /\ UNCHANGED <<row, object, judged, asked, losses>>

-----------------------------------------------------------------------------
(* The routes.  Each awaits one answer after another. *)

\* authorizeViewerSession: the row, then the account's own list, has to name it.
authorizeViewerSession(t, place) ==
  \/ exists /\ Goes(t, place)
  \/ ~exists /\ Fails(t, "denied")

AuthorizeUpload(t) ==
  /\ step[t] = "sign" /\ authorizeViewerSession(t, "guard")
  /\ UNCHANGED <<row, object, judged, asked, losses>>

\* Wrong variant: a finished score does not close the path.
StillScoring == status = "scoring"

\* The blob-swap guard.
Submitted == status \in {"scoring", "scored"}

AskGuard(t) ==
  /\ step[t] = "guard"
  /\ asked' = [asked EXCEPT ![t] = runs]
  /\ \/ ~Submitted /\ Goes(t, "mint")
     \/ Submitted /\ Fails(t, "submitted")
  /\ UNCHANGED <<row, object, judged, losses>>

mintUploadUrl(t) ==
  /\ step[t] = "mint" /\ Goes(t, "put")
  /\ UNCHANGED <<row, object, judged, asked, losses>>

\* The browser writes over what is there; the row is not looked at again.
Put(t) ==
  /\ step[t] = "put"
  /\ object' = [take |-> t, asked |-> asked[t]]
  /\ \/ Goes(t, "complete") /\ UNCHANGED losses
     \/ Loses(t)
  /\ UNCHANGED <<row, judged, asked>>

AuthorizeComplete(t) ==
  /\ step[t] = "complete" /\ authorizeViewerSession(t, "probe")
  /\ UNCHANGED <<row, object, judged, asked, losses>>

\* A size that cannot be read refuses nothing, and the room uploads nothing over
\* the cap.
storedRecordingBytes(t) ==
  /\ step[t] = "probe" /\ Goes(t, "post")
  /\ UNCHANGED <<row, object, judged, asked, losses>>

\* The worker's complete: it retires a row at the cap, refuses one that is under way
\* or retired with a 409, which the room takes for a success, and accepts any other.
completeSession(t) ==
  /\ step[t] = "post"
  /\ \/ /\ exists /\ status \in {"planned", "failed", "insufficient"}
        /\ runs < score_attempt_cap
        /\ status' = "scoring" /\ runs' = runs + 1 /\ judged' = NoTake
        /\ \/ Goes(t, "done") /\ UNCHANGED losses
           \/ Loses(t)
     \/ /\ exists /\ status \in {"planned", "failed", "insufficient"}
        /\ runs >= score_attempt_cap
        /\ status' = "failed_permanent" /\ Fails(t, "unavailable")
        /\ UNCHANGED <<runs, judged, losses>>
     \/ /\ exists /\ status \in {"scoring", "scored", "failed_permanent"}
        /\ Goes(t, "done")
        /\ UNCHANGED <<status, runs, judged, losses>>
     \/ ~exists /\ Fails(t, "unavailable") /\ UNCHANGED <<status, runs, judged, losses>>
  /\ UNCHANGED <<exists, object, asked>>

\* Any of the calls is not carried out.
Unanswered(t) ==
  /\ step[t] \in {"sign", "guard", "mint", "put", "complete", "post"}
  /\ Loses(t)
  /\ UNCHANGED <<row, object, judged, asked>>

-----------------------------------------------------------------------------
(* The worker meanwhile (SessionLifecycle has all of it). *)
Downloads ==
  /\ exists /\ status = "scoring" /\ judged = NoTake /\ object.take # NoTake
  /\ judged' = object.take
  /\ UNCHANGED <<row, object, step, asked, told, losses>>

Scores ==
  /\ exists /\ status = "scoring" /\ judged # NoTake
  /\ status' \in {"scored", "insufficient"}
  /\ UNCHANGED <<exists, runs, object, judged, step, asked, told, losses>>

JobFails ==
  /\ exists /\ status = "scoring" /\ status' = "failed"
  /\ UNCHANGED <<exists, runs, object, judged, step, asked, told, losses>>

\* A start arms the row again, or retires it.
CreateSession ==
  /\ exists /\ status \in {"failed", "insufficient"}
  /\ status' \in {"planned", "failed_permanent"}
  /\ UNCHANGED <<exists, runs, object, judged, step, asked, told, losses>>

DeletePackage ==
  /\ exists /\ exists' = FALSE
  /\ object' = [take |-> NoTake, asked |-> 0]
  /\ UNCHANGED <<status, runs, judged, step, asked, told, losses>>

Advances(t) ==
  \/ AuthorizeUpload(t) \/ AskGuard(t) \/ mintUploadUrl(t) \/ Put(t)
  \/ AuthorizeComplete(t) \/ storedRecordingBytes(t) \/ completeSession(t)

Next ==
  \/ \E t \in Tabs : uploadAndComplete(t) \/ Advances(t) \/ Unanswered(t)
  \/ Downloads \/ Scores \/ JobFails \/ CreateSession \/ DeletePackage

Spec == Init /\ [][Next]_vars

-----------------------------------------------------------------------------
TypeOK ==
  /\ exists \in BOOLEAN /\ runs \in 0 .. score_attempt_cap
  /\ status \in {"planned", "scoring", "scored", "failed", "insufficient", "failed_permanent"}
  /\ object.take \in Tabs \cup {NoTake} /\ judged \in Tabs \cup {NoTake}
  /\ losses \in 0 .. MaxLosses
  /\ step \in [Tabs -> Steps] /\ asked \in [Tabs -> 0 .. score_attempt_cap]

\* The report's page signs the path, and plays what is there by then.
mintAudioUrl == object.take

\* "its recording is scoring evidence" (recordings/route.ts): what the report's page
\* plays is what was judged.  The one way out is a URL whose guard was asked before
\* that run began: it outlives the guard, for as long as storage honours it.
EvidenceKept ==
  exists /\ status = "scored" => mintAudioUrl = judged \/ object.asked < runs

\* A tab is told that it has no access only where the package is gone, never because
\* something was down; that its session was submitted, or that all is done, only where
\* it was handed over or is retired.
ToldTheTruth ==
  \A t \in Tabs :
    /\ told[t] = "denied" => ~exists
    /\ told[t] = "submitted" \/ step[t] = "done" => runs > 0 \/ status = "failed_permanent"

\* "it can be retried and must never lose the blob" (SessionRoom.tsx): an interview
\* that somebody keeps retrying is handed over, unless its package is gone or the row
\* was retired meanwhile.
InterviewIsSent ==
  \A t \in Tabs :
    step[t] = "sign" ~> runs > 0 \/ ~exists \/ status = "failed_permanent"

\* "e.g. a retry after a lost response. The run we wanted exists, the recording is
\* uploaded: proceed to the report, do not error" (SessionRoom.tsx:424-427).
RetryReachesReport == \A t \in Tabs : told[t] = "submitted" => object.take # t
=============================================================================
