---------------------------- MODULE InterviewRoom ----------------------------
(***************************************************************************)
(* The browser's interview room: apps/web/lib/session-room.ts (the silence *)
(* clock and the connection guard, two pure reducers) and                  *)
(* apps/web/components/SessionRoom.tsx (the ticker that feeds them, the    *)
(* two endings, the upload).  One ticker step takes everything that the    *)
(* data channel delivered since the step before: `heard' below.  Seconds   *)
(* of the reducers are counted in units of the nominal tick; the interview *)
(* clock only in the instants that something is compared with.             *)
(***************************************************************************)
EXTENDS SilenceClock

CONSTANTS
  Kinds,        \* which rooms exist: a subset of {"scored", "quick"}
  TickLengths,  \* lengths a tick can measure
  Grace,        \* DISCONNECTED_GRACE_S
  Starve,       \* STARVATION_TRIP_S
  MaxMute       \* longest a healthy server owes traffic and sends none

ASSUME KindsAssumption == Kinds \subseteq {"scored", "quick"}
ASSUME TicksAssumption ==
  /\ TickLengths \subseteq Nat
  /\ Grace \in Nat \ {0} /\ Starve \in Nat \ {0}
\* External: what OpenAI's channel does while it is well.
ASSUME TrafficAssumption == MaxMute \in Nat /\ MaxMute + Gap <= Starve

-----------------------------------------------------------------------------
\* The instants a comparison tells apart; elapsed is the last one reached.
Instants(kind) ==
  LET notes == timeStatusCheckpoints(BudgetOf(kind))
  IN {0, ArmedAt, HardCutOf(kind)} \cup {notes[i] : i \in DOMAIN notes}

-----------------------------------------------------------------------------
(* nextGuardState. *)
ConnectionGuardState ==
  [disconnectedForS : 0 .. Grace, starvedS : 0 .. Starve, responsePending : BOOLEAN]

InitialGuard == [disconnectedForS |-> 0, starvedS |-> 0, responsePending |-> FALSE]

\* Wrong variant: a talking candidate is expected to cause traffic.
ExpectsOfAnyone(pending, t) == t.interviewerAudible \/ t.candidateAudible \/ pending

\* Traffic the room has a right to expect: never while only the candidate talks.
Expects(pending, t) == t.interviewerAudible \/ pending

nextGuardState(g, t) ==
  LET pending == t.responseRequested \/ (g.responsePending /\ ~t.responseDone)
      cut == IF t.connection = "disconnected" THEN AtMost(g.disconnectedForS + t.dtS, Grace) ELSE 0
      starved == IF t.messageArrived THEN 0
                 ELSE IF Expects(pending, t) THEN AtMost(g.starvedS + t.dtS, Starve)
                 ELSE g.starvedS
  IN IF t.dtS >= Gap
     THEN [state |-> InitialGuard, ends |-> FALSE]
     ELSE [state |-> [disconnectedForS |-> cut, starvedS |-> starved, responsePending |-> pending],
           ends |-> \/ t.connection \in {"failed", "closed"}
                    \/ cut >= Grace
                    \/ starved >= Starve]

-----------------------------------------------------------------------------
VARIABLES
  kind,               \* a scored room or an unscored quick one
  phase,              \* RoomPhase; "left" once the page has navigated away
  elapsed,            \* seconds since startedAtRef, as an instant
  timeStatusSent, heardMorgan, responseRequested, candidateAudible,
  commitArrived, finishedTranscript,
  silence, guard,     \* silenceStateRef and guardStateRef
  endingRef, stopping,\* the endings that await the recorder's last chunk
  step, error,        \* where the upload stands, and the error it shows
  link, morgan, mute, \* external: the transport, the model, its silence
  goodbye,            \* external: Morgan has closed past the wrap-up note
  stored, posted      \* external: the recording landed; complete was posted

roomVars == <<elapsed, timeStatusSent, heardMorgan, responseRequested, candidateAudible,
              commitArrived, finishedTranscript, silence, guard, morgan, mute, goodbye>>
endVars == <<endingRef, stopping, step, error, stored, posted>>
vars == <<kind, phase, link, roomVars, endVars>>

Phases == {"ready", "connecting", "live", "uploading", "completing", "done",
           "connection-lost", "left"}
Audible == {"speaking", "trailing"}
Transcripts == {"none", "ask", "statement", "closing"}

\* The page is loaded.
Init ==
  /\ kind \in Kinds
  /\ stored = FALSE /\ posted = FALSE
  /\ phase = "ready" /\ link = "closed"
  /\ elapsed = 0 /\ timeStatusSent = 0
  /\ heardMorgan = FALSE /\ responseRequested = FALSE /\ candidateAudible = FALSE
  /\ commitArrived = FALSE /\ finishedTranscript = "none"
  /\ silence = InitialSilence /\ guard = InitialGuard
  /\ morgan = "idle" /\ mute = 0 /\ goodbye = FALSE
  /\ endingRef = FALSE /\ stopping = {}
  /\ step = "none" /\ error = FALSE

\* The room is torn down: nothing reads its refs until a page load has made
\* them anew.
TornDown ==
  /\ elapsed' = 0 /\ timeStatusSent' = 0
  /\ heardMorgan' = FALSE /\ responseRequested' = FALSE /\ candidateAudible' = FALSE
  /\ commitArrived' = FALSE /\ finishedTranscript' = "none"
  /\ silence' = InitialSilence /\ guard' = InitialGuard
  /\ morgan' = "idle" /\ mute' = 0 /\ goodbye' = FALSE

-----------------------------------------------------------------------------
(* Starting. *)
Start ==
  /\ phase = "ready"
  /\ phase' = "connecting" /\ error' = FALSE
  /\ UNCHANGED <<kind, link, roomVars, endingRef, stopping, step, stored, posted>>

\* Microphone, audio context, recorder, mint, SDP or the open handler threw.
StartFails ==
  /\ phase = "connecting"
  /\ phase' = "ready" /\ error' = TRUE
  /\ UNCHANGED <<kind, link, roomVars, endingRef, stopping, step, stored, posted>>

\* 409 session-not-live: the page reloads into the closed screen.
Refused ==
  /\ phase = "connecting"
  /\ phase' = "left"
  /\ UNCHANGED <<kind, link, roomVars, endVars>>

\* The data channel opens: the clock starts and Morgan is asked to greet.
Open ==
  /\ phase = "connecting"
  /\ phase' = "live" /\ link' = "up"
  /\ responseRequested' = TRUE /\ morgan' = "thinking" /\ mute' = 0
  /\ UNCHANGED <<kind, elapsed, timeStatusSent, heardMorgan, candidateAudible, commitArrived,
                 finishedTranscript, silence, guard, goodbye, endVars>>

-----------------------------------------------------------------------------
(* The transport and the model, external. *)
LinkChanges ==
  /\ phase = "live" /\ ~endingRef
  /\ \/ link = "up" /\ link' \in {"disconnected", "failed", "closed"}
     \/ link = "disconnected" /\ link' \in {"up", "failed", "closed"}
  /\ UNCHANGED <<kind, phase, roomVars, endVars>>

\* A response goes forward only, and its audio may outlast it; none is over
\* before the first tick has seen it requested.
Onward(m) ==
  IF responseRequested THEN {"thinking", "speaking"}
  ELSE CASE m = "idle" -> {"idle"}
         [] m = "thinking" -> {"thinking", "speaking", "trailing", "idle"}
         [] m = "speaking" -> {"speaking", "trailing", "idle"}
         [] m = "trailing" -> {"trailing", "idle"}

Nothing == [message |-> FALSE, candidate |-> candidateAudible, commit |-> FALSE,
            morgan |-> morgan, transcript |-> "none"]

\* What the channel can have delivered since the last tick.  A healthy server
\* that owes traffic is not mute for longer than MaxMute.
Heard(dtS) ==
  (IF morgan = "idle" \/ link # "up" \/ dtS >= Gap \/ mute + dtS <= MaxMute THEN {Nothing} ELSE {})
  \cup (IF link # "up" THEN {} ELSE
        [message : {TRUE}, candidate : BOOLEAN, commit : BOOLEAN, morgan : Onward(morgan),
         transcript : IF morgan \in {"thinking", "speaking"}
                      THEN Transcripts ELSE {"none"}])

Finished(h) == morgan \in {"thinking", "speaking"} /\ h.morgan \in {"idle", "trailing"}

-----------------------------------------------------------------------------
(* The ticker. *)

\* Wrong variant: no re-entry guard, each ending called for runs.
AdmittedAll(wanted) ==
  {f \in {"finish"} : wanted \cap {"goodbye", "cut"} # {}} \cup {f \in {"lose"} : "trip" \in wanted}

\* Of the endings one tick calls for, in the order it calls them, the re-entry
\* guard lets through the first, and none once an ending has begun.
Admitted(wanted) ==
  IF endingRef THEN {}
  ELSE IF "goodbye" \in wanted THEN {"finish"}
  ELSE IF "trip" \in wanted THEN {"lose"}
  ELSE IF "cut" \in wanted THEN {"finish"}
  ELSE {}

Ending(wanted) ==
  /\ stopping' = stopping \cup Admitted(wanted)
  /\ endingRef' = (endingRef \/ wanted # {})
  /\ UNCHANGED <<step, error, stored, posted>>

\* What the tick reads: Morgan has been heard, once; and until he was, a commit
\* and a transcript wait for the clock.
IsHeard(h) == heardMorgan \/ h.morgan \in Audible \/ Finished(h)
TakesIn(h) == IsHeard(h) /\ link # "closed"
Committed(h) == commitArrived \/ h.commit
Transcript(h) ==
  IF h.transcript = "none" \/ finishedTranscript = "closing"
  THEN finishedTranscript ELSE h.transcript

SilenceTick(dtS, h, now) ==
  [dtS |-> dtS, candidateAudible |-> h.candidate, interviewerAudible |-> h.morgan \in Audible,
   commitArrived |-> Committed(h), responseDone |-> Finished(h), elapsedS |-> now,
   transcript |-> Transcript(h)]

GuardTick(dtS, h, asks) ==
  [dtS |-> dtS, connection |-> link, messageArrived |-> h.message,
   responseRequested |-> responseRequested \/ asks, responseDone |-> Finished(h),
   candidateAudible |-> h.candidate, interviewerAudible |-> h.morgan \in Audible]

SilenceStep(dtS, h, now) ==
  IF TakesIn(h) THEN nextSilenceState(silence, SilenceTick(dtS, h, now)) ELSE Silently(silence)

NoteDue(now) ==
  LET notes == timeStatusCheckpoints(BudgetOf(kind))
  IN timeStatusSent < Len(notes) /\ now >= notes[timeStatusSent + 1]

\* A note due on a tick goes out alone: what the reducer wanted said is not.
Tick(dtS, h, now) ==
  LET out == SilenceStep(dtS, h, now)
      asks == out.speak # "none" /\ ~NoteDue(now)
      watch == nextGuardState(guard, GuardTick(dtS, h, asks))
  IN /\ phase = "live" /\ ~endingRef
     /\ elapsed' = now
     /\ timeStatusSent' = IF NoteDue(now) /\ link # "closed" THEN timeStatusSent + 1
                         ELSE timeStatusSent
     /\ heardMorgan' = IsHeard(h)
     /\ candidateAudible' = h.candidate
     /\ commitArrived' = (Committed(h) /\ ~TakesIn(h))
     /\ finishedTranscript' = IF TakesIn(h) THEN "none" ELSE Transcript(h)
     /\ responseRequested' = FALSE
     /\ silence' = out.state
     /\ guard' = watch.state
     /\ morgan' = IF asks /\ h.morgan = "idle" THEN "thinking" ELSE h.morgan
     /\ mute' = IF h.message \/ morgan' = "idle" THEN 0
                ELSE IF dtS >= Gap THEN mute ELSE AtMost(mute + dtS, Starve)
     /\ goodbye' = \/ goodbye
                   \/ /\ TakesIn(h) /\ Transcript(h) = "closing"
                      /\ now >= closingArmedAt(BudgetOf(kind))
     /\ Ending({w \in {"goodbye"} : out.end} \cup {w \in {"trip"} : watch.ends}
               \cup {w \in {"cut"} : ~watch.ends /\ now >= HardCutOf(kind)})
     /\ UNCHANGED <<kind, phase, link>>

Ticks ==
  \E dtS \in TickLengths, now \in {i \in Instants(kind) : i >= elapsed} : \E h \in Heard(dtS) :
    Tick(dtS, h, now)

\* The interview clock passes its next instant; of Next, only Ticks does that.
ClockAdvances ==
  phase = "live" /\ ~endingRef /\ elapsed' \in {i \in Instants(kind) : i > elapsed}

\* The End button.
EndClicked ==
  /\ phase = "live" /\ ~endingRef
  /\ Ending({"cut"})
  /\ UNCHANGED <<kind, phase, link, roomVars>>

-----------------------------------------------------------------------------
(* Ending: stopRecorder has resolved, and the tail of endSession or of     *)
(* endForConnectionLoss runs.                                              *)
\* Wrong variant: without a recorder there is no last chunk, and nobody goes on.
RecorderStoppedOnly ==
  \E f \in stopping :
    /\ kind = "scored"
    /\ stopping' = stopping \ {f}
    /\ link' = "closed"
    /\ phase' = IF f = "lose" THEN "connection-lost" ELSE "uploading"
    /\ step' = IF f = "lose" THEN step ELSE "sign"
    /\ TornDown
    /\ UNCHANGED <<kind, endingRef, error, stored, posted>>

RecorderStopped ==
  \E f \in stopping :
    /\ stopping' = stopping \ {f}
    /\ link' = "closed"
    /\ phase' = CASE f = "lose" -> "connection-lost"
                  [] f = "finish" /\ kind = "quick" -> "completing"
                  [] OTHER -> "uploading"
    /\ step' = IF f = "lose" THEN step ELSE IF kind = "quick" THEN "complete" ELSE "sign"
    /\ TornDown
    /\ UNCHANGED <<kind, endingRef, error, stored, posted>>

\* The signed URL is minted.
Signed ==
  /\ step = "sign"
  /\ step' = "put"
  /\ UNCHANGED <<kind, phase, link, roomVars, endingRef, stopping, error, stored, posted>>

\* The recording lands in storage; the answer may get lost.
Put ==
  /\ step = "put"
  /\ stored' = TRUE
  /\ \/ step' = "complete" /\ error' = error
     \/ step' = "none" /\ error' = TRUE
  /\ UNCHANGED <<kind, phase, link, roomVars, endingRef, stopping, posted>>

\* Complete is posted: accepted, 409, refused, or the answer lost.
Complete ==
  /\ step = "complete"
  /\ step' = "none" /\ posted' = TRUE
  /\ \/ phase' = (IF kind = "quick" THEN "left" ELSE "done") /\ error' = error
     \/ phase' = phase /\ error' = TRUE
  /\ UNCHANGED <<kind, link, roomVars, endingRef, stopping, stored>>

\* The size gate, the signing or the upload fails.
UploadFails ==
  /\ step \in {"sign", "put"}
  /\ step' = "none" /\ error' = TRUE
  /\ UNCHANGED <<kind, phase, link, roomVars, endingRef, stopping, stored, posted>>

\* Retry upload, or Try again of the unscored ending: from its first call.
Retry ==
  /\ phase \in {"uploading", "completing"} /\ error
  /\ error' = FALSE
  /\ step' = IF phase = "uploading" THEN "sign" ELSE "complete"
  /\ UNCHANGED <<kind, phase, link, roomVars, endingRef, stopping, stored, posted>>

\* Continue anyway.
Continue ==
  /\ phase = "completing" /\ error
  /\ phase' = "left"
  /\ UNCHANGED <<kind, link, roomVars, endVars>>

\* Try again of the connection-lost screen loads the page afresh.
Reload ==
  /\ phase = "connection-lost"
  /\ phase' = "ready" /\ link' = "closed"
  /\ TornDown
  /\ endingRef' = FALSE /\ stopping' = {}
  /\ step' = "none" /\ error' = FALSE
  /\ UNCHANGED <<kind, stored, posted>>

Next ==
  \/ Start \/ StartFails \/ Refused \/ Open \/ LinkChanges
  \/ Ticks \/ EndClicked \/ RecorderStopped
  \/ Signed \/ Put \/ Complete \/ UploadFails \/ Retry \/ Continue \/ Reload

Spec == Init /\ [][Next]_vars

\* The browser keeps calling the ticker while time passes, and a recorder told
\* to stop delivers its last chunk.
FairSpec == Spec /\ WF_elapsed(ClockAdvances) /\ WF_vars(RecorderStopped)

-----------------------------------------------------------------------------
(* Properties. *)

\* Shape of the state.
TypeOK ==
  /\ kind \in {"scored", "quick"} /\ phase \in Phases
  /\ elapsed \in Instants(kind)
  /\ timeStatusSent \in 0 .. Len(timeStatusCheckpoints(BudgetOf(kind)))
  /\ heardMorgan \in BOOLEAN /\ responseRequested \in BOOLEAN /\ candidateAudible \in BOOLEAN
  /\ commitArrived \in BOOLEAN /\ finishedTranscript \in Transcripts
  /\ silence \in SilenceClockState /\ guard \in ConnectionGuardState
  /\ endingRef \in BOOLEAN /\ stopping \subseteq {"finish", "lose"}
  /\ step \in {"none", "sign", "put", "complete"} /\ error \in BOOLEAN
  /\ link \in {"closed", "up", "disconnected", "failed"}
  /\ morgan \in {"idle", "thinking"} \cup Audible /\ mute \in 0 .. Starve
  /\ goodbye \in BOOLEAN /\ stored \in BOOLEAN /\ posted \in BOOLEAN

\* The scaffold ladder never lags behind the silence and never runs ahead of
\* it: a rung has been sent exactly when the quiet of this stretch has reached
\* it, however transcripts, blips, echoes, nudges and suspended ticks fell; and
\* while Morgan owes a turn no fuse is left burning past its time.
OnLadder(s) ==
  \/ s.closingSeen
  \/ /\ \A i \in 1 .. Len(Rungs) : i <= s.stagesSent <=> Rungs[i] <= s.quietS
     /\ s.morganOwesSpeech => s.quietS < Nudge

LadderKeepsUp == OnLadder(silence)

\* The guard never takes a well room for a dead one: as long as the transport
\* is up and the server sends what it owes, no silence, long answer, barge-in,
\* cancelled response or suspended tab ends in "connection lost".
LostWasBroken == "lose" \in stopping => link # "up"

\* "It won't count against your package": a room that ended for its connection
\* never posts complete, whichever endings met on its last tick.
LostIsNotCharged == phase = "connection-lost" \/ "lose" \in stopping => ~posted

\* A scored interview is sent to scoring only once its recording has landed,
\* whatever answers got lost and however often the upload was retried.
PostedIsStored == posted /\ kind = "scored" => stored

\* What is posted for scoring is owed it: a finished room, with its recording.
PostedIsOwed == LostIsNotCharged /\ PostedIsStored

\* Once the closing line was recognised and Morgan has fallen silent, nothing
\* the room does makes him speak again in this interview.
GoodbyeIsLast ==
  [][silence.closingSeen /\ morgan = "idle" => morgan' = "idle"]_vars

\* Every interview ends: by the goodbye, the hard cut, the button or the guard.
RoomEnds == phase = "live" ~> phase # "live"
=============================================================================
