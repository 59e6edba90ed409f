------------------------------ MODULE RoomVoice ------------------------------
(***************************************************************************)
(* The ears of the interview room: what components/SessionRoom.tsx makes   *)
(* of the data channel's frames and of the two level meters while it is    *)
(* live, with the pure helpers of lib/session-room.ts and                  *)
(* lib/echo-correlation.ts.  The room must tell the interviewer's own      *)
(* voice, leaked from the speakers into the microphone, from the           *)
(* candidate's; it raises the server's VAD threshold while he is heard,    *)
(* and cuts him off when the candidate barges in.                          *)
(* Time is counted in ticks of TickMs; frames arrive between two ticks.    *)
(***************************************************************************)
EXTENDS Integers, Sequences

\* All positive numbers.
CONSTANTS
  TickMs,                   \* the ticker's interval
  ECHO_START_WINDOW_MS, ECHO_OUTLIVE_MS, BARGE_SUSTAIN_MS, PLAYBACK_GATE_HANGOVER_MS,
  SUSPEND_GAP_MS,           \* SUSPEND_GAP_S, a tick as long measured nothing
  MIN_PAIRED_SAMPLES,       \* fewer samples correlate with nothing
  VadTail,                  \* external: ticks from the end of a sound to its commit
  EchoTail                  \* external: ticks a leaked sound outlasts its source

-----------------------------------------------------------------------------
(* Frames: whether it is JSON of an object, its type, its item id.         *)
Frame(type) == [object |-> TRUE, type |-> type, id |-> "none"]
Committed(id) == [Frame("input_audio_buffer.committed") EXCEPT !.id = id]

\* Frames that should never come: cut off, scalar, without a type of ours.
hostileWirePayloads ==
  {[object |-> FALSE, type |-> "none", id |-> "none"], Frame("none"), Frame("error")}

TypeOf(f) == IF f.object THEN f.type ELSE "none"

speechStateForEvent(f) ==
  CASE TypeOf(f) = "input_audio_buffer.speech_started" -> "started"
    [] TypeOf(f) = "input_audio_buffer.speech_stopped" -> "stopped"
    [] TypeOf(f) = "input_audio_buffer.committed" -> "committed"
    [] OTHER -> "none"

interviewerStateForEvent(f) ==
  CASE TypeOf(f) = "output_audio_buffer.started" -> "speaking"
    [] TypeOf(f) \in {"output_audio_buffer.stopped", "output_audio_buffer.cleared"} -> "quiet"
    [] OTHER -> "none"

HasItemId(f) == speechStateForEvent(f) = "committed" /\ f.id = "string"

-----------------------------------------------------------------------------
VARIABLES
  since,       \* ticks since the last one that heard Morgan, lastMorganAudibleAtRef
  ears,        \* the refs the message handler writes
  barge,       \* bargeActiveRef: ticks since its episode began, 0 when null
  gate,        \* gateStateRef
  sent,        \* what this step sent to the server
  playing,     \* external: Morgan's audio comes from the speakers
  stoppedFor,  \* external: ticks since it stopped
  signals,     \* external: which of the two signs of it work on this transport
  episode,     \* external: what the server's VAD is hearing
  threshold,   \* external: the threshold the server applies
  verdict      \* what became of the last commit

vars == <<since, ears, barge, gate, sent, playing, stoppedFor, signals, episode, threshold, verdict>>
world == <<playing, stoppedFor, signals, episode, threshold>>

\* Past this many ticks nothing is told apart.
Horizon == 1 + ECHO_OUTLIVE_MS \div TickMs
Upto(n) == IF n > Horizon THEN Horizon ELSE n

\* A frame comes somewhere inside the tick that follows the n-th.
MayBeBelow(n, ms) == n * TickMs < ms
MayReach(n, ms) == (n + 1) * TickMs > ms

Silence == [kind |-> "none", fading |-> FALSE, quietFor |-> 0, apart |-> FALSE]
INITIAL_GATE_STATE == [applied |-> "resting", hangover |-> 0]

Init ==
  /\ since = Horizon
  /\ ears = [candidate |-> FALSE, morgan |-> FALSE, suspect |-> FALSE]
  /\ barge = 0 /\ gate = INITIAL_GATE_STATE /\ sent = {}
  /\ playing = FALSE /\ stoppedFor = Horizon
  /\ signals \in {{"events"}, {"analyser"}, {"events", "analyser"}}
  /\ episode = Silence /\ threshold = "resting"
  /\ verdict = [kind |-> "none", counted |-> FALSE, purged |-> FALSE, clear |-> FALSE]

-----------------------------------------------------------------------------
(* The message handler. *)

\* A candidate episode that starts while Morgan is, or was just, audible may be
\* his own voice; and while the events say he speaks it may be a barge-in.
Started ==
  /\ ears' \in {[ears EXCEPT !.candidate = TRUE, !.suspect = s] :
                 s \in {b \in BOOLEAN : IF b THEN MayBeBelow(since, ECHO_START_WINDOW_MS)
                                        ELSE MayReach(since, ECHO_START_WINDOW_MS)}}
  /\ barge' = IF ears.morgan THEN 1 ELSE barge
  /\ UNCHANGED <<sent, verdict>>

Stopped(then) == [then EXCEPT !.candidate = FALSE]

\* A suspect episode is an answer only if it outlived Morgan's audio.
Counts(outlived) == ~ears.suspect \/ outlived

\* The frames "stopped" and "committed" of one episode; what is suppressed is
\* deleted from the conversation, when the frame names its item.
StoppedAndCommitted(f) ==
  \E outlived \in {b \in BOOLEAN : IF b THEN MayReach(since, ECHO_OUTLIVE_MS)
                                   ELSE MayBeBelow(since, ECHO_OUTLIVE_MS)} :
    /\ ears' = Stopped(ears)
    /\ verdict' = [kind |-> episode.kind, counted |-> Counts(outlived),
                   purged |-> ~Counts(outlived) /\ HasItemId(f),
                   clear |-> episode.apart \/ ~MayBeBelow(since, ECHO_OUTLIVE_MS)]
    /\ sent' = {m \in {"item.delete"} : ~Counts(outlived) /\ HasItemId(f)}
    /\ UNCHANGED barge

\* Morgan's own frames, and every frame that is none of these.
MorganFrame(f) ==
  /\ speechStateForEvent(f) = "none"
  /\ ears' = [ears EXCEPT !.morgan = CASE interviewerStateForEvent(f) = "speaking" -> TRUE
                                       [] interviewerStateForEvent(f) = "quiet" -> FALSE
                                       [] OTHER -> @]
  /\ UNCHANGED <<barge, sent, verdict>>

-----------------------------------------------------------------------------
(* The room, external: playback, leaks and speech, as the frames tell them. *)
PlaybackStarts ==
  /\ ~playing
  /\ playing' = TRUE /\ stoppedFor' = 0
  /\ IF "events" \in signals THEN MorganFrame(Frame("output_audio_buffer.started"))
     ELSE UNCHANGED <<ears, barge, sent, verdict>>
  /\ UNCHANGED <<since, gate, signals, episode, threshold>>

\* No turn of his is shorter than a tick.
PlaybackStops ==
  /\ playing /\ since = 0
  /\ playing' = FALSE /\ stoppedFor' = 0
  /\ IF "events" \in signals
     THEN \E type \in {"output_audio_buffer.stopped", "output_audio_buffer.cleared"} :
            MorganFrame(Frame(type))
     ELSE UNCHANGED <<ears, barge, sent, verdict>>
  /\ UNCHANGED <<since, gate, signals, episode, threshold>>

\* An echo starts from audio that the last tick heard; speech starts any time.
EpisodeStarts(kind) ==
  /\ episode.kind = "none"
  /\ kind = "echo" => playing /\ since = 0
  /\ episode' = [Silence EXCEPT !.kind = kind, !.apart = ~MayBeBelow(since, ECHO_START_WINDOW_MS)]
  /\ Started
  /\ UNCHANGED <<since, gate, playing, stoppedFor, signals, threshold>>

\* The candidate speaks up while the detector still follows an echo.
EchoIsJoined ==
  /\ episode.kind = "echo"
  /\ episode' = [episode EXCEPT !.kind = "speech", !.fading = FALSE, !.quietFor = 0]
  /\ UNCHANGED <<since, ears, barge, gate, sent, playing, stoppedFor, signals, threshold, verdict>>

SoundEnds ==
  /\ episode.kind # "none" /\ ~episode.fading
  /\ episode' = [episode EXCEPT !.fading = TRUE]
  /\ UNCHANGED <<since, ears, barge, gate, sent, playing, stoppedFor, signals, threshold, verdict>>

EpisodeCommits ==
  /\ episode.fading /\ episode.quietFor >= VadTail - 1
  /\ episode' = Silence
  /\ StoppedAndCommitted(Committed("string"))
  /\ UNCHANGED <<since, gate, playing, stoppedFor, signals, threshold>>

Noise ==
  /\ \E f \in hostileWirePayloads : MorganFrame(f)
  /\ UNCHANGED <<since, gate, world>>

-----------------------------------------------------------------------------
(* The ticker. *)

\* echoCorrVerdict: too short a window correlates with nothing.  External: a
\* longer one never takes an echo for speech.
echoCorrVerdict(n) ==
  CASE n < MIN_PAIRED_SAMPLES -> {"indeterminate"}
    [] n >= MIN_PAIRED_SAMPLES /\ episode.kind = "echo" -> {"echo"}
    [] OTHER -> {"echo", "speech", "indeterminate"}

\* Sustained, three times as loud as the leak, and no echo by its shape.
bargeCutDecision(sustained, loud, corr) == sustained /\ loud /\ corr # "echo"

\* nextGateState.
nextGateState(audible, dt) ==
  CASE audible ->
         [state |-> [applied |-> "gated", hangover |-> PLAYBACK_GATE_HANGOVER_MS],
          effect |-> {m \in {"raise"} : gate.applied = "resting"}]
    [] ~audible /\ gate.applied = "resting" -> [state |-> gate, effect |-> {}]
    [] ~audible /\ gate.applied = "gated"
         /\ (dt * TickMs >= SUSPEND_GAP_MS \/ gate.hangover <= dt * TickMs) ->
         [state |-> INITIAL_GATE_STATE, effect |-> {"restore"}]
    [] OTHER -> [state |-> [gate EXCEPT !.hangover = @ - dt * TickMs], effect |-> {}]

\* The analyser hears Morgan, or misses a pause of his that the events bridge.
Analysed ==
  IF "analyser" \notin signals THEN {FALSE}
  ELSE IF playing /\ "events" \in signals THEN BOOLEAN
  ELSE {playing}

\* The barge episode, `barge' ticks after it began.
BargeStep(audible, dt) ==
  IF barge = 0 THEN barge' = 0 /\ sent' = {}
  ELSE IF ~(ears.candidate /\ audible) THEN barge' = 0 /\ sent' = {}
  ELSE \E corr \in echoCorrVerdict(barge), loud \in BOOLEAN :
         LET cut == bargeCutDecision((barge - 1 + dt - 1) * TickMs >= BARGE_SUSTAIN_MS, loud, corr)
         IN /\ sent' = {m \in {"clear"} : cut}
            /\ barge' = IF cut THEN 0 ELSE Upto(barge + dt)

\* How far the world moves while a tick lasts: an echo dies with its source.
Moved(dt) ==
  /\ episode.kind = "echo" /\ ~playing /\ stoppedFor + dt > EchoTail => episode.fading
  /\ episode.fading => episode.quietFor + dt <= VadTail
  /\ episode' = IF episode.kind = "none" THEN episode
                ELSE [episode EXCEPT !.quietFor = IF episode.fading THEN @ + dt ELSE 0]
  /\ stoppedFor' = IF playing THEN 0 ELSE Upto(stoppedFor + dt)

Tick(dt) ==
  \E heard \in Analysed :
    LET audible == heard \/ ears.morgan
        out == nextGateState(audible, dt)
    IN /\ since' = IF audible THEN 0 ELSE Upto(since + dt)
       /\ BargeStep(audible, dt)
       /\ gate' = out.state
       /\ threshold' = IF "raise" \in out.effect THEN "gated"
                       ELSE IF "restore" \in out.effect THEN "resting" ELSE threshold
       /\ Moved(dt)
       /\ UNCHANGED <<ears, playing, signals, verdict>>

Next ==
  \/ PlaybackStarts \/ PlaybackStops
  \/ \E kind \in {"echo", "speech"} : EpisodeStarts(kind)
  \/ EchoIsJoined \/ SoundEnds \/ EpisodeCommits \/ Noise
  \/ Tick(1) \/ (episode.kind = "none" /\ Tick(SUSPEND_GAP_MS \div TickMs))

Spec == Init /\ [][Next]_vars

-----------------------------------------------------------------------------
(* Properties. *)

\* An echo is never taken for an answer, and its item leaves the conversation; an
\* answer that starts clear of Morgan's voice, or ends clear of it, is never taken
\* for an echo and deleted.
EchoesAreTold ==
  /\ verdict.kind = "echo" => ~verdict.counted /\ verdict.purged
  /\ verdict.kind = "speech" /\ verdict.clear => verdict.counted /\ ~verdict.purged

\* The server's threshold is raised from the first tick that hears Morgan until
\* his hangover is over, also across a suspended tab, and is never left raised.
GateTracks ==
  /\ threshold = gate.applied
  /\ gate.applied = "gated" <=> since * TickMs < PLAYBACK_GATE_HANGOVER_MS

\* Morgan is cut off by the candidate, never by the echo of his own voice.
CutIsSpeech == "clear" \in sent => episode.kind = "speech"

\* The room tells its own voice from the candidate's.
EarsAreRight == EchoesAreTold /\ GateTracks /\ CutIsSpeech
=============================================================================
