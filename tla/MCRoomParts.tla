----------------------------- MODULE MCRoomParts -----------------------------
(* The parts of the interview room beside InterviewRoom, one per behaviour:  *)
(* `part' says which one moves, the others stay in one initial state.        *)
(* The clock of the harness counts quarters of a second.                     *)
EXTENDS ClockHarness

CONSTANTS
  TickMs, ECHO_START_WINDOW_MS, ECHO_OUTLIVE_MS, BARGE_SUSTAIN_MS, PLAYBACK_GATE_HANGOVER_MS,
  SUSPEND_GAP_MS, MIN_PAIRED_SAMPLES, VadTail, EchoTail,
  Attempts, secret_mint_cap, None,
  DIAG_CAPACITY, Beats, MaxEntries, MaxNow,
  Widgets

VARIABLES
  part,
  since, ears, barge, gate, sent, playing, stoppedFor, signals, episode, threshold, verdict,
  tab, world, permission, page, phase, error, refs, at, stream, recorder, peer, minted, refused,
  now, recorded, ring, cursor, live, ended, beat, column, trimmed, carriedTo, overwritten,
  micPermission, blocked, answers, shown, gone, kind, scope, held, watching

Voice == INSTANCE RoomVoice
Entry == INSTANCE RoomEntry
Trail == INSTANCE RoomTrail
Mic == INSTANCE MicCheck WITH permission <- micPermission

voiceVars == <<since, ears, barge, gate, sent, playing, stoppedFor, signals, episode, threshold,
               verdict>>
entryVars == <<tab, world, permission, page, phase, error, refs, at, stream, recorder, peer,
               minted, refused>>
trailVars == <<now, recorded, ring, cursor, live, ended, beat, column, trimmed, carriedTo,
               overwritten>>
micVars == <<micPermission, blocked, answers, shown, gone, kind, scope, held, watching>>
partsVars == <<part, vars, voiceVars, entryVars, trailVars, micVars>>

PartsInit ==
  /\ part \in {"clock", "voice", "entry", "trail", "mic"}
  /\ Init /\ (part # "clock" => generator = "soup")
  /\ Voice!Init /\ (part # "voice" => signals = {"events"})
  /\ Entry!Init
  /\ part # "entry" => /\ tab = [has |-> {"calls"}, unscored |-> TRUE, muted |-> FALSE]
                       /\ permission = "prompt"
  /\ Trail!Init
  /\ Mic!Init /\ (part # "mic" => micPermission = "prompt" /\ ~blocked /\ ~answers)

InEntry(A) ==
  part = "entry" /\ A /\ UNCHANGED <<part, vars, voiceVars, trailVars, micVars>>

PartsNext ==
  \/ part = "clock" /\ Next /\ UNCHANGED <<part, voiceVars, entryVars, trailVars, micVars>>
  \/ part = "voice" /\ Voice!Next /\ UNCHANGED <<part, vars, entryVars, trailVars, micVars>>
  \/ InEntry(Entry!Next)
  \/ part = "trail" /\ Trail!Next /\ UNCHANGED <<part, vars, voiceVars, entryVars, micVars>>
  \/ part = "mic" /\ Mic!Next /\ UNCHANGED <<part, vars, voiceVars, entryVars, trailVars>>

\* Entry!FairSpec's fairness.
PartsSpec ==
  /\ PartsInit /\ [][PartsNext]_partsVars
  /\ WF_partsVars(InEntry(Entry!Load))
  /\ \A a \in Attempts : WF_partsVars(InEntry(Entry!Answered(a)))

-----------------------------------------------------------------------------
\* What the parts assume of their constants; of the turns, that none that puts a
\* question is read as a statement.
ASSUME TurnsAreRead ==
  \A spoken \in Turns : spoken.put \in BOOLEAN /\ (spoken.put => transcriptCarriesAsk(spoken.turn))
ASSUME EntryConstants == None \notin Attempts /\ secret_mint_cap \in Nat
ASSUME TrailConstants == DIAG_CAPACITY \in Nat
\* The windows outlast the ticks they are measured in, and a short window of
\* samples is no sustained barge-in.
ASSUME VoiceConstants ==
  /\ \A n \in {TickMs, ECHO_START_WINDOW_MS, ECHO_OUTLIVE_MS, BARGE_SUSTAIN_MS,
              PLAYBACK_GATE_HANGOVER_MS, SUSPEND_GAP_MS, MIN_PAIRED_SAMPLES, VadTail, EchoTail} :
       n \in Nat \ {0}
  /\ TickMs <= ECHO_START_WINDOW_MS
  /\ (EchoTail + VadTail + 1) * TickMs <= ECHO_OUTLIVE_MS
  /\ PLAYBACK_GATE_HANGOVER_MS <= SUSPEND_GAP_MS /\ PLAYBACK_GATE_HANGOVER_MS <= ECHO_OUTLIVE_MS
  /\ (MIN_PAIRED_SAMPLES - 2) * TickMs < BARGE_SUSTAIN_MS

-----------------------------------------------------------------------------
\* The rungs of the ladder lie closer together than 8, 15 and 30 seconds.
MCRungs == <<20, 32, 44>>
MCDts == {1, 4, 8}
MCAttempts == 1 .. 3

Clause(first) == <<first, "word">>
Said(clauses) == Sentence(".", clauses)
Asks(sentences) == [put |-> TRUE, turn |-> sentences]
Tells(sentences) == [put |-> FALSE, turn |-> sentences]

\* The planner's shapes: a reaction and the ask, an ask in a middle clause, an
\* interest clause after the question, a bare opener, two markers; and a list
\* that names a stem, or a question's opener, on the way to its end.
MCTurns ==
  {Asks(<<Said(<<Clause("word")>>), Said(<<<<"marker">>, Clause("directive")>>)>>),
   Asks(<<Said(<<Clause("word"), <<"marker", "directive", "word">>, Clause("word")>>)>>),
   Asks(<<Sentence("?", <<Clause("question")>>), Said(<<Clause("word")>>)>>),
   Asks(<<Said(<<Clause("question")>>)>>),
   Asks(<<Said(<<<<"marker", "marker", "directive", "word">>>>)>>),
   Tells(<<Said(<<Clause("word"), Clause("directive"), Clause("marker")>>)>>),
   Tells(<<Said(<<Clause("word"), Clause("question"), Clause("marker")>>)>>)}

-----------------------------------------------------------------------------
(* What the run checks; each is stated with its part. *)
\* What the clock tells the candidate is true of the silence they kept, and the room
\* tells its own voice from theirs (ClockHarness, RoomVoice).
RoomListens == ClockIsFair /\ Voice!EarsAreRight
\* A room is live with one call, one microphone, one recorder, or has none; a refused
\* tab reloads to a screen that says why (RoomEntry); and the microphone check that
\* comes before asks for nothing off its screen (MicCheck).
EntryIsSound ==
  /\ [](Entry!EntryIsSound /\ Entry!ReloadLands)
  /\ [][Mic!StepOnScreen]_micVars
\* No start hangs (RoomEntry).
EntryEnds == Entry!EntryEnds
\* The diagnostics trail has no holes but the known ones (RoomTrail).
HolesAreKnown == Trail!HolesAreKnown
=============================================================================
