---------------------------- MODULE SilenceClock ----------------------------
(***************************************************************************)
(* The client-owned conversation clock of apps/web/lib/session-room.ts: a  *)
(* pure reducer, nextSilenceState, and the figures it compares with.  The  *)
(* interview room ticks it, and the adversarial harness of                 *)
(* lib/session-room-adversarial.ts replays hostile ticks against it.       *)
(***************************************************************************)
EXTENDS Integers, Sequences

CONSTANTS
  Gap,          \* SUSPEND_GAP_S: a tick this long measured no silence
  Debounce,     \* RESPONSE_DEBOUNCE_S
  Blip,         \* STALL_BLIP_MAX_S
  Linger,       \* CLOSING_LINGER_S
  Nudge,        \* TURN_NUDGE_S
  Rungs         \* SILENCE_STAGES and GREETING_STAGES, their `at'

Top == Rungs[Len(Rungs)]

ASSUME FiguresAssumption == \A n \in {Gap, Debounce, Blip, Linger, Nudge} : n \in Nat \ {0}
\* The fuse burns out, and a rung is passed, before the next rung can be
\* reached by one more tick that is no gap.
ASSUME RungsAssumption ==
  /\ Rungs \in Seq(Nat) /\ Len(Rungs) > 0
  /\ Nudge + Gap <= Rungs[1]
  /\ \A i, j \in 1 .. Len(Rungs) : i < j => Rungs[i] + Gap <= Rungs[j]

-----------------------------------------------------------------------------
(* The interview clock, in seconds. *)
SESSION_BUDGET_S == 20 * 60
HARD_CUT_S == 25 * 60
QUICK_SESSION_BUDGET_S == 5 * 60
QUICK_HARD_CUT_S == 8 * 60

BudgetOf(kind) == IF kind = "quick" THEN QUICK_SESSION_BUDGET_S ELSE SESSION_BUDGET_S
HardCutOf(kind) == IF kind = "quick" THEN QUICK_HARD_CUT_S ELSE HARD_CUT_S

closingArmedAt(budgetS) == budgetS - 120
ArmedAt == closingArmedAt(SESSION_BUDGET_S)  \* the reducer passes no budget

timeStatusCheckpoints(budgetS) ==
  LET steerAt == (3 * budgetS + 2) \div 4
      wrapUpAt == closingArmedAt(budgetS)
  IN (IF steerAt < wrapUpAt THEN <<steerAt>> ELSE <<>>) \o <<wrapUpAt>>

-----------------------------------------------------------------------------
(* nextSilenceState.  responseDueInS = 0 stands for null; quietS stops      *)
(* counting at the last rung, past which nothing reads it.                 *)
SilenceClockState ==
  [quietS : 0 .. Top, episodeS : 0 .. Blip, stagesSent : 0 .. Len(Rungs),
   responseDueInS : 0 .. Debounce, responseInFlight : BOOLEAN,
   morganOwesSpeech : BOOLEAN, closingSeen : BOOLEAN,
   closingQuietS : 0 .. Linger, interviewEnded : BOOLEAN]

InitialSilence ==
  [quietS |-> 0, episodeS |-> 0, stagesSent |-> 0, responseDueInS |-> 0,
   responseInFlight |-> FALSE, morganOwesSpeech |-> FALSE,
   closingSeen |-> FALSE, closingQuietS |-> 0, interviewEnded |-> FALSE]

AtMost(n, bound) == IF n > bound THEN bound ELSE n

\* A step of the reducer: its next state and what it asks the wiring to do.
Effects(s, speak, cancel, end) == [state |-> s, speak |-> speak, cancel |-> cancel, end |-> end]
Silently(s) == Effects(s, "none", FALSE, FALSE)

\* Wrong variant: the closing is looked for afresh on each tick.
ClosesNow(s, t) == t.elapsedS >= ArmedAt /\ t.transcript = "closing"

\* The closing line counts only when armed, and for good.
Closes(s, t) == s.closingSeen \/ (t.elapsedS >= ArmedAt /\ t.transcript = "closing")

\* Wrong variant: a scaffold's own transcript restarts the stretch it was sent for.
AnyTurnEnds(s, t) == ~Closes(s, t) /\ t.transcript \in {"ask", "statement", "closing"}

\* Morgan finished a turn of his own: not the closing, nor a scaffold's words.
TurnEnds(s, t) ==
  ~Closes(s, t) /\ s.stagesSent = 0 /\ t.transcript \in {"ask", "statement", "closing"}

Owes(s, t) == IF TurnEnds(s, t) THEN t.transcript # "ask" ELSE s.morganOwesSpeech
QuietSoFar(s, t) == IF TurnEnds(s, t) THEN 0 ELSE s.quietS
Cancelable(s, t) == s.responseInFlight /\ ~t.interviewerAudible /\ ~t.responseDone

\* What a finished transcript and a finished response change, before anything.
TakenIn(s, t) ==
  [s EXCEPT !.responseInFlight = Cancelable(s, t), !.closingSeen = Closes(s, t),
            !.morganOwesSpeech = Owes(s, t), !.quietS = QuietSoFar(s, t)]

\* After the goodbye: wait out its linger, and end once.
Lingered(s, t) == AtMost(s.closingQuietS + t.dtS, Linger)
Closing(s, t) ==
  LET c == [s EXCEPT !.responseDueInS = 0]
      ends == Lingered(s, t) >= Linger
  IN IF t.candidateAudible \/ t.interviewerAudible
     THEN Silently([c EXCEPT !.closingQuietS = 0])
     ELSE IF t.dtS >= Gap \/ s.interviewEnded
     THEN Silently(c)
     ELSE Effects([c EXCEPT !.closingQuietS = Lingered(s, t), !.interviewEnded = ends],
                  "none", FALSE, ends)

\* Back from a gap: a fresh stretch, and whatever was armed is dropped.
Resumed(s) ==
  Silently([s EXCEPT !.quietS = 0, !.episodeS = 0, !.stagesSent = 0,
                     !.responseDueInS = 0, !.responseInFlight = FALSE])

\* Wrong variant: a second commit prolongs the wait instead of restarting it.
Prolonged(s, t) ==
  IF t.commitArrived THEN [s EXCEPT !.responseDueInS = @ + Debounce] ELSE s

\* Every commit arms a debounced response.
Armed(s, t) ==
  IF t.commitArrived THEN [s EXCEPT !.responseDueInS = Debounce] ELSE s

\* Candidate speech disarms it; speech longer than a blip ends the stretch.
Episode(s, t) == AtMost(s.episodeS + t.dtS, Blip)
CandidateHeard(s, t) ==
  LET c == [s EXCEPT !.responseInFlight = FALSE, !.responseDueInS = 0,
                     !.episodeS = Episode(s, t)]
  IN Effects(IF Episode(s, t) >= Blip THEN [c EXCEPT !.quietS = 0, !.stagesSent = 0] ELSE c,
             "none", s.responseInFlight, FALSE)

\* Quiet: the fuse of an owed turn, a rung of the ladder, or the armed response
\* speaks, and whichever does takes the place of those behind it.
Quiet(s, t) == AtMost(s.quietS + t.dtS, Top)
Nudges(s, t) == s.morganOwesSpeech /\ Quiet(s, t) >= Nudge
Climbs(s, t) ==
  /\ ~s.morganOwesSpeech
  /\ s.stagesSent < Len(Rungs)
  /\ Quiet(s, t) >= Rungs[s.stagesSent + 1]
Counts(s, t) == s.responseDueInS > 0 /\ ~t.commitArrived
Answers(s, t) == Counts(s, t) /\ s.responseDueInS <= t.dtS
RoomQuiet(s, t) ==
  LET q == [s EXCEPT !.episodeS = 0, !.quietS = Quiet(s, t)]
      spoken == [q EXCEPT !.responseDueInS = 0, !.responseInFlight = TRUE]
  IN CASE Nudges(s, t) -> Effects([spoken EXCEPT !.morganOwesSpeech = FALSE], "nudge", FALSE, FALSE)
       [] Climbs(s, t) -> Effects([spoken EXCEPT !.stagesSent = @ + 1], "stage", FALSE, FALSE)
       [] ~Nudges(s, t) /\ ~Climbs(s, t) /\ Answers(s, t) -> Effects(spoken, "response", FALSE, FALSE)
       [] ~Nudges(s, t) /\ ~Climbs(s, t) /\ ~Answers(s, t) ->
            Silently(IF Counts(s, t) THEN [q EXCEPT !.responseDueInS = @ - t.dtS] ELSE q)

nextSilenceState(s, t) ==
  LET taken == TakenIn(s, t)
      armed == Armed(taken, t)
      gap == t.dtS >= Gap
  IN CASE taken.closingSeen -> Closing(taken, t)
       [] ~taken.closingSeen /\ gap -> Resumed(taken)
       [] ~taken.closingSeen /\ ~gap /\ t.interviewerAudible ->
            Silently([armed EXCEPT !.episodeS = 0])
       [] ~taken.closingSeen /\ ~gap /\ ~t.interviewerAudible /\ t.candidateAudible ->
            CandidateHeard(armed, t)
       [] ~taken.closingSeen /\ ~gap /\ ~t.interviewerAudible /\ ~t.candidateAudible ->
            RoomQuiet(armed, t)
=============================================================================
