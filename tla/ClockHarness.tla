---------------------------- MODULE ClockHarness ----------------------------
(***************************************************************************)
(* The adversarial harness of the conversation clock,                      *)
(* apps/web/lib/session-room-adversarial.ts: generators of hostile ticks,  *)
(* a shadow that derives from the product's rules what the clock owes the  *)
(* candidate, and checkers that compare that with what the reducer of      *)
(* SilenceClock did.  A step draws one tick, takes it through the reducer  *)
(* and the shadow, and records which invariants broke.                     *)
(* A turn of the interviewer is read by transcriptCarriesAsk; `put' tells  *)
(* whether it truly put a question.                                        *)
(***************************************************************************)
EXTENDS SilenceClock, SequencesExt

CONSTANTS
  TICK_S,       \* the ticker's nominal interval
  DT_CHOICES,   \* the lengths a ticker produces, the pathological ones included
  Turns         \* turns of the interviewer: records [put, turn]

ASSUME HarnessAssumption ==
  /\ TICK_S \in DT_CHOICES /\ DT_CHOICES \subseteq Nat \ {0}
  /\ TICK_S < Gap

VARIABLES
  generator,    \* the generator whose scenario is replayed
  last,         \* kind of the tick before, "start" before the first
  silence,      \* SilenceClockState
  shadow,       \* the spec-side model of a stretch and of a pending response
  put,          \* external: the turn that was heard last put a question
  nudged,       \* the last step asked Morgan for the turn he owes
  violations    \* the invariants the last step broke

vars == <<generator, last, silence, shadow, put, nudged, violations>>

-----------------------------------------------------------------------------
(* A turn is a sequence of sentences, a sentence its clauses and its last   *)
(* mark, a clause the sequence of its words, of which the kind is kept:     *)
(* "marker" (ASK_MARKERS), "question" and "directive" (the two stem lists), *)
(* or "word".                                                               *)
MaxPeeled == 3

QUESTION_OPENER_STEMS == {"question"}
DIRECTIVE_ASK_STEMS == {"directive"}
ASK_STEMS == QUESTION_OPENER_STEMS \cup DIRECTIVE_ASK_STEMS

Leading(clause) ==
  CHOOSE n \in 0 .. Len(clause) :
    /\ \A i \in 1 .. n : clause[i] = "marker"
    /\ n < Len(clause) => clause[n + 1] # "marker"

\* A sentence's words from the one a stem would have to match: it peels a run of
\* markers whatever punctuation stands between them.
askOpening(clause) ==
  LET peeled == IF Leading(clause) > MaxPeeled THEN MaxPeeled ELSE Leading(clause)
  IN SubSeq(clause, peeled + 1, Len(clause))

opensWithMarker(clause) == clause # <<>> /\ clause[1] = "marker"
openingMatches(opening, stems) == opening # <<>> /\ opening[1] \in stems

\* An imperative also asks at the head of the last clause, or of one that a
\* marker announces; a question's opener only at the head of the sentence.
sentenceIsAsk(sentence) ==
  \/ sentence.mark = "?"
  \/ openingMatches(askOpening(FlattenSeq(sentence.clauses)), ASK_STEMS)
  \/ \E i \in 2 .. Len(sentence.clauses) :
       /\ i = Len(sentence.clauses) \/ opensWithMarker(sentence.clauses[i])
       /\ openingMatches(askOpening(sentence.clauses[i]), DIRECTIVE_ASK_STEMS)

\* A turn in which nothing was said creates no obligation.
transcriptCarriesAsk(turn) == turn = <<>> \/ \E i \in DOMAIN turn : sentenceIsAsk(turn[i])

-----------------------------------------------------------------------------
(* Ticks, and the alphabets of the generators. *)
NoTurn == [put |-> FALSE, turn |-> <<>>]
Says(spoken) ==
  IF spoken = NoTurn THEN "none" ELSE IF transcriptCarriesAsk(spoken.turn) THEN "ask" ELSE "statement"

\* What holds of a tick, next to its length and to the turn heard in it.
Flags == {"candidate", "morgan", "commit", "done"}
tick(dtS, flags, spoken) ==
  [dtS |-> dtS, candidateAudible |-> "candidate" \in flags,
   interviewerAudible |-> "morgan" \in flags, commitArrived |-> "commit" \in flags,
   responseDone |-> "done" \in flags, elapsedS |-> 0,
   transcript |-> Says(spoken), put |-> spoken.put]

Sentence(mark, clauses) == [mark |-> mark, clauses |-> clauses]
Ready == [put |-> TRUE, turn |-> <<Sentence("?", <<<<"word">>>>)>>]
Continuing == [put |-> FALSE, turn |-> <<Sentence(".", <<<<"word">>>>)>>]

quietTick == tick(TICK_S, {}, NoTurn)
candidateTick == tick(TICK_S, {"candidate"}, NoTurn)
commitTick == tick(TICK_S, {"commit"}, NoTurn)

vadFlapping == {quietTick, candidateTick}

commitStorms ==
  {quietTick}
  \cup {tick(TICK_S, flags \cup {"commit"}, NoTurn) : flags \in SUBSET {"candidate", "morgan"}}

commitFlagNoise ==
  {tick(TICK_S, flags, w) : flags \in SUBSET (Flags \ {"morgan"}),
                            w \in {NoTurn, Ready, Continuing}}

\* Echo that dies with Morgan's audio, echo that outlives it, then quiet, which
\* may begin with a commit.
overlapPatterns ==
  {tick(TICK_S, flags \cup {"morgan"}, NoTurn) : flags \in SUBSET {"candidate"}}
  \cup (IF last \in {"start", "quiet"} THEN {} ELSE {candidateTick, commitTick})
  \cup (IF last = "start" THEN {} ELSE {quietTick})

dtSpikes ==
  {tick(dt, flags, w) : dt \in DT_CHOICES, flags \in SUBSET Flags,
                        w \in {NoTurn, Ready, Continuing}}

\* The goodbye, then overlap and commits after it.
Late(t) == [t EXCEPT !.elapsedS = ArmedAt]
closingPhases ==
  IF last = "start"
  THEN {[Late(quietTick) EXCEPT !.transcript = "closing"]}
  ELSE {Late(tick(TICK_S, flags, NoTurn)) : flags \in SUBSET (Flags \ {"done"})}

\* Everything at once, the closing apart: it would end the other checks.
soup == vadFlapping \cup commitStorms \cup commitFlagNoise \cup dtSpikes

\* Not of the harness: the turns that the planner's instructions produce.
spokenTurns ==
  {quietTick, candidateTick} \cup {tick(TICK_S, {"morgan", "done"}, w) : w \in Turns}

GENERATORS == {"vadFlapping", "commitStorms", "commitFlagNoise", "overlapPatterns",
               "closingPhases", "soup", "spokenTurns"}
generate(name) ==
  CASE name = "vadFlapping" -> vadFlapping
    [] name = "commitStorms" -> commitStorms
    [] name = "commitFlagNoise" -> commitFlagNoise
    [] name = "overlapPatterns" -> overlapPatterns
    [] name = "closingPhases" -> closingPhases
    [] name = "soup" -> soup
    [] name = "spokenTurns" -> spokenTurns

-----------------------------------------------------------------------------
(* checkTrace: the shadow.  Its counters stop where nothing reads them. *)
Shadow ==
  [quietS : 0 .. Top, episodeS : 0 .. Blip, stagesFired : 0 .. Len(Rungs), armed : BOOLEAN,
   quietSinceCommitS : 0 .. Debounce, closingQuietS : 0 .. Linger, endEffects : 0 .. 1]

freshShadow ==
  [quietS |-> 0, episodeS |-> 0, stagesFired |-> 0, armed |-> FALSE, quietSinceCommitS |-> 0,
   closingQuietS |-> 0, endEffects |-> 0]

classify(t) ==
  CASE t.dtS >= Gap -> "suspend"
    [] t.dtS < Gap /\ t.interviewerAudible -> "interviewer"
    [] t.dtS < Gap /\ ~t.interviewerAudible /\ t.candidateAudible -> "candidate"
    [] OTHER -> "quiet"

carriedCommit(t) == t.commitArrived /\ classify(t) # "suspend"

\* A finished turn hands the stretch over, unless a scaffold is open.
HandedOver(s, t) ==
  IF s.stagesFired = 0 /\ t.transcript # "none" THEN [s EXCEPT !.quietS = 0] ELSE s

\* A commit arms; the tick that carries it measures none of its debounce.
ShadowArmed(s, t) ==
  IF carriedCommit(t) THEN [s EXCEPT !.armed = TRUE, !.quietSinceCommitS = 0] ELSE s

ShadowEpisode(s, t) == AtMost(s.episodeS + t.dtS, Blip)
Advanced(s, t) ==
  CASE classify(t) = "suspend" -> freshShadow
    [] classify(t) = "interviewer" -> [s EXCEPT !.episodeS = 0]
    [] classify(t) = "candidate" ->
         [s EXCEPT !.episodeS = ShadowEpisode(s, t), !.armed = FALSE,
                   !.quietS = IF ShadowEpisode(s, t) >= Blip THEN 0 ELSE @,
                   !.stagesFired = IF ShadowEpisode(s, t) >= Blip THEN 0 ELSE @]
    [] classify(t) = "quiet" ->
         [s EXCEPT !.episodeS = 0, !.quietS = AtMost(@ + t.dtS, Top),
                   !.quietSinceCommitS =
                     IF s.armed /\ ~carriedCommit(t) THEN AtMost(@ + t.dtS, Debounce) ELSE @]

\* I7 and I8: after the goodbye nothing is asked for, and one end after its linger.
ClosingQuiet(s, t, before) ==
  CASE t.candidateAudible \/ t.interviewerAudible -> 0
    [] ~(t.candidateAudible \/ t.interviewerAudible) /\ t.dtS < Gap /\ ~before.interviewEnded ->
         AtMost(s.closingQuietS + t.dtS, Linger)
    [] OTHER -> s.closingQuietS
closingBroken(s, t, before, out) ==
  {v \in {"I7"} : out.speak \in {"stage", "response"}}
  \cup {v \in {"I8"} : out.end /\ (ClosingQuiet(s, t, before) < Linger \/ s.endEffects = 1)}

\* I1: a rung goes out on a quiet tick, in order, no sooner and no later than due.
Overdue(s, t, out) ==
  /\ classify(t) = "quiet" /\ out.speak \notin {"stage", "nudge"} /\ ~out.state.morganOwesSpeech
  /\ s.stagesFired < Len(Rungs) /\ s.quietS >= Rungs[s.stagesFired + 1]
stageBroken(s, t, out) ==
  {v \in {"I1"} :
     \/ Overdue(s, t, out)
     \/ /\ out.speak = "stage"
        /\ \/ classify(t) # "quiet"
           \/ out.state.stagesSent # s.stagesFired + 1
           \/ s.quietS < Rungs[out.state.stagesSent]}

\* I2: a response answers a commit, once, after its debounce; and none is left
\* unanswered past it.
Unanswered(s, t, out) ==
  /\ classify(t) = "quiet" /\ out.speak = "none"
  /\ s.armed /\ s.quietSinceCommitS >= Debounce
triggerBroken(s, t, out) ==
  {v \in {"I2"} :
     \/ Unanswered(s, t, out)
     \/ /\ out.speak = "response"
        /\ ~s.armed \/ s.quietSinceCommitS < Debounce \/ classify(t) # "quiet"}

\* What the shadow keeps once the tick's effects are known.
Settled(s, t, out) ==
  [s EXCEPT !.stagesFired = IF out.speak = "stage" \/ Overdue(s, t, out) THEN AtMost(@ + 1, Len(Rungs)) ELSE @,
            !.armed = @ /\ out.speak = "none" /\ ~Unanswered(s, t, out)]

Followed(s, t) == Advanced(ShadowArmed(HandedOver(s, t), t), t)

ShadowAfter(s, t, before, out) ==
  IF out.state.closingSeen
  THEN [s EXCEPT !.closingQuietS = ClosingQuiet(s, t, before),
                 !.endEffects = IF out.end THEN 1 ELSE @]
  ELSE Settled(Followed(s, t), t, out)

checkTrace(s, t, before, out) ==
  IF out.state.closingSeen THEN closingBroken(s, t, before, out)
  ELSE stageBroken(Followed(s, t), t, out) \cup triggerBroken(Followed(s, t), t, out)

\* checkPerTick: one tick asks for at most one turn, never over anyone who is
\* audible (I2 to I4), a gap leaves the clock fresh (I5), and its bounds (I6).
checkPerTick(t, before, out) ==
  LET acted == out.speak # "none"
      after == out.state
  IN {v \in {"I2"} : out.cancel /\ acted}
     \cup {v \in {"I3"} : t.candidateAudible /\ acted}
     \cup {v \in {"I4"} : t.interviewerAudible /\ (acted \/ after.responseInFlight)}
     \cup {v \in {"I5"} : t.dtS >= Gap /\ ~after.closingSeen
                          /\ (acted \/ after.quietS # 0 \/ after.episodeS # 0
                              \/ after.stagesSent # 0 \/ after.responseDueInS # 0)}
     \cup {v \in {"I6"} : after \notin SilenceClockState}

-----------------------------------------------------------------------------
Init ==
  /\ generator \in GENERATORS
  /\ last = "start"
  /\ silence = InitialSilence /\ shadow = freshShadow
  /\ put = TRUE /\ nudged = FALSE /\ violations = {}

\* runScenario and checkInvariants, one tick.
Replay ==
  \E t \in generate(generator) :
    LET out == nextSilenceState(silence, t)
    IN /\ silence' = out.state
       /\ shadow' = ShadowAfter(shadow, t, silence, out)
       /\ violations' = checkPerTick(t, silence, out) \cup checkTrace(shadow, t, silence, out)
       /\ put' = IF TurnEnds(silence, t) THEN t.put ELSE put
       /\ nudged' = (out.speak = "nudge")
       /\ last' = IF generator \in {"overlapPatterns", "closingPhases"} THEN classify(t) ELSE last
       /\ UNCHANGED generator

Next == Replay
Spec == Init /\ [][Next]_vars

-----------------------------------------------------------------------------
(* Properties. *)
TypeOK ==
  /\ generator \in GENERATORS
  /\ last \in {"start", "suspend", "interviewer", "candidate", "quiet"}
  /\ silence \in SilenceClockState /\ shadow \in Shadow
  /\ put \in BOOLEAN /\ nudged \in BOOLEAN
  /\ violations \subseteq {"I1", "I2", "I3", "I4", "I5", "I6", "I7", "I8"}

\* Whatever the ticks, the clock pays the candidate what the shadow says it owes:
\* every rung in its order and when due, a response to each commit after its
\* debounce and to nothing else, no word over anyone, nothing after the goodbye
\* but one end, and a fresh clock after a gap.
HarnessIsClean == violations = {}

\* A candidate who was asked something is never hurried by the fuse of a turn the
\* interviewer owes: the ladder's longer first rung is his.
QuestionIsNotNudged == nudged => ~put

\* The clock owes nothing and hurries nobody (session-room-adversarial.ts, transcriptCarriesAsk).
ClockIsFair == HarnessIsClean /\ QuestionIsNotNudged
=============================================================================
