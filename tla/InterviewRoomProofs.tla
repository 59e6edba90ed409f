------------------------ MODULE InterviewRoomProofs ------------------------
(***************************************************************************)
(* Proofs about InterviewRoom, for every choice of the reducers' constants *)
(* that keeps the rungs apart and every traffic a well server can produce. *)
(***************************************************************************)
EXTENDS InterviewRoom, TLAPS

----------------------------------------------------------------------------
(* The silence clock. *)

\* The figures the reducers compare with are numbers, and positive.
LEMMA Figures ==
  /\ Gap \in Nat /\ Debounce \in Nat /\ Blip \in Nat /\ Linger \in Nat
  /\ Nudge \in Nat /\ Grace \in Nat /\ Starve \in Nat
  BY TicksAssumption, FiguresAssumption

LEMMA FiguresPositive == Gap > 0 /\ Nudge > 0 /\ Grace > 0 /\ Starve > 0
  BY TicksAssumption, FiguresAssumption

\* The ladder climbs, from above the fuse.
LEMMA LadderClimbs ==
  /\ Len(Rungs) \in Nat \ {0} /\ Top \in Nat
  /\ \A i \in 1 .. Len(Rungs) : Rungs[i] \in Nat /\ Rungs[i] <= Top
  /\ \A i \in 1 .. Len(Rungs) : Nudge + Gap <= Rungs[i]
  <1>1. /\ Len(Rungs) \in Nat \ {0}
        /\ \A i \in 1 .. Len(Rungs) : Rungs[i] \in Nat
    BY RungsAssumption
  <1>2. Gap \in Nat /\ Nudge \in Nat
    BY Figures
  <1>3. ASSUME NEW i \in 1 .. Len(Rungs) PROVE Rungs[i] <= Rungs[Len(Rungs)]
    BY <1>1, <1>2, RungsAssumption
  <1>4. ASSUME NEW i \in 1 .. Len(Rungs) PROVE Nudge + Gap <= Rungs[i]
    BY <1>1, <1>2, RungsAssumption
  <1>5. QED BY <1>1, <1>3, <1>4 DEF Top

\* Every counter of the clock can be reset.
LEMMA Zeros ==
  /\ 0 \in 0 .. Top /\ 0 \in 0 .. Len(Rungs) /\ 0 \in 0 .. Blip
  /\ 0 \in 0 .. Debounce /\ 0 \in 0 .. Linger
  BY LadderClimbs, Figures

\* The state an outcome carries.
LEMMA EffectsState ==
  /\ \A s, speak, cancel, end : Effects(s, speak, cancel, end).state = s
  /\ \A s : Silently(s).state = s
  BY DEF Silently, Effects

\* Taking in the events keeps the clock's types.
LEMMA TakenTypes ==
  ASSUME NEW s \in SilenceClockState, NEW t, t.interviewerAudible \in BOOLEAN,
         t.responseDone \in BOOLEAN
  PROVE  TakenIn(s, t) \in SilenceClockState
  <1>1. Cancelable(s, t) \in BOOLEAN
    BY DEF Cancelable, SilenceClockState
  <1>2. Closes(s, t) \in BOOLEAN
    BY DEF Closes, SilenceClockState
  <1>3. Owes(s, t) \in BOOLEAN
    BY DEF Owes, SilenceClockState
  <1>4. QuietSoFar(s, t) \in 0 .. Top
    BY LadderClimbs DEF QuietSoFar, SilenceClockState
  <1>5. QED BY <1>1, <1>2, <1>3, <1>4 DEF TakenIn, SilenceClockState

\* A capped counter stays under its cap.
LEMMA Capped ==
  \A n, bound \in Nat : AtMost(n, bound) \in 0 .. bound
  BY DEF AtMost

\* So do arming, and each branch of the reducer.
LEMMA ArmedTypes ==
  ASSUME NEW s \in SilenceClockState, NEW t
  PROVE  Armed(s, t) \in SilenceClockState
  <1>1. Debounce \in 0 .. Debounce
    BY Figures
  <1>2. [s EXCEPT !.responseDueInS = Debounce] \in SilenceClockState
    BY <1>1 DEF SilenceClockState
  <1>3. QED BY <1>2 DEF Armed

LEMMA ClosingKept ==
  ASSUME NEW c \in SilenceClockState, NEW quiet \in 0 .. Linger, NEW ends \in BOOLEAN
  PROVE  /\ [c EXCEPT !.responseDueInS = 0] \in SilenceClockState
         /\ [c EXCEPT !.closingQuietS = 0] \in SilenceClockState
         /\ [c EXCEPT !.closingQuietS = quiet, !.interviewEnded = ends] \in SilenceClockState
  <1>1. [c EXCEPT !.responseDueInS = 0] \in SilenceClockState
    BY Zeros DEF SilenceClockState
  <1>2. [c EXCEPT !.closingQuietS = 0] \in SilenceClockState
    BY Zeros DEF SilenceClockState
  <1>3. [c EXCEPT !.closingQuietS = quiet, !.interviewEnded = ends] \in SilenceClockState
    BY DEF SilenceClockState
  <1>4. QED BY <1>1, <1>2, <1>3

LEMMA ClosingTypes ==
  ASSUME NEW s \in SilenceClockState, NEW t, t.dtS \in Nat
  PROVE  Closing(s, t).state \in SilenceClockState
  <1> DEFINE c == [s EXCEPT !.responseDueInS = 0]
             quiet == Lingered(s, t)
             ends == quiet >= Linger
  <1>1. quiet \in 0 .. Linger /\ ends \in BOOLEAN
    <2>1. s.closingQuietS \in Nat
      BY DEF SilenceClockState
    <2>2. s.closingQuietS + t.dtS \in Nat /\ Linger \in Nat
      BY <2>1, Figures
    <2>3. quiet \in 0 .. Linger
      BY <2>2, Capped DEF Lingered
    <2>4. QED BY <2>3
  <1>2. Closing(s, t) \in
          {Silently([c EXCEPT !.closingQuietS = 0]), Silently(c),
           Effects([c EXCEPT !.closingQuietS = quiet, !.interviewEnded = ends],
                   "none", FALSE, ends)}
    BY DEF Closing
  <1> HIDE DEF ends, quiet
  <1>3. c \in SilenceClockState
    BY <1>1, ClosingKept
  <1> HIDE DEF c
  <1>4. /\ [c EXCEPT !.closingQuietS = 0] \in SilenceClockState
        /\ [c EXCEPT !.closingQuietS = quiet, !.interviewEnded = ends] \in SilenceClockState
    BY <1>1, <1>3, ClosingKept
  <1>5. Closing(s, t).state \in
          {[c EXCEPT !.closingQuietS = 0], c,
           [c EXCEPT !.closingQuietS = quiet, !.interviewEnded = ends]}
    BY <1>2 DEF Effects, Silently
  <1>6. QED BY <1>3, <1>4, <1>5

LEMMA ResumedTypes ==
  ASSUME NEW s \in SilenceClockState
  PROVE  Resumed(s).state \in SilenceClockState
  <1>1. Resumed(s).state =
          [s EXCEPT !.quietS = 0, !.episodeS = 0, !.stagesSent = 0,
                    !.responseDueInS = 0, !.responseInFlight = FALSE]
    BY EffectsState DEF Resumed
  <1>2. QED BY <1>1, Zeros DEF SilenceClockState

LEMMA CandidateKept ==
  ASSUME NEW s \in SilenceClockState, NEW episode \in 0 .. Blip
  PROVE  /\ [s EXCEPT !.responseInFlight = FALSE, !.responseDueInS = 0,
                      !.episodeS = episode] \in SilenceClockState
         /\ [s EXCEPT !.quietS = 0, !.stagesSent = 0] \in SilenceClockState
  <1>1. [s EXCEPT !.responseInFlight = FALSE, !.responseDueInS = 0,
                  !.episodeS = episode] \in SilenceClockState
    BY Zeros DEF SilenceClockState
  <1>2. [s EXCEPT !.quietS = 0, !.stagesSent = 0] \in SilenceClockState
    BY Zeros DEF SilenceClockState
  <1>3. QED BY <1>1, <1>2

LEMMA CandidateTypes ==
  ASSUME NEW s \in SilenceClockState, NEW t, t.dtS \in Nat
  PROVE  CandidateHeard(s, t).state \in SilenceClockState
  <1> DEFINE episode == Episode(s, t)
             c == [s EXCEPT !.responseInFlight = FALSE, !.responseDueInS = 0,
                            !.episodeS = episode]
  <1>1. episode \in 0 .. Blip
    <2>1. s.episodeS \in Nat
      BY DEF SilenceClockState
    <2>2. s.episodeS + t.dtS \in Nat /\ Blip \in Nat
      BY <2>1, Figures
    <2>3. QED BY <2>2, Capped DEF Episode
  <1>2. CandidateHeard(s, t).state = IF episode >= Blip
                                     THEN [c EXCEPT !.quietS = 0, !.stagesSent = 0] ELSE c
    BY DEF CandidateHeard, Effects
  <1> HIDE DEF episode
  <1>3. c \in SilenceClockState
    BY <1>1, CandidateKept
  <1> HIDE DEF c
  <1>4. [c EXCEPT !.quietS = 0, !.stagesSent = 0] \in SilenceClockState
    BY <1>1, <1>3, CandidateKept
  <1>5. QED BY <1>2, <1>3, <1>4

\* What a quiet tick makes of the clock, branch by branch.
LEMMA RoomQuietState ==
  ASSUME NEW s, NEW t
  PROVE  LET q == [s EXCEPT !.episodeS = 0, !.quietS = Quiet(s, t)]
             spoken == [q EXCEPT !.responseDueInS = 0, !.responseInFlight = TRUE]
             out == RoomQuiet(s, t)
         IN \/ Nudges(s, t) /\ out.state = [spoken EXCEPT !.morganOwesSpeech = FALSE]
            \/ /\ ~Nudges(s, t) /\ Climbs(s, t)
               /\ out.state = [spoken EXCEPT !.stagesSent = @ + 1]
            \/ /\ ~Nudges(s, t) /\ ~Climbs(s, t) /\ Answers(s, t)
               /\ out.state = spoken
            \/ /\ ~Nudges(s, t) /\ ~Climbs(s, t) /\ ~Answers(s, t)
               /\ \/ Counts(s, t) /\ out.state = [q EXCEPT !.responseDueInS = @ - t.dtS]
                  \/ ~Counts(s, t) /\ out.state = q
  <1>1. ~(Nudges(s, t) /\ Climbs(s, t))
    BY DEF Nudges, Climbs
  <1>2. CASE Nudges(s, t)
    BY <1>1, <1>2 DEF RoomQuiet, Effects
  <1>3. CASE Climbs(s, t)
    BY <1>1, <1>3 DEF RoomQuiet, Effects
  <1>4. CASE ~Nudges(s, t) /\ ~Climbs(s, t) /\ Answers(s, t)
    BY <1>4 DEF RoomQuiet, Effects
  <1>5. CASE ~Nudges(s, t) /\ ~Climbs(s, t) /\ ~Answers(s, t)
    BY <1>5 DEF RoomQuiet, Effects, Silently
  <1>6. QED BY <1>1, <1>2, <1>3, <1>4, <1>5

LEMMA QuietKept ==
  ASSUME NEW s \in SilenceClockState, NEW quiet \in 0 .. Top
  PROVE  /\ [s EXCEPT !.episodeS = 0, !.quietS = quiet] \in SilenceClockState
         /\ [s EXCEPT !.episodeS = 0] \in SilenceClockState
         /\ [s EXCEPT !.responseDueInS = 0, !.responseInFlight = TRUE] \in SilenceClockState
  <1>1. [s EXCEPT !.episodeS = 0, !.quietS = quiet] \in SilenceClockState
    BY Zeros DEF SilenceClockState
  <1>2. [s EXCEPT !.episodeS = 0] \in SilenceClockState
    BY Zeros DEF SilenceClockState
  <1>3. [s EXCEPT !.responseDueInS = 0, !.responseInFlight = TRUE] \in SilenceClockState
    BY Zeros DEF SilenceClockState
  <1>4. QED BY <1>1, <1>2, <1>3

LEMMA RoomQuietTypes ==
  ASSUME NEW s \in SilenceClockState, NEW t, t.dtS \in Nat
  PROVE  RoomQuiet(s, t).state \in SilenceClockState
  <1> DEFINE quiet == Quiet(s, t)
             q == [s EXCEPT !.episodeS = 0, !.quietS = quiet]
             spoken == [q EXCEPT !.responseDueInS = 0, !.responseInFlight = TRUE]
  <1>1. quiet \in 0 .. Top
    <2>1. s.quietS \in Nat
      BY LadderClimbs DEF SilenceClockState
    <2>2. s.quietS + t.dtS \in Nat /\ Top \in Nat
      BY <2>1, LadderClimbs
    <2>3. QED BY <2>2, Capped DEF Quiet
  <1>2. \/ RoomQuiet(s, t).state \in {[spoken EXCEPT !.morganOwesSpeech = FALSE], spoken, q}
        \/ Climbs(s, t) /\ RoomQuiet(s, t).state = [spoken EXCEPT !.stagesSent = @ + 1]
        \/ /\ Counts(s, t) /\ ~Answers(s, t)
           /\ RoomQuiet(s, t).state = [q EXCEPT !.responseDueInS = @ - t.dtS]
    BY RoomQuietState
  <1> HIDE DEF quiet
  <1>3. q \in SilenceClockState
    BY <1>1, QuietKept
  <1>4. q.responseDueInS = s.responseDueInS /\ q.stagesSent = s.stagesSent
    BY DEF SilenceClockState
  <1> HIDE DEF q
  <1>5. spoken \in SilenceClockState /\ spoken.stagesSent = s.stagesSent
    <2>1. spoken \in SilenceClockState
      BY <1>1, <1>3, QuietKept
    <2>2. spoken.stagesSent = q.stagesSent
      BY <1>3 DEF SilenceClockState
    <2>3. QED BY <1>4, <2>1, <2>2
  <1> HIDE DEF spoken
  <1>6. [spoken EXCEPT !.morganOwesSpeech = FALSE] \in SilenceClockState
    BY <1>5 DEF SilenceClockState
  <1>7. ASSUME Climbs(s, t) PROVE [spoken EXCEPT !.stagesSent = @ + 1] \in SilenceClockState
    <2>1. spoken.stagesSent + 1 \in 0 .. Len(Rungs)
      BY <1>5, <1>7, LadderClimbs DEF Climbs, SilenceClockState
    <2>2. QED BY <1>5, <2>1 DEF SilenceClockState
  <1>8. ASSUME Counts(s, t), ~Answers(s, t)
        PROVE  [q EXCEPT !.responseDueInS = @ - t.dtS] \in SilenceClockState
    <2>1. q.responseDueInS - t.dtS \in 0 .. Debounce
      BY <1>4, <1>8, Figures DEF Counts, Answers, SilenceClockState
    <2>2. QED BY <1>3, <2>1 DEF SilenceClockState
  <1>9. QED BY <1>2, <1>3, <1>5, <1>6, <1>7, <1>8

\* One step of the reducer keeps them too.
LEMMA ClockTypes ==
  ASSUME NEW s \in SilenceClockState, NEW t, t.dtS \in Nat,
         t.interviewerAudible \in BOOLEAN, t.responseDone \in BOOLEAN
  PROVE  nextSilenceState(s, t).state \in SilenceClockState
  <1> DEFINE taken == TakenIn(s, t)
             armed == Armed(taken, t)
  <1>1. taken \in SilenceClockState /\ armed \in SilenceClockState
    BY TakenTypes, ArmedTypes
  <1>2. nextSilenceState(s, t) \in
          {Closing(taken, t), Resumed(taken), Silently([armed EXCEPT !.episodeS = 0]),
           CandidateHeard(armed, t), RoomQuiet(armed, t)}
    BY <1>1 DEF nextSilenceState, SilenceClockState
  <1> HIDE DEF taken, armed
  <1>3. Silently([armed EXCEPT !.episodeS = 0]).state \in SilenceClockState
    <2>1. [armed EXCEPT !.episodeS = 0] \in SilenceClockState
      BY <1>1, Zeros DEF SilenceClockState
    <2>2. QED BY <2>1, EffectsState
  <1>4. QED
    BY <1>1, <1>2, <1>3, ClosingTypes, ResumedTypes, CandidateTypes, RoomQuietTypes

----------------------------------------------------------------------------
(* The ladder. *)

\* k is how many rungs a quiet of q has reached.
Reached(q, k) == \A i \in 1 .. Len(Rungs) : i <= k <=> Rungs[i] <= q

\* No quiet reaches a rung before the fuse has burnt.
LEMMA NoneReached ==
  ASSUME NEW q \in Nat, q < Nudge + Gap
  PROVE  Reached(q, 0)
  <1>1. Nudge \in Nat /\ Gap \in Nat
    BY Figures
  <1>2. ASSUME NEW i \in 1 .. Len(Rungs) PROVE ~(i <= 0) /\ ~(Rungs[i] <= q)
    BY <1>1, LadderClimbs
  <1>3. QED BY <1>2 DEF Reached

\* One tick that is no gap reaches the next rung or none.
LEMMA NextRung ==
  ASSUME NEW q \in Nat, NEW quiet \in Nat, NEW k \in 0 .. Len(Rungs),
         Reached(q, k), q <= quiet, quiet < q + Gap
  PROVE  /\ k < Len(Rungs) /\ Rungs[k + 1] <= quiet => Reached(quiet, k + 1)
         /\ ~(k < Len(Rungs) /\ Rungs[k + 1] <= quiet) => Reached(quiet, k)
  <1> USE LadderClimbs
  <1>1. Gap \in Nat
    BY Figures
  <1>2. \A i, j \in 1 .. Len(Rungs) : i < j => Rungs[i] + Gap <= Rungs[j]
    BY RungsAssumption
  <1>3. ASSUME NEW i \in 1 .. Len(Rungs), i <= k PROVE Rungs[i] <= quiet
    BY <1>3 DEF Reached
  <1>4. ASSUME k < Len(Rungs), Rungs[k + 1] <= quiet
        PROVE  Reached(quiet, k + 1)
    <2>1. k + 1 \in 1 .. Len(Rungs) /\ k \in Nat
      BY <1>4
    <2>2. q < Rungs[k + 1]
      BY <2>1 DEF Reached
    <2>3. ASSUME NEW i \in 1 .. Len(Rungs), i > k + 1 PROVE ~(Rungs[i] <= quiet)
      BY <1>1, <1>2, <2>1, <2>2, <2>3
    <2>4. ASSUME NEW i \in 1 .. Len(Rungs), i <= k + 1 PROVE Rungs[i] <= quiet
      <3>1. CASE i <= k
        BY <1>3, <3>1
      <3>2. CASE i = k + 1
        BY <1>4, <3>2
      <3>3. QED BY <2>1, <2>4, <3>1, <3>2
    <2>5. ASSUME NEW i \in 1 .. Len(Rungs) PROVE i <= k + 1 <=> Rungs[i] <= quiet
      <3>1. i <= k + 1 \/ i > k + 1
        BY <2>1
      <3>2. i > k + 1 => ~(i <= k + 1)
        BY <2>1
      <3>3. QED BY <2>3, <2>4, <3>1, <3>2
    <2>6. QED BY <2>5 DEF Reached
  <1>5. ASSUME ~(k < Len(Rungs) /\ Rungs[k + 1] <= quiet)
        PROVE  Reached(quiet, k)
    <2>1. ASSUME NEW i \in 1 .. Len(Rungs), i > k PROVE ~(Rungs[i] <= quiet)
      <3>1. k + 1 \in 1 .. Len(Rungs) /\ quiet < Rungs[k + 1]
        BY <1>5, <2>1
      <3>2. CASE i = k + 1
        BY <3>1, <3>2
      <3>3. CASE i > k + 1
        BY <1>1, <1>2, <3>1, <3>3
      <3>4. QED BY <2>1, <3>2, <3>3
    <2>2. ASSUME NEW i \in 1 .. Len(Rungs) PROVE i <= k <=> Rungs[i] <= quiet
      <3>1. (i <= k \/ i > k) /\ (i > k => ~(i <= k))
        OBVIOUS
      <3>2. QED BY <1>3, <2>1, <3>1
    <2>3. QED BY <2>2 DEF Reached
  <1>6. QED BY <1>4, <1>5

\* What a state on the ladder says, and what makes one.
LEMMA Ladder ==
  ASSUME NEW s \in SilenceClockState
  PROVE  OnLadder(s) <=> \/ s.closingSeen
                         \/ /\ Reached(s.quietS, s.stagesSent)
                            /\ s.morganOwesSpeech => s.quietS < Nudge
  BY DEF OnLadder, Reached

LEMMA MakesLadder ==
  ASSUME NEW s \in SilenceClockState, NEW q, NEW k, s.quietS = q, s.stagesSent = k,
         Reached(q, k), s.morganOwesSpeech => q < Nudge
  PROVE  OnLadder(s)
  BY Ladder

LEMMA FreshLadder ==
  ASSUME NEW s \in SilenceClockState, s.quietS = 0, s.stagesSent = 0
  PROVE  OnLadder(s)
  <1>1. 0 < Nudge /\ 0 < Nudge + Gap /\ 0 \in Nat
    BY Figures, FiguresPositive
  <1>2. Reached(0, 0)
    BY <1>1, NoneReached
  <1>3. QED BY <1>1, <1>2, MakesLadder

\* The goodbye stays recognised.
LEMMA ClosingSeen ==
  ASSUME NEW s \in SilenceClockState, NEW t, s.closingSeen
  PROVE  Closing(s, t).state.closingSeen
  <1> DEFINE c == [s EXCEPT !.responseDueInS = 0]
             ends == Lingered(s, t) >= Linger
  <1>1. Closing(s, t).state \in
          {[c EXCEPT !.closingQuietS = 0], c,
           [c EXCEPT !.closingQuietS = Lingered(s, t), !.interviewEnded = ends]}
    BY DEF Closing, Effects, Silently
  <1>2. c.closingSeen
    BY DEF SilenceClockState
  <1>3. [c EXCEPT !.closingQuietS = 0].closingSeen
    BY DEF SilenceClockState
  <1>4. [c EXCEPT !.closingQuietS = Lingered(s, t), !.interviewEnded = ends].closingSeen
    BY DEF SilenceClockState
  <1>5. QED BY <1>1, <1>2, <1>3, <1>4

LEMMA KeepsLadder ==
  ASSUME NEW s \in SilenceClockState, NEW n \in SilenceClockState, OnLadder(s),
         n.quietS = s.quietS, n.stagesSent = s.stagesSent,
         n.morganOwesSpeech = s.morganOwesSpeech, s.closingSeen => n.closingSeen
  PROVE  OnLadder(n)
  <1>1. CASE s.closingSeen
    BY <1>1 DEF OnLadder
  <1>2. CASE ~s.closingSeen
    <2>1. Reached(s.quietS, s.stagesSent) /\ (s.morganOwesSpeech => s.quietS < Nudge)
      BY <1>2, Ladder
    <2>2. n.morganOwesSpeech => s.quietS < Nudge
      BY <2>1
    <2>3. QED BY <2>1, <2>2, MakesLadder
  <1>3. QED BY <1>1, <1>2

\* Taking in a finished turn restarts the stretch, and nothing else moves it.
LEMMA TakenLadder ==
  ASSUME NEW s \in SilenceClockState, NEW t, t.interviewerAudible \in BOOLEAN,
         t.responseDone \in BOOLEAN, OnLadder(s)
  PROVE  OnLadder(TakenIn(s, t))
  <1> DEFINE n == TakenIn(s, t)
  <1>1. n \in SilenceClockState
    BY TakenTypes
  <1>2. /\ n.closingSeen = Closes(s, t) /\ n.stagesSent = s.stagesSent
        /\ n.quietS = QuietSoFar(s, t) /\ n.morganOwesSpeech = Owes(s, t)
    BY DEF TakenIn, SilenceClockState
  <1> SUFFICES OnLadder(n)
    OBVIOUS
  <1> HIDE DEF n
  <1>3. CASE TurnEnds(s, t)
    <2>1. n.stagesSent = 0 /\ n.quietS = 0
      BY <1>2, <1>3 DEF TurnEnds, QuietSoFar
    <2>2. 0 < Nudge /\ 0 < Nudge + Gap /\ 0 \in Nat
      BY Figures, FiguresPositive
    <2>3. Reached(0, 0)
      BY <2>2, NoneReached
    <2>4. QED BY <1>1, <2>1, <2>2, <2>3, MakesLadder
  <1>4. CASE ~TurnEnds(s, t)
    <2>1. n.quietS = s.quietS /\ n.morganOwesSpeech = s.morganOwesSpeech
      BY <1>2, <1>4 DEF QuietSoFar, Owes
    <2>2. s.closingSeen => n.closingSeen
      BY <1>2 DEF Closes
    <2>3. QED BY <1>1, <1>2, <2>1, <2>2, KeepsLadder
  <1>5. QED BY <1>3, <1>4

\* A quiet tick that is no gap leaves the ladder where the quiet has come to.
LEMMA QuietLadder ==
  ASSUME NEW s \in SilenceClockState, NEW t, t.dtS \in Nat, t.dtS < Gap,
         OnLadder(s), ~s.closingSeen
  PROVE  OnLadder(RoomQuiet(s, t).state)
  <1> DEFINE n == RoomQuiet(s, t).state
             quiet == Quiet(s, t)
             k == s.stagesSent
  <1>1. n \in SilenceClockState
    BY RoomQuietTypes
  <1>2. s.quietS \in 0 .. Top /\ k \in 0 .. Len(Rungs) /\ s.quietS \in Nat
    BY LadderClimbs DEF SilenceClockState
  <1>3. quiet \in Nat /\ s.quietS <= quiet /\ quiet < s.quietS + Gap
    BY <1>2, Figures, FiguresPositive, LadderClimbs DEF Quiet, AtMost
  <1>4. Reached(s.quietS, k) /\ (s.morganOwesSpeech => s.quietS < Nudge)
    BY Ladder
  <1>5. \/ /\ Nudges(s, t)
           /\ n.quietS = quiet /\ n.stagesSent = k /\ n.morganOwesSpeech = FALSE
        \/ /\ Climbs(s, t)
           /\ n.quietS = quiet /\ n.stagesSent = k + 1
           /\ n.morganOwesSpeech = s.morganOwesSpeech
        \/ /\ ~Nudges(s, t) /\ ~Climbs(s, t)
           /\ n.quietS = quiet /\ n.stagesSent = k
           /\ n.morganOwesSpeech = s.morganOwesSpeech
    <2> DEFINE q == [s EXCEPT !.episodeS = 0, !.quietS = quiet]
               spoken == [q EXCEPT !.responseDueInS = 0, !.responseInFlight = TRUE]
    <2>1. /\ q.quietS = quiet /\ q.stagesSent = k /\ q.morganOwesSpeech = s.morganOwesSpeech
          /\ q \in SilenceClockState
      <3>1. quiet \in 0 .. Top
        BY <1>2, <1>3, LadderClimbs DEF Quiet, AtMost
      <3>2. q \in SilenceClockState
        BY <3>1, QuietKept
      <3>3. QED BY <3>2 DEF SilenceClockState
    <2>2. \/ Nudges(s, t) /\ n = [spoken EXCEPT !.morganOwesSpeech = FALSE]
          \/ Climbs(s, t) /\ n = [spoken EXCEPT !.stagesSent = @ + 1]
          \/ /\ ~Nudges(s, t) /\ ~Climbs(s, t)
             /\ n \in {spoken, q, [q EXCEPT !.responseDueInS = @ - t.dtS]}
      BY RoomQuietState
    <2> HIDE DEF n, q
    <2>3. /\ spoken.quietS = quiet /\ spoken.stagesSent = k
          /\ spoken.morganOwesSpeech = s.morganOwesSpeech /\ spoken \in SilenceClockState
      <3>1. spoken \in SilenceClockState
        BY <2>1, Zeros, QuietKept
      <3>2. QED BY <2>1, <3>1 DEF SilenceClockState
    <2> HIDE DEF spoken
    <2>4. CASE Nudges(s, t) /\ n = [spoken EXCEPT !.morganOwesSpeech = FALSE]
      BY <2>3, <2>4 DEF SilenceClockState
    <2>5. CASE Climbs(s, t) /\ n = [spoken EXCEPT !.stagesSent = @ + 1]
      BY <2>3, <2>5 DEF SilenceClockState
    <2>6. CASE /\ ~Nudges(s, t) /\ ~Climbs(s, t)
               /\ n \in {spoken, q, [q EXCEPT !.responseDueInS = @ - t.dtS]}
      <3>1. [q EXCEPT !.responseDueInS = @ - t.dtS].quietS = quiet
        BY <2>1 DEF SilenceClockState
      <3>2. [q EXCEPT !.responseDueInS = @ - t.dtS].stagesSent = k
        BY <2>1 DEF SilenceClockState
      <3>3. [q EXCEPT !.responseDueInS = @ - t.dtS].morganOwesSpeech = s.morganOwesSpeech
        BY <2>1 DEF SilenceClockState
      <3>4. QED BY <2>1, <2>3, <2>6, <3>1, <3>2, <3>3
    <2>7. QED BY <2>2, <2>4, <2>5, <2>6
  <1> SUFFICES OnLadder(n)
    OBVIOUS
  <1> HIDE DEF n, quiet
  <1>6. CASE Nudges(s, t) /\ n.quietS = quiet /\ n.stagesSent = k /\ n.morganOwesSpeech = FALSE
    <2>1. s.quietS < Nudge /\ Nudge \in Nat /\ Gap \in Nat
      BY <1>4, <1>6, Figures DEF Nudges
    <2>2. quiet < Nudge + Gap /\ s.quietS < Nudge + Gap
      BY <1>2, <1>3, <2>1
    <2>3. Reached(quiet, 0) /\ Reached(s.quietS, 0)
      BY <1>2, <1>3, <2>2, NoneReached
    <2>4. k = 0
      BY <1>2, <1>4, <2>3, LadderClimbs DEF Reached
    <2>5. QED BY <1>1, <1>6, <2>3, <2>4, MakesLadder
  <1>7. CASE /\ Climbs(s, t)
             /\ n.quietS = quiet /\ n.stagesSent = k + 1
             /\ n.morganOwesSpeech = s.morganOwesSpeech
    <2>1. k < Len(Rungs) /\ Rungs[k + 1] <= quiet /\ ~s.morganOwesSpeech
      BY <1>2, <1>3, <1>7, LadderClimbs DEF Climbs, quiet
    <2>2. Reached(quiet, k + 1)
      BY <1>2, <1>3, <1>4, <2>1, NextRung
    <2>3. QED BY <1>1, <1>7, <2>1, <2>2, MakesLadder
  <1>8. CASE /\ ~Nudges(s, t) /\ ~Climbs(s, t)
             /\ n.quietS = quiet /\ n.stagesSent = k
             /\ n.morganOwesSpeech = s.morganOwesSpeech
    <2>1. CASE s.morganOwesSpeech
      <3>1. ~(quiet >= Nudge)
        BY <1>8, <2>1 DEF Nudges, quiet
      <3>2. quiet < Nudge /\ quiet < Nudge + Gap /\ s.quietS < Nudge + Gap
        BY <1>2, <1>3, <3>1, Figures
      <3>3. Reached(quiet, 0) /\ Reached(s.quietS, 0)
        BY <1>2, <1>3, <3>2, NoneReached
      <3>4. k = 0
        BY <1>2, <1>4, <3>3, LadderClimbs DEF Reached
      <3>5. QED BY <1>1, <1>8, <3>2, <3>3, <3>4, MakesLadder
    <2>2. CASE ~s.morganOwesSpeech
      <3>1. ~(k < Len(Rungs) /\ quiet >= Rungs[k + 1])
        BY <1>8, <2>2 DEF Climbs, quiet
      <3>2. ~(k < Len(Rungs) /\ Rungs[k + 1] <= quiet)
        BY <1>2, <1>3, <3>1, LadderClimbs
      <3>3. Reached(quiet, k)
        BY <1>2, <1>3, <1>4, <3>2, NextRung
      <3>4. QED BY <1>1, <1>8, <2>2, <3>3, MakesLadder
    <2>3. QED BY <2>1, <2>2
  <1>9. QED BY <1>5, <1>6, <1>7, <1>8

\* One step of the reducer leaves a clock that was on the ladder on it.
LEMMA ClockOnLadder ==
  ASSUME NEW s \in SilenceClockState, NEW t, t.dtS \in Nat,
         t.interviewerAudible \in BOOLEAN, t.responseDone \in BOOLEAN, OnLadder(s)
  PROVE  OnLadder(nextSilenceState(s, t).state)
  <1> DEFINE n == nextSilenceState(s, t).state
             taken == TakenIn(s, t)
             armed == Armed(taken, t)
  <1>1. /\ taken \in SilenceClockState /\ armed \in SilenceClockState
        /\ n \in SilenceClockState
    BY TakenTypes, ArmedTypes, ClockTypes
  <1>2. OnLadder(taken)
    BY TakenLadder
  <1>3. OnLadder(armed) /\ armed.closingSeen = taken.closingSeen
    <2>1. /\ armed.quietS = taken.quietS /\ armed.stagesSent = taken.stagesSent
          /\ armed.morganOwesSpeech = taken.morganOwesSpeech
          /\ armed.closingSeen = taken.closingSeen
      <3> HIDE DEF taken
      <3>1. CASE t.commitArrived
        BY <1>1, <3>1 DEF Armed, SilenceClockState
      <3>2. CASE ~t.commitArrived
        BY <3>2 DEF Armed
      <3>3. QED BY <3>1, <3>2
    <2>2. QED BY <1>1, <1>2, <2>1, KeepsLadder
  <1>4. \/ taken.closingSeen /\ n = Closing(taken, t).state
        \/ ~taken.closingSeen /\ n = Resumed(taken).state
        \/ ~taken.closingSeen /\ n = [armed EXCEPT !.episodeS = 0]
        \/ ~taken.closingSeen /\ n = CandidateHeard(armed, t).state
        \/ /\ ~taken.closingSeen /\ ~(t.dtS >= Gap)
           /\ n = RoomQuiet(armed, t).state
    <2>1. Silently([armed EXCEPT !.episodeS = 0]).state = [armed EXCEPT !.episodeS = 0]
      BY EffectsState
    <2>2. QED BY <1>1, <2>1 DEF nextSilenceState, SilenceClockState
  <1> SUFFICES OnLadder(n)
    OBVIOUS
  <1> HIDE DEF n, taken, armed
  <1>5. CASE taken.closingSeen /\ n = Closing(taken, t).state
    <2>1. Closing(taken, t).state.closingSeen
      BY <1>1, <1>5, ClosingSeen
    <2>2. QED BY <1>5, <2>1 DEF OnLadder
  <1>6. CASE n = Resumed(taken).state
    <2>1. n = [taken EXCEPT !.quietS = 0, !.episodeS = 0, !.stagesSent = 0,
                            !.responseDueInS = 0, !.responseInFlight = FALSE]
      BY <1>6, EffectsState DEF Resumed
    <2>2. n.quietS = 0 /\ n.stagesSent = 0
      BY <1>1, <2>1 DEF SilenceClockState
    <2>3. QED BY <1>1, <2>2, FreshLadder
  <1>7. CASE n = [armed EXCEPT !.episodeS = 0]
    <2>1. /\ n.quietS = armed.quietS /\ n.stagesSent = armed.stagesSent
          /\ n.morganOwesSpeech = armed.morganOwesSpeech
          /\ n.closingSeen = armed.closingSeen
      BY <1>1, <1>7 DEF SilenceClockState
    <2>2. QED BY <1>1, <1>3, <2>1, KeepsLadder
  <1>8. CASE n = CandidateHeard(armed, t).state
    <2> DEFINE c == [armed EXCEPT !.responseInFlight = FALSE, !.responseDueInS = 0,
                                  !.episodeS = Episode(armed, t)]
    <2>1. n \in {[c EXCEPT !.quietS = 0, !.stagesSent = 0], c}
      BY <1>8 DEF CandidateHeard, Effects
    <2>2. CASE n = [c EXCEPT !.quietS = 0, !.stagesSent = 0]
      <3>1. n.quietS = 0 /\ n.stagesSent = 0
        BY <1>1, <2>2 DEF SilenceClockState
      <3>2. QED BY <1>1, <3>1, FreshLadder
    <2>3. CASE n = c
      <3>1. /\ n.quietS = armed.quietS /\ n.stagesSent = armed.stagesSent
            /\ n.morganOwesSpeech = armed.morganOwesSpeech
            /\ n.closingSeen = armed.closingSeen
        BY <1>1, <2>3 DEF SilenceClockState
      <3>2. QED BY <1>1, <1>3, <3>1, KeepsLadder
    <2>4. QED BY <2>1, <2>2, <2>3
  <1>9. CASE ~taken.closingSeen /\ ~(t.dtS >= Gap) /\ n = RoomQuiet(armed, t).state
    <2>1. t.dtS < Gap
      BY <1>9, Figures
    <2>2. QED BY <1>1, <1>3, <1>9, <2>1, QuietLadder
  <1>10. QED BY <1>4, <1>5, <1>6, <1>7, <1>8, <1>9

----------------------------------------------------------------------------
(* The connection guard. *)

\* One step of the guard keeps its types.
LEMMA GuardTypes ==
  ASSUME NEW g \in ConnectionGuardState, NEW t, t.dtS \in Nat
  PROVE  nextGuardState(g, t).state \in ConnectionGuardState
  <1> DEFINE pending == t.responseRequested \/ (g.responsePending /\ ~t.responseDone)
             cut == IF t.connection = "disconnected"
                    THEN AtMost(g.disconnectedForS + t.dtS, Grace) ELSE 0
             starved == IF t.messageArrived THEN 0
                        ELSE IF Expects(pending, t) THEN AtMost(g.starvedS + t.dtS, Starve)
                        ELSE g.starvedS
  <1>1. Grace \in Nat /\ Starve \in Nat /\ 0 \in 0 .. Grace /\ 0 \in 0 .. Starve
    BY Figures
  <1>2. /\ g.disconnectedForS \in 0 .. Grace /\ g.starvedS \in 0 .. Starve
        /\ g.disconnectedForS \in Nat /\ g.starvedS \in Nat
    BY <1>1 DEF ConnectionGuardState
  <1>3. /\ AtMost(g.disconnectedForS + t.dtS, Grace) \in 0 .. Grace
        /\ AtMost(g.starvedS + t.dtS, Starve) \in 0 .. Starve
    <2>1. g.disconnectedForS + t.dtS \in Nat /\ g.starvedS + t.dtS \in Nat
      BY <1>2
    <2>2. QED BY <1>1, <2>1, Capped
  <1>4. cut \in 0 .. Grace
    BY <1>1, <1>3
  <1>5. starved \in 0 .. Starve
    BY <1>1, <1>2, <1>3
  <1>6. pending \in BOOLEAN
    OBVIOUS
  <1>7. nextGuardState(g, t).state \in
          {InitialGuard,
           [disconnectedForS |-> cut, starvedS |-> starved, responsePending |-> pending]}
    BY DEF nextGuardState
  <1> HIDE DEF cut, starved, pending
  <1>8. InitialGuard \in ConnectionGuardState
    BY <1>1 DEF InitialGuard, ConnectionGuardState
  <1>9. QED BY <1>4, <1>5, <1>6, <1>7, <1>8 DEF ConnectionGuardState

----------------------------------------------------------------------------
(* The room's state. *)

\* Every room sends a whole number of notes.
LEMMA NotesFinite ==
  Len(timeStatusCheckpoints(BudgetOf(kind))) \in Nat
  <1>1. CASE kind = "quick"
    BY <1>1 DEF timeStatusCheckpoints, BudgetOf, closingArmedAt, QUICK_SESSION_BUDGET_S,
                SESSION_BUDGET_S
  <1>2. CASE kind # "quick"
    BY <1>2 DEF timeStatusCheckpoints, BudgetOf, closingArmedAt, QUICK_SESSION_BUDGET_S,
                SESSION_BUDGET_S
  <1>3. QED BY <1>1, <1>2

\* The clock and the guard start well-formed.
LEMMA InitialTypes ==
  InitialSilence \in SilenceClockState /\ InitialGuard \in ConnectionGuardState
  <1>1. InitialSilence \in SilenceClockState
    BY Zeros DEF InitialSilence, SilenceClockState
  <1>2. 0 \in 0 .. Grace /\ 0 \in 0 .. Starve
    BY Figures
  <1>3. InitialGuard \in ConnectionGuardState
    BY <1>2 DEF InitialGuard, ConnectionGuardState
  <1>4. QED BY <1>1, <1>3

\* What a tick can have heard.
LEMMA HeardTypes ==
  ASSUME TypeOK, NEW dtS, NEW h \in Heard(dtS)
  PROVE  /\ h.message \in BOOLEAN /\ h.candidate \in BOOLEAN /\ h.commit \in BOOLEAN
         /\ h.morgan \in {"idle", "thinking"} \cup Audible
         /\ h.transcript \in Transcripts
  <1>1. morgan \in {"idle", "thinking", "speaking", "trailing"}
    BY DEF TypeOK, Audible
  <1>2. Onward(morgan) \subseteq {"idle", "thinking", "speaking", "trailing"}
    BY <1>1 DEF Onward
  <1>3. CASE h = Nothing
    BY <1>1, <1>3 DEF Nothing, TypeOK, Transcripts, Audible
  <1>4. CASE h # Nothing
    <2>1. h \in [message : {TRUE}, candidate : BOOLEAN, commit : BOOLEAN,
                 morgan : Onward(morgan),
                 transcript : IF morgan \in {"thinking", "speaking"}
                              THEN Transcripts ELSE {"none"}]
      BY <1>4 DEF Heard
    <2>2. QED BY <1>2, <2>1 DEF Audible, Transcripts
  <1>5. QED BY <1>3, <1>4

\* A tick's reducers leave well-formed states.
LEMMA StepTypes ==
  ASSUME TypeOK, NEW dtS \in Nat, NEW h, NEW now, NEW asks
  PROVE  /\ SilenceStep(dtS, h, now).state \in SilenceClockState
         /\ nextGuardState(guard, GuardTick(dtS, h, asks)).state \in ConnectionGuardState
  <1>1. /\ SilenceTick(dtS, h, now).dtS \in Nat
        /\ SilenceTick(dtS, h, now).interviewerAudible \in BOOLEAN
        /\ SilenceTick(dtS, h, now).responseDone \in BOOLEAN
        /\ GuardTick(dtS, h, asks).dtS \in Nat
    BY DEF SilenceTick, GuardTick, Finished
  <1>2. silence \in SilenceClockState /\ guard \in ConnectionGuardState
    BY DEF TypeOK
  <1>3. nextGuardState(guard, GuardTick(dtS, h, asks)).state \in ConnectionGuardState
    BY <1>1, <1>2, GuardTypes
  <1>4. nextSilenceState(silence, SilenceTick(dtS, h, now)).state \in SilenceClockState
    BY <1>1, <1>2, ClockTypes
  <1>5. Silently(silence).state \in SilenceClockState
    BY <1>2, EffectsState
  <1>6. SilenceStep(dtS, h, now).state \in SilenceClockState
    BY <1>4, <1>5 DEF SilenceStep
  <1>7. QED BY <1>3, <1>6

\* The two halves of the state: what the ticker moves, and what ends a room.
RoomTypes ==
  /\ elapsed \in Instants(kind)
  /\ timeStatusSent \in 0 .. Len(timeStatusCheckpoints(BudgetOf(kind)))
  /\ heardMorgan \in BOOLEAN /\ responseRequested \in BOOLEAN
  /\ candidateAudible \in BOOLEAN /\ commitArrived \in BOOLEAN
  /\ finishedTranscript \in Transcripts
  /\ silence \in SilenceClockState /\ guard \in ConnectionGuardState
  /\ morgan \in {"idle", "thinking"} \cup Audible /\ mute \in 0 .. Starve
  /\ goodbye \in BOOLEAN

EndTypes ==
  /\ kind \in {"scored", "quick"} /\ phase \in Phases
  /\ endingRef \in BOOLEAN /\ stopping \subseteq {"finish", "lose"}
  /\ step \in {"none", "sign", "put", "complete"} /\ error \in BOOLEAN
  /\ link \in {"closed", "up", "disconnected", "failed"}
  /\ stored \in BOOLEAN /\ posted \in BOOLEAN

LEMMA RoomKept ==
  ASSUME RoomTypes, UNCHANGED <<kind, roomVars>>
  PROVE  RoomTypes'
  BY DEF RoomTypes, roomVars

\* Tearing the room down leaves it well-formed.
LEMMA TornDownTypes ==
  ASSUME TypeOK, TornDown, kind' = kind
  PROVE  RoomTypes'
  <1>1. elapsed' \in Instants(kind')
    BY DEF TornDown, Instants
  <1>2. timeStatusSent' \in 0 .. Len(timeStatusCheckpoints(BudgetOf(kind')))
    BY NotesFinite DEF TornDown
  <1>3. mute' \in 0 .. Starve
    BY Figures DEF TornDown
  <1>4. silence' \in SilenceClockState /\ guard' \in ConnectionGuardState
    BY InitialTypes DEF TornDown
  <1>5. QED BY <1>1, <1>2, <1>3, <1>4 DEF TornDown, Transcripts, RoomTypes

\* A tick leaves the whole room well-formed.
LEMMA TickTypes ==
  ASSUME TypeOK, NEW dtS \in TickLengths, NEW h \in Heard(dtS), NEW now \in Instants(kind),
         Tick(dtS, h, now)
  PROVE  TypeOK'
  <1> DEFINE out == SilenceStep(dtS, h, now)
             asks == out.speak # "none" /\ ~NoteDue(now)
             watch == nextGuardState(guard, GuardTick(dtS, h, asks))
             wanted == {w \in {"goodbye"} : out.end} \cup {w \in {"trip"} : watch.ends}
                       \cup {w \in {"cut"} : ~watch.ends /\ now >= HardCutOf(kind)}
  <1>1. dtS \in Nat
    BY TicksAssumption, FiguresAssumption
  <1>2. /\ h.message \in BOOLEAN /\ h.candidate \in BOOLEAN /\ h.commit \in BOOLEAN
        /\ h.morgan \in {"idle", "thinking"} \cup Audible
        /\ h.transcript \in Transcripts
    BY HeardTypes
  <1>3. silence' \in SilenceClockState /\ guard' \in ConnectionGuardState
    <2>1. silence' = out.state /\ guard' = watch.state
      BY DEF Tick
    <2>2. QED BY <1>1, <2>1, StepTypes
  <1>4. Ending(wanted)
    BY DEF Tick
  <1>5. /\ elapsed' = now
        /\ timeStatusSent' = IF NoteDue(now) /\ link # "closed" THEN timeStatusSent + 1
                            ELSE timeStatusSent
        /\ heardMorgan' = IsHeard(h) /\ candidateAudible' = h.candidate
        /\ commitArrived' = (Committed(h) /\ ~TakesIn(h))
        /\ finishedTranscript' = IF TakesIn(h) THEN "none" ELSE Transcript(h)
        /\ responseRequested' = FALSE
        /\ morgan' \in {"thinking", h.morgan}
        /\ mute' \in {0, mute, AtMost(mute + dtS, Starve)}
        /\ kind' = kind /\ phase' = phase /\ link' = link
    BY DEF Tick
  <1>6. goodbye' \in BOOLEAN
    BY DEF Tick, TypeOK
  <1> HIDE DEF out, asks, watch, wanted
  <1>7. elapsed' \in Instants(kind')
    BY <1>5
  <1>8. timeStatusSent' \in 0 .. Len(timeStatusCheckpoints(BudgetOf(kind')))
    BY <1>5, NotesFinite DEF NoteDue, TypeOK
  <1>9. mute' \in 0 .. Starve
    <2>1. mute \in 0 .. Starve /\ mute + dtS \in Nat /\ Starve \in Nat
      BY <1>1, Figures DEF TypeOK
    <2>2. AtMost(mute + dtS, Starve) \in 0 .. Starve
      BY <2>1, Capped
    <2>3. 0 \in 0 .. Starve
      BY <2>1
    <2>4. QED BY <1>5, <2>1, <2>2, <2>3
  <1>10. morgan' \in {"idle", "thinking"} \cup Audible
    BY <1>2, <1>5
  <1>11. endingRef' \in BOOLEAN /\ stopping' \subseteq {"finish", "lose"}
    BY <1>4 DEF Ending, Admitted, TypeOK
  <1>12. /\ step' \in {"none", "sign", "put", "complete"} /\ error' \in BOOLEAN
         /\ stored' \in BOOLEAN /\ posted' \in BOOLEAN
    BY <1>4 DEF Ending, TypeOK
  <1>13. /\ heardMorgan' \in BOOLEAN /\ commitArrived' \in BOOLEAN
         /\ responseRequested' \in BOOLEAN /\ candidateAudible' \in BOOLEAN
    BY <1>2, <1>5 DEF IsHeard, Committed, Finished, TypeOK
  <1>14. finishedTranscript' \in Transcripts
    BY <1>2, <1>5 DEF Transcript, Transcripts, TypeOK
  <1>15. /\ kind' \in {"scored", "quick"} /\ phase' \in Phases
         /\ link' \in {"closed", "up", "disconnected", "failed"}
    BY <1>5 DEF TypeOK
  <1>16. QED
    BY <1>3, <1>6, <1>7, <1>8, <1>9, <1>10, <1>11, <1>12, <1>13, <1>14, <1>15 DEF TypeOK

----------------------------------------------------------------------------
(* The theorems. *)

LEMMA InitTypes == Init => TypeOK
  <1> SUFFICES ASSUME Init PROVE TypeOK
    OBVIOUS
  <1>1. elapsed \in Instants(kind)
    BY DEF Init, Instants
  <1>2. timeStatusSent \in 0 .. Len(timeStatusCheckpoints(BudgetOf(kind)))
    BY NotesFinite DEF Init
  <1>3. mute \in 0 .. Starve
    BY Figures DEF Init
  <1>4. silence \in SilenceClockState /\ guard \in ConnectionGuardState
    BY InitialTypes DEF Init
  <1>5. kind \in {"scored", "quick"}
    BY KindsAssumption DEF Init
  <1>6. QED BY <1>1, <1>2, <1>3, <1>4, <1>5 DEF Init, TypeOK, Transcripts, Phases

LEMMA NextTypes ==
  ASSUME TypeOK, [Next]_vars
  PROVE  TypeOK'
  <1>1. RoomTypes /\ EndTypes
    BY DEF TypeOK, RoomTypes, EndTypes
  <1>2. CASE Ticks
    <2>1. PICK dtS \in TickLengths, now \in {i \in Instants(kind) : i >= elapsed} :
            \E h \in Heard(dtS) : Tick(dtS, h, now)
      BY <1>2 DEF Ticks
    <2>2. PICK h \in Heard(dtS) : Tick(dtS, h, now)
      BY <2>1
    <2>3. QED BY <2>2, TickTypes
  <1>3. CASE Open
    <2>1. 0 \in 0 .. Starve
      BY Figures
    <2>2. QED BY <1>3, <2>1 DEF Open, endVars, Phases, TypeOK
  <1>4. CASE RecorderStopped \/ Reload
    <2>1. TornDown /\ kind' = kind
      BY <1>4 DEF RecorderStopped, Reload
    <2>2. RoomTypes'
      BY <2>1, TornDownTypes
    <2>3. EndTypes'
      <3>1. CASE RecorderStopped
        BY <1>1, <3>1 DEF RecorderStopped, EndTypes, Phases
      <3>2. CASE Reload
        BY <1>1, <3>2 DEF Reload, EndTypes, Phases
      <3>3. QED BY <1>4, <3>1, <3>2
    <2>4. QED BY <2>2, <2>3 DEF TypeOK, RoomTypes, EndTypes
  <1>5. CASE \/ Start \/ StartFails \/ Refused \/ LinkChanges \/ EndClicked \/ Signed \/ Put
             \/ Complete \/ UploadFails \/ Retry \/ Continue \/ UNCHANGED vars
    <2>1. UNCHANGED <<kind, roomVars>>
      BY <1>5 DEF Start, StartFails, Refused, LinkChanges, EndClicked, Signed, Put, Complete,
                  UploadFails, Retry, Continue, vars
    <2>2. RoomTypes'
      BY <1>1, <2>1, RoomKept
    <2>3. EndTypes'
      <3> USE <1>1 DEF EndTypes, Phases
      <3>1. CASE Start \/ StartFails \/ Refused
        BY <3>1 DEF Start, StartFails, Refused, endVars
      <3>2. CASE LinkChanges
        BY <3>2 DEF LinkChanges, endVars
      <3>3. CASE EndClicked
        BY <3>3 DEF EndClicked, Ending, Admitted
      <3>4. CASE Signed \/ UploadFails
        BY <3>4 DEF Signed, UploadFails
      <3>5. CASE Put
        BY <3>5 DEF Put
      <3>6. CASE Complete
        BY <3>6 DEF Complete
      <3>7. CASE Retry
        BY <3>7 DEF Retry
      <3>8. CASE Continue
        BY <3>8 DEF Continue, endVars
      <3>9. CASE UNCHANGED vars
        BY <3>9 DEF vars, endVars
      <3>10. QED BY <1>5, <3>1, <3>2, <3>3, <3>4, <3>5, <3>6, <3>7, <3>8, <3>9
    <2>4. QED BY <2>2, <2>3 DEF TypeOK, RoomTypes, EndTypes
  <1>6. QED BY <1>2, <1>3, <1>4, <1>5 DEF Next

\* Every state the room reaches has its shape: the clock's and the guard's
\* counters stay within what nextSilenceState and nextGuardState count to.
THEOREM RoomTypeCorrect == Spec => []TypeOK
  <1>1. Init => TypeOK
    BY InitTypes
  <1>2. TypeOK /\ [Next]_vars => TypeOK'
    BY NextTypes
  <1>3. QED BY <1>1, <1>2, PTL DEF Spec

\* The scaffold ladder never lags behind the silence and never runs ahead of
\* it, and no fuse of an owed turn burns past its time (nextSilenceState), for
\* every spacing of the rungs that one tick cannot jump.
THEOREM RoomLadderKeepsUp == Spec => []LadderKeepsUp
  <1>1. Init => TypeOK /\ LadderKeepsUp
    <2> SUFFICES ASSUME Init PROVE TypeOK /\ LadderKeepsUp
      OBVIOUS
    <2>1. silence.quietS = 0 /\ silence.stagesSent = 0
      BY DEF Init, InitialSilence
    <2>2. TypeOK /\ silence \in SilenceClockState
      BY InitTypes DEF TypeOK
    <2>3. QED BY <2>1, <2>2, FreshLadder DEF LadderKeepsUp
  <1>2. TypeOK /\ LadderKeepsUp /\ [Next]_vars => TypeOK' /\ LadderKeepsUp'
    <2> SUFFICES ASSUME TypeOK, LadderKeepsUp, [Next]_vars PROVE TypeOK' /\ LadderKeepsUp'
      OBVIOUS
    <2>1. TypeOK'
      BY NextTypes
    <2>2. silence \in SilenceClockState /\ silence' \in SilenceClockState
      BY <2>1 DEF TypeOK
    <2>3. CASE Ticks
      <3>0. PICK dtS \in TickLengths : \E h, now : Tick(dtS, h, now)
        BY <2>3 DEF Ticks
      <3>1. PICK h, now : Tick(dtS, h, now)
        BY <3>0
      <3>2. silence' = SilenceStep(dtS, h, now).state
        BY <3>1 DEF Tick
      <3>3. CASE TakesIn(h)
        <4>1. /\ SilenceTick(dtS, h, now).dtS \in Nat
              /\ SilenceTick(dtS, h, now).interviewerAudible \in BOOLEAN
              /\ SilenceTick(dtS, h, now).responseDone \in BOOLEAN
          BY TicksAssumption DEF SilenceTick, Finished
        <4>2. OnLadder(nextSilenceState(silence, SilenceTick(dtS, h, now)).state)
          BY <2>2, <4>1, ClockOnLadder DEF LadderKeepsUp
        <4>3. QED BY <2>1, <3>2, <3>3, <4>2 DEF SilenceStep, LadderKeepsUp
      <3>4. CASE ~TakesIn(h)
        <4>1. silence' = silence
          BY <3>2, <3>4, EffectsState DEF SilenceStep
        <4>2. QED BY <2>1, <4>1 DEF LadderKeepsUp
      <3>5. QED BY <2>1, <3>3, <3>4
    <2>4. CASE RecorderStopped \/ Reload
      <3>1. silence' = InitialSilence
        BY <2>4 DEF RecorderStopped, Reload, TornDown
      <3>2. silence'.quietS = 0 /\ silence'.stagesSent = 0
        BY <3>1 DEF InitialSilence
      <3>3. OnLadder(silence')
        BY <2>2, <3>2, FreshLadder
      <3>4. QED BY <2>1, <3>3 DEF LadderKeepsUp
    <2>5. CASE \/ Start \/ StartFails \/ Refused \/ Open \/ LinkChanges \/ EndClicked \/ Signed
               \/ Put \/ Complete \/ UploadFails \/ Retry \/ Continue \/ UNCHANGED vars
      <3>1. silence' = silence
        BY <2>5 DEF Start, StartFails, Refused, Open, LinkChanges, EndClicked, Signed, Put,
                    Complete, UploadFails, Retry, Continue, vars, roomVars
      <3>2. QED BY <2>1, <3>1 DEF LadderKeepsUp
    <2>6. QED BY <2>3, <2>4, <2>5 DEF Next
  <1>3. QED BY <1>1, <1>2, PTL DEF Spec

----------------------------------------------------------------------------
(* The endings. *)

\* Where an ending stands: at most one is under way, only in a live room, and
\* the upload it leads to has its steps in order.
EndingControl ==
  /\ stopping \in {{}, {"finish"}, {"lose"}}
  /\ stopping # {} => phase = "live" /\ endingRef
  /\ phase \in {"ready", "connecting", "live", "connection-lost"} => ~posted /\ step = "none"
  /\ phase = "completing" => kind = "quick"
  /\ (step = "complete" \/ posted) /\ kind = "scored" => stored
  /\ phase # "live" => ~silence.closingSeen /\ guard = InitialGuard

LEMMA EndingControlStep ==
  ASSUME TypeOK, EndingControl, [Next]_vars
  PROVE  EndingControl'
  <1> USE DEF EndingControl
  <1>1. CASE Ticks \/ EndClicked
    <2>1. PICK wanted : /\ phase = "live" /\ ~endingRef /\ Ending(wanted)
                        /\ kind' = kind /\ phase' = phase
      <3>1. CASE Ticks
        <4>1. PICK dtS, h, now : Tick(dtS, h, now)
          BY <3>1 DEF Ticks
        <4>2. QED BY <4>1 DEF Tick
      <3>2. CASE EndClicked
        BY <3>2 DEF EndClicked
      <3>3. QED BY <1>1, <3>1, <3>2
    <2>2. stopping' \in {{}, {"finish"}, {"lose"}} /\ (stopping' # {} => endingRef')
      BY <2>1 DEF Ending, Admitted
    <2>3. UNCHANGED <<step, posted, stored>>
      BY <2>1 DEF Ending
    <2>4. QED BY <2>1, <2>2, <2>3
  <1>2. CASE Start \/ StartFails \/ Refused
    BY <1>2 DEF Start, StartFails, Refused, roomVars, endVars
  <1>3. CASE Open \/ LinkChanges
    BY <1>3 DEF Open, LinkChanges, roomVars, endVars
  <1>4. CASE RecorderStopped
    <2>1. ~silence'.closingSeen /\ guard' = InitialGuard
      BY <1>4 DEF RecorderStopped, TornDown, InitialSilence
    <2>2. PICK f \in stopping :
            /\ stopping' = stopping \ {f}
            /\ phase' = CASE f = "lose" -> "connection-lost"
                          [] f = "finish" /\ kind = "quick" -> "completing"
                          [] OTHER -> "uploading"
            /\ step' = IF f = "lose" THEN step ELSE IF kind = "quick" THEN "complete" ELSE "sign"
            /\ UNCHANGED <<kind, endingRef, error, stored, posted>>
      BY <1>4 DEF RecorderStopped
    <2>3. stopping' = {} /\ phase = "live" /\ f \in {"finish", "lose"}
      BY <2>2
    <2>4. CASE f = "lose"
      BY <2>1, <2>2, <2>3, <2>4
    <2>5. CASE f = "finish"
      BY <2>1, <2>2, <2>3, <2>5
    <2>6. QED BY <2>3, <2>4, <2>5
  <1>5. CASE Signed \/ Put \/ UploadFails
    BY <1>5 DEF Signed, Put, UploadFails, roomVars
  <1>6. CASE Complete
    BY <1>6 DEF Complete, roomVars
  <1>7. CASE Retry
    BY <1>7 DEF Retry, roomVars, TypeOK
  <1>8. CASE Continue
    BY <1>8 DEF Continue, roomVars, endVars
  <1>9. CASE Reload
    BY <1>9 DEF Reload, TornDown, InitialSilence
  <1>10. CASE UNCHANGED vars
    BY <1>10 DEF vars, roomVars, endVars
  <1>11. QED
    BY <1>1, <1>2, <1>3, <1>4, <1>5, <1>6, <1>7, <1>8, <1>9, <1>10 DEF Next

LEMMA EndingControlHolds == Spec => [](TypeOK /\ EndingControl)
  <1>1. Init => TypeOK /\ EndingControl
    BY InitTypes DEF Init, EndingControl, InitialSilence
  <1>2. TypeOK /\ EndingControl /\ [Next]_vars => TypeOK' /\ EndingControl'
    BY NextTypes, EndingControlStep
  <1>3. QED BY <1>1, <1>2, PTL DEF Spec

\* A room that ended for its connection never posts complete, whichever of
\* endSession and endForConnectionLoss its last tick called first.
THEOREM RoomLostIsNotCharged == Spec => []LostIsNotCharged
  <1>1. EndingControl => LostIsNotCharged
    BY DEF EndingControl, LostIsNotCharged
  <1>2. QED BY <1>1, EndingControlHolds, PTL

\* A scored interview is posted for scoring only with its recording in storage,
\* through every lost answer and every retry of uploadAndComplete.
THEOREM RoomPostedIsStored == Spec => []PostedIsStored
  <1>1. EndingControl => PostedIsStored
    BY DEF EndingControl, PostedIsStored
  <1>2. QED BY <1>1, EndingControlHolds, PTL

\* Both of what a post for scoring takes (endSession, endForConnectionLoss).
THEOREM RoomPostedIsOwed == Spec => []PostedIsOwed
  <1>1. LostIsNotCharged /\ PostedIsStored => PostedIsOwed
    BY DEF PostedIsOwed
  <1>2. QED BY <1>1, RoomLostIsNotCharged, RoomPostedIsStored, PTL

----------------------------------------------------------------------------
(* The guard, and the goodbye. *)

\* The reducer asks Morgan to speak only into a quiet room, before the goodbye.
LEMMA SpeaksIntoQuiet ==
  ASSUME NEW s \in SilenceClockState, NEW t, t.interviewerAudible \in BOOLEAN,
         t.responseDone \in BOOLEAN, nextSilenceState(s, t).speak # "none"
  PROVE  ~t.interviewerAudible /\ ~s.closingSeen
  <1> DEFINE taken == TakenIn(s, t)
             armed == Armed(taken, t)
  <1>1. taken \in SilenceClockState /\ taken.closingSeen = Closes(s, t)
    <2>1. taken \in SilenceClockState
      BY TakenTypes
    <2>2. taken.closingSeen = Closes(s, t)
      BY DEF TakenIn, SilenceClockState
    <2>3. QED BY <2>1, <2>2
  <1>2. /\ Closing(taken, t).speak = "none" /\ Resumed(taken).speak = "none"
        /\ Silently([armed EXCEPT !.episodeS = 0]).speak = "none"
        /\ CandidateHeard(armed, t).speak = "none"
    BY DEF Closing, Resumed, CandidateHeard, Silently, Effects
  <1>3. taken.closingSeen \in BOOLEAN
    BY <1>1 DEF SilenceClockState
  <1>4. ~taken.closingSeen /\ ~t.interviewerAudible
    BY <1>2, <1>3 DEF nextSilenceState
  <1>5. QED BY <1>1, <1>4 DEF Closes

LEMMA SilentlySpeaks == \A s : Silently(s).speak = "none"
  BY DEF Silently, Effects

\* A tick asks only while Morgan is not audible and has not said goodbye.
LEMMA AskedIntoQuiet ==
  ASSUME TypeOK, NEW dtS, NEW h, NEW now, SilenceStep(dtS, h, now).speak # "none"
  PROVE  ~(h.morgan \in Audible) /\ ~silence.closingSeen
  <1> DEFINE t == SilenceTick(dtS, h, now)
  <1>1. TakesIn(h)
    BY SilentlySpeaks DEF SilenceStep
  <1>2. t.interviewerAudible <=> h.morgan \in Audible
    BY DEF SilenceTick
  <1>3. t.interviewerAudible \in BOOLEAN /\ t.responseDone \in BOOLEAN
    BY DEF SilenceTick, Finished
  <1>4. nextSilenceState(silence, t).speak # "none"
    BY <1>1 DEF SilenceStep
  <1>5. silence \in SilenceClockState
    BY DEF TypeOK
  <1> HIDE DEF t
  <1>6. ~t.interviewerAudible /\ ~silence.closingSeen
    BY <1>3, <1>4, <1>5, SpeaksIntoQuiet
  <1>7. QED BY <1>2, <1>6

\* What the guard owes its patience to: a response it waits for is really under
\* way, and it has starved no longer than the server has been mute.
Watching ==
  /\ responseRequested => morgan = "thinking"
  /\ guard.responsePending => morgan \in {"thinking", "speaking"}
  /\ morgan = "idle" => mute = 0
  /\ guard.starvedS <= mute
  /\ "lose" \in stopping => link # "up"

\* What a tick tells the guard and the model.
LEMMA HeardMorgan ==
  ASSUME TypeOK, NEW dtS, NEW h \in Heard(dtS)
  PROVE  /\ h.message \/ h.morgan = morgan
         /\ h.message \/ \/ morgan = "idle" \/ link # "up" \/ dtS >= Gap
                         \/ mute + dtS <= MaxMute
         /\ h.morgan \in Onward(morgan) \cup {morgan}
  <1>1. CASE h = Nothing
    BY <1>1 DEF Heard, Nothing
  <1>2. CASE h # Nothing
    <2>1. h \in [message : {TRUE}, candidate : BOOLEAN, commit : BOOLEAN,
                 morgan : Onward(morgan),
                 transcript : IF morgan \in {"thinking", "speaking"}
                              THEN Transcripts ELSE {"none"}]
      BY <1>2 DEF Heard
    <2>2. QED BY <2>1
  <1>3. QED BY <1>1, <1>2

\* A tick of a live room keeps the watch honest: with the transport up, what
\* the server owes it sends before the guard's patience is spent.
LEMMA TickWatching ==
  ASSUME TypeOK, EndingControl, Watching, NEW dtS \in TickLengths, NEW h \in Heard(dtS), NEW now,
         Tick(dtS, h, now)
  PROVE  Watching'
  <1> DEFINE out == SilenceStep(dtS, h, now)
             asks == out.speak # "none" /\ ~NoteDue(now)
             g == GuardTick(dtS, h, asks)
             watch == nextGuardState(guard, g)
             wanted == {w \in {"goodbye"} : out.end} \cup {w \in {"trip"} : watch.ends}
                       \cup {w \in {"cut"} : ~watch.ends /\ now >= HardCutOf(kind)}
             pending == responseRequested \/ asks \/ (guard.responsePending /\ ~Finished(h))
             starved == IF h.message THEN 0
                        ELSE IF h.morgan \in Audible \/ pending
                        THEN AtMost(guard.starvedS + dtS, Starve) ELSE guard.starvedS
  <1>1. /\ phase = "live" /\ ~endingRef /\ Ending(wanted) /\ link' = link
        /\ responseRequested' = FALSE /\ guard' = watch.state
        /\ morgan' = IF asks /\ h.morgan = "idle" THEN "thinking" ELSE h.morgan
        /\ mute' = IF h.message \/ morgan' = "idle" THEN 0
                   ELSE IF dtS >= Gap THEN mute ELSE AtMost(mute + dtS, Starve)
    BY DEF Tick
  <1>2. asks => ~(h.morgan \in Audible)
    BY AskedIntoQuiet
  <1>3. /\ dtS \in Nat /\ Gap \in Nat /\ Gap > 0 /\ Starve \in Nat /\ Grace \in Nat
        /\ Grace > 0 /\ MaxMute \in Nat /\ MaxMute + Gap <= Starve
    BY TicksAssumption, Figures, FiguresPositive, TrafficAssumption
  <1>4. /\ mute \in 0 .. Starve /\ guard.starvedS \in 0 .. Starve
        /\ morgan \in {"idle", "thinking", "speaking", "trailing"}
        /\ h.morgan \in {"idle", "thinking", "speaking", "trailing"}
    BY HeardTypes DEF TypeOK, ConnectionGuardState, Audible
  <1>5. /\ dtS >= Gap => watch.state = InitialGuard /\ ~watch.ends
        /\ ~(dtS >= Gap) =>
             /\ watch.state.starvedS = starved /\ watch.state.responsePending = pending
             /\ link = "up" => (watch.ends <=> starved >= Starve)
    <2>1. CASE dtS >= Gap
      BY <1>3, <2>1 DEF nextGuardState, GuardTick
    <2>2. CASE ~(dtS >= Gap)
      <3>1. watch.state.starvedS = starved
        BY <2>2 DEF nextGuardState, GuardTick, Expects
      <3>2. watch.state.responsePending = pending
        BY <2>2 DEF nextGuardState, GuardTick
      <3>3. ASSUME link = "up" PROVE watch.ends <=> starved >= Starve
        <4>1. ~(0 >= Grace)
          BY <1>3
        <4>2. QED BY <2>2, <3>3, <4>1 DEF nextGuardState, GuardTick, Expects
      <3>4. QED BY <2>2, <3>1, <3>2, <3>3
    <2>3. QED BY <2>1, <2>2
  <1>6. stopping = {}
    BY <1>1 DEF EndingControl
  <1>7. "lose" \in stopping' => watch.ends
    BY <1>1, <1>6 DEF Ending, Admitted
  <1> HIDE DEF out, asks, g, watch, wanted
  <1>8. pending => h.morgan \in {"thinking", "speaking"} \/ morgan' = "thinking"
    <2>1. CASE responseRequested
      <3>1. h.morgan \in {"thinking", "speaking"}
        BY <2>1, HeardMorgan DEF Watching, Onward
      <3>2. QED BY <3>1
    <2>2. CASE asks
      BY <1>1, <1>2, <1>4, <2>2 DEF Audible
    <2>3. CASE guard.responsePending /\ ~Finished(h)
      BY <1>4, <2>3 DEF Watching, Finished
    <2>4. QED BY <2>1, <2>2, <2>3
  <1>9. guard'.responsePending => morgan' \in {"thinking", "speaking"}
    <2>1. CASE dtS >= Gap
      BY <1>1, <1>5, <2>1 DEF InitialGuard
    <2>2. CASE ~(dtS >= Gap)
      BY <1>1, <1>5, <1>8, <2>2
    <2>3. QED BY <2>1, <2>2
  <1>10. morgan' = "idle" => mute' = 0
    BY <1>1
  <1> HIDE DEF pending
  <1>11. ~h.message /\ morgan' = "idle" => starved = 0
    <2> SUFFICES ASSUME ~h.message, morgan' = "idle" PROVE starved = 0
      OBVIOUS
    <2>1. h.morgan = "idle" /\ morgan = "idle"
      BY <1>1, HeardMorgan
    <2>2. mute = 0 /\ guard.starvedS = 0
      BY <1>4, <2>1 DEF Watching
    <2>3. ~pending /\ ~(h.morgan \in Audible)
      BY <1>8, <2>1 DEF Audible
    <2>4. QED BY <2>2, <2>3
  <1>12. starved \in Nat /\ starved <= guard.starvedS + dtS
    BY <1>3, <1>4 DEF AtMost
  <1>13. ~h.message => starved <= AtMost(mute + dtS, Starve)
    BY <1>3, <1>4 DEF AtMost, Watching
  <1> HIDE DEF starved
  <1>14. guard'.starvedS <= mute'
    <2>1. CASE dtS >= Gap
      <3>1. guard'.starvedS = 0
        BY <1>1, <1>5, <2>1 DEF InitialGuard
      <3>2. mute' \in {0, mute}
        BY <1>1, <2>1
      <3>3. QED BY <1>4, <3>1, <3>2
    <2>2. CASE ~(dtS >= Gap)
      <3>1. guard'.starvedS = starved
        BY <1>1, <1>5, <2>2
      <3>2. CASE h.message
        BY <1>1, <3>1, <3>2 DEF starved
      <3>3. CASE ~h.message /\ morgan' = "idle"
        BY <1>1, <1>11, <3>1, <3>3
      <3>4. CASE ~h.message /\ morgan' # "idle"
        BY <1>1, <1>13, <2>2, <3>1, <3>4
      <3>5. QED BY <3>2, <3>3, <3>4
    <2>3. QED BY <2>1, <2>2
  <1>15. "lose" \in stopping' => link' # "up"
    <2> SUFFICES ASSUME "lose" \in stopping', link = "up" PROVE FALSE
      BY <1>1
    <2>1. ~(dtS >= Gap) /\ starved >= Starve
      BY <1>5, <1>7
    <2>2. ~h.message
      BY <1>3, <2>1 DEF starved
    <2>3. h.morgan = morgan /\ (morgan = "idle" \/ mute + dtS <= MaxMute)
      BY <2>1, <2>2, HeardMorgan
    <2>4. CASE morgan = "idle"
      <3>1. guard.starvedS = 0
        BY <1>4, <2>4 DEF Watching
      <3>2. QED BY <1>3, <1>12, <2>1, <3>1
    <2>5. CASE mute + dtS <= MaxMute
      <3>1. guard.starvedS + dtS <= MaxMute
        BY <1>3, <1>4, <2>5 DEF Watching
      <3>2. QED BY <1>3, <1>4, <1>12, <2>1, <3>1
    <2>6. QED BY <2>3, <2>4, <2>5
  <1>16. QED BY <1>1, <1>9, <1>10, <1>14, <1>15 DEF Watching

LEMMA WatchingStep ==
  ASSUME TypeOK, EndingControl, Watching, [Next]_vars
  PROVE  Watching'
  <1>1. CASE Ticks
    <2>1. PICK dtS \in TickLengths, now \in Instants(kind) : \E h \in Heard(dtS) : Tick(dtS, h, now)
      BY <1>1 DEF Ticks
    <2>2. PICK h \in Heard(dtS) : Tick(dtS, h, now)
      BY <2>1
    <2>3. QED BY <2>2, TickWatching
  <1>2. CASE Open
    <2>1. guard = InitialGuard /\ stopping = {}
      BY <1>2 DEF Open, EndingControl
    <2>2. /\ guard' = InitialGuard /\ stopping' = {} /\ morgan' = "thinking" /\ mute' = 0
      BY <1>2, <2>1 DEF Open, endVars
    <2>3. QED BY <2>2 DEF Watching, InitialGuard
  <1>3. CASE LinkChanges
    <2>1. stopping = {}
      BY <1>3 DEF LinkChanges, EndingControl
    <2>2. QED BY <1>3, <2>1 DEF LinkChanges, Watching, roomVars, endVars
  <1>4. CASE EndClicked
    <2>1. "lose" \notin stopping'
      BY <1>4 DEF EndClicked, Ending, Admitted, EndingControl
    <2>2. QED BY <1>4, <2>1 DEF EndClicked, Watching, roomVars
  <1>5. CASE RecorderStopped
    <2>1. link' = "closed" /\ TornDown
      BY <1>5 DEF RecorderStopped
    <2>2. QED BY <2>1 DEF TornDown, InitialGuard, Watching
  <1>6. CASE Reload
    <2>1. link' = "closed" /\ TornDown
      BY <1>6 DEF Reload
    <2>2. QED BY <2>1 DEF TornDown, InitialGuard, Watching
  <1>7. CASE \/ Start \/ StartFails \/ Refused \/ Signed \/ Put \/ Complete \/ UploadFails
             \/ Retry \/ Continue \/ UNCHANGED vars
    <2>1. UNCHANGED <<responseRequested, morgan, mute, guard, stopping, link>>
      BY <1>7 DEF Start, StartFails, Refused, Signed, Put, Complete, UploadFails, Retry, Continue,
                  vars, roomVars, endVars
    <2>2. QED BY <2>1 DEF Watching
  <1>8. QED BY <1>1, <1>2, <1>3, <1>4, <1>5, <1>6, <1>7 DEF Next

LEMMA WatchingHolds == Spec => [](TypeOK /\ EndingControl /\ Watching)
  <1>1. Init => TypeOK /\ EndingControl /\ Watching
    BY InitTypes DEF Init, EndingControl, InitialSilence, InitialGuard, Watching
  <1>2. TypeOK /\ EndingControl /\ Watching /\ [Next]_vars
          => TypeOK' /\ EndingControl' /\ Watching'
    BY NextTypes, EndingControlStep, WatchingStep
  <1>3. QED BY <1>1, <1>2, PTL DEF Spec

\* nextGuardState never takes a well room for a dead one: with the transport up
\* and a server that sends what it owes within the guard's patience, less one
\* tick, no room ends for its connection.
THEOREM RoomLostWasBroken == Spec => []LostWasBroken
  <1>1. Watching => LostWasBroken
    BY DEF Watching, LostWasBroken
  <1>2. QED BY <1>1, WatchingHolds, PTL

\* Once nextSilenceState has recognised the goodbye and Morgan has fallen
\* silent, no step of the room makes him speak again in that interview.
THEOREM RoomGoodbyeIsLast == Spec => GoodbyeIsLast
  <1> DEFINE Stays == silence.closingSeen /\ morgan = "idle" => morgan' = "idle"
  <1>1. TypeOK /\ EndingControl /\ Watching /\ [Next]_vars => [Stays]_vars
    <2> SUFFICES ASSUME TypeOK, EndingControl, Watching, [Next]_vars,
                        silence.closingSeen, morgan = "idle"
                 PROVE  morgan' = "idle"
      OBVIOUS
    <2>1. CASE Ticks
      <3>1. PICK dtS \in TickLengths, now \in Instants(kind) : \E h \in Heard(dtS) : Tick(dtS, h, now)
        BY <2>1 DEF Ticks
      <3>2. PICK h \in Heard(dtS) : Tick(dtS, h, now)
        BY <3>1
      <3>3. ~responseRequested
        BY DEF Watching
      <3>4. h.morgan = "idle"
        BY <3>3, HeardMorgan DEF Onward
      <3>5. SilenceStep(dtS, h, now).speak = "none"
        BY AskedIntoQuiet
      <3>6. QED BY <3>2, <3>4, <3>5 DEF Tick
    <2>2. CASE RecorderStopped \/ Reload
      BY <2>2 DEF RecorderStopped, Reload, TornDown
    <2>3. CASE Open
      BY <2>3 DEF Open, EndingControl
    <2>4. CASE \/ Start \/ StartFails \/ Refused \/ LinkChanges \/ EndClicked \/ Signed \/ Put
               \/ Complete \/ UploadFails \/ Retry \/ Continue \/ UNCHANGED vars
      BY <2>4 DEF Start, StartFails, Refused, LinkChanges, EndClicked, Signed, Put, Complete,
                  UploadFails, Retry, Continue, vars, roomVars
    <2>5. QED BY <2>1, <2>2, <2>3, <2>4 DEF Next
  <1>2. QED BY <1>1, WatchingHolds, PTL DEF Spec, GoodbyeIsLast

=============================================================================
