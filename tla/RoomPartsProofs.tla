-------------------------- MODULE RoomPartsProofs --------------------------
(***************************************************************************)
(* The parts of the interview room are right for any number of attempts,   *)
(* beats, entries and widgets, and for every ladder and window that        *)
(* MCRoomParts assumes: one live attempt with what it acquired, holes of   *)
(* the trail that are known, ears that tell two voices apart, and a clock  *)
(* that pays what its shadow says it owes.                                 *)
(* Each part has an inductive invariant of its own; a step of another part *)
(* leaves its variables as they are.                                       *)
(***************************************************************************)
EXTENDS MCRoomParts, FiniteSetTheorems, TLAPS

-----------------------------------------------------------------------------
(* The entry (RoomEntry) *)

\* Where an attempt stands.
Places == {"unused", "gum", "denied", "resume", "mint", "count", "secret-counted",
           "secret-uncounted", "offer", "opening", "live", "reloading", "done"}
\* On its way or live, with a call, with the microphone, with a recorder of its own.
Busy == Places \ {"unused", "denied", "done"}
CallPlaces == {"offer", "opening", "live"}
HasMic == Busy \ {"gum"}
HasRecorder == HasMic \ {"resume"}

\* What the screen, the refs, the attempts and the world may be.
ScreenTypes ==
  /\ page \in {"none", "unavailable", "quick-report", "ended", "blocked", "closed", "room"}
  /\ phase \in {"ready", "connecting", "live"}
  /\ refused \in BOOLEAN
RefTypes ==
  refs \in [connecting : BOOLEAN, mic : Attempts \cup {None}, audio : BOOLEAN,
            recorder : Attempts \cup {None}, pc : Attempts \cup {None}]
AttemptTypes ==
  /\ at \in [Attempts -> Places]
  /\ stream \in [Attempts -> {"none", "live", "stopped"}]
  /\ recorder \in [Attempts -> {"none", "built", "recording", "stopped"}]
  /\ peer \in [Attempts -> {"none", "open", "closed"}]
WorldTypes ==
  /\ tab \in [has : SUBSET {"calls", "recorder", "container"}, unscored : BOOLEAN, muted : BOOLEAN]
  /\ world \in [row : {"planned", "quick_done", "scoring", "failed"},
                package : {"open", "locked", "expired"},
                capability : {"active", "lapsed"}, secret_mints : Nat]
  /\ tab.unscored => world.package = "open"

\* The types of the entry, together.
EntryTypes == ScreenTypes /\ RefTypes /\ AttemptTypes /\ WorldTypes

\* One attempt at most is on its way or live, and the guard is set as long.
OneAttempt ==
  /\ \A a \in Attempts : at[a] \in Busy => refs.connecting
  /\ \A a, b \in Attempts : at[a] \in Busy /\ at[b] \in Busy => a = b

\* What the refs hold is what the attempt on its way has come by, and nobody else holds any.
Acquired ==
  /\ phase = "ready" => ~refs.connecting
  /\ phase = "live" => refs.pc # None /\ at[refs.pc] = "live"
  /\ \A a \in Attempts : at[a] = "live" => phase = "live"
  /\ refs.connecting => \E a \in Attempts : at[a] \in Busy
  /\ refs.mic # None => stream[refs.mic] = "live"
  /\ \A a \in Attempts :
       /\ at[a] \in HasMic => refs.mic # None /\ refs.audio
       /\ at[a] \in HasRecorder =>
            /\ ~tab.muted /\ Entry!pickRecorderMimeType
            /\ refs.recorder = IF tab.unscored THEN None ELSE a
       /\ at[a] \in Busy => Entry!BrowserGate
       /\ peer[a] = "open" <=> at[a] \in CallPlaces
       /\ refs.pc = a <=> at[a] \in CallPlaces
       /\ recorder[a] = "recording" <=> at[a] = "live" /\ ~tab.unscored

\* Secrets that the counter let through stay within the cap, and one more is to come
\* for an attempt that was let through and has not been answered.
CountedSecrets == {m \in minted : m.counted}
Bought ==
  /\ minted \subseteq [of : Attempts, counted : BOOLEAN]
  /\ minted # {} => ~tab.muted /\ Entry!pickRecorderMimeType /\ Entry!BrowserGate
  /\ IsFiniteSet(CountedSecrets)
  /\ Cardinality(CountedSecrets) <= secret_mint_cap
  /\ Cardinality(CountedSecrets) <= world.secret_mints
  /\ \A a \in Attempts : at[a] = "secret-counted" =>
       /\ Cardinality(CountedSecrets) < secret_mint_cap
       /\ Cardinality(CountedSecrets) < world.secret_mints

\* A refusal is told by the screen that the reload lands on.
Told ==
  /\ refused => Entry!endedRoomNotice \/ Entry!RoomIsClosed
  /\ Entry!ReloadLands
  /\ \A a \in Attempts : at[a] \in Busy => page = "room"

\* The inductive invariant of the entry.
EntryInv == EntryTypes /\ OneAttempt /\ Acquired /\ Bought /\ Told

\* Every step keeps the types.
LEMMA EntryTypesStep ==
  ASSUME EntryTypes, Entry!Next
  PROVE  EntryTypes'
  <1> USE EntryConstants DEF Entry!Moves, Entry!GivesUp, Entry!Fails, Entry!ConnectFails,
        Entry!Begin, Entry!NoRefs, Entry!Dismantle, Entry!media
  <1>i. ScreenTypes /\ RefTypes /\ AttemptTypes /\ WorldTypes
    BY DEF EntryTypes
  <1>1. ASSUME Entry!Load PROVE EntryTypes'
    <2>1. ScreenTypes'
      BY <1>1, <1>i DEF Entry!Load, ScreenTypes, Entry!endedRoomNotice, Entry!SessionRoomPage
    <2>2. RefTypes'
      BY <1>1, <1>i DEF Entry!Load, RefTypes
    <2>3. AttemptTypes'
      BY <1>1, <1>i DEF Entry!Load, AttemptTypes, Places, RefTypes
    <2>4. WorldTypes'
      BY <1>1, <1>i DEF Entry!Load, WorldTypes, Entry!endedRoomNotice
    <2> QED
      BY <2>1, <2>2, <2>3, <2>4 DEF EntryTypes
  <1>2. ASSUME Entry!PermissionFlips PROVE EntryTypes'
    <2>1. ScreenTypes'
      BY <1>2, <1>i DEF Entry!PermissionFlips, ScreenTypes, Entry!endedRoomNotice,
        Entry!SessionRoomPage
    <2>2. RefTypes'
      BY <1>2, <1>i DEF Entry!PermissionFlips, RefTypes
    <2>3. AttemptTypes'
      BY <1>2, <1>i DEF Entry!PermissionFlips, AttemptTypes, Places, RefTypes
    <2>4. WorldTypes'
      BY <1>2, <1>i DEF Entry!PermissionFlips, WorldTypes, Entry!endedRoomNotice
    <2> QED
      BY <2>1, <2>2, <2>3, <2>4 DEF EntryTypes
  <1>3. ASSUME Entry!WorldMoves PROVE EntryTypes'
    <2>1. ScreenTypes'
      BY <1>3, <1>i DEF Entry!WorldMoves, ScreenTypes, Entry!endedRoomNotice,
        Entry!SessionRoomPage
    <2>2. RefTypes'
      BY <1>3, <1>i DEF Entry!WorldMoves, RefTypes
    <2>3. AttemptTypes'
      BY <1>3, <1>i DEF Entry!WorldMoves, AttemptTypes, Places, RefTypes
    <2>4. WorldTypes'
      BY <1>3, <1>i DEF Entry!WorldMoves, WorldTypes, Entry!endedRoomNotice
    <2> QED
      BY <2>1, <2>2, <2>3, <2>4 DEF EntryTypes
  <1>4. ASSUME NEW a \in Attempts, Entry!Start(a) PROVE EntryTypes'
    <2>1. ScreenTypes'
      BY <1>4, <1>i DEF Entry!Start, ScreenTypes, Entry!endedRoomNotice, Entry!SessionRoomPage
    <2>2. RefTypes'
      BY <1>4, <1>i DEF Entry!Start, RefTypes
    <2>3. AttemptTypes'
      BY <1>4, <1>i DEF Entry!Start, AttemptTypes, Places, RefTypes
    <2>4. WorldTypes'
      BY <1>4, <1>i DEF Entry!Start, WorldTypes, Entry!endedRoomNotice
    <2> QED
      BY <2>1, <2>2, <2>3, <2>4 DEF EntryTypes
  <1>5. ASSUME NEW a \in Attempts, Entry!GumOk(a) PROVE EntryTypes'
    <2>1. ScreenTypes'
      BY <1>5, <1>i DEF Entry!GumOk, ScreenTypes, Entry!endedRoomNotice, Entry!SessionRoomPage
    <2>2. RefTypes'
      BY <1>5, <1>i DEF Entry!GumOk, RefTypes
    <2>3. AttemptTypes'
      BY <1>5, <1>i DEF Entry!GumOk, AttemptTypes, Places, RefTypes
    <2>4. WorldTypes'
      BY <1>5, <1>i DEF Entry!GumOk, WorldTypes, Entry!endedRoomNotice
    <2> QED
      BY <2>1, <2>2, <2>3, <2>4 DEF EntryTypes
  <1>6. ASSUME NEW a \in Attempts, Entry!GumFails(a) PROVE EntryTypes'
    <2>1. ScreenTypes'
      BY <1>6, <1>i DEF Entry!GumFails, ScreenTypes, Entry!endedRoomNotice,
        Entry!SessionRoomPage
    <2>2. RefTypes'
      BY <1>6, <1>i DEF Entry!GumFails, RefTypes
    <2>3. AttemptTypes'
      BY <1>6, <1>i DEF Entry!GumFails, AttemptTypes, Places, RefTypes
    <2>4. WorldTypes'
      BY <1>6, <1>i DEF Entry!GumFails, WorldTypes, Entry!endedRoomNotice
    <2> QED
      BY <2>1, <2>2, <2>3, <2>4 DEF EntryTypes
  <1>7. ASSUME NEW a \in Attempts, Entry!Resume(a) PROVE EntryTypes'
    <2>1. ScreenTypes'
      BY <1>7, <1>i DEF Entry!Resume, ScreenTypes, Entry!endedRoomNotice, Entry!SessionRoomPage
    <2>2. RefTypes'
      BY <1>7, <1>i DEF Entry!Resume, RefTypes
    <2>3. AttemptTypes'
      BY <1>7, <1>i DEF Entry!Resume, AttemptTypes, Places, RefTypes
    <2>4. WorldTypes'
      BY <1>7, <1>i DEF Entry!Resume, WorldTypes, Entry!endedRoomNotice
    <2> QED
      BY <2>1, <2>2, <2>3, <2>4 DEF EntryTypes
  <1>8. ASSUME NEW a \in Attempts, Entry!Authorize(a) PROVE EntryTypes'
    <2>1. ScreenTypes'
      BY <1>8, <1>i DEF Entry!Authorize, ScreenTypes, Entry!endedRoomNotice,
        Entry!SessionRoomPage
    <2>2. RefTypes'
      BY <1>8, <1>i DEF Entry!Authorize, RefTypes
    <2>3. AttemptTypes'
      BY <1>8, <1>i DEF Entry!Authorize, AttemptTypes, Places, RefTypes
    <2>4. WorldTypes'
      BY <1>8, <1>i DEF Entry!Authorize, WorldTypes, Entry!endedRoomNotice
    <2> QED
      BY <2>1, <2>2, <2>3, <2>4 DEF EntryTypes
  <1>9. ASSUME NEW a \in Attempts, Entry!Count(a) PROVE EntryTypes'
    <2>1. ScreenTypes'
      BY <1>9, <1>i DEF Entry!Count, ScreenTypes, Entry!endedRoomNotice, Entry!SessionRoomPage
    <2>2. RefTypes'
      BY <1>9, <1>i DEF Entry!Count, RefTypes
    <2>3. AttemptTypes'
      BY <1>9, <1>i DEF Entry!Count, AttemptTypes, Places, RefTypes
    <2>4. WorldTypes'
      BY <1>9, <1>i DEF Entry!Count, WorldTypes, Entry!endedRoomNotice
    <2> QED
      BY <2>1, <2>2, <2>3, <2>4 DEF EntryTypes
  <1>10. ASSUME NEW a \in Attempts, Entry!Secret(a) PROVE EntryTypes'
    <2>1. ScreenTypes'
      BY <1>10, <1>i DEF Entry!Secret, ScreenTypes, Entry!endedRoomNotice, Entry!SessionRoomPage
    <2>2. RefTypes'
      BY <1>10, <1>i DEF Entry!Secret, RefTypes
    <2>3. AttemptTypes'
      BY <1>10, <1>i DEF Entry!Secret, AttemptTypes, Places, RefTypes
    <2>4. WorldTypes'
      BY <1>10, <1>i DEF Entry!Secret, WorldTypes, Entry!endedRoomNotice
    <2> QED
      BY <2>1, <2>2, <2>3, <2>4 DEF EntryTypes
  <1>11. ASSUME NEW a \in Attempts, Entry!Offer(a) PROVE EntryTypes'
    <2>1. ScreenTypes'
      BY <1>11, <1>i DEF Entry!Offer, ScreenTypes, Entry!endedRoomNotice, Entry!SessionRoomPage
    <2>2. RefTypes'
      BY <1>11, <1>i DEF Entry!Offer, RefTypes
    <2>3. AttemptTypes'
      BY <1>11, <1>i DEF Entry!Offer, AttemptTypes, Places, RefTypes
    <2>4. WorldTypes'
      BY <1>11, <1>i DEF Entry!Offer, WorldTypes, Entry!endedRoomNotice
    <2> QED
      BY <2>1, <2>2, <2>3, <2>4 DEF EntryTypes
  <1>12. ASSUME NEW a \in Attempts, Entry!Open(a) PROVE EntryTypes'
    <2>1. ScreenTypes'
      BY <1>12, <1>i DEF Entry!Open, ScreenTypes, Entry!endedRoomNotice, Entry!SessionRoomPage
    <2>2. RefTypes'
      BY <1>12, <1>i DEF Entry!Open, RefTypes
    <2>3. AttemptTypes'
      BY <1>12, <1>i DEF Entry!Open, AttemptTypes, Places, RefTypes
    <2>4. WorldTypes'
      BY <1>12, <1>i DEF Entry!Open, WorldTypes, Entry!endedRoomNotice
    <2> QED
      BY <2>1, <2>2, <2>3, <2>4 DEF EntryTypes
  <1>13. ASSUME NEW a \in Attempts, Entry!OpenFails(a) PROVE EntryTypes'
    <2>1. ScreenTypes'
      BY <1>13, <1>i DEF Entry!OpenFails, ScreenTypes, Entry!endedRoomNotice,
        Entry!SessionRoomPage
    <2>2. RefTypes'
      BY <1>13, <1>i DEF Entry!OpenFails, RefTypes
    <2>3. AttemptTypes'
      BY <1>13, <1>i DEF Entry!OpenFails, AttemptTypes, Places, RefTypes
    <2>4. WorldTypes'
      BY <1>13, <1>i DEF Entry!OpenFails, WorldTypes, Entry!endedRoomNotice
    <2> QED
      BY <2>1, <2>2, <2>3, <2>4 DEF EntryTypes
  <1>14. ASSUME NEW a \in Attempts, Entry!DeniedScope(a) PROVE EntryTypes'
    <2>1. ScreenTypes'
      BY <1>14, <1>i DEF Entry!DeniedScope, ScreenTypes, Entry!endedRoomNotice,
        Entry!SessionRoomPage
    <2>2. RefTypes'
      BY <1>14, <1>i DEF Entry!DeniedScope, RefTypes
    <2>3. AttemptTypes'
      BY <1>14, <1>i DEF Entry!DeniedScope, AttemptTypes, Places, RefTypes
    <2>4. WorldTypes'
      BY <1>14, <1>i DEF Entry!DeniedScope, WorldTypes, Entry!endedRoomNotice
    <2> QED
      BY <2>1, <2>2, <2>3, <2>4 DEF EntryTypes
  <1> QED
    BY <1>1, <1>2, <1>3, <1>4, <1>5, <1>6, <1>7, <1>8, <1>9, <1>10, <1>11, <1>12, <1>13,
    <1>14 DEF
    Entry!Next, Entry!Answered

\* What the catch of the connect sequence leaves: no call, and a room to start again.
LEMMA ConnectFailsLeaves ==
  ASSUME EntryTypes, OneAttempt, Acquired, NEW a \in Attempts,
         at[a] \in {"mint", "count", "secret-counted", "secret-uncounted", "offer"},
         Entry!ConnectFails(a), UNCHANGED <<tab, stream, recorder>>
  PROVE  Acquired'
  <1> USE EntryConstants
  <1>1. RefTypes /\ AttemptTypes /\ at[a] \in Busy /\ at[a] \notin {"gum", "live"}
    BY DEF EntryTypes, Busy, Places
  <1>2. /\ refs'.pc = None /\ ~refs'.connecting /\ phase' = "ready"
        /\ refs'.mic = refs.mic /\ refs'.audio = refs.audio
    BY <1>1 DEF Entry!ConnectFails, Entry!GivesUp, RefTypes
  <1>3. /\ \A b \in Attempts : at'[b] = IF b = a THEN "done" ELSE at[b]
        /\ \A b \in Attempts \ {a} : at[b] \notin Busy
    BY <1>1 DEF Entry!ConnectFails, Entry!GivesUp, Entry!Moves, AttemptTypes, OneAttempt
  <1>4. \A b \in Attempts : peer'[b] # "open"
    <2>1. \A b \in Attempts : peer[b] = "open" <=> refs.pc = b
      BY DEF Acquired
    <2> QED
      BY <1>1, <2>1 DEF Entry!ConnectFails, AttemptTypes, RefTypes
  <1>5. \A b \in Attempts : at'[b] \notin Busy
    BY <1>3 DEF Busy
  <1> QED
    BY <1>1, <1>2, <1>4, <1>5 , <1>3 DEF Acquired, Busy, Places, HasMic, HasRecorder, CallPlaces

\* getUserMedia resolved: the attempt goes on with the microphone, or gives up.
LEMMA GumOkKeeps ==
  ASSUME EntryTypes, OneAttempt, Acquired, NEW a \in Attempts, Entry!GumOk(a)
  PROVE  OneAttempt' /\ Acquired'
  <1> USE EntryConstants
  <1>1. RefTypes /\ AttemptTypes /\ at[a] \in Busy /\ at[a] = "gum"
    BY DEF EntryTypes, Busy, Places, Entry!GumOk
  <1>2. /\ refs'.mic = IF refs.mic = None THEN a ELSE refs.mic
        /\ refs'.pc = refs.pc /\ refs'.recorder = refs.recorder
        /\ refs.mic = None => stream'[a] = "live"
        /\ refs.mic # None => stream' = stream
        /\ UNCHANGED <<recorder, peer, tab>>
    BY <1>1 DEF Entry!GumOk, RefTypes, AttemptTypes
  <1>3. \/ refs'.connecting = refs.connecting /\ refs'.audio /\ at'[a] = "resume" /\ phase' = phase
        \/ ~refs'.connecting /\ refs'.audio = refs.audio /\ at'[a] = "done" /\ phase' = "ready"
    BY <1>1 DEF Entry!GumOk, Entry!GivesUp, Entry!Moves, RefTypes, AttemptTypes
  <1>4. \A b \in Attempts \ {a} : at'[b] = at[b] /\ at[b] \notin Busy
    BY <1>1 DEF Entry!GumOk, Entry!GivesUp, Entry!Moves, AttemptTypes, OneAttempt
  <1>5. OneAttempt'
    BY <1>1, <1>3, <1>4 DEF OneAttempt, Busy, Places
  <1>6. Acquired'
    BY <1>1, <1>2, <1>3, <1>4 DEF Acquired, OneAttempt, Busy, Places, CallPlaces, HasMic,
      HasRecorder, RefTypes, Entry!BrowserGate, Entry!missingCapabilities,
      Entry!pickRecorderMimeType
  <1> QED
    BY <1>5, <1>6

\* Authorize, Count and Offer acquire nothing: the attempt goes on, or fails.
LEMMA AnswersKeep ==
  ASSUME EntryTypes, OneAttempt, Acquired, NEW a \in Attempts,
         Entry!Authorize(a) \/ Entry!Count(a) \/ Entry!Offer(a)
  PROVE  Acquired'
  <1> USE EntryConstants
  <1>1. RefTypes /\ AttemptTypes
    BY DEF EntryTypes
  <1>2. CASE Entry!ConnectFails(a)
    BY <1>2, ConnectFailsLeaves DEF Entry!Authorize, Entry!Count, Entry!Offer
  <1>3. CASE ~Entry!ConnectFails(a)
    <2>1. UNCHANGED <<tab, phase, refs, peer, stream, recorder>>
      BY <1>3 DEF Entry!Authorize, Entry!Count, Entry!Offer
    <2>2. \/ /\ at[a] \in {"mint", "count"}
             /\ at'[a] \in {"count", "reloading", "secret-counted", "secret-uncounted"}
          \/ at[a] = "offer" /\ at'[a] = "opening"
      BY <1>1, <1>3 DEF Entry!Authorize, Entry!Count, Entry!Offer, Entry!Moves, AttemptTypes
    <2>3. \A b \in Attempts \ {a} : at'[b] = at[b]
      BY <1>1, <1>3 DEF Entry!Authorize, Entry!Count, Entry!Offer, Entry!Moves, AttemptTypes
    <2> QED
      BY <1>1, <2>1, <2>2, <2>3 DEF RefTypes, Acquired, OneAttempt, Busy, Places, CallPlaces,
        HasMic, HasRecorder, Entry!BrowserGate, Entry!missingCapabilities,
        Entry!pickRecorderMimeType
  <1> QED
    BY <1>2, <1>3

\* With the secret comes the call's peer.
LEMMA SecretKeeps ==
  ASSUME EntryTypes, OneAttempt, Acquired, NEW a \in Attempts, Entry!Secret(a)
  PROVE  Acquired'
  <1> USE EntryConstants
  <1>1. RefTypes /\ AttemptTypes
    BY DEF EntryTypes
  <1>2. CASE Entry!ConnectFails(a)
    BY <1>2, ConnectFailsLeaves DEF Entry!Secret
  <1>3. CASE ~Entry!ConnectFails(a)
    <2>1. /\ UNCHANGED <<tab, phase, stream, recorder>>
          /\ peer' = [peer EXCEPT ![a] = "open"] /\ refs' = [refs EXCEPT !.pc = a]
          /\ at' = [at EXCEPT ![a] = "offer"] /\ at[a] \in {"secret-counted", "secret-uncounted"}
      BY <1>3 DEF Entry!Secret, Entry!Moves
    <2>2. /\ refs'.pc = a /\ refs'.mic = refs.mic /\ refs'.audio = refs.audio
          /\ refs'.connecting = refs.connecting /\ refs'.recorder = refs.recorder
      BY <1>1, <2>1 DEF RefTypes
    <2>3. \A b \in Attempts : /\ at'[b] = IF b = a THEN "offer" ELSE at[b]
                              /\ peer'[b] = IF b = a THEN "open" ELSE peer[b]
      BY <1>1, <2>1 DEF AttemptTypes
    <2>4. \A b \in Attempts \ {a} : at[b] \notin Busy
      BY <2>1 DEF OneAttempt, Busy, Places
    <2> QED
      BY <1>1, <2>1, <2>2, <2>3, <2>4 DEF RefTypes, Acquired, Busy, Places, CallPlaces, HasMic,
        HasRecorder, Entry!BrowserGate, Entry!missingCapabilities, Entry!pickRecorderMimeType
  <1> QED
    BY <1>2, <1>3

\* The counter admits only while it is below the cap.
LEMMA CountBuys ==
  ASSUME EntryTypes, OneAttempt, Acquired, Bought, NEW a \in Attempts, Entry!Count(a)
  PROVE  Bought'
  <1> USE EntryConstants
  <1>1. RefTypes /\ AttemptTypes /\ WorldTypes
    BY DEF EntryTypes
  <1>2. /\ UNCHANGED <<tab, minted>> /\ at[a] = "count"
        /\ CountedSecrets' = CountedSecrets
    BY DEF Entry!Count, CountedSecrets
  <1>3. \A b \in Attempts \ {a} : at'[b] = at[b] /\ at[b] \notin Busy
    BY <1>1, <1>2 DEF Entry!Count, AttemptTypes, OneAttempt, Busy, Places, Entry!Moves,
      Entry!ConnectFails, Entry!GivesUp
  <1>4. world'.secret_mints \in {world.secret_mints, world.secret_mints + 1}
    BY <1>1 DEF Entry!Count, WorldTypes
  <1>5. at'[a] = "secret-counted" =>
          world.secret_mints < secret_mint_cap /\ world'.secret_mints = world.secret_mints + 1
    BY <1>1, <1>2 DEF Entry!Count, WorldTypes, AttemptTypes, Entry!Moves, Entry!ConnectFails,
      Entry!GivesUp
  <1>6. Cardinality(CountedSecrets) \in Nat
    BY FS_CardinalityType DEF Bought
  <1>7. \A b \in Attempts : at'[b] = "secret-counted" => b = a
    BY <1>3 DEF Busy, Places
  <1>8. world.secret_mints \in Nat
    BY <1>1 DEF WorldTypes
  <1> QED
    BY <1>2, <1>4, <1>5, <1>6, <1>7, <1>8 DEF Bought, Entry!pickRecorderMimeType,
      Entry!BrowserGate, Entry!missingCapabilities

\* One secret for one admission.
LEMMA SecretBuys ==
  ASSUME EntryTypes, OneAttempt, Acquired, Bought, NEW a \in Attempts, Entry!Secret(a)
  PROVE  Bought'
  <1> USE EntryConstants
  <1>1. RefTypes /\ AttemptTypes /\ WorldTypes
    BY DEF EntryTypes
  <1>2. /\ UNCHANGED <<tab, world>> /\ at[a] \in {"secret-counted", "secret-uncounted"}
        /\ at'[a] \in {"offer", "done"}
    BY <1>1 DEF Entry!Secret, AttemptTypes, Entry!Moves, Entry!ConnectFails, Entry!GivesUp
  <1>3. \A b \in Attempts : at'[b] # "secret-counted"
    BY <1>1, <1>2 DEF Entry!Secret, AttemptTypes, OneAttempt, Busy, Places, Entry!Moves,
      Entry!ConnectFails, Entry!GivesUp
  <1>4. ~tab.muted /\ Entry!pickRecorderMimeType /\ Entry!BrowserGate
    BY <1>2 DEF Acquired, Busy, Places, HasMic, HasRecorder
  <1>5. minted' \subseteq [of : Attempts, counted : BOOLEAN]
    <2>1. [of |-> a, counted |-> at[a] = "secret-counted"] \in [of : Attempts, counted : BOOLEAN]
      <3> DEFINE b == at[a] = "secret-counted"
      <3>1. b \in BOOLEAN
        OBVIOUS
      <3> HIDE DEF b
      <3>2. [of |-> a, counted |-> b] \in [of : Attempts, counted : BOOLEAN]
        BY <3>1
      <3> QED
        BY <3>2 DEF b
    <2>2. minted' \subseteq minted \cup {[of |-> a, counted |-> at[a] = "secret-counted"]}
      BY DEF Entry!Secret
    <2> QED
      BY <2>1, <2>2 DEF Bought
  <1>6. \/ CountedSecrets' = CountedSecrets
        \/ at[a] = "secret-counted" /\ \E m : CountedSecrets' = CountedSecrets \cup {m}
    <2>1. CASE minted' = minted
      BY <2>1 DEF CountedSecrets
    <2>2. CASE minted' # minted
      <3> DEFINE m == [of |-> a, counted |-> at[a] = "secret-counted"]
      <3>1. minted' = minted \cup {m}
        BY <2>2 DEF Entry!Secret
      <3>2. m.counted <=> at[a] = "secret-counted"
        OBVIOUS
      <3> HIDE DEF m
      <3>3. CASE m.counted
        <4>1. CountedSecrets' = CountedSecrets \cup {m}
          BY <3>1, <3>3 DEF CountedSecrets
        <4> QED
          BY <3>2, <3>3, <4>1
      <3>4. CASE ~m.counted
        BY <3>1, <3>4 DEF CountedSecrets
      <3> QED
        BY <3>3, <3>4
    <2> QED
      BY <2>1, <2>2
  <1>7. /\ IsFiniteSet(CountedSecrets)' /\ Cardinality(CountedSecrets)' \in Nat
        /\ \/ Cardinality(CountedSecrets)' = Cardinality(CountedSecrets)
           \/ /\ at[a] = "secret-counted"
              /\ Cardinality(CountedSecrets)' = Cardinality(CountedSecrets) + 1
    <2>1. IsFiniteSet(CountedSecrets) /\ Cardinality(CountedSecrets) \in Nat
      BY FS_CardinalityType DEF Bought
    <2>2. CASE CountedSecrets' = CountedSecrets
      BY <2>1, <2>2
    <2>3. ASSUME at[a] = "secret-counted", NEW m, CountedSecrets' = CountedSecrets \cup {m}
          PROVE  /\ IsFiniteSet(CountedSecrets)' /\ Cardinality(CountedSecrets)' \in Nat
                 /\ \/ Cardinality(CountedSecrets)' = Cardinality(CountedSecrets)
                    \/ Cardinality(CountedSecrets)' = Cardinality(CountedSecrets) + 1
      BY <2>1, <2>3, FS_AddElement
    <2> QED
      BY <1>6, <2>2, <2>3, <2>1
  <1>8. /\ Cardinality(CountedSecrets)' <= secret_mint_cap
        /\ Cardinality(CountedSecrets)' <= world'.secret_mints
    BY <1>1, <1>2, <1>7, FS_CardinalityType DEF Bought, WorldTypes
  <1> QED
    BY <1>2, <1>3, <1>4, <1>5, <1>7, <1>8 DEF Bought, Entry!pickRecorderMimeType,
      Entry!BrowserGate, Entry!missingCapabilities

\* The guard keeps a second attempt out.
LEMMA OneAttemptStep ==
  ASSUME EntryTypes, OneAttempt, Acquired, Entry!Next
  PROVE  OneAttempt'
  <1> USE EntryConstants DEF Entry!Moves, Entry!GivesUp, Entry!Fails, Entry!ConnectFails,
        Entry!Begin, Entry!NoRefs, Entry!Dismantle, Entry!media,
        OneAttempt, Acquired, AttemptTypes, RefTypes, Busy, Places
  <1>i. ScreenTypes /\ RefTypes /\ AttemptTypes /\ WorldTypes
    BY DEF EntryTypes
  <1>1. ASSUME Entry!Load PROVE OneAttempt'
    BY <1>1, <1>i DEF Entry!Load
  <1>2. ASSUME Entry!PermissionFlips PROVE OneAttempt'
    BY <1>2, <1>i DEF Entry!PermissionFlips
  <1>3. ASSUME Entry!WorldMoves PROVE OneAttempt'
    BY <1>3, <1>i DEF Entry!WorldMoves
  <1>4. ASSUME NEW a \in Attempts, Entry!Start(a) PROVE OneAttempt'
    BY <1>4, <1>i DEF Entry!Start
  <1>5. ASSUME NEW a \in Attempts, Entry!GumOk(a) PROVE OneAttempt'
    BY <1>5, GumOkKeeps
  <1>6. ASSUME NEW a \in Attempts, Entry!GumFails(a) PROVE OneAttempt'
    BY <1>6, <1>i DEF Entry!GumFails
  <1>7. ASSUME NEW a \in Attempts, Entry!Resume(a) PROVE OneAttempt'
    BY <1>7, <1>i DEF Entry!Resume
  <1>8. ASSUME NEW a \in Attempts, Entry!Authorize(a) PROVE OneAttempt'
    BY <1>8, <1>i DEF Entry!Authorize
  <1>9. ASSUME NEW a \in Attempts, Entry!Count(a) PROVE OneAttempt'
    BY <1>9, <1>i DEF Entry!Count
  <1>10. ASSUME NEW a \in Attempts, Entry!Secret(a) PROVE OneAttempt'
    BY <1>10, <1>i DEF Entry!Secret
  <1>11. ASSUME NEW a \in Attempts, Entry!Offer(a) PROVE OneAttempt'
    BY <1>11, <1>i DEF Entry!Offer
  <1>12. ASSUME NEW a \in Attempts, Entry!Open(a) PROVE OneAttempt'
    BY <1>12, <1>i DEF Entry!Open
  <1>13. ASSUME NEW a \in Attempts, Entry!OpenFails(a) PROVE OneAttempt'
    BY <1>13, <1>i DEF Entry!OpenFails
  <1>14. ASSUME NEW a \in Attempts, Entry!DeniedScope(a) PROVE OneAttempt'
    BY <1>14, <1>i DEF Entry!DeniedScope
  <1> QED
    BY <1>1, <1>2, <1>3, <1>4, <1>5, <1>6, <1>7, <1>8, <1>9, <1>10, <1>11, <1>12, <1>13,
    <1>14 DEF
    Entry!Next, Entry!Answered

\* What an attempt holds fits the place it stands at.
LEMMA AcquiredStep ==
  ASSUME EntryTypes, OneAttempt, Acquired, Entry!Next
  PROVE  Acquired'
  <1> USE EntryConstants DEF Entry!Moves, Entry!GivesUp, Entry!Fails, Entry!ConnectFails,
        Entry!Begin, Entry!NoRefs, Entry!Dismantle, Entry!media,
        OneAttempt, Acquired, AttemptTypes, RefTypes, ScreenTypes, Busy, Places, CallPlaces,
        HasMic, HasRecorder, Entry!pickRecorderMimeType, Entry!BrowserGate,
        Entry!missingCapabilities
  <1>i. ScreenTypes /\ RefTypes /\ AttemptTypes /\ WorldTypes
    BY DEF EntryTypes
  <1>1. ASSUME Entry!Load PROVE Acquired'
    BY <1>1, <1>i DEF Entry!Load
  <1>2. ASSUME Entry!PermissionFlips PROVE Acquired'
    BY <1>2, <1>i DEF Entry!PermissionFlips
  <1>3. ASSUME Entry!WorldMoves PROVE Acquired'
    BY <1>3, <1>i DEF Entry!WorldMoves
  <1>4. ASSUME NEW a \in Attempts, Entry!Start(a) PROVE Acquired'
    BY <1>4, <1>i DEF Entry!Start
  <1>5. ASSUME NEW a \in Attempts, Entry!GumOk(a) PROVE Acquired'
    BY <1>5, GumOkKeeps
  <1>6. ASSUME NEW a \in Attempts, Entry!GumFails(a) PROVE Acquired'
    BY <1>6, <1>i DEF Entry!GumFails
  <1>7. ASSUME NEW a \in Attempts, Entry!Resume(a) PROVE Acquired'
    BY <1>7, <1>i DEF Entry!Resume
  <1>8. ASSUME NEW a \in Attempts, Entry!Authorize(a) PROVE Acquired'
    BY <1>8, AnswersKeep
  <1>9. ASSUME NEW a \in Attempts, Entry!Count(a) PROVE Acquired'
    BY <1>9, AnswersKeep
  <1>10. ASSUME NEW a \in Attempts, Entry!Secret(a) PROVE Acquired'
    BY <1>10, SecretKeeps
  <1>11. ASSUME NEW a \in Attempts, Entry!Offer(a) PROVE Acquired'
    BY <1>11, AnswersKeep
  <1>12. ASSUME NEW a \in Attempts, Entry!Open(a) PROVE Acquired'
    BY <1>12, <1>i DEF Entry!Open
  <1>13. ASSUME NEW a \in Attempts, Entry!OpenFails(a) PROVE Acquired'
    BY <1>13, <1>i DEF Entry!OpenFails
  <1>14. ASSUME NEW a \in Attempts, Entry!DeniedScope(a) PROVE Acquired'
    BY <1>14, <1>i DEF Entry!DeniedScope
  <1> QED
    BY <1>1, <1>2, <1>3, <1>4, <1>5, <1>6, <1>7, <1>8, <1>9, <1>10, <1>11, <1>12, <1>13,
    <1>14 DEF
    Entry!Next, Entry!Answered

\* Secrets stay within what the counter let through.
LEMMA BoughtStep ==
  ASSUME EntryTypes, OneAttempt, Acquired, Bought, Entry!Next
  PROVE  Bought'
  <1> USE EntryConstants DEF Entry!Moves, Entry!GivesUp, Entry!Fails, Entry!ConnectFails,
        Entry!Begin, Entry!NoRefs, Entry!Dismantle, Entry!media,
        Acquired, Bought, CountedSecrets, AttemptTypes, WorldTypes, Busy, Places, HasMic,
        HasRecorder, Entry!pickRecorderMimeType, Entry!BrowserGate, Entry!missingCapabilities
  <1>i. ScreenTypes /\ RefTypes /\ AttemptTypes /\ WorldTypes
    BY DEF EntryTypes
  <1>1. ASSUME Entry!Load PROVE Bought'
    BY <1>1, <1>i DEF Entry!Load
  <1>2. ASSUME Entry!PermissionFlips PROVE Bought'
    BY <1>2, <1>i DEF Entry!PermissionFlips
  <1>3. ASSUME Entry!WorldMoves PROVE Bought'
    BY <1>3, <1>i DEF Entry!WorldMoves
  <1>4. ASSUME NEW a \in Attempts, Entry!Start(a) PROVE Bought'
    BY <1>4, <1>i DEF Entry!Start
  <1>5. ASSUME NEW a \in Attempts, Entry!GumOk(a) PROVE Bought'
    BY <1>5, <1>i DEF Entry!GumOk
  <1>6. ASSUME NEW a \in Attempts, Entry!GumFails(a) PROVE Bought'
    BY <1>6, <1>i DEF Entry!GumFails
  <1>7. ASSUME NEW a \in Attempts, Entry!Resume(a) PROVE Bought'
    BY <1>7, <1>i DEF Entry!Resume
  <1>8. ASSUME NEW a \in Attempts, Entry!Authorize(a) PROVE Bought'
    BY <1>8, <1>i DEF Entry!Authorize
  <1>9. ASSUME NEW a \in Attempts, Entry!Count(a) PROVE Bought'
    BY <1>9, CountBuys
  <1>10. ASSUME NEW a \in Attempts, Entry!Secret(a) PROVE Bought'
    BY <1>10, SecretBuys
  <1>11. ASSUME NEW a \in Attempts, Entry!Offer(a) PROVE Bought'
    BY <1>11, <1>i DEF Entry!Offer
  <1>12. ASSUME NEW a \in Attempts, Entry!Open(a) PROVE Bought'
    BY <1>12, <1>i DEF Entry!Open
  <1>13. ASSUME NEW a \in Attempts, Entry!OpenFails(a) PROVE Bought'
    BY <1>13, <1>i DEF Entry!OpenFails
  <1>14. ASSUME NEW a \in Attempts, Entry!DeniedScope(a) PROVE Bought'
    BY <1>14, <1>i DEF Entry!DeniedScope
  <1> QED
    BY <1>1, <1>2, <1>3, <1>4, <1>5, <1>6, <1>7, <1>8, <1>9, <1>10, <1>11, <1>12, <1>13,
    <1>14 DEF
    Entry!Next, Entry!Answered

\* A refusal stays true of the row or its package.
LEMMA ToldStep ==
  ASSUME EntryTypes, OneAttempt, Told, Entry!Next
  PROVE  Told'
  <1> USE EntryConstants DEF Entry!Moves, Entry!GivesUp, Entry!Fails, Entry!ConnectFails,
        Entry!Begin, Entry!NoRefs, Entry!Dismantle, Entry!media,
        Told, AttemptTypes, WorldTypes, ScreenTypes, OneAttempt, Busy, Places,
        Entry!ReloadLands, Entry!endedRoomNotice, Entry!RoomIsClosed, Entry!SessionRoomPage,
        Entry!roomAccessNotice
  <1>i. ScreenTypes /\ RefTypes /\ AttemptTypes /\ WorldTypes
    BY DEF EntryTypes
  <1>1. ASSUME Entry!Load PROVE Told'
    BY <1>1, <1>i DEF Entry!Load
  <1>2. ASSUME Entry!PermissionFlips PROVE Told'
    BY <1>2, <1>i DEF Entry!PermissionFlips
  <1>3. ASSUME Entry!WorldMoves PROVE Told'
    BY <1>3, <1>i DEF Entry!WorldMoves
  <1>4. ASSUME NEW a \in Attempts, Entry!Start(a) PROVE Told'
    BY <1>4, <1>i DEF Entry!Start
  <1>5. ASSUME NEW a \in Attempts, Entry!GumOk(a) PROVE Told'
    BY <1>5, <1>i DEF Entry!GumOk
  <1>6. ASSUME NEW a \in Attempts, Entry!GumFails(a) PROVE Told'
    BY <1>6, <1>i DEF Entry!GumFails
  <1>7. ASSUME NEW a \in Attempts, Entry!Resume(a) PROVE Told'
    BY <1>7, <1>i DEF Entry!Resume
  <1>8. ASSUME NEW a \in Attempts, Entry!Authorize(a) PROVE Told'
    BY <1>8, <1>i DEF Entry!Authorize
  <1>9. ASSUME NEW a \in Attempts, Entry!Count(a) PROVE Told'
    BY <1>9, <1>i DEF Entry!Count
  <1>10. ASSUME NEW a \in Attempts, Entry!Secret(a) PROVE Told'
    BY <1>10, <1>i DEF Entry!Secret
  <1>11. ASSUME NEW a \in Attempts, Entry!Offer(a) PROVE Told'
    BY <1>11, <1>i DEF Entry!Offer
  <1>12. ASSUME NEW a \in Attempts, Entry!Open(a) PROVE Told'
    BY <1>12, <1>i DEF Entry!Open
  <1>13. ASSUME NEW a \in Attempts, Entry!OpenFails(a) PROVE Told'
    BY <1>13, <1>i DEF Entry!OpenFails
  <1>14. ASSUME NEW a \in Attempts, Entry!DeniedScope(a) PROVE Told'
    BY <1>14, <1>i DEF Entry!DeniedScope
  <1> QED
    BY <1>1, <1>2, <1>3, <1>4, <1>5, <1>6, <1>7, <1>8, <1>9, <1>10, <1>11, <1>12, <1>13,
    <1>14 DEF
    Entry!Next, Entry!Answered

\* A fresh page satisfies it.
LEMMA EntryInit == PartsInit => EntryInv
  <1> SUFFICES ASSUME PartsInit PROVE EntryInv
    OBVIOUS
  <1> USE EntryConstants DEF PartsInit, Entry!Init, Entry!NoRefs
  <1>1. EntryTypes
    <2>1. ScreenTypes /\ RefTypes
      BY DEF ScreenTypes, RefTypes
    <2>2. AttemptTypes
      BY DEF AttemptTypes, Places
    <2>3. WorldTypes
      BY DEF WorldTypes
    <2> QED
      BY <2>1, <2>2, <2>3 DEF EntryTypes
  <1>2. OneAttempt /\ Acquired
    BY DEF OneAttempt, Acquired, Busy, Places, HasMic, HasRecorder, CallPlaces
  <1>3. Bought
    <2>1. CountedSecrets = {} /\ world.secret_mints = 0
      BY DEF CountedSecrets
    <2> QED
      BY <2>1, FS_EmptySet DEF Bought
  <1>4. Told
    BY DEF Told, Entry!ReloadLands, Busy, Places
  <1> QED
    BY <1>1, <1>2, <1>3, <1>4 DEF EntryInv

\* The invariant is enough: of an attempt that is live, and of none.
LEMMA EntryInvIsEnough ==
  ASSUME EntryInv
  PROVE  Entry!EntryIsSound /\ Entry!ReloadLands
  <1> USE EntryConstants
  <1>1. RefTypes /\ AttemptTypes /\ ScreenTypes /\ OneAttempt /\ Acquired /\ Bought /\ Told
    BY DEF EntryInv, EntryTypes
  <1>2. ASSUME phase = "live"
        PROVE  /\ Entry!Calling = {refs.pc}
               /\ refs.mic # None /\ stream[refs.mic] = "live" /\ refs.audio
               /\ Entry!Recording = {a \in {refs.recorder} : ~tab.unscored}
    <2>1. refs.pc \in Attempts /\ at[refs.pc] = "live" /\ at[refs.pc] \in HasRecorder
      BY <1>1, <1>2 DEF RefTypes, Acquired, HasRecorder, HasMic, Busy, Places
    <2>2. \A a \in Attempts : at[a] \in CallPlaces => a = refs.pc
      BY <1>1 DEF Acquired
    <2>3. \A a \in Attempts : recorder[a] = "recording" <=> a = refs.pc /\ ~tab.unscored
      BY <1>1, <2>1, <2>2 DEF Acquired, CallPlaces
    <2> QED
      BY <1>1, <2>1, <2>2, <2>3 DEF Acquired, Entry!Calling, Entry!Recording, HasRecorder
  <1>3. ASSUME phase = "ready"
        PROVE  Entry!Calling = {} /\ Entry!Recording = {}
    <2>1. \A a \in Attempts : at[a] \notin Busy
      BY <1>1, <1>3 DEF Acquired, OneAttempt
    <2> QED
      BY <1>1, <2>1 DEF Acquired, Entry!Calling, Entry!Recording, Busy, Places, CallPlaces
  <1>4. Entry!NothingMintedInVain
    <2>1. Entry!Cardinality(CountedSecrets) = Cardinality(CountedSecrets)
      BY DEF Entry!Cardinality, Cardinality
    <2>2. Entry!Cardinality({m \in minted : m.counted}) <= secret_mint_cap
      BY <1>1, <2>1 DEF Bought, CountedSecrets
    <2> QED
      BY <1>1, <2>2 DEF Bought, Entry!NothingMintedInVain, Entry!pickRecorderMimeType,
        Entry!BrowserGate, Entry!missingCapabilities
  <1> QED
    BY <1>1, <1>2, <1>3, <1>4 DEF Entry!EntryIsSound, Entry!AllOrNothing, Told

\* Every step of the parts keeps it.
LEMMA EntryStep == EntryInv /\ [PartsNext]_partsVars => EntryInv'
  <1> SUFFICES ASSUME EntryInv, [PartsNext]_partsVars PROVE EntryInv'
    OBVIOUS
  <1>1. CASE Entry!Next
    BY <1>1, EntryTypesStep, OneAttemptStep, AcquiredStep, BoughtStep, ToldStep DEF EntryInv
  <1>2. CASE UNCHANGED entryVars
    <2>1. UNCHANGED <<tab, world, permission, page, phase, error, refs, at, stream, recorder, peer,
                      minted, refused>>
      BY <1>2 DEF entryVars
    <2>2. EntryTypes'
      BY <2>1 DEF EntryInv, EntryTypes, ScreenTypes, RefTypes, AttemptTypes, WorldTypes
    <2>3. OneAttempt' /\ Acquired'
      BY <2>1 DEF EntryInv, OneAttempt, Acquired, Entry!pickRecorderMimeType, Entry!BrowserGate,
        Entry!missingCapabilities
    <2>4. Bought' /\ Told'
      BY <2>1 DEF EntryInv, Bought, CountedSecrets, Told, Entry!pickRecorderMimeType,
        Entry!BrowserGate, Entry!missingCapabilities, Entry!ReloadLands, Entry!endedRoomNotice,
        Entry!RoomIsClosed
    <2> QED
      BY <2>2, <2>3, <2>4 DEF EntryInv
  <1> QED
    BY <1>1, <1>2 DEF PartsNext, InEntry, partsVars

-----------------------------------------------------------------------------
(* The microphone check (MicCheck) *)

\* A check is on the screen, gone, or still to come; what has gone watches nothing.
MicInv ==
  /\ Mic!TypeOK
  /\ \A v, w \in shown : v = w
  /\ \A w \in gone : w \notin shown /\ ~watching[w]
  /\ \A w \in shown : held[w] <=> kind[w] = "live"
  /\ \A w \in Widgets : watching[w] => kind[w] = "denied"
  /\ \A w \in Widgets \ (shown \cup gone) : ~held[w] /\ kind[w] = "idle"

\* Nothing is on the screen before a check is.
LEMMA MicInit == PartsInit => MicInv
  BY DEF PartsInit, Mic!Init, MicInv, Mic!TypeOK, Mic!Kinds

\* Every step of the parts keeps it.
LEMMA MicStep == MicInv /\ [PartsNext]_partsVars => MicInv'
  <1> SUFFICES ASSUME MicInv, [PartsNext]_partsVars PROVE MicInv'
    OBVIOUS
  <1> USE DEF MicInv, Mic!TypeOK, Mic!Kinds, Mic!Becomes, Mic!outside
  <1>1. ASSUME Mic!PermissionChanges PROVE MicInv'
    BY <1>1 DEF Mic!PermissionChanges
  <1>2. ASSUME NEW w \in Widgets, Mic!Mount(w) PROVE MicInv'
    BY <1>2 DEF Mic!Mount
  <1>3. ASSUME NEW w \in Widgets, Mic!Unmount(w) PROVE MicInv'
    BY <1>3 DEF Mic!Unmount
  <1>4. ASSUME NEW w \in Widgets, Mic!start(w) PROVE MicInv'
    BY <1>4 DEF Mic!start
  <1>5. ASSUME NEW w \in Widgets, Mic!stopCheck(w) PROVE MicInv'
    BY <1>5 DEF Mic!stopCheck
  <1>6. ASSUME NEW w \in Widgets, Mic!Granted(w) PROVE MicInv'
    BY <1>6 DEF Mic!Granted
  <1>7. ASSUME NEW w \in Widgets, Mic!Rejected(w) PROVE MicInv'
    BY <1>7 DEF Mic!Rejected
  <1>8. ASSUME NEW w \in Widgets, Mic!Denied(w) PROVE MicInv'
    BY <1>8 DEF Mic!Denied, Mic!classifyDeniedScope
  <1>9. ASSUME NEW w \in Widgets, Mic!Watches(w) PROVE MicInv'
    BY <1>9 DEF Mic!Watches
  <1>10. CASE UNCHANGED micVars
    BY <1>10 DEF micVars
  <1> QED
    BY <1>1, <1>2, <1>3, <1>4, <1>5, <1>6, <1>7, <1>8, <1>9, <1>10 DEF PartsNext, InEntry,
      partsVars, Mic!Next

\* No step makes a check that has gone ask for the microphone.
LEMMA MicStaysQuiet == MicInv /\ [PartsNext]_partsVars => [Mic!StepOnScreen]_micVars
  <1> SUFFICES ASSUME MicInv, [PartsNext]_partsVars, ~UNCHANGED micVars
               PROVE  Mic!StepOnScreen
    OBVIOUS
  <1>1. Mic!Next
    BY DEF PartsNext, InEntry, partsVars
  <1>2. \A w \in gone : kind[w] # "requesting" => kind'[w] # "requesting"
    BY <1>1 DEF Mic!Next, MicInv, Mic!TypeOK, Mic!PermissionChanges, Mic!Mount, Mic!Unmount,
      Mic!start, Mic!stopCheck, Mic!Granted, Mic!Rejected, Mic!Denied, Mic!Watches, Mic!Becomes,
      Mic!outside
  <1> QED
    BY <1>2 DEF MicInv, Mic!StepOnScreen

-----------------------------------------------------------------------------
(* The diagnostics trail (RoomTrail) *)

\* Entries of the ring, and what a heartbeat is made of.
Entries == [id : Nat, atMs : Nat]
Beatings == {"unsent", "sent", "read", "alive", "refused", "orphan", "done"}

\* A heartbeat's place, what it carries, and what the database had when it was read.
BeatType == [at : Beatings, delta : SUBSET Entries, through : Nat, base : SUBSET Entries]

\* What ring, column and beats may be.
TrailTypes ==
  /\ now \in Nat \ {0} /\ recorded \in Nat /\ cursor \in Nat
  /\ ring \in Seq(Entries)
  /\ column \subseteq Entries
  /\ carriedTo \subseteq Nat
  /\ beat \in [Beats -> BeatType]

\* The ring is in the order of recording, and what is not in it was trimmed.
Ordered ==
  /\ \A i \in DOMAIN ring : ring[i].id <= recorded /\ 0 < ring[i].atMs /\ ring[i].atMs <= now
  /\ \A i, j \in DOMAIN ring : i < j => ring[i].id < ring[j].id /\ ring[i].atMs <= ring[j].atMs
  /\ \A id \in 1 .. recorded : id \in trimmed \/ \E i \in DOMAIN ring : ring[i].id = id

\* Delivered up to a stamp or beyond.
Behind(entry) == \E ms \in carriedTo : entry.atMs <= ms
Arrived(entry) == entry.id \in Trail!Stored(column) \cup overwritten

\* What lies behind a delivered beat has arrived or shares its last stamp; and a
\* beat on its way carries all that would lie behind it.
Carried ==
  /\ cursor \in carriedTo \cup {0}
  /\ \A ms \in carriedTo : ms <= now
  /\ \A i \in DOMAIN ring : Behind(ring[i]) => Arrived(ring[i]) \/ ring[i].atMs \in carriedTo
  /\ \A b \in Beats : beat[b].through <= now
  /\ \A b \in Beats : beat[b].at \in {"sent", "read", "alive"} =>
       \A i \in DOMAIN ring :
         ring[i] \in beat[b].delta \/ beat[b].through <= ring[i].atMs \/ Behind(ring[i])
  /\ \A b \in Beats : beat[b].at = "alive" => \A entry \in beat[b].delta : Arrived(entry)

\* The inductive invariant of the trail.
TrailInv == TrailTypes /\ Ordered /\ Carried

\* recordDiag keeps every entry of the ring or names it as trimmed, and adds one.
LEMMA RecordKeeps ==
  ASSUME TrailTypes, Ordered, Trail!recordDiag, now' = now
  PROVE  /\ ring' \in Seq(Entries) /\ recorded' = recorded + 1
         /\ \A i \in DOMAIN ring' : \/ ring'[i] = [id |-> recorded + 1, atMs |-> now]
                                    \/ \E j \in DOMAIN ring : ring'[i] = ring[j]
         /\ Ordered'
  <1> DEFINE new == [id |-> recorded + 1, atMs |-> now]
             pushed == Append(ring, new)
             excess == IF Len(pushed) > DIAG_CAPACITY THEN Len(pushed) - DIAG_CAPACITY ELSE 0
  <1>1. /\ new \in Entries /\ new.id = recorded + 1 /\ new.atMs = now
        /\ recorded \in Nat /\ now \in Nat
    BY DEF TrailTypes, Entries
  <1>2. /\ pushed \in Seq(Entries) /\ Len(pushed) = Len(ring) + 1 /\ Len(ring) \in Nat
        /\ \A i \in 1 .. Len(ring) : pushed[i] = ring[i]
        /\ pushed[Len(ring) + 1] = new
        /\ DOMAIN ring = 1 .. Len(ring)
    BY <1>1 DEF TrailTypes
  <1>t. \A i \in DOMAIN ring : ring[i].id \in Nat /\ ring[i].atMs \in Nat
    <2>1. ring \in Seq(Entries)
      BY DEF TrailTypes
    <2>2. \A i \in DOMAIN ring : ring[i] \in Entries
      BY <2>1
    <2> QED
      BY <2>2 DEF Entries
  <1>3. excess \in 0 .. Len(pushed)
    BY <1>2, TrailConstants
  <1>4. /\ recorded' = recorded + 1
        /\ ring' = SubSeq(pushed, excess + 1, Len(pushed))
        /\ trimmed' = trimmed \cup {pushed[i].id : i \in 1 .. excess}
    BY DEF Trail!recordDiag
  <1> HIDE DEF new, pushed, excess
  <1>5. /\ ring' \in Seq(Entries) /\ Len(ring') = Len(pushed) - excess
        /\ DOMAIN ring' = 1 .. Len(pushed) - excess
        /\ \A i \in DOMAIN ring' : ring'[i] = pushed[i + excess] /\ i + excess \in 1 .. Len(pushed)
    BY <1>2, <1>3, <1>4
  <1>6. \A i \in 1 .. Len(pushed) :
          \/ i = Len(ring) + 1 /\ pushed[i] = new
          \/ i \in DOMAIN ring /\ pushed[i] = ring[i]
    <2> TAKE i \in 1 .. Len(pushed)
    <2>1. CASE i = Len(ring) + 1
      <3>1. pushed[Len(ring) + 1] = new
        BY <1>2
      <3> QED
        BY <2>1, <3>1
    <2>2. CASE i # Len(ring) + 1
      <3>1. i \in 1 .. Len(ring)
        BY <1>2, <2>2
      <3> QED
        BY <1>2, <3>1
    <2> QED
      BY <2>1, <2>2
  <1>7. \A i \in 1 .. Len(pushed) :
          pushed[i].id <= recorded + 1 /\ 0 < pushed[i].atMs /\ pushed[i].atMs <= now
    <2>1. \A i \in DOMAIN ring : ring[i].id <= recorded /\ 0 < ring[i].atMs /\ ring[i].atMs <= now
      BY DEF Ordered
    <2>2. 0 < now
      BY DEF TrailTypes
    <2> QED
      BY <1>1, <1>t, <1>6, <2>1, <2>2
  <1>8. \A i, j \in 1 .. Len(pushed) :
          i < j => pushed[i].id < pushed[j].id /\ pushed[i].atMs <= pushed[j].atMs
    <2>1. /\ \A i \in DOMAIN ring : ring[i].id <= recorded /\ ring[i].atMs <= now
          /\ \A i, j \in DOMAIN ring :
                i < j => ring[i].id < ring[j].id /\ ring[i].atMs <= ring[j].atMs
      BY DEF Ordered
    <2> SUFFICES ASSUME NEW i \in 1 .. Len(pushed), NEW j \in 1 .. Len(pushed), i < j
                 PROVE  pushed[i].id < pushed[j].id /\ pushed[i].atMs <= pushed[j].atMs
      OBVIOUS
    <2>2. i \in DOMAIN ring /\ pushed[i] = ring[i]
      BY <1>2, <1>6
    <2> QED
      BY <1>1, <1>t, <1>6, <2>1, <2>2
  <1>9. \A id \in 1 .. recorded + 1 :
          id \in trimmed \/ \E i \in 1 .. Len(pushed) : pushed[i].id = id
    BY <1>1, <1>2 DEF Ordered
  <1>10. \A i \in 1 .. Len(pushed) :
           pushed[i].id \in trimmed' \/ \E j \in DOMAIN ring' : ring'[j] = pushed[i]
    <2> SUFFICES ASSUME NEW i \in 1 .. Len(pushed), i \notin 1 .. excess
                 PROVE  \E j \in DOMAIN ring' : ring'[j] = pushed[i]
      BY <1>4
    <2>1. i - excess \in DOMAIN ring' /\ (i - excess) + excess = i
      BY <1>2, <1>3, <1>5
    <2> QED
      BY <2>1, <1>5
  <1>11. Ordered'
    <2>1. \A i \in DOMAIN ring' :
            ring'[i].id <= recorded' /\ 0 < ring'[i].atMs /\ ring'[i].atMs <= now'
      BY <1>4, <1>5, <1>7
    <2>2. \A i, j \in DOMAIN ring' :
            i < j => ring'[i].id < ring'[j].id /\ ring'[i].atMs <= ring'[j].atMs
      <3> SUFFICES ASSUME NEW i \in DOMAIN ring', NEW j \in DOMAIN ring', i < j
                   PROVE  ring'[i].id < ring'[j].id /\ ring'[i].atMs <= ring'[j].atMs
        OBVIOUS
      <3>1. i + excess < j + excess
        BY <1>3, <1>5
      <3> QED
        BY <3>1, <1>5, <1>8
    <2>3. ASSUME NEW id \in 1 .. recorded'
          PROVE  id \in trimmed' \/ \E i \in DOMAIN ring' : ring'[i].id = id
      <3>1. CASE id \in trimmed
        BY <3>1, <1>4
      <3>2. ASSUME NEW i \in 1 .. Len(pushed), pushed[i].id = id
            PROVE  id \in trimmed' \/ \E j \in DOMAIN ring' : ring'[j].id = id
        BY <3>2, <1>10
      <3> QED
        BY <1>4, <1>9, <3>1, <3>2
    <2> QED
      BY <2>1, <2>2, <2>3 DEF Ordered
  <1> QED
    BY <1>4, <1>5, <1>6, <1>11 DEF new

\* A stamp of now is behind no delivered beat but one that ended now.
LEMMA RecordCarries ==
  ASSUME TrailTypes, Ordered, Carried, Trail!recordDiag,
         UNCHANGED <<now, cursor, column, carriedTo, overwritten>>,
         \A b \in Beats : /\ beat'[b].through = beat[b].through /\ beat'[b].delta = beat[b].delta
                          /\ beat'[b].at \in {"sent", "read", "alive"} => beat'[b].at = beat[b].at
  PROVE  Carried'
  <1>1. /\ now \in Nat /\ carriedTo \subseteq Nat
        /\ \A b \in Beats : beat[b].through \in Nat
    BY DEF TrailTypes, BeatType
  <1>2. \A i \in DOMAIN ring' : ring'[i].atMs = now \/ \E j \in DOMAIN ring : ring'[i] = ring[j]
    BY RecordKeeps
  <1>3. \A entry : /\ Behind(entry)' <=> Behind(entry)
                   /\ Arrived(entry)' <=> Arrived(entry)
    BY DEF Behind, Arrived, Trail!Stored
  <1>4. cursor' \in carriedTo' \cup {0} /\ \A ms \in carriedTo' : ms <= now'
    BY DEF Carried
  <1>5. ASSUME NEW i \in DOMAIN ring', Behind(ring'[i])
        PROVE  Arrived(ring'[i]) \/ ring'[i].atMs \in carriedTo
    <2>1. CASE ring'[i].atMs = now
      <3>1. PICK ms \in carriedTo : now <= ms
        BY <1>5, <2>1 DEF Behind
      <3> QED
        BY <1>1, <2>1, <3>1 DEF Carried
    <2>2. ASSUME NEW j \in DOMAIN ring, ring'[i] = ring[j]
          PROVE  Arrived(ring'[i]) \/ ring'[i].atMs \in carriedTo
      BY <1>5, <2>2 DEF Carried
    <2> QED
      BY <1>2, <2>1, <2>2
  <1>6. ASSUME NEW b \in Beats, beat'[b].at \in {"sent", "read", "alive"}, NEW i \in DOMAIN ring'
        PROVE  ring'[i] \in beat'[b].delta \/ beat'[b].through <= ring'[i].atMs \/ Behind(ring'[i])
    <2>1. CASE ring'[i].atMs = now
      BY <2>1 DEF Carried
    <2>2. ASSUME NEW j \in DOMAIN ring, ring'[i] = ring[j]
          PROVE  \/ ring'[i] \in beat'[b].delta
                 \/ beat'[b].through <= ring'[i].atMs \/ Behind(ring'[i])
      BY <1>6, <2>2 DEF Carried
    <2> QED
      BY <1>2, <2>1, <2>2
  <1>7. /\ \A b \in Beats : beat'[b].through <= now'
        /\ \A b \in Beats : beat'[b].at = "alive" => \A entry \in beat'[b].delta : Arrived(entry)
    BY DEF Carried
  <1> QED
    BY <1>3, <1>4, <1>5, <1>6, <1>7 DEF Carried

\* Nothing is recorded when the room opens.
LEMMA TrailInit == PartsInit => TrailInv
  <1> SUFFICES ASSUME PartsInit PROVE TrailInv
    OBVIOUS
  <1>1. /\ now = 1 /\ recorded = 0 /\ ring = <<>> /\ cursor = 0 /\ live = TRUE /\ ended = FALSE
        /\ beat = [b \in Beats |-> Trail!Idle]
        /\ column = {} /\ trimmed = {} /\ carriedTo = {} /\ overwritten = {}
    BY DEF PartsInit, Trail!Init
  <1>2. Trail!Idle \in [at : Beatings, delta : SUBSET Entries, through : Nat, base : SUBSET Entries]
    BY DEF Trail!Idle, Beatings
  <1>3. ring \in Seq(Entries) /\ DOMAIN ring = {}
    BY <1>1
  <1>4. TrailTypes
    <2>1. beat \in [Beats -> BeatType]
      BY <1>1, <1>2 DEF BeatType
    <2> QED
      BY <1>1, <1>3, <2>1 DEF TrailTypes
  <1>5. Ordered
    BY <1>1, <1>3 DEF Ordered
  <1>6. Carried
    BY <1>1, <1>3 DEF Carried, Trail!Idle
  <1> QED
    BY <1>4, <1>5, <1>6 DEF TrailInv

\* Steps that neither record nor move a beat.
LEMMA IdleStep ==
  ASSUME TrailInv, Trail!Clock \/ Trail!Complete \/ UNCHANGED trailVars
  PROVE  TrailInv'
  <1>1. /\ UNCHANGED <<recorded, ring, cursor, ended, beat, column, trimmed, carriedTo,
                       overwritten>>
        /\ now' \in Nat \ {0} /\ now <= now' /\ now \in Nat
    <2>1. now \in Nat \ {0}
      BY DEF TrailInv, TrailTypes
    <2>2. now' \in {now, now + 1}
      BY DEF Trail!Clock, Trail!Complete, trailVars
    <2>3. UNCHANGED <<recorded, ring, cursor, ended, beat, column, trimmed, carriedTo, overwritten>>
      BY DEF Trail!Clock, Trail!Complete, trailVars
    <2> QED
      BY <2>1, <2>2, <2>3
  <1>2. TrailTypes'
    BY <1>1 DEF TrailInv, TrailTypes
  <1>3. Ordered'
    <2>1. \A i \in DOMAIN ring : ring[i].atMs \in Nat
      <3>1. ring \in Seq(Entries)
        BY DEF TrailInv, TrailTypes
      <3>2. \A i \in DOMAIN ring : ring[i] \in Entries
        BY <3>1
      <3> QED
        BY <3>2 DEF Entries
    <2> QED
      BY <1>1, <2>1 DEF TrailInv, Ordered
  <1>4. Carried'
    <2>1. \A entry : /\ Behind(entry)' <=> Behind(entry)
                     /\ Arrived(entry)' <=> Arrived(entry)
      BY <1>1 DEF Behind, Arrived, Trail!Stored
    <2>2. carriedTo \subseteq Nat /\ \A b \in Beats : beat[b].through \in Nat
      BY DEF TrailInv, TrailTypes, BeatType
    <2> QED
      BY <1>1, <2>1, <2>2 DEF TrailInv, Carried
  <1> QED
    BY <1>2, <1>3, <1>4 DEF TrailInv

\* An entry joins the ring.
LEMMA RecordStep ==
  ASSUME TrailInv, Trail!Record
  PROVE  TrailInv'
  <1>1. TrailTypes'
    BY RecordKeeps DEF Trail!Record, TrailInv, TrailTypes
  <1>2. Ordered' /\ Carried'
    BY RecordKeeps, RecordCarries DEF Trail!Record, TrailInv, TrailTypes
  <1> QED
    BY <1>1, <1>2 DEF TrailInv

\* A beat that failed, or whose answer was lost, records that and moves nothing else.
LEMMA UndeliveredStep ==
  ASSUME TrailInv, NEW b \in Beats, Trail!Undelivered(b)
  PROVE  TrailInv'
  <1>1. /\ beat' = [beat EXCEPT ![b] = [beat[b] EXCEPT
                                          !.at = IF @ = "read" THEN "orphan" ELSE "done"]]
        /\ Trail!recordDiag
        /\ UNCHANGED <<now, cursor, live, ended, column, carriedTo, overwritten>>
    BY DEF Trail!Undelivered, Trail!Step
  <1>2. /\ beat' \in [Beats -> BeatType]
        /\ \A c \in Beats : /\ beat'[c].through = beat[c].through /\ beat'[c].delta = beat[c].delta
                            /\ beat'[c].at = beat[c].at \/ beat'[c].at \in {"orphan", "done"}
    BY <1>1 DEF TrailInv, TrailTypes, BeatType, Beatings
  <1>3. TrailTypes'
    <2>1. TrailTypes /\ Ordered
      BY DEF TrailInv
    <2>2. ring' \in Seq(Entries) /\ recorded' = recorded + 1
      BY <1>1, <2>1, RecordKeeps
    <2>3. /\ now' \in Nat \ {0} /\ recorded' \in Nat /\ cursor' \in Nat /\ column' \subseteq Entries
          /\ carriedTo' \subseteq Nat
      BY <1>1, <2>1, <2>2 DEF TrailTypes
    <2> QED
      BY <1>2, <2>2, <2>3 DEF TrailTypes
  <1>4. Ordered' /\ Carried'
    BY <1>1, <1>2, RecordKeeps, RecordCarries DEF TrailInv, TrailTypes
  <1> QED
    BY <1>3, <1>4 DEF TrailInv

\* A beat takes all that is later than the last delivered one, up to the last stamp.
LEMMA DeltaIsWhole ==
  ASSUME TrailTypes, Ordered
  PROVE  /\ Trail!takeDiagDelta(cursor) \subseteq Entries
         /\ \A i \in DOMAIN ring : ring[i] \in Trail!takeDiagDelta(cursor) \/ ring[i].atMs <= cursor
         /\ Trail!takeDiagDelta(cursor) # {} =>
              Trail!LastOf(Trail!takeDiagDelta(cursor)).atMs \in 0 .. now
  <1> DEFINE delta == Trail!takeDiagDelta(cursor)
  <1>1. /\ cursor \in Nat /\ now \in Nat /\ ring \in Seq(Entries)
    BY DEF TrailTypes
  <1>2. \A i \in DOMAIN ring : ring[i] \in Entries
    BY <1>1
  <1>3. \A i \in DOMAIN ring : ring[i].id \in Nat /\ ring[i].atMs \in Nat
    BY <1>2 DEF Entries
  <1>4. \A entry : entry \in delta <=> \E i \in DOMAIN ring : ring[i] = entry /\ entry.atMs > cursor
    BY DEF Trail!takeDiagDelta
  <1> HIDE DEF delta
  <1>5. delta \subseteq Entries
    BY <1>2, <1>4
  <1>6. \A i \in DOMAIN ring : ring[i] \in delta \/ ring[i].atMs <= cursor
    BY <1>1, <1>3, <1>4
  <1>7. ASSUME delta # {}
        PROVE  Trail!LastOf(delta).atMs \in 0 .. now
    <2> DEFINE newest == ring[Len(ring)]
    <2>1. PICK i \in DOMAIN ring : ring[i].atMs > cursor
      BY <1>4, <1>7
    <2>2. Len(ring) \in DOMAIN ring /\ i <= Len(ring)
          /\ \A j \in DOMAIN ring : j = Len(ring) \/ j < Len(ring)
      BY <1>1, <2>1
    <2>3. ring[i].atMs <= newest.atMs
      BY <1>3, <2>1, <2>2 DEF Ordered
    <2>4. newest.atMs > cursor
      BY <1>1, <1>3, <2>1, <2>2, <2>3
    <2>5. newest \in delta
      BY <1>4, <2>2, <2>4
    <2>6. \A other \in delta : other.id <= newest.id
      <3> SUFFICES ASSUME NEW j \in DOMAIN ring
                   PROVE  ring[j].id <= newest.id
        BY <1>4
      <3>1. j = Len(ring) \/ ring[j].id < newest.id
        BY <2>2 DEF Ordered
      <3> QED
        BY <1>3, <2>2, <3>1
    <2>7. Trail!LastOf(delta) \in delta
      BY <2>5, <2>6 DEF Trail!LastOf
    <2>8. PICK j \in DOMAIN ring : Trail!LastOf(delta) = ring[j]
      BY <1>4, <2>7
    <2> QED
      BY <1>1, <1>3, <2>8 DEF Ordered
  <1> QED
    BY <1>5, <1>6, <1>7 DEF delta

\* What a beat's step keeps when the ring, the cursor and the stamps stay.
LEMMA BeatMoves ==
  ASSUME TrailInv, NEW b \in Beats, NEW fields \in BeatType,
         beat' = [beat EXCEPT ![b] = fields],
         UNCHANGED <<now, recorded, ring, cursor, trimmed, carriedTo>>,
         column' \subseteq Entries,
         \A entry \in Entries : Arrived(entry) => Arrived(entry)',
         fields.through <= now,
         fields.at \in {"sent", "read", "alive"} =>
           \A i \in DOMAIN ring :
             ring[i] \in fields.delta \/ fields.through <= ring[i].atMs \/ Behind(ring[i]),
         fields.at = "alive" => \A entry \in fields.delta : Arrived(entry)'
  PROVE  TrailInv'
  <1>1. beat \in [Beats -> BeatType] /\ ring \in Seq(Entries)
    BY DEF TrailInv, TrailTypes, BeatType
  <1>2. \A c \in Beats : beat'[c] = IF c = b THEN fields ELSE beat[c]
    BY <1>1
  <1>3. TrailTypes'
    <2>1. beat' \in [Beats -> BeatType]
      BY <1>1
    <2> QED
      BY <2>1 DEF TrailInv, TrailTypes, BeatType
  <1>4. Ordered'
    BY DEF TrailInv, Ordered
  <1>5. \A i \in DOMAIN ring : ring[i] \in Entries
    BY <1>1
  <1>6. \A entry : Behind(entry)' <=> Behind(entry)
    BY DEF Behind
  <1>7. Carried
    BY DEF TrailInv
  <1>8. cursor' \in carriedTo' \cup {0} /\ \A ms \in carriedTo' : ms <= now'
    BY <1>7 DEF Carried
  <1>9. \A i \in DOMAIN ring : Behind(ring[i]) => Arrived(ring[i])' \/ ring[i].atMs \in carriedTo
    BY <1>5, <1>7 DEF Carried
  <1>10. \A c \in Beats : beat'[c].through <= now
    BY <1>2, <1>7 DEF Carried
  <1>11. ASSUME NEW c \in Beats, beat'[c].at \in {"sent", "read", "alive"}
         PROVE  \A i \in DOMAIN ring :
                  ring[i] \in beat'[c].delta \/ beat'[c].through <= ring[i].atMs \/ Behind(ring[i])
    BY <1>2, <1>7, <1>11 DEF Carried
  <1>12. ASSUME NEW c \in Beats, beat'[c].at = "alive"
         PROVE  \A entry \in beat'[c].delta : Arrived(entry)'
    <2>1. CASE c = b
      BY <1>2, <1>12, <2>1
    <2>2. CASE c # b
      <3>1. beat'[c] = beat[c] /\ beat[c].delta \subseteq Entries
        BY <1>1, <1>2, <2>2 DEF BeatType
      <3> QED
        BY <1>7, <1>12, <3>1 DEF Carried
    <2> QED
      BY <2>1, <2>2
  <1>13. Carried'
    BY <1>6, <1>8, <1>9, <1>10, <1>11, <1>12 DEF Carried
  <1> QED
    BY <1>3, <1>4, <1>13 DEF TrailInv

\* A beat takes the ring's delta along.
LEMMA SendStep ==
  ASSUME TrailInv, NEW b \in Beats, Trail!Send(b)
  PROVE  TrailInv'
  <1> DEFINE delta == Trail!takeDiagDelta(cursor)
             through == IF delta = {} THEN cursor ELSE Trail!LastOf(delta).atMs
             fields == [Trail!Idle EXCEPT !.at = "sent", !.delta = delta, !.through = through]
  <1>1. /\ TrailTypes /\ Ordered /\ Carried /\ cursor \in Nat /\ now \in Nat
        /\ carriedTo \subseteq Nat /\ column \subseteq Entries /\ ring \in Seq(Entries)
    BY DEF TrailInv, TrailTypes
  <1>2. beat' = [beat EXCEPT ![b] = fields]
    BY DEF Trail!Send
  <1>3. UNCHANGED <<now, recorded, ring, cursor, live, column, trimmed, carriedTo, overwritten>>
    BY DEF Trail!Send
  <1>4. /\ delta \subseteq Entries /\ through \in Nat
        /\ \A i \in DOMAIN ring : ring[i] \in delta \/ ring[i].atMs <= cursor
    BY <1>1, DeltaIsWhole
  <1>5. through <= now
    <2>1. cursor <= now
      BY <1>1 DEF Carried
    <2> QED
      BY <1>1, <2>1, DeltaIsWhole
  <1> HIDE DEF delta, through
  <1>6. fields \in BeatType
    BY <1>4 DEF BeatType, Beatings, Trail!Idle
  <1>7. ASSUME NEW i \in DOMAIN ring
        PROVE  ring[i] \in delta \/ through <= ring[i].atMs \/ Behind(ring[i])
    <2>1. ring[i] \in Entries
      BY <1>1
    <2>2. ring[i].atMs \in Nat /\ 0 < ring[i].atMs
      BY <1>1, <2>1 DEF Ordered, Entries
    <2> QED
      BY <1>1, <1>4, <2>2 DEF Carried, Behind
  <1>8. \A entry : Arrived(entry)' <=> Arrived(entry)
    BY <1>3 DEF Arrived, Trail!Stored
  <1>9. fields.at = "sent" /\ fields.delta = delta /\ fields.through = through
    BY DEF Trail!Idle
  <1> HIDE DEF fields
  <1> QED
    BY <1>1, <1>2, <1>3, <1>5, <1>6, <1>7, <1>8, <1>9, BeatMoves

\* The rest of a beat's steps start from what it carries.
LEMMA BeatCarries ==
  ASSUME TrailInv, NEW b \in Beats
  PROVE  /\ beat[b] \in BeatType /\ beat[b].at \in Beatings /\ beat[b].delta \subseteq Entries
         /\ beat[b].base \subseteq Entries /\ beat[b].through \in Nat
         /\ beat[b].through <= now /\ column \subseteq Entries
         /\ beat[b].at \in {"sent", "read", "alive"} =>
              \A i \in DOMAIN ring :
                ring[i] \in beat[b].delta \/ beat[b].through <= ring[i].atMs \/ Behind(ring[i])
         /\ beat[b].at = "alive" => \A entry \in beat[b].delta : Arrived(entry)
  <1>1. beat \in [Beats -> BeatType] /\ column \subseteq Entries
    BY DEF TrailInv, TrailTypes, BeatType
  <1>2. beat[b] \in BeatType
    BY <1>1
  <1> QED
    BY <1>1, <1>2 DEF BeatType, TrailInv, Carried

\* The database reads the column, or refuses.
LEMMA ReadStep ==
  ASSUME TrailInv, NEW b \in Beats, Trail!Read(b)
  PROVE  TrailInv'
  <1> DEFINE place == IF ~live THEN "refused" ELSE IF beat[b].delta = {} THEN "alive" ELSE "read"
             fields == [beat[b] EXCEPT !.at = place, !.base = column]
  <1>1. /\ beat[b].at = "sent"
        /\ UNCHANGED <<now, recorded, ring, cursor, column, trimmed, carriedTo, overwritten>>
    BY DEF Trail!Read
  <1>2. /\ beat[b] \in BeatType /\ beat[b].delta \subseteq Entries /\ column \subseteq Entries
        /\ beat[b].through \in Nat
    BY BeatCarries
  <1>3. beat' = [beat EXCEPT ![b] = fields]
    BY <1>1 DEF Trail!Read, Trail!Step
  <1>4. fields \in BeatType
    BY <1>2 DEF BeatType, Beatings
  <1>5. \A entry : Arrived(entry)' <=> Arrived(entry)
    BY <1>1 DEF Arrived, Trail!Stored
  <1>6. /\ fields.delta = beat[b].delta /\ fields.through = beat[b].through
        /\ fields.at = "alive" => beat[b].delta = {}
    BY <1>2 DEF BeatType
  <1> HIDE DEF fields
  <1> QED
    BY <1>1, <1>2, <1>3, <1>4, <1>5, <1>6, BeatCarries, BeatMoves

\* The append keeps what had arrived, or names it as overwritten.
LEMMA AppendKeeps ==
  ASSUME TrailInv, NEW b \in Beats, Trail!AppendsDelta(b)
  PROVE  /\ column' \subseteq Entries
         /\ \A entry \in Entries : Arrived(entry) => Arrived(entry)'
         /\ \A entry \in beat[b].delta : Arrived(entry)'
  BY BeatCarries DEF Trail!AppendsDelta, Trail!Stored, Arrived

\* What was read is written with the delta.
LEMMA WriteStep ==
  ASSUME TrailInv, NEW b \in Beats, NEW place \in {"alive", "done"},
         beat[b].at \in {"read", "orphan"}, place = "alive" => beat[b].at = "read",
         Trail!AppendsDelta(b), Trail!Step(b, [beat[b] EXCEPT !.at = place]),
         UNCHANGED <<now, recorded, ring, cursor, live, ended, trimmed, carriedTo>>
  PROVE  TrailInv'
  <1> DEFINE fields == [beat[b] EXCEPT !.at = place]
  <1>1. beat' = [beat EXCEPT ![b] = fields]
    BY DEF Trail!Step
  <1>2. /\ fields \in BeatType /\ fields.at = place
        /\ fields.delta = beat[b].delta /\ fields.through = beat[b].through
    BY BeatCarries DEF BeatType, Beatings
  <1> HIDE DEF fields
  <1> QED
    BY <1>1, <1>2, AppendKeeps, BeatCarries, BeatMoves

\* The cursor moves to the stamp that a delivered beat ended at.
LEMMA DeliveredStep ==
  ASSUME TrailInv, NEW b \in Beats, Trail!Delivered(b)
  PROVE  TrailInv'
  <1>1. /\ beat[b].at = "alive" /\ cursor' = beat[b].through
        /\ carriedTo' = carriedTo \cup {beat[b].through}
        /\ beat' = [beat EXCEPT ![b] = [beat[b] EXCEPT !.at = "done"]]
        /\ UNCHANGED <<now, recorded, ring, column, trimmed, overwritten>>
    BY DEF Trail!Delivered, Trail!Step
  <1>2. /\ TrailTypes /\ Ordered /\ Carried /\ beat \in [Beats -> BeatType]
        /\ carriedTo \subseteq Nat /\ ring \in Seq(Entries)
    BY DEF TrailInv, TrailTypes, BeatType
  <1>3. /\ beat' \in [Beats -> BeatType]
        /\ \A c \in Beats : /\ beat'[c].through = beat[c].through /\ beat'[c].delta = beat[c].delta
                            /\ beat'[c].at = IF c = b THEN "done" ELSE beat[c].at
    BY <1>1, <1>2 DEF BeatType, Beatings
  <1>4. TrailTypes'
    BY <1>1, <1>2, <1>3, BeatCarries DEF TrailTypes, BeatType
  <1>5. Ordered'
    BY <1>1, <1>2 DEF Ordered
  <1>6. \A entry : /\ Arrived(entry)' <=> Arrived(entry)
                   /\ Behind(entry)' <=> Behind(entry) \/ entry.atMs <= beat[b].through
    BY <1>1 DEF Arrived, Trail!Stored, Behind
  <1>7. ASSUME NEW i \in DOMAIN ring, Behind(ring[i])'
        PROVE  Arrived(ring[i]) \/ ring[i].atMs \in carriedTo'
    <2>1. CASE Behind(ring[i])
      BY <1>1, <1>2, <2>1 DEF Carried
    <2>2. CASE ~Behind(ring[i])
      <3>1. ring[i] \in Entries
        BY <1>2
      <3>2. ring[i].atMs \in Nat /\ beat[b].through \in Nat /\ ring[i].atMs <= beat[b].through
        <4>1. Behind(ring[i])' <=> Behind(ring[i]) \/ ring[i].atMs <= beat[b].through
          BY <1>1 DEF Behind
        <4> QED
          BY <1>7, <2>2, <3>1, <4>1, BeatCarries DEF Entries
      <3>3. ring[i] \in beat[b].delta \/ beat[b].through <= ring[i].atMs
        BY <1>1, <2>2, BeatCarries
      <3> QED
        BY <1>1, <3>2, <3>3, BeatCarries
    <2> QED
      BY <2>1, <2>2
  <1>8. /\ cursor' \in carriedTo' \cup {0} /\ \A ms \in carriedTo' : ms <= now'
    BY <1>1, <1>2, BeatCarries DEF Carried
  <1>9. Carried'
    BY <1>1, <1>2, <1>3, <1>6, <1>7, <1>8 DEF Carried
  <1> QED
    BY <1>4, <1>5, <1>9 DEF TrailInv

\* Every step of the parts keeps the invariant.
LEMMA TrailStep == TrailInv /\ [PartsNext]_partsVars => TrailInv'
  <1> SUFFICES ASSUME TrailInv, [PartsNext]_partsVars PROVE TrailInv'
    OBVIOUS
  <1>1. CASE Trail!Record
    BY <1>1, RecordStep
  <1>2. CASE Trail!Clock \/ Trail!Complete \/ UNCHANGED trailVars
    BY <1>2, IdleStep
  <1>3. ASSUME NEW b \in Beats, Trail!Beat(b) \/ Trail!Flush(b) PROVE TrailInv'
    BY <1>3, SendStep DEF Trail!Beat, Trail!Flush
  <1>4. ASSUME NEW b \in Beats, Trail!Read(b) PROVE TrailInv'
    BY <1>4, ReadStep
  <1>5. ASSUME NEW b \in Beats, Trail!Write(b) PROVE TrailInv'
    BY <1>5, WriteStep DEF Trail!Write
  <1>6. ASSUME NEW b \in Beats, Trail!Orphaned(b) PROVE TrailInv'
    BY <1>6, WriteStep DEF Trail!Orphaned
  <1>7. ASSUME NEW b \in Beats, Trail!Delivered(b) PROVE TrailInv'
    BY <1>7, DeliveredStep
  <1>8. ASSUME NEW b \in Beats, Trail!Undelivered(b) PROVE TrailInv'
    BY <1>8, UndeliveredStep
  <1> QED
    BY <1>1, <1>2, <1>3, <1>4, <1>5, <1>6, <1>7, <1>8 DEF PartsNext, InEntry, partsVars, Trail!Next

\* With it, whatever is missing is one of the known holes.
LEMMA TrailInvIsEnough ==
  ASSUME TrailInv
  PROVE  HolesAreKnown
  <1> SUFFICES ASSUME NEW id \in 1 .. recorded,
                      id \notin Trail!Stored(column) \cup trimmed \cup overwritten
               PROVE  \E i \in DOMAIN ring :
                        ring[i].id = id /\ (ring[i].atMs > cursor \/ ring[i].atMs \in carriedTo)
    BY DEF HolesAreKnown, Trail!HolesAreKnown
  <1>1. PICK i \in DOMAIN ring : ring[i].id = id
    BY DEF TrailInv, Ordered
  <1>2. ring \in Seq(Entries) /\ cursor \in Nat
    BY DEF TrailInv, TrailTypes
  <1>3. ring[i] \in Entries
    BY <1>2
  <1>4. ring[i].atMs \in Nat /\ 0 < ring[i].atMs
    BY <1>3 DEF Entries, TrailInv, Ordered
  <1>5. Behind(ring[i]) => ring[i].atMs \in carriedTo
    BY <1>1 DEF TrailInv, Carried, Arrived
  <1>6. cursor \in carriedTo \/ cursor = 0
    BY DEF TrailInv, Carried
  <1> QED
    BY <1>1, <1>2, <1>4, <1>5, <1>6 DEF Behind

-----------------------------------------------------------------------------
(* The ears (RoomVoice) *)

\* What the handler's refs and the world outside may hold.
VoiceTypes ==
  /\ since \in 0 .. Voice!Horizon /\ stoppedFor \in 0 .. Voice!Horizon
  /\ ears \in [candidate : BOOLEAN, morgan : BOOLEAN, suspect : BOOLEAN]
  /\ barge \in Nat
  /\ gate \in [applied : {"resting", "gated"}, hangover : Int]
  /\ playing \in BOOLEAN
  /\ episode \in [kind : {"none", "echo", "speech"}, fading : BOOLEAN, quietFor : Nat,
                  apart : BOOLEAN]
  /\ ~episode.fading => episode.quietFor = 0

\* The two signs together follow the speakers, and the last tick that heard Morgan is
\* the last of his playback.
SignsFollow ==
  /\ "events" \in signals => (ears.morgan <=> playing)
  /\ "events" \notin signals => ~ears.morgan /\ "analyser" \in signals
  /\ ~playing => since = stoppedFor

\* An echo is suspect, and dies within its tail and the detector's.
EchoesAreSuspect ==
  /\ ears.candidate <=> episode.kind # "none"
  /\ episode.apart => ~ears.suspect
  /\ episode.kind = "echo" =>
       /\ ears.suspect
       /\ ~episode.fading => since <= EchoTail
       /\ episode.fading => since <= EchoTail + episode.quietFor /\ episode.quietFor <= VadTail

\* The hangover is what is left of it.
GateCounts ==
  /\ Voice!GateTracks
  /\ gate.applied = "gated" => gate.hangover = PLAYBACK_GATE_HANGOVER_MS - since * TickMs

\* The inductive invariant of the ears.
VoiceInv ==
  /\ VoiceTypes /\ SignsFollow /\ EchoesAreSuspect /\ GateCounts
  /\ Voice!EchoesAreTold /\ Voice!CutIsSpeech

\* The figures are positive numbers.
LEMMA Figures ==
  /\ TickMs \in Nat \ {0} /\ ECHO_START_WINDOW_MS \in Nat \ {0} /\ ECHO_OUTLIVE_MS \in Nat \ {0}
  /\ BARGE_SUSTAIN_MS \in Nat \ {0} /\ PLAYBACK_GATE_HANGOVER_MS \in Nat \ {0}
  /\ SUSPEND_GAP_MS \in Nat \ {0} /\ MIN_PAIRED_SAMPLES \in Nat \ {0}
  /\ VadTail \in Nat \ {0} /\ EchoTail \in Nat \ {0}
  BY VoiceConstants

\* More ticks last longer, and two stretches as long as both.
LEMMA TicksLast ==
  ASSUME NEW m \in Int, NEW n \in Int
  PROVE  /\ m * TickMs \in Int /\ (m + n) * TickMs = m * TickMs + n * TickMs
         /\ m <= n => m * TickMs <= n * TickMs
         /\ 0 * TickMs = 0
  <1>1. TickMs \in Nat
    BY Figures
  <1>2. m <= n => m * TickMs <= n * TickMs
    <2>1. CASE m <= n
      <3>1. n - m >= 0 /\ (n - m) * TickMs >= 0 /\ n * TickMs = m * TickMs + (n - m) * TickMs
        BY <1>1, <2>1
      <3>2. m * TickMs \in Int /\ n * TickMs \in Int /\ (n - m) * TickMs \in Int
        BY <1>1
      <3> QED
        BY <3>1, <3>2
    <2> QED
      BY <2>1
  <1> QED
    BY <1>1, <1>2

\* The horizon lies beyond the longest window.
LEMMA HorizonIsFar ==
  Voice!Horizon \in Nat \ {0} /\ ECHO_OUTLIVE_MS < Voice!Horizon * TickMs
  <1> DEFINE q == ECHO_OUTLIVE_MS \div TickMs
  <1>1. q \in Nat /\ ECHO_OUTLIVE_MS < q * TickMs + TickMs
    BY Figures
  <1>2. (1 + q) * TickMs = q * TickMs + TickMs
    BY <1>1, Figures
  <1> QED
    BY <1>1, <1>2 DEF Voice!Horizon

\* A room that opens has heard nobody.
LEMMA VoiceInit == PartsInit => VoiceInv
  <1> SUFFICES ASSUME PartsInit PROVE VoiceInv
    OBVIOUS
  <1>0. Voice!Init
    BY DEF PartsInit
  <1> USE <1>0 DEF Voice!Init
  <1>1. VoiceTypes
    <2>1. /\ since \in 0 .. Voice!Horizon /\ stoppedFor \in 0 .. Voice!Horizon
          /\ barge \in Nat
      BY HorizonIsFar
    <2>p. playing \in BOOLEAN
      OBVIOUS
    <2>2. ears \in [candidate : BOOLEAN, morgan : BOOLEAN, suspect : BOOLEAN]
      OBVIOUS
    <2>3. gate \in [applied : {"resting", "gated"}, hangover : Int]
      BY DEF Voice!INITIAL_GATE_STATE
    <2>4. /\ episode \in [kind : {"none", "echo", "speech"}, fading : BOOLEAN, quietFor : Nat,
                         apart : BOOLEAN]
          /\ ~episode.fading => episode.quietFor = 0
      BY DEF Voice!Silence
    <2> QED
      BY <2>1, <2>p, <2>2, <2>3, <2>4 DEF VoiceTypes
  <1>2. SignsFollow
    BY DEF SignsFollow
  <1>3. EchoesAreSuspect
    BY DEF EchoesAreSuspect, Voice!Silence
  <1>4. GateCounts
    BY HorizonIsFar, VoiceConstants, Figures, TicksLast DEF GateCounts, Voice!GateTracks,
      Voice!INITIAL_GATE_STATE
  <1>5. Voice!EchoesAreTold /\ Voice!CutIsSpeech
    BY DEF Voice!EchoesAreTold, Voice!CutIsSpeech
  <1> QED
    BY <1>1, <1>2, <1>3, <1>4, <1>5 DEF VoiceInv

\* The speakers' frames are the sign of Morgan's voice.
LEMMA MorganFrames ==
  /\ Voice!MorganFrame(Voice!Frame("output_audio_buffer.started")) =>
       ears' = [ears EXCEPT !.morgan = TRUE] /\ UNCHANGED <<barge, sent, verdict>>
  /\ \A type \in {"output_audio_buffer.stopped", "output_audio_buffer.cleared"} :
       Voice!MorganFrame(Voice!Frame(type)) =>
         ears' = [ears EXCEPT !.morgan = FALSE] /\ UNCHANGED <<barge, sent, verdict>>
  /\ \A f \in Voice!hostileWirePayloads :
       Voice!MorganFrame(f) =>
         ears' = [ears EXCEPT !.morgan = @] /\ UNCHANGED <<barge, sent, verdict>>
  BY DEF Voice!MorganFrame, Voice!Frame, Voice!hostileWirePayloads, Voice!TypeOf,
    Voice!interviewerStateForEvent

\* Playback starts and stops with its frames.
LEMMA PlaybackKeeps ==
  ASSUME VoiceInv, Voice!PlaybackStarts \/ Voice!PlaybackStops
  PROVE  VoiceInv'
  <1> USE DEF VoiceInv
  <1>1. /\ UNCHANGED <<since, gate, signals, episode, threshold, barge, sent, verdict>>
        /\ stoppedFor' = 0 /\ (~playing' => since' = 0)
        /\ ears' \in [candidate : BOOLEAN, morgan : BOOLEAN, suspect : BOOLEAN]
        /\ ears'.candidate = ears.candidate /\ ears'.suspect = ears.suspect
        /\ "events" \in signals => (ears'.morgan <=> playing')
        /\ "events" \notin signals => ears'.morgan = ears.morgan
    <2>t. ears \in [candidate : BOOLEAN, morgan : BOOLEAN, suspect : BOOLEAN]
      BY DEF VoiceTypes
    <2>1. CASE Voice!PlaybackStarts /\ "events" \in signals
      BY <2>1, <2>t, MorganFrames DEF Voice!PlaybackStarts
    <2>2. CASE Voice!PlaybackStops /\ "events" \in signals
      BY <2>2, <2>t, MorganFrames DEF Voice!PlaybackStops
    <2>3. CASE "events" \notin signals
      BY <2>3, <2>t DEF Voice!PlaybackStarts, Voice!PlaybackStops
    <2> QED
      BY <2>1, <2>2, <2>3
  <1>2. playing' \in BOOLEAN
    BY DEF Voice!PlaybackStarts, Voice!PlaybackStops
  <1>3. VoiceTypes'
    BY <1>1, <1>2, HorizonIsFar DEF VoiceTypes
  <1>4. SignsFollow'
    BY <1>1 DEF SignsFollow
  <1>5. EchoesAreSuspect'
    BY <1>1 DEF EchoesAreSuspect
  <1>6. GateCounts' /\ Voice!EchoesAreTold' /\ Voice!CutIsSpeech'
    BY <1>1 DEF GateCounts, Voice!GateTracks, Voice!EchoesAreTold, Voice!CutIsSpeech
  <1> QED
    BY <1>3, <1>4, <1>5, <1>6

\* What starts while the leak may be heard is suspect, what starts clear of it is not.
LEMMA EpisodeStartKeeps ==
  ASSUME VoiceInv, NEW k \in {"echo", "speech"}, Voice!EpisodeStarts(k)
  PROVE  VoiceInv'
  <1> USE DEF VoiceInv
  <1>1. /\ UNCHANGED <<since, gate, playing, stoppedFor, signals, threshold, sent, verdict>>
        /\ episode.kind = "none" /\ (k = "echo" => since = 0)
    BY DEF Voice!EpisodeStarts, Voice!Started
  <1>2. /\ episode'.kind = k /\ episode'.fading = FALSE /\ episode'.quietFor = 0
        /\ episode'.apart <=> ~(since * TickMs < ECHO_START_WINDOW_MS)
        /\ episode' \in [kind : {"none", "echo", "speech"}, fading : BOOLEAN, quietFor : Nat,
                         apart : BOOLEAN]
    <2> DEFINE a == ~(since * TickMs < ECHO_START_WINDOW_MS)
    <2>1. a \in BOOLEAN
      OBVIOUS
    <2>2. episode' = [kind |-> k, fading |-> FALSE, quietFor |-> 0, apart |-> a]
      BY DEF Voice!EpisodeStarts, Voice!Silence, Voice!MayBeBelow
    <2> HIDE DEF a
    <2>3. /\ episode'.kind = k /\ episode'.fading = FALSE /\ episode'.quietFor = 0
          /\ episode'.apart = a
          /\ episode' \in [kind : {"none", "echo", "speech"}, fading : BOOLEAN, quietFor : Nat,
                           apart : BOOLEAN]
      BY <2>1, <2>2
    <2> QED
      BY <2>3 DEF a
  <1>3. PICK s \in BOOLEAN :
          /\ ears' = [ears EXCEPT !.candidate = TRUE, !.suspect = s]
          /\ s => since * TickMs < ECHO_START_WINDOW_MS
          /\ ~s => (since + 1) * TickMs > ECHO_START_WINDOW_MS
    BY DEF Voice!EpisodeStarts, Voice!Started, Voice!MayBeBelow, Voice!MayReach
  <1>4. /\ ears'.candidate = TRUE /\ ears'.suspect = s /\ ears'.morgan = ears.morgan
        /\ ears' \in [candidate : BOOLEAN, morgan : BOOLEAN, suspect : BOOLEAN]
    BY <1>3 DEF VoiceTypes
  <1>5. k = "echo" => s
    BY <1>1, <1>3, Figures, VoiceConstants
  <1>6. barge' \in Nat
    BY DEF Voice!EpisodeStarts, Voice!Started, VoiceTypes
  <1>7. VoiceTypes'
    BY <1>1, <1>2, <1>4, <1>6 DEF VoiceTypes
  <1>8. SignsFollow'
    BY <1>1, <1>4 DEF SignsFollow
  <1>9. EchoesAreSuspect'
    <2>1. ears'.candidate <=> episode'.kind # "none"
      BY <1>2, <1>4
    <2>2. episode'.apart => ~ears'.suspect
      BY <1>2, <1>3, <1>4
    <2>3. episode'.kind = "echo" => ears'.suspect /\ ~episode'.fading /\ since' <= EchoTail
      BY <1>1, <1>2, <1>4, <1>5, Figures
    <2> QED
      BY <2>1, <2>2, <2>3 DEF EchoesAreSuspect
  <1>10. GateCounts' /\ Voice!EchoesAreTold' /\ Voice!CutIsSpeech'
    BY <1>1 DEF GateCounts, Voice!GateTracks, Voice!EchoesAreTold, Voice!CutIsSpeech
  <1> QED
    BY <1>7, <1>8, <1>9, <1>10

\* The candidate joins an echo, and a sound ends.
LEMMA EpisodeTurnKeeps ==
  ASSUME VoiceInv, Voice!EchoIsJoined \/ Voice!SoundEnds
  PROVE  VoiceInv'
  <1> USE DEF VoiceInv
  <1>1. /\ UNCHANGED <<since, ears, barge, gate, sent, playing, stoppedFor, signals, threshold,
                       verdict>>
        /\ episode'.apart = episode.apart
        /\ episode' \in [kind : {"none", "echo", "speech"}, fading : BOOLEAN, quietFor : Nat,
                         apart : BOOLEAN]
        /\ ~episode'.fading => episode'.quietFor = 0
        /\ episode.kind # "none" /\ episode'.kind # "none"
        /\ episode'.kind = "echo" =>
             episode.kind = "echo" /\ ~episode.fading /\ episode'.quietFor = 0
        /\ episode.kind = "speech" => episode'.kind = "speech"
    <2>t. /\ episode \in [kind : {"none", "echo", "speech"}, fading : BOOLEAN, quietFor : Nat,
                          apart : BOOLEAN]
          /\ ~episode.fading => episode.quietFor = 0
      BY DEF VoiceTypes
    <2>1. CASE Voice!EchoIsJoined
      <3>1. episode' = [episode EXCEPT !.kind = "speech", !.fading = FALSE, !.quietFor = 0]
        BY <2>1 DEF Voice!EchoIsJoined
      <3>2. /\ episode'.kind = "speech" /\ episode'.fading = FALSE /\ episode'.quietFor = 0
            /\ episode'.apart = episode.apart
            /\ episode' \in [kind : {"none", "echo", "speech"}, fading : BOOLEAN,
                             quietFor : Nat, apart : BOOLEAN]
        BY <2>t, <3>1
      <3> QED
        BY <2>1, <3>2 DEF Voice!EchoIsJoined
    <2>2. CASE Voice!SoundEnds
      <3>1. episode' = [episode EXCEPT !.fading = TRUE]
        BY <2>2 DEF Voice!SoundEnds
      <3>2. /\ episode'.kind = episode.kind /\ episode'.fading = TRUE
            /\ episode'.quietFor = episode.quietFor /\ episode'.apart = episode.apart
            /\ episode' \in [kind : {"none", "echo", "speech"}, fading : BOOLEAN,
                             quietFor : Nat, apart : BOOLEAN]
        BY <2>t, <3>1
      <3> QED
        BY <2>2, <2>t, <3>2 DEF Voice!SoundEnds
    <2> QED
      BY <2>1, <2>2
  <1>2. VoiceTypes'
    BY <1>1 DEF VoiceTypes
  <1>3. EchoesAreSuspect'
    BY <1>1, Figures DEF EchoesAreSuspect
  <1>4. SignsFollow' /\ GateCounts' /\ Voice!EchoesAreTold' /\ Voice!CutIsSpeech'
    BY <1>1 DEF SignsFollow, GateCounts, Voice!GateTracks, Voice!EchoesAreTold, Voice!CutIsSpeech
  <1> QED
    BY <1>2, <1>3, <1>4

\* An echo's commit falls inside the window in which a suspect is an echo.
LEMMA CommitKeeps ==
  ASSUME VoiceInv, Voice!EpisodeCommits
  PROVE  VoiceInv'
  <1> USE DEF VoiceInv
  <1> DEFINE f == Voice!Committed("string")
             clear == episode.apart \/ ~(since * TickMs < ECHO_OUTLIVE_MS)
  <1>1. Voice!HasItemId(f)
    BY DEF Voice!HasItemId, Voice!speechStateForEvent, Voice!TypeOf, Voice!Committed, Voice!Frame
  <1>2. /\ UNCHANGED <<since, gate, playing, stoppedFor, signals, threshold, barge>>
        /\ episode.fading /\ episode' = Voice!Silence
    BY DEF Voice!EpisodeCommits, Voice!StoppedAndCommitted
  <1>3. PICK outlived \in BOOLEAN :
          /\ outlived => (since + 1) * TickMs > ECHO_OUTLIVE_MS
          /\ ~outlived => since * TickMs < ECHO_OUTLIVE_MS
          /\ ears' = [ears EXCEPT !.candidate = FALSE]
          /\ verdict' = [kind |-> episode.kind, counted |-> Voice!Counts(outlived),
                         purged |-> ~Voice!Counts(outlived), clear |-> clear]
          /\ sent' \subseteq {"item.delete"}
    BY <1>1 DEF Voice!EpisodeCommits, Voice!StoppedAndCommitted, Voice!MayReach, Voice!MayBeBelow,
      Voice!Stopped
  <1>4. /\ ears'.candidate = FALSE /\ ears'.suspect = ears.suspect /\ ears'.morgan = ears.morgan
        /\ ears' \in [candidate : BOOLEAN, morgan : BOOLEAN, suspect : BOOLEAN]
    BY <1>3 DEF VoiceTypes
  <1>5. /\ episode'.kind = "none" /\ episode'.apart = FALSE /\ episode'.fading = FALSE
        /\ episode'.quietFor = 0
        /\ episode' \in [kind : {"none", "echo", "speech"}, fading : BOOLEAN, quietFor : Nat,
                         apart : BOOLEAN]
    BY <1>2 DEF Voice!Silence
  <1>6. episode.kind = "echo" => ~outlived /\ ears.suspect
    <2> SUFFICES ASSUME episode.kind = "echo" PROVE ~outlived /\ ears.suspect
      OBVIOUS
    <2>1. ears.suspect /\ since + 1 <= EchoTail + VadTail + 1 /\ since \in Nat
      BY <1>2, Figures, HorizonIsFar DEF EchoesAreSuspect, VoiceTypes
    <2>2. (since + 1) * TickMs <= (EchoTail + VadTail + 1) * TickMs
      BY <2>1, Figures, TicksLast
    <2>3. (since + 1) * TickMs <= ECHO_OUTLIVE_MS
      BY <2>1, <2>2, VoiceConstants, Figures
    <2> QED
      BY <1>3, <2>1, <2>3, Figures
  <1>7. clear => Voice!Counts(outlived)
    BY <1>3 DEF Voice!Counts, EchoesAreSuspect
  <1>8. Voice!EchoesAreTold'
    <2> HIDE DEF clear
    <2>1. /\ verdict'.kind = episode.kind /\ verdict'.counted = Voice!Counts(outlived)
          /\ verdict'.purged = ~Voice!Counts(outlived) /\ verdict'.clear = clear
      BY <1>3
    <2>2. episode.kind = "echo" => ~Voice!Counts(outlived)
      BY <1>6 DEF Voice!Counts
    <2> QED
      BY <2>1, <2>2, <1>7 DEF Voice!EchoesAreTold
  <1>9. VoiceTypes'
    BY <1>2, <1>4, <1>5 DEF VoiceTypes
  <1>10. SignsFollow' /\ EchoesAreSuspect'
    BY <1>2, <1>4, <1>5 DEF SignsFollow, EchoesAreSuspect
  <1>11. GateCounts' /\ Voice!CutIsSpeech'
    BY <1>2, <1>3 DEF GateCounts, Voice!GateTracks, Voice!CutIsSpeech
  <1> QED
    BY <1>8, <1>9, <1>10, <1>11

\* Frames of another kind say nothing.
LEMMA NoiseKeeps ==
  ASSUME VoiceInv, Voice!Noise
  PROVE  VoiceInv'
  <1> USE DEF VoiceInv
  <1>1. /\ UNCHANGED <<since, gate, playing, stoppedFor, signals, episode, threshold, barge, sent,
                       verdict>>
        /\ ears' = [ears EXCEPT !.morgan = @]
    BY MorganFrames DEF Voice!Noise, Voice!world
  <1>2. UNCHANGED ears
    BY <1>1 DEF VoiceTypes
  <1> QED
    BY <1>1, <1>2 DEF VoiceTypes, SignsFollow, EchoesAreSuspect, GateCounts, Voice!GateTracks,
      Voice!EchoesAreTold, Voice!CutIsSpeech

\* The horizon stands for every stretch beyond the windows.
LEMMA UptoCounts ==
  ASSUME NEW n \in Nat
  PROVE  /\ Voice!Upto(n) \in 0 .. Voice!Horizon /\ Voice!Upto(n) <= n
         /\ n * TickMs < PLAYBACK_GATE_HANGOVER_MS
              <=> Voice!Upto(n) * TickMs < PLAYBACK_GATE_HANGOVER_MS
         /\ n * TickMs < PLAYBACK_GATE_HANGOVER_MS => Voice!Upto(n) = n
  <1>1. CASE n <= Voice!Horizon
    BY <1>1, HorizonIsFar DEF Voice!Upto
  <1>2. CASE Voice!Horizon < n
    <2>1. Voice!Upto(n) = Voice!Horizon
      BY <1>2, HorizonIsFar DEF Voice!Upto
    <2>2. Voice!Horizon * TickMs <= n * TickMs
      BY <1>2, HorizonIsFar, TicksLast
    <2>3. PLAYBACK_GATE_HANGOVER_MS < Voice!Horizon * TickMs
      BY HorizonIsFar, VoiceConstants, Figures, TicksLast
    <2> QED
      BY <1>2, <2>1, <2>2, <2>3, HorizonIsFar, TicksLast, Figures
  <1> QED
    BY <1>1, <1>2, HorizonIsFar

\* A tick that hears nobody adds to what it finds, one that hears Morgan starts anew.
LEMMA TickKeeps ==
  ASSUME VoiceInv, NEW dt \in Nat, Voice!Tick(dt), dt = 1 \/ episode.kind = "none"
  PROVE  VoiceInv'
  <1> USE DEF VoiceInv
  <1>1. PICK heard \in Voice!Analysed :
          LET audible == heard \/ ears.morgan
              out == Voice!nextGateState(audible, dt)
          IN /\ since' = IF audible THEN 0 ELSE Voice!Upto(since + dt)
             /\ Voice!BargeStep(audible, dt)
             /\ gate' = out.state
             /\ threshold' = IF "raise" \in out.effect THEN "gated"
                             ELSE IF "restore" \in out.effect THEN "resting" ELSE threshold
             /\ Voice!Moved(dt)
             /\ UNCHANGED <<ears, playing, signals, verdict>>
    BY DEF Voice!Tick
  <1> DEFINE audible == heard \/ ears.morgan
             out == Voice!nextGateState(audible, dt)
  <1>t. /\ heard \in BOOLEAN /\ ears.morgan \in BOOLEAN /\ playing \in BOOLEAN
        /\ since \in Nat /\ stoppedFor \in Nat /\ barge \in Nat /\ gate.hangover \in Int
        /\ gate.applied \in {"resting", "gated"}
    <2>1. playing \in BOOLEAN /\ ears.morgan \in BOOLEAN
      BY DEF VoiceTypes
    <2>2. heard \in BOOLEAN
      BY <2>1 DEF Voice!Analysed
    <2>3. since \in Nat /\ stoppedFor \in Nat /\ barge \in Nat
      BY HorizonIsFar DEF VoiceTypes
    <2>4. gate.hangover \in Int /\ gate.applied \in {"resting", "gated"}
      BY DEF VoiceTypes
    <2> QED
      BY <2>1, <2>2, <2>3, <2>4
  <1>a. playing <=> audible
    BY <1>t DEF SignsFollow, Voice!Analysed
  <1>b. audible \in BOOLEAN
    BY <1>t
  <1>c. /\ since' = IF audible THEN 0 ELSE Voice!Upto(since + dt)
        /\ Voice!BargeStep(audible, dt)
        /\ gate' = out.state
        /\ threshold' = IF "raise" \in out.effect THEN "gated"
                        ELSE IF "restore" \in out.effect THEN "resting" ELSE threshold
        /\ Voice!Moved(dt)
        /\ UNCHANGED <<ears, playing, signals, verdict>>
    BY <1>1
  <1> HIDE DEF audible, out
  <1>2. since' \in 0 .. Voice!Horizon /\ stoppedFor' \in 0 .. Voice!Horizon
    BY <1>c, <1>t, UptoCounts, HorizonIsFar DEF Voice!Moved
  <1>3. ~playing' => since' = stoppedFor'
    BY <1>a, <1>c DEF Voice!Moved, SignsFollow
  <1>4. /\ episode'.kind = episode.kind /\ episode'.fading = episode.fading
        /\ episode'.apart = episode.apart
        /\ episode' \in [kind : {"none", "echo", "speech"}, fading : BOOLEAN, quietFor : Nat,
                         apart : BOOLEAN]
        /\ ~episode'.fading => episode'.quietFor = 0
        /\ episode.kind = "echo" /\ episode.fading => episode'.quietFor = episode.quietFor + dt
    <2>t. /\ episode \in [kind : {"none", "echo", "speech"}, fading : BOOLEAN, quietFor : Nat,
                          apart : BOOLEAN]
          /\ ~episode.fading => episode.quietFor = 0
      BY DEF VoiceTypes
    <2>1. CASE episode.kind = "none"
      BY <1>c, <2>t, <2>1 DEF Voice!Moved
    <2>2. CASE episode.kind # "none"
      <3> DEFINE q == IF episode.fading THEN episode.quietFor + dt ELSE 0
      <3>1. episode' = [episode EXCEPT !.quietFor = q]
        BY <1>c, <2>2 DEF Voice!Moved
      <3>2. q \in Nat
        BY <2>t
      <3> HIDE DEF q
      <3>3. /\ episode'.kind = episode.kind /\ episode'.fading = episode.fading
            /\ episode'.apart = episode.apart /\ episode'.quietFor = q
            /\ episode' \in [kind : {"none", "echo", "speech"}, fading : BOOLEAN, quietFor : Nat,
                             apart : BOOLEAN]
        BY <2>t, <3>1, <3>2
      <3> QED
        BY <3>3 DEF q
    <2> QED
      BY <2>1, <2>2
  <1>5. EchoesAreSuspect'
    <2>1. /\ ears'.candidate <=> episode'.kind # "none"
          /\ episode'.apart => ~ears'.suspect
          /\ episode'.kind = "echo" => ears'.suspect
      BY <1>4, <1>c DEF EchoesAreSuspect
    <2>2. ASSUME episode'.kind = "echo", ~episode'.fading PROVE since' <= EchoTail
      BY <1>4, <1>a, <1>c, <1>t, <2>2, UptoCounts, Figures DEF Voice!Moved, SignsFollow
    <2>3. ASSUME episode'.kind = "echo", episode'.fading
          PROVE  since' <= EchoTail + episode'.quietFor /\ episode'.quietFor <= VadTail
      <3>1. episode'.quietFor = episode.quietFor + dt /\ episode.quietFor + dt <= VadTail
        BY <1>4, <1>c, <2>3 DEF Voice!Moved
      <3>2. since <= EchoTail + episode.quietFor /\ episode.quietFor \in Nat
        BY <1>4, <2>3 DEF EchoesAreSuspect, VoiceTypes
      <3>3. since' <= since + dt
        BY <1>c, <1>t, UptoCounts
      <3> QED
        BY <3>1, <3>2, <3>3, <1>2, <1>t, HorizonIsFar, Figures
    <2> QED
      BY <2>1, <2>2, <2>3 DEF EchoesAreSuspect
  <1>6. barge' \in Nat
    <2>1. Voice!Upto(barge + dt) \in Nat
      BY <1>t, UptoCounts, HorizonIsFar
    <2> QED
      BY <1>c, <2>1 DEF Voice!BargeStep
  <1>7. Voice!CutIsSpeech'
    <2> SUFFICES ASSUME "clear" \in sent', episode.kind # "speech" PROVE FALSE
      BY <1>4 DEF Voice!CutIsSpeech
    <2>1. PICK corr \in Voice!echoCorrVerdict(barge), loud \in BOOLEAN :
            Voice!bargeCutDecision((barge - 1 + dt - 1) * TickMs >= BARGE_SUSTAIN_MS, loud, corr)
      BY <1>c DEF Voice!BargeStep
    <2>2. barge # 0 /\ ears.candidate
      BY <1>c DEF Voice!BargeStep
    <2>3. corr # "echo" /\ (barge - 1 + dt - 1) * TickMs >= BARGE_SUSTAIN_MS
      BY <2>1 DEF Voice!bargeCutDecision
    <2>4. episode.kind = "echo" /\ dt = 1
      BY <2>2 DEF EchoesAreSuspect, VoiceTypes
    <2>5. barge < MIN_PAIRED_SAMPLES
      BY <2>1, <2>3, <2>4, <1>t, Figures DEF Voice!echoCorrVerdict
    <2>6. barge - 1 <= MIN_PAIRED_SAMPLES - 2 /\ barge - 1 + dt - 1 = barge - 1
      BY <2>4, <2>5, <1>t, Figures
    <2>7. (barge - 1) * TickMs <= (MIN_PAIRED_SAMPLES - 2) * TickMs
      BY <2>6, <1>t, Figures, TicksLast
    <2> QED
      BY <2>3, <2>6, <2>7, VoiceConstants, Figures, TicksLast, <1>t
  <1>8. /\ gate' \in [applied : {"resting", "gated"}, hangover : Int]
        /\ threshold' = gate'.applied
        /\ gate'.applied = "gated" <=> since' * TickMs < PLAYBACK_GATE_HANGOVER_MS
        /\ gate'.applied = "gated" => gate'.hangover = PLAYBACK_GATE_HANGOVER_MS - since' * TickMs
    <2> DEFINE ms == dt * TickMs
    <2>t. /\ gate \in [applied : {"resting", "gated"}, hangover : Int] /\ threshold = gate.applied
          /\ gate.applied = "gated" <=> since * TickMs < PLAYBACK_GATE_HANGOVER_MS
          /\ gate.applied = "gated" =>
               gate.hangover = PLAYBACK_GATE_HANGOVER_MS - since * TickMs
          /\ ms \in Int /\ since * TickMs \in Int
          /\ (since + dt) * TickMs = since * TickMs + ms
          /\ 0 <= ms /\ 0 <= since * TickMs
      BY <1>t, TicksLast, Figures DEF VoiceTypes, GateCounts, Voice!GateTracks
    <2>1. CASE audible
      <3>1. /\ gate' = [applied |-> "gated", hangover |-> PLAYBACK_GATE_HANGOVER_MS]
            /\ out.effect = {m \in {"raise"} : gate.applied = "resting"}
        BY <1>c, <2>1 DEF out, Voice!nextGateState
      <3>2. since' = 0 /\ since' * TickMs = 0
        BY <1>c, <2>1, TicksLast
      <3>3. threshold' = "gated"
        BY <1>c, <1>t, <2>t, <3>1
      <3> QED
        BY <3>1, <3>2, <3>3, Figures
    <2> DEFINE n == since + dt
    <2>u. n \in Nat /\ n * TickMs = since * TickMs + ms
      BY <1>t, <2>t
    <2>2. CASE ~audible /\ gate.applied = "resting"
      <3>1. gate' = gate /\ out.effect = {}
        BY <1>c, <2>2 DEF out, Voice!nextGateState
      <3>2. ~(n * TickMs < PLAYBACK_GATE_HANGOVER_MS)
        BY <2>2, <2>t, <2>u, Figures
      <3>3. since' = Voice!Upto(n)
        BY <1>c, <2>2
      <3> QED
        BY <1>c, <2>2, <2>t, <2>u, <3>1, <3>2, <3>3, UptoCounts
    <2>3. CASE ~audible /\ gate.applied = "gated" /\ (ms >= SUSPEND_GAP_MS \/ gate.hangover <= ms)
      <3>1. gate' = Voice!INITIAL_GATE_STATE /\ out.effect = {"restore"}
        BY <1>c, <2>3 DEF out, Voice!nextGateState
      <3>2. ~(n * TickMs < PLAYBACK_GATE_HANGOVER_MS)
        BY <2>3, <2>t, <2>u, Figures, VoiceConstants
      <3>3. since' = Voice!Upto(n)
        BY <1>c, <2>3
      <3>4. /\ gate'.applied = "resting" /\ threshold' = "resting"
            /\ gate' \in [applied : {"resting", "gated"}, hangover : Int]
        BY <1>c, <3>1 DEF Voice!INITIAL_GATE_STATE
      <3>5. ~(since' * TickMs < PLAYBACK_GATE_HANGOVER_MS)
        BY <2>u, <3>2, <3>3, UptoCounts
      <3> QED
        BY <3>4, <3>5
    <2>4. CASE ~audible /\ gate.applied = "gated" /\ ~(ms >= SUSPEND_GAP_MS \/ gate.hangover <= ms)
      <3>1. gate' = [gate EXCEPT !.hangover = @ - ms] /\ out.effect = {}
        BY <1>c, <2>4 DEF out, Voice!nextGateState
      <3>2. n * TickMs < PLAYBACK_GATE_HANGOVER_MS
        BY <2>4, <2>t, <2>u, Figures
      <3>3. since' = n
        BY <1>c, <2>4, <2>u, <3>2, UptoCounts
      <3>4. /\ gate'.applied = "gated" /\ gate'.hangover = gate.hangover - ms
            /\ gate' \in [applied : {"resting", "gated"}, hangover : Int]
        BY <2>4, <2>t, <3>1
      <3>5. threshold' = "gated"
        BY <1>c, <2>4, <2>t, <3>1
      <3>6. PLAYBACK_GATE_HANGOVER_MS - since * TickMs - ms
              = PLAYBACK_GATE_HANGOVER_MS - (since * TickMs + ms)
        BY <2>t, Figures
      <3> QED
        BY <2>4, <2>t, <2>u, <3>2, <3>3, <3>4, <3>5, <3>6
    <2> QED
      BY <1>t, <2>1, <2>2, <2>3, <2>4
  <1>9. VoiceTypes'
    BY <1>c, <1>2, <1>4, <1>6, <1>8 DEF VoiceTypes
  <1>10. SignsFollow' /\ Voice!EchoesAreTold'
    BY <1>c, <1>3 DEF SignsFollow, Voice!EchoesAreTold
  <1>11. GateCounts'
    BY <1>8 DEF GateCounts, Voice!GateTracks
  <1> QED
    BY <1>5, <1>7, <1>9, <1>10, <1>11

\* A gap is a tick like another, when nobody is heard meanwhile.
LEMMA VoiceStep == VoiceInv /\ [PartsNext]_partsVars => VoiceInv'
  <1> SUFFICES ASSUME VoiceInv, [PartsNext]_partsVars PROVE VoiceInv'
    OBVIOUS
  <1>1. CASE Voice!PlaybackStarts \/ Voice!PlaybackStops
    BY <1>1, PlaybackKeeps
  <1>2. ASSUME NEW k \in {"echo", "speech"}, Voice!EpisodeStarts(k) PROVE VoiceInv'
    BY <1>2, EpisodeStartKeeps
  <1>3. CASE Voice!EchoIsJoined \/ Voice!SoundEnds
    BY <1>3, EpisodeTurnKeeps
  <1>4. CASE Voice!EpisodeCommits
    BY <1>4, CommitKeeps
  <1>5. CASE Voice!Noise
    BY <1>5, NoiseKeeps
  <1>6. CASE Voice!Tick(1)
    BY <1>6, TickKeeps
  <1>7. CASE episode.kind = "none" /\ Voice!Tick(SUSPEND_GAP_MS \div TickMs)
    <2>1. SUSPEND_GAP_MS \div TickMs \in Nat
      BY Figures
    <2> QED
      BY <1>7, <2>1, TickKeeps
  <1>8. CASE UNCHANGED voiceVars
    BY <1>8 DEF voiceVars, VoiceInv, VoiceTypes, SignsFollow, EchoesAreSuspect, GateCounts,
      Voice!GateTracks, Voice!EchoesAreTold, Voice!CutIsSpeech
  <1> QED
    BY <1>1, <1>2, <1>3, <1>4, <1>5, <1>6, <1>7, <1>8 DEF PartsNext, InEntry, partsVars, Voice!Next

\* What the ears keep is what they must be right about.
LEMMA VoiceInvIsEnough == VoiceInv => Voice!EarsAreRight
  BY DEF VoiceInv, GateCounts, Voice!EarsAreRight

-----------------------------------------------------------------------------
(* The clock (ClockHarness) *)

\* A tick measures something, and the goodbye comes when it is armed; a turn that put
\* a question is not read as a statement.
IsTick(t) ==
  /\ t.dtS \in Nat \ {0}
  /\ t.candidateAudible \in BOOLEAN /\ t.interviewerAudible \in BOOLEAN
  /\ t.commitArrived \in BOOLEAN /\ t.responseDone \in BOOLEAN /\ t.put \in BOOLEAN
  /\ t.transcript \in {"none", "ask", "statement", "closing"}
  /\ t.transcript = "closing" => t.elapsedS >= ArmedAt
  /\ t.put => t.transcript # "statement"

\* Until the goodbye, the shadow measures what the reducer does, and what the one has
\* waited is what the other has left; after it they agree on the linger and the end.
Alike(s, h) ==
  /\ h.closingQuietS = s.closingQuietS
  /\ h.endEffects = 1 <=> s.interviewEnded
  /\ ~s.closingSeen =>
       /\ h.quietS = s.quietS /\ h.episodeS = s.episodeS /\ h.stagesFired = s.stagesSent
       /\ h.armed <=> s.responseDueInS # 0
       /\ h.armed => s.responseDueInS + h.quietSinceCommitS = Debounce
       /\ s.closingQuietS = 0 /\ ~s.interviewEnded

\* A turn is owed only after one that put no question.
OwedIsNoQuestion ==
  /\ silence.morganOwesSpeech => ~put
  /\ QuestionIsNotNudged

\* The inductive invariant of the clock.
ClockInv ==
  /\ generator \in GENERATORS
  /\ silence \in SilenceClockState /\ shadow \in Shadow
  /\ Alike(silence, shadow)
  /\ put \in BOOLEAN /\ nudged \in BOOLEAN
  /\ OwedIsNoQuestion
  /\ HarnessIsClean

\* The figures of the ladder and its fuses.
LEMMA ClockFigures ==
  /\ Gap \in Nat \ {0} /\ Debounce \in Nat \ {0} /\ Blip \in Nat \ {0}
  /\ Linger \in Nat \ {0} /\ Nudge \in Nat \ {0}
  /\ Rungs \in Seq(Nat) /\ Len(Rungs) \in Nat /\ Top \in Nat
  /\ \A n \in 0 .. Len(Rungs) : n < Len(Rungs) => Rungs[n + 1] \in Nat
  BY FiguresAssumption, RungsAssumption DEF Top

\* A count stops at its bound.
LEMMA AtMostCounts ==
  ASSUME NEW n \in Nat, NEW bound \in Nat
  PROVE  /\ AtMost(n, bound) \in 0 .. bound
         /\ AtMost(n, bound) >= bound <=> n >= bound
         /\ n < bound => AtMost(n, bound) = n
  BY DEF AtMost

\* Every generator draws ticks.
LEMMA GeneratedTicks ==
  ASSUME NEW t \in generate(generator), generator \in GENERATORS
  PROVE  IsTick(t)
  <1> DEFINE Read(w) == /\ w.put \in BOOLEAN
                        /\ Says(w) \in {"none", "ask", "statement"}
                        /\ w.put => Says(w) # "statement"
  <1>1. \A w \in {NoTurn, Ready, Continuing} \cup Turns : Read(w)
    <2>1. Read(NoTurn)
      BY DEF NoTurn, Says
    <2>2. Read(Ready)
      <3> DEFINE asked == Sentence("?", <<<<"word">>>>)
      <3>1. sentenceIsAsk(asked)
        BY DEF sentenceIsAsk, Sentence
      <3> HIDE DEF asked
      <3>2. transcriptCarriesAsk(<<asked>>)
        BY <3>1 DEF transcriptCarriesAsk
      <3>3. Ready.put = TRUE /\ Ready.turn = <<asked>>
        BY DEF Ready, asked
      <3> QED
        BY <3>2, <3>3 DEF Says
    <2>3. Read(Continuing)
      BY DEF Continuing, Says
    <2>4. ASSUME NEW w \in Turns PROVE Read(w)
      BY TurnsAreRead DEF Says, NoTurn
    <2> QED
      BY <2>1, <2>2, <2>3, <2>4
  <1>2. TICK_S \in Nat \ {0} /\ \A dt \in DT_CHOICES : dt \in Nat \ {0}
    BY HarnessAssumption
  <1>3. ASSUME NEW dt \in Nat \ {0}, NEW flags, NEW w, Read(w)
        PROVE  IsTick(tick(dt, flags, w))
    BY <1>3 DEF tick, IsTick
  <1>4. Read(NoTurn) /\ Read(Ready) /\ Read(Continuing) /\ \A w \in Turns : Read(w)
    BY <1>1
  <1>5. ASSUME NEW flags
        PROVE  IsTick(Late(tick(TICK_S, flags, NoTurn)))
    BY <1>2 DEF Late, tick, IsTick, NoTurn, Says
  <1>6. IsTick([Late(quietTick) EXCEPT !.transcript = "closing"])
    BY <1>2 DEF Late, quietTick, tick, IsTick, NoTurn, ArmedAt, closingArmedAt, SESSION_BUDGET_S
  <1> HIDE DEF Read
  <1>q. IsTick(quietTick) /\ IsTick(candidateTick) /\ IsTick(commitTick)
    BY <1>2, <1>3, <1>4 DEF quietTick, candidateTick, commitTick
  <1>7. \A u \in vadFlapping : IsTick(u)
    BY <1>q DEF vadFlapping
  <1>8. \A u \in commitStorms : IsTick(u)
    BY <1>q, <1>2, <1>3, <1>4 DEF commitStorms
  <1>9. \A u \in commitFlagNoise : IsTick(u)
    BY <1>2, <1>3, <1>4 DEF commitFlagNoise
  <1>10. \A u \in overlapPatterns : IsTick(u)
    <2>1. \A u \in {tick(TICK_S, flags \cup {"morgan"}, NoTurn) : flags \in SUBSET {"candidate"}} :
            IsTick(u)
      BY <1>2, <1>3, <1>4
    <2> QED
      BY <1>q, <2>1 DEF overlapPatterns
  <1>11. \A u \in dtSpikes : IsTick(u)
    BY <1>2, <1>3, <1>4 DEF dtSpikes
  <1>12. \A u \in closingPhases : IsTick(u)
    BY <1>5, <1>6 DEF closingPhases
  <1>13. \A u \in soup : IsTick(u)
    BY <1>7, <1>8, <1>9, <1>11 DEF soup
  <1>14. \A u \in spokenTurns : IsTick(u)
    BY <1>q, <1>2, <1>3, <1>4 DEF spokenTurns
  <1> QED
    BY <1>7, <1>8, <1>9, <1>10, <1>12, <1>13, <1>14 DEF generate, GENERATORS

\* What a tick's transcript leaves of the state, apart from the debounce and the flight.
TakenAs(s, t, r) ==
  /\ r \in SilenceClockState
  /\ r.closingSeen = Closes(s, t) /\ r.morganOwesSpeech = Owes(s, t)
  /\ r.closingQuietS = s.closingQuietS /\ r.interviewEnded = s.interviewEnded

\* The reducer takes a transcript in, and a commit arms the debounce.
LEMMA TakenInKeeps ==
  ASSUME NEW s \in SilenceClockState, NEW t, IsTick(t)
  PROVE  LET taken == TakenIn(s, t)
             armed == Armed(taken, t)
         IN /\ TakenAs(s, t, taken) /\ TakenAs(s, t, armed)
            /\ taken.quietS = QuietSoFar(s, t) /\ armed.quietS = QuietSoFar(s, t)
            /\ taken.episodeS = s.episodeS /\ armed.episodeS = s.episodeS
            /\ taken.stagesSent = s.stagesSent /\ armed.stagesSent = s.stagesSent
            /\ taken.responseInFlight = Cancelable(s, t)
            /\ armed.responseInFlight = Cancelable(s, t)
            /\ taken.responseDueInS = s.responseDueInS
            /\ armed.responseDueInS = IF t.commitArrived THEN Debounce ELSE s.responseDueInS
  <1> DEFINE flight == Cancelable(s, t)
             seen == Closes(s, t)
             owes == Owes(s, t)
             quiet == QuietSoFar(s, t)
             taken == TakenIn(s, t)
             armed == Armed(taken, t)
  <1>1. flight \in BOOLEAN /\ seen \in BOOLEAN
    BY DEF Cancelable, Closes, SilenceClockState, IsTick
  <1>2. owes \in BOOLEAN
    BY DEF Owes, SilenceClockState
  <1>3. quiet \in 0 .. Top
    BY ClockFigures DEF QuietSoFar, SilenceClockState
  <1>4. taken = [s EXCEPT !.responseInFlight = flight, !.closingSeen = seen,
                          !.morganOwesSpeech = owes, !.quietS = quiet]
    BY DEF TakenIn
  <1> HIDE DEF flight, seen, owes, quiet, taken
  <1>5. /\ taken \in SilenceClockState
        /\ taken.responseInFlight = flight /\ taken.closingSeen = seen
        /\ taken.morganOwesSpeech = owes /\ taken.quietS = quiet
        /\ taken.episodeS = s.episodeS /\ taken.stagesSent = s.stagesSent
        /\ taken.responseDueInS = s.responseDueInS
        /\ taken.closingQuietS = s.closingQuietS /\ taken.interviewEnded = s.interviewEnded
    BY <1>1, <1>2, <1>3, <1>4 DEF SilenceClockState
  <1>6. Debounce \in 0 .. Debounce
    BY ClockFigures
  <1>7. /\ armed \in SilenceClockState
        /\ armed.responseInFlight = flight /\ armed.closingSeen = seen
        /\ armed.morganOwesSpeech = owes /\ armed.quietS = quiet
        /\ armed.episodeS = s.episodeS /\ armed.stagesSent = s.stagesSent
        /\ armed.responseDueInS = IF t.commitArrived THEN Debounce ELSE s.responseDueInS
        /\ armed.closingQuietS = s.closingQuietS /\ armed.interviewEnded = s.interviewEnded
    <2>1. CASE t.commitArrived
      <3>1. armed = [taken EXCEPT !.responseDueInS = Debounce]
        BY <2>1 DEF Armed
      <3> HIDE DEF armed
      <3> QED
        BY <2>1, <3>1, <1>5, <1>6 DEF SilenceClockState
    <2>2. CASE ~t.commitArrived
      <3>1. armed = taken
        BY <2>2 DEF Armed
      <3> QED
        BY <2>2, <3>1, <1>5
    <2> QED
      BY <2>1, <2>2
  <1> QED
    BY <1>5, <1>7 DEF TakenAs, flight, seen, owes, quiet, taken

\* After the goodbye nothing is said, and the linger ends once.
LEMMA ClosingIsQuiet ==
  ASSUME NEW s \in SilenceClockState, NEW t, IsTick(t), Closes(s, t)
  PROVE  LET out == nextSilenceState(s, t)
             waits == ~t.candidateAudible /\ ~t.interviewerAudible /\ t.dtS < Gap
                      /\ ~s.interviewEnded
         IN /\ out.state \in SilenceClockState
            /\ out.state.closingSeen = TRUE /\ out.state.morganOwesSpeech = Owes(s, t)
            /\ t.interviewerAudible => ~out.state.responseInFlight
            /\ out.speak = "none" /\ out.cancel = FALSE
            /\ out.end <=> waits /\ Lingered(s, t) >= Linger
            /\ out.state.interviewEnded <=> s.interviewEnded \/ out.end
            /\ out.state.closingQuietS = IF t.candidateAudible \/ t.interviewerAudible THEN 0
                                         ELSE IF waits THEN Lingered(s, t) ELSE s.closingQuietS
  <1> DEFINE taken == TakenIn(s, t)
             out == nextSilenceState(s, t)
             ends == Lingered(taken, t) >= Linger
             linger == Lingered(taken, t)
             c == [taken EXCEPT !.responseDueInS = 0]
  <1>1. /\ TakenAs(s, t, taken) /\ taken.responseInFlight = Cancelable(s, t)
    BY TakenInKeeps
  <1>2. taken.closingSeen = TRUE
    <2>1. taken.closingSeen = Closes(s, t) /\ taken \in SilenceClockState
      BY <1>1 DEF TakenAs
    <2> QED
      BY <2>1 DEF SilenceClockState
  <1>3. out = Closing(taken, t)
    BY <1>2 DEF nextSilenceState
  <1>4. linger = Lingered(s, t)
    BY <1>1 DEF TakenAs, Lingered
  <1>5. linger \in 0 .. Linger
    <2>1. s.closingQuietS + t.dtS \in Nat
      BY DEF SilenceClockState, IsTick
    <2> QED
      BY <1>4, <2>1, AtMostCounts, ClockFigures DEF Lingered
  <1> HIDE DEF taken
  <1>6. /\ c \in SilenceClockState /\ c.closingSeen = TRUE /\ c.morganOwesSpeech = Owes(s, t)
        /\ c.responseInFlight = Cancelable(s, t)
        /\ c.interviewEnded = s.interviewEnded /\ c.closingQuietS = s.closingQuietS
    <2>1. /\ taken \in SilenceClockState /\ taken.morganOwesSpeech = Owes(s, t)
          /\ taken.interviewEnded = s.interviewEnded /\ taken.closingQuietS = s.closingQuietS
      BY <1>1 DEF TakenAs
    <2>2. 0 \in 0 .. Debounce
      BY ClockFigures
    <2> QED
      BY <1>1, <1>2, <2>1, <2>2 DEF SilenceClockState
  <1>7. t.dtS \in Nat /\ Gap \in Nat /\ ends \in BOOLEAN /\ s.interviewEnded \in BOOLEAN
    BY ClockFigures DEF IsTick, SilenceClockState
  <1>8. taken.interviewEnded = s.interviewEnded
    BY <1>1 DEF TakenAs
  <1>a. t.interviewerAudible => ~Cancelable(s, t)
    BY DEF Cancelable
  <1>9. CASE t.candidateAudible \/ t.interviewerAudible
    <2> DEFINE r == [c EXCEPT !.closingQuietS = 0]
    <2>1. out = Effects(r, "none", FALSE, FALSE)
      BY <1>3, <1>9 DEF Closing, Silently
    <2> HIDE DEF c
    <2>z. 0 \in 0 .. Linger
      BY ClockFigures
    <2>2. /\ r \in SilenceClockState /\ r.closingSeen = TRUE /\ r.morganOwesSpeech = Owes(s, t)
          /\ r.responseInFlight = Cancelable(s, t)
          /\ r.interviewEnded = s.interviewEnded /\ r.closingQuietS = 0
      BY <1>6, <2>z DEF SilenceClockState
    <2> HIDE DEF r
    <2>3. out.state = r /\ out.speak = "none" /\ out.cancel = FALSE /\ out.end = FALSE
      BY <2>1 DEF Effects
    <2> QED
      BY <1>9, <1>a, <2>2, <2>3
  <1>10. CASE ~(t.candidateAudible \/ t.interviewerAudible) /\ (t.dtS >= Gap \/ s.interviewEnded)
    <2>1. out = Effects(c, "none", FALSE, FALSE)
      BY <1>3, <1>8, <1>10 DEF Closing, Silently
    <2> HIDE DEF c
    <2>2. out.state = c /\ out.speak = "none" /\ out.cancel = FALSE /\ out.end = FALSE
      BY <2>1 DEF Effects
    <2> QED
      BY <1>6, <1>7, <1>10, <1>a, <2>2
  <1>11. CASE ~(t.candidateAudible \/ t.interviewerAudible) /\ ~(t.dtS >= Gap \/ s.interviewEnded)
    <2> DEFINE r == [c EXCEPT !.closingQuietS = linger, !.interviewEnded = ends]
    <2>1. out = Effects(r, "none", FALSE, ends)
      BY <1>3, <1>8, <1>11 DEF Closing
    <2>e. ends <=> Lingered(s, t) >= Linger
      BY <1>4
    <2> HIDE DEF c, ends, linger
    <2>2. /\ r \in SilenceClockState /\ r.closingSeen = TRUE /\ r.morganOwesSpeech = Owes(s, t)
          /\ r.responseInFlight = Cancelable(s, t)
          /\ r.interviewEnded = ends /\ r.closingQuietS = linger
      BY <1>5, <1>6, <1>7, ClockFigures DEF SilenceClockState
    <2> HIDE DEF r
    <2>3. out.state = r /\ out.speak = "none" /\ out.cancel = FALSE /\ out.end = ends
      BY <2>1 DEF Effects
    <2> QED
      BY <1>4, <1>7, <1>11, <1>a, <2>2, <2>3, <2>e
  <1> QED
    BY <1>9, <1>10, <1>11

\* A state whose goodbye is still to come keeps what only the goodbye moves.
StaysOpen(s, r) ==
  /\ r \in SilenceClockState /\ r.closingSeen = FALSE
  /\ r.closingQuietS = s.closingQuietS /\ r.interviewEnded = s.interviewEnded

\* The states a tick starts from, before the goodbye.
LEMMA OpenStates ==
  ASSUME NEW s \in SilenceClockState, NEW t, IsTick(t), ~Closes(s, t)
  PROVE  /\ StaysOpen(s, TakenIn(s, t)) /\ StaysOpen(s, Armed(TakenIn(s, t), t))
         /\ TakenIn(s, t).morganOwesSpeech = Owes(s, t)
         /\ Armed(TakenIn(s, t), t).morganOwesSpeech = Owes(s, t)
  <1> DEFINE taken == TakenIn(s, t)
             armed == Armed(taken, t)
  <1>1. TakenAs(s, t, taken) /\ TakenAs(s, t, armed)
    BY TakenInKeeps
  <1> HIDE DEF taken, armed
  <1>2. /\ taken.closingSeen \in BOOLEAN /\ armed.closingSeen \in BOOLEAN
        /\ ~taken.closingSeen /\ ~armed.closingSeen
    BY <1>1 DEF TakenAs, SilenceClockState
  <1>3. StaysOpen(s, taken) /\ taken.morganOwesSpeech = Owes(s, t)
    BY <1>1, <1>2 DEF TakenAs, StaysOpen
  <1>4. StaysOpen(s, armed) /\ armed.morganOwesSpeech = Owes(s, t)
    BY <1>1, <1>2 DEF TakenAs, StaysOpen
  <1> QED
    BY <1>3, <1>4 DEF taken, armed

\* A gap leaves a fresh stretch.
LEMMA GapIsFresh ==
  ASSUME NEW s \in SilenceClockState, NEW t, IsTick(t), ~Closes(s, t), t.dtS >= Gap
  PROVE  LET out == nextSilenceState(s, t)
         IN /\ StaysOpen(s, out.state)
            /\ out.state.quietS = 0 /\ out.state.episodeS = 0 /\ out.state.stagesSent = 0
            /\ out.state.responseDueInS = 0 /\ out.state.responseInFlight = FALSE
            /\ out.state.morganOwesSpeech = Owes(s, t)
            /\ out.speak = "none" /\ out.cancel = FALSE /\ out.end = FALSE
  <1> DEFINE taken == TakenIn(s, t)
             out == nextSilenceState(s, t)
             r == [taken EXCEPT !.quietS = 0, !.episodeS = 0, !.stagesSent = 0,
                                !.responseDueInS = 0, !.responseInFlight = FALSE]
  <1>1. StaysOpen(s, taken) /\ taken.morganOwesSpeech = Owes(s, t)
    BY OpenStates
  <1>2. out = Effects(r, "none", FALSE, FALSE)
    BY <1>1 DEF nextSilenceState, StaysOpen, Resumed, Silently
  <1> HIDE DEF taken
  <1>3. 0 \in 0 .. Top /\ 0 \in 0 .. Blip /\ 0 \in 0 .. Len(Rungs) /\ 0 \in 0 .. Debounce
    BY ClockFigures
  <1>4. /\ StaysOpen(s, r) /\ r.morganOwesSpeech = Owes(s, t)
        /\ r.quietS = 0 /\ r.episodeS = 0 /\ r.stagesSent = 0
        /\ r.responseDueInS = 0 /\ r.responseInFlight = FALSE
    BY <1>1, <1>3 DEF StaysOpen, SilenceClockState
  <1> HIDE DEF r
  <1>5. out.state = r /\ out.speak = "none" /\ out.cancel = FALSE /\ out.end = FALSE
    BY <1>2 DEF Effects
  <1> QED
    BY <1>4, <1>5

\* While Morgan is heard, nothing is counted.
LEMMA MorganIsHeardOut ==
  ASSUME NEW s \in SilenceClockState, NEW t, IsTick(t), ~Closes(s, t), ~(t.dtS >= Gap),
         t.interviewerAudible
  PROVE  LET out == nextSilenceState(s, t)
         IN /\ StaysOpen(s, out.state)
            /\ out.state.quietS = QuietSoFar(s, t) /\ out.state.episodeS = 0
            /\ out.state.stagesSent = s.stagesSent
            /\ out.state.responseDueInS = IF t.commitArrived THEN Debounce ELSE s.responseDueInS
            /\ out.state.responseInFlight = Cancelable(s, t)
            /\ out.state.morganOwesSpeech = Owes(s, t)
            /\ out.speak = "none" /\ out.cancel = FALSE /\ out.end = FALSE
  <1> DEFINE taken == TakenIn(s, t)
             armed == Armed(taken, t)
             out == nextSilenceState(s, t)
             r == [armed EXCEPT !.episodeS = 0]
  <1>1. /\ StaysOpen(s, taken) /\ StaysOpen(s, armed)
        /\ armed.morganOwesSpeech = Owes(s, t)
    BY OpenStates
  <1>2. out = Effects(r, "none", FALSE, FALSE)
    BY <1>1 DEF nextSilenceState, StaysOpen, Silently
  <1>3. /\ armed.quietS = QuietSoFar(s, t) /\ armed.stagesSent = s.stagesSent
        /\ armed.responseInFlight = Cancelable(s, t)
        /\ armed.responseDueInS = IF t.commitArrived THEN Debounce ELSE s.responseDueInS
    BY TakenInKeeps
  <1> HIDE DEF armed
  <1>4. 0 \in 0 .. Blip
    BY ClockFigures
  <1>5. /\ StaysOpen(s, r) /\ r.morganOwesSpeech = Owes(s, t)
        /\ r.quietS = QuietSoFar(s, t) /\ r.episodeS = 0 /\ r.stagesSent = s.stagesSent
        /\ r.responseInFlight = Cancelable(s, t)
        /\ r.responseDueInS = IF t.commitArrived THEN Debounce ELSE s.responseDueInS
    BY <1>1, <1>3, <1>4 DEF StaysOpen, SilenceClockState
  <1> HIDE DEF r
  <1>6. out.state = r /\ out.speak = "none" /\ out.cancel = FALSE /\ out.end = FALSE
    BY <1>2 DEF Effects
  <1> QED
    BY <1>5, <1>6

\* The candidate disarms the response, and speech longer than a blip ends the stretch.
LEMMA CandidateEndsStretch ==
  ASSUME NEW s \in SilenceClockState, NEW t, IsTick(t), ~Closes(s, t), ~(t.dtS >= Gap),
         ~t.interviewerAudible, t.candidateAudible
  PROVE  LET out == nextSilenceState(s, t)
             speech == Episode(s, t)
         IN /\ StaysOpen(s, out.state)
            /\ out.state.quietS = IF speech >= Blip THEN 0 ELSE QuietSoFar(s, t)
            /\ out.state.episodeS = speech
            /\ out.state.stagesSent = IF speech >= Blip THEN 0 ELSE s.stagesSent
            /\ out.state.responseDueInS = 0 /\ out.state.responseInFlight = FALSE
            /\ out.state.morganOwesSpeech = Owes(s, t)
            /\ out.speak = "none" /\ out.end = FALSE
  <1> DEFINE taken == TakenIn(s, t)
             armed == Armed(taken, t)
             out == nextSilenceState(s, t)
             speech == Episode(s, t)
             c == [armed EXCEPT !.responseInFlight = FALSE, !.responseDueInS = 0,
                                !.episodeS = speech]
             r == IF speech >= Blip THEN [c EXCEPT !.quietS = 0, !.stagesSent = 0] ELSE c
  <1>1. /\ StaysOpen(s, taken) /\ StaysOpen(s, armed)
        /\ armed.morganOwesSpeech = Owes(s, t)
    BY OpenStates
  <1>2. /\ armed.quietS = QuietSoFar(s, t) /\ armed.stagesSent = s.stagesSent
        /\ armed.episodeS = s.episodeS
    BY TakenInKeeps
  <1>3. Episode(armed, t) = speech
    BY <1>2 DEF Episode
  <1>4. out = Effects(r, "none", armed.responseInFlight, FALSE)
    BY <1>1, <1>3 DEF nextSilenceState, StaysOpen, CandidateHeard
  <1> HIDE DEF armed
  <1>5. /\ 0 \in 0 .. Top /\ 0 \in 0 .. Len(Rungs) /\ 0 \in 0 .. Debounce
        /\ speech \in 0 .. Blip
    <2>1. s.episodeS + t.dtS \in Nat
      BY DEF SilenceClockState, IsTick
    <2>2. Blip \in Nat /\ Top \in Nat /\ Len(Rungs) \in Nat /\ Debounce \in Nat
      BY ClockFigures
    <2>3. speech \in 0 .. Blip
      BY <2>1, <2>2, AtMostCounts DEF Episode
    <2> HIDE DEF speech
    <2> QED
      BY <2>2, <2>3
  <1> HIDE DEF speech
  <1>6. /\ StaysOpen(s, c) /\ c.morganOwesSpeech = Owes(s, t)
        /\ c.quietS = QuietSoFar(s, t) /\ c.episodeS = speech /\ c.stagesSent = s.stagesSent
        /\ c.responseInFlight = FALSE /\ c.responseDueInS = 0
    BY <1>1, <1>2, <1>5 DEF StaysOpen, SilenceClockState
  <1> HIDE DEF c
  <1>7. /\ StaysOpen(s, r) /\ r.morganOwesSpeech = Owes(s, t)
        /\ r.quietS = (IF speech >= Blip THEN 0 ELSE QuietSoFar(s, t))
        /\ r.stagesSent = (IF speech >= Blip THEN 0 ELSE s.stagesSent)
        /\ r.episodeS = speech /\ r.responseInFlight = FALSE /\ r.responseDueInS = 0
    <2>1. CASE speech >= Blip
      <3>1. r = [c EXCEPT !.quietS = 0, !.stagesSent = 0]
        BY <2>1
      <3> HIDE DEF r
      <3> QED
        BY <1>5, <1>6, <2>1, <3>1 DEF StaysOpen, SilenceClockState
    <2>2. CASE ~(speech >= Blip)
      BY <1>6, <2>2
    <2> QED
      BY <2>1, <2>2
  <1> HIDE DEF r
  <1>8. out.state = r /\ out.speak = "none" /\ out.end = FALSE
    BY <1>4 DEF Effects
  <1> QED
    BY <1>7, <1>8 DEF speech

\* In a quiet room the fuse, a rung or the armed response speaks, one at a time.
LEMMA QuietRoomSpeaks ==
  ASSUME NEW s \in SilenceClockState, NEW t, IsTick(t), ~Closes(s, t), ~(t.dtS >= Gap),
         ~t.interviewerAudible, ~t.candidateAudible
  PROVE  LET out == nextSilenceState(s, t)
             quiet == AtMost(QuietSoFar(s, t) + t.dtS, Top)
             owes == Owes(s, t)
             due == s.responseDueInS
             nudges == owes /\ quiet >= Nudge
             climbs == ~owes /\ s.stagesSent < Len(Rungs) /\ quiet >= Rungs[s.stagesSent + 1]
             counts == due > 0 /\ ~t.commitArrived
             replies == ~nudges /\ ~climbs /\ counts /\ due <= t.dtS
         IN /\ StaysOpen(s, out.state) /\ out.end = FALSE /\ out.cancel = FALSE
            /\ out.state.quietS = quiet /\ out.state.episodeS = 0
            /\ out.state.stagesSent = IF climbs THEN s.stagesSent + 1 ELSE s.stagesSent
            /\ out.state.morganOwesSpeech <=> owes /\ ~nudges
            /\ out.state.responseDueInS = IF nudges \/ climbs \/ replies THEN 0
                                          ELSE IF t.commitArrived THEN Debounce
                                          ELSE IF counts THEN due - t.dtS ELSE 0
            /\ out.speak = IF nudges THEN "nudge" ELSE IF climbs THEN "stage"
                           ELSE IF replies THEN "response" ELSE "none"
  <1> DEFINE taken == TakenIn(s, t)
             armed == Armed(taken, t)
             out == nextSilenceState(s, t)
             quiet == AtMost(QuietSoFar(s, t) + t.dtS, Top)
             owes == Owes(s, t)
             due == s.responseDueInS
             nudges == owes /\ quiet >= Nudge
             climbs == ~owes /\ s.stagesSent < Len(Rungs) /\ quiet >= Rungs[s.stagesSent + 1]
             counts == due > 0 /\ ~t.commitArrived
             armedDue == IF t.commitArrived THEN Debounce ELSE due
             q == [armed EXCEPT !.episodeS = 0, !.quietS = quiet]
             spoken == [q EXCEPT !.responseDueInS = 0, !.responseInFlight = TRUE]
  <1>1. /\ StaysOpen(s, taken) /\ StaysOpen(s, armed)
        /\ armed.morganOwesSpeech = owes
    BY OpenStates
  <1>2. /\ armed.quietS = QuietSoFar(s, t) /\ armed.stagesSent = s.stagesSent
        /\ armed.responseDueInS = armedDue
    BY TakenInKeeps
  <1>3. out = RoomQuiet(armed, t)
    BY <1>1 DEF nextSilenceState, StaysOpen
  <1> HIDE DEF armed
  <1>4. /\ Quiet(armed, t) = quiet
        /\ Nudges(armed, t) <=> nudges
        /\ Climbs(armed, t) <=> climbs
        /\ Counts(armed, t) <=> counts
        /\ Answers(armed, t) <=> counts /\ due <= t.dtS
    BY <1>1, <1>2 DEF Quiet, Nudges, Climbs, Counts, Answers
  <1>5. /\ 0 \in 0 .. Blip /\ 0 \in 0 .. Debounce /\ due \in 0 .. Debounce
        /\ t.dtS \in Nat \ {0} /\ Debounce \in Nat \ {0} /\ Len(Rungs) \in Nat
        /\ s.stagesSent \in 0 .. Len(Rungs) /\ t.commitArrived \in BOOLEAN
    BY ClockFigures DEF SilenceClockState, IsTick
  <1>6. quiet \in 0 .. Top
    <2>1. QuietSoFar(s, t) \in Nat
      BY ClockFigures DEF QuietSoFar, SilenceClockState
    <2>2. QuietSoFar(s, t) + t.dtS \in Nat /\ Top \in Nat
      BY <1>5, <2>1, ClockFigures
    <2> QED
      BY <2>2, AtMostCounts
  <1>7. owes \in BOOLEAN
    BY DEF Owes, SilenceClockState
  <1> HIDE DEF quiet, owes
  <1>8. /\ StaysOpen(s, q) /\ q.quietS = quiet /\ q.episodeS = 0 /\ q.stagesSent = s.stagesSent
        /\ q.morganOwesSpeech = owes /\ q.responseDueInS = armedDue
    <2> HIDE DEF armedDue
    <2> QED
      BY <1>1, <1>2, <1>5, <1>6 DEF StaysOpen, SilenceClockState
  <1>s. /\ StaysOpen(s, spoken) /\ spoken.quietS = quiet /\ spoken.episodeS = 0
        /\ spoken.stagesSent = s.stagesSent /\ spoken.morganOwesSpeech = owes
        /\ spoken.responseDueInS = 0
    <2> HIDE DEF q
    <2> QED
      BY <1>8, <1>5 DEF StaysOpen, SilenceClockState
  <1>9. CASE nudges
    <2> DEFINE r == [spoken EXCEPT !.morganOwesSpeech = FALSE]
    <2>1. out = Effects(r, "nudge", FALSE, FALSE)
      <3>1. ~climbs
        BY <1>9
      <3> HIDE DEF nudges, climbs
      <3> QED
        BY <1>3, <1>4, <1>9, <3>1 DEF RoomQuiet
    <2> HIDE DEF spoken
    <2>2. /\ StaysOpen(s, r) /\ r.quietS = quiet /\ r.episodeS = 0
          /\ r.stagesSent = s.stagesSent /\ r.morganOwesSpeech = FALSE /\ r.responseDueInS = 0
      BY <1>s DEF StaysOpen, SilenceClockState
    <2> HIDE DEF r
    <2>3. out.state = r /\ out.speak = "nudge" /\ out.cancel = FALSE /\ out.end = FALSE
      BY <2>1 DEF Effects
    <2> QED
      BY <1>9, <2>2, <2>3 DEF quiet, owes
  <1>10. CASE climbs
    <2> DEFINE r == [spoken EXCEPT !.stagesSent = @ + 1]
    <2>0. ~nudges /\ s.stagesSent + 1 \in 0 .. Len(Rungs)
      BY <1>5, <1>10
    <2>1. out = Effects(r, "stage", FALSE, FALSE)
      <3> HIDE DEF nudges, climbs
      <3> QED
        BY <1>3, <1>4, <1>10, <2>0 DEF RoomQuiet
    <2> HIDE DEF spoken
    <2>2. /\ StaysOpen(s, r) /\ r.quietS = quiet /\ r.episodeS = 0
          /\ r.stagesSent = s.stagesSent + 1 /\ r.morganOwesSpeech = owes /\ r.responseDueInS = 0
      BY <1>s, <2>0 DEF StaysOpen, SilenceClockState
    <2> HIDE DEF r
    <2>3. out.state = r /\ out.speak = "stage" /\ out.cancel = FALSE /\ out.end = FALSE
      BY <2>1 DEF Effects
    <2> QED
      BY <1>10, <2>0, <2>2, <2>3 DEF quiet, owes
  <1>11. CASE ~nudges /\ ~climbs /\ counts /\ due <= t.dtS
    <2>1. out = Effects(spoken, "response", FALSE, FALSE)
      <3> HIDE DEF nudges, climbs, counts
      <3> QED
        BY <1>3, <1>4, <1>11 DEF RoomQuiet
    <2> HIDE DEF spoken
    <2>2. out.state = spoken /\ out.speak = "response" /\ out.cancel = FALSE /\ out.end = FALSE
      BY <2>1 DEF Effects
    <2> QED
      BY <1>11, <1>s, <2>2 DEF quiet, owes
  <1>12. CASE ~nudges /\ ~climbs /\ ~(counts /\ due <= t.dtS)
    <2> DEFINE left == IF counts THEN due - t.dtS ELSE armedDue
               r == IF counts THEN [q EXCEPT !.responseDueInS = @ - t.dtS] ELSE q
    <2>1. out = Effects(r, "none", FALSE, FALSE)
      <3> HIDE DEF nudges, climbs, counts
      <3> QED
        BY <1>3, <1>4, <1>12 DEF RoomQuiet, Silently
    <2>2. /\ StaysOpen(s, r) /\ r.quietS = quiet /\ r.episodeS = 0
          /\ r.stagesSent = s.stagesSent /\ r.morganOwesSpeech = owes
          /\ r.responseDueInS = left
      <3>1. CASE counts
        <4>1. armedDue = due /\ due - t.dtS \in 0 .. Debounce
          BY <1>5, <1>12, <3>1
        <4>2. r = [q EXCEPT !.responseDueInS = due - t.dtS]
          BY <1>8, <3>1, <4>1
        <4> HIDE DEF r, q
        <4> QED
          BY <1>8, <3>1, <4>1, <4>2 DEF StaysOpen, SilenceClockState
      <3>2. CASE ~counts
        BY <1>8, <3>2
      <3> QED
        BY <3>1, <3>2
    <2> HIDE DEF r
    <2>3. out.state = r /\ out.speak = "none" /\ out.cancel = FALSE /\ out.end = FALSE
      BY <2>1 DEF Effects
    <2>4. left = IF t.commitArrived THEN Debounce ELSE IF counts THEN due - t.dtS ELSE 0
      BY <1>5
    <2> HIDE DEF left
    <2> QED
      BY <1>12, <1>7, <2>2, <2>3, <2>4 DEF quiet, owes
  <1> QED
    BY <1>9, <1>10, <1>11, <1>12

\* The shadow's own account of a tick.
LEMMA ShadowFollows ==
  ASSUME NEW h \in Shadow, NEW t, IsTick(t)
  PROVE  LET f == Followed(h, t)
             handed == IF h.stagesFired = 0 /\ t.transcript # "none" THEN 0 ELSE h.quietS
             speech == AtMost(h.episodeS + t.dtS, Blip)
             waited == IF t.commitArrived THEN 0 ELSE h.quietSinceCommitS
         IN /\ f \in Shadow
            /\ classify(t) = "suspend" => f = freshShadow
            /\ classify(t) # "suspend" =>
                 f.closingQuietS = h.closingQuietS /\ f.endEffects = h.endEffects
            /\ classify(t) = "interviewer" =>
                 /\ f.quietS = handed /\ f.episodeS = 0 /\ f.stagesFired = h.stagesFired
                 /\ f.armed <=> h.armed \/ t.commitArrived
                 /\ f.quietSinceCommitS = waited
            /\ classify(t) = "candidate" =>
                 /\ f.quietS = IF speech >= Blip THEN 0 ELSE handed
                 /\ f.stagesFired = IF speech >= Blip THEN 0 ELSE h.stagesFired
                 /\ f.episodeS = speech /\ ~f.armed
            /\ classify(t) = "quiet" =>
                 /\ f.quietS = AtMost(handed + t.dtS, Top) /\ f.episodeS = 0
                 /\ f.stagesFired = h.stagesFired
                 /\ f.armed <=> h.armed \/ t.commitArrived
                 /\ f.quietSinceCommitS = IF h.armed /\ ~t.commitArrived
                                          THEN AtMost(h.quietSinceCommitS + t.dtS, Debounce)
                                          ELSE waited
  <1> DEFINE f == Followed(h, t)
             handed == IF h.stagesFired = 0 /\ t.transcript # "none" THEN 0 ELSE h.quietS
             speech == AtMost(h.episodeS + t.dtS, Blip)
             waited == IF t.commitArrived THEN 0 ELSE h.quietSinceCommitS
             a == HandedOver(h, t)
             b == ShadowArmed(a, t)
             isArmed == h.armed \/ t.commitArrived
  <1>1. /\ Top \in Nat /\ Blip \in Nat /\ Len(Rungs) \in Nat /\ Debounce \in Nat
        /\ t.dtS \in Nat /\ t.commitArrived \in BOOLEAN
        /\ h.quietS \in 0 .. Top /\ h.episodeS \in 0 .. Blip /\ h.stagesFired \in 0 .. Len(Rungs)
        /\ h.armed \in BOOLEAN /\ h.quietSinceCommitS \in 0 .. Debounce
    BY ClockFigures DEF Shadow, IsTick
  <1>z. 0 \in 0 .. Top /\ 0 \in 0 .. Blip /\ 0 \in 0 .. Len(Rungs) /\ 0 \in 0 .. Debounce
    BY <1>1
  <1>2. handed \in 0 .. Top /\ waited \in 0 .. Debounce
    BY <1>1
  <1>3. speech \in 0 .. Blip
    <2>1. h.episodeS + t.dtS \in Nat
      BY <1>1
    <2> QED
      BY <1>1, <2>1, AtMostCounts
  <1>4. isArmed \in BOOLEAN
    BY <1>1
  <1>5. /\ a \in Shadow /\ a.quietS = handed /\ a.episodeS = h.episodeS
        /\ a.stagesFired = h.stagesFired /\ a.armed = h.armed
        /\ a.quietSinceCommitS = h.quietSinceCommitS
        /\ a.closingQuietS = h.closingQuietS /\ a.endEffects = h.endEffects
    <2>1. CASE h.stagesFired = 0 /\ t.transcript # "none"
      <3>1. a = [h EXCEPT !.quietS = 0]
        BY <2>1 DEF HandedOver
      <3> HIDE DEF a
      <3> QED
        BY <2>1, <3>1, <1>z DEF Shadow
    <2>2. CASE ~(h.stagesFired = 0 /\ t.transcript # "none")
      BY <2>2 DEF HandedOver
    <2> QED
      BY <2>1, <2>2
  <1> HIDE DEF a, handed
  <1>6. CASE classify(t) = "suspend"
    <2>1. f = freshShadow
      BY <1>6 DEF Followed, Advanced
    <2>2. freshShadow \in Shadow
      BY <1>z, ClockFigures DEF freshShadow, Shadow
    <2> QED
      BY <1>6, <2>1, <2>2
  <1>7. CASE classify(t) # "suspend"
    <2>1. /\ b \in Shadow /\ b.quietS = handed /\ b.episodeS = h.episodeS
          /\ b.stagesFired = h.stagesFired /\ b.armed = isArmed
          /\ b.quietSinceCommitS = waited
          /\ b.closingQuietS = h.closingQuietS /\ b.endEffects = h.endEffects
      <3>1. CASE t.commitArrived
        <4>1. b = [a EXCEPT !.armed = TRUE, !.quietSinceCommitS = 0]
          BY <1>7, <3>1 DEF ShadowArmed, carriedCommit
        <4>2. isArmed = TRUE /\ waited = 0
          BY <3>1
        <4> HIDE DEF b, isArmed, waited
        <4> QED
          BY <1>5, <1>z, <4>1, <4>2 DEF Shadow
      <3>2. CASE ~t.commitArrived
        <4>1. b = a
          BY <3>2 DEF ShadowArmed, carriedCommit
        <4>2. isArmed = h.armed /\ waited = h.quietSinceCommitS
          BY <3>2, <1>1
        <4> QED
          BY <1>5, <4>1, <4>2
      <3> QED
        BY <3>1, <3>2, <1>1
    <2>2. f = Advanced(b, t)
      BY DEF Followed, a
    <2> HIDE DEF b, f, isArmed, waited
    <2>3. CASE classify(t) = "interviewer"
      <3>1. f = [b EXCEPT !.episodeS = 0]
        BY <2>2, <2>3 DEF Advanced
      <3>2. /\ f \in Shadow /\ f.quietS = handed /\ f.episodeS = 0
            /\ f.stagesFired = h.stagesFired /\ f.armed = isArmed
            /\ f.quietSinceCommitS = waited
            /\ f.closingQuietS = h.closingQuietS /\ f.endEffects = h.endEffects
        BY <2>1, <3>1, <1>z DEF Shadow
      <3> QED
        BY <2>3, <3>2 DEF isArmed, waited, handed, f
    <2>4. CASE classify(t) = "candidate"
      <3> DEFINE quiet == IF speech >= Blip THEN 0 ELSE handed
                 fired == IF speech >= Blip THEN 0 ELSE h.stagesFired
      <3>1. f = [b EXCEPT !.episodeS = speech, !.armed = FALSE, !.quietS = quiet,
                          !.stagesFired = fired]
        <4>1. ShadowEpisode(b, t) = speech
          BY <2>1 DEF ShadowEpisode
        <4> HIDE DEF speech
        <4> QED
          BY <2>1, <2>2, <2>4, <4>1 DEF Advanced
      <3>2. quiet \in 0 .. Top /\ fired \in 0 .. Len(Rungs)
        BY <1>1, <1>z, <1>2
      <3> HIDE DEF quiet, fired, speech
      <3>3. /\ f \in Shadow /\ f.quietS = quiet /\ f.episodeS = speech
            /\ f.stagesFired = fired /\ f.armed = FALSE
            /\ f.closingQuietS = h.closingQuietS /\ f.endEffects = h.endEffects
        BY <2>1, <3>1, <3>2, <1>3 DEF Shadow
      <3> QED
        BY <2>4, <3>3 DEF quiet, fired, speech, handed, f
    <2>5. CASE classify(t) = "quiet"
      <3> DEFINE quiet == AtMost(handed + t.dtS, Top)
                 since0 == IF h.armed /\ ~t.commitArrived
                           THEN AtMost(h.quietSinceCommitS + t.dtS, Debounce) ELSE waited
      <3>1. f = [b EXCEPT !.episodeS = 0, !.quietS = quiet, !.quietSinceCommitS = since0]
        <4>1. carriedCommit(t) <=> t.commitArrived
          BY <2>5 DEF carriedCommit
        <4>2. f = [b EXCEPT !.episodeS = 0, !.quietS = AtMost(@ + t.dtS, Top),
                            !.quietSinceCommitS = IF b.armed /\ ~carriedCommit(t)
                                                  THEN AtMost(@ + t.dtS, Debounce) ELSE @]
          BY <2>2, <2>5 DEF Advanced
        <4>3. since0 = IF b.armed /\ ~carriedCommit(t)
                       THEN AtMost(b.quietSinceCommitS + t.dtS, Debounce)
                       ELSE b.quietSinceCommitS
          BY <2>1, <4>1, <1>1 DEF isArmed, waited
        <4> HIDE DEF since0
        <4> QED
          BY <2>1, <4>2, <4>3
      <3>2. quiet \in 0 .. Top
        <4>1. handed + t.dtS \in Nat
          BY <1>1, <1>2
        <4> QED
          BY <1>1, <4>1, AtMostCounts
      <3>3. since0 \in 0 .. Debounce
        <4>1. h.quietSinceCommitS + t.dtS \in Nat
          BY <1>1
        <4> QED
          BY <1>1, <1>2, <4>1, AtMostCounts
      <3> HIDE DEF quiet, since0
      <3>4. /\ f \in Shadow /\ f.quietS = quiet /\ f.episodeS = 0
            /\ f.stagesFired = h.stagesFired /\ f.armed = isArmed
            /\ f.quietSinceCommitS = since0
            /\ f.closingQuietS = h.closingQuietS /\ f.endEffects = h.endEffects
        BY <2>1, <3>1, <3>2, <3>3, <1>z DEF Shadow
      <3> QED
        BY <2>5, <3>4 DEF quiet, since0, isArmed, waited, handed, f
    <2> QED
      BY <1>7, <2>3, <2>4, <2>5 DEF classify, f
  <1> QED
    BY <1>6, <1>7

\* Settling a tick moves the rung and the pending commit, nothing else.
LEMMA SettledKeeps ==
  ASSUME NEW f \in Shadow, NEW t, NEW out
  PROVE  LET g == Settled(f, t, out)
         IN /\ g \in Shadow
            /\ g.quietS = f.quietS /\ g.episodeS = f.episodeS
            /\ g.quietSinceCommitS = f.quietSinceCommitS
            /\ g.closingQuietS = f.closingQuietS /\ g.endEffects = f.endEffects
            /\ g.stagesFired = IF out.speak = "stage" \/ Overdue(f, t, out)
                               THEN AtMost(f.stagesFired + 1, Len(Rungs)) ELSE f.stagesFired
            /\ g.armed <=> f.armed /\ out.speak = "none" /\ ~Unanswered(f, t, out)
  <1> DEFINE g == Settled(f, t, out)
             fired == IF out.speak = "stage" \/ Overdue(f, t, out)
                      THEN AtMost(f.stagesFired + 1, Len(Rungs)) ELSE f.stagesFired
             armed == f.armed /\ out.speak = "none" /\ ~Unanswered(f, t, out)
  <1>1. g = [f EXCEPT !.stagesFired = fired, !.armed = armed]
    BY DEF Settled
  <1>2. armed \in BOOLEAN
    OBVIOUS
  <1>3. fired \in 0 .. Len(Rungs)
    <2>1. f.stagesFired \in 0 .. Len(Rungs) /\ Len(Rungs) \in Nat
      BY ClockFigures DEF Shadow
    <2>2. f.stagesFired + 1 \in Nat
      BY <2>1
    <2> QED
      BY <2>1, <2>2, AtMostCounts
  <1> HIDE DEF fired, armed, g
  <1>4. /\ g \in Shadow /\ g.stagesFired = fired /\ g.armed = armed
        /\ g.quietS = f.quietS /\ g.episodeS = f.episodeS
        /\ g.quietSinceCommitS = f.quietSinceCommitS
        /\ g.closingQuietS = f.closingQuietS /\ g.endEffects = f.endEffects
    BY <1>1, <1>2, <1>3 DEF Shadow
  <1> QED
    BY <1>4 DEF fired, armed, g

\* No word over anyone, and a fresh clock after a gap.
LEMMA PerTickIsClean ==
  ASSUME NEW t, NEW before, NEW out,
         out.state \in SilenceClockState,
         out.cancel => out.speak = "none",
         t.candidateAudible => out.speak = "none",
         t.interviewerAudible => out.speak = "none" /\ ~out.state.responseInFlight,
         t.dtS >= Gap /\ ~out.state.closingSeen =>
           /\ out.speak = "none" /\ out.state.quietS = 0 /\ out.state.episodeS = 0
           /\ out.state.stagesSent = 0 /\ out.state.responseDueInS = 0
  PROVE  checkPerTick(t, before, out) = {}
  BY DEF checkPerTick

\* A tick on which nothing is said, and nothing is due, breaks nothing.
LEMMA SilentTickIsClean ==
  ASSUME NEW f \in Shadow, NEW t, NEW out, classify(t) # "quiet", out.speak = "none"
  PROVE  /\ stageBroken(f, t, out) \cup triggerBroken(f, t, out) = {}
         /\ ~Overdue(f, t, out) /\ ~Unanswered(f, t, out)
  BY DEF stageBroken, triggerBroken, Overdue, Unanswered

\* What a tick must do for the clock to be fair.
FairTick(s, h, t, out, after) ==
  /\ out.state \in SilenceClockState /\ after \in Shadow
  /\ Alike(out.state, after)
  /\ checkPerTick(t, s, out) = {} /\ checkTrace(h, t, s, out) = {}

\* Before the goodbye the stretch is handed over as the reducer takes it in.
LEMMA HandOverAgrees ==
  ASSUME NEW s \in SilenceClockState, NEW h \in Shadow, Alike(s, h), NEW t, IsTick(t),
         ~Closes(s, t)
  PROVE  /\ ~s.closingSeen
         /\ QuietSoFar(s, t) = IF h.stagesFired = 0 /\ t.transcript # "none" THEN 0 ELSE h.quietS
  BY DEF Alike, Closes, QuietSoFar, TurnEnds, IsTick

\* After the goodbye both count the same linger, and end once.
LEMMA ClosingTickIsFair ==
  ASSUME NEW s \in SilenceClockState, NEW h \in Shadow, Alike(s, h), NEW t, IsTick(t),
         Closes(s, t)
  PROVE  LET out == nextSilenceState(s, t)
         IN FairTick(s, h, t, out, ShadowAfter(h, t, s, out))
  <1> DEFINE out == nextSilenceState(s, t)
             after == ShadowAfter(h, t, s, out)
             waits == ~t.candidateAudible /\ ~t.interviewerAudible /\ t.dtS < Gap
                      /\ ~s.interviewEnded
             over == IF out.end THEN 1 ELSE h.endEffects
             waited == ClosingQuiet(h, t, s)
  <1>1. /\ out.state \in SilenceClockState
        /\ out.state.closingSeen = TRUE
        /\ t.interviewerAudible => ~out.state.responseInFlight
        /\ out.speak = "none" /\ out.cancel = FALSE
        /\ out.end <=> waits /\ Lingered(s, t) >= Linger
        /\ out.state.interviewEnded <=> s.interviewEnded \/ out.end
        /\ out.state.closingQuietS = IF t.candidateAudible \/ t.interviewerAudible THEN 0
                                     ELSE IF waits THEN Lingered(s, t) ELSE s.closingQuietS
    <2>1. /\ out.state \in SilenceClockState /\ out.speak = "none"
          /\ t.interviewerAudible => ~out.state.responseInFlight
      BY ClosingIsQuiet
    <2>2. out.state.closingSeen = TRUE /\ out.cancel = FALSE
      BY ClosingIsQuiet, Zenon
    <2>3. out.end <=> waits /\ Lingered(s, t) >= Linger
      BY ClosingIsQuiet, Zenon
    <2>4. out.state.interviewEnded <=> s.interviewEnded \/ out.end
      BY ClosingIsQuiet
    <2>5. out.state.closingQuietS = IF t.candidateAudible \/ t.interviewerAudible THEN 0
                                    ELSE IF waits THEN Lingered(s, t) ELSE s.closingQuietS
      BY ClosingIsQuiet
    <2> QED
      BY <2>1, <2>2, <2>3, <2>4, <2>5
  <1> HIDE DEF out
  <1>2. h.closingQuietS = s.closingQuietS /\ (h.endEffects = 1 <=> s.interviewEnded)
    BY DEF Alike
  <1>3. waited = out.state.closingQuietS
    <2>1. AtMost(h.closingQuietS + t.dtS, Linger) = Lingered(s, t)
      BY <1>2 DEF Lingered
    <2> QED
      BY <1>1, <1>2, <2>1 DEF ClosingQuiet
  <1>4. after = [h EXCEPT !.closingQuietS = waited, !.endEffects = over]
    BY <1>1 DEF ShadowAfter
  <1>5. over \in 0 .. 1 /\ waited \in 0 .. Linger
    <2>1. out.state.closingQuietS \in 0 .. Linger /\ h.endEffects \in 0 .. 1
      BY <1>1 DEF SilenceClockState, Shadow
    <2> QED
      BY <1>3, <2>1
  <1>6. over = 1 <=> out.state.interviewEnded
    BY <1>1, <1>2
  <1> HIDE DEF over, waited, after
  <1>7. /\ after \in Shadow /\ after.closingQuietS = waited /\ after.endEffects = over
    BY <1>4, <1>5 DEF Shadow
  <1>8. Alike(out.state, after)
    BY <1>1, <1>3, <1>6, <1>7 DEF Alike
  <1>9. checkPerTick(t, s, out) = {}
    BY <1>1, PerTickIsClean
  <1>10. checkTrace(h, t, s, out) = {}
    <2>1. out.end => ~(waited < Linger) /\ h.endEffects # 1
      <3>1. out.end => out.state.closingQuietS = Lingered(s, t) /\ Lingered(s, t) >= Linger
        BY <1>1
      <3>2. out.state.closingQuietS \in Nat /\ Linger \in Nat
        BY <1>3, <1>5, ClockFigures
      <3> QED
        BY <1>1, <1>2, <1>3, <3>1, <3>2
    <2> QED
      BY <1>1, <2>1 DEF checkTrace, closingBroken, waited
  <1> QED
    BY <1>1, <1>7, <1>8, <1>9, <1>10 DEF FairTick, after, out

\* A gap leaves both fresh.
LEMMA GapTickIsFair ==
  ASSUME NEW s \in SilenceClockState, NEW h \in Shadow, Alike(s, h), NEW t, IsTick(t),
         ~Closes(s, t), t.dtS >= Gap
  PROVE  LET out == nextSilenceState(s, t)
         IN FairTick(s, h, t, out, ShadowAfter(h, t, s, out))
  <1> DEFINE out == nextSilenceState(s, t)
             f == Followed(h, t)
             after == ShadowAfter(h, t, s, out)
  <1>1. /\ StaysOpen(s, out.state)
        /\ out.state.quietS = 0 /\ out.state.episodeS = 0 /\ out.state.stagesSent = 0
        /\ out.state.responseDueInS = 0 /\ out.state.responseInFlight = FALSE
        /\ out.speak = "none" /\ out.cancel = FALSE
    BY GapIsFresh
  <1>2. classify(t) = "suspend"
    BY ClockFigures DEF classify, IsTick
  <1>3. f \in Shadow /\ f = freshShadow
    BY <1>2, ShadowFollows
  <1> HIDE DEF out, f
  <1>4. /\ after = Settled(f, t, out)
        /\ checkTrace(h, t, s, out) = stageBroken(f, t, out) \cup triggerBroken(f, t, out)
    BY <1>1 DEF StaysOpen, ShadowAfter, checkTrace, f
  <1> HIDE DEF after
  <1>5. /\ checkTrace(h, t, s, out) = {} /\ ~Overdue(f, t, out) /\ ~Unanswered(f, t, out)
    BY <1>1, <1>2, <1>3, <1>4, SilentTickIsClean
  <1>6. /\ after \in Shadow
        /\ after.quietS = f.quietS /\ after.episodeS = f.episodeS
        /\ after.closingQuietS = f.closingQuietS /\ after.endEffects = f.endEffects
        /\ after.stagesFired = f.stagesFired
        /\ after.armed <=> f.armed
    BY <1>1, <1>3, <1>4, <1>5, SettledKeeps
  <1>7. ~s.closingSeen
    BY HandOverAgrees
  <1>8. Alike(out.state, after)
    BY <1>1, <1>3, <1>6, <1>7 DEF Alike, StaysOpen, freshShadow
  <1>9. checkPerTick(t, s, out) = {}
    BY <1>1, PerTickIsClean DEF StaysOpen
  <1> QED
    BY <1>1, <1>5, <1>6, <1>8, <1>9 DEF FairTick, StaysOpen, after, out

\* While somebody is heard, both wait alike.
LEMMA HeardTickIsFair ==
  ASSUME NEW s \in SilenceClockState, NEW h \in Shadow, Alike(s, h), NEW t, IsTick(t),
         ~Closes(s, t), ~(t.dtS >= Gap), t.interviewerAudible \/ t.candidateAudible
  PROVE  LET out == nextSilenceState(s, t)
         IN FairTick(s, h, t, out, ShadowAfter(h, t, s, out))
  <1> DEFINE out == nextSilenceState(s, t)
             f == Followed(h, t)
             after == ShadowAfter(h, t, s, out)
             handed == IF h.stagesFired = 0 /\ t.transcript # "none" THEN 0 ELSE h.quietS
  <1>c. t.interviewerAudible \in BOOLEAN /\ t.candidateAudible \in BOOLEAN
        /\ t.commitArrived \in BOOLEAN
    BY DEF IsTick
  <1>1. ~s.closingSeen /\ QuietSoFar(s, t) = handed
    BY HandOverAgrees
  <1>2. /\ h.quietS = s.quietS /\ h.episodeS = s.episodeS /\ h.stagesFired = s.stagesSent
        /\ h.armed <=> s.responseDueInS # 0
        /\ h.armed => s.responseDueInS + h.quietSinceCommitS = Debounce
        /\ s.closingQuietS = 0 /\ ~s.interviewEnded
        /\ h.closingQuietS = s.closingQuietS /\ (h.endEffects = 1 <=> s.interviewEnded)
    BY <1>1 DEF Alike
  <1>3. /\ StaysOpen(s, out.state) /\ out.speak = "none"
        /\ t.interviewerAudible => ~out.state.responseInFlight
    <2>1. CASE t.interviewerAudible
      <3>1. ~Cancelable(s, t)
        BY <2>1 DEF Cancelable
      <3> QED
        BY <2>1, <3>1, MorganIsHeardOut
    <2>2. CASE ~t.interviewerAudible
      BY <2>2, CandidateEndsStretch
    <2> QED
      BY <2>1, <2>2
  <1>4. classify(t) = IF t.interviewerAudible THEN "interviewer" ELSE "candidate"
    BY <1>c, ClockFigures DEF classify, IsTick
  <1>5. /\ f \in Shadow /\ f.closingQuietS = h.closingQuietS /\ f.endEffects = h.endEffects
    BY <1>4, ShadowFollows
  <1>6. /\ f.quietS = out.state.quietS /\ f.episodeS = out.state.episodeS
        /\ f.stagesFired = out.state.stagesSent
        /\ f.armed <=> out.state.responseDueInS # 0
        /\ f.armed => out.state.responseDueInS + f.quietSinceCommitS = Debounce
    <2>1. CASE t.interviewerAudible
      <3>1. /\ out.state.quietS = QuietSoFar(s, t) /\ out.state.episodeS = 0
            /\ out.state.stagesSent = s.stagesSent
            /\ out.state.responseDueInS = IF t.commitArrived THEN Debounce ELSE s.responseDueInS
        BY <2>1, MorganIsHeardOut
      <3>2. /\ f.quietS = handed /\ f.episodeS = 0 /\ f.stagesFired = h.stagesFired
            /\ f.armed <=> h.armed \/ t.commitArrived
            /\ f.quietSinceCommitS = IF t.commitArrived THEN 0 ELSE h.quietSinceCommitS
        BY <2>1, <1>4, ShadowFollows
      <3> HIDE DEF out, f, handed
      <3> QED
        BY <1>1, <1>2, <1>c, <3>1, <3>2, ClockFigures
    <2>2. CASE ~t.interviewerAudible
      <3> DEFINE speech == Episode(s, t)
      <3>1. /\ out.state.quietS = IF speech >= Blip THEN 0 ELSE QuietSoFar(s, t)
            /\ out.state.episodeS = speech
            /\ out.state.stagesSent = IF speech >= Blip THEN 0 ELSE s.stagesSent
            /\ out.state.responseDueInS = 0
        BY <2>2, CandidateEndsStretch
      <3>2. speech = AtMost(h.episodeS + t.dtS, Blip)
        BY <1>2 DEF Episode
      <3> HIDE DEF speech
      <3>3. /\ f.quietS = IF speech >= Blip THEN 0 ELSE handed
            /\ f.stagesFired = IF speech >= Blip THEN 0 ELSE h.stagesFired
            /\ f.episodeS = speech /\ ~f.armed
        BY <2>2, <1>4, <3>2, ShadowFollows
      <3> HIDE DEF out, f, handed
      <3> QED
        BY <1>1, <1>2, <3>1, <3>3
    <2> QED
      BY <2>1, <2>2
  <1> HIDE DEF out, f
  <1>7. /\ after = Settled(f, t, out)
        /\ checkTrace(h, t, s, out) = stageBroken(f, t, out) \cup triggerBroken(f, t, out)
    BY <1>3 DEF StaysOpen, ShadowAfter, checkTrace, f
  <1> HIDE DEF after
  <1>8. /\ checkTrace(h, t, s, out) = {} /\ ~Overdue(f, t, out) /\ ~Unanswered(f, t, out)
    BY <1>3, <1>4, <1>5, <1>7, SilentTickIsClean
  <1>9. /\ after \in Shadow
        /\ after.quietS = f.quietS /\ after.episodeS = f.episodeS
        /\ after.quietSinceCommitS = f.quietSinceCommitS
        /\ after.closingQuietS = f.closingQuietS /\ after.endEffects = f.endEffects
        /\ after.stagesFired = f.stagesFired
        /\ after.armed <=> f.armed
    BY <1>3, <1>5, <1>7, <1>8, SettledKeeps
  <1>10. Alike(out.state, after)
    BY <1>2, <1>3, <1>5, <1>6, <1>9 DEF Alike, StaysOpen
  <1>11. checkPerTick(t, s, out) = {}
    BY <1>3, PerTickIsClean DEF StaysOpen
  <1> QED
    BY <1>3, <1>8, <1>9, <1>10, <1>11 DEF FairTick, StaysOpen, after, out

\* In a quiet room what is due is said, and only that.
LEMMA QuietTickIsFair ==
  ASSUME NEW s \in SilenceClockState, NEW h \in Shadow, Alike(s, h), NEW t, IsTick(t),
         ~Closes(s, t), ~(t.dtS >= Gap), ~t.interviewerAudible, ~t.candidateAudible
  PROVE  LET out == nextSilenceState(s, t)
         IN FairTick(s, h, t, out, ShadowAfter(h, t, s, out))
  <1> DEFINE out == nextSilenceState(s, t)
             f == Followed(h, t)
             after == ShadowAfter(h, t, s, out)
             handed == IF h.stagesFired = 0 /\ t.transcript # "none" THEN 0 ELSE h.quietS
             quiet == AtMost(QuietSoFar(s, t) + t.dtS, Top)
             owes == Owes(s, t)
             due == s.responseDueInS
             nudges == owes /\ quiet >= Nudge
             climbs == ~owes /\ s.stagesSent < Len(Rungs) /\ quiet >= Rungs[s.stagesSent + 1]
             counts == due > 0 /\ ~t.commitArrived
             replies == ~nudges /\ ~climbs /\ counts /\ due <= t.dtS
  <1>1. ~s.closingSeen /\ QuietSoFar(s, t) = handed
    BY HandOverAgrees
  <1>2. /\ h.quietS = s.quietS /\ h.episodeS = s.episodeS /\ h.stagesFired = s.stagesSent
        /\ h.armed <=> due # 0
        /\ h.armed => due + h.quietSinceCommitS = Debounce
        /\ s.closingQuietS = 0 /\ ~s.interviewEnded
        /\ h.closingQuietS = s.closingQuietS /\ (h.endEffects = 1 <=> s.interviewEnded)
    BY <1>1 DEF Alike
  <1>3. /\ StaysOpen(s, out.state) /\ out.end = FALSE /\ out.cancel = FALSE
        /\ out.state.quietS = quiet /\ out.state.episodeS = 0
        /\ out.state.stagesSent = IF climbs THEN s.stagesSent + 1 ELSE s.stagesSent
        /\ out.state.morganOwesSpeech <=> owes /\ ~nudges
        /\ out.state.responseDueInS = IF nudges \/ climbs \/ replies THEN 0
                                      ELSE IF t.commitArrived THEN Debounce
                                      ELSE IF counts THEN due - t.dtS ELSE 0
        /\ out.speak = IF nudges THEN "nudge" ELSE IF climbs THEN "stage"
                       ELSE IF replies THEN "response" ELSE "none"
    BY QuietRoomSpeaks
  <1>4. classify(t) = "quiet"
    BY ClockFigures DEF classify, IsTick
  <1>5. /\ f \in Shadow /\ f.closingQuietS = h.closingQuietS /\ f.endEffects = h.endEffects
        /\ f.quietS = quiet /\ f.episodeS = 0 /\ f.stagesFired = s.stagesSent
        /\ f.armed <=> h.armed \/ t.commitArrived
        /\ f.quietSinceCommitS = IF h.armed /\ ~t.commitArrived
                                 THEN AtMost(h.quietSinceCommitS + t.dtS, Debounce)
                                 ELSE IF t.commitArrived THEN 0 ELSE h.quietSinceCommitS
    BY <1>1, <1>2, <1>4, ShadowFollows
  <1> HIDE DEF out, f, handed
  <1>6. /\ after = Settled(f, t, out)
        /\ checkTrace(h, t, s, out) = stageBroken(f, t, out) \cup triggerBroken(f, t, out)
    BY <1>3 DEF StaysOpen, ShadowAfter, checkTrace, f
  <1> HIDE DEF after
  <1>t. /\ Debounce \in Nat \ {0} /\ due \in 0 .. Debounce /\ t.dtS \in Nat \ {0}
        /\ h.quietSinceCommitS \in 0 .. Debounce /\ t.commitArrived \in BOOLEAN
        /\ Len(Rungs) \in Nat /\ s.stagesSent \in 0 .. Len(Rungs)
        /\ out.state.stagesSent \in 0 .. Len(Rungs)
    BY <1>3, ClockFigures DEF SilenceClockState, Shadow, IsTick, StaysOpen
  <1>w. AtMost(h.quietSinceCommitS + t.dtS, Debounce) >= Debounce
          <=> h.quietSinceCommitS + t.dtS >= Debounce
    <2>1. h.quietSinceCommitS + t.dtS \in Nat
      BY <1>t
    <2> QED
      BY <1>t, <2>1, AtMostCounts
  <1>x. h.quietSinceCommitS + t.dtS < Debounce =>
          AtMost(h.quietSinceCommitS + t.dtS, Debounce) = h.quietSinceCommitS + t.dtS
    <2>1. h.quietSinceCommitS + t.dtS \in Nat
      BY <1>t
    <2> QED
      BY <1>t, <2>1, AtMostCounts
  <1> HIDE DEF quiet, owes
  <1>7. f.armed /\ f.quietSinceCommitS >= Debounce <=> counts /\ due <= t.dtS
    BY <1>2, <1>5, <1>t, <1>w
  <1>8. ~Overdue(f, t, out)
    BY <1>3, <1>5 DEF Overdue
  <1>9. ~Unanswered(f, t, out)
    BY <1>3, <1>7 DEF Unanswered
  <1>10. stageBroken(f, t, out) = {}
    <2> SUFFICES ASSUME out.speak = "stage"
                 PROVE  /\ out.state.stagesSent = f.stagesFired + 1
                        /\ ~(f.quietS < Rungs[out.state.stagesSent])
      BY <1>4, <1>8 DEF stageBroken
    <2>1. climbs
      BY <1>3
    <2>2. quiet \in Nat /\ Rungs[s.stagesSent + 1] \in Nat
      <3>1. out.state.quietS \in Nat
        BY <1>3, ClockFigures DEF StaysOpen, SilenceClockState
      <3> QED
        BY <1>3, <1>t, <2>1, <3>1, ClockFigures
    <2> QED
      BY <1>3, <1>5, <2>1, <2>2
  <1>11. triggerBroken(f, t, out) = {}
    <2>1. out.speak = "response" => f.armed /\ ~(f.quietSinceCommitS < Debounce)
      <3>1. out.speak = "response" => replies
        BY <1>3
      <3>2. f.quietSinceCommitS \in Nat
        BY <1>5, <1>t DEF Shadow
      <3> QED
        BY <1>7, <1>t, <3>1, <3>2
    <2> QED
      BY <1>4, <1>9, <2>1 DEF triggerBroken
  <1>12. /\ after \in Shadow
         /\ after.quietS = f.quietS /\ after.episodeS = f.episodeS
         /\ after.quietSinceCommitS = f.quietSinceCommitS
         /\ after.closingQuietS = f.closingQuietS /\ after.endEffects = f.endEffects
         /\ after.stagesFired = IF out.speak = "stage" THEN AtMost(f.stagesFired + 1, Len(Rungs))
                                ELSE f.stagesFired
         /\ after.armed <=> f.armed /\ out.speak = "none"
    BY <1>5, <1>6, <1>8, <1>9, SettledKeeps
  <1>13. after.stagesFired = out.state.stagesSent
    <2>1. CASE climbs
      <3>1. out.speak = "stage" /\ out.state.stagesSent = s.stagesSent + 1
        BY <1>3, <2>1
      <3>2. AtMost(s.stagesSent + 1, Len(Rungs)) = s.stagesSent + 1
        BY <1>t, <2>1 DEF AtMost
      <3> QED
        BY <1>5, <1>12, <3>1, <3>2
    <2>2. CASE ~climbs
      BY <1>3, <1>5, <1>12, <2>2
    <2> QED
      BY <2>1, <2>2
  <1>14. /\ after.armed <=> out.state.responseDueInS # 0
         /\ after.armed => out.state.responseDueInS + after.quietSinceCommitS = Debounce
    <2>1. CASE nudges \/ climbs \/ replies
      BY <1>3, <1>12, <2>1
    <2>2. CASE ~(nudges \/ climbs \/ replies)
      <3>1. /\ after.armed <=> f.armed
            /\ out.state.responseDueInS = IF t.commitArrived THEN Debounce
                                          ELSE IF counts THEN due - t.dtS ELSE 0
        BY <1>3, <1>12, <2>2
      <3>2. ~(counts /\ due <= t.dtS)
        BY <2>2
      <3> HIDE DEF nudges, climbs, replies
      <3> QED
        BY <1>2, <1>5, <1>12, <1>t, <1>x, <3>1, <3>2
    <2> QED
      BY <2>1, <2>2
  <1>15. Alike(out.state, after)
    BY <1>2, <1>3, <1>5, <1>12, <1>13, <1>14 DEF Alike, StaysOpen
  <1>16. checkPerTick(t, s, out) = {}
    BY <1>3, PerTickIsClean DEF StaysOpen
  <1> QED
    BY <1>3, <1>6, <1>10, <1>11, <1>12, <1>15, <1>16 DEF FairTick, StaysOpen, after, out

\* Whatever the tick, the clock is fair in it.
LEMMA EveryTickIsFair ==
  ASSUME NEW s \in SilenceClockState, NEW h \in Shadow, Alike(s, h), NEW t, IsTick(t)
  PROVE  LET out == nextSilenceState(s, t)
         IN FairTick(s, h, t, out, ShadowAfter(h, t, s, out))
  <1>1. CASE Closes(s, t)
    BY <1>1, ClosingTickIsFair
  <1>2. CASE ~Closes(s, t) /\ t.dtS >= Gap
    BY <1>2, GapTickIsFair
  <1>3. CASE ~Closes(s, t) /\ ~(t.dtS >= Gap) /\ (t.interviewerAudible \/ t.candidateAudible)
    BY <1>3, HeardTickIsFair
  <1>4. CASE ~Closes(s, t) /\ ~(t.dtS >= Gap) /\ ~t.interviewerAudible /\ ~t.candidateAudible
    BY <1>4, QuietTickIsFair
  <1> QED
    BY <1>1, <1>2, <1>3, <1>4

\* Morgan is asked only for a turn he owes, and owes none that a tick did not leave him.
LEMMA OnlyTheOwedIsAsked ==
  ASSUME NEW s \in SilenceClockState, NEW t, IsTick(t)
  PROVE  LET out == nextSilenceState(s, t)
         IN /\ out.state.morganOwesSpeech => Owes(s, t)
            /\ out.speak = "nudge" => Owes(s, t)
  <1> DEFINE out == nextSilenceState(s, t)
  <1>1. CASE Closes(s, t)
    <2>1. out.state.morganOwesSpeech = Owes(s, t)
      BY <1>1, ClosingIsQuiet, Zenon
    <2>2. out.speak = "none"
      BY <1>1, ClosingIsQuiet
    <2> QED
      BY <2>1, <2>2
  <1>2. CASE ~Closes(s, t) /\ t.dtS >= Gap
    <2>1. out.state.morganOwesSpeech = Owes(s, t) /\ out.speak = "none"
      BY <1>2, GapIsFresh
    <2> QED
      BY <2>1
  <1>3. CASE ~Closes(s, t) /\ ~(t.dtS >= Gap) /\ t.interviewerAudible
    <2>1. out.state.morganOwesSpeech = Owes(s, t) /\ out.speak = "none"
      BY <1>3, MorganIsHeardOut
    <2> QED
      BY <2>1
  <1>4. CASE ~Closes(s, t) /\ ~(t.dtS >= Gap) /\ ~t.interviewerAudible /\ t.candidateAudible
    <2>1. out.state.morganOwesSpeech = Owes(s, t) /\ out.speak = "none"
      BY <1>4, CandidateEndsStretch
    <2> QED
      BY <2>1
  <1>5. CASE ~Closes(s, t) /\ ~(t.dtS >= Gap) /\ ~t.interviewerAudible /\ ~t.candidateAudible
    <2> DEFINE quiet == AtMost(QuietSoFar(s, t) + t.dtS, Top)
               nudges == Owes(s, t) /\ quiet >= Nudge
    <2>1. /\ out.state.morganOwesSpeech <=> Owes(s, t) /\ ~nudges
          /\ out.speak = "nudge" => nudges
      BY <1>5, QuietRoomSpeaks
    <2> QED
      BY <2>1
  <1> QED
    BY <1>1, <1>2, <1>3, <1>4, <1>5

\* A fresh clock owes nothing.
LEMMA ClockInit == PartsInit => ClockInv
  <1> SUFFICES ASSUME PartsInit PROVE ClockInv
    OBVIOUS
  <1>1. /\ generator \in GENERATORS /\ silence = InitialSilence /\ shadow = freshShadow
        /\ put = TRUE /\ nudged = FALSE /\ violations = {}
    BY DEF PartsInit, Init
  <1>z. /\ 0 \in 0 .. Top /\ 0 \in 0 .. Blip /\ 0 \in 0 .. Len(Rungs) /\ 0 \in 0 .. Debounce
        /\ 0 \in 0 .. Linger /\ 0 \in 0 .. 1
    BY ClockFigures
  <1>2. InitialSilence \in SilenceClockState
    BY <1>z DEF InitialSilence, SilenceClockState
  <1>3. freshShadow \in Shadow
    BY <1>z DEF freshShadow, Shadow
  <1>4. Alike(InitialSilence, freshShadow)
    BY DEF Alike, InitialSilence, freshShadow
  <1>5. OwedIsNoQuestion
    BY <1>1 DEF OwedIsNoQuestion, QuestionIsNotNudged, InitialSilence
  <1> QED
    BY <1>1, <1>2, <1>3, <1>4, <1>5 DEF ClockInv, HarnessIsClean

\* A tick keeps reducer and shadow alike, and breaks none of the invariants.
LEMMA ClockStep == ClockInv /\ [PartsNext]_partsVars => ClockInv'
  <1> SUFFICES ASSUME ClockInv, [PartsNext]_partsVars PROVE ClockInv'
    OBVIOUS
  <1>1. CASE Next
    <2>1. PICK t \in generate(generator) :
            LET out == nextSilenceState(silence, t)
            IN /\ silence' = out.state
               /\ shadow' = ShadowAfter(shadow, t, silence, out)
               /\ violations' = checkPerTick(t, silence, out)
                                  \cup checkTrace(shadow, t, silence, out)
               /\ put' = IF TurnEnds(silence, t) THEN t.put ELSE put
               /\ nudged' = (out.speak = "nudge")
               /\ UNCHANGED generator
      BY <1>1 DEF Next, Replay
    <2> DEFINE out == nextSilenceState(silence, t)
    <2>2. /\ generator \in GENERATORS /\ silence \in SilenceClockState /\ shadow \in Shadow
          /\ Alike(silence, shadow) /\ put \in BOOLEAN
          /\ silence.morganOwesSpeech => ~put
      BY DEF ClockInv, OwedIsNoQuestion
    <2>3. IsTick(t)
      BY <2>2, GeneratedTicks
    <2>4. FairTick(silence, shadow, t, out, shadow')
      BY <2>1, <2>2, <2>3, EveryTickIsFair
    <2>5. /\ out.state.morganOwesSpeech => Owes(silence, t)
          /\ out.speak = "nudge" => Owes(silence, t)
      BY <2>2, <2>3, OnlyTheOwedIsAsked
    <2> HIDE DEF out
    <2>6. /\ silence' = out.state
          /\ violations' = checkPerTick(t, silence, out) \cup checkTrace(shadow, t, silence, out)
          /\ put' = IF TurnEnds(silence, t) THEN t.put ELSE put
          /\ nudged' = (out.speak = "nudge") /\ UNCHANGED generator
      BY <2>1 DEF out
    <2>7. silence' \in SilenceClockState /\ shadow' \in Shadow /\ Alike(silence', shadow')
      BY <2>4, <2>6 DEF FairTick
    <2>8. HarnessIsClean'
      BY <2>4, <2>6 DEF FairTick, HarnessIsClean
    <2>9. put' \in BOOLEAN
      <3>1. t.put \in BOOLEAN
        BY <2>3 DEF IsTick
      <3> QED
        BY <2>2, <2>6, <3>1
    <2>10. Owes(silence, t) => ~put'
      BY <2>2, <2>3, <2>6 DEF Owes, TurnEnds, Closes, IsTick
    <2>11. OwedIsNoQuestion'
      BY <2>5, <2>6, <2>10 DEF OwedIsNoQuestion, QuestionIsNotNudged
    <2>12. nudged' \in BOOLEAN
      BY <2>6
    <2> QED
      BY <2>2, <2>6, <2>7, <2>8, <2>9, <2>11, <2>12 DEF ClockInv
  <1>2. CASE UNCHANGED vars
    BY <1>2 DEF vars, ClockInv, OwedIsNoQuestion, QuestionIsNotNudged, HarnessIsClean
  <1> QED
    BY <1>1, <1>2 DEF PartsNext, InEntry, partsVars

\* The invariant holds what a run checks.
LEMMA ClockInvIsEnough == ClockInv => ClockIsFair
  BY DEF ClockInv, OwedIsNoQuestion, ClockIsFair

-----------------------------------------------------------------------------
(* The theorems. *)

\* A room is live with one call, one microphone and one recorder, or has none; a refused
\* tab reloads to a screen that says why; and no microphone check asks off its screen.
THEOREM EntryHolds == PartsSpec => EntryIsSound
  <1>1. PartsInit => EntryInv /\ MicInv
    BY EntryInit, MicInit
  <1>2. EntryInv /\ MicInv /\ [PartsNext]_partsVars => EntryInv' /\ MicInv'
    BY EntryStep, MicStep
  <1>3. EntryInv => Entry!EntryIsSound /\ Entry!ReloadLands
    BY EntryInvIsEnough
  <1>4. MicInv /\ [PartsNext]_partsVars => [Mic!StepOnScreen]_micVars
    BY MicStaysQuiet
  <1> QED
    BY <1>1, <1>2, <1>3, <1>4, PTL DEF PartsSpec, EntryIsSound

\* Whatever was recorded and is not in the column was trimmed, overwritten by a beat that
\* overlapped, is still to be sent, or shares the last stamp of a delivered beat.
THEOREM HolesHold == PartsSpec => []HolesAreKnown
  <1>1. TrailInv => HolesAreKnown
    BY TrailInvIsEnough
  <1> QED
    BY <1>1, TrailInit, TrailStep, PTL DEF PartsSpec

\* The clock breaks no invariant of its harness and hurries nobody who was asked
\* something, and the room tells its own voice from the candidate's.
THEOREM RoomListensHolds == PartsSpec => []RoomListens
  <1>1. PartsInit => ClockInv /\ VoiceInv
    BY ClockInit, VoiceInit
  <1>2. ClockInv /\ VoiceInv /\ [PartsNext]_partsVars => ClockInv' /\ VoiceInv'
    BY ClockStep, VoiceStep
  <1>3. ClockInv /\ VoiceInv => RoomListens
    BY ClockInvIsEnough, VoiceInvIsEnough DEF RoomListens
  <1> QED
    BY <1>1, <1>2, <1>3, PTL DEF PartsSpec
=============================================================================
