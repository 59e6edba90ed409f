------------------------------ MODULE RoomEntry ------------------------------
(***************************************************************************)
(* The way into the interview room: the page that decides whether to show  *)
(* it (apps/web/app/sessions/[id]/room/page.tsx), the browser gate in      *)
(* front of it (components/BrowserGate.tsx), start() of                    *)
(* components/SessionRoom.tsx from the click to the open channel, and the  *)
(* route that mints its secret (app/api/realtime-secret/route.ts) against  *)
(* the worker's counter.                                                   *)
(* An attempt is one call of start().  It awaits one answer after another, *)
(* and each action below is what runs between two of them.                 *)
(***************************************************************************)
EXTENDS Naturals, FiniteSets

CONSTANTS
  Attempts,         \* bound: the clicks on a start button
  secret_mint_cap,
  None              \* null, of a ref

VARIABLES
  tab,          \* external: what this browser can do, and whether the room is scored
  world,        \* the row, its package, its capability and the worker's counter
  permission,   \* external: the site's microphone permission
  page,         \* the screen that the server rendered
  phase, error, \* the room's state
  refs,         \* connectingRef, micStreamRef, audioCtxRef, recorderRef, pcRef
  at,           \* where each attempt stands
  stream, recorder, peer,  \* what each attempt acquired
  minted,       \* secrets OpenAI handed out: whose, and what the worker had answered
  refused       \* the tab was told that its session is not live

vars == <<tab, world, permission, page, phase, error, refs, at, stream, recorder, peer, minted, refused>>
media == <<stream, recorder, peer>>

-----------------------------------------------------------------------------
(* What may stop an entry. *)

\* A quick room needs no recorder.
missingCapabilities == {"calls"} \cup {c \in {"recorder"} : ~tab.unscored}
BrowserGate == missingCapabilities \subseteq tab.has

endedRoomNotice == world.row # "planned"

\* A quick package is never refused; a closed window is as shut as a locked package.
roomAccessNotice == ~tab.unscored /\ world.package \in {"locked", "expired"}

sessionCapability == world.capability

\* The screen, asked of the row, then of the package, then of the capability.
SessionRoomPage ==
  CASE world.row = "quick_done" -> "quick-report"
    [] world.row # "quick_done" /\ endedRoomNotice -> "ended"
    [] ~endedRoomNotice /\ roomAccessNotice -> "blocked"
    [] ~endedRoomNotice /\ ~roomAccessNotice /\ sessionCapability # "active" -> "closed"
    [] OTHER -> "room"

\* The worker's own reading, at its mint.
RoomIsClosed == world.package = "expired" \/ (~tab.unscored /\ world.package = "locked")

-----------------------------------------------------------------------------
NoRefs == [connecting |-> FALSE, mic |-> None, audio |-> FALSE, recorder |-> None, pc |-> None]

Init ==
  /\ tab \in [has : {{"calls"}, {"calls", "recorder"}, {"calls", "recorder", "container"}},
              unscored : BOOLEAN, muted : BOOLEAN]
  /\ world \in [row : {"planned"}, package : {"open"} \cup {p \in {"locked"} : ~tab.unscored},
                capability : {"active"}, secret_mints : {0}]
  /\ permission \in {"prompt", "granted", "denied"}
  /\ page = "none" /\ phase = "ready" /\ error = "none" /\ refs = NoRefs
  /\ at = [a \in Attempts |-> "unused"]
  /\ stream = [a \in Attempts |-> "none"] /\ recorder = [a \in Attempts |-> "none"]
  /\ peer = [a \in Attempts |-> "none"]
  /\ minted = {} /\ refused = FALSE

\* The server renders the page, or cannot reach the worker; the tab begins anew.
Load ==
  /\ page \in {"none", "unavailable"} \/ \E a \in Attempts : at[a] = "reloading"
  /\ page' \in {SessionRoomPage, "unavailable"}
  /\ phase' = "ready" /\ error' = "none" /\ refs' = NoRefs
  /\ at' = [a \in Attempts |-> IF at[a] = "unused" THEN "unused" ELSE "done"]
  /\ stream' = [a \in Attempts |-> "none"] /\ recorder' = [a \in Attempts |-> "none"]
  /\ peer' = [a \in Attempts |-> "none"]
  /\ UNCHANGED <<tab, world, permission, minted, refused>>

-----------------------------------------------------------------------------
(* start(). *)
Moves(a, place) == at' = [at EXCEPT ![a] = place]

\* An attempt ends where it can be tried again.
GivesUp(a, why) ==
  /\ phase' = "ready" /\ error' = why /\ Moves(a, "done")
Fails(a, why) == GivesUp(a, why) /\ refs' = [refs EXCEPT !.connecting = FALSE]

\* Wrong variant: nothing keeps a second click out.
StartAlways(a) ==
  /\ refs' = [refs EXCEPT !.connecting = TRUE]
  /\ phase' = "connecting" /\ error' = "none"
  /\ Moves(a, IF refs.mic # None /\ refs.audio THEN "resume" ELSE "gum")

\* The re-entry guard, and a clean slate.
Begin(a) ==
  IF refs.connecting THEN Moves(a, "done") /\ UNCHANGED <<phase, error, refs>>
  ELSE /\ refs' = [refs EXCEPT !.connecting = TRUE]
       /\ phase' = "connecting" /\ error' = "none"
       /\ Moves(a, IF refs.mic # None /\ refs.audio THEN "resume" ELSE "gum")

\* Start interview, or Try again; a second click may come before the screen changes.
Start(a) ==
  /\ page = "room" /\ BrowserGate /\ at[a] = "unused"
  /\ phase = "ready" \/ \E b \in Attempts : at[b] = "gum"
  /\ Begin(a)
  /\ UNCHANGED <<tab, world, permission, page, media, minted, refused>>

\* getUserMedia: the visitor answers a prompt; a denied permission never asks.
GumOk(a) ==
  /\ at[a] = "gum" /\ permission # "denied"
  /\ permission' = IF refs.mic = None THEN "granted" ELSE permission
  /\ stream' = IF refs.mic = None THEN [stream EXCEPT ![a] = "live"] ELSE stream
  /\ \/ /\ refs' = [refs EXCEPT !.mic = IF @ = None THEN a ELSE @, !.audio = TRUE]
        /\ Moves(a, "resume") /\ UNCHANGED <<phase, error>>
     \/ /\ refs' = [refs EXCEPT !.mic = IF @ = None THEN a ELSE @, !.connecting = FALSE]
        /\ GivesUp(a, "mic-other")
  /\ UNCHANGED <<tab, world, page, recorder, peer, minted, refused>>

\* classifyMicFailure: a denial is followed by a question, after the room is ready.
GumFails(a) ==
  /\ at[a] = "gum" /\ refs.mic = None
  /\ phase' = "ready" /\ refs' = [refs EXCEPT !.connecting = FALSE]
  /\ \/ Moves(a, "denied") /\ UNCHANGED error
     \/ Moves(a, "done") /\ error' \in {"mic-no-device", "mic-other"}
  /\ permission' \in {permission} \cup {p \in {"denied"} : permission = "prompt"}
  /\ UNCHANGED <<tab, world, page, media, minted, refused>>

\* queryMicPermission answers, whatever the room does by now.
DeniedScope(a) ==
  /\ at[a] = "denied" /\ error' = "mic-denied" /\ Moves(a, "done")
  /\ UNCHANGED <<tab, world, permission, page, phase, refs, media, minted, refused>>

\* pickRecorderMimeType: a recorder, and a container that it can write.
pickRecorderMimeType == tab.unscored \/ {"recorder", "container"} \subseteq tab.has

\* Wrong variant: the audio system is waited for without an end.
Settled == ~tab.muted

\* settledWithinTimeout: a resume that policy blocks never settles.
settledWithinTimeout == TRUE

\* The audio system runs or does not; then the recorder, before anything is minted.
Resume(a) ==
  /\ at[a] = "resume" /\ settledWithinTimeout
  /\ \/ Fails(a, "connect") /\ UNCHANGED recorder
     \/ ~tab.muted /\ ~pickRecorderMimeType /\ Fails(a, "recorder") /\ UNCHANGED recorder
     \/ /\ ~tab.muted /\ pickRecorderMimeType
        /\ recorder' = IF tab.unscored THEN recorder ELSE [recorder EXCEPT ![a] = "built"]
        /\ refs' = [refs EXCEPT !.recorder = IF tab.unscored THEN None ELSE a]
        /\ Moves(a, "mint") /\ UNCHANGED <<phase, error>>
  /\ UNCHANGED <<tab, world, permission, page, stream, peer, minted, refused>>

\* The catch of the connect sequence: the peer is closed, the rest is kept.
ConnectFails(a) ==
  /\ peer' = IF refs.pc = None THEN peer ELSE [peer EXCEPT ![refs.pc] = "closed"]
  /\ refs' = [refs EXCEPT !.pc = None, !.connecting = FALSE]
  /\ GivesUp(a, "connect")

-----------------------------------------------------------------------------
(* The secret's route: who asks, then the worker's counter, then OpenAI. *)
Authorize(a) ==
  /\ at[a] = "mint"
  /\ \/ sessionCapability = "active" /\ Moves(a, "count") /\ UNCHANGED <<phase, error, refs, peer>>
     \/ ConnectFails(a)  \* a lapsed capability, or the worker is away
  /\ UNCHANGED <<tab, world, permission, page, stream, recorder, minted, refused>>

\* A counter that cannot answer does not stop the mint; session-not-live does.
Count(a) ==
  /\ at[a] = "count"
  /\ \/ /\ endedRoomNotice \/ RoomIsClosed
        /\ Moves(a, "reloading") /\ refused' = TRUE
        /\ UNCHANGED <<world, phase, error, refs, peer>>
     \/ /\ ~endedRoomNotice /\ ~RoomIsClosed
        /\ world' = [world EXCEPT !.secret_mints = @ + 1]
        /\ IF world.secret_mints >= secret_mint_cap THEN ConnectFails(a)
           ELSE Moves(a, "secret-counted") /\ UNCHANGED <<phase, error, refs, peer>>
        /\ UNCHANGED refused
     \/ Moves(a, "secret-uncounted") /\ UNCHANGED <<world, phase, error, refs, peer, refused>>
  /\ UNCHANGED <<tab, permission, page, stream, recorder, minted>>

\* OpenAI answers; the call's peer is made as soon as the secret is there.
Secret(a) ==
  /\ at[a] \in {"secret-counted", "secret-uncounted"}
  /\ \/ /\ minted' = minted \cup {[of |-> a, counted |-> at[a] = "secret-counted"]}
        /\ peer' = [peer EXCEPT ![a] = "open"] /\ refs' = [refs EXCEPT !.pc = a]
        /\ Moves(a, "offer") /\ UNCHANGED <<phase, error>>
     \/ ConnectFails(a) /\ UNCHANGED minted
  /\ UNCHANGED <<tab, world, permission, page, stream, recorder, refused>>

Offer(a) ==
  /\ at[a] = "offer"
  /\ \/ Moves(a, "opening") /\ UNCHANGED <<phase, error, refs, peer>>
     \/ ConnectFails(a)
  /\ UNCHANGED <<tab, world, permission, page, stream, recorder, minted, refused>>

\* The channel opens: the recorder first, then the room is live.
Open(a) ==
  /\ at[a] = "opening" /\ peer[a] = "open"
  /\ recorder' = IF tab.unscored THEN recorder ELSE [recorder EXCEPT ![a] = "recording"]
  /\ phase' = "live" /\ Moves(a, "live")
  /\ UNCHANGED <<tab, world, permission, page, error, refs, stream, peer, minted, refused>>

\* A throw in the handler, before or after the recorder started.
Dismantle(a) ==
  /\ recorder' \in {recorder, [recorder EXCEPT ![a] = IF @ = "built" THEN "stopped" ELSE @]}
  /\ peer' = [peer EXCEPT ![refs.pc] = "closed"] /\ stream' = [stream EXCEPT ![refs.mic] = "stopped"]

OpenFails(a) ==
  /\ at[a] = "opening" /\ peer[a] = "open"
  /\ Dismantle(a)
  /\ refs' = [refs EXCEPT !.pc = None, !.mic = None, !.connecting = FALSE]
  /\ GivesUp(a, "recorder")
  /\ UNCHANGED <<tab, world, permission, page, minted, refused>>

-----------------------------------------------------------------------------
(* Meanwhile. *)

\* The visitor allows the microphone; the room's watch clears only that error.
PermissionFlips ==
  /\ permission = "denied" /\ permission' = "granted"
  /\ error' \in {error} \cup {e \in {"none"} : error = "mic-denied"}
  /\ UNCHANGED <<tab, world, page, phase, refs, at, media, minted, refused>>

\* Another tab ends the row, the window closes, the capability lapses, a payment lands.
WorldMoves ==
  /\ \/ world.row = "planned" /\ \E row \in IF tab.unscored THEN {"quick_done"} ELSE {"scoring", "failed"} :
          world' = [world EXCEPT !.row = row] /\ UNCHANGED refused
     \/ ~tab.unscored /\ world.package = "open" /\ world' = [world EXCEPT !.package = "expired"]
          /\ UNCHANGED refused
     \/ world.package = "locked" /\ world' = [world EXCEPT !.package = "open"] /\ refused' = FALSE
     \/ world.capability = "active" /\ world' = [world EXCEPT !.capability = "lapsed"]
          /\ UNCHANGED refused
  /\ UNCHANGED <<tab, permission, page, phase, error, refs, at, media, minted>>

Answered(a) ==
  \/ GumOk(a) \/ GumFails(a) \/ Resume(a) \/ Authorize(a) \/ Count(a) \/ Secret(a) \/ Offer(a)
  \/ Open(a) \/ OpenFails(a)

Next ==
  \/ Load \/ PermissionFlips \/ WorldMoves
  \/ \E a \in Attempts : Start(a) \/ Answered(a) \/ DeniedScope(a)

Spec == Init /\ [][Next]_vars

\* Every awaited answer comes, the channel's opening included: nothing times it.
FairSpec == Spec /\ WF_vars(Load) /\ \A a \in Attempts : WF_vars(Answered(a))

-----------------------------------------------------------------------------
(* Properties. *)
Recording == {a \in Attempts : recorder[a] = "recording"}
Calling == {a \in Attempts : peer[a] = "open"}

TypeOK ==
  /\ page \in {"none", "unavailable", "quick-report", "ended", "blocked", "closed", "room"}
  /\ phase \in {"ready", "connecting", "live"}
  /\ refs \in [connecting : BOOLEAN, mic : Attempts \cup {None}, audio : BOOLEAN,
               recorder : Attempts \cup {None}, pc : Attempts \cup {None}]
  /\ stream \in [Attempts -> {"none", "live", "stopped"}]
  /\ recorder \in [Attempts -> {"none", "built", "recording", "stopped"}]
  /\ peer \in [Attempts -> {"none", "open", "closed"}]

\* However often and however fast Start is clicked, and whatever fails: a live room
\* is one call, fed by the one microphone and, when scored, taken down by the one
\* recorder that the refs name; and a room that is not live or connecting holds no
\* call and records nothing.
AllOrNothing ==
  /\ phase = "live" =>
       /\ Calling = {refs.pc} /\ refs.mic # None /\ stream[refs.mic] = "live" /\ refs.audio
       /\ Recording = {a \in {refs.recorder} : ~tab.unscored}
  /\ phase = "ready" => Calling = {} /\ Recording = {}

\* No secret is bought for a tab that could not have used it, and at most
\* secret_mint_cap of them while the counter answers (SessionRoom.tsx start()).
NothingMintedInVain ==
  /\ minted # {} =>
       ~tab.muted /\ (IF tab.unscored THEN "calls" \in tab.has ELSE "container" \in tab.has)
  /\ Cardinality({m \in minted : m.counted}) <= secret_mint_cap

\* However an entry goes, it leaves the tab with a whole room or without one.
EntryIsSound == AllOrNothing /\ NothingMintedInVain

\* A tab that was told its session is not live reloads to a screen that says why,
\* never to the start card again.
ReloadLands == refused /\ (\A a \in Attempts : at[a] # "reloading") => page # "room"

\* No start hangs.
EntryEnds == (phase = "connecting") ~> (phase # "connecting" \/ page # "room")
=============================================================================
