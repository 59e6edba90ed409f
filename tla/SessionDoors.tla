----------------------------- MODULE SessionDoors -----------------------------
(***************************************************************************)
(* What the web app offers a signed-in owner of one standard package: the  *)
(* home screen (lib/home.ts, app/home/page.tsx), a session's own page      *)
(* (lib/transcript.ts, app/sessions/[id]/page.tsx), its room page          *)
(* (app/sessions/[id]/room/page.tsx) and the words for a refused start     *)
(* (lib/start-session.ts).  Pure: every screen is a function of the rows   *)
(* the worker answered with.                                               *)
(* "st" is the status of each session row by its index; 0 is "no session". *)
(***************************************************************************)
EXTENDS Integers, FiniteSets, FiniteSetsExt

Open == {"planned", "failed", "insufficient", "abandoned"}

\* GET /packages/{id}/sessions leaves abandoned rows out; .../progress does not.
ListedRows(st) ==
  [i \in {k \in DOMAIN st : st[k] # "abandoned"} |-> st[i]]

effectiveTotalSessions(unlocked, total) == IF unlocked THEN total ELSE 0

\* Wrong variant for OfferedIsGiven: a failed session is passed over.
NextWithoutRetry(st, total) ==
  LET owned == DOMAIN st \intersect 1..total
      resumable == {i \in owned : st[i] \in {"planned", "insufficient", "abandoned"}}
      next == Max({0} \union owned) + 1
  IN IF resumable # {} THEN Min(resumable) ELSE IF next <= total THEN next ELSE 0

nextSessionNumber(st, total) ==
  LET owned == DOMAIN st \intersect 1..total
      resumable == {i \in owned : st[i] \in Open}
      next == Max({0} \union owned) + 1
  IN IF resumable # {} THEN Min(resumable) ELSE IF next <= total THEN next ELSE 0

\* The ticket's button.
HomeAction(st, total, silent, paid) ==
  IF nextSessionNumber(st, total) = 0 THEN IF paid THEN "pricing" ELSE "unlock"
  ELSE IF silent THEN "reclaim" ELSE "start"

\* verdictLine: the dimension "this session focuses on", for the reported
\* dimensions in report order.
PromisedFocus(order, score, weight, indirect) ==
  LET direct == {i \in DOMAIN order : order[i] \notin indirect}
      wins(i, j) ==
        \/ score[order[i]] < score[order[j]]
        \/ score[order[i]] = score[order[j]] /\ weight[order[i]] > weight[order[j]]
        \/ /\ score[order[i]] = score[order[j]] /\ weight[order[i]] = weight[order[j]]
           /\ i < j
  IN order[CHOOSE i \in direct : \A j \in direct \ {i} : wins(i, j)]

-----------------------------------------------------------------------------
deriveSessionDetailState(status, reported) ==
  CASE status = "planned" -> "not_started"
    [] status = "scoring" \/ (status = "scored" /\ ~reported) -> "scoring"
    [] status = "failed" -> "failed"
    [] status \in {"insufficient", "abandoned", "quick_done"} -> "insufficient"
    [] status = "failed_permanent" -> "closed"
    [] OTHER -> "scored"

\* detailCta, for the rows of the progress feed; "resume" is a button, the
\* others lead to the room or the page of session "to".
detailCta(st, i, reported, total) ==
  LET state == deriveSessionDetailState(st[i], reported)
      next == nextSessionNumber(st, total)
      lowest == Min({k \in DOMAIN st : st[k] \in Open})
  IN CASE state = "not_started" -> [kind |-> "room", to |-> i]
       [] state \in {"failed", "insufficient"} /\ lowest = i -> [kind |-> "resume", to |-> i]
       [] state \in {"failed", "insufficient"} /\ lowest # i -> [kind |-> "detail", to |-> lowest]
       [] state = "scored" /\ next # 0 -> [kind |-> "start", to |-> next]
       [] OTHER -> [kind |-> "home", to |-> 0]

\* The room page: endedRoomNotice, then roomAccessNotice, then the start card
\* (nothing in the system sets a session's capability window, so it is open).
RoomScreen(status, access) ==
  IF status # "planned" THEN "ended"
  ELSE IF access # "open" THEN access
  ELSE "start card"

-----------------------------------------------------------------------------
\* Wrong variant for StartIsHonest: the branch for any 409 comes first.
ToldAfter409(code) ==
  CASE code = "package-expired" -> "expired"
    [] code \in {"package-exhausted", "package-locked", "package-not-ready",
                 "session-in-progress"} -> "exhausted"
    [] OTHER -> "room"

\* startFailureView, and the push into the room of a session that was granted:
\* the codes of create_session with their 410 and 409.
startFailureView(code) ==
  CASE code = "package-expired" -> "expired"
    [] code = "session-in-progress" -> "in-progress"
    [] code \in {"package-exhausted", "package-locked", "package-not-ready"} -> "exhausted"
    [] OTHER -> "room"
=============================================================================
