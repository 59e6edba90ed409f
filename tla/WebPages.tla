------------------------------ MODULE WebPages ------------------------------
(***************************************************************************)
(* The signed-in pages of the web app, as functions of what the worker     *)
(* answered to the render: home, the packages overview, the sessions       *)
(* archive, the progress page, the rubric page and a session's own page.   *)
(* A package is a record of the columns the pages read:                    *)
(*   kind ("standard", "quick"), compile ("compiling", "ready", "failed"), *)
(*   rubric (is one stored), paid, comped, daysLeft (of the window, when   *)
(*   one is set), used (the worker's sessions_used) and total.             *)
(* "st" is the status of each session row by its index, as the list has    *)
(* them (abandoned rows left out), "feed" as the progress feed has them;   *)
(* "up" is the set of fetches that were answered in this render: "list",   *)
(* "sessions", "package", "progress", "transcript".                        *)
(* A page is what it is called, what it counts, the doors it offers and    *)
(* whether it refreshes itself.                                            *)
(***************************************************************************)
EXTENDS SessionDoors

CONSTANT NoWindow  \* expires_at is null

\* No number of days is null.
ASSUME WindowAssumption == NoWindow \notin Int

\* The account owns no standard package.
NoPackage == [kind |-> "none"]

Door(kind, to) == [kind |-> kind, to |-> to]
Page(name, count, doors, polls) ==
  [name |-> name, count |-> count, doors |-> doors, polls |-> polls]

Attempted == {"scoring", "scored", "failed", "insufficient", "abandoned", "failed_permanent"}

isUnpaid(pkg) == ~pkg.paid
isUnlocked(pkg) == pkg.paid \/ pkg.comped

\* The quota as a caller asks for it that leaves comped_at out.
OfferedWhenPaid(pkg) ==
  IF pkg.kind = "quick" THEN 1 ELSE effectiveTotalSessions(~isUnpaid(pkg), pkg.total)

\* The sessions the package offers now.
Offered(pkg) ==
  IF pkg.kind = "quick" THEN 1 ELSE effectiveTotalSessions(isUnlocked(pkg), pkg.total)

WithinPackage(st, total) == DOMAIN st \intersect 1..total

journeyLegs(st, total) ==
  LET next == nextSessionNumber(st, total)
      done == {i \in WithinPackage(st, total) : st[i] \in Attempted}
  IN [i \in 1..total |-> IF i = next THEN "next" ELSE IF i \in done THEN "done" ELSE "todo"]

DoneLegs(legs) == Cardinality({i \in DOMAIN legs : legs[i] = "done"})

\* The session whose stage the ticket tells, or 0.
scoringStageLine(st) == Max({0} \union {i \in DOMAIN st : st[i] = "scoring"})

\* Wrong variant for PagesAgree: rows in the database are counted as used.
PillOfRows(pkg, rows) ==
  CASE pkg.compile = "compiling" -> "Compiling"
    [] pkg.compile = "failed" -> "Compile failed"
    [] pkg.compile = "ready" /\ rows >= Offered(pkg) -> "Complete"
    [] pkg.compile = "ready" /\ rows < Offered(pkg) /\ rows = 0 -> "Not started"
    [] OTHER -> "In progress"

\* Compile first; then an unpaid package, whose quota is none, is "Complete".
packagePill(pkg, rows) ==
  CASE pkg.compile = "compiling" -> "Compiling"
    [] pkg.compile = "failed" -> "Compile failed"
    [] pkg.compile = "ready" /\ pkg.used >= Offered(pkg) -> "Complete"
    [] pkg.compile = "ready" /\ pkg.used < Offered(pkg) /\ pkg.used = 0 -> "Not started"
    [] OTHER -> "In progress"

\* The window's countdown: only an unlocked package has one.
expiryLine(pkg) ==
  CASE ~isUnlocked(pkg) \/ pkg.daysLeft = NoWindow -> "none"
    [] isUnlocked(pkg) /\ pkg.daysLeft # NoWindow /\ pkg.daysLeft <= 0 -> "expired"
    [] OTHER -> "days left"

-----------------------------------------------------------------------------
(* The pages. *)
Unreachable == Page("unreachable", 0, {}, TRUE)
FirstSteps == Page("no packages", 0, {Door("new", 0)}, FALSE)

\* The session ticket: locked or complete when there is no next session.
SessionTicket(next, pkg, dropped) ==
  CASE next = 0 /\ isUnpaid(pkg) -> Door("unlock", 0)
    [] next = 0 /\ ~isUnpaid(pkg) -> Door("pricing", 0)
    [] next # 0 /\ dropped -> Door("reclaim", 0)
    [] OTHER -> Door("start", next)

\* Each row leads to its own page, which has a state for every status.
SessionList(st) == {Door("detail", i) : i \in DOMAIN st}

HomePage(pkg, st, dropped, up) ==
  LET total == Offered(pkg)
      next == nextSessionNumber(st, total)
  IN CASE "list" \notin up -> Unreachable
       [] "list" \in up /\ pkg = NoPackage -> FirstSteps
       [] "list" \in up /\ pkg # NoPackage /\ "sessions" \notin up -> Unreachable
       [] {"list", "sessions"} \subseteq up /\ pkg # NoPackage /\ pkg.compile = "failed" ->
            Page("compile failed", 0, {Door("retry", 0), Door("new", 0), Door("packages", 0)}, FALSE)
       [] OTHER ->
            Page("dashboard", DoneLegs(journeyLegs(st, total)),
                 {SessionTicket(next, pkg, dropped), Door("packages", 0)} \union SessionList(st),
                 scoringStageLine(st) # 0)

PackageCard(pkg) ==
  {Door("home", 0), Door("delete", 0)}
  \union (IF pkg.compile = "failed" THEN {Door("retry", 0)} ELSE {})

PackagesPage(pkg, up) ==
  CASE "list" \notin up -> Unreachable
    [] "list" \in up /\ pkg = NoPackage -> FirstSteps
    [] OTHER -> Page("packages", pkg.used, PackageCard(pkg) \union {Door("new", 0)}, FALSE)

\* Rows in scoring flip on their own; a failed fetch is retried the same way.
ArchivePolls(st, up) == "sessions" \notin up \/ scoringStageLine(st) # 0

\* The archive, whose count is the worker's, of the package's own total.
SessionsPage(pkg, st, up) ==
  CASE "list" \notin up -> Unreachable
    [] "list" \in up /\ pkg = NoPackage -> FirstSteps
    [] OTHER ->
         Page("archive", pkg.used,
              CASE "sessions" \notin up -> {}
                [] "sessions" \in up /\ DOMAIN st = {} -> {Door("home", 0)}
                [] OTHER -> SessionList(st),
              ArchivePolls(st, up))

\* The start button of /progress goes by the package's own total, locked or not.
StartCta(pkg, st) ==
  LET next == nextSessionNumber(st, pkg.total)
  IN IF next = 0 THEN {} ELSE {Door("start", next)}

ScoredCount(st) == Cardinality({i \in DOMAIN st : st[i] = "scored"})

ProgressPage(pkg, st, feed, up) ==
  CASE "list" \notin up -> Unreachable
    [] "list" \in up /\ pkg = NoPackage -> FirstSteps
    [] {"list", "progress"} \subseteq up /\ pkg # NoPackage ->
         Page("progress", ScoredCount(feed), StartCta(pkg, feed), FALSE)
    [] "list" \in up /\ "progress" \notin up /\ pkg # NoPackage /\ "sessions" \in up ->
         Page("partial progress", ScoredCount(st), StartCta(pkg, st), TRUE)
    [] OTHER -> Unreachable

\* The bar made visible.  Sessions that cannot be listed are read as none, and
\* the quota is asked for without comped_at.
RubricPage(pkg, st, up) ==
  LET rows == IF "sessions" \in up THEN st ELSE [i \in {} |-> "none"]
      next == nextSessionNumber(rows, OfferedWhenPaid(pkg))
  IN CASE "list" \notin up -> Page("rubric unavailable", 0, {}, FALSE)
       [] "list" \in up /\ pkg = NoPackage -> FirstSteps
       [] "list" \in up /\ pkg # NoPackage /\ pkg.compile = "compiling" ->
            Page("compiling", 0, {}, TRUE)
       [] /\ "list" \in up /\ pkg # NoPackage
          /\ \/ pkg.compile = "failed"
             \/ pkg.compile = "ready" /\ ("package" \notin up \/ ~pkg.rubric) ->
            Page("no rubric", 0, {Door("new", 0)}, FALSE)
       [] OTHER -> Page("rubric", 0, {SessionTicket(next, pkg, FALSE)}, FALSE)

\* The page's own door: a start leads into the room of a row that exists, else home.
detailCtaHref(cta, feed) ==
  CASE cta.kind = "start" /\ cta.to \in DOMAIN feed -> Door("room", cta.to)
    [] cta.kind = "start" /\ cta.to \notin DOMAIN feed -> Door("home", cta.to)
    [] OTHER -> Door(cta.kind, cta.to)

\* detailCta without the progress feed: no number is promised.
CtaWithoutFeed(status, i, reported) ==
  IF deriveSessionDetailState(status, reported) = "not_started" THEN Door("room", i)
  ELSE Door("home", 0)

DetailRefreshes(status, reported) == deriveSessionDetailState(status, reported) = "scoring"

\* Mid-scoring the transcript appears the moment its stage has saved it.
TranscriptShown(status, reported, saved) ==
  LET state == deriveSessionDetailState(status, reported)
  IN state \in {"insufficient", "failed", "closed"} \/ (state = "scoring" /\ saved)

\* A session's own page.  A planned row is not fetched for; with a report the
\* page has its tabs; the transcript's section stands alone without one.
SessionDetailPage(pkg, feed, i, reported, up) ==
  LET status == feed[i]
      state == deriveSessionDetailState(status, reported)
      fed == state # "not_started" /\ "progress" \in up
      cta == IF fed THEN detailCtaHref(detailCta(feed, i, reported, pkg.total), feed)
             ELSE CtaWithoutFeed(status, i, reported)
      tabs == IF state = "scored" THEN {Door("report", i), Door("transcript", i), Door("study", i)}
              ELSE IF TranscriptShown(status, reported, "transcript" \in up)
                   THEN {Door("transcript", i)} ELSE {}
  IN IF "package" \notin up THEN Unreachable
     ELSE Page(state, i, {cta} \union tabs, DetailRefreshes(status, reported))

=============================================================================
