----------------------------- MODULE SeriesPages -----------------------------
(***************************************************************************)
(* The signed-in pages (WebPages) over the rows of a package as they are   *)
(* in SessionSeries: what two screens tell of the same package, at the     *)
(* same moment, and with some of their fetches failed.                     *)
(***************************************************************************)
EXTENDS SessionSeries, WebPages

\* The package row as the list endpoint answers with it, for the columns
\* SessionLifecycle abstracts: compile state, the way of unlocking, the window.
Compiles == IF ready THEN {"ready"} ELSE {"compiling", "failed"}
\* Paid and comped; a package that is both reads as a paid one everywhere.
Unlocks == IF access = "locked" THEN {<<FALSE, FALSE>>} ELSE {<<TRUE, FALSE>>, <<FALSE, TRUE>>}
Views ==
  {[kind |-> "standard", compile |-> c, rubric |-> ready, paid |-> u[1], comped |-> u[2],
    daysLeft |-> CASE access = "locked" -> NoWindow [] access = "expired" -> 0 [] OTHER -> 1,
    used |-> Cardinality(Used(status)), total |-> Total] : c \in Compiles, u \in Unlocks}

Fetches == {"list", "sessions", "package", "progress", "transcript"}
\* The fetches that can change what a page offers fail in any combination; without
\* the list every page is the same retrying notice.
Answered == {Fetches \ down : down \in SUBSET {"sessions", "progress"}}
SomeAbandoned == \E i \in Rows : status[i] = "abandoned"
Dropped == \E i \in Rows : StoppedReporting(i)

Home(pkg, up) == HomePage(pkg, ListedRows(St), Dropped, up)
Archive(pkg, up) == SessionsPage(pkg, ListedRows(St), up)
Progress(pkg, up) == ProgressPage(pkg, ListedRows(St), St, up)
RubricOf(pkg, up) == RubricPage(pkg, ListedRows(St), up)
Detail(pkg, i, up) == SessionDetailPage(pkg, St, i, report[i], up)

\* The session numbers a page names as the next one to run.
Named(page) == {d.to : d \in {e \in page.doors : e.kind \in {"start", "reclaim"}}} \ {0}

\* On a compiled package with its sessions unlocked: the card's pill says
\* Complete only where home has nothing left to start ("Complete pill + Start
\* session 6", packages.py), and a complete home has such a pill unless a row
\* that the list leaves out is still open.  The expired line is there exactly while
\* a start is refused for it.
PillIsTrue ==
  \A pkg \in Views :
    /\ expiryLine(pkg) = "expired" <=> CreateAnswer = "package-expired"
    /\ pkg.compile = "ready" /\ isUnlocked(pkg) =>
       LET complete == packagePill(pkg, Cardinality(Rows)) = "Complete"
           offers == {d.kind : d \in Home(pkg, Fetches).doors}
       IN /\ complete => offers \intersect {"start", "reclaim"} = {}
          /\ offers \intersect {"pricing", "unlock"} # {} => complete \/ SomeAbandoned

\* Whatever fetches fail, no two pages of a paid package name different next
\* sessions, except by a row the list leaves out; the rubric page alone reads
\* sessions it could not list as none.
OneNextSession ==
  ~SomeAbandoned =>
    \A pkg \in {v \in Views : v.paid} :
      Cardinality(Named(Home(pkg, Fetches)) \union Named(RubricOf(pkg, Fetches))
                  \union Named(Progress(pkg, Fetches))
                  \union Named(Progress(pkg, Fetches \ {"progress"}))) <= 1

\* The strip tells the ticket's story: the leg it points at is the session the
\* ticket starts, and the sessions it counts as done are no fewer than the card
\* of the same package counts as used.  (From here a paid package stands for every
\* unlocked one: neither the strip nor a page's refreshing looks at the way.)
StripIsTrue ==
  \A pkg \in {v \in Views : ~v.comped} :
    LET legs == journeyLegs(ListedRows(St), Offered(pkg))
    IN /\ {i \in DOMAIN legs : legs[i] = "next"} = {HomeNext} \ {0}
       /\ isUnlocked(pkg) => DoneLegs(legs) >= PackagesPage(pkg, Fetches).count

\* A page on which something is still moving refreshes itself: a row in scoring on
\* home, in the archive and on its own page, and whatever could not be fetched.
PagesRefresh ==
  \A pkg \in {v \in Views : ~v.comped} : \A up \in Answered :
    LET home == Home(pkg, up)
        archive == Archive(pkg, up)
        progress == Progress(pkg, up)
    IN /\ (\E i \in Rows : status[i] = "scoring") =>
            archive.polls /\ (home.polls \/ home.name = "compile failed")
       /\ \A i \in Rows : status[i] = "scoring" => Detail(pkg, i, up).polls
       /\ archive.doors = {} => archive.polls
       /\ progress.name \in {"unreachable", "partial progress"} => progress.polls

\* No two signed-in pages tell an owner different things about one package
\* (lib/home.ts: "so the two cannot drift screen by screen").
PagesAgree == PillIsTrue /\ OneNextSession /\ StripIsTrue /\ PagesRefresh
=============================================================================
