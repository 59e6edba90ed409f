------------------------ MODULE MCSessionLifecycle ------------------------
(* A small instance of SessionLifecycle for TLC, beside the forms by which a *)
(* customer asks for a session and the rest, and the page on which its       *)
(* report is awaited.  One of them moves in a behaviour: `part' says which,  *)
(* the others stay in one initial state.                                     *)
EXTENDS SessionLifecycle

CONSTANTS
  j1, j2,
  BaseMs, UnreachableMs, POLL_MAX_INTERVAL_MS, POLL_BUDGET_MS, MaxFlaps,
  Tabs, quick_package_cap, compile_retry_cap, MaxMade, MaxMishaps

MCJobs2 == {j1, j2}

VARIABLES
  part,
  base, poll, visible, pending, screen, truth, flaps, reachable, sent,
  signedIn, account, package, session, retries, redeemed, made, quickMade, rooms, stash,
  form, requested, said, mishaps

Poller == INSTANCE PollRefresh
Forms == INSTANCE WebForms WITH quick <- quickMade, stage <- requested

\* There is a tab, and there are finitely many.
ASSUME FormsConstants ==
  IsFiniteSet(Tabs) /\ Tabs # {} /\ quick_package_cap \in Nat

\* What a poller has spent, one refresh after the other.
Spent(ms) ==
  LET after[n \in 0 .. 16] ==
        IF n = 0 THEN Poller!INITIAL_POLL_STATE ELSE Poller!afterPoll(after[n - 1], ms)
  IN after

\* Sixteen refreshes spend the budget, at every interval a page is given.
ASSUME PollerConstants ==
  \A ms \in BaseMs \union {UnreachableMs} : Spent(ms)[16].tripped

pollVars == <<base, poll, visible, pending, screen, truth, flaps, reachable, sent>>
formsVars == <<signedIn, account, package, session, retries, redeemed, made, quickMade, rooms,
               stash, form, requested, said, mishaps>>
partsVars == <<part, vars, pollVars, formsVars>>

PartsInit ==
  /\ part \in {"session", "poll", "forms"}
  /\ Init /\ (part # "session" => ~quick)
  /\ Poller!Init /\ (part # "poll" => base = UnreachableMs /\ visible)
  /\ Forms!Init
  /\ part # "forms" => /\ signedIn /\ quickMade = quick_package_cap /\ package = "ready"
                       /\ session = "none" /\ form = [t \in Tabs |-> "quick"]

InSession(A) == part = "session" /\ A /\ UNCHANGED <<part, pollVars, formsVars>>
InPoll(A) == part = "poll" /\ A /\ UNCHANGED <<part, vars, formsVars>>
InForms(A) == part = "forms" /\ A /\ UNCHANGED <<part, vars, pollVars>>

PartsNext == InSession(Next) \/ InPoll(Poller!Next) \/ InForms(Forms!Next)

\* The fairness of SessionLifecycle, of PollRefresh and of WebForms.
PartsSpec ==
  /\ PartsInit /\ [][PartsNext]_partsVars
  /\ \A i \in Slots : WF_partsVars(InSession(ScoringClockAges(i)))
  /\ \A j \in Jobs : WF_partsVars(InSession(JobStep(j)))
  /\ WF_partsVars(InSession(Reap))
  /\ WF_partsVars(InPoll(Poller!Poll)) /\ WF_partsVars(InPoll(Poller!Answered))
  /\ WF_partsVars(InPoll(Poller!ComesBack)) /\ WF_partsVars(InPoll(Poller!Touched))
  /\ \A t \in Tabs : WF_partsVars(InForms(Forms!Press(t)))
  /\ \A t \in Tabs : WF_partsVars(InForms(Forms!Advances(t)))
  /\ \A t \in Tabs : WF_partsVars(InForms(Forms!Reload(t)))
  /\ WF_partsVars(InForms(Forms!SignIn))

-----------------------------------------------------------------------------
(* What the run checks beside SessionLifecycle; each is stated with its module. *)
\* A tab that waits asks no more than its budget allows (PollRefresh), and what a form
\* has told is so (WebForms).
TabsAreHonest == Poller!TabIsBounded /\ Forms!FormsTellTrue

\* A person at a tab sees what it waited for (PollRefresh), and one who goes on asking
\* gets what a form is for (WebForms).
PeopleAreServed == Poller!TabCatchesUp /\ Forms!RequestsLand
=============================================================================
