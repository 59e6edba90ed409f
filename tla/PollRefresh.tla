----------------------------- MODULE PollRefresh -----------------------------
(***************************************************************************)
(* A tab on a page that waits (lib/poll-backoff.ts and                     *)
(* components/PollRefresh.tsx, mounted by the pages of WebPages).  The     *)
(* poller asks the server to render the page again, ever more slowly, and  *)
(* stops when its budget is spent; the tab coming back to the foreground,  *)
(* or a sign of a person in it, starts a fresh run.  The screen of an      *)
(* outage has a poller of its own, which starts afresh when it is mounted. *)
(***************************************************************************)
EXTENDS Integers

CONSTANTS
  BaseMs,       \* intervalMs of the two kinds of waiting page
  UnreachableMs, \* intervalMs of the outage screen
  POLL_MAX_INTERVAL_MS, POLL_BUDGET_MS,
  MaxFlaps      \* how often the service goes out of reach while the tab is open

VARIABLES
  base,      \* the interval of the page the tab was opened on
  poll,      \* the poller's state: attempts, elapsedMs, tripped
  visible,   \* document.visibilityState
  pending,   \* a refresh that has not been answered
  screen,    \* what the tab shows: "waiting", "unreachable" or "settled"
  truth,     \* what the worker would tell: "waiting" or "settled"
  flaps,
  reachable,
  sent       \* refreshes since the last sign of a person

vars == <<base, poll, visible, pending, screen, truth, flaps, reachable, sent>>

Least(a, b) == IF a <= b THEN a ELSE b

INITIAL_POLL_STATE == [attempts |-> 0, elapsedMs |-> 0, tripped |-> FALSE]
Interval == IF screen = "unreachable" THEN UnreachableMs ELSE base

\* base * 1.5 ^ attempts, rounded half up.  (Past eleven attempts every interval
\* from MIN_POLL_INTERVAL_MS on is at the ceiling.)
pollDelayMs(state, ms) ==
  LET n == Least(state.attempts, 11)
  IN Least(POLL_MAX_INTERVAL_MS, (2 * ms * 3 ^ n + 2 ^ n) \div (2 * 2 ^ n))

afterPoll(state, ms) ==
  LET elapsed == state.elapsedMs + pollDelayMs(state, ms)
  IN [attempts |-> state.attempts + 1, elapsedMs |-> elapsed, tripped |-> elapsed >= POLL_BUDGET_MS]

Init ==
  /\ base \in BaseMs /\ poll = INITIAL_POLL_STATE /\ visible \in BOOLEAN
  /\ pending = FALSE /\ screen = "waiting" /\ truth = "waiting"
  /\ flaps = 0 /\ reachable = TRUE /\ sent = 0

-----------------------------------------------------------------------------
\* The timer of a visible, untripped poller fires.
Poll ==
  /\ screen # "settled" /\ visible /\ ~poll.tripped
  /\ poll' = afterPoll(poll, Interval)
  /\ pending' = TRUE
  /\ sent' = sent + 1
  /\ UNCHANGED <<base, visible, screen, truth, flaps, reachable>>

\* Wrong variant for TabIsBounded: every render mounts the poller anew.
AnsweredAfresh ==
  /\ pending /\ pending' = FALSE
  /\ screen' = IF reachable THEN truth ELSE "unreachable"
  /\ poll' = INITIAL_POLL_STATE
  /\ UNCHANGED <<base, visible, truth, flaps, reachable, sent>>

\* The render comes back.  Another screen has a poller of its own, or none.
Answered ==
  /\ pending /\ pending' = FALSE
  /\ screen' = IF reachable THEN truth ELSE "unreachable"
  /\ poll' = IF screen' = screen THEN poll ELSE INITIAL_POLL_STATE
  /\ UNCHANGED <<base, visible, truth, flaps, reachable, sent>>

\* visibilitychange to visible: a fresh run.
Shown ==
  /\ ~visible /\ visible' = TRUE
  /\ poll' = INITIAL_POLL_STATE
  /\ sent' = 0
  /\ UNCHANGED <<base, pending, screen, truth, flaps, reachable>>

Hidden ==
  /\ visible /\ visible' = FALSE
  /\ UNCHANGED <<base, poll, pending, screen, truth, flaps, reachable, sent>>

\* A press, a key or a wheel: listened to only while stopped and visible.
Touched ==
  /\ screen # "settled" /\ poll.tripped /\ visible
  /\ poll' = INITIAL_POLL_STATE
  /\ sent' = 0
  /\ UNCHANGED <<base, visible, pending, screen, truth, flaps, reachable>>

-----------------------------------------------------------------------------
(* The service behind the page. *)
Settles ==
  /\ truth = "waiting" /\ truth' = "settled"
  /\ UNCHANGED <<base, poll, visible, pending, screen, flaps, reachable, sent>>

GoesAway ==
  /\ reachable /\ flaps < MaxFlaps
  /\ reachable' = FALSE /\ flaps' = flaps + 1
  /\ UNCHANGED <<base, poll, visible, pending, screen, truth, sent>>

ComesBack ==
  /\ ~reachable /\ reachable' = TRUE
  /\ UNCHANGED <<base, poll, visible, pending, screen, truth, flaps, sent>>

Next ==
  \/ Poll \/ Answered \/ Shown \/ Hidden \/ Touched
  \/ Settles \/ GoesAway \/ ComesBack

Spec == Init /\ [][Next]_vars

-----------------------------------------------------------------------------
\* "After a total polling budget the poller stops entirely rather than degrading
\* to a slow leak" (poll-backoff.ts): a tab nobody comes back to sends at most
\* sixteen refreshes for each screen it is put through, however the service
\* comes and goes; each outage can put it through two.
TabIsBounded == sent <= 16 * (1 + 2 * flaps)

\* "Stopping is always reversible for a user who is actually there"
\* (PollRefresh.tsx): in a tab that stays in the foreground with somebody at it, a
\* settled answer is shown, however long the wait and the outages were.
TabCatchesUp == <>[]visible => ((truth = "settled") ~> (screen = "settled"))
=============================================================================
