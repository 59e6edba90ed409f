------------------------------- MODULE MicCheck -------------------------------
(***************************************************************************)
(* The microphone check, components/MicCheck.tsx with lib/mic-permission.ts *)
(* and classifyMicFailure of lib/session-media.ts: a widget that asks for  *)
(* the microphone, shows its level, says what is wrong, and watches a      *)
(* denied permission.  The settings page shows it, and so does the         *)
(* interview room while it is ready.  A promise that a widget awaits still *)
(* resolves into that widget's refs once it is off the screen.             *)
(***************************************************************************)
CONSTANT Widgets     \* bound: the times the check is put on a screen

VARIABLES
  permission,  \* external: the site's permission
  blocked,     \* external: the operating system refuses the browser
  answers,     \* external: navigator.permissions answers queries
  shown,       \* the widget on the screen, as a set
  gone,        \* the widgets that were
  kind,        \* MicState of each widget; "querying" shows as "requesting"
  scope,       \* of its denial
  held,        \* its streamRef holds a live stream
  watching     \* its onchange is set

vars == <<permission, blocked, answers, shown, gone, kind, scope, held, watching>>
outside == <<permission, blocked, answers, shown, gone>>

Kinds == {"idle", "requesting", "querying", "live", "denied", "no-device", "error"}

Init ==
  /\ permission \in {"prompt", "granted", "denied"}
  /\ blocked \in BOOLEAN /\ answers \in BOOLEAN
  /\ shown = {} /\ gone = {}
  /\ kind = [w \in Widgets |-> "idle"] /\ scope = [w \in Widgets |-> "unknown"]
  /\ held = [w \in Widgets |-> FALSE] /\ watching = [w \in Widgets |-> FALSE]

Mount(w) ==
  /\ shown = {} /\ w \notin gone /\ shown' = {w}
  /\ UNCHANGED <<permission, blocked, answers, gone, kind, scope, held, watching>>

\* The unmount cleanups: what the refs hold by now, and the watch.
Unmount(w) ==
  /\ w \in shown /\ shown' = {} /\ gone' = gone \cup {w}
  /\ held' = [held EXCEPT ![w] = FALSE] /\ watching' = [watching EXCEPT ![w] = FALSE]
  /\ UNCHANGED <<permission, blocked, answers, kind, scope>>

Becomes(w, k) == kind' = [kind EXCEPT ![w] = k]

\* Its button, which a request disables and a level replaces.
start(w) ==
  /\ w \in shown /\ kind[w] \notin {"requesting", "querying", "live"}
  /\ Becomes(w, "requesting") /\ watching' = [watching EXCEPT ![w] = FALSE]
  /\ UNCHANGED <<outside, scope, held>>

stopCheck(w) ==
  /\ w \in shown /\ kind[w] = "live"
  /\ Becomes(w, "idle") /\ held' = [held EXCEPT ![w] = FALSE]
  /\ UNCHANGED <<outside, scope, watching>>

\* getUserMedia resolves; a denied permission never asks.
Granted(w) ==
  /\ kind[w] = "requesting" /\ ~blocked /\ permission # "denied"
  /\ permission' = "granted"
  /\ Becomes(w, "live") /\ held' = [held EXCEPT ![w] = TRUE]
  /\ UNCHANGED <<blocked, answers, shown, gone, scope, watching>>

\* classifyMicFailure: a dismissed prompt and a closed door are both "denied".
Rejected(w) ==
  /\ kind[w] = "requesting"
  /\ \E k \in {"querying", "no-device", "error"} :
       /\ k = "querying" => permission # "granted" \/ blocked
       /\ Becomes(w, k)
       /\ permission' \in {permission}
            \cup {p \in {"denied"} : k = "querying" /\ permission = "prompt"}
  /\ UNCHANGED <<blocked, answers, shown, gone, scope, held, watching>>

\* Where the block lives, read when the query answers.
classifyDeniedScope ==
  CASE ~answers -> "unknown"
    [] answers /\ permission = "denied" -> "site"
    [] answers /\ permission = "granted" -> "system"
    [] answers /\ permission = "prompt" -> "ask-again"

Denied(w) ==
  /\ kind[w] = "querying"
  /\ Becomes(w, "denied") /\ scope' = [scope EXCEPT ![w] = classifyDeniedScope]
  /\ UNCHANGED <<outside, held, watching>>

\* The effect of a denial: subscribe to the permission, if it can be queried.
Watches(w) ==
  /\ w \in shown /\ kind[w] = "denied" /\ answers /\ ~watching[w]
  /\ watching' = [watching EXCEPT ![w] = TRUE]
  /\ UNCHANGED <<outside, kind, scope, held>>

\* The visitor changes the site's permission: a watch re-runs the check.
PermissionChanges ==
  /\ \E p \in {"prompt", "granted", "denied"} \ {permission} : permission' = p
  /\ kind' = [w \in Widgets |->
                IF watching[w] /\ permission' # "denied" THEN "requesting" ELSE kind[w]]
  /\ watching' = [w \in Widgets |-> watching[w] /\ permission' = "denied"]
  /\ UNCHANGED <<blocked, answers, shown, gone, scope, held>>

Next ==
  \/ PermissionChanges
  \/ \E w \in Widgets : Mount(w) \/ Unmount(w) \/ start(w) \/ stopCheck(w)
                        \/ Granted(w) \/ Rejected(w) \/ Denied(w) \/ Watches(w)

Spec == Init /\ [][Next]_vars

-----------------------------------------------------------------------------
(* Properties. *)
TypeOK ==
  /\ permission \in {"prompt", "granted", "denied"}
  /\ shown \subseteq Widgets /\ gone \subseteq Widgets
  /\ kind \in [Widgets -> Kinds]
  /\ scope \in [Widgets -> {"unknown", "site", "system", "ask-again"}]
  /\ held \in [Widgets -> BOOLEAN] /\ watching \in [Widgets -> BOOLEAN]

\* The microphone is open while the check shows its level, and a check that has left
\* the screen never asks for it again, whatever happens to the permission it watched
\* (MicCheck.tsx:62-65).  A request that was pending when it left is not covered:
\* its stream is kept open by a check that nobody sees.
StepOnScreen ==
  /\ \A w \in shown : held[w] <=> kind[w] = "live"
  /\ \A w \in gone : kind[w] # "requesting" => kind'[w] # "requesting"
=============================================================================
