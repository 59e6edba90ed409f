------------------------------- MODULE WebForms -------------------------------
(***************************************************************************)
(* The buttons and forms by which a signed-in customer asks for something: *)
(* app/new/page.tsx, app/quick, components/redeem-code.tsx, Start session, *)
(* Reclaim, Retry compile and Delete package, app/settings/                *)
(* delete-account.tsx, each with its route or server action and the call   *)
(* of lib/worker.ts behind it.  Every tab holds one of them.  A request is *)
(* refused on its way, carried out or not, and its answer may be lost; the *)
(* form locks itself meanwhile, says what it was told and is pressed again.*)
(***************************************************************************)
EXTENDS Naturals, FiniteSets

CONSTANTS
  Tabs,
  quick_package_cap, compile_retry_cap,
  MaxMade,    \* bound: registrations of a job description
  MaxMishaps  \* bound: calls without an answer, refusals for load, sign-outs

VARIABLES
  signedIn,
  account,   \* the sign-in record is there
  package,   \* the package the forms are about
  session,   \* its session: "dropped" is one that stopped reporting
  redeemed,  \* the account has beta access
  retries,   \* of the failed compile that were asked for
  made,      \* rows of the packages registered by the form of /new
  quick,     \* quick packages of the account
  rooms,     \* quick interviews given
  stash,     \* the cookie of /quick holds what was typed
  form,      \* what each tab holds
  stage,     \* how far its request is
  said,      \* what it shows
  mishaps

rows == <<package, session, retries, redeemed, made, quick, rooms>>
vars == <<signedIn, account, rows, stash, form, stage, said, mishaps>>

AboutPackage == {"start", "reclaim", "retry", "delete"}
Actions == {"retry", "delete"}  \* server actions: called with no catch around them
Forms == AboutPackage \cup {"new", "quick", "redeem", "account"}

Init ==
  /\ signedIn \in BOOLEAN /\ account = TRUE
  /\ package \in {"ready", "failed"} /\ session \in {"none", "dropped"}
  /\ package = "failed" => session = "none"
  /\ retries = 0 /\ redeemed = FALSE /\ made = 0 /\ quick \in {0, quick_package_cap} /\ rooms = 0
  /\ stash = FALSE
  /\ form \in [Tabs -> Forms]
  /\ \A t \in Tabs :
       /\ form[t] = "retry" => package = "failed"
       /\ form[t] = "start" => package = "ready" /\ session = "none"
       /\ form[t] = "reclaim" => session = "dropped"
       /\ form[t] # "quick" => signedIn
  /\ stage = [t \in Tabs |-> "idle"] /\ said = [t \in Tabs |-> "nothing"]
  /\ mishaps = 0

Goes(t, place) == stage' = [stage EXCEPT ![t] = place]
\* The form unlocks and shows why.
Says(t, why) == Goes(t, "idle") /\ said' = [said EXCEPT ![t] = why]
Succeeds(t, place) == Goes(t, place) /\ said' = [said EXCEPT ![t] = "done"]
Mishap == mishaps < MaxMishaps /\ mishaps' = mishaps + 1

-----------------------------------------------------------------------------
(* The browser. *)

\* A form locks itself while its request is under way.
Locks(t) ==
  /\ stage[t] = "idle"
  /\ Goes(t, "route") /\ said' = [said EXCEPT ![t] = "nothing"]
  /\ UNCHANGED <<signedIn, account, rows, stash, form, mishaps>>

Told(t, what) == said[t] \in what

\* Each is filled in, and confirmed, as its own checks want it.
onSubmit(t) == form[t] = "new" /\ Locks(t)
submit(t) == form[t] = "redeem" /\ ~Told(t, {"done", "already"}) /\ Locks(t)
start(t) == form[t] = "start" /\ ~Told(t, {"denied"}) /\ Locks(t)
reclaim(t) == form[t] = "reclaim" /\ ~Told(t, {"denied"}) /\ Locks(t)
retry(t) == form[t] = "retry" /\ ~Told(t, {"denied"}) /\ Locks(t)
remove(t) == form[t] = "delete" /\ ~Told(t, {"denied"}) /\ Locks(t)
destroy(t) == form[t] = "account" /\ Locks(t)
sendQuick(t) == form[t] = "quick" /\ ~Told(t, {"quick-cap"}) /\ Locks(t)

Press(t) ==
  \/ onSubmit(t) \/ submit(t) \/ start(t) \/ reclaim(t) \/ retry(t) \/ remove(t) \/ destroy(t)
  \/ sendQuick(t)

\* A failure is caught on its way back and told, but that of the call of a server action
\* itself, which leaves the button locked.
Loses(t) ==
  \/ Says(t, "failed")
  \/ form[t] \in Actions /\ Goes(t, "stuck") /\ UNCHANGED said

\* The page is loaded again, which the person does where nothing else helps.
Reload(t) ==
  /\ \/ stage[t] = "stuck"
     \/ form[t] = "reclaim" /\ stage[t] = "idle" /\ said[t] = "refused"
  /\ \/ /\ form[t] = "retry" => package = "failed"
        /\ form[t] = "reclaim" => session = "dropped"
        /\ package # "gone"
        /\ Says(t, "nothing")
     \/ /\ \/ form[t] = "retry" /\ package # "failed"
           \/ form[t] = "reclaim" /\ session # "dropped"
           \/ package = "gone"
        /\ Goes(t, "away") /\ UNCHANGED said
  /\ UNCHANGED <<signedIn, account, rows, stash, form, mishaps>>

\* The render that a success asked for lands.  A compile that has failed again by then
\* is shown by the same locked button.
Refreshed(t) ==
  /\ stage[t] = "refreshing"
  /\ Goes(t, IF form[t] = "retry" /\ package = "failed" THEN "stuck" ELSE "away")
  /\ UNCHANGED <<signedIn, account, rows, stash, form, said, mishaps>>

SignOut ==
  /\ signedIn /\ Mishap /\ signedIn' = FALSE
  /\ UNCHANGED <<account, rows, stash, form, stage, said>>

\* After /login the tab is back where it was; /quick has its fields from the cookie.
SignIn ==
  /\ ~signedIn /\ account /\ signedIn' = TRUE
  /\ stage' = [t \in Tabs |-> IF stage[t] = "login" THEN "idle" ELSE stage[t]]
  /\ UNCHANGED <<account, rows, stash, form, said, mishaps>>

-----------------------------------------------------------------------------
(* The route or the server action: who asks, and of what. *)

\* Nobody is let past who is signed out, or whose own list does not name the package.
Asks(t, place) ==
  \/ ~signedIn /\ Says(t, "signed-out") /\ UNCHANGED mishaps
  \/ signedIn /\ Goes(t, place) /\ UNCHANGED <<said, mishaps>>
  \/ Mishap /\ Loses(t)

AsksOwned(t, place) ==
  \/ (~signedIn \/ package # "gone") /\ Asks(t, place)
  \/ signedIn /\ package = "gone" /\ Says(t, "denied") /\ UNCHANGED mishaps

postPackages(t) == form[t] = "new" /\ Asks(t, "call")
postRedeem(t) == form[t] = "redeem" /\ Asks(t, "call")
postAccountDelete(t) == form[t] = "account" /\ Asks(t, "call")
postReclaim(t) == form[t] = "reclaim" /\ stage[t] = "route" /\ AsksOwned(t, "call")
retryCompileAction(t) == form[t] = "retry" /\ AsksOwned(t, "call")
deletePackageAction(t) == form[t] = "delete" /\ AsksOwned(t, "call")
postSessions(t) ==
  \/ form[t] = "start" /\ AsksOwned(t, "call")
  \/ form[t] = "reclaim" /\ stage[t] = "again" /\ AsksOwned(t, "restart")

\* A visitor's words wait in a cookie for the sign-in.
quickStart(t) ==
  /\ form[t] = "quick"
  /\ \/ ~signedIn /\ Goes(t, "login") /\ stash' = TRUE /\ UNCHANGED <<said, mishaps>>
     \/ signedIn /\ Asks(t, "call") /\ UNCHANGED stash

Route(t) ==
  /\ stage[t] \in {"route", "again"}
  /\ \/ quickStart(t)
     \/ /\ \/ postPackages(t) \/ postRedeem(t) \/ postAccountDelete(t) \/ postReclaim(t)
           \/ retryCompileAction(t) \/ deletePackageAction(t) \/ postSessions(t)
        /\ UNCHANGED stash
  /\ UNCHANGED <<signedIn, account, rows, form>>

-----------------------------------------------------------------------------
(* The worker, and the way back of its answer. *)

\* The answer arrives, or the customer is told that it failed.
Answered(t, Heard) ==
  \/ Heard /\ UNCHANGED mishaps
  \/ Mishap /\ Loses(t)

createPackage(t) ==
  /\ form[t] = "new" /\ stage[t] = "call" /\ made < MaxMade
  /\ \/ account /\ made' = made + 1 /\ Answered(t, Succeeds(t, "away"))
     \/ ~account /\ Says(t, "failed") /\ UNCHANGED <<made, mishaps>>
  /\ UNCHANGED <<signedIn, account, package, session, retries, redeemed, quick, rooms, stash>>

\* The cap is counted over the account's list, and the row inserted after.
countQuick(t) ==
  /\ form[t] = "quick" /\ stage[t] = "call"
  /\ \/ quick < quick_package_cap /\ Goes(t, "insert") /\ UNCHANGED <<said, mishaps>>
     \/ quick >= quick_package_cap /\ Answered(t, Says(t, "quick-cap"))
  /\ UNCHANGED <<signedIn, account, rows, stash>>

createQuickPackage(t) ==
  /\ stage[t] = "insert"
  /\ \/ account /\ quick' = quick + 1 /\ Answered(t, Goes(t, "restart") /\ UNCHANGED said)
     \/ ~account /\ Says(t, "failed") /\ UNCHANGED <<quick, mishaps>>
  /\ UNCHANGED <<signedIn, account, package, session, retries, redeemed, made, rooms, stash>>

\* The second half of a quick start: its room, and the cookie goes.
createQuickSession(t) ==
  /\ form[t] = "quick" /\ stage[t] = "restart"
  /\ \/ quick = 0 /\ Says(t, "failed") /\ UNCHANGED <<rooms, stash, mishaps>>
     \/ quick > 0 /\ rooms' = rooms + 1
        /\ \/ Succeeds(t, "room") /\ stash' = FALSE /\ UNCHANGED mishaps
           \/ Mishap /\ Loses(t) /\ UNCHANGED stash
  /\ UNCHANGED <<signedIn, account, package, session, retries, redeemed, made, quick>>

\* The code typed is a good one; one redemption for an account.
redeemCbtCode(t) ==
  /\ form[t] = "redeem" /\ stage[t] = "call"
  /\ redeemed' = TRUE
  /\ Answered(t, IF redeemed THEN Says(t, "already") ELSE Succeeds(t, "idle"))
  /\ UNCHANGED <<signedIn, account, package, session, retries, made, quick, rooms, stash>>

retryCompile(t) ==
  /\ form[t] = "retry" /\ stage[t] = "call"
  /\ \/ /\ package = "failed" /\ retries < compile_retry_cap
        /\ package' = "compiling" /\ retries' = retries + 1
        /\ Answered(t, Succeeds(t, "refreshing"))
     \/ /\ package # "failed" \/ retries = compile_retry_cap
        /\ Answered(t, Says(t, "refused")) /\ UNCHANGED <<package, retries>>
  /\ UNCHANGED <<signedIn, account, session, redeemed, made, quick, rooms, stash>>

\* All of it goes; a recording that will not go keeps all of it; a call that breaks
\* between the rows has taken the session.
deletePackage(t) ==
  /\ form[t] = "delete" /\ stage[t] = "call"
  /\ \/ /\ package # "gone" /\ package' = "gone" /\ session' = "none"
        /\ Answered(t, Succeeds(t, "refreshing"))
     \/ Mishap /\ package # "gone" /\ Says(t, "kept") /\ UNCHANGED <<package, session>>
     \/ Mishap /\ package # "gone" /\ Says(t, "failed") /\ session' = "none" /\ UNCHANGED package
     \/ package = "gone" /\ Answered(t, Says(t, "refused")) /\ UNCHANGED <<package, session>>
  /\ UNCHANGED <<signedIn, account, retries, redeemed, made, quick, rooms, stash>>

\* A session that reports is in progress; any other row is handed back, armed again.
createSession(t) ==
  /\ \/ form[t] = "start" /\ stage[t] = "call"
     \/ form[t] = "reclaim" /\ stage[t] = "restart"
  /\ \/ /\ package = "ready" /\ session # "dropped" /\ session' = "planned"
        /\ Answered(t, Succeeds(t, "room"))
     \/ /\ package # "ready" \/ session = "dropped"
        /\ Answered(t, Says(t, "refused")) /\ UNCHANGED session
  /\ UNCHANGED <<signedIn, account, package, retries, redeemed, made, quick, rooms, stash>>

\* Wrong variant: an answer that was lost makes the next press a refusal.
OnlyStopped == session = "dropped"

\* A row that is released already counts as released now; a start is asked for next.
Reclaimable == session \in {"dropped", "abandoned"}

reclaimSession(t) ==
  /\ form[t] = "reclaim" /\ stage[t] = "call"
  /\ \/ /\ Reclaimable /\ session' = "abandoned"
        /\ Answered(t, Goes(t, "again") /\ UNCHANGED said)
     \/ /\ ~Reclaimable
        /\ Answered(t, Says(t, "refused")) /\ UNCHANGED session
  /\ UNCHANGED <<signedIn, account, package, retries, redeemed, made, quick, rooms, stash>>

\* The rows, or nothing, or as far as the call came.
deleteAccount(t) ==
  /\ form[t] = "account" /\ stage[t] = "call"
  /\ \/ /\ package' = "gone" /\ session' = "none" /\ made' = 0 /\ quick' = 0
        /\ redeemed' = FALSE
        /\ Answered(t, Goes(t, "signin") /\ UNCHANGED said)
     \/ Mishap /\ Says(t, "kept") /\ UNCHANGED <<package, session, redeemed, made, quick>>
     \/ Mishap /\ Says(t, "failed") /\ session' = "none"
        /\ UNCHANGED <<package, redeemed, made, quick>>
  /\ UNCHANGED <<signedIn, account, retries, rooms, stash>>

\* Then the sign-in record, which a row registered meanwhile holds on to, or the notice
\* that support has to remove it.
removeSignInRecord(t) ==
  /\ stage[t] = "signin" /\ signedIn' = FALSE
  /\ \/ made = 0 /\ quick = 0 /\ account' = FALSE /\ Answered(t, Succeeds(t, "away"))
     \/ /\ UNCHANGED account /\ (Mishap \/ (made + quick > 0 /\ UNCHANGED mishaps))
        /\ Goes(t, "away") /\ said' = [said EXCEPT ![t] = "partly"]
  /\ UNCHANGED <<rows, stash>>

Call(t) ==
  /\ \/ createPackage(t) \/ countQuick(t) \/ createQuickPackage(t) \/ createQuickSession(t)
     \/ redeemCbtCode(t) \/ retryCompile(t) \/ deletePackage(t) \/ createSession(t)
     \/ reclaimSession(t) \/ deleteAccount(t) \/ removeSignInRecord(t)
  /\ UNCHANGED form

\* A call that does not reach the worker.
Unanswered(t) ==
  /\ stage[t] \in {"call", "insert", "restart", "signin"} /\ Mishap /\ Loses(t)
  /\ UNCHANGED <<signedIn, account, rows, stash, form>>

Compiles ==
  /\ package = "compiling" /\ package' \in {"ready", "failed"}
  /\ UNCHANGED <<signedIn, account, session, retries, redeemed, made, quick, rooms, stash, form,
                 stage, said, mishaps>>

Next ==
  \/ \E t \in Tabs :
       Press(t) \/ Route(t) \/ Call(t) \/ Unanswered(t) \/ Refreshed(t) \/ Reload(t)
  \/ SignOut \/ SignIn \/ Compiles

\* A request goes on, and a person who wants something presses again and reloads.
Advances(t) == Route(t) \/ Call(t) \/ Refreshed(t)
FairSpec ==
  /\ Init /\ [][Next]_vars
  /\ \A t \in Tabs : WF_vars(Press(t)) /\ WF_vars(Advances(t)) /\ WF_vars(Reload(t))
  /\ WF_vars(SignIn)

-----------------------------------------------------------------------------
(* What the forms promise. *)
AccountStays == \A t \in Tabs : form[t] # "account"
Alone(t) == \A u \in Tabs \ {t} : form[u] # form[t]

\* What a form has told is so, whoever else presses something meanwhile, and although
\* its answers are lost: a package that was said to be deleted, or denied, is gone; a
\* code that was taken or refused as used gives access; a room that was entered has its
\* row, armed (a start or a reclaim) or its interview (a quick start), and the typed
\* words are then forgotten; the cap on quick interviews is told at the cap, and what
\* simultaneous starts may overshoot it by is one each; an account that was said to be
\* gone is gone, and one said to be partly gone still signs in.
FormsTellTrue ==
  /\ \A t \in Tabs :
       /\ said[t] = "denied" => package = "gone"
       /\ form[t] = "delete" /\ said[t] \in {"done", "refused"} => package = "gone"
       /\ form[t] = "redeem" /\ said[t] \in {"done", "already"} /\ AccountStays => redeemed
       /\ form[t] \in {"start", "reclaim"} /\ stage[t] = "room" =>
            session = "planned" \/ ~AccountStays \/ \E u \in Tabs : form[u] = "delete"
       /\ form[t] = "quick" /\ stage[t] = "room" /\ Alone(t) => ~stash /\ rooms > 0
       /\ said[t] = "quick-cap" /\ AccountStays => quick >= quick_package_cap
       /\ form[t] = "account" /\ said[t] = "done" => ~account
       /\ said[t] = "partly" /\ Alone(t) => account
  /\ quick + Cardinality({t \in Tabs : stage[t] = "insert"})
       <= quick_package_cap + Cardinality(Tabs) - 1
  /\ ~account => package = "gone" /\ made = 0 /\ quick = 0

\* What the form of a tab is for has come about.
Got(t) ==
  \/ form[t] \in {"delete", "account"} /\ package = "gone"
  \/ form[t] = "new" /\ made > 0
  \/ form[t] = "redeem" /\ redeemed
  \/ form[t] = "start" /\ (session = "planned" \/ package = "gone")
  \/ form[t] = "reclaim" /\ (session \in {"none", "planned"} \/ package = "gone")
  \/ form[t] = "quick" /\ (rooms > 0 \/ quick >= quick_package_cap)
  \/ form[t] = "retry" /\ (package # "failed" \/ retries = compile_retry_cap)

\* A person who goes on asking gets what the form is for, although a call or its answer
\* was lost, the tab was signed out, or a retried compile failed again: the package or
\* the account's rows go, the code is redeemed, the dropped session is handed out anew,
\* a package is registered, a quick interview is given or its cap reached, a failed
\* compile runs again or its retries are used up.  No lost answer, locked button or
\* refusal is the last word.  (Beside a deletion of the account there is nothing more to
\* get for the forms that need one.)
RequestsLand ==
  \A t \in Tabs :
    /\ stage[t] # "away" /\ (AccountStays \/ form[t] \notin {"new", "redeem", "quick"})
    ~> Got(t)
=============================================================================
