----------------------------- MODULE PackageLink -----------------------------
(***************************************************************************)
(* The link of one package (app/p/[token]/page.tsx): it claims the package *)
(* for the first account that opens it and hands its owner over to home.   *)
(* Tabs are browsers of different people.  A request is answered, fails,   *)
(* or is carried out and its answer lost.                                  *)
(***************************************************************************)
EXTENDS Naturals

CONSTANTS Tabs, Accounts, NoOne

VARIABLES
  exists,  \* the package has not been deleted
  owner,   \* packages.user_id
  who,     \* the account of each tab's cookies, or NoOne
  next,    \* where each tab's sign-in leads back to
  at,      \* what each tab shows, or the request its navigation waits for
  failed,  \* some request of the visit has failed
  cookie   \* fc_pkg names the package

vars == <<exists, owner, who, next, at, failed, cookie>>

Shown == {"away", "login", "not found", "unavailable", "forbidden", "home"}

claimAction(viewer, holder) ==
  CASE viewer = NoOne -> "login"
    [] viewer # NoOne /\ holder = NoOne -> "claim"
    [] viewer # NoOne /\ holder = viewer -> "enter"
    [] OTHER -> "forbidden"

\* authorizePackage: a 404 is a denial, anything else that fails an outage.
Authorizations == {IF exists THEN "ok" ELSE "unknown", "outage"}

Init ==
  /\ exists = TRUE
  /\ owner \in Accounts \union {NoOne}
  /\ who \in [Tabs -> Accounts \union {NoOne}]
  /\ next = [t \in Tabs |-> "home"]
  /\ at = [t \in Tabs |-> "away"]
  /\ failed = [t \in Tabs |-> FALSE]
  /\ cookie = [t \in Tabs |-> FALSE]

GoesTo(t, place) == at' = [at EXCEPT ![t] = place]

\* The proxy sends a signed-out visitor to sign in, and back here.
OpenLink(t) ==
  /\ at[t] \in Shown
  /\ GoesTo(t, IF who[t] = NoOne THEN "login" ELSE "authorize")
  /\ next' = [next EXCEPT ![t] = IF who[t] = NoOne THEN "link" ELSE next[t]]
  /\ failed' = [failed EXCEPT ![t] = FALSE]
  /\ UNCHANGED <<exists, owner, who, cookie>>

\* Google, then auth/callback: the code is exchanged, and next is followed.
SignIn(t, account) ==
  /\ at[t] = "login" /\ who[t] = NoOne
  /\ who' = [who EXCEPT ![t] = account]
  /\ GoesTo(t, IF next[t] = "link" THEN "authorize" ELSE "home")
  /\ UNCHANGED <<exists, owner, next, failed, cookie>>

\* A code that is refused leads to /login?error=auth, which has lost the way back.
SignInFails(t) ==
  /\ at[t] = "login" /\ who[t] = NoOne
  /\ next' = [next EXCEPT ![t] = "home"]
  /\ UNCHANGED <<exists, owner, who, at, failed, cookie>>

\* The account menu leads home; "Switch account" of the 403 page back to the link.
SignOut(t) ==
  /\ at[t] \in Shown \ {"login"} /\ who[t] # NoOne
  /\ who' = [who EXCEPT ![t] = NoOne]
  /\ IF at[t] = "forbidden"
     THEN GoesTo(t, "login") /\ next' = [next EXCEPT ![t] = "link"]
     ELSE GoesTo(t, "away") /\ next' = next
  /\ UNCHANGED <<exists, owner, failed, cookie>>

\* The page's first read of the package, and what it decides.
Authorize(t) ==
  /\ at[t] = "authorize"
  /\ \E answer \in Authorizations :
       /\ GoesTo(t, CASE answer = "outage" -> "unavailable"
                      [] answer = "unknown" -> "not found"
                      [] OTHER -> CASE claimAction(who[t], owner) = "claim" -> "bind"
                                    [] claimAction(who[t], owner) = "enter" -> "switch"
                                    [] OTHER -> claimAction(who[t], owner))
       /\ failed' = [failed EXCEPT ![t] = @ \/ answer = "outage"]
  /\ UNCHANGED <<exists, owner, who, next, cookie>>

\* Wrong variant for LinkIsFair: the bind route gives the package to whoever asks.
TakenOver(t) == IF exists THEN who[t] ELSE owner

\* The update: only where user_id is null.
Bound(t) == IF exists /\ owner = NoOne THEN who[t] ELSE owner

\* bindToViewer: told "bound", told it is not, or told nothing.
Bind(t) ==
  /\ at[t] = "bind"
  /\ \/ /\ owner' = Bound(t)
        /\ \E told \in BOOLEAN :
             /\ told => owner' # owner
             /\ GoesTo(t, IF told THEN "switch" ELSE "recheck")
             /\ failed' = [failed EXCEPT ![t] = @ \/ (~told /\ owner' # owner)]
     \/ GoesTo(t, "recheck") /\ failed' = [failed EXCEPT ![t] = TRUE] /\ owner' = owner
  /\ UNCHANGED <<exists, who, next, cookie>>

\* "Re-read the truth instead of guessing".
Recheck(t) ==
  /\ at[t] = "recheck"
  /\ \E answer \in Authorizations :
       LET holder == IF answer = "ok" THEN owner ELSE NoOne
       IN /\ GoesTo(t, CASE holder = NoOne -> "unavailable"
                         [] holder = who[t] -> "switch"
                         [] OTHER -> "forbidden")
          /\ failed' = [failed EXCEPT ![t] = @ \/ answer = "outage"]
  /\ UNCHANGED <<exists, owner, who, next, cookie>>

\* GET /switch: the cookie is set where the list could be read and has the package.
Switch(t) ==
  /\ at[t] = "switch"
  /\ GoesTo(t, "home")
  /\ \E read \in BOOLEAN :
       cookie' = [cookie EXCEPT ![t] = (read /\ exists /\ owner = who[t]) \/ @]
  /\ UNCHANGED <<exists, owner, who, next, failed>>

\* The package is deleted by its owner from another page.
Delete ==
  /\ exists /\ owner # NoOne
  /\ exists' = FALSE
  /\ UNCHANGED <<owner, who, next, at, failed, cookie>>

TabStep(t) ==
  \/ OpenLink(t) \/ SignInFails(t) \/ SignOut(t)
  \/ \E account \in Accounts : SignIn(t, account)
  \/ Authorize(t) \/ Bind(t) \/ Recheck(t) \/ Switch(t)

Next == Delete \/ \E t \in Tabs : TabStep(t)

Spec == Init /\ [][Next]_vars

-----------------------------------------------------------------------------
\* The table of the link (p/[token]/page.tsx, package-claim.ts) holds whatever
\* requests fail and whoever races: "forbidden" is told only to someone whose
\* package it is not while it is somebody's, a tab is handed over only as the owner's, and an outage is "never misread as a
\* denial", nor is anything else read as an outage, but a package that goes between
\* the two reads.
TableHolds ==
  \A t \in Tabs :
    /\ at[t] = "forbidden" => owner \notin {NoOne, who[t]}
    /\ at[t] = "switch" => owner = who[t]
    /\ at[t] = "not found" => ~exists
    /\ at[t] = "unavailable" => failed[t] \/ ~exists

\* Everyone who opens a link is told the truth, and nobody loses a package by it:
\* "a package that already belongs to someone is never reassigned" (bind/route.ts).
LinkIsFair ==
  [][/\ TableHolds'
     /\ owner # NoOne => owner' = owner]_vars
=============================================================================
