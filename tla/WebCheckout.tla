----------------------------- MODULE WebCheckout -----------------------------
(***************************************************************************)
(* Buying the unlock of a package (app/checkout/page.tsx, its success      *)
(* page, lib/active-package.ts and createCheckout of lib/polar.ts): a      *)
(* confirm step names the package, Polar's hosted page takes the payment,  *)
(* and the webhook (PaymentProvisioning) unlocks it.  One account, several *)
(* tabs; the pages know a package by a hint in their address and by the    *)
(* active-package cookie, which any tab may change.                        *)
(***************************************************************************)
EXTENDS Naturals, Sequences, SequencesExt, FiniteSets

CONSTANTS Tabs, Packages, NoPkg, MaxCheckouts

VARIABLES
  owned,     \* the account's standard packages, newest first
  paid,      \* the packages with paid_at
  cookie,    \* fc_pkg
  tab,       \* what each tab shows: screen, hint, the package it is about
  checkouts, \* the hosted checkouts, in the order they were opened
  orders     \* order.paid deliveries under way, by package

vars == <<owned, paid, cookie, tab, checkouts, orders>>

Blank == [screen |-> "elsewhere", hint |-> NoPkg, about |-> NoPkg]
Owned == ToSet(owned)

\* ?pkg= first, then the cookie, then the newest; what is not owned is passed over.
resolveActivePackage(hint, list) ==
  CASE hint \in ToSet(list) -> hint
    [] hint \notin ToSet(list) /\ cookie \in ToSet(list) -> cookie
    [] OTHER -> IF list = <<>> THEN NoPkg ELSE Head(list)

Active(hint) == resolveActivePackage(hint, owned)

Init ==
  /\ owned = SetToSeq(Packages)  \* which of them is the newest is a matter of naming
  /\ paid \in SUBSET Packages
  /\ cookie \in Packages \union {NoPkg}
  /\ tab = [t \in Tabs |-> Blank]
  /\ checkouts = <<>>
  /\ orders = [p \in Packages |-> 0]

Shows(t, screen, hint, about) ==
  tab' = [tab EXCEPT ![t] = [screen |-> screen, hint |-> hint, about |-> about]]

-----------------------------------------------------------------------------
\* A package there is something to pay for; for any other, and where the list cannot
\* be had or Polar refuses, the page says so and leads elsewhere (Leaves).
Payable(active) == active \notin paid \union {NoPkg}

\* The checkout page without go=1.
OpenCheckout(t, hint) ==
  /\ tab[t].screen # "polar"
  /\ Payable(Active(hint))
  /\ Shows(t, "confirm", NoPkg, Active(hint))
  /\ UNCHANGED <<owned, paid, cookie, checkouts, orders>>

\* "Continue to payment": the same page with go=1, which reads the list again.
Confirm(t) ==
  /\ tab[t].screen = "confirm"
  /\ Payable(Active(tab[t].about))
  /\ Shows(t, "creating", tab[t].about, Active(tab[t].about))
  /\ UNCHANGED <<owned, paid, cookie, checkouts, orders>>

\* Polar answers with a hosted page.
CreateCheckout(t) ==
  /\ tab[t].screen = "creating" /\ Len(checkouts) < MaxCheckouts
  /\ checkouts' = Append(checkouts, [pkg |-> tab[t].about, read |-> tab[t].hint, charged |-> FALSE])
  /\ Shows(t, "polar", NoPkg, tab[t].about)
  /\ UNCHANGED <<owned, paid, cookie, orders>>

\* The person pays on Polar's page and is sent to the success address.
Pay(t) ==
  /\ tab[t].screen = "polar"
  /\ \E k \in DOMAIN checkouts :
       /\ checkouts[k].pkg = tab[t].about /\ ~checkouts[k].charged
       /\ checkouts' = [checkouts EXCEPT ![k].charged = TRUE]
  /\ orders' = [orders EXCEPT ![tab[t].about] = @ + 1]
  /\ Shows(t, "confirming", tab[t].about, NoPkg)
  /\ UNCHANGED <<owned, paid, cookie>>

\* The person goes elsewhere, or is sent there.
Leaves(t) ==
  /\ tab[t] # Blank
  /\ tab' = [tab EXCEPT ![t] = Blank]
  /\ UNCHANGED <<owned, paid, cookie, checkouts, orders>>

\* The success page renders again; a list that cannot be had leaves it confirming.
PollSuccess(t) ==
  /\ tab[t].screen = "confirming"
  /\ Active(tab[t].hint) \in paid
  /\ Shows(t, "confirmed", tab[t].hint, NoPkg)
  /\ UNCHANGED <<owned, paid, cookie, checkouts, orders>>

\* order.paid is provisioned; a package that is gone keeps its order only.
OrderPaid(p) ==
  /\ orders[p] > 0
  /\ orders' = [orders EXCEPT ![p] = @ - 1]
  /\ paid' = paid \union ({p} \intersect Owned)
  /\ UNCHANGED <<owned, cookie, tab, checkouts>>

-----------------------------------------------------------------------------
\* GET /switch from another page.
SwitchTo(p) ==
  /\ p \in Owned /\ cookie # p
  /\ cookie' = p
  /\ UNCHANGED <<owned, paid, tab, checkouts, orders>>

DeletePackage(p) ==
  /\ \E k \in DOMAIN owned : owned[k] = p /\ owned' = RemoveAt(owned, k)
  /\ UNCHANGED <<paid, cookie, tab, checkouts, orders>>

TabStep(t) ==
  \/ \E hint \in Packages \union {NoPkg} : OpenCheckout(t, hint)
  \/ Confirm(t) \/ CreateCheckout(t) \/ Pay(t) \/ PollSuccess(t) \/ Leaves(t)

Next ==
  \/ \E t \in Tabs : TabStep(t)
  \/ \E p \in Packages : OrderPaid(p) \/ SwitchTo(p) \/ DeletePackage(p)

\* A success page renders again as long as its tab is there (PollRefresh), and Polar
\* delivers order.paid until it is acknowledged (PaymentProvisioning).
FairSpec ==
  /\ Init /\ [][Next]_vars
  /\ \A t \in Tabs : WF_vars(PollSuccess(t))
  /\ \A p \in Packages : WF_vars(OrderPaid(p))

-----------------------------------------------------------------------------
\* "The offer someone reads is the offer they are charged for" (checkout/page.tsx):
\* whatever other tabs switch to, a checkout is for the package that its confirm step
\* named, unless that package was deleted under it.  And the success page "only
\* claims confirmation once paid_at is real": for the package that was paid for.
CheckoutIsHonest ==
  /\ \A k \in DOMAIN checkouts :
       checkouts[k].pkg # checkouts[k].read => checkouts[k].read \notin Owned
  /\ \A t \in Tabs :
       tab[t].screen = "confirmed" /\ tab[t].hint \in Owned => tab[t].hint \in paid

\* "The page updates by itself" (checkout/success): whoever has paid for a package
\* and stays does not wait for ever, whatever the other tabs do to the cookie and
\* the list.
PayerIsTold ==
  \A t \in Tabs, p \in Packages :
    ~<>[](tab[t].screen = "confirming" /\ tab[t].hint = p /\ p \in Owned)
=============================================================================
