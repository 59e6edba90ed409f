------------------------ MODULE MCPaymentProvisioning ------------------------
(* A small instance of PaymentProvisioning for TLC, beside the pages that lead *)
(* to a package and its unlock.  One of them moves in a behaviour: `part' says *)
(* which, the others stay in one initial state.                               *)
EXTENDS PaymentProvisioning, SequencesExt

CONSTANTS
  p1, p2, o1, o2, d1, d2,
  Tabs, Accounts, NoOne, MaxCheckouts

\* An account has finitely many packages.
ASSUME ScreensConstants == IsFiniteSet(Packages) /\ NoOne \notin Accounts

MCPackages   == {p1, p2}
MCTrials     == {p1}
MCOrders     == {o1, o2}
MCDeliveries == {d1, d2}

VARIABLES
  part,
  exists, owner, who, next, at, failed, bound,
  listed, paid, cookie, tab, checkouts, orders

Link == INSTANCE PackageLink WITH cookie <- bound
Checkout == INSTANCE WebCheckout WITH owned <- listed, NoPkg <- None

linkVars == <<exists, owner, who, next, at, failed, bound>>
checkoutVars == <<listed, paid, cookie, tab, checkouts, orders>>
partsVars == <<part, vars, linkVars, checkoutVars>>

PartsInit ==
  /\ part \in {"webhook", "link", "checkout"}
  /\ Init
  /\ Link!Init
  /\ part # "link" => owner = NoOne /\ who = [t \in Tabs |-> NoOne]
  /\ Checkout!Init
  /\ paid = {}  \* what was paid before is reached by OrderPaid
  /\ part # "checkout" => cookie = None /\ listed = SetToSeq(Packages)

InWebhook(A) == part = "webhook" /\ A /\ UNCHANGED <<part, linkVars, checkoutVars>>
InLink(A) == part = "link" /\ A /\ UNCHANGED <<part, vars, checkoutVars>>
InCheckout(A) == part = "checkout" /\ A /\ UNCHANGED <<part, vars, linkVars>>

PartsNext ==
  InWebhook(Next) \/ InLink(Link!Next) \/ InCheckout(Checkout!Next)

\* The fairness of PaymentProvisioning and of WebCheckout.
PartsSpec ==
  /\ PartsInit /\ [][PartsNext]_partsVars
  /\ \A o \in Orders : SF_partsVars(InWebhook(\E d \in Deliveries : Deliver(d, o)))
  /\ \A d \in Deliveries : WF_partsVars(InWebhook(Proceed(d)))
  /\ \A t \in Tabs : WF_partsVars(InCheckout(Checkout!PollSuccess(t)))
  /\ \A p \in Packages : WF_partsVars(InCheckout(Checkout!OrderPaid(p)))

-----------------------------------------------------------------------------
(* What the run checks of the pages; each is stated with its module. *)
\* Everyone who opens a package's link is told the truth and nobody loses a package by
\* it (PackageLink); the package that was read is the one that is charged (WebCheckout).
PackageScreensAreFair == Link!LinkIsFair /\ []Checkout!CheckoutIsHonest

\* A payment is provisioned (PaymentProvisioning), and whoever made it is told so
\* (WebCheckout).
PaymentsArrive == Provisioned /\ Checkout!PayerIsTold
=============================================================================
