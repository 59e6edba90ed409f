------------------------ MODULE PaymentProvisioning ------------------------
(***************************************************************************)
(* How a payment at Polar unlocks a package: the order.paid webhook of the  *)
(* web app (app/api/webhooks/polar/route.ts) and the worker's              *)
(* POST /packages/{id}/paid (routers/packages.py, api/db.py).               *)
(*                                                                          *)
(* Polar repeats a delivery until it is answered 2xx, so several deliveries *)
(* of one order can be in progress at once, and either server may die or    *)
(* time out in any of them.  A delivery takes one step per database call.   *)
(* All packages and orders are those of one account.                        *)
(***************************************************************************)
EXTENDS Naturals, FiniteSets

CONSTANTS
  Packages,    \* package rows the account may come to have
  Trials,      \* those with the historical is_trial flag
  Orders,      \* paid orders at Polar
  Deliveries,  \* bound: webhook deliveries in progress at once
  None,        \* no order, no package
  MaxDeaths    \* bound: deliveries cut off by a crash, a time-out or an outage

ASSUME ProvisioningConstants ==
  /\ Trials \subseteq Packages
  /\ None \notin Packages \union Orders
  /\ MaxDeaths \in Nat

VARIABLES
  owned,    \* packages registered so far
  bought,   \* the package each order was bought for at checkout
  meta,     \* does the order carry the metadata the checkout attached?
  acked,    \* orders Polar holds a 2xx for
  order,    \* orders table: package_id of the order's row
  paidBy,   \* packages table: order_id, set together with paid_at
  pc,       \* where each delivery stands
  of,       \* the order it delivers
  to,       \* the package it was resolved to
  deaths    \* deliveries cut off so far

accountVars == <<owned, bought, meta>>
tableVars == <<order, paidBy>>
deliveryVars == <<pc, of, to>>
vars == <<accountVars, acked, tableVars, deliveryVars, deaths>>

----------------------------------------------------------------------------
Init ==
  /\ owned = Trials
  /\ bought = [o \in Orders |-> None]
  /\ meta   = [o \in Orders |-> FALSE]
  /\ acked  = {}
  /\ order  = [o \in Orders |-> None]
  /\ paidBy = [p \in Packages |-> None]
  /\ pc     = [d \in Deliveries |-> "idle"]
  /\ of     = [d \in Deliveries |-> None]
  /\ to     = [d \in Deliveries |-> None]
  /\ deaths = 0

Unpaid == {p \in owned : paidBy[p] = None}

----------------------------------------------------------------------------
(* The customer *)

Register(p) ==
  /\ p \notin owned
  /\ owned' = owned \union {p}
  /\ UNCHANGED <<bought, meta, acked, tableVars, deliveryVars, deaths>>

\* The checkout page refuses a package that is paid by then; nothing stops two
\* checkouts of a package that is not.  Polar may drop the metadata.
Buy(o, p) ==
  /\ bought[o] = None
  /\ p \in Unpaid
  /\ bought' = [bought EXCEPT ![o] = p]
  /\ \E kept \in BOOLEAN : meta' = [meta EXCEPT ![o] = kept]
  /\ UNCHANGED <<owned, acked, tableVars, deliveryVars, deaths>>

----------------------------------------------------------------------------
(* One delivery *)

Deliver(d, o) ==
  /\ pc[d] = "idle"
  /\ bought[o] # None /\ o \notin acked
  /\ pc' = [pc EXCEPT ![d] = "resolve"]
  /\ of' = [of EXCEPT ![d] = o]
  /\ to' = [to EXCEPT ![d] = None]
  /\ UNCHANGED <<accountVars, acked, tableVars, deaths>>

Goto(d, step) == pc' = [pc EXCEPT ![d] = step]

\* Metadata first; else the single unpaid package, else the single unpaid trial.
ResolvesTo(o, p) ==
  \/ meta[o] /\ p = bought[o]
  \/ ~meta[o] /\ Unpaid = {p}
  \/ /\ ~meta[o]
     /\ Cardinality(Unpaid) # 1
     /\ Unpaid \intersect Trials = {p}

Resolve(d) ==
  /\ pc[d] = "resolve"
  /\ \E p \in Packages :
       /\ ResolvesTo(of[d], p)
       /\ to' = [to EXCEPT ![d] = p]
  /\ Goto(d, "find")
  /\ UNCHANGED <<accountVars, acked, tableVars, of, deaths>>

\* Answered 5xx, so that Polar tries again.
Unresolved(d) ==
  /\ pc[d] = "resolve"
  /\ ~ \E p \in Packages : ResolvesTo(of[d], p)
  /\ Goto(d, "idle")
  /\ UNCHANGED <<accountVars, acked, tableVars, of, to, deaths>>

FindNothing(d) ==
  /\ pc[d] = "find"
  /\ order[of[d]] = None
  /\ Goto(d, "insert")
  /\ UNCHANGED <<accountVars, acked, tableVars, of, to, deaths>>

\* Wrong variants for AckedIsPaid and Provisioned: a replay is answered without
\* the repair, or refused.
AnswerKnown(d) ==
  /\ pc[d] = "find"
  /\ order[of[d]] = to[d]
  /\ Goto(d, "answer")
  /\ UNCHANGED <<accountVars, acked, tableVars, of, to, deaths>>

RefuseKnown(d) ==
  /\ pc[d] = "find"
  /\ order[of[d]] = to[d]
  /\ Goto(d, "idle")
  /\ UNCHANGED <<accountVars, acked, tableVars, of, to, deaths>>

\* A replay asserts the paid flip again.
FindKnown(d) ==
  /\ pc[d] = "find"
  /\ order[of[d]] = to[d]
  /\ Goto(d, "check")
  /\ UNCHANGED <<accountVars, acked, tableVars, of, to, deaths>>

\* The order provisioned another package: 409, which the webhook answers 502.
FindMismatch(d) ==
  /\ pc[d] = "find"
  /\ order[of[d]] \notin {None, to[d]}
  /\ Goto(d, "idle")
  /\ UNCHANGED <<accountVars, acked, tableVars, of, to, deaths>>

\* Wrong variant for LedgerKept: the insert replaces the row of a rival.
InsertOver(d) ==
  /\ pc[d] = "insert"
  /\ order' = [order EXCEPT ![of[d]] = to[d]]
  /\ Goto(d, "check")
  /\ UNCHANGED <<accountVars, acked, paidBy, of, to, deaths>>

Insert(d) ==
  /\ pc[d] = "insert"
  /\ order[of[d]] = None
  /\ order' = [order EXCEPT ![of[d]] = to[d]]
  /\ Goto(d, "check")
  /\ UNCHANGED <<accountVars, acked, paidBy, of, to, deaths>>

\* polar_order_id is unique: the loser of the race reads the winner's row.
InsertRaced(d) ==
  /\ pc[d] = "insert"
  /\ order[of[d]] # None
  /\ Goto(d, IF order[of[d]] = to[d] THEN "check" ELSE "idle")
  /\ UNCHANGED <<accountVars, acked, tableVars, of, to, deaths>>

\* set_package_paid reads paid_at ...
CheckPaid(d) ==
  /\ pc[d] = "check"
  /\ Goto(d, IF paidBy[to[d]] = None THEN "write" ELSE "answer")
  /\ UNCHANGED <<accountVars, acked, tableVars, of, to, deaths>>

\* ... and writes in a second request, without looking again.
WritePaid(d) ==
  /\ pc[d] = "write"
  /\ paidBy' = [paidBy EXCEPT ![to[d]] = of[d]]
  /\ Goto(d, "answer")
  /\ UNCHANGED <<accountVars, acked, order, of, to, deaths>>

Answer(d) ==
  /\ pc[d] = "answer"
  /\ acked' = acked \union {of[d]}
  /\ Goto(d, "idle")
  /\ UNCHANGED <<accountVars, tableVars, of, to, deaths>>

\* The web app, the worker, the database or the connection goes away: whatever
\* was written stays, and Polar sees no 2xx.
Dies(d) ==
  /\ pc[d] # "idle"
  /\ deaths < MaxDeaths
  /\ deaths' = deaths + 1
  /\ Goto(d, "idle")
  /\ UNCHANGED <<accountVars, acked, tableVars, of, to>>

Proceed(d) ==
  \/ Resolve(d) \/ Unresolved(d)
  \/ FindNothing(d) \/ FindKnown(d) \/ FindMismatch(d)
  \/ Insert(d) \/ InsertRaced(d)
  \/ CheckPaid(d) \/ WritePaid(d)
  \/ Answer(d)

Next ==
  \/ \E p \in Packages : Register(p) \/ \E o \in Orders : Buy(o, p)
  \/ \E d \in Deliveries :
       \/ \E o \in Orders : Deliver(d, o)
       \/ Proceed(d)
       \/ Dies(d)

Spec == Init /\ [][Next]_vars

\* Polar goes on delivering what is not acknowledged, and a request in progress
\* ends: both sides have time-outs.  SF: deliveries of other orders may take
\* every free slot in turn.
Fairness ==
  /\ \A o \in Orders : SF_vars(\E d \in Deliveries : Deliver(d, o))
  /\ \A d \in Deliveries : WF_vars(Proceed(d))

FairSpec == Spec /\ Fairness

----------------------------------------------------------------------------
TypeOK ==
  /\ Trials \subseteq owned /\ owned \subseteq Packages
  /\ bought \in [Orders -> Packages \union {None}]
  /\ meta \in [Orders -> BOOLEAN]
  /\ acked \subseteq Orders
  /\ order \in [Orders -> Packages \union {None}]
  /\ paidBy \in [Packages -> Orders \union {None}]
  /\ pc \in [Deliveries ->
       {"idle", "resolve", "find", "insert", "check", "write", "answer"}]
  /\ of \in [Deliveries -> Orders \union {None}]
  /\ \A d \in Deliveries : pc[d] # "idle" => of[d] \in Orders
  /\ to \in [Deliveries -> Packages \union {None}]
  /\ \A d \in Deliveries : pc[d] \notin {"idle", "resolve"} => to[d] \in Packages
  /\ deaths \in 0..MaxDeaths

\* The order a package says it was paid by says the same of the package, so no
\* payment opens two packages, however its deliveries are resolved, raced, cut
\* off and repeated (mark_package_paid's mismatch refusals).
PaidByItsOrder ==
  \A p \in Packages : paidBy[p] # None => order[paidBy[p]] = p

\* Why PaidByItsOrder is inductive: a delivery past the insert holds the row.
HoldsItsRow ==
  \A d \in Deliveries :
    pc[d] \in {"check", "write", "answer"} => order[of[d]] = to[d]

\* Nothing is acknowledged to Polar before the package its row names is open:
\* after a 2xx nobody would deliver the payment again (route.ts, "a 2xx would
\* ack a payment that provisioned nothing").
AckedIsPaid ==
  \A o \in acked : order[o] # None /\ paidBy[order[o]] # None

\* Why AckedIsPaid is inductive: a delivery that answers has seen the flip.
AnswersPaid ==
  \A d \in Deliveries : pc[d] = "answer" => paidBy[to[d]] # None

Ledger == INSTANCE OrderLedger
  WITH ledger <- order, opened <- {p \in Packages : paidBy[p] # None}

\* The worker's two tables implement the order ledger: an order's package never
\* changes, and packages open one at a time, each for an order that stands for it.
LedgerKept == Ledger!Spec

\* A payment whose metadata survives opens the package it was bought for, also
\* when a delivery dies between the order row and the paid flip
\* (mark_package_paid, "Replay heal").
Provisioned ==
  \A o \in Orders : \A p \in Packages :
    (meta[o] /\ bought[o] = p) ~> paidBy[p] # None
=============================================================================
