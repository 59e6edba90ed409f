--------------------------- MODULE PaymentProofs ---------------------------
(***************************************************************************)
(* Proofs about PaymentProvisioning, for every set of packages, orders and  *)
(* deliveries: the types, the agreement of the two tables, what an          *)
(* acknowledgement means, and that the tables implement OrderLedger.  Then  *)
(* about the pages of a package's link and of its checkout.                 *)
(***************************************************************************)
EXTENDS MCPaymentProvisioning, FiniteSetTheorems, TLAPS

\* One step of the customer, of a delivery or a cut-off keeps every type.
LEMMA PaymentTypeInductive == TypeOK /\ [Next]_vars => TypeOK'
  <1> SUFFICES ASSUME TypeOK, [Next]_vars PROVE TypeOK'
    OBVIOUS
  <1> USE ProvisioningConstants
      DEF TypeOK, accountVars, tableVars, deliveryVars, Goto
  <1>1. ASSUME NEW p \in Packages, Register(p) PROVE TypeOK'
    BY <1>1 DEF Register
  <1>2. ASSUME NEW o \in Orders, NEW p \in Packages, Buy(o, p) PROVE TypeOK'
    BY <1>2 DEF Buy
  <1>3. ASSUME NEW d \in Deliveries, NEW o \in Orders, Deliver(d, o) PROVE TypeOK'
    BY <1>3 DEF Deliver
  <1>4. ASSUME NEW d \in Deliveries, Proceed(d) PROVE TypeOK'
    <2>1. CASE Resolve(d)       BY <2>1 DEF Resolve
    <2>2. CASE Unresolved(d)    BY <2>2 DEF Unresolved
    <2>3. CASE FindNothing(d)   BY <2>3 DEF FindNothing
    <2>4. CASE FindKnown(d)     BY <2>4 DEF FindKnown
    <2>5. CASE FindMismatch(d)  BY <2>5 DEF FindMismatch
    <2>6. CASE Insert(d)        BY <2>6 DEF Insert
    <2>7. CASE InsertRaced(d)   BY <2>7 DEF InsertRaced
    <2>8. CASE CheckPaid(d)     BY <2>8 DEF CheckPaid
    <2>9. CASE WritePaid(d)     BY <2>9 DEF WritePaid
    <2>10. CASE Answer(d)       BY <2>10 DEF Answer
    <2>11. QED
      BY <1>4, <2>1, <2>2, <2>3, <2>4, <2>5, <2>6, <2>7, <2>8, <2>9, <2>10 DEF Proceed
  <1>5. ASSUME NEW d \in Deliveries, Dies(d) PROVE TypeOK'
    BY <1>5 DEF Dies
  <1>6. CASE UNCHANGED vars
    BY <1>6 DEF vars
  <1>7. QED BY <1>1, <1>2, <1>3, <1>4, <1>5, <1>6 DEF Next

\* Every column, delivery and counter keeps its type.
THEOREM PaymentTypes == Spec => []TypeOK
  <1>1. Init => TypeOK
    BY ProvisioningConstants DEF Init, TypeOK
  <1>2. QED BY <1>1, PaymentTypeInductive, PTL DEF Spec

----------------------------------------------------------------------------
\* A row of the orders table and its package, once there, never change: only an
\* insert writes the table, and only where no row is.
LEMMA RowsStay ==
  ASSUME TypeOK, [Next]_vars
  PROVE  \A o \in Orders : order[o] # None => order'[o] = order[o]
  <1> USE DEF accountVars, tableVars, deliveryVars
  <1>1. CASE UNCHANGED order
    BY <1>1
  <1>2. ASSUME NEW d \in Deliveries, Insert(d)
        PROVE \A o \in Orders : order[o] # None => order'[o] = order[o]
    BY <1>2 DEF Insert, TypeOK
  <1>3. UNCHANGED order \/ \E d \in Deliveries : Insert(d)
    BY DEF Next, vars, Register, Buy, Deliver, Proceed, Resolve, Unresolved,
           FindNothing, FindKnown, FindMismatch, InsertRaced, CheckPaid,
           WritePaid, Answer, Dies
  <1>4. QED BY <1>1, <1>2, <1>3

\* A paid package stays paid: the flip writes an order, never None.
LEMMA PaidStays ==
  ASSUME TypeOK, [Next]_vars
  PROVE  \A p \in Packages : paidBy[p] # None => paidBy'[p] # None
  <1> USE ProvisioningConstants DEF accountVars, tableVars, deliveryVars
  <1>1. CASE UNCHANGED paidBy
    BY <1>1
  <1>2. ASSUME NEW d \in Deliveries, WritePaid(d)
        PROVE \A p \in Packages : paidBy[p] # None => paidBy'[p] # None
    BY <1>2 DEF WritePaid, TypeOK
  <1>3. UNCHANGED paidBy \/ \E d \in Deliveries : WritePaid(d)
    BY DEF Next, vars, Register, Buy, Deliver, Proceed, Resolve, Unresolved,
           FindNothing, FindKnown, FindMismatch, Insert, InsertRaced, CheckPaid,
           Answer, Dies
  <1>4. QED BY <1>1, <1>2, <1>3

\* A delivery gets past the insert only by finding or writing its own row, and
\* answers only after seeing or writing the flip.
DeliveryInv == HoldsItsRow /\ AnswersPaid

LEMMA DeliveryInductive ==
  TypeOK /\ DeliveryInv /\ [Next]_vars => DeliveryInv'
  <1> SUFFICES ASSUME TypeOK, DeliveryInv, [Next]_vars PROVE DeliveryInv'
    OBVIOUS
  <1> USE DEF DeliveryInv, HoldsItsRow, AnswersPaid, accountVars, tableVars,
              deliveryVars, Goto
  <1>a. \A o \in Orders : order[o] # None => order'[o] = order[o]
    BY RowsStay
  <1>b. \A p \in Packages : paidBy[p] # None => paidBy'[p] # None
    BY PaidStays
  <1>c. \A d \in Deliveries :
          pc[d] \in {"check", "write", "answer"} =>
            of[d] \in Orders /\ to[d] \in Packages /\ order[of[d]] # None
    BY ProvisioningConstants DEF TypeOK
  <1>1. ASSUME NEW p \in Packages, Register(p) PROVE DeliveryInv'
    BY <1>1 DEF Register
  <1>2. ASSUME NEW o \in Orders, NEW p \in Packages, Buy(o, p) PROVE DeliveryInv'
    BY <1>2 DEF Buy
  <1>3. ASSUME NEW d \in Deliveries, NEW o \in Orders, Deliver(d, o) PROVE DeliveryInv'
    BY <1>3 DEF Deliver, TypeOK
  <1>4. ASSUME NEW d \in Deliveries, Proceed(d) PROVE DeliveryInv'
    <2> USE ProvisioningConstants DEF TypeOK
    <2>1. CASE Resolve(d)       BY <2>1 DEF Resolve
    <2>2. CASE Unresolved(d)    BY <2>2 DEF Unresolved
    <2>3. CASE FindNothing(d)   BY <2>3 DEF FindNothing
    <2>4. CASE FindKnown(d)     BY <2>4 DEF FindKnown
    <2>5. CASE FindMismatch(d)  BY <2>5 DEF FindMismatch
    <2>6. CASE Insert(d)
      <3>1. order'[of[d]] = to[d]
        BY <2>6 DEF Insert
      <3>2. HoldsItsRow'
        BY <1>a, <1>c, <2>6, <3>1 DEF Insert
      <3>3. AnswersPaid'
        BY <2>6 DEF Insert
      <3>4. QED BY <3>2, <3>3
    <2>7. CASE InsertRaced(d)   BY <2>7 DEF InsertRaced
    <2>8. CASE CheckPaid(d)     BY <2>8 DEF CheckPaid
    <2>9. CASE WritePaid(d)
      <3>1. paidBy'[to[d]] # None
        BY <2>9 DEF WritePaid
      <3>2. AnswersPaid'
        BY <1>b, <1>c, <2>9, <3>1 DEF WritePaid
      <3>3. HoldsItsRow'
        BY <2>9 DEF WritePaid
      <3>4. QED BY <3>2, <3>3
    <2>10. CASE Answer(d)       BY <2>10 DEF Answer
    <2>11. QED
      BY <1>4, <2>1, <2>2, <2>3, <2>4, <2>5, <2>6, <2>7, <2>8, <2>9, <2>10 DEF Proceed
  <1>5. ASSUME NEW d \in Deliveries, Dies(d) PROVE DeliveryInv'
    BY <1>5 DEF Dies, TypeOK
  <1>6. CASE UNCHANGED vars
    BY <1>6 DEF vars
  <1>7. QED BY <1>1, <1>2, <1>3, <1>4, <1>5, <1>6 DEF Next

\* The invariant of a delivery holds in every behaviour.
LEMMA DeliveryHolds == Spec => []DeliveryInv
  <1>1. Init => DeliveryInv
    BY DEF Init, DeliveryInv, HoldsItsRow, AnswersPaid
  <1>2. QED BY <1>1, DeliveryInductive, PaymentTypes, PTL DEF Spec

----------------------------------------------------------------------------
\* A package names the order that paid for it, and that order's row names the
\* package: no payment opens two packages.
THEOREM PaidByItsOrderHolds == Spec => []PaidByItsOrder
  <1>1. Init => PaidByItsOrder
    BY DEF Init, PaidByItsOrder
  <1>2. TypeOK /\ DeliveryInv /\ PaidByItsOrder /\ [Next]_vars => PaidByItsOrder'
    <2> SUFFICES ASSUME TypeOK, DeliveryInv, PaidByItsOrder, [Next]_vars,
                        NEW p \in Packages, paidBy'[p] # None
                 PROVE  order'[paidBy'[p]] = p
      BY DEF PaidByItsOrder
    <2> USE ProvisioningConstants DEF accountVars, tableVars, deliveryVars
    <2>a. \A o \in Orders : order[o] # None => order'[o] = order[o]
      BY RowsStay
    <2>1. CASE UNCHANGED paidBy
      BY <2>1, <2>a DEF PaidByItsOrder, TypeOK
    <2>2. ASSUME NEW d \in Deliveries, WritePaid(d)
          PROVE  order'[paidBy'[p]] = p
      <3>1. order[of[d]] = to[d]
        BY <2>2 DEF WritePaid, DeliveryInv, HoldsItsRow
      <3>2. CASE p = to[d]
        BY <2>2, <3>1, <3>2 DEF WritePaid, TypeOK
      <3>3. CASE p # to[d]
        BY <2>2, <3>3 DEF WritePaid, TypeOK, PaidByItsOrder
      <3>4. QED BY <3>2, <3>3
    <2>3. UNCHANGED paidBy \/ \E d \in Deliveries : WritePaid(d)
      BY DEF Next, vars, Register, Buy, Deliver, Proceed, Resolve, Unresolved,
             FindNothing, FindKnown, FindMismatch, Insert, InsertRaced,
             CheckPaid, Answer, Dies
    <2>4. QED BY <2>1, <2>2, <2>3
  <1>3. QED BY <1>1, <1>2, PaymentTypes, DeliveryHolds, PTL DEF Spec

\* An order Polar holds an acknowledgement for has a row, and the package the
\* row names is paid.
THEOREM AckedIsPaidHolds == Spec => []AckedIsPaid
  <1>1. Init => AckedIsPaid
    BY DEF Init, AckedIsPaid
  <1>2. TypeOK /\ DeliveryInv /\ AckedIsPaid /\ [Next]_vars => AckedIsPaid'
    <2> SUFFICES ASSUME TypeOK, DeliveryInv, AckedIsPaid, [Next]_vars,
                        NEW o \in acked'
                 PROVE  order'[o] # None /\ paidBy'[order'[o]] # None
      BY DEF AckedIsPaid
    <2> USE ProvisioningConstants DEF accountVars, tableVars, deliveryVars
    <2>a. /\ \A x \in Orders : order[x] # None => order'[x] = order[x]
          /\ \A p \in Packages : paidBy[p] # None => paidBy'[p] # None
      BY RowsStay, PaidStays
    <2>1. CASE UNCHANGED acked
      BY <2>1, <2>a DEF AckedIsPaid, TypeOK
    <2>2. ASSUME NEW d \in Deliveries, Answer(d)
          PROVE  order'[o] # None /\ paidBy'[order'[o]] # None
      <3>1. /\ of[d] \in Orders /\ to[d] \in Packages
            /\ order[of[d]] = to[d] /\ paidBy[to[d]] # None
        BY <2>2 DEF Answer, DeliveryInv, HoldsItsRow, AnswersPaid, TypeOK
      <3>2. CASE o = of[d]
        BY <2>a, <3>1, <3>2
      <3>3. CASE o # of[d]
        BY <2>a, <2>2, <3>3 DEF Answer, AckedIsPaid, TypeOK
      <3>4. QED BY <3>2, <3>3
    <2>3. UNCHANGED acked \/ \E d \in Deliveries : Answer(d)
      BY DEF Next, vars, Register, Buy, Deliver, Proceed, Resolve, Unresolved,
             FindNothing, FindKnown, FindMismatch, Insert, InsertRaced,
             CheckPaid, WritePaid, Dies
    <2>4. QED BY <2>1, <2>2, <2>3
  <1>3. QED BY <1>1, <1>2, PaymentTypes, DeliveryHolds, PTL DEF Spec

----------------------------------------------------------------------------
\* The orders and packages tables implement the ledger: an insert is an Assign,
\* the paid flip an Open, every other step leaves the ledger alone.
THEOREM LedgerHolds == Spec => LedgerKept
  <1> USE ProvisioningConstants
  <1>1. Init => Ledger!Init
    BY DEF Init, Ledger!Init
  <1>2. TypeOK /\ DeliveryInv /\ [Next]_vars
          => [Ledger!Next]_<<order, {p \in Packages : paidBy[p] # None}>>
    <2> SUFFICES ASSUME TypeOK, DeliveryInv, [Next]_vars
                 PROVE  [Ledger!Next]_<<order, {p \in Packages : paidBy[p] # None}>>
      OBVIOUS
    <2> USE DEF accountVars, tableVars, deliveryVars
    <2>1. CASE UNCHANGED <<order, paidBy>>
      BY <2>1
    <2>2. ASSUME NEW d \in Deliveries, Insert(d) PROVE Ledger!Next
      <3>1. of[d] \in Orders /\ to[d] \in Packages
        BY <2>2 DEF Insert, TypeOK
      <3>2. Ledger!Assign(of[d], to[d])
        BY <2>2 DEF Insert, Ledger!Assign
      <3>3. QED BY <3>1, <3>2 DEF Ledger!Next
    <2>3. ASSUME NEW d \in Deliveries, WritePaid(d) PROVE Ledger!Next
      <3>1. of[d] \in Orders /\ to[d] \in Packages /\ order[of[d]] = to[d]
        BY <2>3 DEF WritePaid, TypeOK, DeliveryInv, HoldsItsRow
      <3>2. {p \in Packages : paidBy'[p] # None}
              = {p \in Packages : paidBy[p] # None} \union {to[d]}
        BY <2>3, <3>1 DEF WritePaid, TypeOK
      <3>3. Ledger!Open(to[d])
        BY <2>3, <3>1, <3>2 DEF WritePaid, Ledger!Open
      <3>4. QED BY <3>1, <3>3 DEF Ledger!Next, Ledger!Open
    <2>4. \/ UNCHANGED <<order, paidBy>>
          \/ \E d \in Deliveries : Insert(d) \/ WritePaid(d)
      BY DEF Next, vars, Register, Buy, Deliver, Proceed, Resolve, Unresolved,
             FindNothing, FindKnown, FindMismatch, InsertRaced, CheckPaid,
             Answer, Dies
    <2>5. QED BY <2>1, <2>2, <2>3, <2>4
  <1>3. QED
    BY <1>1, <1>2, PaymentTypes, DeliveryHolds, PTL
       DEF Spec, LedgerKept, Ledger!Spec

-----------------------------------------------------------------------------
(* The link of a package (PackageLink) *)

\* A tab whose navigation goes on belongs to somebody; what its page shows fits who owns
\* the package; and one that was not told whether it got it has a reason.
LinkInv ==
  /\ owner \in Accounts \union {NoOne} /\ exists \in BOOLEAN
  /\ who \in [Tabs -> Accounts \union {NoOne}] /\ failed \in [Tabs -> BOOLEAN]
  /\ next \in [Tabs -> {"home", "link"}] /\ bound \in [Tabs -> BOOLEAN]
  /\ at \in [Tabs -> Link!Shown \union {"authorize", "bind", "recheck", "switch"}]
  /\ \A t \in Tabs :
       /\ at[t] \in {"authorize", "bind", "recheck", "switch"} => who[t] # NoOne
       /\ at[t] = "recheck" => failed[t] \/ ~exists \/ owner # NoOne
  /\ Link!TableHolds

LEMMA LinkInit == PartsInit => LinkInv
  BY DEF PartsInit, Link!Init, LinkInv, Link!TableHolds, Link!Shown

LEMMA LinkStep ==
  LinkInv /\ [Link!Next]_linkVars => LinkInv' /\ (owner # NoOne => owner' = owner)
  <1> SUFFICES ASSUME LinkInv, [Link!Next]_linkVars
               PROVE  LinkInv' /\ (owner # NoOne => owner' = owner)
    OBVIOUS
  <1> USE ScreensConstants
      DEF LinkInv, Link!TableHolds, Link!GoesTo, Link!Shown, Link!Authorizations
  <1>1. CASE UNCHANGED linkVars
    BY <1>1 DEF linkVars
  <1>2. CASE Link!Delete
    BY <1>2 DEF Link!Delete
  <1>3. ASSUME NEW t \in Tabs, Link!OpenLink(t) PROVE LinkInv' /\ owner' = owner
    BY <1>3 DEF Link!OpenLink
  <1>4. ASSUME NEW t \in Tabs, NEW account \in Accounts, Link!SignIn(t, account)
        PROVE  LinkInv' /\ owner' = owner
    BY <1>4 DEF Link!SignIn
  <1>5. ASSUME NEW t \in Tabs, Link!SignInFails(t) PROVE LinkInv' /\ owner' = owner
    BY <1>5 DEF Link!SignInFails
  <1>6. ASSUME NEW t \in Tabs, Link!SignOut(t) PROVE LinkInv' /\ owner' = owner
    BY <1>6 DEF Link!SignOut
  <1>7. ASSUME NEW t \in Tabs, Link!Authorize(t) PROVE LinkInv' /\ owner' = owner
    <2>1. PICK answer \in Link!Authorizations :
            /\ at[t] = "authorize"
            /\ at' = [at EXCEPT ![t] =
                 CASE answer = "outage" -> "unavailable"
                   [] answer = "unknown" -> "not found"
                   [] OTHER -> CASE Link!claimAction(who[t], owner) = "claim" -> "bind"
                                 [] Link!claimAction(who[t], owner) = "enter" -> "switch"
                                 [] OTHER -> Link!claimAction(who[t], owner)]
            /\ failed' = [failed EXCEPT ![t] = @ \/ answer = "outage"]
            /\ UNCHANGED <<exists, owner, who, next, bound>>
      BY <1>7 DEF Link!Authorize
    <2> DEFINE place == at'[t]
    <2>2. who[t] # NoOne
      BY <2>1
    <2>3. \/ answer = "outage" /\ place = "unavailable"
          \/ answer = "unknown" /\ ~exists /\ place = "not found"
          \/ owner = NoOne /\ place = "bind"
          \/ owner = who[t] /\ place = "switch"
          \/ owner \notin {NoOne, who[t]} /\ place = "forbidden"
      BY <2>1, <2>2 DEF Link!claimAction
    <2> HIDE DEF place
    <2>4. at' = [at EXCEPT ![t] = place]
      BY <2>1 DEF place
    <2>5. failed'[t] <=> failed[t] \/ answer = "outage"
      BY <2>1
    <2>6. failed' \in [Tabs -> BOOLEAN] /\ \A u \in Tabs \ {t} : failed'[u] = failed[u]
      BY <2>1
    <2>7. place \in {"unavailable", "not found", "bind", "switch", "forbidden"} /\ at[t] # "recheck"
      BY <2>1, <2>3
    <2>8. at' \in [Tabs -> Link!Shown \union {"authorize", "bind", "recheck", "switch"}]
      BY <2>4, <2>7
    <2>9. ASSUME NEW u \in Tabs
          PROVE  /\ at'[u] \in {"authorize", "bind", "recheck", "switch"} => who'[u] # NoOne
                 /\ at'[u] = "recheck" => failed'[u] \/ ~exists' \/ owner' # NoOne
                 /\ at'[u] = "forbidden" => owner' \notin {NoOne, who'[u]}
                 /\ at'[u] = "switch" => owner' = who'[u]
                 /\ at'[u] = "not found" => ~exists'
                 /\ at'[u] = "unavailable" => failed'[u] \/ ~exists'
      <3>1. CASE u = t
        BY <2>1, <2>2, <2>3, <2>5, <2>7, <3>1 DEF place
      <3>2. CASE u # t
        BY <2>1, <2>4, <2>6, <3>2
      <3> QED
        BY <3>1, <3>2
    <2> QED
      BY <2>1, <2>6, <2>8, <2>9
  <1>8. ASSUME NEW t \in Tabs, Link!Bind(t)
        PROVE  LinkInv' /\ (owner # NoOne => owner' = owner)
    <2>1. /\ at[t] = "bind" /\ who[t] \in Accounts
          /\ UNCHANGED <<exists, who, next, bound>>
      BY <1>8 DEF Link!Bind
    <2>2. PICK told \in BOOLEAN, place \in {"switch", "recheck"} :
            /\ at' = [at EXCEPT ![t] = place]
            /\ told <=> place = "switch"
            /\ told => owner' # owner
            /\ \/ owner' = owner /\ failed'[t] /\ ~told
               \/ owner' = (IF exists /\ owner = NoOne THEN who[t] ELSE owner)
            /\ ~told /\ owner' # owner => failed'[t]
            /\ failed' \in [Tabs -> BOOLEAN] /\ \A u \in Tabs \ {t} : failed'[u] = failed[u]
      <3>1. CASE /\ owner' = Link!Bound(t)
                 /\ \E told \in BOOLEAN :
                      /\ told => owner' # owner
                      /\ at' = [at EXCEPT ![t] = IF told THEN "switch" ELSE "recheck"]
                      /\ failed' = [failed EXCEPT ![t] = @ \/ (~told /\ owner' # owner)]
        <4>1. PICK told \in BOOLEAN :
                /\ told => owner' # owner
                /\ at' = [at EXCEPT ![t] = IF told THEN "switch" ELSE "recheck"]
                /\ failed' = [failed EXCEPT ![t] = @ \/ (~told /\ owner' # owner)]
          BY <3>1
        <4>2. CASE told
          BY <3>1, <4>1, <4>2 DEF Link!Bound
        <4>3. CASE ~told
          BY <3>1, <4>1, <4>3 DEF Link!Bound
        <4> QED
          BY <4>2, <4>3
      <3>2. CASE /\ at' = [at EXCEPT ![t] = "recheck"]
                 /\ failed' = [failed EXCEPT ![t] = TRUE] /\ owner' = owner
        BY <3>2
      <3> QED
        BY <1>8, <3>1, <3>2 DEF Link!Bind
    <2>3. at'[t] = place /\ \A u \in Tabs \ {t} : at'[u] = at[u]
      BY <2>2
    <2>4. /\ at' \in [Tabs -> Link!Shown \union {"authorize", "bind", "recheck", "switch"}]
          /\ owner' \in Accounts \union {NoOne} /\ (owner # NoOne => owner' = owner)
      BY <2>1, <2>2
    <2>5. ASSUME NEW u \in Tabs
          PROVE  /\ at'[u] \in {"authorize", "bind", "recheck", "switch"} => who'[u] # NoOne
                 /\ at'[u] = "recheck" => failed'[u] \/ ~exists' \/ owner' # NoOne
                 /\ at'[u] = "forbidden" => owner' \notin {NoOne, who'[u]}
                 /\ at'[u] = "switch" => owner' = who'[u]
                 /\ at'[u] = "not found" => ~exists'
                 /\ at'[u] = "unavailable" => failed'[u] \/ ~exists'
      <3>1. CASE u = t
        BY <2>1, <2>2, <2>3, <3>1
      <3>2. CASE u # t
        BY <2>1, <2>2, <2>3, <2>4, <3>2
      <3> QED
        BY <3>1, <3>2
    <2> QED
      BY <2>1, <2>2, <2>4, <2>5
  <1>9. ASSUME NEW t \in Tabs, Link!Recheck(t) PROVE LinkInv' /\ owner' = owner
    BY <1>9 DEF Link!Recheck
  <1>10. ASSUME NEW t \in Tabs, Link!Switch(t) PROVE LinkInv' /\ owner' = owner
    BY <1>10 DEF Link!Switch
  <1> QED
    BY <1>1, <1>2, <1>3, <1>4, <1>5, <1>6, <1>7, <1>8, <1>9, <1>10
       DEF Link!Next, Link!TabStep

-----------------------------------------------------------------------------
(* The checkout (WebCheckout) *)

\* A page about a package that differs from the one it was opened for was opened for one
\* that is gone.
Screens ==
  [screen : {"elsewhere", "confirm", "creating", "polar", "confirming", "confirmed"},
   hint : Packages \union {None}, about : Packages \union {None}]
HostedPages == [pkg : Packages \union {None}, read : Packages \union {None}, charged : BOOLEAN]
ScreenOK(r) ==
  /\ r.screen = "creating" /\ r.about # r.hint => r.hint \notin Checkout!Owned
  /\ r.screen = "confirmed" /\ r.hint \in Checkout!Owned => r.hint \in paid
PagesOK ==
  /\ checkouts \in Seq(HostedPages)
  /\ \A k \in DOMAIN checkouts :
       checkouts[k].pkg # checkouts[k].read => checkouts[k].read \notin Checkout!Owned
CheckoutInv ==
  /\ listed \in Seq(Packages) /\ paid \in SUBSET Packages
  /\ cookie \in Packages \union {None}
  /\ tab \in [Tabs -> Screens] /\ \A t \in Tabs : ScreenOK(tab[t])
  /\ PagesOK

LEMMA CheckoutInvIsEnough == CheckoutInv => Checkout!CheckoutIsHonest
  BY DEF CheckoutInv, Checkout!CheckoutIsHonest, PagesOK, ScreenOK

\* Cutting one place out of a list leaves a list of what was there.
LEMMA CutOut ==
  ASSUME NEW S, NEW list \in Seq(S), NEW k \in DOMAIN list
  PROVE  LET rest == Checkout!RemoveAt(list, k)
         IN rest \in Seq(S) /\ Checkout!ToSet(rest) \subseteq Checkout!ToSet(list)
  <1> DEFINE rest == Checkout!RemoveAt(list, k)
             front == SubSeq(list, 1, k - 1)
             back == SubSeq(list, k + 1, Len(list))
  <1>1. k \in 1 .. Len(list) /\ Len(list) \in Nat /\ DOMAIN list = 1 .. Len(list)
    OBVIOUS
  <1>2. rest = front \o back
    BY DEF Checkout!RemoveAt
  <1>3. front \in Seq(S) /\ back \in Seq(S)
    BY <1>1
  <1>4. /\ Len(front) = k - 1 /\ \A i \in 1 .. k - 1 : front[i] = list[i]
        /\ Len(back) = Len(list) - k
        /\ \A i \in 1 .. Len(list) - k : back[i] = list[k + i]
    BY <1>1
  <1> HIDE DEF front, back, rest
  <1>5. rest \in Seq(S)
    BY <1>2, <1>3
  <1>6. ASSUME NEW j \in DOMAIN rest PROVE \E i \in DOMAIN list : rest[j] = list[i]
    <2>1. j \in 1 .. Len(front) + Len(back)
      BY <1>2, <1>3
    <2>2. rest[j] = IF j <= Len(front) THEN front[j] ELSE back[j - Len(front)]
      BY <1>2, <1>3, <2>1
    <2>3. CASE j <= Len(front)
      <3>1. j \in 1 .. k - 1 /\ j \in 1 .. Len(list)
        BY <1>1, <1>4, <2>1, <2>3
      <3> QED
        BY <1>1, <1>4, <2>2, <2>3, <3>1
    <2>4. CASE ~(j <= Len(front))
      <3>1. /\ j - Len(front) \in 1 .. Len(list) - k
            /\ k + (j - Len(front)) \in 1 .. Len(list)
        BY <1>1, <1>4, <2>1, <2>4
      <3> QED
        BY <1>1, <1>4, <2>2, <2>4, <3>1
    <2> QED
      BY <2>3, <2>4
  <1>7. Checkout!ToSet(rest) \subseteq Checkout!ToSet(list)
    BY <1>6 DEF Checkout!ToSet
  <1> QED
    BY <1>5, <1>7 DEF rest

\* The packages can be listed.
LEMMA ListedPackages == Checkout!SetToSeq(Packages) \in Seq(Packages)
  <1>1. Checkout!Cardinality(Packages) = Cardinality(Packages)
    BY DEF Checkout!Cardinality, Cardinality
  <1> DEFINE n == Cardinality(Packages)
  <1>2. n \in Nat /\ \E f : f \in Bijection(1 .. n, Packages)
    BY ScreensConstants, FS_CardinalityType DEF ExistsBijection
  <1>3. \E f \in [1 .. n -> Packages] : Checkout!IsInjective(f)
    BY <1>2 DEF Bijection, Injection, IsInjective, Checkout!IsInjective
  <1>4. Checkout!SetToSeq(Packages)
          = CHOOSE f \in [1 .. n -> Packages] : Checkout!IsInjective(f)
    BY <1>1, Zenon DEF Checkout!SetToSeq
  <1> HIDE DEF n
  <1>5. Checkout!SetToSeq(Packages) \in [1 .. n -> Packages]
    BY <1>3, <1>4
  <1> QED
    BY <1>2, <1>5

\* A screen that is neither creating a checkout nor confirmed claims nothing.
LEMMA PlainScreen ==
  ASSUME NEW h \in Packages \union {None}, NEW a \in Packages \union {None},
         NEW s \in {"elsewhere", "confirm", "polar", "confirming"}
  PROVE  /\ [screen |-> s, hint |-> h, about |-> a] \in Screens
         /\ ScreenOK([screen |-> s, hint |-> h, about |-> a])
  <1>1. [screen |-> s, hint |-> h, about |-> a] \in Screens
    BY DEF Screens
  <1>2. s # "creating" /\ s # "confirmed"
    OBVIOUS
  <1>3. ScreenOK([screen |-> s, hint |-> h, about |-> a])
    BY <1>2 DEF ScreenOK
  <1> QED
    BY <1>1, <1>3

LEMMA CheckoutInit == PartsInit => CheckoutInv
  <1> SUFFICES ASSUME PartsInit PROVE CheckoutInv
    OBVIOUS
  <1> DEFINE blank == [screen |-> "elsewhere", hint |-> None, about |-> None]
  <1>1. /\ listed \in Seq(Packages) /\ paid = {} /\ cookie \in Packages \union {None}
        /\ checkouts = <<>> /\ tab = [t \in Tabs |-> blank]
    BY ListedPackages DEF PartsInit, Checkout!Init, Checkout!Blank
  <1>2. blank \in Screens /\ ScreenOK(blank)
    BY PlainScreen
  <1> HIDE DEF blank
  <1>3. PagesOK
    BY <1>1 DEF PagesOK
  <1> QED
    BY <1>1, <1>2, <1>3 DEF CheckoutInv

\* A page's package is the one it was asked for, as long as that is the account's.
LEMMA ActiveIs ==
  ASSUME CheckoutInv, NEW hint
  PROVE  /\ hint \in Checkout!Owned => Checkout!Active(hint) = hint
         /\ Checkout!Active(hint) \in Packages \union {None}
  <1>1. Checkout!Owned \subseteq Packages
    BY DEF CheckoutInv, Checkout!Owned, Checkout!ToSet
  <1>2. listed # <<>> => Head(listed) \in Packages
    BY DEF CheckoutInv
  <1> QED
    BY <1>1, <1>2
       DEF Checkout!Active, Checkout!resolveActivePackage, Checkout!Owned, CheckoutInv

\* One tab shows another page, and the hosted pages stay right.
LEMMA TabShows ==
  ASSUME CheckoutInv, NEW t \in Tabs, NEW r \in Screens, ScreenOK(r),
         tab' = [tab EXCEPT ![t] = r], UNCHANGED <<listed, paid, cookie>>, PagesOK'
  PROVE  CheckoutInv'
  <1>1. Checkout!Owned' = Checkout!Owned
    BY DEF Checkout!Owned
  <1>2. tab' \in [Tabs -> Screens]
    BY DEF CheckoutInv
  <1>3. ASSUME NEW u \in Tabs PROVE ScreenOK(tab[u])'
    <2>1. tab'[u] = IF u = t THEN r ELSE tab[u]
      BY DEF CheckoutInv
    <2>2. ScreenOK(tab'[u])
      BY <2>1 DEF CheckoutInv
    <2> QED
      BY <1>1, <2>2 DEF ScreenOK
  <1> QED
    BY <1>2, <1>3 DEF CheckoutInv

LEMMA CheckoutStep == CheckoutInv /\ [Checkout!Next]_checkoutVars => CheckoutInv'
  <1> SUFFICES ASSUME CheckoutInv, [Checkout!Next]_checkoutVars PROVE CheckoutInv'
    OBVIOUS
  <1>1. CASE UNCHANGED checkoutVars
    BY <1>1 DEF checkoutVars, Checkout!Owned, CheckoutInv, PagesOK, ScreenOK
  <1>p. ASSUME UNCHANGED <<listed, checkouts>> PROVE PagesOK'
    BY <1>p DEF PagesOK, CheckoutInv, Checkout!Owned
  <1>s. ASSUME NEW t \in Tabs PROVE tab[t] \in Screens /\ ScreenOK(tab[t])
    BY DEF CheckoutInv
  <1>2. ASSUME NEW t \in Tabs, NEW hint \in Packages \union {None},
               Checkout!OpenCheckout(t, hint)
        PROVE  CheckoutInv'
    <2> DEFINE r == [screen |-> "confirm", hint |-> None, about |-> Checkout!Active(hint)]
    <2>1. r \in Screens /\ ScreenOK(r)
      BY ActiveIs, PlainScreen
    <2>2. tab' = [tab EXCEPT ![t] = r] /\ UNCHANGED <<listed, paid, cookie, checkouts>>
      BY <1>2 DEF Checkout!OpenCheckout, Checkout!Shows
    <2> HIDE DEF r
    <2> QED
      BY <1>p, <2>1, <2>2, TabShows
  <1>3. ASSUME NEW t \in Tabs, Checkout!Confirm(t) PROVE CheckoutInv'
    <2> DEFINE seen == tab[t].about
               r == [screen |-> "creating", hint |-> seen, about |-> Checkout!Active(seen)]
    <2>1. r \in Screens
      BY <1>s, ActiveIs DEF Screens
    <2>2. ScreenOK(r)
      BY ActiveIs DEF ScreenOK
    <2>3. tab' = [tab EXCEPT ![t] = r] /\ UNCHANGED <<listed, paid, cookie, checkouts>>
      BY <1>3 DEF Checkout!Confirm, Checkout!Shows
    <2> HIDE DEF r
    <2> QED
      BY <1>p, <2>1, <2>2, <2>3, TabShows
  <1>4. ASSUME NEW t \in Tabs, Checkout!CreateCheckout(t) PROVE CheckoutInv'
    <2> DEFINE page == [pkg |-> tab[t].about, read |-> tab[t].hint, charged |-> FALSE]
               r == [screen |-> "polar", hint |-> None, about |-> tab[t].about]
    <2>1. r \in Screens /\ ScreenOK(r)
      <3>1. tab[t].about \in Packages \union {None}
        BY <1>s DEF Screens
      <3> QED
        BY <3>1, PlainScreen
    <2>2. /\ tab' = [tab EXCEPT ![t] = r] /\ UNCHANGED <<listed, paid, cookie>>
          /\ checkouts' = Append(checkouts, page) /\ tab[t].screen = "creating"
      BY <1>4 DEF Checkout!CreateCheckout, Checkout!Shows
    <2>3. page \in HostedPages /\ (page.pkg # page.read => page.read \notin Checkout!Owned)
      BY <1>s, <2>2 DEF Screens, HostedPages, ScreenOK
    <2> HIDE DEF r, page
    <2>4. PagesOK'
      <3>1. checkouts \in Seq(HostedPages) /\ Checkout!Owned' = Checkout!Owned
        BY <2>2 DEF CheckoutInv, PagesOK, Checkout!Owned
      <3>2. /\ checkouts' \in Seq(HostedPages)
            /\ \A k \in DOMAIN checkouts' :
                 \/ k \in DOMAIN checkouts /\ checkouts'[k] = checkouts[k]
                 \/ checkouts'[k] = page
        BY <2>2, <2>3, <3>1
      <3> QED
        BY <2>3, <3>1, <3>2 DEF CheckoutInv, PagesOK
    <2> QED
      BY <2>1, <2>2, <2>4, TabShows
  <1>5. ASSUME NEW t \in Tabs, Checkout!Pay(t) PROVE CheckoutInv'
    <2> DEFINE r == [screen |-> "confirming", hint |-> tab[t].about, about |-> None]
    <2>1. r \in Screens /\ ScreenOK(r)
      <3>1. tab[t].about \in Packages \union {None}
        BY <1>s DEF Screens
      <3> QED
        BY <3>1, PlainScreen
    <2>2. tab' = [tab EXCEPT ![t] = r] /\ UNCHANGED <<listed, paid, cookie>>
      BY <1>5 DEF Checkout!Pay, Checkout!Shows
    <2>3. PICK k \in DOMAIN checkouts : checkouts' = [checkouts EXCEPT ![k].charged = TRUE]
      BY <1>5 DEF Checkout!Pay
    <2> HIDE DEF r
    <2>4. PagesOK'
      <3>1. checkouts \in Seq(HostedPages) /\ Checkout!Owned' = Checkout!Owned
        BY <2>2 DEF CheckoutInv, PagesOK, Checkout!Owned
      <3>2. \A i \in DOMAIN checkouts : checkouts[i] \in HostedPages
        BY <3>1
      <3>3. /\ DOMAIN checkouts' = DOMAIN checkouts
            /\ \A i \in DOMAIN checkouts : /\ checkouts'[i] \in HostedPages
                                           /\ checkouts'[i].pkg = checkouts[i].pkg
                                           /\ checkouts'[i].read = checkouts[i].read
        BY <2>3, <3>2 DEF HostedPages
      <3>4. checkouts' \in Seq(HostedPages)
        <4>1. DOMAIN checkouts = 1 .. Len(checkouts) /\ Len(checkouts) \in Nat
          BY <3>1
        <4>2. checkouts' = [i \in 1 .. Len(checkouts) |-> checkouts'[i]]
          BY <2>3, <4>1
        <4>3. checkouts' \in [1 .. Len(checkouts) -> HostedPages]
          BY <3>3, <4>1, <4>2
        <4> QED
          BY <4>1, <4>3
      <3> QED
        BY <3>1, <3>3, <3>4 DEF CheckoutInv, PagesOK
    <2> QED
      BY <2>1, <2>2, <2>4, TabShows
  <1>6. ASSUME NEW t \in Tabs, Checkout!PollSuccess(t) PROVE CheckoutInv'
    <2> DEFINE r == [screen |-> "confirmed", hint |-> tab[t].hint, about |-> None]
    <2>1. /\ tab' = [tab EXCEPT ![t] = r] /\ UNCHANGED <<listed, paid, cookie, checkouts>>
          /\ Checkout!Active(tab[t].hint) \in paid
      BY <1>6 DEF Checkout!PollSuccess, Checkout!Shows
    <2>2. r \in Screens
      BY <1>s DEF Screens
    <2>3. ScreenOK(r)
      BY <2>1, ActiveIs DEF ScreenOK
    <2> HIDE DEF r
    <2> QED
      BY <1>p, <2>1, <2>2, <2>3, TabShows
  <1>7. ASSUME NEW t \in Tabs, Checkout!Leaves(t) PROVE CheckoutInv'
    <2> DEFINE r == [screen |-> "elsewhere", hint |-> None, about |-> None]
    <2>1. r \in Screens /\ ScreenOK(r)
      BY PlainScreen
    <2>2. tab' = [tab EXCEPT ![t] = r] /\ UNCHANGED <<listed, paid, cookie, checkouts>>
      BY <1>7 DEF Checkout!Leaves, Checkout!Blank
    <2> HIDE DEF r
    <2> QED
      BY <1>p, <2>1, <2>2, TabShows
  <1>8. ASSUME NEW p \in Packages, Checkout!OrderPaid(p) PROVE CheckoutInv'
    BY <1>8 DEF Checkout!OrderPaid, Checkout!Owned, CheckoutInv, PagesOK, ScreenOK
  <1>9. ASSUME NEW p \in Packages, Checkout!SwitchTo(p) PROVE CheckoutInv'
    BY <1>9 DEF Checkout!SwitchTo, Checkout!Owned, CheckoutInv, PagesOK, ScreenOK
  <1>10. ASSUME NEW p \in Packages, Checkout!DeletePackage(p) PROVE CheckoutInv'
    <2>1. listed' \in Seq(Packages) /\ Checkout!Owned' \subseteq Checkout!Owned
      BY <1>10, CutOut DEF Checkout!DeletePackage, Checkout!Owned, CheckoutInv
    <2> QED
      BY <1>10, <2>1 DEF Checkout!DeletePackage, CheckoutInv, PagesOK, ScreenOK
  <1> QED
    BY <1>1, <1>2, <1>3, <1>4, <1>5, <1>6, <1>7, <1>8, <1>9, <1>10
       DEF Checkout!Next, Checkout!TabStep

-----------------------------------------------------------------------------
\* A link tells everyone the truth and never takes a package away, and a checkout is for
\* the package its confirm step named (p/[token]/page.tsx, checkout/page.tsx): for any
\* number of tabs, accounts and packages.
THEOREM PackageScreensHold == PartsSpec => PackageScreensAreFair
  <1>1. PartsInit => LinkInv /\ CheckoutInv
    BY LinkInit, CheckoutInit
  <1>2. [PartsNext]_partsVars => [Link!Next]_linkVars /\ [Checkout!Next]_checkoutVars
    BY DEF PartsNext, InWebhook, InLink, InCheckout, partsVars, linkVars, checkoutVars
  <1>3. LinkInv /\ CheckoutInv /\ [PartsNext]_partsVars
          => /\ LinkInv' /\ CheckoutInv'
             /\ [/\ Link!TableHolds' /\ (owner # NoOne => owner' = owner)]_linkVars
    BY <1>2, LinkStep, CheckoutStep DEF LinkInv
  <1>5. Link!vars = linkVars
    BY DEF Link!vars, linkVars
  <1> QED
    BY <1>1, <1>3, <1>5, CheckoutInvIsEnough, PTL
       DEF PartsSpec, PackageScreensAreFair, Link!LinkIsFair, Link!vars, linkVars

\* The run's behaviours are behaviours of PaymentProvisioning: what is proved of Spec above
\* holds of them.
THEOREM PartsAreProvisioning == PartsSpec => Spec
  <1>1. PartsInit => Init
    BY DEF PartsInit
  <1>2. [PartsNext]_partsVars => [Next]_vars
    BY DEF PartsNext, InWebhook, InLink, InCheckout, partsVars
  <1> QED
    BY <1>1, <1>2, PTL DEF PartsSpec, Spec
=============================================================================
