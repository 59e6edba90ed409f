---------------------------- MODULE OrderLedger ----------------------------
(***************************************************************************)
(* What payment provisioning promises, whatever is delivered, repeated or   *)
(* lost on the way: one paid order stands for exactly one package, for      *)
(* ever, and a package opens only when an order stands for it.              *)
(***************************************************************************)
CONSTANTS Packages, Orders, None

VARIABLES
  ledger,  \* the package each order stands for, or None
  opened   \* the packages that have been paid for

Init ==
  /\ ledger = [o \in Orders |-> None]
  /\ opened = {}

Assign(o, p) ==
  /\ ledger[o] = None
  /\ ledger' = [ledger EXCEPT ![o] = p]
  /\ UNCHANGED opened

Open(p) ==
  /\ \E o \in Orders : ledger[o] = p
  /\ opened' = opened \union {p}
  /\ UNCHANGED ledger

Next == \E p \in Packages : Open(p) \/ \E o \in Orders : Assign(o, p)

Spec == Init /\ [][Next]_<<ledger, opened>>
=============================================================================
