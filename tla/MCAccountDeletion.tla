-------------------------- MODULE MCAccountDeletion --------------------------
(* One package with one session, created, interviewed in and deleted while *)
(* two deletion requests run.                                              *)
EXTENDS AccountDeletion

CONSTANTS p1, s1, k1, r1, r2

MCPackages == {p1}
MCSessions == {s1}
MCKeys == {k1}
MCPlace == [s \in MCSessions |-> k1]
MCHome == [k \in MCKeys |-> p1]
MCFiled == {"order"}
MCRequests == {r1, r2}
=============================================================================
