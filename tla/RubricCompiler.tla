----------------------------- MODULE RubricCompiler -----------------------------
(***************************************************************************)
(* services/scorer/src/scorer/rubric: what compile_rubric accepts of a     *)
(* model's reply and what it makes of it (compiler.py, repair.py,          *)
(* governance.py) and the validator of Rubric (schemas.py).  Pure.         *)
(* A dimension is a record; of its prose only what a rule asks is kept:    *)
(* whether it cites a source, names the ethics family, quotes the job      *)
(* description, and whether its anchors pass the report's language lint.   *)
(* A reply that is no JSON, or not of the schema, is Malformed.            *)
(***************************************************************************)
EXTENDS Integers, Sequences, FiniteSets, Functions, Folds

Malformed == <<>>

WeightOne == 1000        \* a reply's weights are in thousandths
Tolerance == 10          \* _WEIGHT_SUM_TOLERANCE
WeightCap == 100         \* PERIPHERAL_WEIGHT_CAP
MaxDelivery == 3         \* _MAX_DELIVERY_DIMS
FitKey == "role-and-company-fit"

TotalWeight(dims) == FoldFunction(+, 0, [i \in DOMAIN dims |-> dims[i].weight])

Having(dims, Test(_)) == {i \in DOMAIN dims : Test(dims[i])}
IsContent(dim) == dim.channel = "content"
IsDelivery(dim) == dim.channel = "delivery"
IsLicensed(dim) == dim.license = "profile"

-----------------------------------------------------------------------------
\* repair_delivery_citations: the product is what a delivery dimension cites.
RepairCitations(dims) ==
  [i \in DOMAIN dims |->
     IF IsDelivery(dims[i]) THEN [dims[i] EXCEPT !.cited = TRUE] ELSE dims[i]]

\* Rubric._validate_integrity.
IsValid(dims) ==
  /\ TotalWeight(dims) - WeightOne \in -Tolerance .. Tolerance
  /\ \A i \in DOMAIN dims : dims[i].cited
  /\ Having(dims, IsDelivery) # {}

\* What locate_span makes of a claimed quote (jd_evidence): the exact span, one that
\* differs in spacing ("variant"), "long" past 300 characters, or words the job
\* description does not have ("invented").
Located(evidence) ==
  CASE evidence = "variant" -> "exact"
    [] evidence = "invented" -> "null"
    [] OTHER -> evidence

\* _check_faithfulness: no problem lines...
IsFaithful(dims, jd) ==
  /\ \A i \in DOMAIN dims :
       \/ dims[i].license = "profile" /\ dims[i].key = FitKey
          /\ IsContent(dims[i]) /\ dims[i].evidence = "null"
       \/ dims[i].license = "jd" /\ IsContent(dims[i])
          /\ Located(dims[i].evidence) = "exact"
       \/ dims[i].license = "jd" /\ IsDelivery(dims[i])
  /\ Cardinality(Having(dims, IsLicensed)) <= 1
  /\ Having(dims, IsLicensed) # {} => jd.profile
  /\ Cardinality(Having(dims, IsDelivery)) <= MaxDelivery

\* ... and the quotes rewritten to the exact slice, or dropped.
WithLocated(dims) ==
  [i \in DOMAIN dims |->
     IF IsLicensed(dims[i]) THEN dims[i]
     ELSE [dims[i] EXCEPT !.evidence = Located(@)]]

-----------------------------------------------------------------------------
\* is_peripheral_dimension.
IsPeripheral(dim) ==
  IsContent(dim) /\ dim.license # "profile" /\ dim.key # FitKey /\ dim.family

\* What capped_weights may spread an excess over.
DirectWeight(dims) ==
  FoldFunction(+, 0, [i \in DOMAIN dims |-> IF IsPeripheral(dims[i]) THEN 0 ELSE dims[i].weight])

\* capped_weights.  The scale is a fraction: the whole is cut into finer parts, as many
\* as leave every weight exact.
CappedWeights(dims) ==
  LET over(dim) == IF IsPeripheral(dim) /\ dim.weight > WeightCap
                   THEN dim.weight - WeightCap ELSE 0
      excess == FoldFunction(+, 0, [i \in DOMAIN dims |-> over(dims[i])])
      others == DirectWeight(dims)
      moves == excess > 0 /\ others > 0
  IN [whole |-> IF moves THEN WeightOne * others ELSE WeightOne,
      parts |-> [i \in DOMAIN dims |->
        IF ~moves THEN dims[i].weight
        ELSE IF IsPeripheral(dims[i]) THEN (dims[i].weight - over(dims[i])) * others
        ELSE dims[i].weight * (others + excess)]]

\* apply_governance.
Governed(reply, jd) ==
  LET dims == reply.dims
      weights == IF jd.foregrounds
                 THEN [whole |-> WeightOne, parts |-> [i \in DOMAIN dims |-> dims[i].weight]]
                 ELSE CappedWeights(dims)
      peripheral == {dims[i].key : i \in Having(dims, IsPeripheral)}
  IN [dims |-> [i \in DOMAIN dims |->
        [dims[i] EXCEPT !.weight = weights.parts[i],
                        !.probing = IF IsPeripheral(dims[i])
                                    THEN "indirect" ELSE "direct"]],
      whole |-> weights.whole,
      bank |-> reply.bank \ peripheral]

-----------------------------------------------------------------------------
\* _attempt: the rubric a reply yields, if it passes every gate.
Admitted(reply, jd) ==
  IF reply = Malformed THEN {}
  ELSE LET dims == RepairCitations(reply.dims)
       IN IF IsValid(dims) /\ IsFaithful(dims, jd)
          THEN {Governed([reply EXCEPT !.dims = WithLocated(dims)], jd)} ELSE {}
=============================================================================
