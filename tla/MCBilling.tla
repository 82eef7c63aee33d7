------------------------------ MODULE MCBilling ------------------------------
(* Instances of Billing for TLC. *)
EXTENDS Billing, TLC
CONSTANTS q1, q2, k1

NoKinds == [k \in {} |-> {}]
OneKind == [k \in {k1} |-> Plans]

Symmetry == Permutations(Requests)
=============================================================================
