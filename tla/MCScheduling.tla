---------------------------- MODULE MCScheduling ----------------------------
(* Instances of Scheduling for TLC. *)
EXTENDS Scheduling, TLC
CONSTANTS u1, u2, t1, t2, t3, m1, m2, r1, r2, pod1, pod2, req1, req2

\* A URL that two merchants track; the first of them has room for only one
\* competitor of its product and tries two.
SharedUrl     == t1 :> u1 @@ t2 :> u2 @@ t3 :> u1
SharedOwner   == t1 :> m1 @@ t2 :> m1 @@ t3 :> m2
SharedProduct == t1 :> r1 @@ t2 :> r1 @@ t3 :> r2

\* The shared URL alone.
OneUrl     == t1 :> u1 @@ t3 :> u1
OneOwner   == t1 :> m1 @@ t3 :> m2
OneProduct == t1 :> r1 @@ t3 :> r2

Symmetry == Permutations(Pods) \cup Permutations(Requests)
=============================================================================
