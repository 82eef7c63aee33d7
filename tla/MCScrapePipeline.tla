-------------------------- MODULE MCScrapePipeline --------------------------
(* Instances of ScrapePipeline for TLC: one URL, tracked by all merchants. *)
EXTENDS ScrapePipeline, TLC
CONSTANTS u1, d1, m1, m2, v1, v2

OneDomain  == [u \in {u1} |-> d1]
AllTrackIt == [u \in {u1} |-> Merchants]

Symmetry == Permutations({v1, v2}) \cup Permutations(Merchants)
=============================================================================
