------------------------------ MODULE Outages ------------------------------
(***************************************************************************)
(* What out-of-stock detection promises about one competitor URL: alerts   *)
(* open in the step in which it goes out of stock and all close in the     *)
(* step in which it comes back.  Alerts implements it while its ingests of *)
(* the URL do not overlap.                                                 *)
(***************************************************************************)
CONSTANT Trackings

VARIABLES
    stock,   \* whether the URL was last seen in stock
    open     \* the trackings that have an open alert

Init == stock = TRUE /\ open = {}

GoesOut ==
    /\ stock
    /\ stock' = FALSE
    /\ open' \in SUBSET Trackings

ComesBack ==
    /\ ~stock
    /\ stock' = TRUE
    /\ open' = {}

Next == GoesOut \/ ComesBack
=============================================================================
