------------------------------- MODULE MCNode -------------------------------
(* What processes share through expiring keys of Redis, in one run: the gates  *)
(* of the http worker, the proxy pool, and the signals of a merchant's cycles. *)
(* The three share no key, so each takes its steps while the others are at     *)
(* their start.                                                                *)
EXTENDS RateLimiter, ProxyPool, SignalBatch, TLC

CONSTANTS c1, k1

MCHandlersOf == [p \in {"p1", "p2"} |-> IF p = "p1" THEN Handlers ELSE {"c"}]
MCTierOf     == [p \in {"p1", "p2"} |-> IF p = "p1" THEN "datacenter" ELSE "residential"]
MCDatacenter  == <<"x">>
MCResidential == <<"y">>
(* The second cycle finds one product eligible. *)
MCSkusOf == [c \in Cycles |-> IF c = c1 THEN Skus ELSE {k1}]

Init == RateInit /\ PoolInit /\ BatchInit
RatePart  == PoolInit /\ BatchInit /\ RateNext /\ UNCHANGED <<poolVars, batchVars>>
PoolPart  == RateInit /\ BatchInit /\ PoolNext /\ UNCHANGED <<rateVars, batchVars>>
BatchPart == RateInit /\ PoolInit /\ BatchNext /\ UNCHANGED <<rateVars, poolVars>>
Next == RatePart \/ PoolPart \/ BatchPart

Spec == Init /\ [][Next]_<<rateVars, poolVars, batchVars>>

(* The two handlers of the first pod are those of the gates, and their values also *)
(* stand for the SKUs of the first cycle only.                                     *)
Symmetry == Permutations(Handlers)

(* Every variable of the three has its type. *)
NodeTypeOK == RateTypeOK /\ PoolTypeOK /\ BatchTypeOK
=============================================================================
