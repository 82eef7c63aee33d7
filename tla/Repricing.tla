------------------------------ MODULE Repricing ------------------------------
(***************************************************************************)
(* The price of one SKU under auto-repricing: the rule engine that turns   *)
(* the market into a signal (signals/rule_engine.py), the price a signal   *)
(* leads to (services/repricer.py) and the cycles that join them           *)
(* (signals/dispatcher.py), which overlap, while the market moves, the     *)
(* merchant edits and Gemini answers what it likes.  A cycle reads, awaits *)
(* Gemini, sets the dedup key, awaits Shopify and then writes a price that *)
(* it has computed from what it read.  Prices are cents, and a median is   *)
(* counted in half cents.                                                  *)
(***************************************************************************)
EXTENDS Integers, FiniteSets, SequencesExt

CONSTANTS
    Cycles,         \* cycles of the SKU's merchant that may overlap
    MaxCompetitors, \* bound on the competitors in stock
    MarketPrices,   \* what a competitor may charge
    OwnPrices,      \* prices the merchant sets himself, here or in his shop
    ImportedPrice,  \* the one the SKU was created with
    Floors,         \* floor_price and ceiling_price he may enter
    Ceilings,
    NoBound         \* a bound that was never entered

ASSUME RepricingAssumption ==
    /\ MarketPrices \cup OwnPrices \subseteq Nat \ {0}
    /\ ImportedPrice \in OwnPrices
    /\ Floors \cup Ceilings \subseteq Nat
    /\ NoBound \notin Nat
    /\ MaxCompetitors \in Nat
    /\ IsFiniteSet(Cycles)

VARIABLES
    market,     \* prices of the enabled trackings in stock by their latest snapshots, in order
    sku,        \* current_price and the bounds
    emitted,    \* signal types whose dedup key is set
    cycle,      \* how far each cycle is, and the signal and the price it goes for
    fresh,      \* ghost: cycles under way by rule that have read since all else rests
    moves       \* ghost: how often they have changed the price since

repricingVars == <<market, sku, emitted, cycle, fresh, moves>>

\* Those that lead to a price; after a HOLD nothing follows.
SignalTypes == {"RAISE", "LOWER"}
NoPrice == 0
NoCycle == [at |-> "idle", signal |-> "HOLD", price |-> NoPrice]

Ordered(p) == \A i, j \in DOMAIN p : i <= j => p[i] <= p[j]
-----------------------------------------------------------------------------
(***************************************************************************)
(* The rule engine and the price, for the ordered prices p of the          *)
(* competitors in stock.                                                   *)
(***************************************************************************)
\* statistics.median, in half cents.
Median(p) == p[(Len(p) + 1) \div 2] + p[Len(p) \div 2 + 1]

\* Without what the parser must have got wrong: more than five times the median.
\* In order, the prices that are kept come first.
Filtered(p) == SubSeq(p, 1, Cardinality({i \in DOMAIN p : 2 * p[i] <= 5 * Median(p)}))

Overpriced(price, p) == p # <<>> /\ 200 * price > 105 * Median(Filtered(p))
Underpriced(price, p) == p # <<>> /\ Last(Filtered(p)) > price

ComputeSignal(price, p) ==
    IF Overpriced(price, p) THEN "LOWER" ELSE IF Underpriced(price, p) THEN "RAISE" ELSE "HOLD"

\* Fault: a raise goes for the dearest competitor, the "potential" in its reasoning.
TargetPotential(signal, p) == IF signal = "RAISE" THEN 2 * Last(p) - 2 ELSE Median(p) - 2

\* A penny below the cheapest competitor, or below the median, in half cents.
\* The median of the engine leaves the outliers out, this one does not.
Target(signal, p) == IF signal = "RAISE" THEN 2 * Head(p) - 2 ELSE Median(p) - 2

\* The ceiling first, so that the floor wins.
Clamped(target) ==
    LET capped == IF sku.ceiling # NoBound /\ target > 2 * sku.ceiling
                  THEN 2 * sku.ceiling ELSE target
    IN  IF sku.floor # NoBound /\ capped < 2 * sku.floor THEN 2 * sku.floor ELSE capped

\* compute_reprice: the new price in cents, half up.
NewPrice(signal) == (Clamped(Target(signal, market)) + 1) \div 2

\* It is not None.
Repriced(signal) ==
    /\ signal \in {"RAISE", "LOWER"}
    /\ market # <<>>
    /\ NewPrice(signal) > 0
    /\ NewPrice(signal) # sku.price
-----------------------------------------------------------------------------
(***************************************************************************)
(* A cycle of the SKU's merchant.                                          *)
(***************************************************************************)
\* Whatever is not a repricing by rule, or is one by what had been read before:
\* the price rests anew.
RestsAnew == fresh' = {} /\ moves' = 0

\* generate_cycle_signals: the latest snapshots and the SKU.  The signal is the
\* rule engine's or what Gemini, or a cached answer of it, is going to say; the
\* price it goes for follows from what is read here.  The snapshots are read just
\* before the SKU; with a change in between the cycle would be one that read before
\* the rest, which it is here, too, when the change comes right after the read.
ReadMarket(c, signal, source) ==
    /\ cycle[c] = NoCycle
    /\ source = "rule" => signal = ComputeSignal(sku.price, market)
    /\ cycle' = [cycle EXCEPT ![c] =
           [at |-> "signal", signal |-> signal,
            price |-> IF Repriced(signal) THEN NewPrice(signal) ELSE NoPrice]]
    /\ fresh' = IF source = "rule" THEN fresh \cup {c} ELSE fresh
    /\ UNCHANGED <<market, sku, emitted, moves>>

CycleEnds(c) == cycle' = [cycle EXCEPT ![c] = NoCycle]

\* check_and_set_dedup.  The key is set whether or not a price follows: auto-repricing
\* may be switched off, or the price be the one the SKU has.
SetSignal(c) ==
    /\ cycle[c].at = "signal"
    /\ \/ /\ cycle[c].signal \in emitted /\ CycleEnds(c)
          /\ fresh' = fresh \ {c}
          /\ UNCHANGED emitted
       \/ /\ cycle[c].signal \notin emitted
          /\ emitted' = emitted \cup {cycle[c].signal}
          /\ \/ /\ cycle[c].price # NoPrice
                /\ cycle' = [cycle EXCEPT ![c].at = "price"]
                /\ UNCHANGED fresh
             \/ CycleEnds(c) /\ fresh' = fresh \ {c}
    /\ UNCHANGED <<market, sku, moves>>

\* apply_price_change: Shopify has taken the price, and the transaction commits.
WritePrice(c) ==
    /\ cycle[c].at = "price"
    /\ sku' = [sku EXCEPT !.price = cycle[c].price]
    /\ CycleEnds(c)
    /\ \/ /\ c \in fresh
          /\ fresh' = fresh \ {c}
          /\ moves' = IF sku'.price # sku.price THEN moves + 1 ELSE moves
       \/ c \notin fresh /\ RestsAnew
    /\ UNCHANGED <<market, emitted>>

\* Shopify refuses it, or a transaction rolls back; a cycle dies.
CycleDies(c) ==
    /\ cycle[c] # NoCycle
    /\ CycleEnds(c) /\ fresh' = fresh \ {c}
    /\ UNCHANGED <<market, sku, emitted, moves>>

\* An hour later.
DedupExpires(signal) ==
    /\ signal \in emitted
    /\ emitted' = emitted \ {signal}
    /\ UNCHANGED <<market, sku, cycle, fresh, moves>>
-----------------------------------------------------------------------------
(***************************************************************************)
(* What else changes.                                                      *)
(***************************************************************************)
\* A competitor with this price is in stock, or is not any more; a new price is both.
NewSnapshot(price) ==
    /\ \/ /\ Len(market) < MaxCompetitors
          /\ \E i \in 1..(Len(market) + 1) : market' = InsertAt(market, i, price)
       \/ \E i \in DOMAIN market : market[i] = price /\ market' = RemoveAt(market, i)
    /\ Ordered(market')
    /\ RestsAnew
    /\ UNCHANGED <<sku, emitted, cycle>>

Edited(edit) == sku' = edit /\ RestsAnew /\ UNCHANGED <<market, emitted, cycle>>

\* patch_sku does not compare the bounds, update_sku_reprice does; neither can
\* remove one.
PatchSku ==
    \/ \E f \in Floors : Edited([sku EXCEPT !.floor = f])
    \/ \E c \in Ceilings : Edited([sku EXCEPT !.ceiling = c])
    \/ \E price \in OwnPrices : Edited([sku EXCEPT !.price = price])

UpdateSkuReprice ==
    \E f \in Floors \cup {sku.floor}, c \in Ceilings \cup {sku.ceiling} :
        /\ f # NoBound /\ c # NoBound => f <= c
        /\ Edited([sku EXCEPT !.floor = f, !.ceiling = c])

\* apply_manual_price, when Shopify takes it.
ApplyManualPrice(price) ==
    /\ sku.floor # NoBound => price >= sku.floor
    /\ sku.ceiling # NoBound => price <= sku.ceiling
    /\ Edited([sku EXCEPT !.price = price])

\* _import_shopify_skus takes over the price of the shop.
ImportPrice(price) == Edited([sku EXCEPT !.price = price])
-----------------------------------------------------------------------------
RepricingInit ==
    /\ market = <<>>
    /\ sku = [price |-> ImportedPrice, floor |-> NoBound, ceiling |-> NoBound]
    /\ emitted = {}
    /\ cycle = [c \in Cycles |-> NoCycle]
    /\ fresh = {}
    /\ moves = 0

RepricingNext ==
    \/ \E c \in Cycles : \/ \E signal \in SignalTypes, source \in {"rule", "ai"} : ReadMarket(c, signal, source)
                         \/ SetSignal(c) \/ WritePrice(c) \/ CycleDies(c)
    \/ \E signal \in SignalTypes : DedupExpires(signal)
    \/ \E price \in MarketPrices : NewSnapshot(price)
    \/ PatchSku \/ UpdateSkuReprice
    \/ \E price \in OwnPrices : ApplyManualPrice(price) \/ ImportPrice(price)

RepricingSpec == RepricingInit /\ [][RepricingNext]_repricingVars
-----------------------------------------------------------------------------
RepricingTypeOK ==
    /\ market \in Seq(MarketPrices)
    /\ sku \in [price : Nat \ {0}, floor : Floors \cup {NoBound},
                ceiling : Ceilings \cup {NoBound}]
    /\ emitted \subseteq SignalTypes
    /\ cycle \in [Cycles -> {NoCycle} \cup
                     [at : {"signal", "price"}, signal : SignalTypes, price : Nat]]
    /\ fresh \subseteq Cycles
    /\ moves \in Nat

\* The engine does not chase its own prices.  RAISE and LOWER aim at different
\* prices, and each repricing may make the other signal true, or leave its own
\* true because a bound stopped it; and a cycle writes what it computed before the
\* others wrote.  Yet, while the market, the bounds and all but the rules rest, the
\* rules change the price at most twice for each cycle that can be under way, in
\* whatever cycles the dedup keys expire: twice when cycles do not overlap.  A cycle
\* that read before the rest may still write once, and then the count starts anew.
RepricingSettles == moves <= 2 * Cardinality(Cycles)
=============================================================================
