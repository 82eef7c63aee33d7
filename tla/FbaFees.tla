------------------------------ MODULE FbaFees ------------------------------
(***************************************************************************)
(* The Amazon FBA calculator of specter-web/lib/tools/fba.ts: size tiers,  *)
(* fulfilment fees and the advice to cut a dimension.  Lengths are quarter *)
(* inches and a weight is counted in units of 1/8896 pound, in which the   *)
(* dimensional weight (volume / 139 pounds) is the volume itself: the      *)
(* arithmetic is exact.  A fee is counted in 1/8896 cent.                  *)
(***************************************************************************)
EXTENDS Integers, Sequences, FiniteSetsExt

CONSTANTS
    Lengths,    \* the values entered for a dimension, in quarter inches
    Ounces      \* the values entered for the weight

VARIABLE form   \* the fields of the calculator that the advice depends on

Pound  == 8896
Ounce  == 556
Inch   == 4
Cent   == 8896
Fields == {"length_in", "width_in", "height_in"}

ASSUME FormAssumption ==
    /\ Lengths \subseteq Nat
    /\ Ounces \subseteq Nat
    /\ Inch * Inch * Inch * 139 = Pound /\ Pound = 16 * Ounce

Volume(f)   == f.length_in * f.width_in * f.height_in
Weight(f)   == f.weight_oz * Ounce
Billable(f) == Max({Weight(f), Volume(f)})

\* The dimensions of a form from the longest to the shortest.
Sorted(f) ==
    LET dims == {f.length_in, f.width_in, f.height_in}
    IN  <<Max(dims), f.length_in + f.width_in + f.height_in - Max(dims) - Min(dims), Min(dims)>>

SIZE_TIERS ==
    <<"small_standard", "large_standard", "large_bulky", "extra_large_0_50",
      "extra_large_50_70", "extra_large_70_150", "extra_large_150_plus">>

\* The first tier that takes the unit.  A small standard one is judged by its
\* own weight, every other by the billable one.
SizeTier(f) ==
    LET dims  == Sorted(f)
        girth == 2 * (dims[2] + dims[3])
        Within(quarters) == \A k \in 1..3 : dims[k] <= quarters[k]
        lb(n) == Billable(f) <= n * Pound
        takes == <<Within(<<60, 48, 3>>) /\ Weight(f) <= Pound,
                   Within(<<72, 56, 32>>) /\ lb(20),
                   Within(<<236, 132, 132>>) /\ lb(50) /\ dims[1] + girth <= 130 * Inch,
                   lb(50), lb(70), lb(150), TRUE>>
    IN  SIZE_TIERS[Min({k \in DOMAIN takes : takes[k]})]

\* Steps of a fee table: the cents of the first bound in ounces that takes w,
\* or what lies beyond the last.
Steps(w, bounds, cents, beyond) ==
    LET taking == {k \in DOMAIN bounds : w <= bounds[k] * Ounce}
    IN  IF taking = {} THEN beyond ELSE cents[Min(taking)] * Cent

\* A base fee and a rate in cents for every pound beyond the first ones.
PerPound(w, cents, first, rate) == cents * Cent + Max({0, w - first * Pound}) * rate

\* The fee of a unit of weight w in 1/8896 cent; beyond 3 lb a large standard
\* one pays for every half pound begun.
CalcFulfillmentFee(tier, w) ==
    CASE tier = "small_standard" ->
            Steps(w, <<4, 8, 12>>, <<306, 324, 342>>, 360 * Cent)
      [] tier = "large_standard" ->
            Steps(w, <<4, 8, 12, 16, 24, 32, 40, 48>>,
                  <<368, 390, 406, 456, 519, 546, 583, 608>>,
                  (608 + 16 * (-((3 * Pound - w) \div (Pound \div 2)))) * Cent)
      [] tier = "large_bulky"          -> PerPound(w, 916, 1, 38)
      [] tier = "extra_large_0_50"     -> PerPound(w, 2633, 1, 38)
      [] tier = "extra_large_50_70"    -> PerPound(w, 4012, 51, 75)
      [] tier = "extra_large_70_150"   -> PerPound(w, 5481, 71, 75)
      [] tier = "extra_large_150_plus" -> PerPound(w, 19495, 151, 19)

\* round2 on an amount in 1/8896 cent: cents, half up.
Round2(amount) == (2 * amount + Cent) \div (2 * Cent)

\* calcFbaFees as far as the advice depends on it: the fee shown, in cents.
FulfillmentFee(f) == Round2(CalcFulfillmentFee(SizeTier(f), Billable(f)))
-----------------------------------------------------------------------------
(***************************************************************************)
(* findCheaperTierDimensions.                                              *)
(***************************************************************************)
NextCheaper(tier) ==
    CASE tier = "large_standard"   -> [tier |-> "small_standard", maxL |-> 15 * Inch]
      [] tier = "large_bulky"      -> [tier |-> "large_standard", maxL |-> 18 * Inch]
      [] tier = "extra_large_0_50" -> [tier |-> "large_bulky",    maxL |-> 59 * Inch]

\* Of equal dimensions the first in the order of the form is the longest.
LongestField(f) ==
    CASE f.length_in = Sorted(f)[1] -> "length_in"
      [] f.length_in # Sorted(f)[1] /\ f.width_in = Sorted(f)[1] -> "width_in"
      [] f.length_in # Sorted(f)[1] /\ f.width_in # Sorted(f)[1] -> "height_in"

Suggested(f) == [f EXCEPT ![LongestField(f)] = NextCheaper(SizeTier(f)).maxL]

Saving(f) ==
    Round2(FulfillmentFee(f) * Cent
              - CalcFulfillmentFee(NextCheaper(SizeTier(f)).tier, Billable(Suggested(f))))

\* Fault: the new tier is taken for granted.
AdvisedUnchecked(f) ==
    /\ SizeTier(f) \in {"large_standard", "large_bulky", "extra_large_0_50"}
    /\ Sorted(f)[1] > NextCheaper(SizeTier(f)).maxL
    /\ Saving(f) > 0

Advised(f) ==
    /\ SizeTier(f) \in {"large_standard", "large_bulky", "extra_large_0_50"}
    /\ Sorted(f)[1] > NextCheaper(SizeTier(f)).maxL
    /\ SizeTier(Suggested(f)) = NextCheaper(SizeTier(f)).tier
    /\ Saving(f) > 0
-----------------------------------------------------------------------------
\* The values the page starts with.
FormInit == form = [weight_oz |-> 12, length_in |-> 10 * Inch, width_in |-> 8 * Inch,
                    height_in |-> 4 * Inch]

EnterWeight(oz) == form' = [form EXCEPT !.weight_oz = oz]
EnterDimension(d, l) == form' = [form EXCEPT ![d] = l]

\* The button below the advice.
ApplySuggestion == Advised(form) /\ form' = Suggested(form)

FormNext ==
    \/ \E oz \in Ounces : EnterWeight(oz)
    \/ \E d \in Fields, l \in Lengths : EnterDimension(d, l)
    \/ ApplySuggestion

FormSpec == FormInit /\ [][FormNext]_form
-----------------------------------------------------------------------------
FormTypeOK == form \in [weight_oz : Nat, length_in : Nat, width_in : Nat, height_in : Nat]

\* page.tsx:510-511, "Drops to ... saves ...": once the suggestion is applied,
\* the calculator itself shows the announced tier and a fee that is lower by
\* the announced saving, up to the cent that rounding the two fees may cost.
AdviceHolds ==
    Advised(form) =>
        LET shown == FulfillmentFee(form) - FulfillmentFee(Suggested(form))
        IN  /\ SizeTier(Suggested(form)) = NextCheaper(SizeTier(form)).tier
            /\ shown > 0
            /\ shown - Saving(form) \in -1..1
=============================================================================
