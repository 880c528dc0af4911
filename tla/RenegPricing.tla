---------------------------- MODULE RenegPricing -----------------------------
(***************************************************************************)
(* The prices of a renegotiation (reneg.ts buildRenegConfig): the band its *)
(* engine runs in, from what the buyer pays now and the trailing usage.    *)
(*                                                                         *)
(* Prices are whole cents, shares are percents; the sums of the code's     *)
(* doubles are taken exactly and rounded half up, as its round2 does.      *)
(***************************************************************************)
EXTENDS Integers

CONSTANTS
  BandCeiling,     \* usage.bandCeiling
  Multiplier,      \* usage.renegAnchorMultiplier, in percent
  CostRate         \* costPerUnit x costPlusMargin, in cents per 100 units

ASSUME UsagePolicyIsNatural ==
  /\ BandCeiling \in Nat \ {0}
  /\ Multiplier \in Nat /\ Multiplier >= 100
  /\ CostRate \in Nat

Larger(a, b)  == IF a >= b THEN a ELSE b
Smaller(a, b) == IF a <= b THEN a ELSE b

\* Quotient, rounded half up (round2 on cents).
Round(n, d) == (2 * n + d) \div (2 * d)

\* What n cycles of this total usage cost on average.
CostFloor(total, n) == Round(total * CostRate, 100 * n)

\* Between a quarter and 85 hundredths of the way from lo to hi.
ClampInside(x, lo, hi) ==
  Smaller(Larger(x, Round(75 * lo + 25 * hi, 100)), Round(15 * lo + 85 * hi, 100))

Band(floor, anchor, desired) ==
  [floor |-> floor, anchor |-> anchor, target |-> ClampInside(desired, floor, anchor)]

\* The current price times the usage ratio, at most times the multiplier.
Overuse(cur, total, n) ==
  IF 100 * total <= Multiplier * BandCeiling * n
    THEN Round(cur * total, BandCeiling * n)
    ELSE Round(cur * Multiplier, 100)

\* Seeded fault: the floor of a raise is the cost alone.
BandUpFromCost(cur, cost, desired) ==
  Band(Larger(cost, 1),
       Larger(Round(cur * Multiplier, 100), Round(125 * cost, 100)), desired)

\* A raise starts from the higher of the current price and the cost.
BandUp(cur, cost, desired) ==
  LET floor == Larger(cur, cost) IN
  Band(floor, Larger(Round(cur * Multiplier, 100), Round(125 * floor, 100)), desired)

\* A goodwill drop opens at the current price and never goes under the cost.
BandDown(cur, cost) ==
  LET floor == Larger(cost, 1) IN
  Band(floor, Larger(cur, Round(125 * floor, 100)), Round(60 * cur, 100))

\* buildRenegConfig
RenegBand(direction, cur, total, n) ==
  IF direction = "up"
    THEN BandUp(cur, CostFloor(total, n), Overuse(cur, total, n))
    ELSE BandDown(cur, CostFloor(total, n))
=============================================================================
