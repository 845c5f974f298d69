------------------------------ MODULE Decimals ------------------------------
(***************************************************************************)
(* The scaled decimals of internal/norm/decimal.go and of                  *)
(* internal/emit/decimals.go: an int64 and the power of ten it is counted  *)
(* in.  The word holds -MaxInt - 1 .. MaxInt and wraps, as Go's does.      *)
(*                                                                         *)
(* A float64 is a whole number of Parts-ths of the unit it is scaled to    *)
(* (of a hundredth, for a price), so that it rounds and overflows.  What a *)
(* conversion of a float outside the word yields is left to the platform   *)
(* (the smallest integer on amd64, the largest on arm64): Overflowed.      *)
(* Nil is a field that is null or absent, Failed an error in place of a    *)
(* record.                                                                 *)
(***************************************************************************)
EXTENDS Choosing

CONSTANTS Nil, Failed, MaxInt, Parts, Overflowed,
          PercentScale, MaxScale,  \* DefaultScaledDecimalConfig: 6 and 9
          DayTicks                 \* one day of time

ASSUME WordAssumption == MaxInt \in Nat \ {0}
ASSUME PartsAssumption == Parts \in Nat \ {0}
ASSUME OverflowAssumption == Overflowed \in {-MaxInt - 1, MaxInt}
ASSUME ScalesAssumption == PercentScale \in Nat /\ MaxScale \in Nat
ASSUME DayAssumption == DayTicks \in Nat \ {0}

ScaledDecimals == [scaled : Int, scale : Int]
Refused == [scaled |-> 0, scale |-> -1]     \* an error instead of a decimal

InWord(x) == -MaxInt - 1 <= x /\ x <= MaxInt
Wrap(x) == ((x + MaxInt + 1) % (2 * MaxInt + 2)) - MaxInt - 1

(* Go's / and % for a positive divisor, and math.Round of n / d. *)
Quo(a, b) == IF a >= 0 THEN a \div b ELSE -((-a) \div b)
Rem(a, b) == a - b * Quo(a, b)
Round(n, d) ==
  IF n >= 0 THEN (2 * n + d) \div (2 * d) ELSE -((2 * (-n) + d) \div (2 * d))

-----------------------------------------------------------------------------
(* internal/norm/decimal.go *)

YenHasNoCents(currency) == IF currency = "JPY" THEN 0 ELSE 2   \* fault: ISO minor units
GetScaleForCurrency(currency) == 2

TruncatedPrice(price, currency) ==          \* fault: int64(price * multiplier)
  [scaled |-> price \div Parts, scale |-> GetScaleForCurrency(currency)]
ToScaledDecimal(price, currency) ==
  LET rounded == Round(price, Parts) IN
  [scaled |-> IF InWord(rounded) THEN rounded ELSE Overflowed,
   scale  |-> GetScaleForCurrency(currency)]

ValidScaledDecimal(d) == 0 <= d.scale /\ d.scale <= 8

NoRounding(product, divisor) == Quo(product, divisor)   \* fault: remainder dropped
HalfUpQuo(product, divisor) ==
  IF Rem(product, divisor) >= divisor \div 2
    THEN Quo(product, divisor) + 1 ELSE Quo(product, divisor)

MultiplyAndRound(a, b, targetScale) ==
  LET product == Wrap(a.scaled * b.scaled)
      diff    == a.scale + b.scale - targetScale IN
  IF ~ ValidScaledDecimal(a) \/ ~ ValidScaledDecimal(b)
       \/ ~ ValidScaledDecimal([scaled |-> 0, scale |-> targetScale])
    THEN Refused
    ELSE [scaled |-> IF diff < 0 THEN Wrap(product * Pow10(-diff))
                     ELSE IF diff = 0 THEN product
                     ELSE HalfUpQuo(product, Pow10(diff)),
          scale  |-> targetScale]

(* On big integers, with the division of math/big that rounds down. *)
RoundHalfUp(value, fromScale, toScale) ==
  IF fromScale <= toScale THEN value * Pow10(toScale - fromScale)
  ELSE LET divisor == Pow10(fromScale - toScale) IN
       value \div divisor + (IF value % divisor >= divisor \div 2 THEN 1 ELSE 0)

-----------------------------------------------------------------------------
(* internal/emit/decimals.go *)

ValidScale(scale) == 0 <= scale /\ scale <= MaxScale

MoneyToScaled(v) == IF ValidScale(v.scale) THEN v ELSE Refused

HalfIgnoresSign(n, divisor) == Quo(Wrap(n + divisor \div 2), divisor)  \* fault
NearestQuo(n, divisor) ==
  Quo(Wrap(IF n < 0 THEN n - divisor \div 2 ELSE n + divisor \div 2), divisor)

ConvertScale(v, targetScale) ==
  LET up == Pow10(targetScale - v.scale)  down == Pow10(v.scale - targetScale) IN
  IF v.scale = targetScale THEN v
  ELSE IF targetScale < 0 \/ targetScale > 15 THEN Refused
  ELSE IF targetScale < v.scale
    THEN [scaled |-> NearestQuo(v.scaled, down), scale |-> targetScale]
  ELSE IF v.scaled > MaxInt \div up THEN Refused      \* large negatives are not
    ELSE [scaled |-> Wrap(v.scaled * up), scale |-> targetScale]

PercentToScaled(v) ==
  LET converted == ConvertScale(v, PercentScale) IN
  IF converted # Refused /\ ValidScale(converted.scale) THEN converted ELSE Refused

(* The overflow is looked for after the conversion, on the float, against a *)
(* MaxInt that as a float is MaxInt + 1: that number itself gets through.   *)
FloatToScaled(value, scale) ==
  LET rounded == Round(value, Parts)
      limit   == (MaxInt + 1) * Parts IN
  IF ~ ValidScale(scale) \/ value > limit \/ -value > limit
    THEN Refused
    ELSE [scaled |-> IF InWord(rounded) THEN rounded ELSE Overflowed, scale |-> scale]
=============================================================================
