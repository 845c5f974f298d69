---------------------------- MODULE DataPathProofs ----------------------------
(***************************************************************************)
(* Proofs about DataPath: every property the runs check of it holds for    *)
(* every request, answer, configuration, payload size and converter.       *)
(*                                                                         *)
(* The invariant DataInv says that the value held at a stage is a form of  *)
(* the request (DecodedOf, NormalOf, EmittedOf, then the publication or    *)
(* the preview of it): each property then is a fact about those forms,     *)
(* and the lemmas before it are such facts, from the decimals up.          *)
(***************************************************************************)
EXTENDS DataPath, DataLemmas

-----------------------------------------------------------------------------
(* A sum in the word is not wrapped, and nothing a wrap yields leaves it. *)
LEMMA WrapInWord ==
  ASSUME NEW x \in Int
  PROVE  Wrap(x) \in Int /\ (InWord(x) => Wrap(x) = x)
<1>1. MaxInt \in Nat \ {0}
  BY WordAssumption
<1>2. PICK m \in Nat \ {0}, y \in Int : m = 2 * MaxInt + 2 /\ y = x + MaxInt + 1
  BY <1>1
<1>3. y % m \in Int
  BY Division
<1>4. ASSUME InWord(x) PROVE y % m = y
  <2>1. y = m * 0 + y /\ 0 <= y /\ y < m
    BY <1>1, <1>2, <1>4 DEF InWord
  <2> QED BY <2>1, DivisionUnique
<1> QED BY <1>1, <1>2, <1>3, <1>4 DEF Wrap

(* What truncating division leaves. *)
LEMMA QuoIs ==
  ASSUME NEW a \in Int, NEW b \in Nat \ {0}
  PROVE  /\ Quo(a, b) \in Int
         /\ a >= 0 => b * Quo(a, b) <= a /\ a < b * Quo(a, b) + b
         /\ a < 0 => b * Quo(a, b) >= a /\ a > b * Quo(a, b) - b
<1>1. CASE a >= 0
  <2>1. PICK q \in Int, r \in Int : q = a \div b /\ a = b * q + r /\ 0 <= r /\ r < b
    BY Division
  <2> QED BY <1>1, <2>1 DEF Quo
<1>2. CASE a < 0
  <2>1. PICK q \in Int, r \in Int : q = (-a) \div b /\ -a = b * q + r /\ 0 <= r /\ r < b
    <3>1. -a \in Int
      OBVIOUS
    <3> QED BY <3>1, Division
  <2>2. Quo(a, b) = -q
    BY <1>2, <2>1 DEF Quo
  <2>3. b * (-q) = -(b * q) /\ b * q \in Int
    OBVIOUS
  <2> QED BY <1>2, <2>1, <2>2, <2>3
<1> QED BY <1>1, <1>2

(* Rounding is to the nearest. *)
LEMMA RoundIs ==
  ASSUME NEW n \in Int, NEW d \in Nat \ {0}
  PROVE  /\ Round(n, d) \in Int
         /\ 2 * (Round(n, d) * d - n) <= d /\ 2 * (n - Round(n, d) * d) <= d
<1>0. 2 * d \in Nat \ {0} /\ 2 * n + d \in Int /\ 2 * (-n) + d \in Int
  OBVIOUS
<1>1. CASE n >= 0
  <2>1. PICK q \in Int, r \in Int :
          q = (2 * n + d) \div (2 * d) /\ 2 * n + d = (2 * d) * q + r /\ 0 <= r /\ r < 2 * d
    BY <1>0, Division
  <2>2. (2 * d) * q = 2 * (q * d) /\ q * d \in Int
    OBVIOUS
  <2>3. Round(n, d) = q
    BY <1>1, <2>1 DEF Round
  <2> QED BY <1>1, <2>1, <2>2, <2>3
<1>2. CASE n < 0
  <2>1. PICK q \in Int, r \in Int :
          q = (2 * (-n) + d) \div (2 * d) /\ 2 * (-n) + d = (2 * d) * q + r /\ 0 <= r /\ r < 2 * d
    BY <1>0, Division
  <2>2. (2 * d) * q = 2 * (q * d) /\ q * d \in Int /\ (-q) * d = -(q * d)
    OBVIOUS
  <2>3. Round(n, d) = -q
    BY <1>2, <2>1 DEF Round
  <2> QED BY <1>2, <2>1, <2>2, <2>3
<1> QED BY <1>1, <1>2

(* Rounding the larger of two amounts never gives the smaller. *)
LEMMA RoundKeepsOrder ==
  ASSUME NEW a \in Int, NEW b \in Int, NEW d \in Nat \ {0}, a <= b
  PROVE  Round(a, d) <= Round(b, d)
<1>0. /\ 2 * d \in Nat \ {0} /\ 2 * a + d \in Int /\ 2 * b + d \in Int
      /\ 2 * (-a) + d \in Int /\ 2 * (-b) + d \in Int
  OBVIOUS
<1>1. CASE a >= 0
  <2>1. (2 * a + d) \div (2 * d) <= (2 * b + d) \div (2 * d)
    BY <1>0, DivMono
  <2> QED BY <1>1, <2>1 DEF Round
<1>2. CASE b < 0
  <2>1. (2 * (-b) + d) \div (2 * d) <= (2 * (-a) + d) \div (2 * d)
    BY <1>0, DivMono
  <2>2. (2 * (-b) + d) \div (2 * d) \in Int /\ (2 * (-a) + d) \div (2 * d) \in Int
    BY <1>0, Division
  <2> QED BY <1>2, <2>1, <2>2 DEF Round
<1>3. CASE a < 0 /\ b >= 0
  <2>1. 0 <= (2 * (-a) + d) \div (2 * d) /\ 0 <= (2 * b + d) \div (2 * d)
    <3>1. 0 * (2 * d) <= 2 * (-a) + d /\ 0 * (2 * d) <= 2 * b + d
      BY <1>3
    <3> QED BY <3>1, <1>0, DivBound
  <2>2. (2 * b + d) \div (2 * d) \in Int /\ (2 * (-a) + d) \div (2 * d) \in Int
    BY <1>0, Division
  <2> QED BY <1>3, <2>1, <2>2 DEF Round
<1> QED BY <1>1, <1>2, <1>3

(* MultiplyAndRound's own rounding. *)
LEMMA HalfUpIs ==
  ASSUME NEW x \in Int, NEW p \in Nat \ {0}, NEW h \in Nat \ {0}, p = 2 * h
  PROVE  /\ HalfUpQuo(x, p) \in Int
         /\ HalfUpQuo(x, p) * p - x < p /\ x - HalfUpQuo(x, p) * p < p
         /\ x >= 0 => HalfUpQuo(x, p) =
              x \div p + (IF x % p >= p \div 2 THEN 1 ELSE 0)
<1>1. p \div 2 = h
  <2>1. p = 2 * h + 0 /\ 0 <= 0 /\ 0 < 2 /\ 2 \in Nat \ {0}
    OBVIOUS
  <2> QED BY <2>1, DivisionUnique
<1>2. PICK q \in Int : q = Quo(x, p)
  BY QuoIs
<1>3. PICK t \in Int : t = p * q /\ t = q * p /\ (q + 1) * p = t + p
  OBVIOUS
<1>4. Rem(x, p) = x - t
  BY <1>2, <1>3 DEF Rem
<1>5. /\ x >= 0 => t <= x /\ x < t + p
      /\ x < 0 => t >= x /\ x > t - p
  BY <1>2, <1>3, QuoIs
<1>6. HalfUpQuo(x, p) = IF x - t >= h THEN q + 1 ELSE q
  BY <1>1, <1>2, <1>4 DEF HalfUpQuo
<1>7. ASSUME x >= 0 PROVE x \div p = q /\ x % p = x - t
  <2>1. x = p * q + (x - t) /\ 0 <= x - t /\ x - t < p /\ x - t \in Int
    BY <1>3, <1>5, <1>7
  <2> QED BY <2>1, DivisionUnique
<1>8. CASE x - t >= h
  <2>1. HalfUpQuo(x, p) = q + 1
    BY <1>6, <1>8
  <2>2. x >= 0 => HalfUpQuo(x, p) = x \div p + (IF x % p >= p \div 2 THEN 1 ELSE 0)
    BY <1>1, <1>7, <1>8, <2>1
  <2>3. t + p - x < p /\ x - (t + p) < p
    BY <1>5, <1>8
  <2> QED BY <2>1, <2>2, <2>3, <1>3
<1>9. CASE ~ (x - t >= h)
  <2>1. HalfUpQuo(x, p) = q
    BY <1>6, <1>9
  <2>2. x >= 0 => HalfUpQuo(x, p) = x \div p + (IF x % p >= p \div 2 THEN 1 ELSE 0)
    BY <1>1, <1>7, <1>9, <2>1
  <2>3. t - x < p /\ x - t < p
    BY <1>5, <1>9
  <2> QED BY <2>1, <2>2, <2>3, <1>3
<1> QED BY <1>8, <1>9

(* The rounding of convertScale, where the sum with a half stays in the word. *)
LEMMA NearestIs ==
  ASSUME NEW n \in Int, NEW p \in Nat \ {0}, NEW h \in Nat \ {0}, p = 2 * h,
         InWord(Magnitude(n) + p \div 2)
  PROVE  /\ NearestQuo(n, p) \in Int
         /\ 2 * (NearestQuo(n, p) * p - n) <= p /\ 2 * (n - NearestQuo(n, p) * p) <= p
<1>1. p \div 2 = h
  <2>1. p = 2 * h + 0 /\ 0 <= 0 /\ 0 < 2 /\ 2 \in Nat \ {0}
    OBVIOUS
  <2> QED BY <2>1, DivisionUnique
<1>2. PICK m \in Int : m = IF n < 0 THEN n - h ELSE n + h
  <2>1. n - h \in Int /\ n + h \in Int
    OBVIOUS
  <2> QED BY <2>1
<1>3. InWord(m)
  <2>1. InWord(Magnitude(n) + h) /\ MaxInt \in Nat
    BY <1>1, WordAssumption
  <2> QED BY <2>1, <1>2 DEF Magnitude, InWord
<1>4. NearestQuo(n, p) = Quo(m, p)
  BY <1>1, <1>2, <1>3, WrapInWord DEF NearestQuo
<1>5. PICK q \in Int : q = Quo(m, p)
  BY QuoIs
<1>6. PICK t \in Int : t = p * q /\ t = q * p
  OBVIOUS
<1>7. /\ m >= 0 => t <= m /\ m < t + p
      /\ m < 0 => t >= m /\ m > t - p
  BY <1>5, <1>6, QuoIs
<1>8. 2 * (t - n) <= p /\ 2 * (n - t) <= p
  BY <1>2, <1>7
<1> QED BY <1>4, <1>5, <1>6, <1>8

-----------------------------------------------------------------------------
(* A product is less than a unit off, and the half-up rounding of the exact
   product where that is not negative. *)
LEMMA MultiplyIsNear ==
  ASSUME NEW a \in ScaledDecimals, NEW b \in ScaledDecimals, NEW scale \in Int,
         MultiplyAndRound(a, b, scale) # Refused,
         NEW exact, exact = a.scaled * b.scaled, InWord(exact),
         NEW diff, diff = a.scale + b.scale - scale, diff >= 0
  PROVE  LET v == MultiplyAndRound(a, b, scale).scaled IN
         /\ Magnitude(v * Pow10(diff) - exact) < Pow10(diff)
         /\ exact >= 0 => v = RoundHalfUp(exact, a.scale + b.scale, scale)
<1>1. exact \in Int /\ diff \in Nat /\ a.scale + b.scale \in Int
  BY DEF ScaledDecimals
<1>2. Wrap(a.scaled * b.scaled) = exact
  BY <1>1, WrapInWord
<1>3. PICK v : v = MultiplyAndRound(a, b, scale).scaled
  OBVIOUS
<1>4. v = IF diff = 0 THEN exact ELSE HalfUpQuo(exact, Pow10(diff))
  BY <1>1, <1>2, <1>3 DEF MultiplyAndRound, Refused
<1>5. PICK p \in Nat \ {0} : p = Pow10(diff)
  BY <1>1, PowersOfTen
<1>6. CASE diff = 0
  <2>1. p = 1 /\ v = exact
    BY <1>1, <1>4, <1>5, <1>6, PowersOfTen
  <2>2. a.scale + b.scale <= scale /\ scale - (a.scale + b.scale) = diff
    BY <1>1, <1>6 DEF ScaledDecimals
  <2>3. RoundHalfUp(exact, a.scale + b.scale, scale) = exact * p
    BY <2>2, <1>5 DEF RoundHalfUp
  <2> QED BY <2>1, <2>3, <1>1, <1>3, <1>5 DEF Magnitude
<1>7. CASE diff # 0
  <2>1. PICK h \in Nat \ {0} : p = 2 * h
    BY <1>1, <1>5, <1>7, PowersOfTen
  <2>2. v = HalfUpQuo(exact, p)
    BY <1>4, <1>5, <1>7
  <2>3. /\ v \in Int /\ v * p - exact < p /\ exact - v * p < p
        /\ exact >= 0 => v = exact \div p + (IF exact % p >= p \div 2 THEN 1 ELSE 0)
    BY <2>1, <2>2, <1>1, HalfUpIs
  <2>4. ~ (a.scale + b.scale <= scale) /\ (a.scale + b.scale) - scale = diff
    BY <1>1, <1>7 DEF ScaledDecimals
  <2>5. RoundHalfUp(exact, a.scale + b.scale, scale) =
          exact \div p + (IF exact % p >= p \div 2 THEN 1 ELSE 0)
    BY <2>4, <1>5 DEF RoundHalfUp
  <2>6. Magnitude(v * p - exact) < p
    <3>1. PICK t \in Int : t = v * p
      BY <2>3
    <3> QED BY <3>1, <2>3, <1>1 DEF Magnitude
  <2> QED BY <2>3, <2>5, <2>6, <1>3, <1>5
<1> QED BY <1>6, <1>7

(* A percentage keeps its amount where its scale is too small, and is at most
   half a unit off where digits are cut. *)
LEMMA PercentIsNear ==
  ASSUME NEW a \in ScaledDecimals, PercentToScaled(a) # Refused,
         NEW diff, diff = a.scale - PercentScale
  PROVE  LET v == PercentToScaled(a).scaled IN
         IF diff <= 0 THEN a.scaled >= 0 => v = a.scaled * Pow10(-diff)
         ELSE InWord(Magnitude(a.scaled) + Pow10(diff) \div 2) =>
                2 * Magnitude(v * Pow10(diff) - a.scaled) <= Pow10(diff)
<1>0. diff \in Int /\ a.scaled \in Int /\ a.scale \in Int /\ PercentScale \in Nat
  BY ScalesAssumption DEF ScaledDecimals
<1>1. PICK v : v = PercentToScaled(a).scaled
  OBVIOUS
<1>2. PercentToScaled(a) = ConvertScale(a, PercentScale) /\ ConvertScale(a, PercentScale) # Refused
  BY DEF PercentToScaled
<1>3. CASE diff = 0
  <2>1. v = a.scaled
    BY <1>0, <1>1, <1>2, <1>3 DEF ConvertScale
  <2>2. Pow10(-diff) = 1
    BY <1>3, PowersOfTen
  <2> QED BY <2>1, <2>2, <1>0, <1>1, <1>3
<1>4. CASE diff < 0
  <2>1. PICK up \in Nat \ {0} : up = Pow10(-diff)
    <3>1. -diff \in Nat
      BY <1>0, <1>4
    <3> QED BY <3>1, PowersOfTen
  <2>2. PercentScale - a.scale = -diff /\ a.scale # PercentScale /\ ~ (PercentScale < a.scale)
    BY <1>0, <1>4
  <2>3. ~ (a.scaled > MaxInt \div up) /\ v = Wrap(a.scaled * up)
    BY <1>1, <1>2, <2>1, <2>2 DEF ConvertScale
  <2>4. ASSUME a.scaled >= 0 PROVE v = a.scaled * up
    <3>0. MaxInt \in Nat \ {0} /\ MaxInt \in Int
      BY WordAssumption
    <3>1. MaxInt \div up \in Int
      BY <3>0, Division
    <3>2. a.scaled * up <= MaxInt
      BY <3>0, <3>1, <2>3, <1>0, DivBound
    <3>3. 0 <= a.scaled * up /\ a.scaled * up \in Int
      BY <2>4, <1>0
    <3>4. InWord(a.scaled * up)
      BY <3>0, <3>2, <3>3 DEF InWord
    <3> QED BY <3>3, <3>4, <2>3, WrapInWord
  <2> QED BY <2>1, <2>4, <1>0, <1>1, <1>4
<1>5. CASE diff > 0
  <2>1. PICK p \in Nat \ {0}, h \in Nat \ {0} : p = Pow10(diff) /\ p = 2 * h
    BY <1>0, <1>5, PowersOfTen
  <2>2. a.scale # PercentScale /\ PercentScale < a.scale
    BY <1>0, <1>5
  <2>3. v = NearestQuo(a.scaled, p)
    BY <1>1, <1>2, <2>1, <2>2 DEF ConvertScale
  <2>4. ASSUME InWord(Magnitude(a.scaled) + p \div 2)
        PROVE  2 * Magnitude(v * p - a.scaled) <= p
    <3>1. v \in Int /\ 2 * (v * p - a.scaled) <= p /\ 2 * (a.scaled - v * p) <= p
      BY <2>1, <2>3, <2>4, <1>0, NearestIs
    <3>2. PICK t \in Int : t = v * p
      BY <3>1
    <3> QED BY <3>1, <3>2, <1>0 DEF Magnitude
  <2>5. ~ (diff <= 0)
    BY <1>0, <1>5
  <2> QED BY <2>1, <2>4, <2>5, <1>1
<1> QED BY <1>0, <1>3, <1>4, <1>5

(* A float is at most half a unit off. *)
LEMMA FloatIsNear ==
  ASSUME NEW a \in Int, NEW scale \in Int, FloatToScaled(a, scale) # Refused,
         InWord(Round(a, Parts))
  PROVE  2 * Magnitude(FloatToScaled(a, scale).scaled * Parts - a) <= Parts
<1>1. PICK v \in Int, p \in Nat \ {0} : v = Round(a, Parts) /\ p = Parts
  BY PartsAssumption, RoundIs
<1>2. FloatToScaled(a, scale).scaled = v
  BY <1>1 DEF FloatToScaled
<1>3. 2 * (v * p - a) <= p /\ 2 * (a - v * p) <= p
  BY <1>1, RoundIs
<1>4. PICK t \in Int : t = v * p
  BY <1>1
<1>5. 2 * Magnitude(t - a) <= p
  BY <1>3, <1>4 DEF Magnitude
<1> QED BY <1>1, <1>2, <1>4, <1>5

(* Money is not rescaled. *)
LEMMA MoneyIsKept ==
  ASSUME NEW a, MoneyToScaled(a) # Refused
  PROVE  MoneyToScaled(a) = a
BY DEF MoneyToScaled

-----------------------------------------------------------------------------
(* ---- Securities ---- *)

(* Every exchange has one of the codes, the empty one included. *)
LEMMA InferredMIC ==
  ASSUME NEW exchange
  PROVE  InferMIC(exchange) \in MICs
<1>1. DOMAIN ExchangeToMIC = {"NMS", "PINK", "TSE", "BATS"}
  BY DEF ExchangeToMIC
<1>2. \A x \in {"NMS", "PINK", "TSE", "BATS"} : ExchangeToMIC[x] \in {"XNAS", "OTC", "XTKS", "BATS"}
  BY DEF ExchangeToMIC
<1> QED BY <1>1, <1>2 DEF InferMIC, MICs

(* Cutting a Tokyo suffix never leaves a symbol empty. *)
LEMMA CleanedSymbol ==
  ASSUME NEW symbol \in Seq(STRING), NEW mic
  PROVE  /\ CleanSymbol(symbol, mic) \in Seq(STRING)
         /\ symbol # <<>> => CleanSymbol(symbol, mic) # <<>>
<1>1. CASE mic = "XTKS" /\ Len(symbol) > 1 /\ Last(symbol) = "T"
  <2>1. CleanSymbol(symbol, mic) = SubSeq(symbol, 1, Len(symbol) - 1)
    BY <1>1 DEF CleanSymbol, Front
  <2>2. PICK n \in Nat : n = Len(symbol) - 1 /\ n > 0 /\ n <= Len(symbol)
    <3>1. Len(symbol) \in Nat
      OBVIOUS
    <3>2. Len(symbol) - 1 \in Nat /\ Len(symbol) - 1 > 0 /\ Len(symbol) - 1 <= Len(symbol)
      BY <1>1, <3>1
    <3> QED BY <3>2
  <2>3. SubSeq(symbol, 1, n) = [i \in 1..n |-> symbol[i]]
    BY <2>2
  <2>4. SubSeq(symbol, 1, n) \in Seq(STRING)
    BY <2>2
  <2>5. 1 \in DOMAIN SubSeq(symbol, 1, n)
    BY <2>2, <2>3
  <2>6. SubSeq(symbol, 1, n) # <<>>
    <3>1. PICK s \in Seq(STRING) : s = SubSeq(symbol, 1, n)
      BY <2>4
    <3>2. DOMAIN s = 1..Len(s) /\ 1 \in DOMAIN s
      BY <3>1, <2>5
    <3>3. s # <<>>
      BY <3>2
    <3> QED BY <3>1, <3>3
  <2> QED BY <2>1, <2>2, <2>4, <2>6
<1>2. CASE ~ (mic = "XTKS" /\ Len(symbol) > 1 /\ Last(symbol) = "T")
  BY <1>2 DEF CleanSymbol
<1> QED BY <1>1, <1>2

(* A security of a symbol that is not empty has one. *)
LEMMA CreatedSecurity ==
  ASSUME NEW symbol \in Seq(STRING), NEW exchange
  PROVE  /\ CreateSecurity(symbol, exchange) \in Securities
         /\ CreateSecurity(symbol, exchange).mic = InferMIC(exchange)
         /\ symbol # <<>> => CreateSecurity(symbol, exchange).symbol # <<>>
<1>1. CreateSecurity(symbol, exchange) =
        [symbol |-> CleanSymbol(symbol, InferMIC(exchange)), mic |-> InferMIC(exchange)]
  BY DEF CreateSecurity
<1> QED BY <1>1, InferredMIC, CleanedSymbol DEF Securities

(* A security is refused for its symbol or for its market only. *)
LEMMA RefusedSecurity ==
  ASSUME NEW security \in Securities, security.symbol # <<>>, security.mic # "OTC"
  PROVE  ValidSecurity(security)
BY DEF Securities, MICs, ValidSecurity, FourLetterMICs

-----------------------------------------------------------------------------
(* ---- Days ---- *)

(* A bar covers one whole UTC day and is dated at its end. *)
LEMMA DayWindow ==
  ASSUME NEW t \in Int
  PROVE  LET window == ToUTCDayBoundaries(t) IN
         /\ window.start \in Int /\ window.end \in Int
         /\ window.end = window.start + DayTicks /\ window.event = window.end
         /\ window.start % DayTicks = 0
<1>1. PICK d \in Nat \ {0} : d = DayTicks
  BY DayAssumption
<1>2. PICK k \in Int : k = t \div d - 2
  BY Division
<1>3. ToUTCDayBoundaries(t) = [start |-> k * d, end |-> (k + 1) * d, event |-> (k + 1) * d]
  BY <1>1, <1>2 DEF ToUTCDayBoundaries
<1>4. (k + 1) * d = k * d + d /\ k * d \in Int
  OBVIOUS
<1>5. (k * d) % d = 0
  <2>1. k * d = d * k + 0 /\ 0 <= 0 /\ 0 < d
    OBVIOUS
  <2> QED BY <1>4, <2>1, DivisionUnique
<1> QED BY <1>1, <1>3, <1>4, <1>5

(* The days of rows a day apart do not overlap. *)
LEMMA DaysApart ==
  ASSUME NEW t \in Int, NEW u \in Int, u >= t + DayTicks
  PROVE  ToUTCDayBoundaries(t).end <= ToUTCDayBoundaries(u).start
<1>1. PICK d \in Nat \ {0} : d = DayTicks
  BY DayAssumption
<1>2. PICK j \in Int, k \in Int : j = t \div d /\ k = u \div d
  BY Division
<1>3. j + 1 <= k
  BY <1>1, <1>2, DivNext
<1>4. ToUTCDayBoundaries(t).end = (j - 1) * d /\ ToUTCDayBoundaries(u).start = (k - 2) * d
  <2>1. (j - 2) + 1 = j - 1
    OBVIOUS
  <2> QED BY <1>1, <1>2, <2>1 DEF ToUTCDayBoundaries
<1>5. (j - 1) * d <= (k - 2) * d
  <2>1. j - 1 <= k - 2
    BY <1>3
  <2> QED BY <2>1
<1> QED BY <1>4, <1>5

-----------------------------------------------------------------------------
(* ---- Prices ---- *)

(* A price becomes hundredths, rounded, where they fit the word. *)
LEMMA ScaledPrice ==
  ASSUME NEW price \in Int, NEW currency
  PROVE  /\ ToScaledDecimal(price, currency) \in ScaledDecimals
         /\ ToScaledDecimal(price, currency).scale = 2
         /\ InWord(Round(price, Parts)) =>
              ToScaledDecimal(price, currency).scaled = Round(price, Parts)
<1>1. Round(price, Parts) \in Int
  BY PartsAssumption, RoundIs
<1>2. Overflowed \in Int
  BY OverflowAssumption, WordAssumption
<1> QED BY <1>1, <1>2 DEF ToScaledDecimal, ScaledDecimals, GetScaleForCurrency

(* A price that is missing stays missing. *)
LEMMA ScaledOrNilType ==
  ASSUME NEW price \in Figures, NEW currency
  PROVE  /\ ScaledOrNil(price, currency) \in ScaledDecimals \cup {Nil}
BY ScaledPrice DEF ScaledOrNil, Figures

(* What is decoded of a chart. *)
LEMMA DecodedChart ==
  ASSUME NEW answer \in BarsResponses, DecodeBarsResponse(answer)
  PROVE  LET chart == answer.charts[1]
             rows == Kept(chart.rows, {row \in ToSet(chart.rows) : Complete(row)})
             bars == GetBars(answer) IN
         /\ chart \in ChartResults /\ chart.symbol # <<>> /\ chart.currency # ""
         /\ rows \in Seq(BarRows) /\ DOMAIN bars = 1..Len(rows)
         /\ bars \in Seq(BarRows) /\ Len(bars) = Len(rows)
         /\ \A i \in 1..Len(rows) :
              /\ bars[i] = [rows[i] EXCEPT !.adjClose =
                              IF chart.hasAdjClose THEN rows[i].adjClose ELSE Nil]
              /\ rows[i] \in BarRows /\ Complete(rows[i]) /\ ValidBarData(rows[i])
<1> DEFINE chart == answer.charts[1]
           rows == Kept(chart.rows, {row \in ToSet(chart.rows) : Complete(row)})
           bars == GetBars(answer)
<1>1. answer.charts \in Seq(ChartResults) /\ answer.charts # <<>>
  BY DEF BarsResponses, DecodeBarsResponse
<1>2. 1 \in DOMAIN answer.charts /\ chart \in ChartResults
  BY <1>1
<1>3. ValidChart(chart)
  BY <1>2 DEF DecodeBarsResponse
<1>4. chart.rows \in Seq(BarRows) /\ chart.symbol # <<>> /\ chart.currency # ""
  BY <1>2, <1>3 DEF ChartResults, ValidChart
<1>5. /\ rows \in Seq(BarRows)
      /\ \E at : Selects(at, rows, chart.rows, Len(chart.rows),
                         {row \in ToSet(chart.rows) : Complete(row)})
  <2> HIDE DEF chart
  <2> QED BY <1>4, KeptSelects
<1>6. bars = [i \in DOMAIN rows |->
                [rows[i] EXCEPT !.adjClose = IF chart.hasAdjClose THEN rows[i].adjClose ELSE Nil]]
  BY DEF GetBars
<1> HIDE DEF chart
<1>7. ASSUME NEW i \in 1..Len(rows)
      PROVE  rows[i] \in BarRows /\ Complete(rows[i]) /\ ValidBarData(rows[i])
  <2>1. rows[i] \in {row \in ToSet(chart.rows) : Complete(row)}
    BY <1>5 DEF Selects
  <2>2. rows[i] \in {chart.rows[k] : k \in DOMAIN chart.rows} /\ Complete(rows[i])
    BY <2>1 DEF ToSet
  <2>3. ValidBarData(rows[i])
    BY <2>2, <1>3 DEF ValidChart
  <2>4. rows[i] \in BarRows
    BY <1>5
  <2> QED BY <2>2, <2>3, <2>4
<1> HIDE DEF rows, bars
<1>8. DOMAIN rows = 1..Len(rows) /\ Len(rows) \in Nat
  BY <1>5
<1>9. ASSUME NEW i \in 1..Len(rows)
      PROVE  [rows[i] EXCEPT !.adjClose =
                IF chart.hasAdjClose THEN rows[i].adjClose ELSE Nil] \in BarRows
  BY <1>7 DEF BarRows, Figures
<1>10. bars \in Seq(BarRows) /\ Len(bars) = Len(rows) /\ DOMAIN bars = 1..Len(rows)
  BY <1>6, <1>8, <1>9
<1> QED BY <1>2, <1>4, <1>5, <1>6, <1>7, <1>8, <1>10 DEF chart, rows, bars

-----------------------------------------------------------------------------
(* ---- Bars ---- *)

(* Emission takes the bar of every complete row as it is, if its currency is
   three capitals, and refuses it otherwise. *)
LEMMA EmittedBar ==
  ASSUME NEW row \in BarRows, Complete(row), NEW currency, NEW adjusted \in BOOLEAN
  PROVE  LET message == EmitBar(NormalizeBar(row, currency, adjusted)) IN
         /\ currency \notin ThreeCapitals => message = Failed
         /\ currency \in ThreeCapitals =>
              /\ message \in BarMessages /\ message # Failed
              /\ message.start = ToUTCDayBoundaries(row.time).start
              /\ message.end = ToUTCDayBoundaries(row.time).end
              /\ message.open = ToScaledDecimal(row.open, currency)
              /\ message.high = ToScaledDecimal(row.high, currency)
              /\ message.low = ToScaledDecimal(row.low, currency)
              /\ message.close = ToScaledDecimal(ClosePrice(row, adjusted), currency)
              /\ message.adjusted = adjusted
<1> DEFINE bar == NormalizeBar(row, currency, adjusted)
           message == EmitBar(bar)
<1>1. /\ row.time \in Int /\ row.open \in Int /\ row.high \in Int /\ row.low \in Int
      /\ row.close \in Int /\ row.volume \in Int /\ row.adjClose \in Figures
  BY DEF BarRows, Figures, Complete
<1>2. ClosePrice(row, adjusted) \in Int
  BY <1>1 DEF ClosePrice, Figures
<1>3. PICK start \in Int, end \in Int, event \in Int :
        /\ ToUTCDayBoundaries(row.time).start = start
        /\ ToUTCDayBoundaries(row.time).end = end
        /\ ToUTCDayBoundaries(row.time).event = event
        /\ end = start + DayTicks /\ event = end
  BY <1>1, DayWindow
<1>4. PICK open \in ScaledDecimals, high \in ScaledDecimals, low \in ScaledDecimals,
           close \in ScaledDecimals :
        /\ open = ToScaledDecimal(row.open, currency) /\ open.scale = 2
        /\ high = ToScaledDecimal(row.high, currency) /\ high.scale = 2
        /\ low = ToScaledDecimal(row.low, currency) /\ low.scale = 2
        /\ close = ToScaledDecimal(ClosePrice(row, adjusted), currency) /\ close.scale = 2
  BY <1>1, <1>2, ScaledPrice
<1>5. PICK policy \in Policies :
        /\ policy = (IF adjusted THEN "split_dividend" ELSE "raw")
        /\ adjusted => policy \in {"split_only", "split_dividend"}
        /\ ~ adjusted => policy = "raw"
  BY DEF Policies
<1>6. bar = [start |-> start, end |-> end, event |-> event, open |-> open, high |-> high,
             low |-> low, close |-> close, volume |-> row.volume, adjusted |-> adjusted,
             policy |-> policy, currency |-> currency]
  BY <1>3, <1>4, <1>5 DEF NormalizeBar
<1>7. /\ bar.start = start /\ bar.end = end /\ bar.event = event /\ bar.open = open
      /\ bar.high = high /\ bar.low = low /\ bar.close = close /\ bar.volume = row.volume
      /\ bar.adjusted = adjusted /\ bar.policy = policy /\ bar.currency = currency
  BY <1>6
<1> HIDE DEF bar
<1>8. ValidTimeWindow(bar) /\ ValidAdjustments(bar)
  BY <1>3, <1>5, <1>7 DEF ValidTimeWindow, ValidAdjustments
<1>9. ValidDecimal(open) /\ ValidDecimal(high) /\ ValidDecimal(low) /\ ValidDecimal(close)
  BY <1>4 DEF ValidDecimal
<1>10. CASE currency \notin ThreeCapitals
  <2>1. message = Failed
    BY <1>7, <1>10 DEF EmitBar, ValidCurrency
  <2> QED BY <1>10, <2>1 DEF bar
<1>11. CASE currency \in ThreeCapitals
  <2>1. message = [start |-> start, end |-> end, open |-> open, high |-> high, low |-> low,
                   close |-> close, volume |-> row.volume, adjusted |-> adjusted,
                   policy |-> policy]
    BY <1>7, <1>8, <1>9, <1>11 DEF EmitBar, ValidCurrency
  <2> HIDE DEF message
  <2>2. message \in BarMessages
    BY <1>1, <2>1 DEF BarMessages
  <2>3. message # Failed
    BY <2>2, FailureAssumption
  <2>4. /\ message.start = start /\ message.end = end /\ message.open = open
        /\ message.high = high /\ message.low = low /\ message.close = close
        /\ message.adjusted = adjusted
    BY <2>1
  <2> QED BY <1>3, <1>4, <1>11, <2>2, <2>3, <2>4 DEF message, bar
<1> QED BY <1>10, <1>11

(* What is emitted of a chart that is decoded. *)
BatchOf(answer) == EmitBarBatch(NormalizeBars(GetBars(answer), GetMetadata(answer)))

(* A batch is refused for its market or its currency only; one that is not has
   the bars of the rows, in order. *)
LEMMA EmittedBatch ==
  ASSUME NEW answer \in BarsResponses, DecodeBarsResponse(answer)
  PROVE  LET chart == answer.charts[1]
             bars == GetBars(answer)
             batch == BatchOf(answer) IN
         /\ batch = Failed =>
              InferMIC(chart.exchange) = "OTC" \/ chart.currency \notin ThreeCapitals
         /\ batch # Failed =>
              /\ batch \in BatchMessages /\ chart.currency \in ThreeCapitals
              /\ DOMAIN batch.bars = 1..Len(bars) /\ Len(batch.bars) = Len(bars)
              /\ \A i \in 1..Len(bars) :
                   batch.bars[i] =
                     EmitBar(NormalizeBar(bars[i], chart.currency, AdjustedBars(bars)))
<1> DEFINE chart == answer.charts[1]
           bars == GetBars(answer)
           rows == Kept(chart.rows, {row \in ToSet(chart.rows) : Complete(row)})
           security == CreateSecurity(chart.symbol, chart.exchange)
           adjusted == AdjustedBars(bars)
           normal == [i \in DOMAIN bars |-> NormalizeBar(bars[i], chart.currency, adjusted)]
           emitted == [i \in DOMAIN bars |-> EmitBar(NormalizeBar(bars[i], chart.currency, adjusted))]
<1>1. /\ chart \in ChartResults /\ chart.symbol # <<>> /\ chart.currency # ""
      /\ bars \in Seq(BarRows) /\ DOMAIN bars = 1..Len(bars) /\ Len(bars) \in Nat
      /\ rows \in Seq(BarRows) /\ Len(bars) = Len(rows)
      /\ \A i \in 1..Len(bars) : bars[i] \in BarRows /\ Complete(bars[i])
  <2>1. /\ chart \in ChartResults /\ chart.symbol # <<>> /\ chart.currency # ""
        /\ rows \in Seq(BarRows) /\ DOMAIN bars = 1..Len(rows)
        /\ bars \in Seq(BarRows) /\ Len(bars) = Len(rows)
        /\ \A i \in 1..Len(rows) :
             /\ bars[i] = [rows[i] EXCEPT !.adjClose =
                             IF chart.hasAdjClose THEN rows[i].adjClose ELSE Nil]
             /\ rows[i] \in BarRows /\ Complete(rows[i]) /\ ValidBarData(rows[i])
    BY DecodedChart
  <2> HIDE DEF chart, bars, rows
  <2>2. ASSUME NEW i \in 1..Len(bars) PROVE bars[i] \in BarRows /\ Complete(bars[i])
    <3>1. bars[i] \in BarRows
      BY <2>1, Elements
    <3>2. PICK row \in BarRows : row = rows[i] /\ Complete(row)
      BY <2>1
    <3>3. bars[i] = [row EXCEPT !.adjClose = IF chart.hasAdjClose THEN row.adjClose ELSE Nil]
      BY <2>1, <3>2
    <3>4. Complete(bars[i])
      BY <3>2, <3>3 DEF Complete, BarRows
    <3> QED BY <3>1, <3>4
  <2>3. Len(bars) \in Nat
    BY <2>1, Elements
  <2>4. DOMAIN bars = 1..Len(bars)
    BY <2>1
  <2> QED BY <2>1, <2>2, <2>3, <2>4
<1>2. bars # <<>>
  <2>1. /\ chart.rows \in Seq(BarRows)
        /\ \E row \in {chart.rows[i] : i \in DOMAIN chart.rows} : Complete(row)
    <3>1. answer.charts \in Seq(ChartResults) /\ answer.charts # <<>> /\ 1 \in DOMAIN answer.charts
      BY DEF BarsResponses, DecodeBarsResponse
    <3>2. ValidChart(chart)
      BY <3>1 DEF DecodeBarsResponse
    <3> QED BY <1>1, <3>2 DEF ValidChart, ChartResults
  <2> HIDE DEF chart, bars
  <2>2. PICK k \in 1..Len(chart.rows) : Complete(chart.rows[k])
    BY <2>1
  <2>3. chart.rows[k] \in {row \in ToSet(chart.rows) : Complete(row)} /\ Len(chart.rows) \in Nat
    BY <2>1, <2>2 DEF ToSet
  <2>4. PICK at : Selects(at, rows, chart.rows, Len(chart.rows),
                          {row \in ToSet(chart.rows) : Complete(row)})
    BY <2>1, KeptSelects
  <2>5. \E i \in 1..Len(rows) : at[i] = k
    BY <2>2, <2>3, <2>4 DEF Selects
  <2>6. 1 \in 1..Len(rows)
    <3>1. Len(rows) \in Nat
      BY <1>1, Elements
    <3> HIDE DEF rows
    <3> QED BY <2>5, <3>1
  <2>7. 1 \in 1..Len(bars)
    BY <1>1, <2>6
  <2> HIDE DEF rows
  <2> QED BY <1>1, <2>7, Elements
<1>3. security \in Securities /\ security.mic = InferMIC(chart.exchange) /\ security.symbol # <<>>
  BY <1>1, CreatedSecurity DEF ChartResults
<1>4. /\ GetMetadata(answer).symbol = chart.symbol /\ GetMetadata(answer).exchange = chart.exchange
      /\ GetMetadata(answer).currency = chart.currency
  BY DEF GetMetadata
<1>5. NormalizeBars(bars, GetMetadata(answer)) = [security |-> security, bars |-> normal]
  <2> HIDE DEF bars
  <2> QED BY <1>2, <1>3, <1>4 DEF NormalizeBars
<1>6. BatchOf(answer) = IF ~ ValidSecurity(security) \/ \E i \in DOMAIN bars : emitted[i] = Failed
                        THEN Failed ELSE [security |-> security, bars |-> emitted]
  <2>1. DOMAIN normal = DOMAIN bars /\ \A i \in DOMAIN bars :
          normal[i] = NormalizeBar(bars[i], chart.currency, adjusted)
    OBVIOUS
  <2>2. [i \in DOMAIN normal |-> EmitBar(normal[i])] = emitted
    BY <2>1
  <2> HIDE DEF normal, emitted, security, bars
  <2>3. EmitBarBatch([security |-> security, bars |-> normal]) =
          IF ~ ValidSecurity(security) \/ \E i \in DOMAIN emitted : emitted[i] = Failed
          THEN Failed ELSE [security |-> security, bars |-> emitted]
    BY <2>2 DEF EmitBarBatch
  <2>4. DOMAIN emitted = DOMAIN bars
    BY DEF emitted
  <2> QED BY <1>5, <2>3, <2>4 DEF BatchOf, bars
<1>7. adjusted \in BOOLEAN
  BY DEF AdjustedBars
<1>8. CASE chart.currency \in ThreeCapitals
  <2>1. ASSUME NEW i \in 1..Len(bars)
        PROVE  emitted[i] \in BarMessages /\ emitted[i] # Failed
    <3> HIDE DEF bars, chart, adjusted
    <3> QED BY <1>1, <1>7, <1>8, EmittedBar
  <2>2. emitted \in Seq(BarMessages) /\ DOMAIN emitted = 1..Len(bars) /\ Len(emitted) = Len(bars)
    <3>1. DOMAIN emitted = 1..Len(bars)
      BY <1>1
    <3>2. emitted = [i \in 1..Len(bars) |-> emitted[i]]
      BY <1>1, <3>1
    <3> HIDE DEF emitted, bars
    <3> QED BY <1>1, <2>1, <3>2, Made
  <2>3. \A i \in 1..Len(bars) : emitted[i] = EmitBar(NormalizeBar(bars[i], chart.currency, adjusted))
    BY <1>1
  <2> HIDE DEF emitted, bars, chart, adjusted, security
  <2>4. ValidSecurity(security) => BatchOf(answer) = [security |-> security, bars |-> emitted]
    BY <1>1, <1>6, <2>1
  <2>5. [security |-> security, bars |-> emitted] \in BatchMessages
    BY <1>3, <2>2 DEF BatchMessages
  <2>6. CASE ValidSecurity(security)
    <3>1. BatchOf(answer) # Failed
      BY <2>4, <2>5, <2>6, FailureAssumption
    <3> QED BY <1>8, <2>2, <2>3, <2>4, <2>5, <2>6, <3>1 DEF chart, bars, adjusted
  <2>7. CASE ~ ValidSecurity(security)
    <3>1. BatchOf(answer) = Failed
      BY <1>6, <2>7
    <3>2. security.mic = "OTC"
      BY <1>3, <2>7, RefusedSecurity
    <3> QED BY <1>3, <3>1, <3>2 DEF chart
  <2> QED BY <2>6, <2>7
<1>9. CASE chart.currency \notin ThreeCapitals
  <2>1. 1 \in DOMAIN bars /\ 1 \in 1..Len(bars)
    <3> HIDE DEF bars
    <3>1. 1 \in 1..Len(bars)
      BY <1>1, <1>2, Elements
    <3> QED BY <1>1, <3>1
  <2>2. emitted[1] = EmitBar(NormalizeBar(bars[1], chart.currency, adjusted))
    BY <2>1
  <2> HIDE DEF emitted, bars, chart, adjusted, security
  <2>3. emitted[1] = Failed
    BY <1>1, <1>7, <1>9, <2>1, <2>2, EmittedBar
  <2>4. BatchOf(answer) = Failed
    BY <1>6, <2>1, <2>3
  <2> QED BY <1>9, <2>4 DEF chart
<1> QED BY <1>8, <1>9

(* The rows that are complete, and whether one keeps its own close. *)
RowsOf(answer) ==
  Kept(answer.charts[1].rows, {row \in ToSet(answer.charts[1].rows) : Complete(row)})
Own(answer, i) == ~ answer.charts[1].hasAdjClose \/ RowsOf(answer)[i].adjClose = Nil

(* The prices of a bar are in order. *)
Ordered(bars, rows, answer, i) ==
  Fits(rows[i]) =>
    /\ bars[i].low.scaled <= bars[i].open.scaled
    /\ bars[i].open.scaled <= bars[i].high.scaled
    /\ Own(answer, i) => /\ bars[i].low.scaled <= bars[i].close.scaled
                         /\ bars[i].close.scaled <= bars[i].high.scaled

(* The bar of a row. *)
LEMMA BarOfRow ==
  ASSUME NEW answer \in BarsResponses, DecodeBarsResponse(answer), BatchOf(answer) # Failed,
         NEW i \in 1..Len(RowsOf(answer))
  PROVE  LET row == RowsOf(answer)[i]
             bar == BatchOf(answer).bars[i] IN
         /\ row \in BarRows /\ Complete(row) /\ ValidBarData(row)
         /\ \E currency \in ThreeCapitals, close \in Int :
              /\ Own(answer, i) => close = row.close
              /\ bar.start = ToUTCDayBoundaries(row.time).start
              /\ bar.end = ToUTCDayBoundaries(row.time).end
              /\ bar.open = ToScaledDecimal(row.open, currency)
              /\ bar.high = ToScaledDecimal(row.high, currency)
              /\ bar.low = ToScaledDecimal(row.low, currency)
              /\ bar.close = ToScaledDecimal(close, currency)
         /\ bar.adjusted = AdjustedBars(GetBars(answer))
<1> DEFINE chart == answer.charts[1]
           bars == GetBars(answer)
           rows == RowsOf(answer)
           row == rows[i]
           adjusted == AdjustedBars(bars)
           bar == BatchOf(answer).bars[i]
<1>1. /\ Len(bars) = Len(rows)
      /\ bars[i] = [row EXCEPT !.adjClose = IF chart.hasAdjClose THEN row.adjClose ELSE Nil]
      /\ row \in BarRows /\ Complete(row) /\ ValidBarData(row)
  BY DecodedChart DEF RowsOf
<1>2. /\ chart.currency \in ThreeCapitals
      /\ bar = EmitBar(NormalizeBar(bars[i], chart.currency, adjusted))
  <2>1. i \in 1..Len(bars)
    BY <1>1
  <2> QED BY <2>1, EmittedBatch
<1>3. adjusted \in BOOLEAN
  BY DEF AdjustedBars
<1> DEFINE b == bars[i]
<1>4. /\ b \in BarRows /\ Complete(b) /\ b.time = row.time /\ b.open = row.open
      /\ b.high = row.high /\ b.low = row.low /\ b.close = row.close
      /\ Own(answer, i) => b.adjClose = Nil
  <2> HIDE DEF bars, rows, row, chart
  <2>1. /\ b \in BarRows /\ b.time = row.time /\ b.open = row.open /\ b.volume = row.volume
        /\ b.high = row.high /\ b.low = row.low /\ b.close = row.close
        /\ b.adjClose = IF chart.hasAdjClose THEN row.adjClose ELSE Nil
    BY <1>1 DEF BarRows, Figures
  <2>2. Complete(b)
    BY <1>1, <2>1 DEF Complete
  <2>3. Own(answer, i) => b.adjClose = Nil
    BY <2>1 DEF Own, chart, row, rows
  <2> QED BY <2>1, <2>2, <2>3
<1>5. ClosePrice(b, adjusted) \in Int /\ (Own(answer, i) => ClosePrice(b, adjusted) = row.close)
  <2>1. b.close \in Int /\ b.adjClose \in Int \cup {Nil}
    BY <1>4 DEF BarRows, Figures, Complete
  <2> QED BY <1>4, <2>1 DEF ClosePrice
<1>6. /\ bar.start = ToUTCDayBoundaries(b.time).start
      /\ bar.end = ToUTCDayBoundaries(b.time).end
      /\ bar.open = ToScaledDecimal(b.open, chart.currency)
      /\ bar.high = ToScaledDecimal(b.high, chart.currency)
      /\ bar.low = ToScaledDecimal(b.low, chart.currency)
      /\ bar.close = ToScaledDecimal(ClosePrice(b, adjusted), chart.currency)
      /\ bar.adjusted = adjusted
  <2> HIDE DEF bar, b, adjusted, chart
  <2>1. bar = EmitBar(NormalizeBar(b, chart.currency, adjusted))
    BY <1>2 DEF b
  <2> QED BY <1>2, <1>3, <1>4, <2>1, EmittedBar
<1> QED BY <1>1, <1>2, <1>4, <1>5, <1>6

(* The shape of a batch, bar by bar. *)
LEMMA BatchKeepsItsShape ==
  ASSUME NEW answer \in BarsResponses, DecodeBarsResponse(answer), BatchOf(answer) # Failed
  PROVE  LET bars == BatchOf(answer).bars
             rows == RowsOf(answer) IN
         /\ Len(bars) = Len(rows)
         /\ \A i \in DOMAIN bars :
              /\ Ordered(bars, rows, answer, i)
              /\ bars[i].start % DayTicks = 0
              /\ bars[i].adjusted <=> \E j \in DOMAIN bars : ~ Own(answer, j)
              /\ \A j \in DOMAIN bars :
                   rows[j].time >= rows[i].time + DayTicks => bars[i].end <= bars[j].start
<1> DEFINE bars == BatchOf(answer).bars
           rows == RowsOf(answer)
           n == Len(rows)
<1>1. Len(GetBars(answer)) = n /\ DOMAIN GetBars(answer) = 1..n
      /\ \A i \in 1..n : GetBars(answer)[i] =
           [rows[i] EXCEPT !.adjClose = IF answer.charts[1].hasAdjClose THEN rows[i].adjClose ELSE Nil]
  BY DecodedChart DEF RowsOf
<1>2. DOMAIN bars = 1..n /\ Len(bars) = n
  BY <1>1, EmittedBatch
<1>3. ASSUME NEW i \in 1..n, Fits(rows[i])
      PROVE  /\ bars[i].low.scaled <= bars[i].open.scaled
             /\ bars[i].open.scaled <= bars[i].high.scaled
             /\ Own(answer, i) => /\ bars[i].low.scaled <= bars[i].close.scaled
                                  /\ bars[i].close.scaled <= bars[i].high.scaled
  <2> DEFINE row == rows[i]  bar == bars[i]
  <2>1. /\ row \in BarRows /\ Complete(row) /\ ValidBarData(row)
    BY BarOfRow
  <2>2. PICK currency \in ThreeCapitals, close \in Int :
          /\ Own(answer, i) => close = row.close
          /\ bar.open = ToScaledDecimal(row.open, currency)
          /\ bar.high = ToScaledDecimal(row.high, currency)
          /\ bar.low = ToScaledDecimal(row.low, currency)
          /\ bar.close = ToScaledDecimal(close, currency)
    BY BarOfRow
  <2>3. PICK d \in Nat \ {0} : d = Parts
    BY PartsAssumption
  <2> HIDE DEF rows, bars
  <2>4. PICK o \in Int, h \in Int, l \in Int, c \in Int :
          /\ o = row.open /\ h = row.high /\ l = row.low /\ c = row.close
          /\ l <= o /\ o <= h /\ l <= c /\ c <= h
    BY <2>1 DEF BarRows, Figures, Complete, ValidBarData
  <2>5. PICK ro \in Int, rh \in Int, rl \in Int, rc \in Int :
          /\ ro = Round(o, Parts) /\ rh = Round(h, Parts) /\ rl = Round(l, Parts)
          /\ rc = Round(c, Parts)
          /\ rl <= ro /\ ro <= rh /\ rl <= rc /\ rc <= rh
    <3>1. /\ Round(o, d) \in Int /\ Round(h, d) \in Int /\ Round(l, d) \in Int /\ Round(c, d) \in Int
      BY RoundIs
    <3>2. /\ Round(l, d) <= Round(o, d) /\ Round(o, d) <= Round(h, d)
          /\ Round(l, d) <= Round(c, d) /\ Round(c, d) <= Round(h, d)
      BY <2>4, RoundKeepsOrder
    <3> QED BY <2>3, <3>1, <3>2
  <2>6. InWord(ro) /\ InWord(rh) /\ InWord(rl) /\ InWord(rc)
    BY <1>3, <2>4, <2>5 DEF Fits
  <2>7. bar.open.scaled = ro /\ bar.high.scaled = rh /\ bar.low.scaled = rl
    <3>1. ASSUME NEW x \in Int, InWord(Round(x, Parts))
          PROVE  ToScaledDecimal(x, currency).scaled = Round(x, Parts)
      BY <3>1, ScaledPrice
    <3> QED BY <2>2, <2>4, <2>5, <2>6, <3>1
  <2>8. Own(answer, i) => bar.close.scaled = rc
    <3>1. SUFFICES ASSUME Own(answer, i) PROVE bar.close.scaled = rc
      OBVIOUS
    <3>2. bar.close = ToScaledDecimal(c, currency)
      BY <2>2, <2>4, <3>1
    <3> QED BY <2>5, <2>6, <3>2, ScaledPrice
  <2> QED BY <2>5, <2>7, <2>8
<1>4. ASSUME NEW i \in 1..n
      PROVE  /\ rows[i].time \in Int
             /\ bars[i].start = ToUTCDayBoundaries(rows[i].time).start
             /\ bars[i].end = ToUTCDayBoundaries(rows[i].time).end
             /\ bars[i].adjusted = AdjustedBars(GetBars(answer))
  <2>1. rows[i] \in BarRows
    BY BarOfRow
  <2>2. rows[i].time \in Int
    BY <2>1 DEF BarRows
  <2> QED BY <2>2, BarOfRow
<1>5. AdjustedBars(GetBars(answer)) <=> \E j \in 1..n : ~ Own(answer, j)
  <2>1. ASSUME NEW j \in 1..n PROVE GetBars(answer)[j].adjClose # Nil <=> ~ Own(answer, j)
    <3>1. rows[j] \in BarRows
      BY BarOfRow
    <3>2. GetBars(answer)[j].adjClose = IF answer.charts[1].hasAdjClose THEN rows[j].adjClose ELSE Nil
      <4> HIDE DEF rows, n
      <4> QED BY <1>1, <3>1 DEF BarRows
    <3> QED BY <3>2 DEF Own
  <2> HIDE DEF n
  <2> QED BY <1>1, <2>1 DEF AdjustedBars
<1>6. ASSUME NEW i \in 1..n PROVE bars[i].start % DayTicks = 0
  BY <1>4, DayWindow
<1>7. ASSUME NEW i \in 1..n, NEW j \in 1..n, rows[j].time >= rows[i].time + DayTicks
      PROVE  bars[i].end <= bars[j].start
  <2> HIDE DEF rows, bars, n
  <2>1. rows[i].time \in Int /\ rows[j].time \in Int
    BY <1>4
  <2>2. ToUTCDayBoundaries(rows[i].time).end <= ToUTCDayBoundaries(rows[j].time).start
    BY <1>7, <2>1, DaysApart
  <2> QED BY <1>4, <2>2
<1> HIDE DEF bars, rows, n
<1>8. ASSUME NEW i \in 1..n PROVE Ordered(bars, rows, answer, i)
  BY <1>3 DEF Ordered
<1>9. ASSUME NEW i \in 1..n
      PROVE  bars[i].adjusted <=> \E j \in 1..n : ~ Own(answer, j)
  BY <1>4, <1>5
<1> QED BY <1>2, <1>6, <1>7, <1>8, <1>9 DEF bars, rows, n

-----------------------------------------------------------------------------
(* ---- Quotes ---- *)

(* A quote made of a chart is one the API could have sent. *)
LEMMA DecodedQuote ==
  ASSUME NEW answer \in BarsResponses, DecodeBarsResponse(answer)
  PROVE  LET quote == ConvertChartToQuote(answer) IN
         /\ quote \in QuoteResults /\ quote.symbol # <<>> /\ quote.currency # ""
         /\ quote.exchange = answer.charts[1].exchange
         /\ quote.currency = answer.charts[1].currency
<1>1. PICK chart \in ChartResults : chart = answer.charts[1] /\ ValidChart(chart)
  <2>1. answer.charts \in Seq(ChartResults) /\ answer.charts # <<>>
    BY DEF BarsResponses, DecodeBarsResponse
  <2>2. 1 \in DOMAIN answer.charts /\ answer.charts[1] \in ChartResults
    BY <2>1, Elements
  <2> QED BY <2>2 DEF DecodeBarsResponse
<1>2. chart.rows \in Seq(BarRows) /\ chart.rows # <<>> /\ chart.symbol # <<>> /\ chart.currency # ""
  BY <1>1 DEF ChartResults, ValidChart
<1>3. PICK last \in BarRows : last = chart.rows[Len(chart.rows)]
  <2>1. Len(chart.rows) \in 1..Len(chart.rows)
    <3>1. Len(chart.rows) \in Nat /\ 1 \in 1..Len(chart.rows)
      BY <1>2, Elements
    <3> QED BY <3>1
  <2> QED BY <1>2, <2>1, Elements
<1>4. ConvertChartToQuote(answer) =
        [symbol |-> chart.symbol, currency |-> chart.currency, exchange |-> chart.exchange,
         price |-> last.close, high |-> last.high, low |-> last.low,
         bid |-> Nil, ask |-> Nil, bidSize |-> Nil, askSize |-> Nil]
  BY <1>1, <1>3 DEF ConvertChartToQuote
<1>5. chart.symbol \in Seq(STRING) /\ chart.currency \in STRING /\ chart.exchange \in STRING
      /\ last.close \in Figures /\ last.high \in Figures /\ last.low \in Figures /\ Nil \in Figures
  BY DEF ChartResults, BarRows, Figures
<1> DEFINE quote == [symbol |-> chart.symbol, currency |-> chart.currency,
                     exchange |-> chart.exchange, price |-> last.close, high |-> last.high,
                     low |-> last.low, bid |-> Nil, ask |-> Nil, bidSize |-> Nil, askSize |-> Nil]
<1>6. quote \in QuoteResults
  BY <1>5 DEF QuoteResults
<1>7. quote.symbol = chart.symbol /\ quote.currency = chart.currency /\ quote.exchange = chart.exchange
  OBVIOUS
<1> HIDE DEF quote
<1>8. ConvertChartToQuote(answer) = quote
  BY <1>4 DEF quote
<1> QED BY <1>1, <1>2, <1>6, <1>7, <1>8

(* A missing size is emitted as zero. *)
LEMMA SizeIsANumber ==
  ASSUME NEW size \in Figures
  PROVE  GetInt64Value(size) \in Int
BY DEF GetInt64Value, Figures

(* A quote is refused for its market or its currency only. *)
LEMMA EmittedQuote ==
  ASSUME NEW quote \in QuoteResults, quote.symbol # <<>>, quote.currency # ""
  PROVE  LET message == EmitQuote(NormalizeQuote(quote)) IN
         /\ message = Failed => InferMIC(quote.exchange) = "OTC" \/ quote.currency \notin ThreeCapitals
         /\ message # Failed => message \in QuoteMessages
<1> DEFINE security == CreateSecurity(quote.symbol, quote.exchange)
           prices == [field \in QuotePrices |-> ScaledOrNil(quote[field], quote.currency)]
<1>1. /\ quote.symbol \in Seq(STRING) /\ quote.exchange \in STRING
      /\ quote["bid"] \in Figures /\ quote["ask"] \in Figures
      /\ quote.bidSize \in Figures /\ quote.askSize \in Figures
  BY DEF QuoteResults
<1>2. security \in Securities /\ security.symbol # <<>> /\ security.mic = InferMIC(quote.exchange)
  BY <1>1, CreatedSecurity
<1>3. prices["bid"] \in ScaledDecimals \cup {Nil} /\ prices["ask"] \in ScaledDecimals \cup {Nil}
  <2>1. "bid" \in QuotePrices /\ "ask" \in QuotePrices
    BY DEF QuotePrices
  <2> QED BY <1>1, <2>1, ScaledOrNilType
<1>4. GetInt64Value(quote.bidSize) \in Int /\ GetInt64Value(quote.askSize) \in Int
  BY <1>1, SizeIsANumber
<1>5. Venue(quote.exchange) \in STRING \cup MICs
  BY <1>1, InferredMIC DEF Venue
<1> HIDE DEF security, prices
<1> DEFINE normal == NormalizeQuote(quote)
<1>6. normal =
        [security |-> security, currency |-> quote.currency, venue |-> Venue(quote.exchange),
         bidSize |-> quote.bidSize, askSize |-> quote.askSize, prices |-> prices]
  BY DEF NormalizeQuote, security, prices
<1> HIDE DEF normal
<1>61. /\ normal.security = security /\ normal.currency = quote.currency
       /\ normal.venue = Venue(quote.exchange) /\ normal.prices = prices
       /\ normal.bidSize = quote.bidSize /\ normal.askSize = quote.askSize
  BY <1>6
<1>7. CASE ValidSecurity(security) /\ ValidCurrency(quote.currency)
  <2>1. EmitQuote(normal) =
          [security |-> security, venue |-> Venue(quote.exchange),
           bid |-> prices["bid"], bidSize |-> GetInt64Value(quote.bidSize),
           ask |-> prices["ask"], askSize |-> GetInt64Value(quote.askSize)]
    BY <1>61, <1>7 DEF EmitQuote
  <2>2. EmitQuote(normal) \in QuoteMessages
    <3>1. PICK v \in STRING \cup MICs, b \in ScaledDecimals \cup {Nil},
                 a \in ScaledDecimals \cup {Nil}, bs \in Int, as \in Int :
            /\ v = Venue(quote.exchange) /\ b = prices["bid"] /\ a = prices["ask"]
            /\ bs = GetInt64Value(quote.bidSize) /\ as = GetInt64Value(quote.askSize)
      BY <1>3, <1>4, <1>5
    <3>2. [security |-> security, venue |-> v, bid |-> b, bidSize |-> bs, ask |-> a,
           askSize |-> as] \in QuoteMessages
      BY <1>2, <3>1 DEF QuoteMessages
    <3> QED BY <2>1, <3>1, <3>2
  <2> QED BY <2>2, FailureAssumption DEF normal
<1>8. CASE ~ (ValidSecurity(security) /\ ValidCurrency(quote.currency))
  <2>1. EmitQuote(normal) = Failed
    BY <1>61, <1>8 DEF EmitQuote
  <2>2. security.mic = "OTC" \/ quote.currency \notin ThreeCapitals
    BY <1>2, <1>8, RefusedSecurity DEF ValidCurrency
  <2> QED BY <1>2, <2>1, <2>2 DEF normal
<1> QED BY <1>7, <1>8

-----------------------------------------------------------------------------
(* Fundamentals. *)
AllKeys == AllowedKeys \cup {"total_equity", "operating_cashflow"}
Periods == [start : Int, end : Int]
LineRecords == [key : AllKeys, value : ScaledDecimals, currency : {"USD"}, period : Periods]

(* A line of what a statement says. *)
Says(statement, line) ==
  /\ line.key \in DOMAIN statement.values /\ statement.values[line.key] # Nil
  /\ line.value.scale = 2 /\ line.period.start <= line.period.end
LinesSaid(statement) == {line \in LineRecords : Says(statement, line)}

(* A line keeps its key, and its period does not end before it starts. *)
LEMMA CreatedLine ==
  ASSUME NEW key \in AllKeys, NEW figure \in Int, NEW end \in Int
  PROVE  LET line == CreateFundamentalsLine(key, figure, end) IN
         /\ line \in LineRecords /\ line.key = key /\ line.value.scale = 2
         /\ line.period.start <= line.period.end
<1>1. PICK d \in Nat \ {0}, p \in Nat \ {0} : d = DayTicks /\ p = Parts
  BY DayAssumption, PartsAssumption
<1>2. figure * 100 * Parts \in Int
  BY <1>1
<1>3. PICK v \in ScaledDecimals :
        /\ v = IF key = "eps_basic" THEN [scaled |-> figure, scale |-> 2]
               ELSE ToScaledDecimal(figure * 100 * Parts, "USD")
        /\ v.scale = 2
  <2>1. [scaled |-> figure, scale |-> 2] \in ScaledDecimals
    BY DEF ScaledDecimals
  <2> QED BY <1>2, <2>1, ScaledPrice
<1>4. PICK period \in Periods : period = ConvertDateToPeriod(end) /\ period.start <= period.end
  <2>1. end - Quarter \in Int /\ end - Quarter <= end
    BY <1>1 DEF Quarter
  <2>2. [start |-> end - Quarter, end |-> end] \in Periods
    BY <2>1 DEF Periods
  <2> QED BY <2>1, <2>2 DEF ConvertDateToPeriod
<1>5. CreateFundamentalsLine(key, figure, end) =
        [key |-> key, value |-> v, currency |-> "USD", period |-> period]
  BY <1>3, <1>4 DEF CreateFundamentalsLine
<1> QED BY <1>3, <1>4, <1>5 DEF LineRecords

(* The lines made of a statement say what it says. *)
LEMMA LinesOfStatement ==
  ASSUME NEW keys \in Seq(AllKeys), NEW statement, statement.end \in Int,
         \A i \in 1..Len(keys) : /\ keys[i] \in DOMAIN statement.values
                                 /\ statement.values[keys[i]] \in Figures
  PROVE  LinesOf(statement, keys) \in Seq(LinesSaid(statement))
<1> DEFINE wanted == {key \in ToSet(keys) : statement.values[key] # Nil}
           present == Kept(keys, wanted)
           lines == [i \in DOMAIN present |->
                       CreateFundamentalsLine(present[i], statement.values[present[i]], statement.end)]
<1>1. present \in Seq(AllKeys)
      /\ \E at : Selects(at, present, keys, Len(keys), wanted)
  BY KeptSelects
<1>2. \A i \in 1..Len(present) : present[i] \in wanted
  BY <1>1 DEF Selects
<1>3. \A key \in wanted : key \in AllKeys /\ key \in DOMAIN statement.values
                          /\ statement.values[key] \in Int
  <2>1. DOMAIN keys = 1..Len(keys) /\ \A i \in 1..Len(keys) : keys[i] \in AllKeys
    BY Elements
  <2> QED BY <2>1 DEF ToSet, Figures
<1> HIDE DEF present
<1>4. Len(present) \in Nat /\ DOMAIN present = 1..Len(present)
  BY <1>1, Elements
<1>5. ASSUME NEW i \in 1..Len(present) PROVE lines[i] \in LinesSaid(statement)
  <2>1. PICK key \in wanted : key = present[i]
    BY <1>2
  <2>2. lines[i] = CreateFundamentalsLine(key, statement.values[key], statement.end)
    BY <1>4, <2>1
  <2>3. key \in AllKeys /\ key \in DOMAIN statement.values /\ statement.values[key] \in Int
        /\ statement.values[key] # Nil
    BY <1>3, <2>1
  <2> HIDE DEF lines, wanted
  <2>4. /\ lines[i] \in LineRecords /\ lines[i].key = key /\ lines[i].value.scale = 2
        /\ lines[i].period.start <= lines[i].period.end
    BY <2>2, <2>3, CreatedLine
  <2> QED BY <2>3, <2>4 DEF LinesSaid, Says
<1>6. lines = [i \in 1..Len(present) |-> lines[i]]
  BY <1>4
<1>7. LinesOf(statement, keys) = lines
  BY DEF LinesOf, present
<1> HIDE DEF lines
<1> QED BY <1>4, <1>5, <1>6, <1>7, Made

(* What the statements of an answer say. *)
Said(answer) ==
  {line \in LineRecords :
     \E kind \in StatementKinds : \E i \in DOMAIN Statements(answer, kind) :
       Says(Statements(answer, kind)[i], line)}

(* The statements of an answer that was decoded have figures for the keys of
   their kind. *)
LEMMA StatementsType ==
  ASSUME NEW answer \in FundamentalsResponses, DecodeFundamentalsResponse(answer),
         NEW kind \in StatementKinds
  PROVE  LET statements == Statements(answer, kind) IN
         /\ Len(statements) \in Nat /\ DOMAIN statements = 1..Len(statements)
         /\ \A i \in 1..Len(statements) :
              /\ statements[i].end \in Int
              /\ DOMAIN statements[i].values = KeysOfStatement[kind]
              /\ \A key \in KeysOfStatement[kind] : statements[i].values[key] \in Figures
<1> DEFINE S == [end : Int, values : [KeysOfStatement[kind] -> Figures \cup {Fraction}]]
           statements == Statements(answer, kind)
<1>1. answer.statements[kind] \in Seq(S) \cup {Nil}
  <2>1. /\ answer.statements["income"] \in StatementsOf("income") \cup {Nil}
        /\ answer.statements["balance"] \in StatementsOf("balance") \cup {Nil}
        /\ answer.statements["cashflow"] \in StatementsOf("cashflow") \cup {Nil}
    BY DEF FundamentalsResponses
  <2>2. kind \in {"income", "balance", "cashflow"}
    BY DEF StatementKinds
  <2>3. StatementsOf(kind) = Seq(S)
    BY DEF StatementsOf
  <2> HIDE DEF S
  <2> QED BY <2>1, <2>2, <2>3
<1>2. statements \in Seq(S)
  <2> HIDE DEF S
  <2>1. <<>> \in Seq(S)
    OBVIOUS
  <2> QED BY <1>1, <2>1 DEF Statements
<1>3. Len(statements) \in Nat /\ DOMAIN statements = 1..Len(statements)
      /\ \A i \in 1..Len(statements) : statements[i] \in S
  <2> HIDE DEF S, statements
  <2> QED BY <1>2, Elements
<1>4. ASSUME NEW i \in 1..Len(statements)
      PROVE  /\ statements[i].end \in Int
             /\ DOMAIN statements[i].values = KeysOfStatement[kind]
             /\ \A key \in KeysOfStatement[kind] : statements[i].values[key] \in Figures
  <2>1. PICK statement \in S : statement = statements[i]
    BY <1>3
  <2>2. statement.end \in Int /\ statement.values \in [KeysOfStatement[kind] -> Figures \cup {Fraction}]
    OBVIOUS
  <2>3. \A key \in DOMAIN statement.values : statement.values[key] # Fraction
    <3>1. ~ Fractional(answer)
      BY DEF DecodeFundamentalsResponse
    <3>2. i \in DOMAIN statements
      BY <1>3
    <3> QED BY <2>1, <3>1, <3>2 DEF Fractional
  <2> QED BY <2>1, <2>2, <2>3
<1> QED BY <1>3, <1>4

(* So do the lines made of all the statements of a kind. *)
LEMMA LinesOfKind ==
  ASSUME NEW answer \in FundamentalsResponses, DecodeFundamentalsResponse(answer),
         NEW kind \in StatementKinds, NEW keys \in Seq(AllKeys),
         \A i \in 1..Len(keys) : keys[i] \in KeysOfStatement[kind]
  PROVE  FlattenSeq([i \in DOMAIN Statements(answer, kind) |->
                       LinesOf(Statements(answer, kind)[i], keys)]) \in Seq(Said(answer))
<1> DEFINE statements == Statements(answer, kind)
           lines == [i \in DOMAIN statements |-> LinesOf(statements[i], keys)]
<1>1. /\ Len(statements) \in Nat /\ DOMAIN statements = 1..Len(statements)
      /\ \A i \in 1..Len(statements) :
           /\ statements[i].end \in Int
           /\ DOMAIN statements[i].values = KeysOfStatement[kind]
           /\ \A key \in KeysOfStatement[kind] : statements[i].values[key] \in Figures
  BY StatementsType
<1>2. ASSUME NEW i \in 1..Len(statements)
      PROVE  lines[i] \in Seq(Said(answer))
  <2>1. PICK statement : statement = statements[i]
    OBVIOUS
  <2>2. LinesOf(statement, keys) \in Seq(LinesSaid(statement))
    <3>1. statement.end \in Int
      BY <1>1, <2>1
    <3>2. \A k \in 1..Len(keys) : /\ keys[k] \in DOMAIN statement.values
                                  /\ statement.values[keys[k]] \in Figures
      BY <1>1, <2>1
    <3> QED BY <3>1, <3>2, LinesOfStatement
  <2>3. LinesSaid(statement) \subseteq Said(answer)
    <3>1. i \in DOMAIN statements
      BY <1>1
    <3> QED BY <2>1, <3>1 DEF LinesSaid, Said
  <2>4. lines[i] = LinesOf(statement, keys)
    BY <1>1, <2>1
  <2>5. ASSUME NEW S, NEW T, S \subseteq T, NEW s \in Seq(S) PROVE s \in Seq(T)
    BY <2>5
  <2> QED BY <2>2, <2>3, <2>4, <2>5
<1>3. lines \in Seq(Seq(Said(answer)))
  <2>1. lines = [i \in 1..Len(statements) |-> lines[i]]
    BY <1>1
  <2> HIDE DEF lines, statements
  <2> QED BY <1>1, <1>2, <2>1, Made
<1> HIDE DEF lines
<1>4. FlattenSeq(lines) \in Seq(Said(answer))
  BY <1>3, FlattenType
<1> QED BY <1>4 DEF lines

(* The normalised fundamentals of an answer. *)
FundamentalsOf(answer) ==
  NormalizeFundamentals(FetchFundamentalsQuarterly(answer), answer.symbol)

(* Fundamentals have lines and a symbol, or normalisation failed. *)
LEMMA NormalizedFundamentals ==
  ASSUME NEW answer \in FundamentalsResponses, DecodeFundamentalsResponse(answer)
  PROVE  \/ FundamentalsOf(answer) = Failed
         \/ \E lines \in Seq(Said(answer)) :
              /\ lines # <<>> /\ answer.symbol # <<>>
              /\ FundamentalsOf(answer) =
                   [security |-> [symbol |-> answer.symbol, mic |-> ""], lines |-> lines]
<1> DEFINE of(kind, keys) == FlattenSeq([i \in DOMAIN Statements(answer, kind) |->
                                           LinesOf(Statements(answer, kind)[i], keys)])
           ik == <<"revenue", "net_income", "eps_basic">>
           bk == <<"total_assets", "total_liabilities", "total_equity">>
           ck == <<"net_income", "operating_cashflow">>
           lines == of("income", ik) \o of("balance", bk) \o of("cashflow", ck)
<1>1. /\ ik \in Seq(AllKeys) /\ bk \in Seq(AllKeys) /\ ck \in Seq(AllKeys)
      /\ \A i \in 1..Len(ik) : ik[i] \in KeysOfStatement["income"]
      /\ \A i \in 1..Len(bk) : bk[i] \in KeysOfStatement["balance"]
      /\ \A i \in 1..Len(ck) : ck[i] \in KeysOfStatement["cashflow"]
  BY DEF AllKeys, AllowedKeys, KeysOfStatement
<1>2. "income" \in StatementKinds /\ "balance" \in StatementKinds /\ "cashflow" \in StatementKinds
  BY DEF StatementKinds
<1> HIDE DEF ik, bk, ck
<1>3. /\ of("income", ik) \in Seq(Said(answer)) /\ of("balance", bk) \in Seq(Said(answer))
      /\ of("cashflow", ck) \in Seq(Said(answer))
  BY <1>1, <1>2, LinesOfKind
<1>4. lines \in Seq(Said(answer))
  <2> HIDE DEF of
  <2> QED BY <1>3
<1>5. FetchFundamentalsQuarterly(answer) = [kind \in StatementKinds |-> Statements(answer, kind)]
  BY DEF FetchFundamentalsQuarterly
<1>6. FundamentalsOf(answer) =
        IF answer.symbol = <<>> \/ lines = <<>> THEN Failed
        ELSE [security |-> [symbol |-> answer.symbol, mic |-> ""], lines |-> lines]
  <2> DEFINE f == FetchFundamentalsQuarterly(answer)
  <2>1. f["income"] = Statements(answer, "income") /\ f["balance"] = Statements(answer, "balance")
        /\ f["cashflow"] = Statements(answer, "cashflow")
    BY <1>2, <1>5
  <2> HIDE DEF f
  <2>2. NormalizeFundamentals(f, answer.symbol) =
          IF answer.symbol = <<>> \/ lines = <<>> THEN Failed
          ELSE [security |-> [symbol |-> answer.symbol, mic |-> ""], lines |-> lines]
    BY <2>1 DEF NormalizeFundamentals, NormalizeIncomeStatement, NormalizeBalanceSheet,
                NormalizeCashflowStatement, ik, bk, ck
  <2> QED BY <2>2 DEF FundamentalsOf, f
<1> HIDE DEF lines
<1> QED BY <1>4, <1>6

(* A snapshot is refused only because of a line whose key the whitelist of the
   emission does not have. *)
LEMMA EmittedFundamentals ==
  ASSUME NEW answer \in FundamentalsResponses, DecodeFundamentalsResponse(answer),
         FundamentalsOf(answer) # Failed
  PROVE  LET message == EmitFundamentals(FundamentalsOf(answer)) IN
         /\ message = Failed =>
              \E kind \in {"balance", "cashflow"} :
                \E i \in DOMAIN Statements(answer, kind) :
                  LET values == Statements(answer, kind)[i].values IN
                  \E key \in {"total_equity", "operating_cashflow"} \cap DOMAIN values :
                    values[key] # Nil
         /\ message # Failed => message \in FundamentalsMessages
<1>1. PICK lines \in Seq(Said(answer)) :
        /\ lines # <<>> /\ answer.symbol # <<>>
        /\ FundamentalsOf(answer) =
             [security |-> [symbol |-> answer.symbol, mic |-> ""], lines |-> lines]
  BY NormalizedFundamentals
<1> DEFINE normal == FundamentalsOf(answer)
           security == [symbol |-> answer.symbol, mic |-> ""]
<1>2. normal.security = security /\ normal.lines = lines
  <2>1. normal = [security |-> security, lines |-> lines]
    BY <1>1
  <2> HIDE DEF normal, security
  <2> QED BY <2>1
<1>3. security \in Securities /\ ValidSecurity(security)
  <2>1. answer.symbol \in Seq(STRING)
    BY DEF FundamentalsResponses
  <2>2. security \in Securities
    BY <2>1 DEF Securities, MICs
  <2>3. security.symbol # <<>> /\ security.mic = ""
    BY <1>1
  <2> HIDE DEF security
  <2> QED BY <2>2, <2>3 DEF ValidSecurity
<1>4. Len(lines) \in Nat /\ DOMAIN lines = 1..Len(lines) /\ \A i \in 1..Len(lines) : lines[i] \in Said(answer)
  BY Elements
<1>5. \A line \in Said(answer) :
        /\ line \in LineRecords
        /\ line.key \in AllowedKeys => ValidLine(line) /\ line \in LineMessages
  <2>1. ASSUME NEW line \in Said(answer), line.key \in AllowedKeys
        PROVE  ValidLine(line) /\ line \in LineMessages
    <3>1. line \in LineRecords /\ line.value.scale = 2 /\ line.period.start <= line.period.end
      BY DEF Said, Says
    <3>2. ValidLine(line)
      BY <2>1, <3>1 DEF ValidLine, LineRecords, ValidDecimal, ValidCurrency, ThreeCapitals
    <3>3. line \in LineMessages
      BY <2>1, <3>1 DEF LineRecords, LineMessages, Periods, ThreeCapitals
    <3> QED BY <3>2, <3>3
  <2> QED BY <2>1 DEF Said
<1>6. CASE \A i \in 1..Len(lines) : ValidLine(lines[i])
  <2>1. EmitFundamentals(normal) = [security |-> security, lines |-> [i \in DOMAIN lines |-> lines[i]]]
    <3> HIDE DEF security, normal
    <3> QED BY <1>2, <1>3, <1>4, <1>6 DEF EmitFundamentals, EmitLineItem
  <2>2. \A i \in 1..Len(lines) : lines[i] \in LineMessages
    BY <1>4, <1>5, <1>6 DEF ValidLine
  <2>3. [i \in DOMAIN lines |-> lines[i]] \in Seq(LineMessages)
    BY <1>4, <2>2
  <2>4. EmitFundamentals(normal) \in FundamentalsMessages
    <3> HIDE DEF security
    <3> QED BY <1>3, <2>1, <2>3 DEF FundamentalsMessages
  <2> QED BY <2>4, FailureAssumption
<1>7. CASE \E i \in 1..Len(lines) : ~ ValidLine(lines[i])
  <2>1. EmitFundamentals(normal) = Failed
    <3> HIDE DEF security, normal
    <3> QED BY <1>2, <1>4, <1>7 DEF EmitFundamentals
  <2>2. PICK line \in Said(answer) : ~ ValidLine(line)
    BY <1>4, <1>7
  <2>3. line.key \notin AllowedKeys /\ line.key \in AllKeys
    <3>1. line \in LineRecords
      BY <1>5
    <3>2. line.key \in AllKeys
      BY <3>1 DEF LineRecords
    <3> QED BY <1>5, <2>2, <3>2
  <2>4. line.key \in {"total_equity", "operating_cashflow"}
    BY <2>3 DEF AllKeys
  <2>5. PICK kind \in StatementKinds : \E i \in DOMAIN Statements(answer, kind) :
          Says(Statements(answer, kind)[i], line)
    BY DEF Said
  <2>51. PICK i \in DOMAIN Statements(answer, kind) : Says(Statements(answer, kind)[i], line)
    BY <2>5
  <2>6. PICK values : values = Statements(answer, kind)[i].values
    OBVIOUS
  <2>7. line.key \in DOMAIN values /\ values[line.key] # Nil
    BY <2>51, <2>6 DEF Says
  <2>8. DOMAIN values = KeysOfStatement[kind]
    BY <2>6, StatementsType
  <2>9. kind # "income"
    BY <2>4, <2>7, <2>8 DEF KeysOfStatement
  <2>10. kind \in {"balance", "cashflow"}
    BY <2>9 DEF StatementKinds
  <2> QED BY <2>1, <2>4, <2>6, <2>7, <2>10
<1> QED BY <1>6, <1>7

-----------------------------------------------------------------------------
(* ---- Chunks ---- *)

(* The number of pieces is the quotient rounded up. *)
LEMMA CeilIs ==
  ASSUME NEW size \in Nat, NEW limit \in Nat \ {0}, size > limit
  PROVE  /\ Ceil(size, limit) \in Nat /\ Ceil(size, limit) > 1
         /\ (Ceil(size, limit) - 1) * limit < size /\ size <= Ceil(size, limit) * limit
<1>1. size + limit - 1 \in Int
  OBVIOUS
<1>2. PICK n \in Int, r \in Int :
        /\ n = (size + limit - 1) \div limit
        /\ size + limit - 1 = limit * n + r /\ 0 <= r /\ r < limit
  BY <1>1, Division
<1>3. PICK p \in Int : p = limit * n /\ n * limit = p /\ (n - 1) * limit = p - limit
  <2>1. limit * n \in Int /\ n * limit = limit * n /\ (n - 1) * limit = limit * n - limit
    OBVIOUS
  <2> QED BY <2>1
<1>4. p - limit < size /\ size <= p
  BY <1>2, <1>3
<1>5. n > 1
  <2>1. ASSUME n <= 1 PROVE FALSE
    <3>1. limit * n <= limit * 1
      BY <2>1
    <3> QED BY <1>3, <1>4, <3>1
  <2> QED BY <2>1
<1> QED BY <1>2, <1>3, <1>4, <1>5 DEF Ceil

(* Pieces that are a payload of that size, cut at that limit. *)
Whole(chunks, size, limit, n) ==
  /\ DOMAIN chunks = 1..n /\ Len(chunks) = n
  /\ chunks[1].start = 0 /\ chunks[n].end = size
  /\ \A i \in 1..n :
       /\ i > 1 => chunks[i].start = chunks[i - 1].end
       /\ chunks[i].start < chunks[i].end \/ size = 0
       /\ chunks[i].end - chunks[i].start <= limit

(* The pieces of a payload follow each other from its first byte to its last. *)
LEMMA ChunksAreWhole ==
  ASSUME NEW size \in Nat, NEW limit \in Nat \ {0}
  PROVE  \E n \in Nat \ {0} :
           /\ n = EstimateChunkCount(size, limit) /\ size <= n * limit
           /\ Whole(ChunkPayload(size, limit), size, limit, n)
<1>1. CASE size <= limit
  <2>1. ChunkPayload(size, limit) = << [start |-> 0, end |-> size] >>
    BY <1>1 DEF ChunkPayload
  <2>2. Whole(ChunkPayload(size, limit), size, limit, 1)
    BY <1>1, <2>1 DEF Whole
  <2> QED BY <1>1, <2>2 DEF EstimateChunkCount
<1>2. CASE size > limit
  <2>1. PICK n \in Nat : /\ n = Ceil(size, limit) /\ n > 1
                         /\ (n - 1) * limit < size /\ size <= n * limit
    BY <1>2, CeilIs
  <2> DEFINE chunks == [i \in 1..n |-> [start |-> (i - 1) * limit, end |-> Smaller(i * limit, size)]]
  <2>2. ChunkPayload(size, limit) = chunks
    BY <1>2, <2>1 DEF ChunkPayload
  <2>3. ASSUME NEW i \in 1..n
        PROVE  /\ chunks[i].start = (i - 1) * limit
               /\ i < n => chunks[i].end = i * limit
               /\ i = n => chunks[i].end = size
    <3>1. i < n => i * limit <= (n - 1) * limit
      <4>1. i < n => i <= n - 1
        OBVIOUS
      <4> QED BY <4>1
    <3>2. PICK a \in Int, b \in Int : a = i * limit /\ b = (n - 1) * limit
      <4>1. i * limit \in Int /\ (n - 1) * limit \in Int
        OBVIOUS
      <4> QED BY <4>1
    <3>3. i < n => a <= size
      BY <2>1, <3>1, <3>2
    <3>4. chunks[i].start = (i - 1) * limit /\ chunks[i].end = Smaller(a, size)
      BY <3>2
    <3>5. i < n => Smaller(a, size) = a
      BY <3>3 DEF Smaller
    <3>6. i = n => Smaller(a, size) = size
      BY <2>1, <3>2 DEF Smaller
    <3> QED BY <3>2, <3>4, <3>5, <3>6
  <2>4. DOMAIN chunks = 1..n /\ Len(chunks) = n
    OBVIOUS
  <2> HIDE DEF chunks
  <2>5. chunks[1].start = 0 /\ chunks[n].end = size
    BY <2>1, <2>3
  <2>6. ASSUME NEW i \in 1..n
        PROVE  /\ i > 1 => chunks[i].start = chunks[i - 1].end
               /\ chunks[i].start < chunks[i].end
               /\ chunks[i].end - chunks[i].start <= limit
    <3>1. PICK a \in Int : a = (i - 1) * limit /\ i * limit = a + limit
      <4>1. (i - 1) * limit \in Int /\ i * limit = (i - 1) * limit + limit
        OBVIOUS
      <4> QED BY <4>1
    <3>2. i > 1 => i - 1 \in 1..n /\ i - 1 < n
      OBVIOUS
    <3>3. i > 1 => chunks[i - 1].end = a
      BY <2>3, <3>1, <3>2
    <3>4. chunks[i].start = a
      BY <2>3, <3>1
    <3>5. i < n => chunks[i].end = a + limit
      BY <2>3, <3>1
    <3>6. i = n => chunks[i].end = size /\ a < size /\ size <= a + limit
      BY <2>1, <2>3, <3>1
    <3>7. i < n \/ i = n
      OBVIOUS
    <3> QED BY <3>3, <3>4, <3>5, <3>6, <3>7
  <2>7. Whole(chunks, size, limit, n)
    BY <2>4, <2>5, <2>6 DEF Whole
  <2>8. n = EstimateChunkCount(size, limit)
    BY <1>2, <2>1 DEF EstimateChunkCount
  <2> QED BY <2>1, <2>2, <2>7, <2>8
<1> QED BY <1>1, <1>2

(* The preview's own arithmetic: as many pieces, which add up to the size. *)
LEMMA ChunkSizesAddUp ==
  ASSUME NEW size \in Nat, NEW limit \in Nat \ {0}
  PROVE  LET sizes == GetChunkingInfo(size, limit) IN
         /\ Len(sizes) = EstimateChunkCount(size, limit)
         /\ SumFunction(sizes) = size
         /\ \A i \in DOMAIN sizes : sizes[i] <= limit
<1>1. PICK n \in Nat \ {0} : n = EstimateChunkCount(size, limit) /\ size <= n * limit
  BY ChunksAreWhole
<1>2. PICK q \in Int, r \in Int :
        /\ q = size \div n /\ r = size % n
        /\ size = n * q + r /\ 0 <= r /\ r < n
  BY Division
<1> DEFINE sizes == [i \in 1..n |-> q + (IF i <= r THEN 1 ELSE 0)]
<1>3. GetChunkingInfo(size, limit) = sizes
  BY <1>1, <1>2 DEF GetChunkingInfo
<1>4. SumFunctionOnSet(sizes, 1..n) = size
  <2>1. r \in 0..n
    BY <1>2
  <2> HIDE DEF sizes
  <2>2. SumFunctionOnSet(sizes, 1..n) = n * q + r
    BY <2>1, SumOfEvenParts DEF sizes
  <2> QED BY <1>2, <2>2
<1>5. q <= limit /\ (r > 0 => q + 1 <= limit)
  <2>1. PICK a \in Int, b \in Int : a = n * q /\ b = n * limit /\ n * limit = limit * n
    <3>1. n * q \in Int /\ n * limit \in Int /\ n * limit = limit * n
      OBVIOUS
    <3> QED BY <3>1
  <2>2. a + r <= b
    BY <1>1, <1>2, <2>1
  <2>3. ASSUME q > limit PROVE FALSE
    <3>1. n * q >= n * (limit + 1)
      BY <2>3
    <3>2. n * (limit + 1) = n * limit + n
      OBVIOUS
    <3> QED BY <1>2, <2>1, <2>2, <3>1, <3>2
  <2>4. ASSUME r > 0, q = limit PROVE FALSE
    BY <2>1, <2>2, <2>4
  <2> QED BY <2>3, <2>4
<1>6. \A i \in 1..n : sizes[i] <= limit
  BY <1>2, <1>5
<1>7. Len(sizes) = n /\ DOMAIN sizes = 1..n
  OBVIOUS
<1> HIDE DEF sizes
<1> QED BY <1>1, <1>3, <1>4, <1>6, <1>7 DEF SumFunction

-----------------------------------------------------------------------------
(* Topics. *)
Names == STRING \cup MICs \cup Domains \cup {"v1"}

(* A sequence over a set is one over a larger set. *)
LEMMA Widened ==
  ASSUME NEW S, NEW T, S \subseteq T, NEW s \in Seq(S)
  PROVE  s \in Seq(T)
<1>1. Len(s) \in Nat /\ s = [i \in 1..Len(s) |-> s[i]] /\ \A i \in 1..Len(s) : s[i] \in T
  BY Elements
<1> QED BY <1>1, Made

(* The concatenation of two sequences, and where its elements come from. *)
Joint(s, t) == s \o t
Joins(u, s, t, m, n) ==
  /\ Len(u) = m + n
  /\ \A k \in 1..(m + n) : u[k] = IF k <= m THEN s[k] ELSE t[k - m]

Follows(t, u, r) ==
  /\ Len(t) = Len(r) + 4 /\ t[2] = u[2] /\ t[3] = u[3] /\ t[4] = u[4]
  /\ \A i \in 1..Len(r) : t[i + 4] = r[i]

(* Where the elements of a concatenation come from. *)
LEMMA Joined ==
  ASSUME NEW S, NEW s \in Seq(S), NEW t \in Seq(S)
  PROVE  Joint(s, t) \in Seq(S) /\ Joins(Joint(s, t), s, t, Len(s), Len(t))
BY DEF Joint, Joins

(* The prefix and the three middle parts of a topic. *)
LEMMA JoinedThree ==
  ASSUME NEW S, NEW p \in Seq(S), NEW q \in Seq(S), Len(p) = 1, Len(q) = 3
  PROVE  /\ Joint(p, q) \in Seq(S) /\ Len(Joint(p, q)) = 4
         /\ Joint(p, q)[2] = q[1] /\ Joint(p, q)[3] = q[2] /\ Joint(p, q)[4] = q[3]
<1>1. PICK u \in Seq(S) : u = Joint(p, q) /\ Joins(u, p, q, 1, 3)
  BY Joined
<1>2. Len(u) = 4
  BY <1>1 DEF Joins
<1>3. \A k \in 1..4 : u[k] = IF k <= 1 THEN p[k] ELSE q[k - 1]
  BY <1>1 DEF Joins
<1>4. u[2] = q[2 - 1] /\ u[3] = q[3 - 1] /\ u[4] = q[4 - 1]
  BY <1>3
<1>5. 2 - 1 = 1 /\ 3 - 1 = 2 /\ 4 - 1 = 3
  OBVIOUS
<1> QED BY <1>1, <1>2, <1>4, <1>5

(* Those four parts, and what comes after them. *)
LEMMA JoinedFour ==
  ASSUME NEW S, NEW u \in Seq(S), NEW r \in Seq(S), Len(u) = 4
  PROVE  \E t \in Seq(S) : t = Joint(u, r) /\ Follows(t, u, r)
<1>1. PICK n \in Nat : n = Len(r)
  OBVIOUS
<1>2. PICK t \in Seq(S) : t = Joint(u, r) /\ Joins(t, u, r, 4, n)
  BY <1>1, Joined
<1>3. Len(t) = n + 4 /\ \A k \in 1..(4 + n) : t[k] = IF k <= 4 THEN u[k] ELSE r[k - 4]
  BY <1>2 DEF Joins
<1>4. t[2] = u[2] /\ t[3] = u[3] /\ t[4] = u[4]
  BY <1>3
<1>5. ASSUME NEW i \in 1..n PROVE t[i + 4] = r[i]
  <2>1. i + 4 \in 1..(4 + n) /\ ~ (i + 4 <= 4) /\ (i + 4) - 4 = i
    OBVIOUS
  <2> QED BY <1>3, <2>1
<1>6. Follows(t, u, r)
  BY <1>1, <1>3, <1>4, <1>5 DEF Follows
<1> QED BY <1>2, <1>6

(* A topic of parts. *)
Topic(prefix, env, domain, version, sub) == (prefix \o << env, domain, version >>) \o sub
Lays(topic, env, domain, version, sub) ==
  /\ Len(topic) = Len(sub) + 4
  /\ topic[2] = env /\ topic[3] = domain /\ topic[4] = version
  /\ \A i \in 1..Len(sub) : topic[i + 4] = sub[i]

(* Where the parts of a topic are, if its prefix has no dot. *)
LEMMA TopicOf ==
  ASSUME NEW S, NEW prefix \in Seq(S), Len(prefix) = 1, NEW env \in S, NEW domain \in S,
         NEW version \in S, NEW sub \in Seq(S)
  PROVE  \E topic \in Seq(S) : /\ topic = Topic(prefix, env, domain, version, sub)
                              /\ Lays(topic, env, domain, version, sub)
<1>1. PICK middle \in Seq(S) :
        /\ middle = << env, domain, version >> /\ Len(middle) = 3
        /\ middle[1] = env /\ middle[2] = domain /\ middle[3] = version
  <2>1. /\ << env, domain, version >> \in Seq(S) /\ Len(<< env, domain, version >>) = 3
        /\ << env, domain, version >>[1] = env /\ << env, domain, version >>[2] = domain
        /\ << env, domain, version >>[3] = version
    OBVIOUS
  <2> QED BY <2>1
<1>2. PICK front \in Seq(S) :
        /\ front = Joint(prefix, middle) /\ Len(front) = 4
        /\ front[2] = env /\ front[3] = domain /\ front[4] = version
  <2>1. /\ Joint(prefix, middle) \in Seq(S) /\ Len(Joint(prefix, middle)) = 4
        /\ Joint(prefix, middle)[2] = middle[1] /\ Joint(prefix, middle)[3] = middle[2]
        /\ Joint(prefix, middle)[4] = middle[3]
    BY <1>1, JoinedThree
  <2> QED BY <1>1, <2>1
<1>3. PICK topic \in Seq(S) : topic = Joint(front, sub) /\ Follows(topic, front, sub)
  BY <1>2, JoinedFour
<1>4. Lays(topic, env, domain, version, sub)
  BY <1>2, <1>3 DEF Follows, Lays
<1> QED BY <1>1, <1>2, <1>3, <1>4 DEF Joint, Topic

(* What follows the first four parts is the subtopic. *)
LEMMA TheRest ==
  ASSUME NEW S, NEW topic \in Seq(S), NEW sub \in Seq(S), Len(topic) = Len(sub) + 4,
         \A i \in 1..Len(sub) : topic[i + 4] = sub[i]
  PROVE  SubSeq(topic, 5, Len(topic)) = sub
<1>1. PICK n \in Nat : n = Len(sub)
  OBVIOUS
<1>2. SubSeq(topic, 5, n + 4) = [i \in 1..n |-> topic[i + 4]]
  <2>1. SubSeq(topic, 5, n + 4) = [i \in 1..((n + 4) - 5 + 1) |-> topic[i + 5 - 1]]
    BY DEF SubSeq
  <2>2. (n + 4) - 5 + 1 = n /\ \A i \in 1..n : i + 5 - 1 = i + 4
    OBVIOUS
  <2> QED BY <2>1, <2>2
<1>3. sub = [i \in 1..n |-> sub[i]]
  BY <1>1
<1>4. [i \in 1..n |-> topic[i + 4]] = [i \in 1..n |-> sub[i]]
  BY <1>1
<1> QED BY <1>1, <1>2, <1>3, <1>4

(* (A solver without the empty string is not shown it.) *)
Named(name) == name # ""

(* The checks of ValidateTopic on a topic's parts. *)
LEMMA TopicIsValid ==
  ASSUME NEW topic, Len(topic) >= 4, Named(topic[2]), topic[3] \in Domains, topic[4] = "v1"
  PROVE  ValidTopic(topic)
BY Zenon DEF ValidTopic, Named

(* A topic is valid and says what it was built from. *)
Parses(topic, env, domain, sub) ==
  /\ ValidTopic(topic)
  /\ ParseTopic(topic).env = env /\ ParseTopic(topic).domain = domain
  /\ ParseTopic(topic).subtopic = sub

(* A topic that was built is valid and parses back into what it was built from. *)
LEMMA BuiltTopicParses ==
  ASSUME NEW prefix \in Seq(Names), Len(prefix) = 1, NEW env \in Names, Named(env),
         NEW domain \in {"bars", "ticks", "fundamentals"}, NEW sub \in Seq(Names)
  PROVE  Parses(Topic(prefix, env, domain, "v1", sub), env, domain, sub)
<1>1. domain \in Names /\ domain \in Domains
  BY DEF Names, Domains
<1>2. PICK version \in Names : version = "v1"
  BY DEF Names
<1>3. PICK topic \in Seq(Names) : /\ topic = Topic(prefix, env, domain, version, sub)
                                  /\ Lays(topic, env, domain, version, sub)
  BY <1>1, TopicOf
<1>4. Len(topic) >= 4
  <2>1. PICK n \in Nat : n = Len(sub) /\ Len(topic) = n + 4
    BY <1>3, Elements DEF Lays
  <2> QED BY <2>1
<1>5. topic[2] = env /\ topic[3] = domain /\ topic[4] = version
  BY <1>3 DEF Lays
<1>6. ValidTopic(topic)
  BY <1>1, <1>2, <1>4, <1>5, TopicIsValid
<1>7. SubSeq(topic, 5, Len(topic)) = sub
  BY <1>3, TheRest DEF Lays
<1>8. Topic(prefix, env, domain, "v1", sub) = topic
  BY <1>2, <1>3
<1> QED BY <1>5, <1>6, <1>7, <1>8 DEF Parses, ParseTopic

(* Bars, quotes and fundamentals are published in the same way. *)
LEMMA PublishedIs ==
  ASSUME NEW config, NEW domain, NEW key, NEW size
  PROVE  LET chunks == ChunkPayload(size, config.maxPayload) IN
         Publish(config, domain, key, size) =
           [i \in DOMAIN chunks |-> Message(BuildEnvelope(config, domain, key), chunks[i])]
BY DEF Publish, PublishBars, PublishOther

(* The messages of a publication: whole, in order and of one topic. *)
LEMMA PublishedWhole ==
  ASSUME NEW config \in Configs, NEW size \in Sizes, ValidateConfig(config),
         NEW domain \in {"bars", "ticks", "fundamentals"}, NEW key \in Securities
  PROVE  LET messages == Publish(config, domain, key, size)
             topic(i) == ParseTopic(messages[i].topic) IN
         /\ Len(messages) = EstimateChunkCount(size, config.maxPayload)
         /\ messages[1].topic = BuildTopic(config, domain, key)
         /\ messages[1].payload.start = 0
         /\ messages[Len(messages)].payload.end = size
         /\ \A i \in DOMAIN messages :
              LET payload == messages[i].payload IN
              /\ i > 1 => payload.start = messages[i - 1].payload.end
              /\ payload.start < payload.end \/ size = 0
              /\ payload.end - payload.start <= config.maxPayload
              /\ messages[i].topic = messages[1].topic
              /\ messages[i].partitionKey = messages[1].partitionKey
              /\ Len(config.topicPrefix) = 1 =>
                   /\ ValidTopic(messages[i].topic)
                   /\ topic(i).domain = domain /\ topic(i).env = config.env
                   /\ domain # "fundamentals" =>
                        topic(i).subtopic = messages[i].partitionKey
<1> DEFINE limit == config.maxPayload
           chunks == ChunkPayload(size, limit)
           messages == Publish(config, domain, key, size)
           built == BuildTopic(config, domain, key)
           sub == Subtopic(domain, key)
<1>1. limit \in Nat \ {0} /\ size \in Nat /\ config.env \in STRING /\ Named(config.env)
      /\ config.topicPrefix \in Seq(STRING)
  <2>1. config.maxPayload \in Int /\ MinPayload <= config.maxPayload
    BY ConfigsAssumption DEF ValidateConfig
  <2>2. Named(config.env)
    BY DEF ValidateConfig, Named
  <2>3. limit \in Nat \ {0}
    BY <2>1, PayloadAssumption
  <2>4. config.env \in STRING /\ config.topicPrefix \in Seq(STRING)
    BY ConfigsAssumption
  <2> QED BY <2>2, <2>3, <2>4, SizesAssumption
<1>2. PICK n \in Nat \ {0} : n = EstimateChunkCount(size, limit) /\ Whole(chunks, size, limit, n)
  <2> HIDE DEF limit
  <2> QED BY <1>1, ChunksAreWhole
<1>3. messages = [i \in DOMAIN chunks |-> Message(BuildEnvelope(config, domain, key), chunks[i])]
  BY PublishedIs
<1>4. DOMAIN messages = 1..n /\ Len(messages) = n
      /\ \A i \in 1..n : /\ messages[i].payload = chunks[i]
                         /\ messages[i].topic = built
                         /\ messages[i].partitionKey = PartitionKey(key)
  <2> HIDE DEF chunks, messages, built
  <2>1. DOMAIN chunks = 1..n
    BY <1>2 DEF Whole
  <2>2. DOMAIN messages = 1..n /\ Len(messages) = n
    BY <1>3, <2>1
  <2>3. ASSUME NEW i \in 1..n
        PROVE  messages[i] = [topic |-> built, partitionKey |-> PartitionKey(key), payload |-> chunks[i]]
    BY <1>3, <2>1 DEF Message, BuildEnvelope, built
  <2> QED BY <2>2, <2>3
<1>5. /\ sub \in Seq(Names)
      /\ domain # "fundamentals" => sub = PartitionKey(key)
  <2>1. key.symbol \in Seq(STRING) /\ key.mic \in MICs
    BY DEF Securities
  <2>2. key.symbol \in Seq(Names) /\ key.mic \in Names
    <3>1. STRING \subseteq Names /\ MICs \subseteq Names
      BY DEF Names
    <3> QED BY <2>1, <3>1, Widened
  <2>3. <<key.mic>> \o key.symbol \in Seq(Names)
    BY <2>2
  <2> QED BY <2>2, <2>3 DEF Subtopic, Prefixed, PartitionKey
<1>6. ASSUME Len(config.topicPrefix) = 1
      PROVE  Parses(built, config.env, domain, sub)
  <2>1. STRING \subseteq Names
    BY DEF Names
  <2>2. config.topicPrefix \in Seq(Names) /\ config.env \in Names
    BY <1>1, <2>1, Widened
  <2>3. built = Topic(config.topicPrefix, config.env, domain, "v1", sub)
    BY DEF BuildTopic, Topic
  <2> HIDE DEF built, sub
  <2> QED BY <1>1, <1>5, <1>6, <2>2, <2>3, BuiltTopicParses
<1> HIDE DEF chunks, messages, built, sub, limit
<1>7. ASSUME NEW i \in 1..n
      PROVE  /\ i > 1 => messages[i].payload.start = messages[i - 1].payload.end
             /\ messages[i].payload.start < messages[i].payload.end \/ size = 0
             /\ messages[i].payload.end - messages[i].payload.start <= limit
  <2>1. i > 1 => i - 1 \in 1..n
    OBVIOUS
  <2> QED BY <1>2, <1>4, <2>1 DEF Whole
<1>8. 1 \in 1..n /\ n \in 1..n
  OBVIOUS
<1>9. messages[1].payload.start = 0 /\ messages[n].payload.end = size /\ messages[1].topic = built
  BY <1>2, <1>4, <1>8 DEF Whole
<1>10. ASSUME NEW i \in 1..n
       PROVE  /\ messages[i].topic = messages[1].topic
              /\ messages[i].partitionKey = messages[1].partitionKey
              /\ Len(config.topicPrefix) = 1 =>
                   /\ ValidTopic(messages[i].topic)
                   /\ ParseTopic(messages[i].topic).domain = domain
                   /\ ParseTopic(messages[i].topic).env = config.env
                   /\ domain # "fundamentals" =>
                        ParseTopic(messages[i].topic).subtopic = messages[i].partitionKey
  BY <1>4, <1>5, <1>6, <1>8 DEF Parses
<1> QED BY <1>2, <1>4, <1>7, <1>9, <1>10 DEF messages, built, limit

(* A preview says what the publication of the same payload would be. *)
LEMMA PreviewedTruly ==
  ASSUME NEW config \in Configs, NEW size \in Sizes, ValidateConfig(config),
         NEW domain \in {"bars", "ticks", "fundamentals"}, NEW key \in Securities
  PROVE  LET messages == Publish(config, domain, key, size)
             made == Preview(config, domain, key, size) IN
         /\ made.topic = messages[1].topic
         /\ made.messageCount = Len(messages)
         /\ SumFunction(made.chunkSizes) = size
         /\ \A i \in DOMAIN made.chunkSizes : made.chunkSizes[i] <= config.maxPayload
<1> DEFINE limit == config.maxPayload
           sizes == GetChunkingInfo(size, limit)
           messages == Publish(config, domain, key, size)
           made == Preview(config, domain, key, size)
<1>1. limit \in Nat \ {0} /\ size \in Nat
  <2>1. config.maxPayload \in Int /\ MinPayload <= config.maxPayload
    BY ConfigsAssumption DEF ValidateConfig
  <2> QED BY <2>1, SizesAssumption, PayloadAssumption
<1>2. /\ Len(messages) = EstimateChunkCount(size, config.maxPayload)
      /\ messages[1].topic = BuildTopic(config, domain, key)
  BY PublishedWhole
<1> HIDE DEF limit
<1>3. /\ Len(sizes) = EstimateChunkCount(size, limit) /\ SumFunction(sizes) = size
      /\ \A i \in DOMAIN sizes : sizes[i] <= limit
  BY <1>1, ChunkSizesAddUp
<1> HIDE DEF sizes, messages
<1>4. made = [topic |-> BuildTopic(config, domain, key), partitionKey |-> PartitionKey(key),
              chunkSizes |-> sizes, messageCount |-> Len(sizes)]
  BY DEF Preview, sizes, limit
<1>5. made.topic = BuildTopic(config, domain, key) /\ made.chunkSizes = sizes
      /\ made.messageCount = Len(sizes)
  <2> HIDE DEF made
  <2> QED BY <1>4
<1> HIDE DEF made
<1> QED BY <1>2, <1>3, <1>5 DEF limit, messages, made

-----------------------------------------------------------------------------
(* What a request yields at each stage. *)
DecodedOf(r) ==
  CASE r.kind = "ticker" ->
         IF DecodeQuoteResponse(r.answer) THEN GetQuotes(r.answer)[1] ELSE Failed
    [] r.kind = "fundamentals" -> FetchFundamentalsQuarterly(r.answer)
    [] r.kind = "quote" -> FetchQuote(r.answer)
    [] OTHER -> FetchBars(r.answer)

NormalOf(r) ==
  CASE r.kind \in {"quote", "ticker"} -> NormalizeQuote(DecodedOf(r))
    [] r.kind = "fundamentals" -> NormalizeFundamentals(DecodedOf(r), r.answer.symbol)
    [] r.kind = "market-data"  -> NormalizeMarketData(GetMetadata(r.answer))
    [] r.kind = "company-info" -> NormalizeCompanyInfo(GetMetadata(r.answer))
    [] OTHER -> NormalizeBars(DecodedOf(r), GetMetadata(r.answer))

EmittedOf(r) ==
  CASE r.kind \in {"quote", "ticker"} -> EmitQuote(NormalOf(r))
    [] r.kind = "fundamentals" -> EmitFundamentals(NormalOf(r))
    [] OTHER -> EmitBarBatch(NormalOf(r))

DomainOf(r) ==
  CASE r.kind \in {"quote", "ticker"} -> "ticks"
    [] r.kind = "fundamentals" -> "fundamentals"
    [] OTHER -> "bars"

ComputedOf(r) ==
  CASE r.op = "multiply" -> MultiplyAndRound(r.a, r.b, r.scale)
    [] r.op = "percent" -> PercentToScaled(r.a)
    [] r.op = "money"   -> MoneyToScaled(r.a)
    [] r.op = "float"   -> FloatToScaled(r.a, r.scale)

(* How far a request has got without an error. *)
Fetched == request.kind # "arithmetic" /\ DecodedOf(request) # Failed
Emitted == Fetched /\ NormalOf(request) # Failed /\ request.kind \notin MetaKinds

(* What is held at each stage. *)
DataInv ==
  /\ request \in Requests \cup Operations
  /\ Reached("decoded") => Fetched /\ value = DecodedOf(request)
  /\ Reached("normalized") => Fetched /\ value = NormalOf(request)
  /\ stage = "emitted" => Emitted /\ value = EmittedOf(request)
  /\ Reached("published") =>
       /\ Emitted /\ EmittedOf(request) # Failed
       /\ \E config \in Configs, size \in Sizes :
            /\ "publish" \in NewBus(config)
            /\ value = [config |-> config, size |-> size, key |-> EmittedOf(request).security,
                        made |-> Publish(config, DomainOf(request),
                                         EmittedOf(request).security, size)]
  /\ Reached("previewed") =>
       /\ Emitted /\ EmittedOf(request) # Failed
       /\ \E config \in Configs, size \in Sizes :
            /\ "preview" \in NewBus(config)
            /\ value = [config |-> config, size |-> size, key |-> EmittedOf(request).security,
                        made |-> Preview(config, DomainOf(request),
                                         EmittedOf(request).security, size)]
  /\ stage = "computed" => request.kind = "arithmetic" /\ value = ComputedOf(request)

(* The stages compute those forms. *)
LEMMA TheForms ==
  /\ Decoded = DecodedOf(request)
  /\ value = DecodedOf(request) => Normalized = NormalOf(request)
  /\ Domain = DomainOf(request)
<1>1. Decoded = DecodedOf(request)
  BY DEF Decoded, DecodedOf
<1>2. ASSUME value = DecodedOf(request) PROVE Normalized = NormalOf(request)
  BY <1>2 DEF Normalized, NormalizedBars, NormalOf
<1>3. Domain = DomainOf(request)
  BY DEF Domain, DomainOf
<1> QED BY <1>1, <1>2, <1>3

(* The inductive invariant: whatever the stage, what it holds is the form of the
   request at that stage, and nothing goes past an error (the early returns of
   the clients, of Norm*, of Emit* and of the bus). *)
THEOREM DataInvariant == Spec => []DataInv
<1>1. Init => DataInv
  BY DEF Init, DataInv, Reached
<1>2. DataInv /\ [Next]_vars => DataInv'
  <2> SUFFICES ASSUME DataInv, [Next]_vars PROVE DataInv'
    OBVIOUS
  <2>1. CASE FetchFails
    BY <2>1 DEF FetchFails, Reach, DataInv, Reached
  <2>2. CASE Decode
    <3>1. stage' = "decoded" /\ value' = Decoded /\ request' = request /\ request.kind # "arithmetic"
      BY <2>2 DEF Decode, Reach
    <3>2. value' = DecodedOf(request)
      BY <3>1, TheForms
    <3> QED BY <3>1, <3>2 DEF DataInv, Reached, Fetched
  <2>3. CASE Normalise
    <3>1. /\ stage = "decoded" /\ value # Failed /\ stage' = "normalized" /\ value' = Normalized
          /\ request' = request
      BY <2>3 DEF Normalise, Reach
    <3>2. Fetched /\ value' = NormalOf(request)
      BY <3>1, TheForms DEF DataInv, Reached
    <3> QED BY <3>1, <3>2 DEF DataInv, Reached, Fetched
  <2>4. CASE Convert
    <3>1. stage' = "converted" /\ request' = request
      BY <2>4 DEF Convert, Reach
    <3> QED BY <3>1 DEF DataInv, Reached
  <2>5. CASE EmitMessage
    <3>1. /\ stage = "normalized" /\ value # Failed /\ stage' = "emitted" /\ request' = request
          /\ request.kind \notin MetaKinds
      BY <2>5 DEF EmitMessage, Reach
    <3>2. Fetched /\ value = NormalOf(request)
      BY <3>1 DEF DataInv, Reached
    <3>3. value' = EmittedOf(request)
      BY <2>5, <3>2 DEF EmitMessage, Reach, EmittedOf
    <3> QED BY <3>1, <3>2, <3>3 DEF DataInv, Reached, Emitted, Fetched
  <2>6. CASE PublishMessage
    <3>1. stage = "emitted" /\ value # Failed /\ stage' = "published" /\ request' = request
      BY <2>6 DEF PublishMessage, Hand, Reach
    <3>2. Emitted /\ value = EmittedOf(request) /\ EmittedOf(request) # Failed
      BY <3>1 DEF DataInv
    <3>3. PICK config \in Configs, size \in Sizes :
            value' = IF "publish" \notin NewBus(config) THEN Failed
                     ELSE [config |-> config, size |-> size, key |-> value.security,
                           made |-> Publish(config, Domain, value.security, size)]
      BY <2>6 DEF PublishMessage, Hand, Reach
    <3>4. ASSUME value' # Failed
          PROVE  /\ "publish" \in NewBus(config)
                 /\ value' = [config |-> config, size |-> size, key |-> EmittedOf(request).security,
                              made |-> Publish(config, DomainOf(request),
                                               EmittedOf(request).security, size)]
      BY <3>2, <3>3, <3>4, TheForms
    <3> QED BY <3>1, <3>2, <3>4 DEF DataInv, Reached, Emitted, Fetched
  <2>7. CASE PreviewMessage
    <3>1. stage = "emitted" /\ value # Failed /\ stage' = "previewed" /\ request' = request
      BY <2>7 DEF PreviewMessage, Hand, Reach
    <3>2. Emitted /\ value = EmittedOf(request) /\ EmittedOf(request) # Failed
      BY <3>1 DEF DataInv
    <3>3. PICK config \in Configs, size \in Sizes :
            value' = IF "preview" \notin NewBus(config) THEN Failed
                     ELSE [config |-> config, size |-> size, key |-> value.security,
                           made |-> Preview(config, Domain, value.security, size)]
      BY <2>7 DEF PreviewMessage, Hand, Reach
    <3>4. ASSUME value' # Failed
          PROVE  /\ "preview" \in NewBus(config)
                 /\ value' = [config |-> config, size |-> size, key |-> EmittedOf(request).security,
                              made |-> Preview(config, DomainOf(request),
                                               EmittedOf(request).security, size)]
      BY <3>2, <3>3, <3>4, TheForms
    <3> QED BY <3>1, <3>2, <3>4 DEF DataInv, Reached, Emitted, Fetched
  <2>8. CASE Compute
    <3>1. stage' = "computed" /\ request' = request /\ request.kind = "arithmetic"
      BY <2>8 DEF Compute, Reach
    <3>2. value' = ComputedOf(request)
      BY <2>8 DEF Compute, Reach, ComputedOf
    <3> QED BY <3>1, <3>2 DEF DataInv, Reached
  <2>9. CASE UNCHANGED vars
    BY <2>9 DEF vars, DataInv, Reached, Emitted, Fetched
  <2> QED BY <2>1, <2>2, <2>3, <2>4, <2>5, <2>6, <2>7, <2>8, <2>9 DEF Next
<1> QED BY <1>1, <1>2, PTL DEF Spec

(* The kind of a request says what its answer is. *)
LEMMA Kinds ==
  ASSUME NEW r \in Requests \cup Operations
  PROVE  /\ r.kind = "arithmetic" => r \in Operations
         /\ r.kind # "arithmetic" => r \in Requests
         /\ r.kind = "ticker" => r.answer \in QuoteResponses
         /\ r.kind = "fundamentals" => r.answer \in FundamentalsResponses
         /\ r.kind = "quote" \/ r.kind \in BarKinds \cup MetaKinds => r.answer \in BarsResponses
         /\ r.kind \in BarKinds \cup MetaKinds \cup {"quote", "ticker", "fundamentals", "arithmetic"}
<1>1. CASE r \in Operations
  BY <1>1, OperationsAssumption DEF BarKinds, MetaKinds
<1>2. CASE r \in Requests
  BY <1>2, RequestsAssumption DEF BarKinds, MetaKinds
<1> QED BY <1>1, <1>2

(* The forms, for bars. *)
LEMMA FormsOfBars ==
  ASSUME NEW r \in Requests \cup Operations, r.kind \in BarKinds, DecodedOf(r) # Failed
  PROVE  /\ r.answer \in BarsResponses /\ DecodeBarsResponse(r.answer)
         /\ DecodedOf(r) = GetBars(r.answer)
         /\ NormalOf(r) = NormalizeBars(GetBars(r.answer), GetMetadata(r.answer))
         /\ EmittedOf(r) = BatchOf(r.answer)
         /\ DomainOf(r) = "bars"
<1>1. r.answer \in BarsResponses
  BY Kinds
<1>2. r.kind \notin {"quote", "ticker", "fundamentals", "market-data", "company-info"}
  BY DEF BarKinds
<1>3. DecodedOf(r) = FetchBars(r.answer)
  BY <1>2 DEF DecodedOf
<1>4. DecodeBarsResponse(r.answer) /\ DecodedOf(r) = GetBars(r.answer)
  BY <1>3 DEF FetchBars
<1>5. NormalOf(r) = NormalizeBars(DecodedOf(r), GetMetadata(r.answer))
  BY <1>2 DEF NormalOf
<1>6. EmittedOf(r) = EmitBarBatch(NormalOf(r))
  BY <1>2 DEF EmittedOf
<1>7. DomainOf(r) = "bars"
  BY <1>2 DEF DomainOf
<1> QED BY <1>1, <1>4, <1>5, <1>6, <1>7 DEF BatchOf

(* The forms, for quotes. *)
LEMMA FormsOfQuotes ==
  ASSUME NEW r \in Requests \cup Operations, r.kind \in {"quote", "ticker"}, DecodedOf(r) # Failed
  PROVE  LET source == IF r.kind = "ticker" THEN r.answer.quotes[1] ELSE r.answer.charts[1] IN
         /\ DecodedOf(r) \in QuoteResults /\ DecodedOf(r).symbol # <<>> /\ Named(DecodedOf(r).currency)
         /\ DecodedOf(r).exchange = source.exchange /\ DecodedOf(r).currency = source.currency
         /\ NormalOf(r) = NormalizeQuote(DecodedOf(r))
         /\ EmittedOf(r) = EmitQuote(NormalOf(r))
         /\ DomainOf(r) = "ticks"
<1>1. /\ NormalOf(r) = NormalizeQuote(DecodedOf(r)) /\ EmittedOf(r) = EmitQuote(NormalOf(r))
      /\ DomainOf(r) = "ticks"
  BY DEF NormalOf, EmittedOf, DomainOf
<1>2. CASE r.kind = "quote"
  <2>1. DecodedOf(r) = FetchQuote(r.answer)
    BY <1>2 DEF DecodedOf
  <2>2. DecodeBarsResponse(r.answer) /\ DecodedOf(r) = ConvertChartToQuote(r.answer)
    BY <2>1 DEF FetchQuote
  <2>3. r.answer \in BarsResponses
    BY <1>2, Kinds
  <2>4. /\ DecodedOf(r) \in QuoteResults /\ DecodedOf(r).symbol # <<>>
        /\ Named(DecodedOf(r).currency) /\ DecodedOf(r).exchange = r.answer.charts[1].exchange
        /\ DecodedOf(r).currency = r.answer.charts[1].currency
    BY <2>2, <2>3, DecodedQuote, Zenon DEF Named
  <2> QED BY <1>1, <1>2, <2>4
<1>3. CASE r.kind = "ticker"
  <2>1. DecodedOf(r) = IF DecodeQuoteResponse(r.answer) THEN GetQuotes(r.answer)[1] ELSE Failed
    BY <1>3 DEF DecodedOf
  <2>2. DecodeQuoteResponse(r.answer) /\ DecodedOf(r) = r.answer.quotes[1]
    BY <2>1 DEF GetQuotes
  <2>3. r.answer \in QuoteResponses
    BY <1>3, Kinds
  <2>4. r.answer.quotes \in Seq(QuoteResults) /\ r.answer.quotes # <<>>
    BY <2>2, <2>3 DEF QuoteResponses, DecodeQuoteResponse
  <2>5. 1 \in DOMAIN r.answer.quotes /\ r.answer.quotes[1] \in QuoteResults
    BY <2>4, Elements
  <2>6. ValidQuoteResult(DecodedOf(r))
    BY <2>2, <2>5 DEF DecodeQuoteResponse
  <2>7. DecodedOf(r).symbol # <<>> /\ Named(DecodedOf(r).currency)
    BY <2>6, Zenon DEF ValidQuoteResult, Named
  <2> QED BY <1>1, <1>3, <2>2, <2>5, <2>7
<1> QED BY <1>2, <1>3

(* The forms, for fundamentals. *)
LEMMA FormsOfFundamentals ==
  ASSUME NEW r \in Requests \cup Operations, r.kind = "fundamentals", DecodedOf(r) # Failed
  PROVE  /\ r.answer \in FundamentalsResponses /\ DecodeFundamentalsResponse(r.answer)
         /\ NormalOf(r) = FundamentalsOf(r.answer)
         /\ EmittedOf(r) = EmitFundamentals(FundamentalsOf(r.answer))
         /\ DomainOf(r) = "fundamentals"
<1>1. DecodedOf(r) = FetchFundamentalsQuarterly(r.answer)
  BY DEF DecodedOf
<1>2. NormalOf(r) = NormalizeFundamentals(DecodedOf(r), r.answer.symbol)
  BY DEF NormalOf
<1>3. EmittedOf(r) = EmitFundamentals(NormalOf(r)) /\ DomainOf(r) = "fundamentals"
  BY DEF EmittedOf, DomainOf
<1>4. DecodeFundamentalsResponse(r.answer)
  BY <1>1 DEF FetchFundamentalsQuarterly
<1> QED BY <1>1, <1>2, <1>3, <1>4, Kinds DEF FundamentalsOf

(* A message that was emitted has a security, and its domain is one of three. *)
LEMMA EmittedSecurity ==
  ASSUME DataInv, Emitted, EmittedOf(request) # Failed
  PROVE  EmittedOf(request).security \in Securities
         /\ DomainOf(request) \in {"bars", "ticks", "fundamentals"}
<1>1. /\ request \in Requests \cup Operations /\ DecodedOf(request) # Failed
      /\ NormalOf(request) # Failed
      /\ request.kind \in BarKinds \cup {"quote", "ticker", "fundamentals"}
  <2>1. request \in Requests \cup Operations
    BY DEF DataInv
  <2> QED BY <2>1, Kinds DEF Emitted, Fetched
<1>2. CASE request.kind \in BarKinds
  <2>1. EmittedOf(request) \in BatchMessages
    BY <1>1, <1>2, FormsOfBars, EmittedBatch
  <2> QED BY <1>1, <1>2, <2>1, FormsOfBars DEF BatchMessages
<1>3. CASE request.kind \in {"quote", "ticker"}
  <2>1. PICK quote \in QuoteResults : /\ quote = DecodedOf(request)
                                     /\ quote.symbol # <<>> /\ Named(quote.currency)
    BY <1>1, <1>3, FormsOfQuotes
  <2>2. EmittedOf(request) = EmitQuote(NormalizeQuote(quote)) /\ DomainOf(request) = "ticks"
    BY <1>1, <1>3, <2>1, FormsOfQuotes
  <2>3. EmitQuote(NormalizeQuote(quote)) # Failed
    BY <2>2
  <2>4. EmitQuote(NormalizeQuote(quote)) \in QuoteMessages
    BY <2>1, <2>3, EmittedQuote, Zenon DEF Named
  <2> QED BY <2>2, <2>4 DEF QuoteMessages
<1>4. CASE request.kind = "fundamentals"
  <2>1. EmittedOf(request) \in FundamentalsMessages /\ DomainOf(request) = "fundamentals"
    BY <1>1, <1>4, FormsOfFundamentals, EmittedFundamentals
  <2> QED BY <2>1 DEF FundamentalsMessages
<1> QED BY <1>1, <1>2, <1>3, <1>4

-----------------------------------------------------------------------------
(* Bars keep their shape from the chart to the message, for every chart Yahoo
   may send: ToScaledDecimal, ToUTCDayBoundaries, NormalizeBars and EmitBar. *)
THEOREM TheShapeIsKept == Spec => []BarsKeepTheirShape
<1>1. DataInv => BarsKeepTheirShape
  <2> SUFFICES ASSUME DataInv, Reached("emitted"), request.kind \in BarKinds
               PROVE  LET bars == value.bars
                          adjustable == request.answer.charts[1].hasAdjClose
                          own(i) == ~ adjustable \/ SourceRows[i].adjClose = Nil IN
                      /\ Len(bars) = Len(SourceRows)
                      /\ \A i \in DOMAIN bars :
                           /\ Fits(SourceRows[i]) =>
                                /\ bars[i].low.scaled <= bars[i].open.scaled
                                /\ bars[i].open.scaled <= bars[i].high.scaled
                                /\ own(i) => /\ bars[i].low.scaled <= bars[i].close.scaled
                                             /\ bars[i].close.scaled <= bars[i].high.scaled
                           /\ bars[i].start % DayTicks = 0
                           /\ bars[i].adjusted <=> \E j \in DOMAIN bars : ~ own(j)
                           /\ \A j \in DOMAIN bars :
                                SourceRows[j].time >= SourceRows[i].time + DayTicks =>
                                  bars[i].end <= bars[j].start
    BY DEF BarsKeepTheirShape
  <2>1. /\ request \in Requests \cup Operations /\ DecodedOf(request) # Failed
        /\ value = EmittedOf(request) /\ value # Failed
    BY DEF DataInv, Reached, Emitted, Fetched
  <2>2. /\ request.answer \in BarsResponses /\ DecodeBarsResponse(request.answer)
        /\ value = BatchOf(request.answer)
    BY <2>1, FormsOfBars
  <2>3. SourceRows = RowsOf(request.answer)
    BY DEF SourceRows, RowsOf
  <2> QED BY <2>1, <2>2, <2>3, BatchKeepsItsShape DEF Ordered, Own
<1> QED BY <1>1, DataInvariant, PTL

(* What emission refuses of a normalised record: markets over the counter,
   currencies that are not three capitals, keys that are not on its whitelist. *)
THEOREM RefusalsAreKnown == Spec => []RejectionsAreKnown
<1>1. DataInv => RejectionsAreKnown
  <2> SUFFICES ASSUME DataInv, stage = "emitted", value = Failed PROVE RejectionsAreKnown
    BY DEF RejectionsAreKnown
  <2>1. /\ request \in Requests \cup Operations /\ DecodedOf(request) # Failed
        /\ NormalOf(request) # Failed /\ EmittedOf(request) = Failed
        /\ request.kind \in BarKinds \cup {"quote", "ticker", "fundamentals"}
    <3>1. request \in Requests \cup Operations /\ Emitted /\ EmittedOf(request) = Failed
      BY DEF DataInv
    <3> QED BY <3>1, Kinds DEF Emitted, Fetched
  <2>2. CASE request.kind \in BarKinds
    <3>1. InferMIC(request.answer.charts[1].exchange) = "OTC"
          \/ request.answer.charts[1].currency \notin ThreeCapitals
      BY <2>1, <2>2, FormsOfBars, EmittedBatch
    <3>2. request.kind # "fundamentals" /\ request.kind # "ticker"
      BY <2>2 DEF BarKinds
    <3> QED BY <3>1, <3>2 DEF RejectionsAreKnown
  <2>3. CASE request.kind \in {"quote", "ticker"}
    <3>1. PICK quote \in QuoteResults : /\ quote = DecodedOf(request)
                                       /\ quote.symbol # <<>> /\ Named(quote.currency)
      BY <2>1, <2>3, FormsOfQuotes
    <3>2. EmitQuote(NormalizeQuote(quote)) = Failed
      BY <2>1, <2>3, <3>1, FormsOfQuotes
    <3>3. InferMIC(quote.exchange) = "OTC" \/ quote.currency \notin ThreeCapitals
      BY <3>1, <3>2, EmittedQuote, Zenon DEF Named
    <3> DEFINE source == IF request.kind = "ticker" THEN request.answer.quotes[1]
                         ELSE request.answer.charts[1]
    <3>4. quote.exchange = source.exchange /\ quote.currency = source.currency
      BY <2>1, <2>3, <3>1, FormsOfQuotes
    <3>5. request.kind # "fundamentals"
      BY <2>3
    <3> QED BY <3>3, <3>4, <3>5 DEF RejectionsAreKnown
  <2>4. CASE request.kind = "fundamentals"
    <3>1. \E kind \in {"balance", "cashflow"} :
                \E i \in DOMAIN Statements(request.answer, kind) :
                  LET values == Statements(request.answer, kind)[i].values IN
                  \E key \in {"total_equity", "operating_cashflow"} \cap DOMAIN values :
                    values[key] # Nil
      BY <2>1, <2>4, FormsOfFundamentals, EmittedFundamentals
    <3> QED BY <2>4, <3>1 DEF RejectionsAreKnown
  <2> QED BY <2>1, <2>2, <2>3, <2>4
<1> QED BY <1>1, DataInvariant, PTL

(* A bus that can be asked anything was given a configuration that is valid. *)
LEMMA Accepted ==
  ASSUME NEW config, NEW what \in {"publish", "preview"}, what \in NewBus(config)
  PROVE  ValidateConfig(config)
BY DEF NewBus

(* However a payload is chunked, its messages are the payload, within the limit,
   in order and on one topic (Publish*, ChunkPayload, BuildTopic, ParseTopic). *)
THEOREM ThePublicationIsWhole == Spec => []PublicationIsWhole
<1>1. DataInv => PublicationIsWhole
  <2> SUFFICES ASSUME DataInv, Reached("published") PROVE PublicationIsWhole
    BY DEF PublicationIsWhole
  <2>1. /\ Emitted /\ EmittedOf(request) # Failed
        /\ \E config \in Configs, size \in Sizes :
             /\ "publish" \in NewBus(config)
             /\ value = [config |-> config, size |-> size, key |-> EmittedOf(request).security,
                         made |-> Publish(config, DomainOf(request),
                                          EmittedOf(request).security, size)]
    BY DEF DataInv
  <2>2. PICK config \in Configs, size \in Sizes :
          /\ "publish" \in NewBus(config)
          /\ value = [config |-> config, size |-> size, key |-> EmittedOf(request).security,
                      made |-> Publish(config, DomainOf(request),
                                       EmittedOf(request).security, size)]
    BY <2>1
  <2>3. PICK key \in Securities, domain \in {"bars", "ticks", "fundamentals"} :
          key = EmittedOf(request).security /\ domain = DomainOf(request)
    BY <2>1, EmittedSecurity
  <2>4. PICK messages : messages = Publish(config, domain, key, size)
    OBVIOUS
  <2>5. value.made = messages /\ value.size = size /\ value.config = config /\ Domain = domain
    BY <2>2, <2>3, <2>4, TheForms
  <2>6. ValidateConfig(config)
    BY <2>2, Accepted
  <2>7. /\ messages[1].payload.start = 0
        /\ messages[Len(messages)].payload.end = size
        /\ \A i \in DOMAIN messages :
             LET payload == messages[i].payload
                 topic == ParseTopic(messages[i].topic) IN
             /\ i > 1 => payload.start = messages[i - 1].payload.end
             /\ payload.start < payload.end \/ size = 0
             /\ payload.end - payload.start <= config.maxPayload
             /\ messages[i].topic = messages[1].topic
             /\ messages[i].partitionKey = messages[1].partitionKey
             /\ Len(config.topicPrefix) = 1 =>
                  /\ ValidTopic(messages[i].topic)
                  /\ topic.domain = domain /\ topic.env = config.env
                  /\ domain # "fundamentals" => topic.subtopic = messages[i].partitionKey
    BY <2>4, <2>6, PublishedWhole
  <2> QED BY <2>5, <2>7 DEF PublicationIsWhole
<1> QED BY <1>1, DataInvariant, PTL

(* A preview tells the topic, the count and the sizes of the publication
   (GetChunkingInfo and EstimateChunkCount against ChunkPayload). *)
THEOREM ThePreviewTells == Spec => []PreviewTellsThePublication
<1>1. DataInv => PreviewTellsThePublication
  <2> SUFFICES ASSUME DataInv, Reached("previewed") PROVE PreviewTellsThePublication
    BY DEF PreviewTellsThePublication
  <2>1. /\ Emitted /\ EmittedOf(request) # Failed
        /\ \E config \in Configs, size \in Sizes :
             /\ "preview" \in NewBus(config)
             /\ value = [config |-> config, size |-> size, key |-> EmittedOf(request).security,
                         made |-> Preview(config, DomainOf(request),
                                          EmittedOf(request).security, size)]
    BY DEF DataInv
  <2>2. PICK config \in Configs, size \in Sizes :
          /\ "preview" \in NewBus(config)
          /\ value = [config |-> config, size |-> size, key |-> EmittedOf(request).security,
                      made |-> Preview(config, DomainOf(request),
                                       EmittedOf(request).security, size)]
    BY <2>1
  <2>3. PICK key \in Securities, domain \in {"bars", "ticks", "fundamentals"} :
          key = EmittedOf(request).security /\ domain = DomainOf(request)
    BY <2>1, EmittedSecurity
  <2>4. PICK made, messages : /\ made = Preview(config, domain, key, size)
                              /\ messages = Publish(config, domain, key, size)
    OBVIOUS
  <2>5. value.made = made /\ value.size = size /\ value.config = config /\ value.key = key
        /\ Domain = domain
    BY <2>2, <2>3, <2>4, TheForms
  <2>6. ValidateConfig(config)
    BY <2>2, Accepted
  <2>7. /\ made.topic = messages[1].topic
        /\ made.messageCount = Len(messages)
        /\ SumFunction(made.chunkSizes) = size
        /\ \A i \in DOMAIN made.chunkSizes : made.chunkSizes[i] <= config.maxPayload
    BY <2>4, <2>6, PreviewedTruly
  <2> QED BY <2>4, <2>5, <2>7 DEF PreviewTellsThePublication
<1> QED BY <1>1, DataInvariant, PTL

(* What MultiplyAndRound, PercentToScaled and FloatToScaled compute is near
   what is exact, within what DecimalsAreNear grants each of them. *)
THEOREM TheDecimalsAreNear == Spec => []DecimalsAreNear
<1>1. DataInv => DecimalsAreNear
  <2> SUFFICES ASSUME DataInv, stage = "computed", value # Refused PROVE DecimalsAreNear
    BY DEF DecimalsAreNear
  <2>1. request \in Operations /\ value = ComputedOf(request)
    BY Kinds DEF DataInv
  <2>2. \/ /\ request.op = "multiply" /\ request.scale \in Int
           /\ request.a \in ScaledDecimals /\ request.b \in ScaledDecimals
        \/ request.op \in {"percent", "money"} /\ request.a \in ScaledDecimals
        \/ request.op = "float" /\ request.a \in Int /\ request.scale \in Int
    BY <2>1, OperationsAssumption
  <2>3. CASE /\ request.op = "multiply" /\ request.scale \in Int
             /\ request.a \in ScaledDecimals /\ request.b \in ScaledDecimals
    <3>1. value = MultiplyAndRound(request.a, request.b, request.scale)
      BY <2>1, <2>3 DEF ComputedOf
    <3>2. LET exact == request.a.scaled * request.b.scaled
              diff  == request.a.scale + request.b.scale - request.scale IN
          InWord(exact) /\ diff >= 0 =>
            /\ Magnitude(value.scaled * Pow10(diff) - exact) < Pow10(diff)
            /\ exact >= 0 =>
                 value.scaled = RoundHalfUp(exact, request.a.scale + request.b.scale,
                                            request.scale)
      BY <2>3, <3>1, MultiplyIsNear
    <3> QED BY <2>3, <3>2 DEF DecimalsAreNear
  <2>4. CASE request.op = "percent" /\ request.a \in ScaledDecimals
    <3>1. value = PercentToScaled(request.a)
      BY <2>1, <2>4 DEF ComputedOf
    <3>2. LET diff == request.a.scale - PercentScale IN
          IF diff <= 0
            THEN request.a.scaled >= 0 => value.scaled = request.a.scaled * Pow10(-diff)
            ELSE InWord(Magnitude(request.a.scaled) + Pow10(diff) \div 2) =>
                   2 * Magnitude(value.scaled * Pow10(diff) - request.a.scaled) <= Pow10(diff)
      BY <2>4, <3>1, PercentIsNear
    <3> QED BY <2>4, <3>2 DEF DecimalsAreNear
  <2>5. CASE request.op = "money"
    <3>1. value = MoneyToScaled(request.a)
      BY <2>1, <2>5 DEF ComputedOf
    <3>2. value = request.a
      BY <3>1, MoneyIsKept
    <3> QED BY <2>5, <3>2 DEF DecimalsAreNear
  <2>6. CASE request.op = "float" /\ request.a \in Int /\ request.scale \in Int
    <3>1. value = FloatToScaled(request.a, request.scale)
      BY <2>1, <2>6 DEF ComputedOf
    <3>2. InWord(Round(request.a, Parts)) => 2 * Magnitude(value.scaled * Parts - request.a) <= Parts
      BY <2>6, <3>1, FloatIsNear
    <3> QED BY <2>6, <3>2 DEF DecimalsAreNear
  <2> QED BY <2>2, <2>3, <2>4, <2>5, <2>6
<1> QED BY <1>1, DataInvariant, PTL

-----------------------------------------------------------------------------
(* What a conversion that succeeds has done with each of the prices. *)
Prices(prices) == \A field \in DOMAIN prices : prices[field] \in ScaledDecimals \cup {Nil}
Rate(source, fx) == IF source = fx.target THEN 1 ELSE fx.rate
Converts(out, prices, source, fx) ==
  /\ DOMAIN out = DOMAIN prices
  /\ \A field \in DOMAIN prices :
       IF prices[field] = Nil THEN out[field] = Nil
       ELSE /\ out[field] = [prices[field] EXCEPT !.scaled = @ * Rate(source, fx)]
            /\ Rate(source, fx) = 1 \/ prices[field].scaled \notin fx.fails

(* No conversion succeeds from a currency that is not known. *)
LEMMA ConvertedSource ==
  ASSUME NEW prices, NEW source, NEW target, NEW fx,
         Converted(prices, source, target, fx) # Failed
  PROVE  /\ Named(source)
         /\ Converted(prices, source, target, fx) =
              IF source = target THEN prices ELSE ConvertEach(prices, fx)
<1>1. Named(source)
  BY Zenon DEF Converted, Named
<1>2. Converted(prices, source, target, fx) = IF source = target THEN prices ELSE ConvertEach(prices, fx)
  BY Zenon DEF Converted
<1> QED BY <1>1, <1>2

(* A conversion that succeeds has converted every price at one rate. *)
LEMMA ConvertedWhole ==
  ASSUME NEW prices, Prices(prices), NEW source, NEW fx,
         Converted(prices, source, fx.target, fx) # Failed
  PROVE  Converts(Converted(prices, source, fx.target, fx), prices, source, fx)
<1> DEFINE out == Converted(prices, source, fx.target, fx)
<1>1. out = IF source = fx.target THEN prices ELSE ConvertEach(prices, fx)
  BY ConvertedSource
<1>2. CASE source = fx.target
  <2>1. out = prices /\ Rate(source, fx) = 1
    BY <1>1, <1>2 DEF Rate
  <2>2. ASSUME NEW d \in ScaledDecimals PROVE d = [d EXCEPT !.scaled = @ * 1]
    <3>1. d.scaled \in Int /\ d.scaled * 1 = d.scaled
      BY DEF ScaledDecimals
    <3> QED BY <3>1 DEF ScaledDecimals
  <2>3. ASSUME NEW field \in DOMAIN prices, prices[field] # Nil
        PROVE  out[field] = [prices[field] EXCEPT !.scaled = @ * Rate(source, fx)]
    <3>1. PICK d \in ScaledDecimals : d = prices[field]
      BY <2>3 DEF Prices
    <3> QED BY <2>1, <2>2, <3>1
  <2> QED BY <2>1, <2>3 DEF Converts
<1>3. CASE source # fx.target
  <2>1. out = ConvertEach(prices, fx) /\ Rate(source, fx) = fx.rate
    BY <1>1, <1>3 DEF Rate
  <2> HIDE DEF out
  <2>2. /\ \A field \in DOMAIN prices : prices[field] # Nil => prices[field].scaled \notin fx.fails
        /\ out = [field \in DOMAIN prices |->
                    IF prices[field] = Nil THEN Nil ELSE ConvertValue(prices[field], fx)]
    <3>1. out # Failed
      BY DEF out
    <3> QED BY <2>1, <3>1 DEF ConvertEach
  <2>3. Converts(out, prices, source, fx)
    BY <2>1, <2>2 DEF Converts, ConvertValue
  <2> QED BY <2>3 DEF out
<1> QED BY <1>2, <1>3

(* The prices of a batch of bars are decimals. *)
LEMMA BatchPrices ==
  ASSUME NEW answer \in BarsResponses, DecodeBarsResponse(answer),
         NEW normal, normal = NormalizeBars(GetBars(answer), GetMetadata(answer)), normal # Failed
  PROVE  Prices([at \in (DOMAIN normal.bars) \X BarFields |-> normal.bars[at[1]][at[2]]])
<1> DEFINE bars == GetBars(answer)
           rows == RowsOf(answer)
           currency == GetMetadata(answer).currency
<1>1. ASSUME NEW i \in DOMAIN bars PROVE bars[i] \in BarRows /\ Complete(bars[i])
  <2>1. /\ rows \in Seq(BarRows) /\ DOMAIN bars = 1..Len(rows)
        /\ bars \in Seq(BarRows) /\ Len(bars) = Len(rows)
        /\ \A k \in 1..Len(rows) :
             /\ bars[k] = [rows[k] EXCEPT !.adjClose =
                             IF answer.charts[1].hasAdjClose THEN rows[k].adjClose ELSE Nil]
             /\ rows[k] \in BarRows /\ Complete(rows[k])
    BY DecodedChart DEF RowsOf
  <2> HIDE DEF bars, rows
  <2>2. bars[i] \in BarRows
    BY <2>1, Elements
  <2>3. PICK row \in BarRows : row = rows[i] /\ Complete(row)
    BY <2>1
  <2>4. bars[i] = [row EXCEPT !.adjClose =
                     IF answer.charts[1].hasAdjClose THEN row.adjClose ELSE Nil]
    BY <2>1, <2>3
  <2>5. Complete(bars[i])
    BY <2>3, <2>4 DEF Complete, BarRows
  <2> QED BY <2>2, <2>5
<1>2. PICK adjusted \in BOOLEAN : adjusted = AdjustedBars(bars)
  BY DEF AdjustedBars
<1> HIDE DEF bars, rows, currency
<1>3. normal.bars = [i \in DOMAIN bars |-> NormalizeBar(bars[i], currency, adjusted)]
  <2>1. NormalizeBars(bars, GetMetadata(answer)) # Failed
    BY DEF bars
  <2>2. NormalizeBars(bars, GetMetadata(answer)) =
          [security |-> CreateSecurity(GetMetadata(answer).symbol, GetMetadata(answer).exchange),
           bars |-> [i \in DOMAIN bars |-> NormalizeBar(bars[i], currency, adjusted)]]
    BY <1>2, <2>1 DEF NormalizeBars, currency
  <2>3. normal = NormalizeBars(bars, GetMetadata(answer))
    BY DEF bars
  <2> QED BY <2>2, <2>3
<1>4. ASSUME NEW i \in DOMAIN bars, NEW field \in BarFields
      PROVE  NormalizeBar(bars[i], currency, adjusted)[field] \in ScaledDecimals
  <2>1. PICK row \in BarRows : row = bars[i] /\ Complete(row)
    BY <1>1
  <2>2. row.open \in Int /\ row.high \in Int /\ row.low \in Int /\ row.close \in Int
        /\ row.adjClose \in Int \cup {Nil}
    BY <2>1 DEF BarRows, Figures, Complete
  <2>3. ClosePrice(row, adjusted) \in Int
    BY <2>2 DEF ClosePrice
  <2> DEFINE bar == NormalizeBar(row, currency, adjusted)
  <2>4. /\ bar["open"] = ToScaledDecimal(row.open, currency)
        /\ bar["high"] = ToScaledDecimal(row.high, currency)
        /\ bar["low"] = ToScaledDecimal(row.low, currency)
        /\ bar["close"] = ToScaledDecimal(ClosePrice(row, adjusted), currency)
    BY DEF NormalizeBar
  <2> HIDE DEF bar
  <2>5. \A f \in {"open", "high", "low", "close"} : bar[f] \in ScaledDecimals
    BY <2>2, <2>3, <2>4, ScaledPrice
  <2> QED BY <2>1, <2>5 DEF BarFields, bar
<1> DEFINE prices == [at \in (DOMAIN normal.bars) \X BarFields |-> normal.bars[at[1]][at[2]]]
<1>5. ASSUME NEW at \in (DOMAIN normal.bars) \X BarFields PROVE prices[at] \in ScaledDecimals
  <2>1. at[1] \in DOMAIN bars /\ at[2] \in BarFields
    BY <1>3
  <2>2. normal.bars[at[1]] = NormalizeBar(bars[at[1]], currency, adjusted)
    BY <1>3, <2>1
  <2> QED BY <1>4, <2>1, <2>2
<1> QED BY <1>5 DEF Prices

(* So are those a quote has. *)
LEMMA QuoteValues ==
  ASSUME NEW quote \in QuoteResults, NormalizeQuote(quote) # Failed
  PROVE  Prices(NormalizeQuote(quote).prices)
<1>1. NormalizeQuote(quote).prices =
        [field \in QuotePrices |-> ScaledOrNil(quote[field], quote.currency)]
  <2> DEFINE prices == [field \in QuotePrices |-> ScaledOrNil(quote[field], quote.currency)]
  <2> HIDE DEF prices
  <2>1. NormalizeQuote(quote) =
          [security |-> CreateSecurity(quote.symbol, quote.exchange),
           currency |-> quote.currency, venue |-> Venue(quote.exchange),
           bidSize |-> quote.bidSize, askSize |-> quote.askSize, prices |-> prices]
    BY Zenon DEF NormalizeQuote, prices
  <2> QED BY <2>1 DEF prices
<1>2. \A field \in QuotePrices : quote[field] \in Figures
  BY DEF QuotePrices, QuoteResults
<1>3. \A field \in QuotePrices : ScaledOrNil(quote[field], quote.currency) \in ScaledDecimals \cup {Nil}
  BY <1>2, ScaledOrNilType
<1> QED BY <1>1, <1>3 DEF Prices

(* So are the values of the lines of a snapshot. *)
LEMMA LineValues ==
  ASSUME NEW answer \in FundamentalsResponses, DecodeFundamentalsResponse(answer),
         FundamentalsOf(answer) # Failed
  PROVE  LET lines == FundamentalsOf(answer).lines IN
         Prices([i \in DOMAIN lines |-> lines[i].value])
<1> DEFINE security == [symbol |-> answer.symbol, mic |-> ""]
<1> HIDE DEF security
<1>1. PICK lines \in Seq(Said(answer)) :
        FundamentalsOf(answer) = [security |-> security, lines |-> lines]
  <2>1. \E lines \in Seq(Said(answer)) :
          FundamentalsOf(answer) = [security |-> security, lines |-> lines]
    BY NormalizedFundamentals, Zenon DEF security
  <2> QED BY <2>1
<1>2. FundamentalsOf(answer).lines = lines
  BY <1>1
<1>3. \A i \in DOMAIN lines : lines[i] \in Said(answer)
  BY Elements
<1>4. \A i \in DOMAIN lines : lines[i].value \in ScaledDecimals
  BY <1>3 DEF Said, LineRecords
<1> QED BY <1>2, <1>4 DEF Prices

(* So is the price of market data. *)
LEMMA MarketValues ==
  ASSUME NEW answer \in BarsResponses, DecodeBarsResponse(answer)
  PROVE  Prices(NormalizeMarketData(GetMetadata(answer)).prices)
<1> DEFINE meta == GetMetadata(answer)
           value1 == ScaledOrNil(meta.price, meta.currency)
<1>1. answer.charts[1] \in ChartResults
  BY DecodedChart
<1>2. meta.price \in Figures
  BY <1>1 DEF GetMetadata, ChartResults
<1>3. NormalizeMarketData(meta).prices = [price |-> value1]
  <2> HIDE DEF meta
  <2> QED BY Zenon DEF NormalizeMarketData
<1> HIDE DEF meta
<1>4. value1 \in ScaledDecimals \cup {Nil}
  BY <1>2, ScaledOrNilType
<1> HIDE DEF value1
<1>5. Prices([price |-> value1])
  BY <1>4 DEF Prices
<1> QED BY <1>3, <1>5 DEF meta

(* The prices of a normalised record, and the currency they are in. *)
PricesIn(kind, record) ==
  CASE kind \in BarKinds ->
         [at \in (DOMAIN record.bars) \X BarFields |-> record.bars[at[1]][at[2]]]
    [] kind = "fundamentals" -> [i \in DOMAIN record.lines |-> record.lines[i].value]
    [] OTHER -> record.prices
CurrencyIn(kind, record) ==
  CASE kind \in BarKinds -> record.bars[1].currency
    [] kind = "fundamentals" -> record.lines[1].currency
    [] OTHER -> record.currency

(* The prices of every normalised record are decimals or missing. *)
LEMMA NormalPrices ==
  ASSUME NEW r \in Requests \cup Operations, r.kind # "arithmetic", r.kind # "company-info",
         DecodedOf(r) # Failed, NormalOf(r) # Failed
  PROVE  Prices(PricesIn(r.kind, NormalOf(r)))
<1>1. r.kind \in BarKinds \cup {"quote", "ticker", "fundamentals", "market-data"}
  BY Kinds DEF MetaKinds
<1>2. CASE r.kind \in BarKinds
  <2>1. /\ r.answer \in BarsResponses /\ DecodeBarsResponse(r.answer)
        /\ NormalOf(r) = NormalizeBars(GetBars(r.answer), GetMetadata(r.answer))
    BY <1>2, FormsOfBars
  <2>2. PICK normal : normal = NormalOf(r)
    OBVIOUS
  <2>3. Prices([at \in (DOMAIN normal.bars) \X BarFields |-> normal.bars[at[1]][at[2]]])
    BY <2>1, <2>2, BatchPrices
  <2>4. PricesIn(r.kind, normal) =
          [at \in (DOMAIN normal.bars) \X BarFields |-> normal.bars[at[1]][at[2]]]
    BY <1>2 DEF PricesIn, BarKinds
  <2> QED BY <2>2, <2>3, <2>4
<1>3. CASE r.kind \in {"quote", "ticker"}
  <2>1. DecodedOf(r) \in QuoteResults /\ NormalOf(r) = NormalizeQuote(DecodedOf(r))
    BY <1>3, FormsOfQuotes
  <2>2. Prices(NormalOf(r).prices)
    BY <2>1, QuoteValues
  <2>3. PricesIn(r.kind, NormalOf(r)) = NormalOf(r).prices
    BY <1>3 DEF PricesIn, BarKinds
  <2> QED BY <2>2, <2>3
<1>4. CASE r.kind = "fundamentals"
  <2>1. /\ r.answer \in FundamentalsResponses /\ DecodeFundamentalsResponse(r.answer)
        /\ NormalOf(r) = FundamentalsOf(r.answer)
    BY <1>4, FormsOfFundamentals
  <2>2. PICK normal : normal = NormalOf(r)
    OBVIOUS
  <2>3. Prices([i \in DOMAIN normal.lines |-> normal.lines[i].value])
    BY <2>1, <2>2, LineValues
  <2>4. PricesIn(r.kind, normal) = [i \in DOMAIN normal.lines |-> normal.lines[i].value]
    BY <1>4 DEF PricesIn, BarKinds
  <2> QED BY <2>2, <2>3, <2>4
<1>5. CASE r.kind = "market-data"
  <2>1. DecodedOf(r) = FetchBars(r.answer) /\ NormalOf(r) = NormalizeMarketData(GetMetadata(r.answer))
    BY <1>5 DEF DecodedOf, NormalOf
  <2>2. DecodeBarsResponse(r.answer)
    BY <2>1 DEF FetchBars
  <2>3. r.answer \in BarsResponses
    BY <1>5, Kinds DEF MetaKinds
  <2>4. Prices(NormalOf(r).prices)
    BY <2>1, <2>2, <2>3, MarketValues
  <2>5. PricesIn(r.kind, NormalOf(r)) = NormalOf(r).prices
    BY <1>5 DEF PricesIn, BarKinds
  <2> QED BY <2>4, <2>5
<1> QED BY <1>1, <1>2, <1>3, <1>4, <1>5

(* A conversion is asked for the prices of the record, in its own currency. *)
LEMMA ConversionIs ==
  ASSUME DataInv, Convert
  PROVE  \E fx \in Converters :
           value' = Converted(PricesIn(request.kind, value), CurrencyIn(request.kind, value),
                              fx.target, fx)
<1>1. PICK fx \in Converters :
        value' = CASE request.kind \in {"quote", "ticker"} -> ConvertQuote(value, fx.target, fx)
                   [] request.kind = "fundamentals" -> ConvertFundamentals(value, fx.target, fx)
                   [] request.kind = "market-data"  -> ConvertMarketData(value, fx.target, fx)
                   [] OTHER -> ConvertBars(value, fx.target, fx)
  BY DEF Convert, Reach
<1>2. request.kind \in BarKinds \cup {"quote", "ticker", "fundamentals", "market-data"}
  <2>1. request \in Requests \cup Operations /\ request.kind # "company-info"
    BY DEF DataInv, Convert
  <2>2. request.kind # "arithmetic"
    BY DEF Convert, DataInv, Reached, Fetched
  <2> QED BY <2>1, <2>2, Kinds DEF MetaKinds
<1>3. CASE request.kind \in BarKinds
  <2>1. value' = ConvertBars(value, fx.target, fx)
    BY <1>1, <1>3 DEF BarKinds
  <2>2. /\ PricesIn(request.kind, value) =
             [at \in (DOMAIN value.bars) \X BarFields |-> value.bars[at[1]][at[2]]]
        /\ CurrencyIn(request.kind, value) = value.bars[1].currency
    BY <1>3 DEF PricesIn, CurrencyIn, BarKinds
  <2> QED BY <2>1, <2>2, Zenon DEF ConvertBars
<1>4. CASE request.kind \in {"quote", "ticker"}
  <2>1. value' = ConvertQuote(value, fx.target, fx)
    BY <1>1, <1>4
  <2>2. PricesIn(request.kind, value) = value.prices /\ CurrencyIn(request.kind, value) = value.currency
    BY <1>4 DEF PricesIn, CurrencyIn, BarKinds
  <2> QED BY <2>1, <2>2, Zenon DEF ConvertQuote
<1>5. CASE request.kind = "fundamentals"
  <2>1. value' = ConvertFundamentals(value, fx.target, fx)
    BY <1>1, <1>5
  <2>2. /\ PricesIn(request.kind, value) = [i \in DOMAIN value.lines |-> value.lines[i].value]
        /\ CurrencyIn(request.kind, value) = value.lines[1].currency
    BY <1>5 DEF PricesIn, CurrencyIn, BarKinds
  <2> QED BY <2>1, <2>2, Zenon DEF ConvertFundamentals
<1>6. CASE request.kind = "market-data"
  <2>1. value' = ConvertMarketData(value, fx.target, fx)
    BY <1>1, <1>6
  <2>2. PricesIn(request.kind, value) = value.prices /\ CurrencyIn(request.kind, value) = value.currency
    BY <1>6 DEF PricesIn, CurrencyIn, BarKinds
  <2> QED BY <2>1, <2>2, Zenon DEF ConvertMarketData
<1> QED BY <1>2, <1>3, <1>4, <1>5, <1>6

(* A conversion is all or nothing and at one rate (the Convert* of
   internal/norm/conversion.go), for every record and every converter. *)
THEOREM TheConversionIsWhole == Spec => ConversionIsWhole
<1> DEFINE
      rate(source, fx) == IF source = fx.target THEN 1 ELSE fx.rate
      source == CurrencyIn(request.kind, value)
      body == Reached("normalized") /\ Reached("converted")' =>
       \E fx \in Converters :
         LET source_ == CASE request.kind \in BarKinds -> value.bars[1].currency
                         [] request.kind = "fundamentals" -> value.lines[1].currency
                         [] OTHER -> value.currency
             rate_ == IF source_ = fx.target THEN 1 ELSE fx.rate
             before(field) == CASE request.kind \in BarKinds -> value.bars[field[1]][field[2]]
                                [] request.kind = "fundamentals" -> value.lines[field].value
                                [] OTHER -> value.prices[field] IN
         /\ source_ # ""
         /\ \A field \in DOMAIN value' :
              IF before(field) = Nil THEN value'[field] = Nil
              ELSE /\ value'[field] = [before(field) EXCEPT !.scaled = @ * rate_]
                   /\ rate_ = 1 \/ before(field).scaled \notin fx.fails
<1>1. ASSUME DataInv, Next, Reached("normalized"), Reached("converted")'
      PROVE  \E fx \in Converters :
               /\ Named(source)
               /\ Converts(value', PricesIn(request.kind, value), source, fx)
  <2>1. Convert
    BY <1>1 DEF Next, FetchFails, Decode, Normalise, EmitMessage, PublishMessage, PreviewMessage,
                Hand, Compute, Reach, Reached
  <2>2. PICK fx \in Converters :
          value' = Converted(PricesIn(request.kind, value), source, fx.target, fx)
    BY <1>1, <2>1, ConversionIs
  <2>3. value' # Failed
    BY <1>1 DEF Reached
  <2>4. Prices(PricesIn(request.kind, value))
    <3>1. /\ request \in Requests \cup Operations /\ request.kind # "company-info"
          /\ Fetched /\ value = NormalOf(request) /\ value # Failed
      BY <1>1, <2>1 DEF DataInv, Convert, Reached
    <3> QED BY <3>1, NormalPrices DEF Fetched
  <2>5. PICK prices : prices = PricesIn(request.kind, value)
    OBVIOUS
  <2>6. Named(source)
    BY <2>2, <2>3, <2>5, ConvertedSource
  <2>7. Converts(value', prices, source, fx)
    BY <2>2, <2>3, <2>4, <2>5, ConvertedWhole
  <2> QED BY <2>5, <2>6, <2>7
<1>2. DataInv /\ [Next]_vars => body
  <2> SUFFICES ASSUME DataInv, [Next]_vars, Reached("normalized"), Reached("converted")'
               PROVE  body
    BY Zenon
  <2>1. Next
    BY DEF vars, Reached
  <2>2. PICK fx \in Converters :
          Named(source) /\ Converts(value', PricesIn(request.kind, value), source, fx)
    BY <1>1, <2>1
  <2> DEFINE before(field) == CASE request.kind \in BarKinds -> value.bars[field[1]][field[2]]
                                [] request.kind = "fundamentals" -> value.lines[field].value
                                [] OTHER -> value.prices[field]
  <2>3. \A field \in DOMAIN PricesIn(request.kind, value) :
          PricesIn(request.kind, value)[field] = before(field)
    <3>1. CASE request.kind \in BarKinds
      BY <3>1 DEF PricesIn, BarKinds
    <3>2. CASE request.kind = "fundamentals"
      BY <3>2 DEF PricesIn, BarKinds
    <3>3. CASE request.kind \notin BarKinds \cup {"fundamentals"}
      BY <3>3 DEF PricesIn
    <3> QED BY <3>1, <3>2, <3>3
  <2> DEFINE from == CASE request.kind \in BarKinds -> value.bars[1].currency
                       [] request.kind = "fundamentals" -> value.lines[1].currency
                       [] OTHER -> value.currency
  <2>4. from = source
    BY Zenon DEF CurrencyIn
  <2>5. from # ""
    BY <2>2, <2>4, Zenon DEF Named
  <2>6. \A field \in DOMAIN value' :
          IF before(field) = Nil THEN value'[field] = Nil
          ELSE /\ value'[field] = [before(field) EXCEPT !.scaled = @ * rate(from, fx)]
               /\ rate(from, fx) = 1 \/ before(field).scaled \notin fx.fails
    <3> HIDE DEF before, from
    <3>1. PICK prices : prices = PricesIn(request.kind, value)
      OBVIOUS
    <3> QED BY <2>2, <2>3, <2>4, <3>1 DEF Converts, Rate
  <2> QED BY <2>5, <2>6, Zenon
<1> QED BY <1>2, DataInvariant, PTL DEF Spec, ConversionIsWhole
==============================================================================
