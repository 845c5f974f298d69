----------------------------- MODULE DataLemmas -----------------------------
(***************************************************************************)
(* Facts about the data of the models, whatever their length or size: the  *)
(* loops of Choosing, flattened sequences, sums, and division by a         *)
(* positive number.  They are used by the proofs about the pipelines and   *)
(* about the counters of a soak run.                                       *)
(*                                                                         *)
(* What is computed element by element needs an induction.  The rule of    *)
(* the library has an operator for a parameter; here it is stated of the   *)
(* SET of the numbers a property holds for, which is a value.  A named     *)
(* predicate (Computes, Selects, AddsUp) says what such a computation      *)
(* yields, and a lemma that it does.                                       *)
(***************************************************************************)
EXTENDS Choosing, SequencesExt, FiniteSetTheorems, NaturalsInduction, WellFoundedInduction,
        TLAPS

(* Induction. *)
LEMMA LeastNatural ==
  ASSUME NEW T \in SUBSET Nat, T # {}
  PROVE  \E x \in T : \A y \in T : x <= y
<1> DEFINE R == {ss \in Nat \X Nat : ss[1] < ss[2]}
<1>1. IsWellFoundedOn(R, Nat)
  BY NatLessThanWellFounded DEF OpToRel
<1>2. PICK x \in T : \A y \in T : ~ (<<y, x>> \in R)
  <2> HIDE DEF R
  <2> QED BY <1>1, WFMin
<1>3. ASSUME NEW y \in T PROVE x <= y
  <2>1. <<y, x>> \in Nat \X Nat /\ <<y, x>> \notin R
    BY <1>2
  <2>2. ~ (y < x)
    BY <2>1
  <2> QED BY <2>2
<1> QED BY <1>3

(* Induction, of a set of naturals. *)
LEMMA Induction ==
  ASSUME NEW S, 0 \in S, \A n \in Nat : n \in S => n + 1 \in S
  PROVE  \A n \in Nat : n \in S
<1> SUFFICES ASSUME NEW m \in Nat, m \notin S PROVE FALSE
  OBVIOUS
<1>1. PICK x \in Nat \ S : \A y \in Nat \ S : x <= y
  BY LeastNatural
<1>2. x - 1 \in Nat /\ x - 1 \in S
  BY <1>1
<1> QED BY <1>1, <1>2

(* F has the values of a loop: `base` before it, and after its i-th turn    *)
(* step of the value before that turn and i.                                *)
Computes(F, T, base, n, step) ==
  /\ F \in [0..n -> T]
  /\ F[0] = base
  /\ \A i \in 1..n : F[i] = step[<<F[i - 1], i>>]

(* There is such a function, when a step stays in a set T. *)
LEMMA Recursion ==
  ASSUME NEW T, NEW base, NEW n, NEW step,
         base \in T, n \in Nat, step \in [T \X (1..n) -> T]
  PROVE  \E F : Computes(F, T, base, n, step)
<1> DEFINE Rec(F) == [i \in 0..n |-> IF i = 0 THEN base ELSE step[<<F[i - 1], i>>]]
           N == {k \in Nat : \E F \in [0..n -> T] : \A i \in 0..n : i <= k => F[i] = Rec(F)[i]}
<1>1. 0 \in N
  <2> DEFINE F == [i \in 0..n |-> base]
  <2>1. F \in [0..n -> T] /\ \A i \in 0..n : i <= 0 => F[i] = Rec(F)[i]
    OBVIOUS
  <2> HIDE DEF F
  <2> QED BY <2>1
<1>2. ASSUME NEW k \in Nat, k \in N PROVE k + 1 \in N
  <2>1. PICK F \in [0..n -> T] : \A i \in 0..n : i <= k => F[i] = Rec(F)[i]
    BY <1>2
  <2> DEFINE G == Rec(F)
  <2>2. G \in [0..n -> T]
    <3> SUFFICES ASSUME NEW i \in 0..n, i # 0 PROVE step[<<F[i - 1], i>>] \in T
      OBVIOUS
    <3>1. F[i - 1] \in T /\ i \in 1..n
      OBVIOUS
    <3> QED BY <3>1
  <2>3. ASSUME NEW i \in 0..n, i <= k + 1 PROVE G[i] = Rec(G)[i]
    <3>1. CASE i = 0
      BY <3>1
    <3>2. CASE i # 0
      <4>1. i - 1 \in 0..n /\ i - 1 <= k
        BY <3>2, <2>3
      <4>2. G[i - 1] = F[i - 1]
        BY <4>1, <2>1
      <4> QED BY <4>2, <3>2
    <3> QED BY <3>1, <3>2
  <2>4. k + 1 \in Nat
    OBVIOUS
  <2> HIDE DEF G
  <2> QED BY <2>2, <2>3, <2>4
<1>3. n \in N
  <2> HIDE DEF N
  <2> QED BY <1>1, <1>2, Induction
<1>4. PICK F \in [0..n -> T] : \A i \in 0..n : i <= n => F[i] = Rec(F)[i]
  BY <1>3
<1>5. F[0] = base
  <2>1. 0 \in 0..n /\ 0 <= n
    OBVIOUS
  <2>2. F[0] = Rec(F)[0] /\ Rec(F)[0] = base
    BY <1>4, <2>1
  <2> QED BY <2>2
<1>6. ASSUME NEW i \in 1..n PROVE F[i] = step[<<F[i - 1], i>>]
  <2>1. i \in 0..n /\ i <= n /\ i # 0
    OBVIOUS
  <2> QED BY <1>4, <2>1
<1> QED BY <1>5, <1>6 DEF Computes

(* A power of ten is positive, and even but for the first. *)
LEMMA PowersOfTen ==
  ASSUME NEW n \in Nat
  PROVE  /\ Pow10(n) \in Nat \ {0}
         /\ n = 0 => Pow10(n) = 1
         /\ n # 0 => \E h \in Nat \ {0} : Pow10(n) = 2 * h
<1> DEFINE Rec(F) == [i \in 0..n |-> IF i = 0 THEN 1 ELSE 10 * F[i - 1]]
           power == CHOOSE F : F = Rec(F)
<1>1. \E F : F = Rec(F)
  <2> DEFINE step == [p \in (Nat \ {0}) \X (1..n) |-> 10 * p[1]]
  <2>1. step \in [(Nat \ {0}) \X (1..n) -> (Nat \ {0})] /\ 1 \in Nat \ {0}
    OBVIOUS
  <2>2. PICK F \in [0..n -> Nat \ {0}] :
           F[0] = 1 /\ \A i \in 1..n : F[i] = step[<<F[i - 1], i>>]
    <3> DEFINE T == Nat \ {0}  base == 1
    <3>1. step \in [T \X (1..n) -> T] /\ base \in T
      BY <2>1
    <3> HIDE DEF step, T, base
    <3>2. \E F : Computes(F, T, base, n, step)
      BY <3>1, Recursion
    <3> QED BY <3>2 DEF T, base, Computes
  <2>3. \A i \in 1..n : step[<<F[i - 1], i>>] = 10 * F[i - 1]
    OBVIOUS
  <2>4. ASSUME NEW i \in 0..n PROVE F[i] = Rec(F)[i]
    <3> HIDE DEF step
    <3>1. i # 0 => i \in 1..n
      OBVIOUS
    <3> QED BY <2>2, <2>3, <3>1
  <2>5. F = [i \in 0..n |-> F[i]]
    OBVIOUS
  <2>6. F = Rec(F)
    BY <2>4, <2>5
  <2> QED BY <2>6
<1>2. power = Rec(power)
  BY <1>1
<1>3. Pow10(n) = power[n]
  BY DEF Pow10
<1> HIDE DEF power
<1> DEFINE N == {k \in Nat : k <= n => power[k] \in Nat \ {0}}
<1>4. 0 \in N
  BY <1>2
<1>5. ASSUME NEW k \in Nat, k \in N PROVE k + 1 \in N
  <2>1. k + 1 <= n => power[k + 1] = 10 * power[k]
    BY <1>2
  <2> QED BY <2>1, <1>5
<1>6. \A k \in Nat : k \in N
  <2> HIDE DEF N
  <2> QED BY <1>4, <1>5, Induction
<1>7. power[n] \in Nat \ {0}
  BY <1>6
<1>8. ASSUME n # 0 PROVE \E h \in Nat \ {0} : Pow10(n) = 2 * h
  <2>1. n - 1 \in N /\ n - 1 <= n
    BY <1>6, <1>8
  <2>2. power[n - 1] \in Nat \ {0}
    BY <2>1
  <2>3. power[n] = 10 * power[n - 1]
    BY <1>8, <1>2
  <2>4. 5 * power[n - 1] \in Nat \ {0} /\ Pow10(n) = 2 * (5 * power[n - 1])
    BY <2>2, <2>3, <1>3
  <2> QED BY <2>4
<1> QED BY <1>2, <1>3, <1>7, <1>8

-----------------------------------------------------------------------------
(* What Kept yields: t has, in order, exactly the elements in K of the      *)
(* first n of s, and at[i] is where in s the i-th of them is.               *)
Selects(at, t, s, n, K) ==
  /\ at \in [1..Len(t) -> 1..n]
  /\ \A i, j \in 1..Len(t) : i < j => at[i] < at[j]
  /\ \A i \in 1..Len(t) : t[i] = s[at[i]] /\ t[i] \in K
  /\ \A k \in 1..n : s[k] \in K => \E i \in 1..Len(t) : at[i] = k

(* One more element of s: taken, if it is in K, *)
LEMMA SelectsMore ==
  ASSUME NEW S, NEW s \in Seq(S), NEW K, NEW n \in Nat, n + 1 <= Len(s),
         NEW t \in Seq(S), NEW at, Selects(at, t, s, n, K), s[n + 1] \in K
  PROVE  \E to : Selects(to, Append(t, s[n + 1]), s, n + 1, K)
<1> DEFINE u == Append(t, s[n + 1])
           to == [i \in 1..(Len(t) + 1) |-> IF i <= Len(t) THEN at[i] ELSE n + 1]
<1>0. s[n + 1] \in S /\ Len(t) \in Nat
  OBVIOUS
<1>1. Len(u) = Len(t) + 1 /\ u[Len(t) + 1] = s[n + 1] /\ \A i \in 1..Len(t) : u[i] = t[i]
  BY <1>0
<1>2. /\ \A i \in 1..Len(t) : at[i] \in 1..n
      /\ \A i, j \in 1..Len(t) : i < j => at[i] < at[j]
      /\ \A i \in 1..Len(t) : t[i] = s[at[i]] /\ t[i] \in K
      /\ \A k \in 1..n : s[k] \in K => \E i \in 1..Len(t) : at[i] = k
  BY DEF Selects
<1> HIDE DEF u
<1>3. /\ to \in [1..Len(u) -> 1..(n + 1)]
      /\ \A i \in 1..Len(t) : to[i] = at[i]
      /\ to[Len(t) + 1] = n + 1
  BY <1>0, <1>1, <1>2
<1> HIDE DEF to
<1>4. ASSUME NEW i \in 1..Len(u), NEW j \in 1..Len(u), i < j PROVE to[i] < to[j]
  <2>1. i \in 1..Len(t) /\ to[i] = at[i] /\ at[i] \in 1..n
    BY <1>0, <1>1, <1>2, <1>3, <1>4
  <2>2. CASE j \in 1..Len(t)
    BY <2>1, <2>2, <1>2, <1>3, <1>4
  <2>3. CASE j = Len(t) + 1
    BY <2>1, <2>3, <1>3
  <2> QED BY <2>2, <2>3, <1>0, <1>1
<1>5. ASSUME NEW i \in 1..Len(u) PROVE u[i] = s[to[i]] /\ u[i] \in K
  <2>1. CASE i \in 1..Len(t)
    BY <2>1, <1>1, <1>2, <1>3
  <2>2. CASE i = Len(t) + 1
    BY <2>2, <1>1, <1>3
  <2> QED BY <2>1, <2>2, <1>0, <1>1
<1>6. ASSUME NEW k \in 1..(n + 1), s[k] \in K PROVE \E i \in 1..Len(u) : to[i] = k
  <2>1. CASE k = n + 1
    BY <2>1, <1>0, <1>1, <1>3
  <2>2. CASE k # n + 1
    <3>1. PICK i \in 1..Len(t) : at[i] = k
      BY <2>2, <1>2, <1>6
    <3> QED BY <3>1, <1>0, <1>1, <1>3
  <2> QED BY <2>1, <2>2
<1>7. Selects(to, u, s, n + 1, K)
  BY <1>3, <1>4, <1>5, <1>6 DEF Selects
<1> QED BY <1>7 DEF u

(* and left out, if it is not. *)
LEMMA SelectsSame ==
  ASSUME NEW S, NEW s \in Seq(S), NEW K, NEW n \in Nat, n + 1 <= Len(s),
         NEW t \in Seq(S), NEW at, Selects(at, t, s, n, K), s[n + 1] \notin K
  PROVE  Selects(at, t, s, n + 1, K)
<1>0. Len(t) \in Nat
  OBVIOUS
<1>1. /\ at \in [1..Len(t) -> 1..n]
      /\ \A i, j \in 1..Len(t) : i < j => at[i] < at[j]
      /\ \A i \in 1..Len(t) : t[i] = s[at[i]] /\ t[i] \in K
      /\ \A k \in 1..n : s[k] \in K => \E i \in 1..Len(t) : at[i] = k
  BY DEF Selects
<1>2. at \in [1..Len(t) -> 1..(n + 1)]
  BY <1>1
<1>3. ASSUME NEW k \in 1..(n + 1), s[k] \in K PROVE \E i \in 1..Len(t) : at[i] = k
  <2>1. k \in 1..n
    BY <1>3
  <2> QED BY <2>1, <1>1, <1>3
<1> QED BY <1>1, <1>2, <1>3 DEF Selects

(* So Kept selects, from the whole of s. *)
LEMMA KeptSelects ==
  ASSUME NEW S, NEW s \in Seq(S), NEW K
  PROVE  Kept(s, K) \in Seq(S) /\ \E at : Selects(at, Kept(s, K), s, Len(s), K)
<1> DEFINE Rec(F) == [n \in 0..Len(s) |->
                        IF n = 0 THEN <<>>
                        ELSE IF s[n] \in K THEN Append(F[n - 1], s[n]) ELSE F[n - 1]]
           kept == CHOOSE F : F = Rec(F)
<1>0. Len(s) \in Nat /\ \A i \in 1..Len(s) : s[i] \in S
  OBVIOUS
<1>1. \E F : F = Rec(F)
  <2> DEFINE T == Seq(S)  base == <<>>
             step == [p \in T \X (1..Len(s)) |->
                        IF s[p[2]] \in K THEN Append(p[1], s[p[2]]) ELSE p[1]]
  <2>1. base \in T
    OBVIOUS
  <2>2. step \in [T \X (1..Len(s)) -> T]
    BY <1>0
  <2>3. \E F : Computes(F, T, base, Len(s), step)
    <3> HIDE DEF step, T, base
    <3> QED BY <1>0, <2>1, <2>2, Recursion
  <2>4. PICK F : Computes(F, T, base, Len(s), step)
    BY <2>3
  <2>5. /\ F \in [0..Len(s) -> T] /\ F[0] = <<>>
        /\ \A i \in 1..Len(s) : F[i] = step[<<F[i - 1], i>>]
    <3> HIDE DEF step, T
    <3> QED BY <2>4 DEF Computes
  <2>6. ASSUME NEW i \in 1..Len(s)
        PROVE  F[i] = IF s[i] \in K THEN Append(F[i - 1], s[i]) ELSE F[i - 1]
    <3>1. <<F[i - 1], i>> \in T \X (1..Len(s))
      BY <2>5
    <3> QED BY <2>5, <3>1
  <2>7. ASSUME NEW i \in 0..Len(s) PROVE F[i] = Rec(F)[i]
    <3>1. CASE i = 0
      BY <3>1, <2>5
    <3>2. CASE i # 0
      <4>1. i \in 1..Len(s)
        BY <3>2
      <4> QED BY <4>1, <3>2, <2>6
    <3> QED BY <3>1, <3>2
  <2>8. F = [i \in 0..Len(s) |-> F[i]]
    BY <2>5
  <2>9. F = Rec(F)
    BY <2>7, <2>8
  <2> QED BY <2>9
<1>2. kept = Rec(kept)
  BY <1>1
<1>3. Kept(s, K) = kept[Len(s)]
  BY DEF Kept
<1> HIDE DEF kept
<1>4. kept[0] = <<>>
  BY <1>2, <1>0
<1>5. ASSUME NEW i \in 1..Len(s)
      PROVE  kept[i] = IF s[i] \in K THEN Append(kept[i - 1], s[i]) ELSE kept[i - 1]
  <2>1. i \in 0..Len(s) /\ i # 0
    BY <1>0
  <2>2. kept[i] = Rec(kept)[i]
    BY <1>2
  <2> QED BY <2>1, <2>2
<1> HIDE DEF Rec
<1> DEFINE N == {n \in Nat : n <= Len(s) =>
                   kept[n] \in Seq(S) /\ \E at : Selects(at, kept[n], s, n, K)}
<1>6. 0 \in N
  <2> DEFINE at == [i \in 1..0 |-> 1]
  <2>1. Selects(at, <<>>, s, 0, K)
    BY DEF Selects
  <2> HIDE DEF at
  <2>2. kept[0] \in Seq(S) /\ \E to : Selects(to, kept[0], s, 0, K)
    BY <2>1, <1>4
  <2> QED BY <2>2
<1>7. ASSUME NEW n \in Nat, n \in N PROVE n + 1 \in N
  <2> SUFFICES ASSUME n + 1 <= Len(s)
               PROVE  kept[n + 1] \in Seq(S) /\ \E at : Selects(at, kept[n + 1], s, n + 1, K)
    OBVIOUS
  <2>1. kept[n] \in Seq(S)
    BY <1>7, <1>0
  <2>2. PICK at : Selects(at, kept[n], s, n, K)
    BY <1>7, <1>0
  <2>3. n + 1 \in 1..Len(s) /\ s[n + 1] \in S /\ (n + 1) - 1 = n
    BY <1>0
  <2>4. CASE s[n + 1] \in K
    <3>1. kept[n + 1] = Append(kept[n], s[n + 1])
      BY <2>3, <2>4, <1>5
    <3>2. kept[n + 1] \in Seq(S)
      BY <3>1, <2>1, <2>3
    <3> QED BY <3>1, <3>2, <2>1, <2>2, <2>4, SelectsMore
  <2>5. CASE s[n + 1] \notin K
    <3>1. kept[n + 1] = kept[n]
      BY <2>3, <2>5, <1>5
    <3> QED BY <3>1, <2>1, <2>2, <2>5, SelectsSame
  <2> QED BY <2>4, <2>5
<1>8. Len(s) \in N
  <2> HIDE DEF N
  <2> QED BY <1>0, <1>6, <1>7, Induction
<1> QED BY <1>0, <1>3, <1>8

(* The elements of a flattened sequence are the elements of its elements. *)
LEMMA FlattenType ==
  ASSUME NEW S, NEW ss \in Seq(Seq(S))
  PROVE  FlattenSeq(ss) \in Seq(S)
<1> DEFINE n == Len(ss)
           Rec(F) == [i \in 1..n |-> IF i = 1 THEN ss[i] ELSE F[i - 1] \o ss[i]]
           flatten == CHOOSE F : F = Rec(F)
<1>0. n \in Nat /\ (\A i \in 1..n : ss[i] \in Seq(S)) /\ (n = 0 => ss = <<>>)
  OBVIOUS
<1> HIDE DEF n
<1>1. \E F : F = Rec(F)
  <2> DEFINE T == Seq(S)  base == <<>>
             step == [p \in T \X (1..n) |-> p[1] \o ss[p[2]]]
  <2>1. base \in T
    OBVIOUS
  <2>2. step \in [T \X (1..n) -> T]
    BY <1>0
  <2>3. \E F : Computes(F, T, base, n, step)
    <3> HIDE DEF step, T, base
    <3> QED BY <1>0, <2>1, <2>2, Recursion
  <2>4. PICK F : Computes(F, T, base, n, step)
    BY <2>3
  <2>5. /\ F \in [0..n -> T] /\ F[0] = <<>>
        /\ \A i \in 1..n : F[i] = step[<<F[i - 1], i>>]
    <3> HIDE DEF step, T
    <3> QED BY <2>4 DEF Computes
  <2>6. ASSUME NEW i \in 1..n PROVE F[i] = F[i - 1] \o ss[i]
    <3>1. <<F[i - 1], i>> \in T \X (1..n)
      BY <2>5, <1>0
    <3> QED BY <2>5, <3>1
  <2> DEFINE G == [i \in 1..n |-> F[i]]
  <2>7. ASSUME NEW i \in 1..n PROVE G[i] = Rec(G)[i]
    <3>1. CASE i = 1
      <4>1. 1 \in 1..n /\ 1 - 1 = 0
        BY <3>1
      <4>2. F[1] = F[0] \o ss[1]
        BY <4>1, <2>6
      <4>3. F[1] = <<>> \o ss[1] /\ ss[1] \in Seq(S)
        BY <4>1, <4>2, <2>5, <1>0
      <4>4. F[1] = ss[1]
        BY <4>3
      <4> QED BY <4>4, <3>1
    <3>2. CASE i # 1
      <4>1. i - 1 \in 1..n
        BY <3>2, <1>0
      <4> QED BY <4>1, <3>2, <2>6
    <3> QED BY <3>1, <3>2
  <2>8. G = Rec(G)
    BY <2>7
  <2> QED BY <2>8
<1>2. flatten = Rec(flatten)
  BY <1>1
<1>3. n # 0 => FlattenSeq(ss) = flatten[n]
  BY DEF FlattenSeq, n
<1>4. n = 0 => FlattenSeq(ss) = ss
  BY DEF FlattenSeq, n
<1> HIDE DEF flatten
<1> DEFINE N == {k \in Nat : k + 1 <= n => flatten[k + 1] \in Seq(S)}
<1>5. 0 \in N
  <2>1. 1 <= n => flatten[1] = ss[1] /\ ss[1] \in Seq(S)
    BY <1>2, <1>0
  <2> QED BY <2>1
<1>6. ASSUME NEW k \in Nat, k \in N PROVE k + 1 \in N
  <2> SUFFICES ASSUME k + 2 <= n PROVE flatten[k + 2] \in Seq(S)
    BY <1>0
  <2>1. k + 2 \in 1..n /\ k + 2 # 1 /\ (k + 2) - 1 = k + 1
    BY <1>0
  <2>2. flatten[k + 2] = flatten[k + 1] \o ss[k + 2]
    BY <2>1, <1>2
  <2>3. flatten[k + 1] \in Seq(S)
    BY <1>0, <1>6
  <2> QED BY <2>1, <2>2, <2>3, <1>0
<1>7. \A k \in Nat : k \in N
  <2> HIDE DEF N
  <2> QED BY <1>5, <1>6, Induction
<1>8. n # 0 => n - 1 \in Nat /\ (n - 1) + 1 = n
  BY <1>0
<1>9. CASE n = 0
  <2>1. <<>> \in Seq(S)
    OBVIOUS
  <2> QED BY <2>1, <1>9, <1>0, <1>4
<1>10. CASE n # 0
  <2>1. n - 1 \in N /\ (n - 1) + 1 = n
    BY <1>10, <1>7, <1>8
  <2>2. flatten[n] \in Seq(S)
    BY <2>1, <1>0
  <2> QED BY <2>2, <1>10, <1>3
<1> QED BY <1>9, <1>10

-----------------------------------------------------------------------------
(* The element a fold over a set takes next. *)
AnElement(s) == CHOOSE x \in s : TRUE

(* A fold ends: each element it takes leaves a smaller set. *)
LEMMA OneLess ==
  ASSUME NEW S, IsFiniteSet(S), NEW s \in SUBSET S
  PROVE  /\ IsFiniteSet(s) /\ Cardinality(s) \in Nat
         /\ Cardinality(s) = 0 <=> s = {}
         /\ s # {} => /\ AnElement(s) \in s /\ AnElement(s) \in S
                      /\ s \ {AnElement(s)} \in SUBSET S
                      /\ Cardinality(s \ {AnElement(s)}) = Cardinality(s) - 1
BY FS_Subset, FS_CardinalityType, FS_EmptySet, FS_RemoveElement DEF AnElement

(* it[s] is what the fold of SumFunctionOnSet has of a part s of S.          *)
AddsUp(it, f, S) ==
  /\ it \in [SUBSET S -> Int]
  /\ it[{}] = 0
  /\ \A s \in SUBSET S : s # {} => it[s] = f[AnElement(s)] + it[s \ {AnElement(s)}]

(* The sum of f over S is what such a function has of all of S. *)
LEMMA SumAddsUp ==
  ASSUME NEW S, IsFiniteSet(S), NEW f, f \in [S -> Int]
  PROVE  \E it : AddsUp(it, f, S) /\ SumFunctionOnSet(f, S) = it[S]
<1> DEFINE Rec(it) == [s \in SUBSET S |->
                         IF s = {} THEN 0 ELSE f[AnElement(s)] + it[s \ {AnElement(s)}]]
           Upto(n) == {s \in SUBSET S : Cardinality(s) <= n}
           N == {n \in Nat : \E it \in [SUBSET S -> Int] :
                   \A s \in Upto(n) : it[s] = Rec(it)[s]}
<1>1. 0 \in N
  <2> DEFINE it == [s \in SUBSET S |-> 0]
  <2>1. it \in [SUBSET S -> Int]
    OBVIOUS
  <2>2. ASSUME NEW s \in Upto(0) PROVE s = {}
    <3>1. s \in SUBSET S /\ Cardinality(s) <= 0
      OBVIOUS
    <3>2. Cardinality(s) \in Nat
      BY <3>1, OneLess
    <3>3. Cardinality(s) = 0
      BY <3>1, <3>2
    <3> QED BY <3>1, <3>3, OneLess
  <2>3. \A s \in Upto(0) : it[s] = Rec(it)[s]
    BY <2>2
  <2> HIDE DEF it
  <2> QED BY <2>1, <2>3
<1>2. ASSUME NEW n \in Nat, n \in N PROVE n + 1 \in N
  <2>1. PICK it \in [SUBSET S -> Int] : \A s \in Upto(n) : it[s] = Rec(it)[s]
    BY <1>2
  <2> DEFINE more == Rec(it)
  <2>2. more \in [SUBSET S -> Int]
    <3> SUFFICES ASSUME NEW s \in SUBSET S, s # {}
                 PROVE  f[AnElement(s)] + it[s \ {AnElement(s)}] \in Int
      OBVIOUS
    <3>1. AnElement(s) \in S /\ s \ {AnElement(s)} \in SUBSET S
      BY OneLess
    <3> QED BY <3>1
  <2>3. ASSUME NEW s \in Upto(n + 1) PROVE more[s] = Rec(more)[s]
    <3>1. CASE s = {}
      BY <3>1
    <3>2. CASE s # {}
      <4>1. s \in SUBSET S /\ Cardinality(s) <= n + 1
        OBVIOUS
      <4>2. s \ {AnElement(s)} \in Upto(n)
        <5>1. /\ s \ {AnElement(s)} \in SUBSET S
              /\ Cardinality(s \ {AnElement(s)}) = Cardinality(s) - 1
              /\ Cardinality(s) \in Nat
          BY <3>2, <4>1, OneLess
        <5>2. Cardinality(s \ {AnElement(s)}) <= n
          BY <5>1, <4>1
        <5> QED BY <5>1, <5>2
      <4>3. more[s \ {AnElement(s)}] = it[s \ {AnElement(s)}]
        BY <4>2, <2>1
      <4> QED BY <4>3, <3>2
    <3> QED BY <3>1, <3>2
  <2>4. n + 1 \in Nat
    OBVIOUS
  <2> HIDE DEF more
  <2> QED BY <2>2, <2>3, <2>4
<1>3. Cardinality(S) \in N
  <2>1. Cardinality(S) \in Nat
    BY OneLess
  <2> HIDE DEF N
  <2> QED BY <1>1, <1>2, <2>1, Induction
<1>4. \E it : it = Rec(it)
  <2>1. PICK it \in [SUBSET S -> Int] : \A s \in Upto(Cardinality(S)) : it[s] = Rec(it)[s]
    BY <1>3
  <2>2. Upto(Cardinality(S)) = SUBSET S
    BY FS_Subset
  <2>3. it = [s \in SUBSET S |-> it[s]]
    OBVIOUS
  <2>4. it = Rec(it)
    BY <2>1, <2>2, <2>3
  <2> QED BY <2>4
<1> DEFINE iter == CHOOSE it : it = Rec(it)
<1>5. iter = Rec(iter)
  BY <1>4
<1>6. SumFunctionOnSet(f, S) = iter[S]
  BY DEF SumFunctionOnSet, FoldFunctionOnSet, MapThenFoldSet, AnElement
<1>7. iter = [s \in SUBSET S |-> iter[s]] /\ iter[{}] = 0
      /\ \A s \in SUBSET S : s # {} => iter[s] = f[AnElement(s)] + iter[s \ {AnElement(s)}]
  BY <1>5
<1> HIDE DEF iter
<1> DEFINE M == {n \in Nat : \A s \in SUBSET S : Cardinality(s) = n => iter[s] \in Int}
<1>8. 0 \in M
  <2> SUFFICES ASSUME NEW s \in SUBSET S, Cardinality(s) = 0 PROVE iter[s] \in Int
    OBVIOUS
  <2>1. s = {}
    BY OneLess
  <2> QED BY <2>1, <1>7
<1>9. ASSUME NEW n \in Nat, n \in M PROVE n + 1 \in M
  <2> SUFFICES ASSUME NEW s \in SUBSET S, Cardinality(s) = n + 1 PROVE iter[s] \in Int
    OBVIOUS
  <2>0. s # {}
    BY OneLess
  <2>1. /\ s \ {AnElement(s)} \in SUBSET S /\ Cardinality(s \ {AnElement(s)}) = n
        /\ AnElement(s) \in S
    BY <2>0, OneLess
  <2>2. iter[s \ {AnElement(s)}] \in Int /\ f[AnElement(s)] \in Int
    BY <2>1, <1>9
  <2>3. iter[s] = f[AnElement(s)] + iter[s \ {AnElement(s)}]
    BY <2>0, <1>7
  <2> QED BY <2>2, <2>3
<1>10. \A n \in Nat : n \in M
  <2> HIDE DEF M
  <2> QED BY <1>8, <1>9, Induction
<1>11. iter \in [SUBSET S -> Int]
  <2> SUFFICES ASSUME NEW s \in SUBSET S PROVE iter[s] \in Int
    BY <1>7
  <2>1. Cardinality(s) \in Nat
    BY OneLess
  <2> QED BY <2>1, <1>10
<1> QED BY <1>6, <1>7, <1>11 DEF AddsUp

(* And there is one such function only. *)
LEMMA SumIs ==
  ASSUME NEW S, IsFiniteSet(S), NEW f, f \in [S -> Int], NEW h, AddsUp(h, f, S)
  PROVE  SumFunctionOnSet(f, S) = h[S]
<1>1. PICK it : AddsUp(it, f, S) /\ SumFunctionOnSet(f, S) = it[S]
  BY SumAddsUp
<1> DEFINE N == {n \in Nat : \A s \in SUBSET S : Cardinality(s) = n => h[s] = it[s]}
<1>2. 0 \in N
  <2> SUFFICES ASSUME NEW s \in SUBSET S, Cardinality(s) = 0 PROVE h[s] = it[s]
    OBVIOUS
  <2>1. s = {}
    BY OneLess
  <2> QED BY <2>1, <1>1 DEF AddsUp
<1>3. ASSUME NEW n \in Nat, n \in N PROVE n + 1 \in N
  <2> SUFFICES ASSUME NEW s \in SUBSET S, Cardinality(s) = n + 1 PROVE h[s] = it[s]
    OBVIOUS
  <2>0. s # {}
    BY OneLess
  <2>1. s \ {AnElement(s)} \in SUBSET S /\ Cardinality(s \ {AnElement(s)}) = n
    BY <2>0, OneLess
  <2>2. h[s \ {AnElement(s)}] = it[s \ {AnElement(s)}]
    BY <2>1, <1>3
  <2> QED BY <2>0, <2>2, <1>1 DEF AddsUp
<1>4. Cardinality(S) \in N
  <2>1. Cardinality(S) \in Nat
    BY OneLess
  <2> HIDE DEF N
  <2> QED BY <1>2, <1>3, <2>1, Induction
<1> QED BY <1>1, <1>4

(* A sum of integers is one, *)
LEMMA SumType ==
  ASSUME NEW S, IsFiniteSet(S), NEW f, f \in [S -> Int]
  PROVE  SumFunctionOnSet(f, S) \in Int
<1>1. PICK it : AddsUp(it, f, S) /\ SumFunctionOnSet(f, S) = it[S]
  BY SumAddsUp
<1>2. it \in [SUBSET S -> Int] /\ S \in SUBSET S
  BY <1>1 DEF AddsUp
<1> QED BY <1>1, <1>2

(* a sum of zeros is zero, *)
LEMMA SumOfNothing ==
  ASSUME NEW S, IsFiniteSet(S), NEW f, f \in [S -> Int], \A x \in S : f[x] = 0
  PROVE  SumFunctionOnSet(f, S) = 0
<1> DEFINE h == [s \in SUBSET S |-> 0]
<1>1. h \in [SUBSET S -> Int] /\ h[{}] = 0 /\ h[S] = 0
  OBVIOUS
<1>2. ASSUME NEW s \in SUBSET S, s # {}
      PROVE  h[s] = f[AnElement(s)] + h[s \ {AnElement(s)}]
  <2>1. AnElement(s) \in S /\ s \ {AnElement(s)} \in SUBSET S
    BY <1>2, OneLess
  <2> QED BY <2>1
<1>3. AddsUp(h, f, S)
  <2> HIDE DEF h
  <2> QED BY <1>1, <1>2 DEF AddsUp
<1> HIDE DEF h
<1> QED BY <1>1, <1>3, SumIs

(* and a sum grows by one when one of its terms does. *)
LEMMA SumOneMore ==
  ASSUME NEW S, IsFiniteSet(S), NEW f, f \in [S -> Int], NEW g, g \in [S -> Int],
         NEW a \in S, g[a] = f[a] + 1, \A x \in S \ {a} : g[x] = f[x]
  PROVE  SumFunctionOnSet(g, S) = SumFunctionOnSet(f, S) + 1
<1>1. PICK it : AddsUp(it, f, S) /\ SumFunctionOnSet(f, S) = it[S]
  BY SumAddsUp
<1> DEFINE h == [s \in SUBSET S |-> it[s] + (IF a \in s THEN 1 ELSE 0)]
<1>2. h \in [SUBSET S -> Int] /\ h[{}] = 0 /\ h[S] = it[S] + 1
  BY <1>1 DEF AddsUp
<1>3. ASSUME NEW s \in SUBSET S, s # {}
      PROVE  h[s] = g[AnElement(s)] + h[s \ {AnElement(s)}]
  <2>1. PICK x \in s : x = AnElement(s)
    BY <1>3, OneLess
  <2>2. /\ s \ {x} \in SUBSET S /\ it[s] = f[x] + it[s \ {x}] /\ f[x] \in Int
        /\ it[s \ {x}] \in Int
    BY <1>1, <1>3, <2>1 DEF AddsUp
  <2>3. h[s] = it[s] + (IF a \in s THEN 1 ELSE 0)
        /\ h[s \ {x}] = it[s \ {x}] + (IF a \in s \ {x} THEN 1 ELSE 0)
    BY <2>2
  <2>4. CASE x = a
    BY <2>1, <2>2, <2>3, <2>4
  <2>5. CASE x # a
    <3>1. g[x] = f[x] /\ (a \in s <=> a \in s \ {x})
      BY <2>5
    <3> QED BY <3>1, <2>1, <2>2, <2>3
  <2> QED BY <2>4, <2>5
<1> HIDE DEF h
<1>4. SumFunctionOnSet(g, S) = h[S]
  <2>1. AddsUp(h, g, S)
    BY <1>2, <1>3 DEF AddsUp
  <2> QED BY <2>1, SumIs
<1> QED BY <1>1, <1>2, <1>4

(* n numbers, the first r of which are q + 1 and the others q. *)
LEMMA SumOfEvenParts ==
  ASSUME NEW n \in Nat, NEW q \in Int, NEW r \in 0..n, NEW f,
         f = [i \in 1..n |-> q + (IF i <= r THEN 1 ELSE 0)]
  PROVE  SumFunctionOnSet(f, 1..n) = n * q + r
<1> DEFINE S == 1..n  R == 1..r
           h == [s \in SUBSET S |-> Cardinality(s) * q + Cardinality(s \cap R)]
<1>1. IsFiniteSet(S) /\ Cardinality(S) = n /\ IsFiniteSet(R) /\ Cardinality(R) = r
  <2>1. 1 \in Int /\ n \in Int /\ r \in Int
    OBVIOUS
  <2> QED BY <2>1, FS_Interval
<1>2. f \in [S -> Int] /\ S \cap R = R
      /\ \A x \in S : f[x] = IF x \in R THEN q + 1 ELSE q
  OBVIOUS
<1> HIDE DEF S, R
<1>3. ASSUME NEW s \in SUBSET S
      PROVE  /\ IsFiniteSet(s) /\ Cardinality(s) \in Nat
             /\ IsFiniteSet(s \cap R) /\ Cardinality(s \cap R) \in Nat
  BY <1>1, FS_Subset, FS_CardinalityType
<1>4. h \in [SUBSET S -> Int]
  <2> SUFFICES ASSUME NEW s \in SUBSET S
               PROVE  Cardinality(s) * q + Cardinality(s \cap R) \in Int
    OBVIOUS
  <2>1. PICK c \in Nat, k \in Nat : c = Cardinality(s) /\ k = Cardinality(s \cap R)
    BY <1>3
  <2>2. c * q + k \in Int
    OBVIOUS
  <2> QED BY <2>1, <2>2
<1>5. h[{}] = 0
  <2>1. {} \cap R = {} /\ Cardinality({}) = 0
    BY FS_EmptySet
  <2> QED BY <2>1
<1>6. h[S] = n * q + r
  BY <1>1, <1>2
<1>7. ASSUME NEW s \in SUBSET S, s # {}
      PROVE  h[s] = f[AnElement(s)] + h[s \ {AnElement(s)}]
  <2>1. PICK x \in s : x = AnElement(s)
    BY <1>1, <1>7, OneLess
  <2>2. PICK c \in Nat, k \in Nat :
          c = Cardinality(s \ {x}) /\ k = Cardinality((s \ {x}) \cap R)
    <3>1. s \ {x} \in SUBSET S
      OBVIOUS
    <3> QED BY <3>1, <1>3
  <2>3. PICK d \in Nat, l \in Nat : d = Cardinality(s) /\ l = Cardinality(s \cap R)
    BY <1>3
  <2>4. h[s] = d * q + l /\ h[s \ {x}] = c * q + k
    BY <2>2, <2>3
  <2>5. d = c + 1
    <3>1. IsFiniteSet(s)
      BY <1>3
    <3>2. Cardinality(s \ {x}) = Cardinality(s) - 1
      BY <3>1, FS_RemoveElement
    <3>3. c = d - 1
      BY <3>2, <2>2, <2>3
    <3> QED BY <3>3
  <2>6. d * q = c * q + q
    BY <2>5
  <2> HIDE DEF h
  <2>7. CASE x \in R
    <3>1. x \in s \cap R /\ (s \ {x}) \cap R = (s \cap R) \ {x} /\ IsFiniteSet(s \cap R)
      BY <2>7, <1>3
    <3>2. Cardinality((s \cap R) \ {x}) = Cardinality(s \cap R) - 1
      BY <3>1, FS_RemoveElement
    <3>3. k = l - 1
      BY <3>1, <3>2, <2>2, <2>3
    <3>4. f[x] = q + 1
      BY <2>7, <1>2
    <3>5. h[s] = f[x] + h[s \ {x}]
      <4>1. PICK e \in Int, m \in Int : e = d * q /\ m = c * q
        OBVIOUS
      <4> QED BY <4>1, <3>3, <3>4, <2>4, <2>6
    <3> QED BY <3>5, <2>1
  <2>8. CASE x \notin R
    <3>1. (s \ {x}) \cap R = s \cap R
      BY <2>8
    <3>2. f[x] = q /\ k = l
      BY <2>8, <1>2, <3>1, <2>2, <2>3
    <3>3. h[s] = f[x] + h[s \ {x}]
      <4>1. PICK e \in Int, m \in Int : e = d * q /\ m = c * q
        OBVIOUS
      <4> QED BY <4>1, <3>2, <2>4, <2>6
    <3> QED BY <3>3, <2>1
  <2> QED BY <2>7, <2>8
<1> HIDE DEF h
<1>8. AddsUp(h, f, S)
  BY <1>4, <1>5, <1>7 DEF AddsUp
<1> QED BY <1>1, <1>2, <1>6, <1>8, SumIs DEF S

-----------------------------------------------------------------------------
(* Division by a positive number rounds down, *)
LEMMA Division ==
  ASSUME NEW a \in Int, NEW d \in Nat \ {0}
  PROVE  /\ a \div d \in Int /\ a % d \in Int
         /\ a = d * (a \div d) + (a % d)
         /\ 0 <= a % d /\ a % d < d
OBVIOUS

(* and is the only one that does; *)
LEMMA DivisionUnique ==
  ASSUME NEW a \in Int, NEW d \in Nat \ {0}, NEW q \in Int, NEW r \in Int,
         a = d * q + r, 0 <= r, r < d
  PROVE  a \div d = q /\ a % d = r
<1>1. PICK p \in Int, s \in Int : p = a \div d /\ s = a % d /\ a = d * p + s /\ 0 <= s /\ s < d
  BY Division
<1>2. d * (p - q) = r - s
  BY <1>1
<1>3. p = q
  <2>1. CASE p > q
    <3>1. d * (p - q) >= d
       BY <2>1, <1>1
    <3> QED BY <3>1, <1>2, <1>1
  <2>2. CASE p < q
    <3>1. d * (p - q) <= -d
       BY <2>2, <1>1
    <3> QED BY <3>1, <1>2, <1>1
  <2> QED BY <2>1, <2>2, <1>1
<1> QED BY <1>1, <1>2, <1>3

(* it keeps the order, *)
LEMMA DivMono ==
  ASSUME NEW a \in Int, NEW b \in Int, NEW d \in Nat \ {0}, a <= b
  PROVE  a \div d <= b \div d
OBVIOUS

(* it keeps what is a divisor apart, apart, *)
LEMMA DivNext ==
  ASSUME NEW a \in Int, NEW b \in Int, NEW d \in Nat \ {0}, a + d <= b
  PROVE  a \div d + 1 <= b \div d
OBVIOUS

(* and what it is to be under a quotient, it is to be under the dividend. *)
LEMMA DivBound ==
  ASSUME NEW a \in Int, NEW b \in Int, NEW d \in Nat \ {0}
  PROVE  a <= b \div d <=> a * d <= b
OBVIOUS

-----------------------------------------------------------------------------
(* The length of a sequence, and what is in it. *)
LEMMA Elements ==
  ASSUME NEW S, NEW s \in Seq(S)
  PROVE  /\ Len(s) \in Nat /\ DOMAIN s = 1..Len(s)
         /\ \A i \in 1..Len(s) : s[i] \in S
         /\ s # <<>> <=> 1 \in 1..Len(s)
<1>1. Len(s) \in Nat /\ DOMAIN s = 1..Len(s) /\ \A i \in 1..Len(s) : s[i] \in S
  OBVIOUS
<1>2. s = <<>> <=> Len(s) = 0
  OBVIOUS
<1> QED BY <1>1, <1>2

(* A function of the numbers up to n is a sequence of length n. *)
LEMMA Made ==
  ASSUME NEW S, NEW n \in Nat, NEW s, s = [i \in 1..n |-> s[i]], \A i \in 1..n : s[i] \in S
  PROVE  s \in Seq(S) /\ Len(s) = n /\ DOMAIN s = 1..n
OBVIOUS
=============================================================================
