------------------------------ MODULE Choosing ------------------------------
(***************************************************************************)
(* The two loops the program is full of, as functions of their counter:    *)
(* an append of what is wanted of a slice, and a multiplication by ten.    *)
(* (The SelectSeq of Sequences and the ^ of Integers mean the same; no     *)
(* prover knows anything of them.)                                         *)
(***************************************************************************)
EXTENDS Integers, Sequences

(* The elements of s that are in K, in their order. *)
Kept(s, K) ==
  LET kept[n \in 0..Len(s)] ==
        IF n = 0 THEN <<>>
        ELSE IF s[n] \in K THEN Append(kept[n - 1], s[n]) ELSE kept[n - 1]
  IN kept[Len(s)]

Pow10(n) ==
  LET power[i \in 0..n] == IF i = 0 THEN 1 ELSE 10 * power[i - 1]
  IN power[n]
=============================================================================
