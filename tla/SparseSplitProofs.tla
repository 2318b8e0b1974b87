------------------------- MODULE SparseSplitProofs -------------------------
(***************************************************************************)
(* The slices of the splits partition the block table, for every table     *)
(* length and every number of splits.                                      *)
(***************************************************************************)
EXTENDS SparseSplit, TLAPS

LEMMA CeilDivEnough ==
  ASSUME NEW a \in Nat, NEW b \in Nat \ {0}
  PROVE  /\ CeilDiv(a, b) \in Nat
         /\ b * CeilDiv(a, b) >= a
         /\ a > 0 => CeilDiv(a, b) > 0
<1> DEFINE n == a + b - 1
<1>1. n \in Nat
  OBVIOUS
<1>2. n \div b \in Nat /\ n % b \in 0 .. b - 1 /\ n = b * (n \div b) + (n % b)
  BY <1>1
<1>3. b * (n \div b) >= a
  BY <1>2
<1>4. a > 0 => n \div b > 0
  BY <1>2, <1>3
<1> QED BY <1>2, <1>3, <1>4 DEF CeilDiv

LEMMA ProductMonotone ==
  ASSUME NEW i \in Nat, NEW j \in Nat, NEW p \in Nat, i < j
  PROVE  i * p + p <= j * p
<1>1. PICK d \in Nat : j = i + 1 + d
  BY j - i - 1 \in Nat, j = i + 1 + (j - i - 1)
<1>2. j * p = i * p + p + d * p
  BY <1>1
<1>3. d * p \in Nat /\ i * p \in Nat
  OBVIOUS
<1> QED BY <1>2, <1>3

(* A slice is the part of [idx * p, idx * p + p) below total, p being the  *)
(* per-split length.                                                       *)
LEMMA SliceBounds ==
  ASSUME NEW idx \in Nat, NEW n \in Nat \ {0}, NEW total \in Nat \ {0}
  PROVE  LET p == CeilDiv(total, n) IN
         /\ p \in Nat \ {0}
         /\ n * p >= total
         /\ idx * p \in Nat
         /\ \A x \in 0 .. total - 1 :
              Covers(Slice(idx, n, total), x) <=> (idx * p <= x /\ x < idx * p + p)
<1> DEFINE p == CeilDiv(total, n)
           b == idx * p
<1>1. p \in Nat \ {0} /\ n * p >= total
  BY CeilDivEnough
<1>2. b \in Nat
  BY <1>1
<1>3. Slice(idx, n, total) = [begin |-> b, num |-> Greater(0, Lesser(b + p, total) - b)]
  BY DEF Slice
<1> HIDE DEF p, b
<1>4. ASSUME NEW x \in 0 .. total - 1
      PROVE  Covers(Slice(idx, n, total), x) <=> (b <= x /\ x < b + p)
  BY <1>1, <1>2, <1>3 DEF Covers, Greater, Lesser
<1> QED BY <1>1, <1>2, <1>4 DEF p, b

(* Every entry of the block table is in exactly one split's slice, so the  *)
(* combined splits attend to every listed block exactly once.              *)
THEOREM SlicesPartition ==
  ASSUME NEW n \in Nat \ {0}, NEW total \in Nat, NEW x \in 0 .. total - 1
  PROVE  /\ \E i \in 0 .. n - 1 : Covers(Slice(i, n, total), x)
         /\ \A i, j \in 0 .. n - 1 :
              Covers(Slice(i, n, total), x) /\ Covers(Slice(j, n, total), x) => i = j
<1> DEFINE p == CeilDiv(total, n)
<1>1. total \in Nat \ {0} /\ x \in Nat /\ x < total
  OBVIOUS
<1>2. p \in Nat \ {0} /\ n * p >= total
  BY <1>1, CeilDivEnough
<1>3. \A i \in Nat : Covers(Slice(i, n, total), x) <=> (i * p <= x /\ x < i * p + p)
  BY <1>1, SliceBounds
<1> HIDE DEF p
<1>4. \E i \in 0 .. n - 1 : Covers(Slice(i, n, total), x)
  <2> DEFINE i == x \div p
  <2>1. i \in Nat /\ x % p \in 0 .. p - 1 /\ x = p * i + (x % p)
    BY <1>1, <1>2
  <2>2. i * p <= x /\ x < i * p + p
    BY <1>2, <2>1
  <2>3. i < n
    <3>1. SUFFICES ASSUME n <= i PROVE FALSE
      BY <2>1
    <3>2. n * p <= i * p
      BY <1>2, <2>1, <3>1
    <3> QED BY <1>1, <1>2, <2>1, <2>2, <3>2
  <2> QED BY <1>3, <2>1, <2>2, <2>3
<1>5. ASSUME NEW i \in 0 .. n - 1, NEW j \in 0 .. n - 1, i < j,
             Covers(Slice(i, n, total), x), Covers(Slice(j, n, total), x)
      PROVE  FALSE
  <2>1. i * p + p <= j * p
    BY <1>2, <1>5, ProductMonotone
  <2>2. x < i * p + p /\ j * p <= x
    BY <1>3, <1>5
  <2>3. i * p \in Nat /\ j * p \in Nat
    BY <1>2
  <2> QED BY <1>1, <1>2, <2>1, <2>2, <2>3
<1>6. \A i, j \in 0 .. n - 1 :
        Covers(Slice(i, n, total), x) /\ Covers(Slice(j, n, total), x) => i = j
  BY <1>5
<1> QED BY <1>4, <1>6

=============================================================================
