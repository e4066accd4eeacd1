----------------------------- MODULE BasicLemmas -----------------------------
(***************************************************************************)
(* Facts about sets of naturals and sequences that several proofs use.     *)
(* Loops over a list or a table are written in the models with Max and Min *)
(* of a set of positions: the proofs need that these exist.  A minimal     *)
(* counterexample, found with LeastNat, also takes the place of induction. *)
(***************************************************************************)
EXTENDS Integers, Sequences, FiniteSetsExt, WellFoundedInduction, SequenceTheorems, TLAPS

LessThan == {ss \in Nat \X Nat : ss[1] < ss[2]}

(* A non-empty set of naturals has a least element.                        *)
LEMMA LeastNat ==
  ASSUME NEW T, T \subseteq Nat, T # {}
  PROVE  \E x \in T : \A y \in T : x <= y
<1>1. IsWellFoundedOn(LessThan, Nat)
  BY NatLessThanWellFounded DEF OpToRel, LessThan
<1>2. PICK x \in T : \A y \in T : ~(<<y, x>> \in LessThan)
  BY <1>1, WFMin
<1>3. \A y \in T : y < x => <<y, x>> \in LessThan
  BY DEF LessThan
<1>4. \A y \in T : ~(y < x)
  BY <1>2, <1>3, Zenon
<1>5. \A y \in T : x <= y
  BY <1>4
<1> QED
  BY <1>5

(* Min of a non-empty set of naturals is its least element.                *)
LEMMA MinIsLeast ==
  ASSUME NEW S, S \subseteq Nat, S # {}
  PROVE  Min(S) \in S /\ \A y \in S : Min(S) <= y
  BY LeastNat DEF Min

(* Max of a non-empty and bounded set of naturals is its greatest element. *)
LEMMA MaxIsGreatest ==
  ASSUME NEW S, NEW b \in Nat, S \subseteq 0 .. b, S # {}
  PROVE  Max(S) \in S /\ \A y \in S : Max(S) >= y
<1> DEFINE T == {n \in Nat : b - n \in S}
<1>1. T \subseteq Nat /\ T # {}
  <2>1. PICK s \in S : TRUE
    OBVIOUS
  <2>2. s \in 0 .. b /\ b - s \in Nat /\ b - (b - s) = s
    BY <2>1
  <2> QED
    BY <2>2
<1>2. PICK x \in T : \A y \in T : x <= y
  BY <1>1, LeastNat
<1>3. b - x \in S
  BY <1>2
<1>4. \A y \in S : b - x >= y
  <2> TAKE y \in S
  <2>1. y \in 0 .. b /\ b - y \in Nat /\ b - (b - y) = y
    OBVIOUS
  <2>2. b - y \in T
    BY <2>1
  <2> QED
    BY <2>1, <2>2, <1>2
<1> QED
  BY <1>3, <1>4 DEF Max

(* A sequence is cut in two by SubSeq.                                     *)
LEMMA CutInTwo ==
  ASSUME NEW S, NEW q \in Seq(S), NEW n \in 0 .. Len(q)
  PROVE  SubSeq(q, 1, n) \o SubSeq(q, n + 1, Len(q)) = q
<1>1. 1 \in 1 .. Len(q) + 1 /\ n \in 1 - 1 .. Len(q) /\ Len(q) \in n .. Len(q)
  OBVIOUS
<1>2. SubSeq(q, 1, n) \o SubSeq(q, n + 1, Len(q)) = SubSeq(q, 1, Len(q))
  BY <1>1, ConcatAdjacentSubSeq, Zenon
<1>3. SubSeq(q, 1, Len(q)) = q
  BY SubSeqFull
<1> QED
  BY <1>2, <1>3

(* What SubSeq from position n + 1 on is: a sequence again, shifted.       *)
LEMMA Suffix ==
  ASSUME NEW S, NEW q \in Seq(S), NEW n \in 0 .. Len(q)
  PROVE  LET r == SubSeq(q, n + 1, Len(q))
         IN  /\ r \in Seq(S) /\ Len(r) = Len(q) - n
             /\ \A i \in 1 .. Len(q) - n : r[i] = q[n + i]
  OBVIOUS

(* And SubSeq up to position n.                                            *)
LEMMA Prefix ==
  ASSUME NEW S, NEW q \in Seq(S), NEW n \in 0 .. Len(q)
  PROVE  LET r == SubSeq(q, 1, n)
         IN  /\ r \in Seq(S) /\ Len(r) = n
             /\ \A i \in 1 .. n : r[i] = q[i]
  OBVIOUS

(* Arithmetic modulo the range of an unsigned type, at its edge.           *)
LEMMA ModSmall ==
  ASSUME NEW n \in Nat, NEW m \in Nat, n < m
  PROVE  n % m = n
  OBVIOUS

(* And the wrap to zero.                                                   *)
LEMMA ModSelf ==
  ASSUME NEW m \in Nat, m > 0
  PROVE  m % m = 0
  OBVIOUS
==============================================================================
