--------------------------- MODULE PositionProofs ---------------------------
(***************************************************************************)
(* Positions in a sequence: what the proofs about event queues and         *)
(* requests have in common.                                                *)
(***************************************************************************)
EXTENDS Integers, WellFoundedInduction, NaturalsInduction, TLAPS

\* A non-empty set of positions has a last one.
LEMMA LastPosition ==
  ASSUME NEW m \in Nat, NEW S \in SUBSET (1..m), S # {}
  PROVE  \E x \in S : \A y \in S : y <= x
<1> DEFINE R == OpToRel(<, Nat)
           T == {m - x : x \in S}
<1>1. IsWellFoundedOn(R, Nat)
  BY NatLessThanWellFounded
<1>2. T \subseteq Nat /\ T # {}
  <2>1. PICK x \in S : TRUE
    OBVIOUS
  <2>2. m - x \in T
    BY <2>1
  <2>3. \A y \in S : m - y \in Nat
    OBVIOUS
  <2> QED BY <2>2, <2>3
<1>3. PICK d \in T : \A e \in T : ~(<<e, d>> \in R)
  <2> HIDE DEF R, T
  <2> QED BY <1>1, <1>2, WFMin
<1>4. PICK x \in S : d = m - x
  BY <1>3
<1>5. \A i, j \in Nat : i < j => <<i, j>> \in R
  BY DEF OpToRel
<1>6. ASSUME NEW y \in S PROVE y <= x
  <2>1. m - y \in T /\ m - y \in Nat /\ m - x \in Nat
    BY <1>2
  <2>2. ~(m - y < m - x)
    BY <1>3, <1>4, <1>5, <2>1
  <2> QED BY <2>2
<1> QED BY <1>6
=============================================================================
