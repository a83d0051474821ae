---------------------------- MODULE LeastNatural ----------------------------
(***************************************************************************)
(* Induction for the proofs about the operators that compute by recursion: *)
(* the library's induction theorems are about an operator, which the       *)
(* provers cannot supply; the least counterexample is a member of a set.   *)
(***************************************************************************)
EXTENDS Naturals, FiniteSetTheorems, TLAPS

\* A set of naturals has a least member.
LEMMA Least ==
  ASSUME NEW S \in SUBSET Nat, S # {}
  PROVE  \E m \in S : \A k \in S : m <= k
  <1> DEFINE F == {0 .. i : i \in S}
  <1>1. \A i \in S : IsFiniteSet(0 .. i) /\ 0 .. i \in SUBSET Nat
    BY FS_Interval
  <1>2. F \subseteq FiniteSubsetsOf(Nat) /\ F # {}
    BY <1>1 DEF FiniteSubsetsOf
  <1>3. IsWellFoundedOn(StrictSubsetOrdering(Nat), FiniteSubsetsOf(Nat))
    BY FS_StrictSubsetOrderingWellFounded
  <1> HIDE DEF F
  <1>4. PICK I \in F : \A J \in F : ~ (<<J, I>> \in StrictSubsetOrdering(Nat))
    BY <1>2, <1>3, WFMin
  <1>5. PICK m \in S : I = 0 .. m
    BY <1>4 DEF F
  <1>6. ASSUME NEW k \in S, k < m PROVE FALSE
    <2>1. 0 .. k \in F /\ 0 .. k \in SUBSET Nat /\ I \in SUBSET Nat
      BY <1>1, <1>5 DEF F
    <2>2. 0 .. k \subseteq I /\ 0 .. k # I
      BY <1>5, <1>6
    <2>3. <<0 .. k, I>> \in StrictSubsetOrdering(Nat)
      BY <2>1, <2>2 DEF StrictSubsetOrdering
    <2> QED BY <1>4, <2>1, <2>3
  <1> QED BY <1>6

=============================================================================
