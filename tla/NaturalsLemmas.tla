--------------------------- MODULE NaturalsLemmas ---------------------------
(***************************************************************************)
(* Natural numbers, without induction: what the searches through tables    *)
(* from their beginning need.                                              *)
(***************************************************************************)
EXTENDS Integers, FiniteSets, FiniteSetTheorems, TLAPS

\* A set of natural numbers that is not empty has a least element, so that
\* First (TfsState, BoxFs), the first free entry of a table, is one of them:
\* the segments 0 .. x of the elements x of S are finite sets, and among those
\* strict inclusion is well-founded.
LEMMA LeastNumber == ASSUME NEW S \in SUBSET Nat, S # {} PROVE \E x \in S : \A y \in S : x <= y
<1> DEFINE Segments == {0 .. x : x \in S}
<1>1. Segments \subseteq FiniteSubsetsOf(Nat) /\ Segments # {}
  <2>1. ASSUME NEW x \in S PROVE 0 .. x \in FiniteSubsetsOf(Nat)
    <3>1. IsFiniteSet(0 .. x)
      BY FS_Interval
    <3> QED BY <3>1 DEF FiniteSubsetsOf
  <2> QED BY <2>1
<1>2. PICK T \in Segments : \A U \in Segments : <<U, T>> \notin StrictSubsetOrdering(Nat)
  <2> HIDE DEF Segments
  <2> QED BY <1>1, FS_StrictSubsetOrderingWellFounded, WFMin
<1>3. PICK x \in S : T = 0 .. x
  OBVIOUS
<1>4. ASSUME NEW y \in S, y < x PROVE FALSE
  <2>1. <<0 .. y, 0 .. x>> \in StrictSubsetOrdering(Nat)
    <3>1. x \in 0 .. x /\ x \notin 0 .. y
      BY <1>4
    <3> QED BY <3>1, <1>4 DEF StrictSubsetOrdering
  <2> QED BY <2>1, <1>2, <1>3
<1> QED
  BY <1>4
=============================================================================
