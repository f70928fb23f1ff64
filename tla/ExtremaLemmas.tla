---------------------------- MODULE ExtremaLemmas ----------------------------
(***************************************************************************)
(* Least and greatest elements of sets of natural numbers, for the proofs  *)
(* about numbered events (GoalRunnerProofs) and about feedback in order of *)
(* creation (GitHubPollerProofs).                                          *)
(***************************************************************************)
EXTENDS Integers, FiniteSetsExt, WellFoundedInduction, TLAPS

\* The order of the natural numbers, as the relation that WFMin takes.
LEMMA LessOnNat == \A x, y \in Nat : x < y <=> <<x, y>> \in OpToRel(<, Nat)
  BY DEF OpToRel

\* A set of natural numbers has a least element, and Min is it.
LEMMA MinOfNats ==
  ASSUME NEW S \in SUBSET Nat, S # {}
  PROVE  Min(S) \in S /\ \A x \in S : Min(S) <= x
  <1>1. PICK least \in S : \A x \in S : ~(<<x, least>> \in OpToRel(<, Nat))
    BY WFMin, NatLessThanWellFounded
  <1>2. \A x \in S : ~(x < least)
    BY <1>1, LessOnNat
  <1>3. \A x \in S : least <= x
    BY <1>2
  <1>4. QED
    BY <1>3 DEF Min

\* A bounded set of natural numbers has a greatest element, and Max is it.
LEMMA MaxOfNats ==
  ASSUME NEW S \in SUBSET Nat, S # {}, NEW bound \in Nat, \A x \in S : x <= bound
  PROVE  Max(S) \in S /\ \A x \in S : x <= Max(S)
  <1> DEFINE gaps == {bound - x : x \in S}
  <1>1. gaps \in SUBSET Nat /\ gaps # {}
    <2>1. \A x \in S : bound - x \in Nat
      OBVIOUS
    <2>2. QED
      BY <2>1
  <1>2. Min(gaps) \in gaps /\ \A g \in gaps : Min(gaps) <= g
    BY <1>1, MinOfNats
  <1>3. PICK most \in S : Min(gaps) = bound - most
    BY <1>2
  <1>4. \A x \in S : bound - most <= bound - x
    BY <1>2, <1>3
  <1>5. \A x \in S : most >= x
    BY <1>4
  <1>6. QED
    BY <1>5 DEF Max
=============================================================================
