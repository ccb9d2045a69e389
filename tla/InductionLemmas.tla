-------------------------- MODULE InductionLemmas ---------------------------
(***************************************************************************)
(* Induction over a range of numbers, stated with a set where the library  *)
(* has an operator: the provers can instantiate a set.  To show P for all  *)
(* of 0 .. m, take S == {k \in 0 .. m : P(k)}.                             *)
(***************************************************************************)
EXTENDS Integers, WellFoundedInduction, TLAPS

\* A set of natural numbers that is not empty has a smallest member.
LEMMA SmallestOf ==
    ASSUME NEW T, T \subseteq Nat, T # {}
    PROVE  \E m \in T : \A k \in T : m =< k
<1> DEFINE R == OpToRel(<, Nat)
<1>1. IsWellFoundedOn(R, Nat)
  BY NatLessThanWellFounded
<1>2. \A x, y \in Nat : y < x => <<y, x>> \in R
  BY DEF OpToRel
<1>3. \E x \in T : \A y \in T : ~ (<<y, x>> \in R)
  <2> HIDE DEF R
  <2> QED BY <1>1, WFMin
<1> HIDE DEF R
<1>4. PICK m \in T : \A y \in T : ~ (<<y, m>> \in R)
  BY <1>3
<1>5. ASSUME NEW k \in T PROVE m =< k
  <2>1. m \in Nat /\ k \in Nat
    OBVIOUS
  <2>2. ~ (k < m)
    BY <1>2, <1>4, <2>1, Zenon
  <2> QED BY <2>1, <2>2
<1> QED
  BY <1>5

\* A set that holds 0 and, with every number below m, the next one holds all
\* of 0 .. m.
LEMMA InductionOn ==
    ASSUME NEW m \in Nat, NEW S, 0 \in S, \A k \in 1 .. m : k - 1 \in S => k \in S
    PROVE  0 .. m \subseteq S
<1> DEFINE T == {k \in 0 .. m : k \notin S}
<1> SUFFICES ASSUME T # {} PROVE FALSE
  OBVIOUS
<1>1. T \subseteq Nat
  OBVIOUS
<1>2. PICK k \in T : \A j \in T : k =< j
  <2> HIDE DEF T
  <2> QED BY <1>1, SmallestOf
<1>3. k \in 1 .. m /\ k \notin S
  OBVIOUS
<1>4. k - 1 \in 0 .. m /\ k - 1 \notin T
  BY <1>2, <1>3
<1> QED
  BY <1>3, <1>4
=============================================================================
