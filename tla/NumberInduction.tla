-------------------------- MODULE NumberInduction --------------------------
(***************************************************************************)
(* Induction over natural numbers, stated about sets: the library states   *)
(* it about predicates, as a parameter that the provers cannot be given.   *)
(***************************************************************************)
EXTENDS Naturals, NaturalsInduction, WellFoundedInduction, TLAPS

\* A set of numbers has a least one.
LEMMA LeastNumber ==
  ASSUME NEW T \in SUBSET Nat, T # {}
  PROVE  \E m \in T : \A n \in T : m <= n
<1>1. PICK m \in T : \A n \in T : <<n, m>> \notin OpToRel(<, Nat)
  BY WFMin, NatLessThanWellFounded, Zenon
<1>2. ASSUME NEW n \in T PROVE m <= n
  <2>1. ~(n < m)
    BY <1>1, Zenon DEF OpToRel
  <2> QED BY <2>1
<1> QED BY <1>2

\* A set that has zero and with each number the next one has them all.
LEMMA Induction ==
  ASSUME NEW Good, 0 \in Good, \A n \in Nat : n \in Good => n + 1 \in Good
  PROVE  Nat \subseteq Good
<1> SUFFICES ASSUME NEW n \in Nat, n \notin Good PROVE FALSE
  OBVIOUS
<1>1. PICK m \in Nat : /\ m \notin Good
                       /\ \A k \in Nat : k \notin Good => m <= k
  <2>1. {k \in Nat : k \notin Good} \in SUBSET Nat /\ {k \in Nat : k \notin Good} # {}
    OBVIOUS
  <2> QED BY <2>1, LeastNumber
<1>2. m - 1 \in Nat /\ m - 1 \in Good
  BY <1>1
<1> QED BY <1>1, <1>2

=============================================================================
