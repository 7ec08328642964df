-------------------------------- MODULE Induction --------------------------------
(***************************************************************************)
(* Induction over the naturals, stated about sets: the theorems of the     *)
(* library are about operators, which the provers cannot instantiate.      *)
(***************************************************************************)
EXTENDS Naturals, TLAPS, WellFoundedInduction

Smaller == {p \in Nat \X Nat : p[1] < p[2]}

LEMMA SmallerWellFounded == IsWellFoundedOn(Smaller, Nat)
  BY NatLessThanWellFounded DEF OpToRel, Smaller

\* A set of naturals has a least element.
LEMMA Least ==
    ASSUME NEW T \in SUBSET Nat, T # {}
    PROVE  \E m \in T : \A n \in T : m <= n
  <1>1. PICK m \in T : \A n \in T : ~(<<n, m>> \in Smaller)
    BY SmallerWellFounded, WFMin
  <1>2. \A n \in T : ~(n < m)
    BY <1>1 DEF Smaller
  <1>. QED
    BY <1>2

\* A set that has 0, and with every natural the next one, has all.
LEMMA NaturalsByInduction ==
    ASSUME NEW T, 0 \in T, \A n \in Nat : n \in T => n + 1 \in T
    PROVE  Nat \subseteq T
  <1> SUFFICES ASSUME Nat \ T # {} PROVE FALSE
    OBVIOUS
  <1>1. PICK m \in Nat \ T : \A n \in Nat \ T : m <= n
    BY Least
  <1>2. m # 0 /\ m - 1 \in Nat /\ m - 1 \notin Nat \ T
    BY <1>1
  <1>. QED
    BY <1>1, <1>2

================================================================================
