------------------------------ MODULE Iteration ------------------------------
(***************************************************************************)
(* Induction over the natural numbers in a form that speaks of sets only,  *)
(* and the functions it defines: what the proofs about walks along chains  *)
(* and lists rest on.                                                      *)
(***************************************************************************)
EXTENDS Integers, WellFoundedInduction, TLAPS

(* A set of natural numbers has a least element.                           *)
LEMMA Least ==
  ASSUME NEW T \in SUBSET Nat, T # {}
  PROVE  \E m \in T : \A n \in T : m <= n
<1> DEFINE R == OpToRel(<, Nat)
<1>1. IsWellFoundedOn(R, Nat)
  BY NatLessThanWellFounded, Zenon
<1>2. \E x \in T : \A y \in T : ~(<<y, x>> \in R)
  <2> HIDE DEF R
  <2> QED BY <1>1, WFMin
<1>3. PICK x \in T : \A y \in T : ~(<<y, x>> \in R)
  BY <1>2
<1>4. \A y \in T : <<y, x>> \in R <=> y < x
  BY Zenon DEF OpToRel
<1> HIDE DEF R
<1>5. \A y \in T : ~(y < x)
  BY <1>3, <1>4
<1>6. \A y \in T : x <= y
  BY <1>5, T \subseteq Nat
<1> QED BY <1>6

(* Induction: a set with 0 and the successor of each of its elements has   *)
(* every natural number.                                                   *)
LEMMA Induct ==
  ASSUME NEW S, 0 \in S, \A n \in Nat : n \in S => n + 1 \in S
  PROVE  Nat \subseteq S
<1> SUFFICES ASSUME ~(Nat \subseteq S) PROVE FALSE
  OBVIOUS
<1>1. PICK m \in Nat \ S : \A n \in Nat \ S : m <= n
  BY Least
<1>2. m # 0 /\ m - 1 \in Nat /\ m - 1 \in S
  BY <1>1
<1> QED BY <1>1, <1>2

\* The first n steps of g from s.
Iterates(f, n, s, g) ==
  f = [k \in 0 .. n |-> IF k = 0 THEN s ELSE g[f[k - 1]]]

(* A function can be followed for any number of steps: the equation of a   *)
(* recursive function like Walk has a solution.                            *)
LEMMA Iterated ==
  ASSUME NEW S, NEW s \in S, NEW g \in [S -> S]
  PROVE  \A n \in Nat : \E f \in [0 .. n -> S] : Iterates(f, n, s, g)
<1> DEFINE T == {n \in Nat : \E f \in [0 .. n -> S] : Iterates(f, n, s, g)}
<1>1. 0 \in T
  <2>1. /\ [k \in 0 .. 0 |-> s] \in [0 .. 0 -> S]
        /\ Iterates([k \in 0 .. 0 |-> s], 0, s, g)
    BY DEF Iterates
  <2> QED BY <2>1
<1>2. ASSUME NEW n \in Nat, n \in T PROVE n + 1 \in T
  <2>1. PICK f \in [0 .. n -> S] : Iterates(f, n, s, g)
    BY <1>2
  <2> DEFINE h == [k \in 0 .. n + 1 |-> IF k = n + 1 THEN g[f[n]] ELSE f[k]]
  <2>2. f[0] = s /\ \A k \in 0 .. n : k # 0 => f[k] = g[f[k - 1]]
    BY <2>1 DEF Iterates
  <2>3. h \in [0 .. n + 1 -> S]
    OBVIOUS
  <2>4. h[0] = s /\ \A k \in 0 .. n + 1 : k # 0 => h[k] = g[h[k - 1]]
    BY <2>2
  <2> HIDE DEF h
  <2>5. Iterates(h, n + 1, s, g)
    BY <2>3, <2>4 DEF Iterates
  <2> QED BY <2>3, <2>5
<1> HIDE DEF T
<1>3. Nat \subseteq T
  BY <1>1, <1>2, Induct
<1> QED BY <1>3 DEF T

(* What holds at the start and is kept by every step holds at every step.  *)
LEMMA Carried ==
  ASSUME NEW n \in Nat, NEW s, NEW g, NEW f, Iterates(f, n, s, g), NEW G,
         s \in G, \A x \in G : g[x] \in G
  PROVE  \A k \in 0 .. n : f[k] \in G
<1> DEFINE T == {k \in Nat : k <= n => f[k] \in G}
<1>1. f[0] = s /\ \A k \in 0 .. n : k # 0 => f[k] = g[f[k - 1]]
  BY DEF Iterates
<1>2. 0 \in T
  BY <1>1
<1>3. ASSUME NEW k \in Nat, k \in T PROVE k + 1 \in T
  BY <1>1, <1>3
<1> HIDE DEF T
<1>4. Nat \subseteq T
  BY <1>2, <1>3, Induct
<1> QED BY <1>4 DEF T
=============================================================================
