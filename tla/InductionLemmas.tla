--------------------------- MODULE InductionLemmas ---------------------------
(***************************************************************************)
(* Induction and recursion for the proofs of the other modules, stated     *)
(* over sets and functions instead of predicates and operators: a property *)
(* of numbers is the set of the numbers that have it, and what a recursive *)
(* definition does at each step is a function.                             *)
(***************************************************************************)
EXTENDS Naturals, WellFoundedInduction, TLAPS

(* A set of numbers that is not empty has a least one. *)
LEMMA LeastNatural ==
  ASSUME NEW T \in SUBSET Nat, T # {}
  PROVE  \E m \in T : \A n \in T : m <= n
<1>1. PICK m \in T : \A k \in T : <<k, m>> \notin OpToRel(<, Nat)
  BY WFMin, NatLessThanWellFounded, Zenon
<1>2. \A k \in T : ~(k < m)
  BY <1>1, Zenon DEF OpToRel
<1> QED  BY <1>2

(* A set of numbers below a bound that is not empty has a greatest one. *)
LEMMA GreatestNatural ==
  ASSUME NEW T \in SUBSET Nat, T # {}, NEW b \in Nat, \A n \in T : n <= b
  PROVE  \E m \in T : \A n \in T : n <= m
<1> DEFINE D == {d \in Nat : b - d \in T}
<1>1. D # {}
  <2>1. PICK n \in T : TRUE  OBVIOUS
  <2>2. b - n \in Nat /\ b - (b - n) = n  BY <2>1
  <2> QED  BY <2>1, <2>2
<1>2. PICK d \in D : \A e \in D : d <= e
  BY <1>1, LeastNatural
<1>3. ASSUME NEW n \in T PROVE n <= b - d
  <2>1. b - n \in Nat /\ b - (b - n) = n  OBVIOUS
  <2>2. b - n \in D  BY <2>1
  <2>3. d <= b - n  BY <1>2, <2>2
  <2> QED  BY <2>1, <2>3
<1> QED  BY <1>3

(* Induction: a set of numbers with 0 and the successor of each. *)
LEMMA NaturalInduction ==
  ASSUME NEW S, 0 \in S, \A n \in Nat : n \in S => n + 1 \in S
  PROVE  Nat \subseteq S
<1> SUFFICES ASSUME Nat \ S # {} PROVE FALSE  OBVIOUS
<1>1. PICK m \in Nat \ S : \A n \in Nat \ S : m <= n
  BY LeastNatural
<1>2. m # 0  BY <1>1
<1>3. m - 1 \in Nat /\ (m - 1) + 1 = m  BY <1>1, <1>2
<1>4. m - 1 \in S  BY <1>1, <1>3
<1> QED  BY <1>1, <1>3, <1>4

(* The same up to a number: what holds of 0, and of the successor of each  *)
(* number below the bound of which it holds, holds up to the bound.        *)
LEMMA InductionUpTo ==
  ASSUME NEW S, NEW b \in Nat, 0 \in S,
         \A n \in 0..(b-1) : n \in S => n + 1 \in S
  PROVE  0..b \subseteq S
<1> DEFINE T == {n \in Nat : n <= b => n \in S}
<1>1. 0 \in T  OBVIOUS
<1>2. ASSUME NEW n \in Nat, n \in T PROVE n + 1 \in T
  <2>1. SUFFICES ASSUME n + 1 <= b PROVE n + 1 \in S  OBVIOUS
  <2>2. n \in 0..(b-1) /\ n \in S  BY <2>1, <1>2
  <2> QED  BY <2>2
<1>3. Nat \subseteq T
  <2> HIDE DEF T
  <2> QED  BY <1>1, <1>2, NaturalInduction
<1> QED  BY <1>3

(***************************************************************************)
(* A recursive function f[n \in Nat] is the CHOOSE of a function that      *)
(* satisfies its equation: these lemmas say that there is one.             *)
(***************************************************************************)

(* The first b values of an iteration: a base and one step after another. *)
IsPartial(g, A, base, step, b) ==
  /\ g \in [0..b -> A]
  /\ g[0] = base
  /\ \A n \in 0..(b-1) : g[n+1] = step[n+1][g[n]]

LEMMA PartialIteration ==
  ASSUME NEW A, NEW base \in A, NEW step \in [Nat -> [A -> A]], NEW b \in Nat
  PROVE  \E g : IsPartial(g, A, base, step, b)
<1> DEFINE Iterates(g, c) == /\ g[0] = base
                             /\ \A n \in 0..(c-1) : g[n+1] = step[n+1][g[n]]
           S == {c \in Nat : \E g \in [0..c -> A] : Iterates(g, c)}
<1>1. 0 \in S
  <2>1. Iterates([n \in 0..0 |-> base], 0)  OBVIOUS
  <2> QED  BY <2>1
<1>2. ASSUME NEW c \in Nat, c \in S PROVE c + 1 \in S
  <2>1. PICK g \in [0..c -> A] : Iterates(g, c)  BY <1>2
  <2> DEFINE h == [n \in 0..(c+1) |-> IF n = c + 1 THEN step[c+1][g[c]] ELSE g[n]]
  <2>2. step[c+1][g[c]] \in A  OBVIOUS
  <2>3. h \in [0..(c+1) -> A]  BY <2>2
  <2>4. h[0] = base  BY <2>1
  <2>5. ASSUME NEW n \in 0..c PROVE h[n+1] = step[n+1][h[n]]
    <3>1. CASE n = c  BY <3>1
    <3>2. CASE n < c
      <4>1. n \in 0..(c-1) /\ n + 1 \in 0..c /\ n + 1 # c + 1 /\ n # c + 1  BY <3>2
      <4>2. h[n+1] = g[n+1] /\ h[n] = g[n]  BY <4>1
      <4> QED  BY <4>1, <4>2, <2>1
    <3> QED  BY <3>1, <3>2
  <2>6. Iterates(h, c + 1)
    <3>1. (c + 1) - 1 = c  OBVIOUS
    <3> HIDE DEF h
    <3> QED  BY <3>1, <2>4, <2>5
  <2> QED
    <3> HIDE DEF h, Iterates
    <3> QED  BY <2>3, <2>6
<1>3. Nat \subseteq S
  <2> HIDE DEF S
  <2> QED  BY <1>1, <1>2, NaturalInduction
<1> QED  BY <1>3 DEF IsPartial

(* The same, as an equation for each value but the first. *)
IsPass(g, A, base, step, b) ==
  /\ g \in [0..b -> A]
  /\ g[0] = base
  /\ \A n \in 1..b : g[n] = step[n][g[n-1]]

LEMMA PassExists ==
  ASSUME NEW A, NEW base \in A, NEW step \in [Nat -> [A -> A]], NEW b \in Nat
  PROVE  \E g : IsPass(g, A, base, step, b)
<1>1. PICK g : IsPartial(g, A, base, step, b)
  BY PartialIteration
<1>2. ASSUME NEW n \in 1..b PROVE g[n] = step[n][g[n-1]]
  <2>1. n - 1 \in 0..(b-1) /\ (n - 1) + 1 = n  OBVIOUS
  <2> QED  BY <1>1, <2>1 DEF IsPartial
<1> QED  BY <1>1, <1>2 DEF IsPass, IsPartial

(* The values of an iteration without end. *)
IsIteration(g, A, base, step) ==
  /\ g \in [Nat -> A]
  /\ g[0] = base
  /\ \A n \in Nat : g[n+1] = step[n+1][g[n]]

LEMMA Iteration ==
  ASSUME NEW A, NEW base \in A, NEW step \in [Nat -> [A -> A]]
  PROVE  \E g : IsIteration(g, A, base, step)
<1> DEFINE Iterates(g, c) == /\ g[0] = base
                             /\ \A n \in 0..(c-1) : g[n+1] = step[n+1][g[n]]
           P == [c \in Nat |-> CHOOSE g \in [0..c -> A] : Iterates(g, c)]
<1>1. ASSUME NEW c \in Nat PROVE P[c] \in [0..c -> A] /\ Iterates(P[c], c)
  <2>1. \E g \in [0..c -> A] : Iterates(g, c)
    <3>1. PICK g : IsPartial(g, A, base, step, c)  BY PartialIteration
    <3> QED  BY <3>1 DEF IsPartial
  <2> HIDE DEF Iterates
  <2> QED  BY <2>1
<1> HIDE DEF P
(* They agree where both are defined. *)
<1>2. ASSUME NEW c \in Nat PROVE P[c][c] = P[c+1][c]
  <2> DEFINE S == {n \in 0..c : P[c][n] = P[c+1][n]}
  <2>1. 0 \in S  BY <1>1
  <2>2. ASSUME NEW n \in 0..(c-1), n \in S PROVE n + 1 \in S
    <3>1. n + 1 \in 0..c /\ n \in 0..((c+1)-1)  OBVIOUS
    <3>2. P[c][n+1] = step[n+1][P[c][n]]  BY <1>1
    <3>3. P[c+1][n+1] = step[n+1][P[c+1][n]]  BY <1>1, <3>1
    <3> QED  BY <3>1, <3>2, <3>3, <2>2
  <2>3. 0..c \subseteq S
    <3> HIDE DEF S
    <3> QED  BY <2>1, <2>2, InductionUpTo
  <2> QED  BY <2>3
<1> DEFINE g == [n \in Nat |-> P[n][n]]
<1>3. g \in [Nat -> A]  BY <1>1
<1>4. g[0] = base  BY <1>1
<1>5. ASSUME NEW n \in Nat PROVE g[n+1] = step[n+1][g[n]]
  <2>1. n \in 0..((n+1)-1)  OBVIOUS
  <2>2. P[n+1][n+1] = step[n+1][P[n+1][n]]  BY <2>1, <1>1
  <2> QED  BY <2>2, <1>2
<1>6. IsIteration(g, A, base, step)
  <2> HIDE DEF g
  <2> QED  BY <1>3, <1>4, <1>5 DEF IsIteration
<1> QED  BY <1>6

(* Recursion over data: what a functional makes of x depends on what its   *)
(* argument is on values of a smaller rank only.                           *)
IsRanked(G, X, A, rank) ==
  /\ rank \in [X -> Nat]
  /\ G \in [[X -> A] -> [X -> A]]
  /\ \A f, g \in [X -> A] : \A x \in X :
       (\A y \in X : rank[y] < rank[x] => f[y] = g[y]) => G[f][x] = G[g][x]

IsFixpoint(f, G, X, A) == f \in [X -> A] /\ f = G[f]

LEMMA RankedRecursion ==
  ASSUME NEW X, NEW A, NEW a \in A, NEW rank, NEW G, IsRanked(G, X, A, rank)
  PROVE  \E f : IsFixpoint(f, G, X, A)
<1> USE DEF IsRanked
<1> DEFINE F == [X -> A]
           base == [x \in X |-> a]
           step == [n \in Nat |-> G]
<1>1. PICK h \in [Nat -> F] : \A n \in Nat : h[n+1] = G[h[n]]
  <2>1. base \in F  OBVIOUS
  <2>2. step \in [Nat -> [F -> F]]  OBVIOUS
  <2>3. \A n \in Nat : \A f \in F : step[n+1][f] = G[f]  OBVIOUS
  <2>4. \E h \in [Nat -> F] : /\ h[0] = base
                              /\ \A n \in Nat : h[n+1] = step[n+1][h[n]]
    <3> HIDE DEF base, step, F
    <3>1. \E h : IsIteration(h, F, base, step)  BY <2>1, <2>2, Iteration
    <3> QED  BY <3>1 DEF IsIteration
  <2> HIDE DEF base, step, F
  <2> QED  BY <2>3, <2>4
<1> DEFINE S == {r \in Nat : \A x \in X : rank[x] < r =>
                   \A m, n \in Nat : m >= r /\ n >= r => h[m][x] = h[n][x]}
(* After r steps the values of rank below r no longer change. *)
<1>2. 0 \in S
  <2>1. \A x \in X : rank[x] \in Nat  OBVIOUS
  <2> QED  BY <2>1
<1>3. ASSUME NEW r \in Nat, r \in S PROVE r + 1 \in S
  <2> SUFFICES ASSUME NEW x \in X, rank[x] < r + 1,
                      NEW m \in Nat, NEW n \in Nat, m >= r + 1, n >= r + 1
               PROVE  h[m][x] = h[n][x]
    OBVIOUS
  <2>1. m - 1 \in Nat /\ n - 1 \in Nat /\ m - 1 >= r /\ n - 1 >= r  OBVIOUS
  <2>2. h[m] = G[h[m-1]] /\ h[n] = G[h[n-1]]
    <3>1. m = (m - 1) + 1 /\ n = (n - 1) + 1  OBVIOUS
    <3> QED  BY <1>1, <2>1, <3>1
  <2>3. \A y \in X : rank[y] < rank[x] => h[m-1][y] = h[n-1][y]
    <3>1. \A y \in X : rank[y] \in Nat /\ rank[x] \in Nat  OBVIOUS
    <3>2. \A y \in X : rank[y] < rank[x] => rank[y] < r  BY <3>1
    <3> QED  BY <3>2, <2>1, <1>3
  <2>4. h[m-1] \in F /\ h[n-1] \in F  BY <2>1
  <2>5. G[h[m-1]][x] = G[h[n-1]][x]  BY <2>3, <2>4
  <2> QED  BY <2>2, <2>5
<1>4. \A r \in Nat : r \in S
  <2> HIDE DEF S
  <2> QED  BY <1>2, <1>3, NaturalInduction
<1> DEFINE f == [x \in X |-> h[rank[x]+1][x]]
<1>5. f \in F
  <2>1. ASSUME NEW x \in X PROVE h[rank[x]+1][x] \in A
    <3>1. rank[x] + 1 \in Nat  OBVIOUS
    <3>2. h[rank[x]+1] \in F  BY <3>1
    <3> QED  BY <3>2
  <2> QED  BY <2>1
<1>6. ASSUME NEW x \in X PROVE G[f][x] = f[x]
  <2> DEFINE r == rank[x] + 1
  <2>1. r \in Nat /\ r + 1 \in Nat /\ rank[x] < r /\ rank[x] \in Nat  OBVIOUS
  <2>2. ASSUME NEW y \in X, rank[y] < rank[x] PROVE f[y] = h[r][y]
    <3>1. rank[y] + 1 \in Nat /\ rank[y] < rank[y] + 1 /\ r >= rank[y] + 1  BY <2>1, <2>2
    <3>2. rank[y] + 1 \in S  BY <3>1, <1>4
    <3>3. h[rank[y]+1][y] = h[r][y]  BY <3>1, <3>2, <2>1
    <3> QED  BY <3>3
  <2>3. h[r] \in F  BY <2>1
  <2>4. G[f][x] = G[h[r]][x]
    <3> HIDE DEF f, r
    <3> QED  BY <1>5, <2>2, <2>3
  <2>5. h[r+1] = G[h[r]]  BY <1>1, <2>1
  <2>6. h[r+1][x] = h[r][x]
    <3>1. r \in S  BY <2>1, <1>4
    <3> HIDE DEF r
    <3> QED  BY <3>1, <2>1
  <2> QED  BY <2>4, <2>5, <2>6
<1>7. G[f] = f
  <2>1. G[f] \in F  BY <1>5
  <2>2. \A x \in X : G[f][x] = f[x]  BY <1>6
  <2> HIDE DEF f
  <2> QED  BY <2>1, <2>2, <1>5
<1> QED
  <2> HIDE DEF f
  <2> QED  BY <1>5, <1>7 DEF IsFixpoint
=============================================================================
