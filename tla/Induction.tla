----------------------------- MODULE Induction ------------------------------
(***************************************************************************)
(* Induction without operator parameters, for the recursive functions of   *)
(* the models: over sets of numbers instead of predicates, and with step   *)
(* functions instead of step operators.                                    *)
(***************************************************************************)
EXTENDS Integers, WellFoundedInduction, TLAPS

(* A non-empty set of numbers has a least one.                             *)
LEMMA LeastOf ==
  ASSUME NEW T \in SUBSET Nat, T # {}
  PROVE  \E x \in T : \A y \in T : x <= y
<1> DEFINE R == OpToRel(<, Nat)
<1>1. IsWellFoundedOn(R, Nat)
  BY NatLessThanWellFounded, Zenon
<1>2. \A x, y \in Nat : x < y => <<x, y>> \in R
  BY DEF OpToRel
<1> HIDE DEF R
<1>3. PICK x \in T : \A y \in T : ~(<<y, x>> \in R)
  BY <1>1, WFMin
<1>4. \A y \in T : ~(y < x)
  BY <1>2, <1>3
<1> QED BY <1>4

(* A set that has 0 and with each number the next has them all.            *)
LEMMA Inductive ==
  ASSUME NEW S, 0 \in S, \A n \in Nat : n \in S => n + 1 \in S
  PROVE  \A n \in Nat : n \in S
<1> DEFINE T == {n \in Nat : n \notin S}
<1> SUFFICES ASSUME T # {} PROVE FALSE
  OBVIOUS
<1>1. PICK x \in T : \A y \in T : x <= y
  BY LeastOf
<1>2. x # 0 /\ x - 1 \in Nat /\ x - 1 \notin T
  BY <1>1
<1>3. (x - 1) + 1 \in S
  BY <1>2
<1> QED BY <1>1, <1>3

(* What starts at x0 and goes on by a step exists as a function.           *)
Iterates(f, n, x0, step) ==
  f[0] = x0 /\ \A k \in 0..(n - 1) : f[k + 1] = step[k][f[k]]

IsIteration(f, X, x0, step) ==
  f \in [Nat -> X] /\ f[0] = x0 /\ \A n \in Nat : f[n + 1] = step[n][f[n]]

LEMMA IterationsExist ==
  ASSUME NEW X, NEW x0 \in X, NEW step \in [Nat -> [X -> X]]
  PROVE  \E f : IsIteration(f, X, x0, step)
<1> DEFINE S == {n \in Nat : \E f \in [Nat -> X] : Iterates(f, n, x0, step)}
<1>1. 0 \in S
  <2> DEFINE f == [n \in Nat |-> x0]
  <2>1. f \in [Nat -> X] /\ Iterates(f, 0, x0, step)
    BY DEF Iterates
  <2> QED BY <2>1
<1>2. ASSUME NEW n \in Nat, n \in S PROVE n + 1 \in S
  <2>1. PICK f \in [Nat -> X] : Iterates(f, n, x0, step)
    BY <1>2
  <2> DEFINE g == [k \in Nat |-> IF k = n + 1 THEN step[n][f[n]] ELSE f[k]]
  <2>2. step[n] \in [X -> X] /\ f[n] \in X
    OBVIOUS
  <2>3. g \in [Nat -> X]
    BY <2>2
  <2>4. Iterates(g, n + 1, x0, step)
    <3>1. g[0] = x0 /\ g[n + 1] = step[n][f[n]] /\ \A k \in 0..n : g[k] = f[k]
      BY <2>1 DEF Iterates
    <3>2. ASSUME NEW k \in 0..n PROVE g[k + 1] = step[k][g[k]]
      <4>1. CASE k = n
        BY <3>1, <4>1
      <4>2. CASE k # n
        <5>1. k + 1 \in 0..n /\ k \in 0..(n - 1)
          BY <4>2
        <5> QED BY <3>1, <5>1, <2>1 DEF Iterates
      <4> QED BY <4>1, <4>2
    <3> HIDE DEF g
    <3> QED BY <3>1, <3>2 DEF Iterates
  <2> HIDE DEF g
  <2> QED BY <2>3, <2>4
<1> HIDE DEF S
<1>3. \A n \in Nat : n \in S
  BY <1>1, <1>2, Inductive
<1> DEFINE F(n) == CHOOSE f \in [Nat -> X] : Iterates(f, n, x0, step)
<1>4. \A n \in Nat : F(n) \in [Nat -> X] /\ Iterates(F(n), n, x0, step)
  BY <1>3 DEF S
<1> HIDE DEF F
<1>5. ASSUME NEW n \in Nat, NEW m \in Nat, NEW f \in [Nat -> X], NEW g \in [Nat -> X],
             Iterates(f, n, x0, step), Iterates(g, m, x0, step), n <= m
      PROVE  f[n] = g[n]
  <2> DEFINE A == {k \in Nat : k <= n => f[k] = g[k]}
  <2>1. 0 \in A
    BY <1>5 DEF Iterates
  <2>2. ASSUME NEW k \in Nat, k \in A PROVE k + 1 \in A
    <3> SUFFICES ASSUME k + 1 <= n PROVE f[k + 1] = g[k + 1]
      OBVIOUS
    <3>1. k \in 0..(n - 1) /\ k \in 0..(m - 1) /\ f[k] = g[k]
      BY <1>5, <2>2
    <3> QED BY <1>5, <3>1 DEF Iterates
  <2> HIDE DEF A
  <2>3. n \in A
    BY <2>1, <2>2, Inductive
  <2> QED BY <2>3 DEF A
<1> DEFINE h == [n \in Nat |-> F(n)[n]]
<1>6. h \in [Nat -> X]
  BY <1>4
<1>7. h[0] = x0
  BY <1>4 DEF Iterates
<1>8. ASSUME NEW n \in Nat PROVE h[n + 1] = step[n][h[n]]
  <2>1. F(n + 1)[n + 1] = step[n][F(n + 1)[n]]
    BY <1>4 DEF Iterates
  <2>2. F(n + 1)[n] = F(n)[n]
    BY <1>4, <1>5
  <2> QED BY <2>1, <2>2
<1> HIDE DEF h
<1> QED BY <1>6, <1>7, <1>8 DEF IsIteration
=============================================================================
