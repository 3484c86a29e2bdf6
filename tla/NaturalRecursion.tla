--------------------------- MODULE NaturalRecursion ----------------------------
(***************************************************************************)
(* Induction and recursion over the natural numbers, from what is known of *)
(* finite sets.  The theorems of the library take the property or the      *)
(* definition as an operator; here it is a set, or a function of functions.*)
(***************************************************************************)
EXTENDS Integers, FiniteSets, FiniteSetTheorems, TLAPS

\* Induction: a set that has 0 and, with every number, the next has them all.  If
\* it missed one, adding 1 would be a permutation of those below that never
\* yields 0.
LEMMA SetInduction ==
  ASSUME NEW U, 0 \in U, \A n \in Nat : n \in U => n + 1 \in U
  PROVE  Nat \subseteq U
<1> SUFFICES ASSUME NEW m \in Nat, m \notin U PROVE FALSE
  OBVIOUS
<1> DEFINE V == {n \in 0 .. m : \A k \in 0 .. n : k \in U}
           succ == [n \in V |-> n + 1]
<1>1. IsFiniteSet(V)
  <2>1. V \in SUBSET Nat /\ \A n \in V : n <= m
    OBVIOUS
  <2> HIDE DEF V
  <2> QED  BY <2>1, FS_BoundedSetOfNaturals
<1>2. 0 \in V
  OBVIOUS
<1>3. ASSUME NEW n \in V PROVE n + 1 \in V
  <2>1. n \in Nat /\ n /= m /\ n <= m /\ n + 1 \in U
    OBVIOUS
  <2>2. \A k \in 0 .. n + 1 : k \in U
    BY <2>1
  <2> QED  BY <2>1, <2>2
<1>4. succ \in Injection(V, V)
  BY <1>3 DEF Injection, IsInjective
<1>5. succ \in Surjection(V, V)
  BY <1>1, <1>4, FS_Injection
<1>6. PICK n \in V : succ[n] = 0
  BY <1>2, <1>5 DEF Surjection
<1> QED  BY <1>6

\* Every set of numbers that is not empty has a least one.
LEMMA Smallest ==
  ASSUME NEW T \in SUBSET Nat, T /= {}
  PROVE  \E x \in T : \A y \in T : x <= y
<1> DEFINE U == {n \in Nat : \A y \in T : n <= y}
<1>1. 0 \in U
  OBVIOUS
<1>2. PICK t \in T : TRUE
  OBVIOUS
<1>3. t + 1 \in Nat /\ t + 1 \notin U
  BY <1>2
<1>4. PICK n \in Nat : n \in U /\ n + 1 \notin U
  <2> HIDE DEF U
  <2> QED  BY <1>1, <1>3, SetInduction
<1>5. PICK y \in T : ~(n + 1 <= y)
  BY <1>4
<1> QED  BY <1>4, <1>5

\* What a recursive function may do with the value before.
Steps(S) == [Nat -> [S -> S]]

\* f starts with base and goes on with step.
Recurs(f, S, base, step) ==
  /\ f \in [Nat -> S] /\ f[0] = base
  /\ \A n \in Nat : f[n + 1] = step[n][f[n]]

\* There is a sequence that starts with base and goes on with step.
LEMMA Recursion ==
  ASSUME NEW S, NEW base \in S, NEW step \in Steps(S)
  PROVE  \E f : Recurs(f, S, base, step)
<1>0. step \in [Nat -> [S -> S]]
  BY DEF Steps
<1> DEFINE Begins(g, n) == /\ g \in [0 .. n -> S] /\ g[0] = base
                           /\ \A k \in 0 .. n - 1 : g[k + 1] = step[k][g[k]]
<1>1. ASSUME NEW n \in Nat, NEW g, Begins(g, n) PROVE \E h : Begins(h, n + 1)
  <2> DEFINE h == [k \in 0 .. n + 1 |-> IF k = n + 1 THEN step[n][g[n]] ELSE g[k]]
  <2>1. g[n] \in S /\ step[n][g[n]] \in S
    BY <1>0, <1>1
  <2>2. h \in [0 .. n + 1 -> S]
    BY <1>1, <2>1
  <2>3. h[0] = base
    BY <1>1
  <2>4. ASSUME NEW k \in 0 .. (n + 1) - 1 PROVE h[k + 1] = step[k][h[k]]
    <3>1. CASE k = n
      BY <3>1
    <3>2. CASE k /= n
      <4>1. /\ k \in 0 .. n - 1 /\ k + 1 /= n + 1 /\ k /= n + 1
            /\ k + 1 \in 0 .. n + 1 /\ k \in 0 .. n + 1
        BY <3>2
      <4> QED  BY <1>1, <4>1
    <3> QED  BY <3>1, <3>2
  <2>5. Begins(h, n + 1)
    BY <2>2, <2>3, <2>4
  <2> QED  BY <2>5
<1>2. \A n \in Nat : \E g : Begins(g, n)
  <2> DEFINE U == {n \in Nat : \E g : Begins(g, n)}
  <2>1. Begins([k \in 0 .. 0 |-> base], 0)
    OBVIOUS
  <2>2. 0 \in U
    BY <2>1
  <2>3. \A n \in Nat : n \in U => n + 1 \in U
    <3> HIDE DEF Begins
    <3> QED  BY <1>1
  <2>4. Nat \subseteq U
    <3> HIDE DEF U
    <3> QED  BY <2>2, <2>3, SetInduction
  <2> QED  BY <2>4
<1>3. ASSUME NEW n \in Nat, NEW m \in Nat, NEW g, NEW h, Begins(g, n), Begins(h, m), n <= m
      PROVE  g[n] = h[n]
  <2> DEFINE U == {k \in Nat : k <= n => g[k] = h[k]}
  <2>1. 0 \in U
    BY <1>3
  <2>2. ASSUME NEW k \in Nat, k \in U PROVE k + 1 \in U
    <3> SUFFICES ASSUME k + 1 <= n PROVE g[k + 1] = h[k + 1]
      OBVIOUS
    <3>1. g[k] = h[k] /\ k \in 0 .. n - 1 /\ k \in 0 .. m - 1
      BY <1>3, <2>2
    <3> QED  BY <1>3, <3>1
  <2>3. Nat \subseteq U
    <3> HIDE DEF U
    <3> QED  BY <2>1, <2>2, SetInduction
  <2> QED  BY <2>3
<1> DEFINE part == [n \in Nat |-> CHOOSE g : Begins(g, n)]
           f == [n \in Nat |-> part[n][n]]
<1>4. \A n \in Nat : Begins(part[n], n)
  BY <1>2
<1> HIDE DEF part
<1>5. ASSUME NEW n \in Nat PROVE part[n][n] \in S
  BY <1>4
<1>6. f \in [Nat -> S] /\ f[0] = base
  <2>1. part[0][0] = base
    BY <1>4
  <2> QED  BY <1>5, <2>1
<1>7. ASSUME NEW n \in Nat PROVE f[n + 1] = step[n][f[n]]
  <2>1. Begins(part[n], n) /\ Begins(part[n + 1], n + 1)
    <3> HIDE DEF Begins
    <3> QED  BY <1>4
  <2>2. part[n + 1][n + 1] = step[n][part[n + 1][n]]
    <3>1. n \in 0 .. (n + 1) - 1
      OBVIOUS
    <3> QED  BY <2>1, <3>1
  <2>3. part[n][n] = part[n + 1][n]
    <3> HIDE DEF Begins
    <3> QED  BY <1>3, <2>1
  <2>4. f[n] = part[n][n] /\ f[n + 1] = part[n + 1][n + 1]
    OBVIOUS
  <2> QED  BY <2>2, <2>3, <2>4
<1> HIDE DEF f
<1> QED  BY <1>6, <1>7 DEF Recurs
================================================================================
