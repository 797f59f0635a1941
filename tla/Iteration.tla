----------------------------- MODULE Iteration -----------------------------
(***************************************************************************)
(* Lemmas about what is done once for every number up to a bound: the      *)
(* recursive functions that describe the loops of the code.                *)
(***************************************************************************)
EXTENDS Naturals, WellFoundedInduction, TLAPS

\* A set of numbers that is not empty has a least member.
LEMMA LeastMember ==
    ASSUME NEW S, S \subseteq Nat, S # {}
    PROVE  \E m \in S : \A n \in S : m <= n
<1>1. PICK m \in S : \A n \in S : ~(<<n, m>> \in OpToRel(<, Nat))
  BY NatLessThanWellFounded, WFMin
<1>2. \A n \in S : ~(n < m) BY <1>1 DEF OpToRel
<1> QED BY <1>2

\* And, if it has a bound, a greatest one.
LEMMA GreatestMember ==
    ASSUME NEW N \in Nat, NEW S \in SUBSET (0..N), S # {}
    PROVE  \E m \in S : \A n \in S : n <= m
<1> DEFINE R == {n \in 0..N : N - n \in S}
<1>1. R \subseteq Nat OBVIOUS
<1>2. R # {}
  <2>1. PICK n \in S : TRUE OBVIOUS
  <2>2. N - n \in 0..N /\ N - (N - n) = n OBVIOUS
  <2> QED BY <2>2
<1>3. PICK r \in R : \A n \in R : r <= n
  <2> HIDE DEF R
  <2> QED BY <1>1, <1>2, LeastMember
<1>4. ASSUME NEW n \in S PROVE n <= N - r
  <2>1. N - n \in 0..N /\ N - (N - n) = n OBVIOUS
  <2>2. r <= N - n BY <1>3, <2>1
  <2> QED BY <2>2
<1> QED BY <1>4

\* What holds at the start and is kept by every step holds all along.
LEMMA Stepwise ==
    ASSUME NEW N \in Nat, NEW S, 0 \in S,
           \A n \in 1..N : n - 1 \in S => n \in S
    PROVE  \A n \in 0..N : n \in S
<1> DEFINE R == {n \in 0..N : n \notin S}
<1> SUFFICES ASSUME R # {} PROVE FALSE
  OBVIOUS
<1>1. R \subseteq Nat OBVIOUS
<1>2. PICK r \in R : \A n \in R : r <= n
  <2> HIDE DEF R
  <2> QED BY <1>1, LeastMember
<1>3. r \in 1..N /\ r - 1 \in 0..N /\ ~(r <= r - 1) OBVIOUS
<1>4. r - 1 \in S BY <1>2, <1>3
<1> QED BY <1>3, <1>4

\* The steps of a loop stay in a set; a function describes what they lead to.
StaysIn(D, N, step) == \A n \in 1..N : \A d \in D : step[n][d] \in D

Loops(f, D, N, start, step) ==
    /\ f \in [0..N -> D]
    /\ f[0] = start
    /\ \A n \in 1..N : f[n] = step[n][f[n - 1]]

LEMMA LoopExists ==
    ASSUME NEW D, NEW N \in Nat, NEW start \in D, NEW step, StaysIn(D, N, step)
    PROVE  \E f : Loops(f, D, N, start, step)
<1> USE DEF StaysIn
<1> DEFINE Describes(f, k) ==
              f = [n \in 0..k |-> IF n = 0 THEN start ELSE step[n][f[n - 1]]]
           S == {k \in 0..N : \E f \in [0..k -> D] : Describes(f, k)}
<1>1. 0 \in S
  <2> DEFINE f == [n \in 0..0 |-> start]
  <2>1. f \in [0..0 -> D] OBVIOUS
  <2>2. Describes(f, 0) OBVIOUS
  <2> HIDE DEF f
  <2> QED BY <2>1, <2>2
<1>2. ASSUME NEW k \in 1..N, k - 1 \in S PROVE k \in S
  <2>1. PICK f \in [0..(k - 1) -> D] : Describes(f, k - 1) BY <1>2
  <2> DEFINE h == [n \in 0..k |-> IF n = k THEN step[k][f[k - 1]] ELSE f[n]]
  <2>2. \A n \in 0..k : n = k \/ n \in 0..(k - 1) OBVIOUS
  <2>3. k - 1 \in 0..(k - 1) /\ step[k][f[k - 1]] \in D OBVIOUS
  <2>4. h \in [0..k -> D] BY <2>2, <2>3
  <2>5. ASSUME NEW n \in 0..k
        PROVE  h[n] = IF n = 0 THEN start ELSE step[n][h[n - 1]]
    <3>1. n # 0 => h[n - 1] = f[n - 1]
      OBVIOUS
    <3>2. CASE n = k BY <3>1, <3>2
    <3>3. CASE n \in 0..(k - 1)
      <4>1. h[n] = f[n] BY <3>3
      <4>2. f[n] = IF n = 0 THEN start ELSE step[n][f[n - 1]] BY <2>1, <3>3
      <4> QED BY <3>1, <4>1, <4>2
    <3> QED BY <2>2, <3>2, <3>3
  <2>6. Describes(h, k)
    <3> HIDE DEF h
    <3>1. h = [n \in 0..k |-> h[n]] BY <2>4
    <3> QED BY <2>5, <3>1
  <2> HIDE DEF h
  <2>7. k \in 0..N OBVIOUS
  <2> QED BY <2>4, <2>6, <2>7
<1> HIDE DEF S
<1>3. \A k \in 0..N : k \in S BY <1>1, <1>2, Stepwise
<1>4. N \in S BY <1>3
<1>5. PICK f \in [0..N -> D] : Describes(f, N) BY <1>4 DEF S
<1>6. f[0] = start /\ \A n \in 1..N : f[n] = step[n][f[n - 1]] BY <1>5
<1> QED BY <1>6 DEF Loops

\* What holds of a number if it holds of all those below holds of all numbers.
LEMMA FromBelow ==
    ASSUME NEW N \in Nat, NEW S,
           \A n \in 1..N : (\A m \in 1..(n - 1) : m \in S) => n \in S
    PROVE  \A n \in 1..N : n \in S
<1> DEFINE R == {n \in 1..N : n \notin S}
<1> SUFFICES ASSUME R # {} PROVE FALSE
  OBVIOUS
<1>1. R \subseteq Nat OBVIOUS
<1>2. PICK r \in R : \A n \in R : r <= n
  <2> HIDE DEF R
  <2> QED BY <1>1, LeastMember
<1>3. \A m \in 1..(r - 1) : m \in 1..N /\ ~(r <= m) OBVIOUS
<1>4. \A m \in 1..(r - 1) : m \in S BY <1>2, <1>3
<1> QED BY <1>4

\* A value for each number that depends on those of the numbers below it: G says
\* for every function that gives these what the next one is.
GivesIn(G, N, D) == \A n \in 1..N : \A f \in [1..N -> D] : G[n][f] \in D

LooksBelow(G, N, D) ==
    \A n \in 1..N : \A f, g \in [1..N -> D] :
        (\A m \in 1..(n - 1) : f[m] = g[m]) => G[n][f] = G[n][g]

Recursion(f, G, N, D) == f \in [1..N -> D] /\ \A n \in 1..N : f[n] = G[n][f]

LEMMA RecursionExists ==
    ASSUME NEW N \in Nat, NEW D, D # {}, NEW G, GivesIn(G, N, D), LooksBelow(G, N, D)
    PROVE  \E f : Recursion(f, G, N, D)
<1> USE DEF GivesIn, LooksBelow, Recursion
<1> DEFINE F == [1..N -> D]
           step == [n \in 1..N |-> [f \in F |-> [f EXCEPT ![n] = G[n][f]]]]
<1>1. PICK d \in D : TRUE OBVIOUS
<1> DEFINE start == [n \in 1..N |-> d]
<1>2. start \in F OBVIOUS
<1>3. \A n \in 1..N : \A f \in F : step[n][f] \in F OBVIOUS
<1>4. \A n \in 1..N : \A f \in F : /\ step[n][f][n] = G[n][f]
                                   /\ \A m \in 1..N : m # n => step[n][f][m] = f[m]
  OBVIOUS
<1> HIDE DEF step, start
<1>5. StaysIn(F, N, step) BY <1>3 DEF StaysIn
<1> HIDE DEF F
<1>6. PICK h : Loops(h, F, N, start, step) BY <1>2, <1>5, LoopExists
<1>7. h \in [0..N -> F] /\ \A n \in 1..N : h[n] = step[n][h[n - 1]] BY <1>6 DEF Loops
<1> DEFINE S == {n \in 0..N : \A m \in 1..n : h[n][m] = G[m][h[n]]}
<1>8. 0 \in S OBVIOUS
<1>9. ASSUME NEW n \in 1..N, n - 1 \in S PROVE n \in S
  <2>1. h[n - 1] \in F /\ h[n] \in F /\ h[n] = step[n][h[n - 1]] BY <1>7
  <2>2. h[n][n] = G[n][h[n - 1]] /\ \A m \in 1..N : m # n => h[n][m] = h[n - 1][m]
    BY <1>4, <2>1
  <2>3. ASSUME NEW m \in 1..n PROVE G[m][h[n]] = G[m][h[n - 1]]
    <3>1. \A l \in 1..(m - 1) : l \in 1..N /\ l # n OBVIOUS
    <3>2. \A l \in 1..(m - 1) : h[n][l] = h[n - 1][l] BY <2>2, <3>1
    <3> DEFINE a == h[n]
               b == h[n - 1]
    <3>3. a \in [1..N -> D] /\ b \in [1..N -> D] BY <2>1 DEF F
    <3>4. m \in 1..N /\ \A l \in 1..(m - 1) : a[l] = b[l] BY <3>2
    <3> HIDE DEF a, b
    <3>5. G[m][a] = G[m][b] BY <3>3, <3>4
    <3> QED BY <3>5 DEF a, b
  <2>4. ASSUME NEW m \in 1..n PROVE h[n][m] = G[m][h[n]]
    <3>1. CASE m = n BY <2>2, <2>3, <3>1
    <3>2. CASE m # n
      <4>1. m \in 1..(n - 1) /\ m \in 1..N BY <3>2
      <4>2. h[n - 1][m] = G[m][h[n - 1]] BY <1>9, <4>1
      <4> QED BY <2>2, <2>3, <3>2, <4>1, <4>2
    <3> QED BY <3>1, <3>2
  <2> QED BY <2>4
<1> HIDE DEF S
<1>10. \A n \in 0..N : n \in S BY <1>8, <1>9, Stepwise
<1>11. N \in S /\ h[N] \in F BY <1>7, <1>10
<1>12. \A m \in 1..N : h[N][m] = G[m][h[N]] BY <1>11 DEF S
<1> QED BY <1>11, <1>12 DEF F
=============================================================================
