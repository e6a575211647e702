------------------------------ MODULE Recursion ------------------------------
(***************************************************************************)
(* Induction and recursion over numbers, by way of smallest elements: what *)
(* proofs need of the recursive functions that add up an audit trail, read *)
(* the digits of a timestamp or replay a row's history.                    *)
(***************************************************************************)
EXTENDS Integers, WellFoundedInduction, TLAPS

\* A non-empty set of naturals has a smallest element.
LEMMA Smallest ==
  ASSUME NEW S, S \subseteq Nat, S # {}
  PROVE  \E m \in S : \A x \in S : m <= x
<1>1. IsWellFoundedOn(OpToRel(<, Nat), Nat)
  BY NatLessThanWellFounded
<1>2. PICK m \in S : \A y \in S : ~(<<y, m>> \in OpToRel(<, Nat))
  BY <1>1, WFMin
<1>3. \A y \in S : ~(y < m)
  BY <1>2 DEF OpToRel
<1> QED
  BY <1>3

\* Induction on 0..N for the members of a set.
LEMMA Induction ==
  ASSUME NEW N \in Nat, NEW P, 0 \in P,
         \A n \in 0..N : n # N /\ n \in P => n + 1 \in P
  PROVE  \A n \in 0..N : n \in P
<1> DEFINE S == {n \in 0..N : n \notin P}
<1>1. SUFFICES ASSUME S # {} PROVE FALSE
  OBVIOUS
<1>2. PICK m \in S : \A x \in S : m <= x
  <2>1. S \subseteq Nat
    OBVIOUS
  <2> QED
    BY <1>1, <2>1, Smallest
<1>3. m # 0 /\ m - 1 \in 0..N /\ m - 1 # N /\ m - 1 \notin S
  BY <1>2
<1>4. (m - 1) + 1 \in P
  BY <1>3
<1> QED
  BY <1>2, <1>4

\* A function on 0..n that starts with a and goes on by the steps.
Runs(g, n, a, step) ==
  /\ g = [k \in 0..n |-> g[k]] /\ g[0] = a
  /\ \A k \in 1..n : g[k] = step[k][g[k - 1]]

\* There is one.
LEMMA RecursionExists ==
  ASSUME NEW N \in Nat, NEW a, NEW step
  PROVE  \E g : Runs(g, N, a, step)
<1> DEFINE P == {n \in 0..N : \E g : Runs(g, n, a, step)}
<1>1. 0 \in P
  <2> DEFINE g == [k \in 0..0 |-> a]
  <2>1. g = [k \in 0..0 |-> g[k]] /\ g[0] = a
    OBVIOUS
  <2>2. Runs(g, 0, a, step)
    BY <2>1 DEF Runs
  <2> QED
    BY <2>2
<1>2. ASSUME NEW n \in 0..N, n # N, n \in P PROVE n + 1 \in P
  <2>1. PICK g : Runs(g, n, a, step)
    BY <1>2
  <2> DEFINE h == [k \in 0..(n + 1) |-> IF k = n + 1 THEN step[n + 1][g[n]] ELSE g[k]]
  <2>2. h = [k \in 0..(n + 1) |-> h[k]] /\ h[0] = a
    BY <2>1 DEF Runs
  <2>3. ASSUME NEW k \in 1..(n + 1) PROVE h[k] = step[k][h[k - 1]]
    <3>1. k \in 0..(n + 1) /\ k - 1 \in 0..(n + 1) /\ k - 1 # n + 1 /\ (k = n + 1 => k - 1 = n)
      BY <1>2
    <3>2. h[k - 1] = g[k - 1]
      BY <3>1
    <3>3. CASE k = n + 1
      BY <3>1, <3>2, <3>3, Zenon
    <3>4. CASE k # n + 1
      <4>1. k \in 1..n
        BY <1>2, <3>4
      <4>2. g[k] = step[k][g[k - 1]]
        BY <2>1, <4>1 DEF Runs
      <4>3. h[k] = g[k]
        BY <3>1, <3>4
      <4> QED
        BY <3>2, <4>2, <4>3, Zenon
    <3> QED
      BY <3>3, <3>4
  <2> HIDE DEF h
  <2>4. Runs(h, n + 1, a, step)
    BY <2>2, <2>3 DEF Runs
  <2> QED
    BY <1>2, <2>4
<1> HIDE DEF P
<1>3. \A n \in 0..N : n \in P
  BY <1>1, <1>2, Induction
<1> QED
  BY <1>3 DEF P

\* Two of them agree as far as their steps do.
LEMMA RecursionAgrees ==
  ASSUME NEW M \in Nat, NEW N \in Nat, M <= N, NEW a, NEW g, NEW h, NEW s, NEW t,
         Runs(g, M, a, s), Runs(h, N, a, t), \A k \in 1..M : s[k] = t[k]
  PROVE  g[M] = h[M]
<1> DEFINE P == {n \in 0..M : g[n] = h[n]}
<1>1. 0 \in P
  BY DEF Runs
<1>2. ASSUME NEW n \in 0..M, n # M, n \in P PROVE n + 1 \in P
  <2>1. n + 1 \in 1..M /\ n + 1 \in 1..N /\ (n + 1) - 1 = n
    BY <1>2
  <2>2. g[n + 1] = s[n + 1][g[n]] /\ h[n + 1] = t[n + 1][h[n]]
    BY <2>1 DEF Runs
  <2> QED
    BY <1>2, <2>1, <2>2
<1> HIDE DEF P
<1>3. \A n \in 0..M : n \in P
  BY <1>1, <1>2, Induction
<1> QED
  BY <1>3 DEF P

\* Steps within a set stay in it.
LEMMA RecursionTyped ==
  ASSUME NEW N \in Nat, NEW X, NEW a \in X, NEW step \in [1..N -> [X -> X]], NEW g,
         Runs(g, N, a, step)
  PROVE  g \in [0..N -> X]
<1> DEFINE P == {n \in 0..N : g[n] \in X}
<1>1. 0 \in P
  BY DEF Runs
<1>2. ASSUME NEW n \in 0..N, n # N, n \in P PROVE n + 1 \in P
  <2>1. n + 1 \in 1..N /\ n + 1 \in 0..N /\ (n + 1) - 1 = n
    BY <1>2
  <2>2. g[n + 1] = step[n + 1][g[n]] /\ step[n + 1] \in [X -> X]
    BY <2>1 DEF Runs
  <2> QED
    BY <1>2, <2>1, <2>2
<1> HIDE DEF P
<1>3. \A n \in 0..N : n \in P
  BY <1>1, <1>2, Induction
<1>4. \A n \in 0..N : g[n] \in X
  BY <1>3 DEF P
<1> QED
  BY <1>4 DEF Runs
==============================================================================
