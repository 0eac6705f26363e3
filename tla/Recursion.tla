----------------------------- MODULE Recursion -----------------------------
(***************************************************************************)
(* Induction and recursion on the natural numbers, for sets and functions  *)
(* instead of operators: a property is the set of the numbers that have    *)
(* it, and the step of a recursion is a function. The provers can          *)
(* instantiate these facts. They carry every proof about a loop of the     *)
(* program.                                                                *)
(***************************************************************************)
EXTENDS Integers, WellFoundedInduction, TLAPS

\* A set of natural numbers has a least element.
LEMMA LeastOf ==
  ASSUME NEW T \in SUBSET Nat, T # {}
  PROVE  \E m \in T : \A n \in T : m <= n
  <1>1. PICK m \in T : \A n \in T : ~(<<n, m>> \in OpToRel(<, Nat))
    BY NatLessThanWellFounded, WFMin
  <1>2. \A n \in T : ~(n < m)
    BY <1>1 DEF OpToRel
  <1> QED
    BY <1>2

\* A set that holds 0 and the successor of each number it holds has them all.
LEMMA InductionOnNat ==
  ASSUME NEW T, 0 \in T, \A n \in Nat : n \in T => n + 1 \in T
  PROVE  \A n \in Nat : n \in T
  <1> DEFINE U == Nat \ T
  <1> SUFFICES ASSUME U # {} PROVE FALSE
    OBVIOUS
  <1>1. PICK m \in U : \A n \in U : m <= n
    BY LeastOf
  <1>2. m \in Nat /\ m # 0
    BY <1>1
  <1>3. m - 1 \in Nat /\ m - 1 \in T
    BY <1>1, <1>2
  <1>4. (m - 1) + 1 = m
    BY <1>2
  <1> QED
    BY <1>1, <1>3, <1>4

\* The same up to a bound.
LEMMA InductionUpTo ==
  ASSUME NEW N \in Nat, NEW T, 0 \in T, \A n \in 0..(N - 1) : n \in T => n + 1 \in T
  PROVE  \A n \in 0..N : n \in T
  <1> DEFINE U == {n \in Nat : n <= N => n \in T}
  <1>1. 0 \in U
    OBVIOUS
  <1>2. ASSUME NEW n \in Nat, n \in U PROVE n + 1 \in U
    <2>1. n + 1 <= N => n \in 0..(N - 1) /\ n <= N
      OBVIOUS
    <2> QED
      BY <1>2, <2>1
  <1> HIDE DEF U
  <1>3. \A n \in Nat : n \in U
    BY <1>1, <1>2, InductionOnNat
  <1> QED
    BY <1>3 DEF U

\* The values of the recursion from a by the steps F, up to m.
IsRun(g, m, S, a, F) ==
  /\ g \in [0..m -> S] /\ g[0] = a
  /\ \A i \in 1..m : g[i] = F[i][g[i - 1]]

LEMMA RunsAgree ==
  ASSUME NEW S, NEW a, NEW F, NEW m \in Nat, NEW n \in Nat, NEW g, NEW h,
         IsRun(g, m, S, a, F), IsRun(h, n, S, a, F)
  PROVE  \A i \in Nat : i <= m /\ i <= n => g[i] = h[i]
  <1> DEFINE T == {i \in Nat : i <= m /\ i <= n => g[i] = h[i]}
  <1>1. 0 \in T
    BY DEF IsRun
  <1>2. ASSUME NEW i \in Nat, i \in T PROVE i + 1 \in T
    <2> SUFFICES ASSUME i + 1 <= m, i + 1 <= n PROVE g[i + 1] = h[i + 1]
      OBVIOUS
    <2>1. i <= m /\ i <= n /\ i + 1 \in 1..m /\ i + 1 \in 1..n /\ (i + 1) - 1 = i
      OBVIOUS
    <2>2. g[i] = h[i]
      BY <1>2, <2>1
    <2>3. g[i + 1] = F[i + 1][g[i]] /\ h[i + 1] = F[i + 1][h[i]]
      BY <2>1 DEF IsRun
    <2> QED
      BY <2>2, <2>3
  <1> HIDE DEF T
  <1>3. \A i \in Nat : i \in T
    BY <1>1, <1>2, InductionOnNat
  <1> QED
    BY <1>3 DEF T

LEMMA RunExists ==
  ASSUME NEW S, NEW a \in S, NEW F, \A i \in Nat \ {0} : F[i] \in [S -> S]
  PROVE  \A m \in Nat : \E g : IsRun(g, m, S, a, F)
  <1> DEFINE T == {m \in Nat : \E g : IsRun(g, m, S, a, F)}
  <1>1. 0 \in T
    <2>1. IsRun([i \in 0..0 |-> a], 0, S, a, F)
      BY DEF IsRun
    <2> QED
      BY <2>1
  <1>2. ASSUME NEW m \in Nat, m \in T PROVE m + 1 \in T
    <2>1. PICK g : IsRun(g, m, S, a, F)
      BY <1>2
    <2> DEFINE h == [i \in 0..(m + 1) |-> IF i <= m THEN g[i] ELSE F[m + 1][g[m]]]
    <2>2. F[m + 1] \in [S -> S] /\ g \in [0..m -> S]
      BY <2>1 DEF IsRun
    <2>3. F[m + 1][g[m]] \in S
      BY <2>2
    <2>4. h \in [0..(m + 1) -> S] /\ h[0] = a
      BY <2>1, <2>2, <2>3 DEF IsRun
    <2>5. ASSUME NEW i \in 1..(m + 1) PROVE h[i] = F[i][h[i - 1]]
      <3>1. CASE i <= m
        <4>1. i \in 1..m /\ i \in 0..(m + 1) /\ i - 1 \in 0..(m + 1) /\ i - 1 <= m
          BY <3>1
        <4>2. h[i] = g[i] /\ h[i - 1] = g[i - 1]
          BY <3>1, <4>1
        <4> QED
          BY <4>1, <4>2, <2>1 DEF IsRun
      <3>2. CASE i = m + 1
        <4>1. i - 1 = m /\ m \in 0..(m + 1) /\ m + 1 \in 0..(m + 1) /\ ~(m + 1 <= m)
          BY <3>2
        <4>2. h[m + 1] = F[m + 1][g[m]] /\ h[m] = g[m]
          BY <4>1
        <4> QED
          BY <3>2, <4>1, <4>2
      <3> QED
        BY <3>1, <3>2
    <2> HIDE DEF h
    <2>6. IsRun(h, m + 1, S, a, F)
      BY <2>4, <2>5 DEF IsRun
    <2> QED
      BY <2>6
  <1> HIDE DEF T
  <1>3. \A m \in Nat : m \in T
    BY <1>1, <1>2, InductionOnNat
  <1> QED
    BY <1>3 DEF T

\* f is what the recursion from a by the steps F defines on the numbers.
IsRecursion(f, S, a, F) ==
  /\ f \in [Nat -> S] /\ f[0] = a
  /\ \A i \in Nat \ {0} : f[i] = F[i][f[i - 1]]

\* A recursion has a solution.
THEOREM RecursionOnNat ==
  ASSUME NEW S, NEW a \in S, NEW F, \A i \in Nat \ {0} : F[i] \in [S -> S]
  PROVE  \E f : IsRecursion(f, S, a, F)
  <1> DEFINE G(m) == CHOOSE g : IsRun(g, m, S, a, F)
             f == [m \in Nat |-> G(m)[m]]
  <1>1. ASSUME NEW m \in Nat PROVE IsRun(G(m), m, S, a, F)
    <2>1. \E g : IsRun(g, m, S, a, F)
      BY RunExists
    <2> QED
      BY <2>1
  <1> HIDE DEF G
  <1>2. \A m \in Nat : G(m)[m] \in S
    BY <1>1 DEF IsRun
  <1>3. f \in [Nat -> S]
    BY <1>2
  <1>4. f[0] = a
    BY <1>1 DEF IsRun
  <1>5. ASSUME NEW i \in Nat \ {0} PROVE f[i] = F[i][f[i - 1]]
    <2>1. i - 1 \in Nat /\ i \in 1..i /\ i - 1 <= i
      OBVIOUS
    <2>2. G(i)[i] = F[i][G(i)[i - 1]]
      BY <1>1, <2>1 DEF IsRun
    <2>3. G(i)[i - 1] = G(i - 1)[i - 1]
      BY <1>1, <2>1, RunsAgree
    <2> QED
      BY <2>1, <2>2, <2>3
  <1> HIDE DEF f
  <1>6. IsRecursion(f, S, a, F)
    BY <1>3, <1>4, <1>5 DEF IsRecursion
  <1> QED
    BY <1>6

\* f is what the recursion defines up to N, in the form in which a recursive
\* function is defined.
IsRecursionUpTo(f, N, S, a, F) ==
  /\ f = [i \in 0..N |-> IF i = 0 THEN a ELSE F[i][f[i - 1]]]
  /\ f \in [0..N -> S]

\* A recursion up to a bound has a solution.
THEOREM RecursionUpTo ==
  ASSUME NEW N \in Nat, NEW S, NEW a \in S, NEW F, \A i \in 1..N : F[i] \in [S -> S]
  PROVE  \E f : IsRecursionUpTo(f, N, S, a, F)
  <1> DEFINE E == [i \in Nat |-> IF i \in 1..N THEN F[i] ELSE [x \in S |-> x]]
  <1>1. \A i \in Nat \ {0} : E[i] \in [S -> S]
    <2> SUFFICES ASSUME NEW i \in Nat \ {0} PROVE E[i] \in [S -> S]
      OBVIOUS
    <2>1. E[i] = IF i \in 1..N THEN F[i] ELSE [x \in S |-> x]
      OBVIOUS
    <2>2. [x \in S |-> x] \in [S -> S]
      OBVIOUS
    <2> HIDE DEF E
    <2> QED
      BY <2>1, <2>2
  <1> HIDE DEF E
  <1>2. PICK e : IsRecursion(e, S, a, E)
    BY <1>1, RecursionOnNat, Zenon
  <1>3. e \in [Nat -> S] /\ e[0] = a /\ \A i \in Nat \ {0} : e[i] = E[i][e[i - 1]]
    BY <1>2 DEF IsRecursion
  <1> DEFINE f == [i \in 0..N |-> e[i]]
  <1>4. f \in [0..N -> S]
    BY <1>3
  <1>5. ASSUME NEW i \in 0..N PROVE f[i] = IF i = 0 THEN a ELSE F[i][f[i - 1]]
    <2>1. CASE i = 0
      BY <2>1, <1>3
    <2>2. CASE i # 0
      <3>1. i \in Nat \ {0} /\ i \in 1..N /\ i - 1 \in 0..N
        BY <2>2
      <3>2. E[i] = F[i]
        BY <3>1 DEF E
      <3> QED
        BY <2>2, <3>1, <3>2, <1>3
    <2> QED
      BY <2>1, <2>2
  <1>6. f = [i \in 0..N |-> IF i = 0 THEN a ELSE F[i][f[i - 1]]]
    <2>1. f = [i \in 0..N |-> f[i]]
      OBVIOUS
    <2> HIDE DEF f
    <2> QED
      BY <2>1, <1>5
  <1> HIDE DEF f
  <1>7. IsRecursionUpTo(f, N, S, a, F)
    BY <1>4, <1>6 DEF IsRecursionUpTo
  <1> QED
    BY <1>7
=============================================================================
