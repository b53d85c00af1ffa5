--------------------------- MODULE NumberTheorems ---------------------------
(***************************************************************************)
(* Least and greatest elements of sets of numbers, which the searches for  *)
(* an I-frame return; and what follows from the least one: induction over  *)
(* the first numbers, and a function that is defined by recursion.  Then   *)
(* division with a remainder, for times and for blocks of frames.          *)
(***************************************************************************)
EXTENDS Integers, FiniteSetsExt, FiniteSetTheorems, TLAPS

\* A set of natural numbers has a least element: among its initial segments
\* {y \in S : y < x} there is one that has no other below it.
LEMMA LeastElement ==
    ASSUME NEW S \in SUBSET Nat, S # {}
    PROVE  /\ Min(S) \in S
           /\ \A y \in S : Min(S) <= y
  <1> DEFINE Below(x) == {y \in S : y < x}
             R == StrictSubsetOrdering(S)
             T == {Below(x) : x \in S}
  <1>0. \A y \in S : y \in Nat
    OBVIOUS
  <1>1. \A x \in S : Below(x) \in FiniteSubsetsOf(S)
    <2> SUFFICES ASSUME NEW x \in S
                 PROVE  Below(x) \in FiniteSubsetsOf(S)
      OBVIOUS
    <2>1. IsFiniteSet(0..x)
      BY FS_Interval
    <2>2. Below(x) \in SUBSET (0..x)
      <3> SUFFICES ASSUME NEW y \in S, y < x PROVE y \in 0..x
        OBVIOUS
      <3> QED BY <1>0
    <2>3. IsFiniteSet(Below(x))
      BY <2>1, <2>2, FS_Subset
    <2> QED
      BY <2>3 DEF FiniteSubsetsOf
  <1>2. IsWellFoundedOn(R, FiniteSubsetsOf(S))
    BY FS_StrictSubsetOrderingWellFounded
  <1>3. T \subseteq FiniteSubsetsOf(S) /\ T # {}
    BY <1>1
  <1>4. \E U \in T : \A V \in T : ~ (<<V, U>> \in R)
    <2> HIDE DEF R, T
    <2> QED BY <1>2, <1>3, WFMin
  <1>5. PICK x \in S : \A y \in S : ~ (<<Below(y), Below(x)>> \in R)
    <2> HIDE DEF R
    <2> QED BY <1>4
  <1>6. ASSUME NEW y \in S, y < x
        PROVE  FALSE
    <2>1. Below(y) \subseteq Below(x)
      <3> SUFFICES ASSUME NEW z \in S, z < y PROVE z < x
        OBVIOUS
      <3> QED BY <1>0, <1>6
    <2>2. y \in Below(x) /\ y \notin Below(y)
      BY <1>6
    <2> QED
      BY <1>5, <2>1, <2>2 DEF StrictSubsetOrdering
  <1>7. \A y \in S : x <= y
    BY <1>0, <1>6
  <1> QED
    BY <1>7 DEF Min

\* A set of numbers up to n has a greatest element: n less the least distance.
LEMMA GreatestElement ==
    ASSUME NEW n \in Nat, NEW S \in SUBSET (0..n), S # {}
    PROVE  /\ Max(S) \in S
           /\ \A y \in S : y <= Max(S)
  <1> DEFINE D == {n - x : x \in S}
  <1>0. \A x \in S : x \in Int /\ 0 <= x /\ x <= n
    <2> SUFFICES ASSUME NEW x \in S PROVE x \in Int /\ 0 <= x /\ x <= n
      OBVIOUS
    <2>1. x \in 0..n
      OBVIOUS
    <2> QED BY <2>1
  <1>1. D \in SUBSET Nat /\ D # {}
    <2>1. \A x \in S : n - x \in Nat
      BY <1>0
    <2>2. \A d \in D : d \in Nat
      BY <2>1
    <2> QED BY <2>2
  <1>2. Min(D) \in D /\ \A y \in D : Min(D) <= y
    <2> HIDE DEF D
    <2> QED BY <1>1, LeastElement
  <1>3. PICK x \in S : Min(D) = n - x
    BY <1>2
  <1>4. \A y \in S : y <= x
    <2> SUFFICES ASSUME NEW y \in S PROVE y <= x
      OBVIOUS
    <2>1. n - y \in D
      OBVIOUS
    <2>2. Min(D) <= n - y
      <3> HIDE DEF D
      <3> QED BY <1>2, <2>1
    <2>3. n - x <= n - y
      BY <1>3, <2>2
    <2>4. x \in Int /\ y \in Int
      BY <1>0
    <2> QED
      BY <2>3, <2>4
  <1> QED
    BY <1>0, <1>4 DEF Max

LEMMA LeastOfTwo ==
    ASSUME NEW a \in Int, NEW b \in Int
    PROVE  Min({a, b}) = IF a <= b THEN a ELSE b
  BY DEF Min

LEMMA GreatestOfTwo ==
    ASSUME NEW a \in Int, NEW b \in Int
    PROVE  Max({a, b}) = IF a >= b THEN a ELSE b
  BY DEF Max

\* A set with 0, and with every number whose predecessor it has, has all numbers
\* up to n: the least that it has not would have a predecessor in it.
LEMMA InductionUpTo ==
    ASSUME NEW n \in Nat, NEW S, 0 \in S,
           \A i \in 1..n : i - 1 \in S => i \in S
    PROVE  \A i \in 0..n : i \in S
  <1> DEFINE bad == {i \in 0..n : i \notin S}
  <1>1. bad \in SUBSET Nat
    OBVIOUS
  <1>2. ASSUME bad # {}
        PROVE  FALSE
    <2>1. Min(bad) \in bad /\ \A y \in bad : Min(bad) <= y
      <3> HIDE DEF bad
      <3> QED
        BY <1>1, <1>2, LeastElement
    <2> DEFINE m == Min(bad)
    <2>2. m \in 0..n /\ m \notin S /\ m # 0
      BY <2>1
    <2> HIDE DEF m
    <2>3. m \in 1..n /\ m - 1 \in 0..n /\ ~(m <= m - 1)
      BY <2>2
    <2>4. m - 1 \notin bad
      <3> HIDE DEF bad
      <3> QED
        BY <2>1, <2>3 DEF m
    <2> QED
      BY <2>2, <2>3, <2>4
  <1> QED
    BY <1>2

\* A finite set of numbers has a bound: one after the other its elements are
\* taken under it.
LEMMA FiniteIsBounded ==
    ASSUME NEW S \in SUBSET Nat, IsFiniteSet(S)
    PROVE  \E b \in Nat : S \in SUBSET (0..b)
  <1>1. PICK k \in Nat : ExistsSurjection(1..k, S)
    BY FS_NatSurjection
  <1>2. PICK f \in Surjection(1..k, S) : TRUE
    BY <1>1 DEF ExistsSurjection
  <1>3. f \in [1..k -> S] /\ \A x \in S : \E i \in 1..k : f[i] = x
    BY <1>2 DEF Surjection
  <1> DEFINE Under(i, b) == \A j \in 1..i : f[j] <= b
             T == {i \in 0..k : \E b \in Nat : Under(i, b)}
  <1>4. 0 \in T
    BY DEF T
  <1>5. ASSUME NEW i \in 1..k, i - 1 \in T
        PROVE  i \in T
    <2>1. PICK b \in Nat : Under(i - 1, b)
      BY <1>5
    <2>2. f[i] \in Nat
      BY <1>3
    <2>3. b + f[i] \in Nat /\ Under(i, b + f[i])
      <3>1. \A j \in 1..i : j \in 1..i - 1 \/ j = i
        OBVIOUS
      <3>2. \A j \in 1..i - 1 : j \in 1..k
        OBVIOUS
      <3>3. \A j \in 1..i - 1 : f[j] \in Nat /\ f[j] <= b
        BY <1>3, <2>1, <3>2
      <3> QED
        BY <2>2, <3>1, <3>3
    <2>4. i \in 0..k
      OBVIOUS
    <2> HIDE DEF Under
    <2> QED
      BY <2>3, <2>4
  <1>6. k \in T
    <2> HIDE DEF T
    <2>1. \A i \in 0..k : i \in T
      BY <1>4, <1>5, InductionUpTo
    <2> QED
      BY <2>1
  <1>7. PICK b \in Nat : Under(k, b)
    BY <1>6
  <1>8. \A i \in 1..k : f[i] <= b
    BY <1>7
  <1>9. \A x \in S : x \in Nat /\ x <= b
    BY <1>3, <1>8, Zenon
  <1>10. \A x \in S : x \in 0..b
    BY <1>9
  <1> QED
    BY <1>10, Zenon

\* A function on the numbers up to n is defined by its first value and a step
\* from each value to the next.
Recursion(n, D, a, G, f) ==
    f \in [0..n -> D] /\ f[0] = a /\ \A i \in 1..n : f[i] = G[i][f[i - 1]]

LEMMA RecursiveFunction ==
    ASSUME NEW n \in Nat, NEW D, NEW a \in D, NEW G \in [1..n -> [D -> D]]
    PROVE  \E f : Recursion(n, D, a, G, f)
  <1> DEFINE S == {m \in 0..n : \E f \in [0..m -> D] :
                       f[0] = a /\ \A i \in 1..m : f[i] = G[i][f[i - 1]]}
  <1>1. 0 \in S
    <2> DEFINE f == [i \in 0..0 |-> a]
    <2>1. f \in [0..0 -> D] /\ f[0] = a /\ \A i \in 1..0 : f[i] = G[i][f[i - 1]]
      OBVIOUS
    <2> HIDE DEF f
    <2> QED
      BY <2>1
  <1>2. ASSUME NEW m \in 1..n, m - 1 \in S
        PROVE  m \in S
    <2>1. PICK f \in [0..m - 1 -> D] :
              f[0] = a /\ \A i \in 1..m - 1 : f[i] = G[i][f[i - 1]]
      BY <1>2
    <2> DEFINE g == [i \in 0..m |-> IF i < m THEN f[i] ELSE G[m][f[m - 1]]]
    <2>2. f[m - 1] \in D
      BY <2>1
    <2>3. g \in [0..m -> D]
      <3> SUFFICES ASSUME NEW i \in 0..m
                   PROVE  (IF i < m THEN f[i] ELSE G[m][f[m - 1]]) \in D
        OBVIOUS
      <3>1. i < m => i \in 0..m - 1
        OBVIOUS
      <3>2. i < m => f[i] \in D
        BY <2>1, <3>1
      <3>3. G[m][f[m - 1]] \in D
        BY <2>2
      <3> QED
        BY <3>2, <3>3
    <2>4. g[0] = a
      BY <2>1
    <2>5. ASSUME NEW i \in 1..m
          PROVE  g[i] = G[i][g[i - 1]]
      <3>1. i - 1 \in 0..m /\ i - 1 < m /\ i \in 0..m
        OBVIOUS
      <3>2. g[i - 1] = f[i - 1]
        BY <3>1
      <3>3. CASE i < m
        <4>1. i \in 1..m - 1 /\ g[i] = f[i]
          BY <3>1, <3>3
        <4> QED
          BY <2>1, <3>2, <4>1
      <3>4. CASE ~(i < m)
        <4>1. i = m /\ g[i] = G[m][f[m - 1]]
          BY <3>1, <3>4
        <4> QED
          BY <3>2, <4>1
      <3> QED
        BY <3>3, <3>4
    <2> HIDE DEF g
    <2>6. m \in 0..n
      OBVIOUS
    <2> QED
      BY <2>3, <2>4, <2>5, <2>6, Zenon
  <1>3. n \in S
    <2>1. \A i \in 1..n : i - 1 \in S => i \in S
      BY <1>2
    <2> HIDE DEF S
    <2>2. \A i \in 0..n : i \in S
      BY <1>1, <2>1, InductionUpTo
    <2> QED
      BY <2>2
  <1> QED
    BY <1>3 DEF Recursion

\* A function on S that goes on with another element until one of Stop is
\* reached, as the loops of the code do.
Iteration(S, Stop, Out, Del, f) ==
    f = [s \in S |-> IF s \in Stop THEN Out[s] ELSE f[Del[s]]]

\* A number up to n falls with every round.
Falls(S, Stop, Del, n, mu) ==
    /\ n \in Nat /\ mu \in [S -> 0..n]
    /\ \A s \in S : s \notin Stop => Del[s] \in S /\ mu[Del[s]] < mu[s]

\* There is such a function: after n rounds another one changes nothing.
LEMMA IterationExists ==
    ASSUME NEW S, NEW Stop, NEW Out, NEW Del, NEW N0, NEW mu, Falls(S, Stop, Del, N0, mu)
    PROVE  \E f : Iteration(S, Stop, Out, Del, f)
  <1> DEFINE n == N0 + 1
             R == {Out[s] : s \in S}
             D == [S -> R]
             a == [s \in S |-> Out[s]]
             next(s) == IF s \in Stop THEN s ELSE Del[s]
             step == [h \in D |-> [s \in S |-> IF s \in Stop THEN Out[s] ELSE h[next(s)]]]
             G == [i \in 1..n |-> step]
  <1>1. /\ n \in Nat \ {0} /\ n - 1 \in 0..n
        /\ \A s \in S : mu[s] \in Nat /\ mu[s] < n
    BY DEF Falls
  <1>2. /\ step \in [D -> D]
        /\ \A h \in D : \A s \in S :
              step[h][s] = IF s \in Stop THEN Out[s] ELSE h[Del[s]]
    <2>1. \A s \in S : next(s) \in S
      BY DEF Falls
    <2>2. ASSUME NEW h \in D
          PROVE  [s \in S |-> IF s \in Stop THEN Out[s] ELSE h[next(s)]] \in D
      <3>1. \A s \in S : Out[s] \in R
        OBVIOUS
      <3> HIDE DEF R, next
      <3>2. \A s \in S : (IF s \in Stop THEN Out[s] ELSE h[next(s)]) \in R
        BY <2>1, <3>1
      <3> QED
        BY <3>2, Zenon
    <2>3. step \in [D -> D]
      <3> HIDE DEF D, next
      <3> QED
        BY <2>2, Zenon
    <2>4. ASSUME NEW h \in D, NEW s \in S
          PROVE  step[h][s] = IF s \in Stop THEN Out[s] ELSE h[Del[s]]
      <3>1. step[h] = [t \in S |-> IF t \in Stop THEN Out[t] ELSE h[next(t)]]
        BY Zenon
      <3>2. step[h][s] = IF s \in Stop THEN Out[s] ELSE h[next(s)]
        BY <3>1, Zenon
      <3> QED
        BY <3>2
    <2> QED
      BY <2>3, <2>4
  <1> HIDE DEF step
  <1>3. a \in D /\ G \in [1..n -> [D -> D]] /\ \A i \in 1..n : G[i] = step
    BY <1>2
  <1> HIDE DEF n, G, a
  <1>4. PICK g : Recursion(n, D, a, G, g)
    BY <1>1, <1>3, RecursiveFunction
  <1>5. /\ g \in [0..n -> D] /\ g[0] = a
        /\ \A i \in 1..n : g[i] = step[g[i - 1]]
    BY <1>3, <1>4 DEF Recursion
  <1>6. ASSUME NEW i \in 1..n, NEW s \in S
        PROVE  g[i][s] = IF s \in Stop THEN Out[s] ELSE g[i - 1][Del[s]]
    <2>1. i - 1 \in 0..n
      BY <1>1
    <2>2. g[i - 1] \in D
      BY <1>5, <2>1
    <2>3. g[i] = step[g[i - 1]]
      BY <1>5
    <2> HIDE DEF D
    <2> QED
      BY <1>2, <2>2, <2>3
  <1> DEFINE Same(i) == \A s \in S : mu[s] < i => g[i][s] = g[i - 1][s]
             T == {i \in 0..n : i = 0 \/ Same(i)}
  <1>7. 0 \in T
    BY <1>1
  <1>8. ASSUME NEW i \in 1..n, i - 1 \in T
        PROVE  Same(i)
    <2> SUFFICES ASSUME NEW s \in S, mu[s] < i
                 PROVE  g[i][s] = g[i - 1][s]
      OBVIOUS
    <2>1. mu[s] \in Nat
      BY <1>1
    <2>2. s \notin Stop => Del[s] \in S /\ mu[Del[s]] \in Nat /\ mu[Del[s]] < mu[s]
      BY <1>1 DEF Falls
    <2>3. CASE i = 1
      <3>1. mu[s] = 0
        BY <2>1, <2>3
      <3>2. s \in Stop
        BY <2>2, <3>1
      <3>3. g[0][s] = Out[s]
        BY <1>5 DEF a
      <3> QED
        BY <1>6, <2>3, <3>2, <3>3
    <2>4. CASE i # 1
      <3>1. i - 1 \in 1..n /\ i - 1 # 0
        BY <1>1, <2>4
      <3>2. Same(i - 1)
        BY <1>8, <3>1
      <3>3. CASE s \in Stop
        BY <1>6, <3>1, <3>3
      <3>4. CASE s \notin Stop
        <4>1. g[i][s] = g[i - 1][Del[s]] /\ g[i - 1][s] = g[i - 1 - 1][Del[s]]
          BY <1>6, <3>1, <3>4
        <4>2. mu[Del[s]] < i - 1
          BY <2>1, <2>2, <3>4
        <4>3. g[i - 1][Del[s]] = g[i - 1 - 1][Del[s]]
          BY <2>2, <3>2, <3>4, <4>2
        <4> QED
          BY <4>1, <4>3
      <3> QED
        BY <3>3, <3>4
    <2> QED
      BY <2>3, <2>4
  <1>9. Same(n)
    <2>1. \A i \in 1..n : i - 1 \in T => i \in T
      <3> SUFFICES ASSUME NEW i \in 1..n, i - 1 \in T
                   PROVE  i \in T
        OBVIOUS
      <3>1. Same(i)
        BY <1>8
      <3>2. i \in 0..n
        BY <1>1
      <3> HIDE DEF Same
      <3> QED
        BY <3>1, <3>2
    <2> HIDE DEF T
    <2>2. \A i \in 0..n : i \in T
      BY <1>1, <1>7, <2>1, InductionUpTo
    <2>3. n \in 0..n /\ n # 0
      BY <1>1
    <2> USE DEF T
    <2> HIDE DEF Same
    <2> QED
      BY <2>2, <2>3
  <1>10. ASSUME NEW s \in S
         PROVE  g[n][s] = IF s \in Stop THEN Out[s] ELSE g[n][Del[s]]
    <2>1. n \in 1..n
      BY <1>1
    <2>2. g[n][s] = IF s \in Stop THEN Out[s] ELSE g[n - 1][Del[s]]
      BY <1>6, <2>1
    <2>3. CASE s \in Stop
      BY <2>2, <2>3
    <2>4. CASE s \notin Stop
      <3>1. Del[s] \in S /\ mu[Del[s]] < n
        BY <1>1, <2>4 DEF Falls
      <3>2. g[n][Del[s]] = g[n - 1][Del[s]]
        BY <1>9, <3>1
      <3> QED
        BY <2>2, <2>4, <3>2
    <2> QED
      BY <2>3, <2>4
  <1>11. n \in 0..n
    BY <1>1
  <1>12. g[n] \in D
    BY <1>5, <1>11
  <1> DEFINE f == g[n]
  <1>13. /\ f = [s \in S |-> f[s]]
         /\ \A s \in S : f[s] = IF s \in Stop THEN Out[s] ELSE f[Del[s]]
    BY <1>10, <1>12
  <1> HIDE DEF f
  <1>14. f = [s \in S |-> IF s \in Stop THEN Out[s] ELSE f[Del[s]]]
    BY <1>13
  <1> QED
    BY <1>14 DEF Iteration

\* Every round keeps what is in Kept, and the end makes of it one of Post.
Keeps(S, Stop, Del, Kept) == \A s \in S : s \in Kept /\ s \notin Stop => Del[s] \in Kept
Gives(S, Stop, Out, Kept, Post) == \A s \in S : s \in Kept /\ s \in Stop => Out[s] \in Post
Leads(S, f, Kept, Post) == \A s \in S : s \in Kept => f[s] \in Post

\* What every round keeps leads to what it means at the end.
LEMMA IterationEnds ==
    ASSUME NEW S, NEW Stop, NEW Out, NEW Del, NEW n, NEW mu, Falls(S, Stop, Del, n, mu),
           NEW f, Iteration(S, Stop, Out, Del, f),
           NEW Kept, Keeps(S, Stop, Del, Kept),
           NEW Post, Gives(S, Stop, Out, Kept, Post)
    PROVE  Leads(S, f, Kept, Post)
  <1> DEFINE Fine(i) == \A s \in S : s \in Kept /\ mu[s] < i => f[s] \in Post
             T == {i \in 0..(n + 1) : Fine(i)}
  <1>1. /\ n + 1 \in Nat
        /\ \A s \in S : mu[s] \in Nat /\ mu[s] < n + 1
    BY DEF Falls
  <1> USE DEF Keeps, Gives, Leads
  <1>2. 0 \in T
    BY <1>1
  <1>3. ASSUME NEW i \in 1..(n + 1), i - 1 \in T
        PROVE  Fine(i)
    <2> SUFFICES ASSUME NEW s \in S, s \in Kept, mu[s] < i
                 PROVE  f[s] \in Post
      OBVIOUS
    <2>1. f[s] = IF s \in Stop THEN Out[s] ELSE f[Del[s]]
      BY DEF Iteration
    <2>2. CASE s \in Stop
      BY <2>1, <2>2
    <2>3. CASE s \notin Stop
      <3>1. f[s] = f[Del[s]]
        BY <2>1, <2>3
      <3>2. Del[s] \in S /\ Del[s] \in Kept /\ mu[Del[s]] < mu[s]
        BY <2>3 DEF Falls
      <3>3. mu[Del[s]] < i - 1
        BY <1>1, <3>2
      <3>4. Fine(i - 1)
        BY <1>3
      <3> QED
        BY <3>1, <3>2, <3>3, <3>4
    <2> QED
      BY <2>2, <2>3
  <1>4. Fine(n + 1)
    <2> DEFINE k == n + 1
    <2>1. k \in Nat /\ k \in 0..k
      BY <1>1
    <2>2. \A i \in 1..k : i - 1 \in T => i \in T
      <3> SUFFICES ASSUME NEW i \in 1..k, i - 1 \in T
                   PROVE  i \in T
        OBVIOUS
      <3>1. Fine(i)
        BY <1>3
      <3>2. i \in 0..k
        BY <2>1
      <3> HIDE DEF Fine
      <3> QED
        BY <3>1, <3>2
    <2>3. \A i \in T : Fine(i)
      <3> HIDE DEF Fine
      <3> QED
        OBVIOUS
    <2>4. 0 \in T
      BY <1>2
    <2> HIDE DEF T, k, Fine
    <2>5. \A i \in 0..k : i \in T
      BY <2>1, <2>2, <2>4, InductionUpTo
    <2> QED
      BY <2>1, <2>3, <2>5 DEF k
  <1> QED
    BY <1>1, <1>4

LEMMA LoopEnds ==
    ASSUME NEW S, NEW Stop, NEW Out, NEW Del, NEW n, NEW mu, Falls(S, Stop, Del, n, mu),
           NEW f, f = CHOOSE g : Iteration(S, Stop, Out, Del, g),
           NEW Kept, Keeps(S, Stop, Del, Kept),
           NEW Post, Gives(S, Stop, Out, Kept, Post)
    PROVE  Leads(S, f, Kept, Post)
  <1>1. \E g : Iteration(S, Stop, Out, Del, g)
    BY IterationExists
  <1>2. Iteration(S, Stop, Out, Del, f)
    BY <1>1, Zenon
  <1> QED
    BY <1>2, IterationEnds

\* A function on the subsets of M that goes on with a smaller set until one of
\* Stop is reached.
SetRecursion(M, Stop, Del, f) ==
    f = [S \in SUBSET M |-> IF S \in Stop THEN S ELSE f[Del[S]]]

Smaller(M, Stop, Del) ==
    /\ IsFiniteSet(M)
    /\ Del \in [SUBSET M -> SUBSET M]
    /\ \A S \in SUBSET M : S \notin Stop => Cardinality(Del[S]) < Cardinality(S)

Itself(M) == [S \in SUBSET M |-> S]
SizesOf(M) == [S \in SUBSET M |-> Cardinality(S)]

LEMMA SmallerFalls ==
    ASSUME NEW M, NEW Stop, NEW Del, Smaller(M, Stop, Del)
    PROVE  /\ Falls(SUBSET M, Stop, Del, Cardinality(M), SizesOf(M))
           /\ \A f : Iteration(SUBSET M, Stop, Itself(M), Del, f) <=> SetRecursion(M, Stop, Del, f)
  <1>1. Cardinality(M) \in Nat
    BY FS_CardinalityType DEF Smaller
  <1>2. ASSUME NEW S \in SUBSET M
        PROVE  Cardinality(S) \in 0..Cardinality(M)
    <2>1. IsFiniteSet(S) /\ Cardinality(S) <= Cardinality(M)
      BY FS_Subset DEF Smaller
    <2> QED
      BY <1>1, <2>1, FS_CardinalityType
  <1>3. SizesOf(M) \in [SUBSET M -> 0..Cardinality(M)]
    BY <1>2, Zenon DEF SizesOf
  <1>4. \A S \in SUBSET M : SizesOf(M)[S] = Cardinality(S)
    BY Zenon DEF SizesOf
  <1>5. Falls(SUBSET M, Stop, Del, Cardinality(M), SizesOf(M))
    BY <1>1, <1>3, <1>4 DEF Falls, Smaller
  <1>6. ASSUME NEW f
        PROVE  Iteration(SUBSET M, Stop, Itself(M), Del, f) <=> SetRecursion(M, Stop, Del, f)
    <2>1. [S \in SUBSET M |-> IF S \in Stop THEN Itself(M)[S] ELSE f[Del[S]]]
              = [S \in SUBSET M |-> IF S \in Stop THEN S ELSE f[Del[S]]]
      BY DEF Itself
    <2> QED
      BY <2>1 DEF Iteration, SetRecursion
  <1> QED
    BY <1>5, <1>6

LEMMA RecursionOverSets ==
    ASSUME NEW M, NEW Stop, NEW Del, Smaller(M, Stop, Del)
    PROVE  \E f : SetRecursion(M, Stop, Del, f)
  BY SmallerFalls, IterationExists

\* What every round keeps holds at the end, and the end is in Stop.
LEMMA RecursionEnds ==
    ASSUME NEW M, NEW Stop, NEW Del, Smaller(M, Stop, Del),
           NEW f, SetRecursion(M, Stop, Del, f),
           NEW Kept, Keeps(SUBSET M, Stop, Del, Kept),
           NEW S0 \in SUBSET M, S0 \in Kept
    PROVE  f[S0] \in Kept /\ f[S0] \in Stop
  <1>1. /\ Falls(SUBSET M, Stop, Del, Cardinality(M), SizesOf(M))
        /\ Iteration(SUBSET M, Stop, Itself(M), Del, f)
    BY SmallerFalls
  <1>2. Gives(SUBSET M, Stop, Itself(M), Kept, Kept \cap Stop)
    BY DEF Gives, Itself
  <1>3. Leads(SUBSET M, f, Kept, Kept \cap Stop)
    BY <1>1, <1>2, IterationEnds
  <1>4. f[S0] \in Kept \cap Stop
    BY <1>3 DEF Leads
  <1> QED
    BY <1>4

\* Division with a remainder determines the quotient.
LEMMA DivUnique ==
    ASSUME NEW a \in Int, NEW d \in Nat \ {0}, NEW q \in Int,
           q * d <= a, a < q * d + d
    PROVE  a \div d = q
  <1> DEFINE k == a \div d
  <1>1. k \in Int /\ k * d <= a /\ a < k * d + d
    BY Z3
  <1>2. CASE k < q
    <2>1. k + 1 <= q
      BY <1>1, <1>2
    <2>2. (k + 1) * d <= q * d
      BY <1>1, <2>1, Z3
    <2> QED
      BY <1>1, <2>2
  <1>3. CASE q < k
    <2>1. (q + 1) * d <= k * d
      BY <1>1, <1>3, Z3
    <2> QED
      BY <1>1, <2>1
  <1> QED
    BY <1>1, <1>2, <1>3

\* Counting on: at every d-th number the quotient grows and the remainder is 0.
LEMMA DivStep ==
    ASSUME NEW x \in Nat, NEW d \in Nat \ {0}
    PROVE  /\ x \div d \in Nat /\ x % d \in 0..d - 1
           /\ (x + 1) % d # 0 => (x + 1) % d = (x % d) + 1 /\ (x + 1) \div d = x \div d
           /\ (x + 1) % d = 0 => x % d = d - 1 /\ (x + 1) \div d = x \div d + 1
  <1> DEFINE q == x \div d
             r == x % d
             q1 == (x + 1) \div d
             r1 == (x + 1) % d
  <1>1. q \in Nat /\ r \in 0..d - 1 /\ x = q * d + r
    BY Z3
  <1>2. q1 \in Nat /\ r1 \in 0..d - 1 /\ x + 1 = q1 * d + r1
    BY Z3
  <1>3. q * d \in Nat /\ q * d <= x /\ x < q * d + d
    BY <1>1, Z3
  <1>4. CASE r + 1 < d
    <2>1. q * d <= x + 1 /\ x + 1 < q * d + d
      <3> HIDE DEF q, r
      <3> QED
        BY <1>1, <1>3, <1>4
    <2>2. q1 = q
      <3>1. q \in Int /\ x + 1 \in Int
        BY <1>1
      <3> HIDE DEF q
      <3> QED
        BY <2>1, <3>1, DivUnique
    <2>3. r1 = r + 1
      <3> HIDE DEF q, r, q1, r1
      <3> QED
        BY <1>1, <1>2, <1>3, <2>2
    <2> HIDE DEF q, r, q1, r1
    <2>4. r1 # 0
      BY <1>1, <2>3
    <2> QED
      BY <1>1, <2>2, <2>3, <2>4 DEF q, r, q1, r1
  <1>5. CASE ~(r + 1 < d)
    <2>1. r = d - 1
      <3> HIDE DEF r
      <3> QED
        BY <1>1, <1>5
    <2>2. (q + 1) * d = q * d + d
      <3> HIDE DEF q
      <3> QED
        BY <1>1, Z3
    <2>3. x + 1 = (q + 1) * d
      <3> HIDE DEF q, r
      <3> QED
        BY <1>1, <1>3, <2>1, <2>2
    <2>4. q1 = q + 1
      <3>1. q + 1 \in Int /\ (q + 1) * d <= x + 1 /\ x + 1 < (q + 1) * d + d
        <4> HIDE DEF q
        <4> QED
          BY <1>1, <1>3, <2>2, <2>3
      <3> HIDE DEF q
      <3> QED
        BY <3>1, DivUnique
    <2>5. r1 = 0
      <3> HIDE DEF q, r, q1, r1
      <3> QED
        BY <1>1, <1>2, <1>3, <2>2, <2>3, <2>4
    <2> HIDE DEF q, r, q1, r1
    <2> QED
      BY <1>1, <2>1, <2>4, <2>5 DEF q, r, q1, r1
  <1> QED
    BY <1>4, <1>5

LEMMA DivBelow ==
    ASSUME NEW d \in Nat \ {0}, NEW b \in Nat, NEW x \in Nat, x < b * d
    PROVE  x \div d < b
  <1> DEFINE q == x \div d
  <1>1. q \in Nat /\ q * d <= x
    BY Z3
  <1>2. CASE b <= q
    <2> HIDE DEF q
    <2>1. b * d <= q * d /\ b * d \in Nat /\ q * d \in Nat
      BY <1>1, <1>2, Z3
    <2> QED
      BY <1>1, <2>1
  <1> QED
    BY <1>1, <1>2
=============================================================================
