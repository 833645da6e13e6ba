------------------------------ MODULE Recursion ------------------------------
(***************************************************************************)
(* Induction over the natural numbers, and functions defined by recursion   *)
(* over them, said of sets: a property is the set of the numbers that have  *)
(* it, and a definition is a function from each number and value to the     *)
(* next value.  The proofs about sequences rest on these.                   *)
(***************************************************************************)
EXTENDS Integers, Sequences, WellFoundedInduction, TLAPS

\* A set of numbers that is not empty has a least one.
LEMMA LeastNumber ==
  ASSUME NEW T \in SUBSET Nat, T # {}
  PROVE  \E m \in T : \A n \in T : m <= n
  <1>1. PICK m \in T : \A n \in T : ~(<<n, m>> \in OpToRel(<, Nat))
    BY NatLessThanWellFounded, WFMin
  <1>2. \A n \in T : ~(n < m)
    BY <1>1 DEF OpToRel
  <1> QED  BY <1>2

\* A set that has 0 and the successor of each of its numbers has them all.
LEMMA Induction ==
  ASSUME NEW S, 0 \in S, \A n \in Nat : n \in S => n + 1 \in S
  PROVE  \A n \in Nat : n \in S
  <1> DEFINE T == {n \in Nat : n \notin S}
  <1> SUFFICES ASSUME T # {} PROVE FALSE
    OBVIOUS
  <1>1. PICK m \in T : \A n \in T : m <= n
    BY LeastNumber
  <1>2. m # 0 /\ m - 1 \in Nat /\ m - 1 \notin T
    BY <1>1
  <1> QED  BY <1>2

\* The sums of the first n numbers of d.
SumsOf(f, d, n) ==
  f[0] = 0 /\ \A i \in 0 .. n - 1 : f[i + 1] = f[i] + d[i]

\* There are no two ways to sum the same numbers.
LEMMA SumsAgree ==
  ASSUME NEW d, NEW f, NEW g, NEW m \in Nat, NEW n \in Nat, m <= n, SumsOf(f, d, m), SumsOf(g, d, n)
  PROVE  \A i \in 0 .. m : f[i] = g[i]
  <1> DEFINE S == {i \in Nat : i <= m => f[i] = g[i]}
  <1>1. 0 \in S  BY DEF SumsOf
  <1>2. ASSUME NEW i \in Nat, i \in S PROVE i + 1 \in S
    <2> SUFFICES ASSUME i + 1 <= m PROVE f[i + 1] = g[i + 1]
      OBVIOUS
    <2>1. f[i] = g[i]  BY <1>2
    <2>2. i \in 0 .. m - 1 /\ i \in 0 .. n - 1  OBVIOUS
    <2> QED  BY <2>1, <2>2 DEF SumsOf
  <1> HIDE DEF S
  <1>3. \A i \in Nat : i \in S  BY <1>1, <1>2, Induction
  <1> QED  BY <1>3 DEF S

\* Finitely many numbers have sums.
LEMMA SumsToExist ==
  ASSUME NEW d \in [Nat -> Nat], NEW n \in Nat
  PROVE  \E f \in [0 .. n -> Nat] : SumsOf(f, d, n)
  <1> DEFINE S == {k \in Nat : \E f \in [0 .. k -> Nat] : SumsOf(f, d, k)}
  <1>1. 0 \in S
    <2>1. SumsOf([i \in 0 .. 0 |-> 0], d, 0)  BY DEF SumsOf
    <2>2. [i \in 0 .. 0 |-> 0] \in [0 .. 0 -> Nat]  OBVIOUS
    <2> QED  BY <2>1, <2>2
  <1>2. ASSUME NEW k \in Nat, k \in S PROVE k + 1 \in S
    <2>1. PICK f \in [0 .. k -> Nat] : SumsOf(f, d, k)  BY <1>2
    <2> DEFINE g == [i \in 0 .. k + 1 |-> IF i = k + 1 THEN f[k] + d[k] ELSE f[i]]
    <2>a. k \in 0 .. k /\ f[k] \in Nat /\ d[k] \in Nat  OBVIOUS
    <2>b. \A i \in 0 .. k + 1 : i # k + 1 => f[i] \in Nat
      <3>1. \A i \in 0 .. k + 1 : i # k + 1 => i \in 0 .. k  OBVIOUS
      <3> QED  BY <3>1
    <2>c. \A i \in 0 .. k + 1 : (IF i = k + 1 THEN f[k] + d[k] ELSE f[i]) \in Nat
      <3> TAKE i \in 0 .. k + 1
      <3>1. CASE i = k + 1
        <4>1. f[k] + d[k] \in Nat  BY <2>a, SMTT(30)
        <4> QED  BY <3>1, <4>1
      <3>2. CASE i # k + 1  BY <2>b, <3>2
      <3> QED  BY <3>1, <3>2
    <2>2. g \in [0 .. k + 1 -> Nat]  BY <2>c, Zenon
    <2>3. SumsOf(g, d, k + 1)
      <3>1. g[0] = 0  BY <2>1 DEF SumsOf
      <3>2. ASSUME NEW i \in 0 .. k PROVE g[i + 1] = g[i] + d[i]
        <4>1. CASE i = k
          <5>1. g[k + 1] = f[k] + d[k] /\ g[k] = f[k]  OBVIOUS
          <5> QED  BY <4>1, <5>1
        <4>2. CASE i < k
          <5>1. i \in 0 .. k + 1 /\ i + 1 \in 0 .. k + 1 /\ i # k + 1 /\ i + 1 # k + 1  BY <4>2
          <5>3. g[i + 1] = f[i + 1] /\ g[i] = f[i]  BY <5>1
          <5>2. f[i + 1] = f[i] + d[i]  BY <2>1, <4>2 DEF SumsOf
          <5> QED  BY <5>2, <5>3
        <4> QED  BY <4>1, <4>2
      <3> HIDE DEF g
      <3>3. \A i \in 0 .. (k + 1) - 1 : g[i + 1] = g[i] + d[i]  BY <3>2
      <3> QED  BY <3>1, <3>3 DEF SumsOf
    <2>4. \E h \in [0 .. k + 1 -> Nat] : SumsOf(h, d, k + 1)
      <3> HIDE DEF g
      <3> QED  BY <2>2, <2>3
    <2>5. k + 1 \in Nat  OBVIOUS
    <2> HIDE DEF g
    <2> QED  BY <2>4, <2>5
  <1> HIDE DEF S
  <1>3. n \in S  BY <1>1, <1>2, Induction
  <1> QED  BY <1>3 DEF S

\* So the function that sums the first n numbers, for every n, exists.
LEMMA SumsExist ==
  ASSUME NEW d \in [Nat -> Nat]
  PROVE  \E f \in [Nat -> Nat] : f[0] = 0 /\ \A n \in Nat : f[n + 1] = f[n] + d[n]
  <1> DEFINE F(n) == CHOOSE f : f \in [0 .. n -> Nat] /\ SumsOf(f, d, n)
  <1>1. \A n \in Nat : F(n) \in [0 .. n -> Nat] /\ SumsOf(F(n), d, n)
    BY SumsToExist
  <1> HIDE DEF F
  <1> DEFINE f == [n \in Nat |-> F(n)[n]]
  <1>2. f \in [Nat -> Nat]  BY <1>1
  <1>3. f[0] = 0  BY <1>1 DEF SumsOf
  <1>4. ASSUME NEW n \in Nat PROVE f[n + 1] = f[n] + d[n]
    <2>1. F(n + 1)[n] = F(n)[n]  BY <1>1, SumsAgree
    <2>2. F(n + 1)[n + 1] = F(n + 1)[n] + d[n]  BY <1>1 DEF SumsOf
    <2> QED  BY <2>1, <2>2
  <1> HIDE DEF f
  <1> QED  BY <1>2, <1>3, <1>4

\* Where the items of a list begin that are as long as d says and have one
\* place between them, defined by recursion over 1 .. i.
SumTo(c, d, i) == c = [j \in 1 .. i |-> IF j = 1 THEN 0 ELSE c[j - 1] + d[j - 1] + 1]

\* What is defined so is the function that adds the lengths.
LEMMA SumIs ==
  ASSUME NEW d, NEW f, NEW i \in Nat, i > 0, NEW c, SumTo(c, d, i),
         f[0] = 0, \A n \in Nat : n + 1 < i => f[n + 1] = f[n] + d[n + 1] + 1
  PROVE  c[i] = f[i - 1]
  <1> DEFINE S == {n \in Nat : n < i => c[n + 1] = f[n]}
  <1>0. \A j \in 1 .. i : c[j] = IF j = 1 THEN 0 ELSE c[j - 1] + d[j - 1] + 1
    BY Zenon DEF SumTo
  <1>1. 0 \in S
    BY <1>0
  <1>2. ASSUME NEW n \in Nat, n \in S PROVE n + 1 \in S
    <2> SUFFICES ASSUME n + 1 < i PROVE c[n + 2] = f[n + 1]
      OBVIOUS
    <2>1. c[n + 1] = f[n]
      BY <1>2
    <2>2. n + 2 \in 1 .. i /\ n + 2 # 1 /\ (n + 2) - 1 = n + 1
      OBVIOUS
    <2>3. c[n + 2] = c[n + 1] + d[n + 1] + 1
      BY <1>0, <2>2
    <2> QED  BY <2>1, <2>3
  <1> HIDE DEF S
  <1>3. \A n \in Nat : n \in S
    BY <1>1, <1>2, Induction
  <1>4. i - 1 \in Nat /\ (i - 1) + 1 = i /\ i - 1 < i
    OBVIOUS
  <1> QED  BY <1>3, <1>4 DEF S

\* The definition by recursion defines something.
LEMMA SumIsThere ==
  ASSUME NEW d, NEW f, NEW i \in Nat, i > 0,
         f[0] = 0, \A n \in Nat : n + 1 < i => f[n + 1] = f[n] + d[n + 1] + 1
  PROVE  \E c : SumTo(c, d, i)
  <1> DEFINE g == [j \in 1 .. i |-> f[j - 1]]
  <1>1. ASSUME NEW j \in 1 .. i
        PROVE  g[j] = IF j = 1 THEN 0 ELSE g[j - 1] + d[j - 1] + 1
    <2>1. CASE j = 1
      BY <2>1
    <2>2. CASE j # 1
      <3>1. g[j] = f[j - 1] /\ g[j - 1] = f[j - 2]
        BY <2>2
      <3>2. j - 2 \in Nat /\ (j - 2) + 1 = j - 1 /\ (j - 2) + 1 < i
        BY <2>2
      <3>3. f[j - 1] = f[j - 2] + d[j - 1] + 1
        BY <3>2
      <3> HIDE DEF g
      <3> QED  BY <2>2, <3>1, <3>3
    <2> QED  BY <2>1, <2>2
  <1>2. g = [j \in 1 .. i |-> IF j = 1 THEN 0 ELSE g[j - 1] + d[j - 1] + 1]
    BY <1>1
  <1>3. SumTo(g, d, i)
    BY <1>2, Zenon DEF SumTo
  <1> HIDE DEF g
  <1> QED  BY <1>3

\* Both at once: whatever the definition picks is that function.
LEMMA SumsAre ==
  ASSUME NEW d, NEW f, NEW i \in Nat, i > 0,
         f[0] = 0, \A n \in Nat : n + 1 < i => f[n + 1] = f[n] + d[n + 1] + 1
  PROVE  (\E c : SumTo(c, d, i)) /\ \A c : SumTo(c, d, i) => c[i] = f[i - 1]
  <1>1. \E c : SumTo(c, d, i)
    BY SumIsThere
  <1>2. ASSUME NEW c, SumTo(c, d, i)
        PROVE  c[i] = f[i - 1]
    BY <1>2, SumIs
  <1> QED  BY <1>1, <1>2

\* The first of the best of n scores, or zero if there is none.
IsBest(k, n, s) ==
  IF k = 0 THEN \A i \in 1 .. n : s[i] = 0
  ELSE s[k] > 0 /\ \A i \in 1 .. n : s[i] < s[k] \/ (s[i] = s[k] /\ k <= i)

\* There is one where the scores have a bound.
LEMMA BestExists ==
  ASSUME NEW n \in Nat, NEW s \in [1 .. n -> Nat], NEW top \in Nat, \A i \in 1 .. n : s[i] <= top
  PROVE  \E k \in 0 .. n : IsBest(k, n, s)
  <1>1. CASE \A i \in 1 .. n : s[i] = 0
    <2>1. IsBest(0, n, s) /\ 0 \in 0 .. n
      BY <1>1 DEF IsBest
    <2> QED  BY <2>1
  <1>2. CASE \E i \in 1 .. n : s[i] # 0
    <2>0. \A i \in 1 .. n : s[i] \in Nat /\ s[i] <= top
      OBVIOUS
    <2> DEFINE T == {top - s[i] : i \in 1 .. n}
    <2>1. T \in SUBSET Nat /\ T # {}
      BY <1>2, <2>0
    <2>2. PICK m \in T : \A j \in T : m <= j
      <3> HIDE DEF T
      <3> QED  BY <2>1, LeastNumber
    <2>3. PICK b \in 1 .. n : m = top - s[b]
      OBVIOUS
    <2>4. \A i \in 1 .. n : s[i] <= s[b]
      <3> TAKE i \in 1 .. n
      <3>1. top - s[b] <= top - s[i]
        BY <2>2, <2>3
      <3> QED  BY <2>0, <3>1
    <2> HIDE DEF T
    <2> DEFINE F == {i \in 1 .. n : s[i] = s[b]}
    <2>a. b \in F
      OBVIOUS
    <2>b. \A j \in F : j \in Nat
      OBVIOUS
    <2>5. F \in SUBSET Nat /\ F # {}
      <3> HIDE DEF F
      <3> QED  BY <2>a, <2>b
    <2>6. PICK k \in F : \A j \in F : k <= j
      <3> HIDE DEF F
      <3> QED  BY <2>5, LeastNumber
    <2>7. k \in 1 .. n /\ s[k] = s[b] /\ \A i \in 1 .. n : s[i] = s[b] => k <= i
      BY <2>6
    <2>8. s[k] > 0
      <3>1. PICK i \in 1 .. n : s[i] # 0
        BY <1>2
      <3> QED  BY <2>0, <2>4, <2>7, <3>1
    <2>9. \A i \in 1 .. n : s[i] < s[k] \/ (s[i] = s[k] /\ k <= i)
      BY <2>0, <2>4, <2>7
    <2>10. k # 0 /\ k \in 0 .. n
      BY <2>7
    <2>11. IsBest(k, n, s)
      BY <2>8, <2>9, <2>10 DEF IsBest
    <2> QED  BY <2>10, <2>11
  <1> QED  BY <1>1, <1>2

\* No score is better than the best.
LEMMA BestBeats ==
  ASSUME NEW n \in Nat, NEW k \in 0 .. n, NEW s, IsBest(k, n, s), NEW j \in 1 .. n, s[j] > 0
  PROVE  k # 0 /\ k \in 1 .. n /\ (s[j] < s[k] \/ s[j] = s[k])
  <1>1. k # 0
    <2>1. ~(0 > 0)
      OBVIOUS
    <2> QED  BY <2>1 DEF IsBest
  <1>2. k \in 1 .. n
    BY <1>1
  <1> QED  BY <1>1, <1>2 DEF IsBest
=============================================================================
