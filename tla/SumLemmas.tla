----------------------------- MODULE SumLemmas -----------------------------
(***************************************************************************)
(* What Sum is, for any sequence of integers.                              *)
(***************************************************************************)
EXTENDS Sums, NaturalsInduction, WellFoundedInduction, TLAPS

LEMMA LeastElement ==
    ASSUME NEW T \in SUBSET Nat, T # {}
    PROVE  \E x \in T : \A y \in T : x <= y
<1> DEFINE R == OpToRel(<, Nat)
<1>1. IsWellFoundedOn(R, Nat)
  BY NatLessThanWellFounded
<1>2. PICK x \in T : \A y \in T : <<y, x>> \notin R
  <2> HIDE DEF R
  <2> QED
    BY <1>1, WFMin
<1>3. \A y \in T : ~(y < x)
  BY <1>2 DEF OpToRel
<1> QED
  BY <1>3

SumsUp(f, w, n) ==
    /\ f \in [0..n -> Int]
    /\ f[0] = 0
    /\ \A i \in 1..n : f[i] = f[i - 1] + w[i]

LEMMA SumsUpExists ==
    ASSUME NEW w, NEW n \in Nat, \A i \in 1..n : w[i] \in Int
    PROVE  \E f : SumsUp(f, w, n)
<1> DEFINE T == {k \in 0..n : ~\E f : SumsUp(f, w, k)}
<1>1. ASSUME T # {}
      PROVE  FALSE
  <2>1. PICK k \in T : \A y \in T : k <= y
    <3>1. T \in SUBSET Nat
      OBVIOUS
    <3> HIDE DEF T
    <3> QED
      BY <1>1, <3>1, LeastElement
  <2>2. k \in 0..n /\ ~\E f : SumsUp(f, w, k)
    OBVIOUS
  <2>3. k # 0
    <3> DEFINE g == [i \in 0..0 |-> 0]
    <3>1. SumsUp(g, w, 0)
      BY DEF SumsUp
    <3> QED
      BY <3>1, <2>2
  <2>4. k - 1 \in 0..n /\ k - 1 \notin T
    BY <2>1, <2>2, <2>3
  <2>5. PICK g : SumsUp(g, w, k - 1)
    BY <2>4
  <2> DEFINE h == [i \in 0..k |-> IF i = k THEN g[k - 1] + w[k] ELSE g[i]]
  <2>6. g[k - 1] \in Int /\ w[k] \in Int /\ \A i \in 0..(k - 1) : g[i] \in Int
    BY <2>2, <2>3, <2>5 DEF SumsUp
  <2>7. h \in [0..k -> Int]
    BY <2>2, <2>3, <2>6
  <2>8. h[0] = 0
    BY <2>2, <2>3, <2>5 DEF SumsUp
  <2>9. ASSUME NEW i \in 1..k PROVE h[i] = h[i - 1] + w[i]
    <3>1. i \in 0..k /\ i - 1 \in 0..k /\ i - 1 # k
      BY <2>2
    <3>2. h[i - 1] = g[i - 1]
      BY <3>1
    <3>3. CASE i = k
      BY <3>1, <3>2, <3>3
    <3>4. CASE i # k
      <4>1. i \in 1..(k - 1)
        BY <3>4, <2>2
      <4>2. h[i] = g[i]
        BY <3>1, <3>4
      <4> QED
        BY <4>1, <4>2, <3>2, <2>5 DEF SumsUp
    <3> QED
      BY <3>3, <3>4
  <2>10. SumsUp(h, w, k)
    <3> HIDE DEF h
    <3> QED
      BY <2>7, <2>8, <2>9 DEF SumsUp
  <2> QED
    BY <2>2, <2>10
<1>2. n \notin T /\ n \in 0..n
  BY <1>1
<1> QED
  BY <1>2

\* What the recursive function of Sum is.
LEMMA SumIs ==
    ASSUME NEW w, NEW n \in Nat, \A i \in 1..n : w[i] \in Int
    PROVE  \E f : SumsUp(f, w, n) /\ Sum(w, n) = f[n]
<1> DEFINE Body(f) == [i \in 0..n |-> IF i = 0 THEN 0 ELSE f[i - 1] + w[i]]
           u == CHOOSE f : f = Body(f)
<1>1. PICK g : SumsUp(g, w, n)
  BY SumsUpExists
<1>2. g = Body(g)
  <2>1. g \in [0..n -> Int] /\ g[0] = 0 /\ \A i \in 1..n : g[i] = g[i - 1] + w[i]
    BY <1>1 DEF SumsUp
  <2>2. \A i \in 0..n : i = 0 \/ i \in 1..n
    OBVIOUS
  <2>3. \A i \in 0..n : g[i] = IF i = 0 THEN 0 ELSE g[i - 1] + w[i]
    BY <2>1, <2>2
  <2> QED
    BY <2>1, <2>3
<1>3. u = Body(u)
  <2>1. \E f : f = Body(f)
    BY <1>2
  <2> HIDE DEF Body
  <2> QED
    BY <2>1
<1>4. Sum(w, n) = u[n]
  BY DEF Sum
<1> HIDE DEF u
<1>5. /\ u = [i \in 0..n |-> IF i = 0 THEN 0 ELSE u[i - 1] + w[i]]
      /\ \A i \in 0..n : u[i] = IF i = 0 THEN 0 ELSE u[i - 1] + w[i]
  BY <1>3
<1>6. u[0] = 0 /\ \A i \in 1..n : u[i] = u[i - 1] + w[i]
  BY <1>5
<1> DEFINE T == {k \in 0..n : u[k] \notin Int}
<1>7. ASSUME T # {}
      PROVE  FALSE
  <2>1. PICK k \in T : \A y \in T : k <= y
    <3>1. T \in SUBSET Nat
      OBVIOUS
    <3> HIDE DEF T
    <3> QED
      BY <1>7, <3>1, LeastElement
  <2>2. k \in 0..n /\ u[k] \notin Int
    OBVIOUS
  <2>3. k # 0 /\ k \in 1..n
    BY <2>2, <1>6
  <2>4. k - 1 \notin T /\ k - 1 \in 0..n
    BY <2>1, <2>3
  <2>5. u[k - 1] \in Int
    BY <2>4
  <2> QED
    BY <2>2, <2>3, <2>5, <1>6
<1>8. \A k \in 0..n : u[k] \in Int
  BY <1>7
<1>9. u \in [0..n -> Int]
  BY <1>5, <1>8
<1> QED
  BY <1>4, <1>6, <1>9 DEF SumsUp

LEMMA SumsAgree ==
    ASSUME NEW n \in Nat, NEW k \in Nat, n <= k, NEW w, NEW v, NEW f, NEW g,
           SumsUp(f, w, n), SumsUp(g, v, k), \A i \in 1..n : w[i] = v[i]
    PROVE  f[n] = g[n]
<1> DEFINE T == {j \in 0..n : f[j] # g[j]}
<1>0. /\ f[0] = 0 /\ \A i \in 1..n : f[i] = f[i - 1] + w[i]
      /\ g[0] = 0 /\ \A i \in 1..n : g[i] = g[i - 1] + v[i]
  BY DEF SumsUp
<1>1. ASSUME T # {}
      PROVE  FALSE
  <2>1. PICK j \in T : \A y \in T : j <= y
    <3>1. T \in SUBSET Nat
      OBVIOUS
    <3> HIDE DEF T
    <3> QED
      BY <1>1, <3>1, LeastElement
  <2>2. j \in 0..n /\ f[j] # g[j]
    OBVIOUS
  <2>3. j \in 1..n
    BY <1>0, <2>2
  <2>4. j - 1 \notin T /\ j - 1 \in 0..n
    BY <2>1, <2>3
  <2>5. f[j - 1] = g[j - 1]
    BY <2>4
  <2> QED
    BY <1>0, <2>2, <2>3, <2>5
<1>2. n \notin T /\ n \in 0..n
  BY <1>1
<1> QED
  BY <1>2

LEMMA SumType ==
    ASSUME NEW w, NEW n \in Nat, \A i \in 1..n : w[i] \in Int
    PROVE  Sum(w, n) \in Int
<1>1. PICK f : SumsUp(f, w, n) /\ Sum(w, n) = f[n]
  BY SumIs
<1> QED
  BY <1>1 DEF SumsUp

LEMMA SumEmpty ==
    ASSUME NEW w
    PROVE  Sum(w, 0) = 0
<1>1. PICK f : SumsUp(f, w, 0) /\ Sum(w, 0) = f[0]
  BY SumIs
<1> QED
  BY <1>1 DEF SumsUp

\* The sum grows by the next element.
LEMMA SumNext ==
    ASSUME NEW w, NEW n \in Nat, \A i \in 1..(n + 1) : w[i] \in Int
    PROVE  Sum(w, n + 1) = Sum(w, n) + w[n + 1]
<1>0. n + 1 \in Nat /\ n <= n + 1 /\ (n + 1) - 1 = n /\ n + 1 \in 1..(n + 1)
      /\ \A i \in 1..n : i \in 1..(n + 1)
  OBVIOUS
<1>1. PICK f : SumsUp(f, w, n) /\ Sum(w, n) = f[n]
  BY <1>0, SumIs
<1>2. PICK g : SumsUp(g, w, n + 1) /\ Sum(w, n + 1) = g[n + 1]
  BY <1>0, SumIs
<1>3. f[n] = g[n]
  BY <1>0, <1>1, <1>2, SumsAgree
<1>4. g[n + 1] = g[n] + w[n + 1]
  BY <1>0, <1>2 DEF SumsUp
<1> QED
  BY <1>1, <1>2, <1>3, <1>4

LEMMA SumSame ==
    ASSUME NEW w, NEW v, NEW n \in Nat,
           \A i \in 1..n : w[i] \in Int, \A i \in 1..n : w[i] = v[i]
    PROVE  Sum(w, n) = Sum(v, n)
<1>1. PICK f : SumsUp(f, w, n) /\ Sum(w, n) = f[n]
  BY SumIs
<1>2. PICK g : SumsUp(g, v, n) /\ Sum(v, n) = g[n]
  <2>1. \A i \in 1..n : v[i] \in Int
    OBVIOUS
  <2> QED
    BY <2>1, SumIs
<1> QED
  BY <1>1, <1>2, SumsAgree

\* Dropping the first element shifts the sum.
LEMMA SumTail ==
    ASSUME NEW w, NEW v, NEW n \in Nat,
           \A i \in 1..(n + 1) : w[i] \in Int, \A i \in 1..n : v[i] = w[i + 1]
    PROVE  Sum(w, n + 1) = w[1] + Sum(v, n)
<1> DEFINE T == {k \in 0..n : Sum(w, k + 1) # w[1] + Sum(v, k)}
<1>0. \A i \in 1..n : v[i] \in Int
  OBVIOUS
<1>1. ASSUME T # {}
      PROVE  FALSE
  <2>1. PICK k \in T : \A y \in T : k <= y
    <3>1. T \in SUBSET Nat
      OBVIOUS
    <3> HIDE DEF T
    <3> QED
      BY <1>1, <3>1, LeastElement
  <2>2. k \in 0..n /\ Sum(w, k + 1) # w[1] + Sum(v, k)
    OBVIOUS
  <2>3. Sum(w, k + 1) = Sum(w, k) + w[k + 1]
    <3>1. k \in Nat /\ \A i \in 1..(k + 1) : w[i] \in Int
      BY <2>2
    <3> QED
      BY <3>1, SumNext
  <2>4. CASE k = 0
    <3>1. Sum(w, 0) = 0 /\ Sum(v, 0) = 0 /\ w[1] \in Int
      BY SumEmpty
    <3> QED
      BY <2>2, <2>3, <2>4, <3>1
  <2>5. CASE k # 0
    <3>1. k - 1 \in 0..n /\ k - 1 \notin T /\ (k - 1) + 1 = k /\ k \in 1..n
      BY <2>1, <2>2, <2>5
    <3>2. Sum(w, k) = w[1] + Sum(v, k - 1)
      BY <3>1
    <3>3. Sum(v, (k - 1) + 1) = Sum(v, k - 1) + v[(k - 1) + 1]
      <4>1. k - 1 \in Nat /\ \A i \in 1..((k - 1) + 1) : v[i] \in Int
        BY <1>0, <3>1
      <4> HIDE DEF T
      <4> QED
        BY <4>1, SumNext
    <3>4. Sum(v, k) = Sum(v, k - 1) + w[k + 1]
      BY <3>1, <3>3
    <3>5. Sum(v, k - 1) \in Int /\ w[1] \in Int /\ w[k + 1] \in Int
      <4>1. k - 1 \in Nat /\ \A i \in 1..(k - 1) : v[i] \in Int
        BY <1>0, <3>1
      <4> HIDE DEF T
      <4>2. Sum(v, k - 1) \in Int
        BY <4>1, SumType
      <4> QED
        BY <3>1, <4>2
    <3> HIDE DEF T
    <3> QED
      BY <2>2, <2>3, <3>2, <3>4, <3>5
  <2> QED
    BY <2>4, <2>5
<1>2. n \notin T /\ n \in 0..n
  BY <1>1
<1> QED
  BY <1>2

\* The sum is monotonic in its elements.
LEMMA SumBelow ==
    ASSUME NEW w, NEW v, NEW n \in Nat,
           \A i \in 1..n : w[i] \in Int /\ v[i] \in Int /\ w[i] <= v[i]
    PROVE  Sum(w, n) <= Sum(v, n)
<1> DEFINE T == {k \in 0..n : ~(Sum(w, k) <= Sum(v, k))}
<1>1. ASSUME T # {}
      PROVE  FALSE
  <2>1. PICK k \in T : \A y \in T : k <= y
    <3>1. T \in SUBSET Nat
      OBVIOUS
    <3> HIDE DEF T
    <3> QED
      BY <1>1, <3>1, LeastElement
  <2>2. k \in 0..n /\ ~(Sum(w, k) <= Sum(v, k))
    OBVIOUS
  <2>3. k # 0
    <3>1. Sum(w, 0) = 0 /\ Sum(v, 0) = 0
      BY SumEmpty
    <3> QED
      BY <2>2, <3>1
  <2>4. k - 1 \in 0..n /\ k - 1 \notin T /\ (k - 1) + 1 = k /\ k \in 1..n
    BY <2>1, <2>2, <2>3
  <2>5. Sum(w, k - 1) <= Sum(v, k - 1)
    BY <2>4
  <2> HIDE DEF T
  <2>6. k - 1 \in Nat /\ \A i \in 1..k : w[i] \in Int /\ v[i] \in Int
    BY <2>4
  <2>7. /\ Sum(w, k) = Sum(w, k - 1) + w[k] /\ Sum(v, k) = Sum(v, k - 1) + v[k]
    <3>1. /\ \A i \in 1..((k - 1) + 1) : w[i] \in Int
          /\ \A i \in 1..((k - 1) + 1) : v[i] \in Int
      BY <2>4, <2>6
    <3> DEFINE j == k - 1
    <3>2. j \in Nat
      BY <2>6
    <3> HIDE DEF j
    <3>3. (\A i \in 1..(j + 1) : w[i] \in Int) => Sum(w, j + 1) = Sum(w, j) + w[j + 1]
      BY <3>2, SumNext
    <3>4. (\A i \in 1..(j + 1) : v[i] \in Int) => Sum(v, j + 1) = Sum(v, j) + v[j + 1]
      BY <3>2, SumNext
    <3>5. Sum(w, j + 1) = Sum(w, j) + w[j + 1] /\ Sum(v, j + 1) = Sum(v, j) + v[j + 1]
      BY <3>1, <3>3, <3>4 DEF j
    <3>6. j + 1 = k /\ j = k - 1
      BY <2>4 DEF j
    <3> QED
      BY <3>5, <3>6, Zenon
  <2>8. Sum(w, k - 1) \in Int /\ Sum(v, k - 1) \in Int
    <3>1. \A i \in 1..(k - 1) : w[i] \in Int /\ v[i] \in Int
      BY <2>4, <2>6
    <3> QED
      BY <2>6, <3>1, SumType
  <2>9. w[k] <= v[k] /\ w[k] \in Int /\ v[k] \in Int
    BY <2>4
  <2> QED
    BY <2>2, <2>5, <2>7, <2>8, <2>9
<1>2. n \notin T /\ n \in 0..n
  BY <1>1
<1> QED
  BY <1>2
=============================================================================
