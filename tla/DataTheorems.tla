---------------------------- MODULE DataTheorems ----------------------------
(***************************************************************************)
(* Induction on the numbers up to n, with the property given as a set and  *)
(* not as an operator, which the provers cannot instantiate; and what      *)
(* follows by it for sequences.                                            *)
(***************************************************************************)
EXTENDS RowSequences, FiniteSetTheorems, FunctionTheorems, TLAPS

\* A set that holds 0, and the successor of each of its members below n,
\* holds n: otherwise the successor maps it into itself without 0.
LEMMA Induction ==
  ASSUME NEW n \in Nat, NEW S \in SUBSET (0..n), 0 \in S,
         \A k \in S : k < n => k + 1 \in S
  PROVE  n \in S
<1> SUFFICES ASSUME n \notin S PROVE FALSE
  OBVIOUS
<1> DEFINE next == [k \in S |-> k + 1]
<1>1. IsFiniteSet(0..n)
  BY FS_Interval
<1>2. IsFiniteSet(S) /\ Cardinality(S) \in Nat
  BY <1>1, FS_Subset, FS_CardinalityType
<1>3. next \in [S -> S \ {0}] /\ \A j, k \in S : next[j] = next[k] => j = k
  OBVIOUS
<1>4. next \in Injection(S, S \ {0})
  BY <1>3, Fun_IsInj
<1>5. IsFiniteSet(S \ {0}) /\ Cardinality(S \ {0}) = Cardinality(S) - 1
  BY <1>2, FS_RemoveElement
<1>6. Cardinality(S) <= Cardinality(S \ {0})
  BY <1>4, <1>5, FS_Injection
<1> QED
  BY <1>2, <1>5, <1>6

\* A set of numbers up to n has a greatest element.
LEMMA Greatest ==
  ASSUME NEW n \in Nat, NEW S \in SUBSET (1..n), S # {}
  PROVE  \E i \in S : \A j \in S : j <= i
<1> SUFFICES ASSUME \A i \in S : \E j \in S : j > i PROVE FALSE
  OBVIOUS
<1> DEFINE below == {k \in 0..n : \E i \in S : k <= i}
<1>1. 0 \in below
  <2>1. PICK i \in S : TRUE
    OBVIOUS
  <2> QED
    BY <2>1
<1>2. ASSUME NEW k \in below, k < n
      PROVE  k + 1 \in below
  <2>1. PICK i \in S : k <= i
    OBVIOUS
  <2>2. PICK j \in S : j > i
    OBVIOUS
  <2> QED
    BY <1>2, <2>1, <2>2
<1>3. n \in below
  BY <1>1, <1>2, Induction
<1> QED
  BY <1>3

LEMMA Least ==
  ASSUME NEW n \in Nat, NEW S \in SUBSET (1..n), S # {}
  PROVE  \E i \in S : \A j \in S : i <= j
<1> DEFINE mirror == {k \in 1..n : n + 1 - k \in S}
<1>1. mirror \in SUBSET (1..n) /\ \A i \in S : n + 1 - i \in mirror
  OBVIOUS
<1>2. PICK k \in mirror : \A j \in mirror : j <= k
  <2>1. mirror # {}
    BY <1>1
  <2> HIDE DEF mirror
  <2> QED
    BY <1>1, <2>1, Greatest
<1>3. n + 1 - k \in S /\ \A j \in S : n + 1 - k <= j
  BY <1>1, <1>2
<1> QED
  BY <1>3

\* What the provers do not see by themselves in larger goals.
LEMMA NextMultiple ==
  ASSUME NEW k \in Int, NEW d \in Int
  PROVE  (k + 1) * d = k * d + d /\ k * d \in Int
OBVIOUS

\* A sequence of numbers whose neighbours differ by d is an arithmetic
\* progression.
LEMMA Progression ==
  ASSUME NEW n \in Nat, NEW f \in [1..n -> Int], NEW d \in Int,
         \A i \in 1..(n - 1) : f[i + 1] = f[i] + d
  PROVE  \A i \in 1..n : f[i] = f[1] + (i - 1) * d
<1> SUFFICES ASSUME NEW i \in 1..n
             PROVE  f[i] = f[1] + (i - 1) * d
  OBVIOUS
<1> DEFINE m == i - 1
           placed == {k \in 0..m : f[k + 1] = f[1] + k * d}
<1>1. m \in Nat /\ m < n
  OBVIOUS
<1>2. 0 \in placed
  <2>1. 0 * d = 0 /\ f[1] \in Int
    BY <1>1
  <2> QED
    BY <1>1, <2>1
<1>3. ASSUME NEW k \in placed, k < m
      PROVE  k + 1 \in placed
  <2>1. f[k + 1 + 1] = f[k + 1] + d /\ f[k + 1] = f[1] + k * d
    BY <1>1, <1>3
  <2>2. (k + 1) * d = k * d + d /\ k * d \in Int
    BY <1>1, NextMultiple
  <2>3. f[1] \in Int /\ k + 1 \in 0..m
    BY <1>1, <1>3
  <2>4. f[k + 1 + 1] = f[1] + (k + 1) * d
    BY <2>1, <2>2, <2>3
  <2> QED
    BY <2>3, <2>4
<1> HIDE DEF placed
<1>4. m \in placed
  BY <1>1, <1>2, <1>3, Induction DEF placed
<1> QED
  BY <1>1, <1>4 DEF placed

\* The arithmetic of a grid.
LEMMA Multiples ==
  ASSUME NEW d \in Nat \ {0}, NEW a \in Int, NEW b \in Int
  PROVE  /\ a * d \in Int
         /\ (a + b) * d = a * d + b * d
         /\ a < b => a * d + d <= b * d
         /\ a >= 0 => a * d >= a /\ (a * d) % d = 0
OBVIOUS

LEMMA Quotient ==
  ASSUME NEW d \in Nat \ {0}, NEW x \in Nat, x % d = 0
  PROVE  \E q \in 0..x : x = q * d
OBVIOUS

\* One step of the recursion that defines a comprehension.
SelectedStep(rows, kept, f, n) ==
    IF n = 0 THEN <<>>
    ELSE IF n \in kept THEN Append(f[n - 1], rows[n])
    ELSE f[n - 1]

\* The recursion has a solution.
LEMMA SelectedRecursion ==
  ASSUME NEW rows, NEW kept, NEW N \in Nat
  PROVE  \E f : f = [n \in 0..N |-> SelectedStep(rows, kept, f, n)]
<1> DEFINE Step(f, n) == SelectedStep(rows, kept, f, n)
           solved == {n \in 0..N : \E f : f = [k \in 0..n |-> Step(f, k)]}
<1>1. 0 \in solved
  <2> DEFINE f == [k \in 0..0 |-> <<>>]
  <2>1. f = [k \in 0..0 |-> Step(f, k)]
    BY DEF SelectedStep
  <2>2. 0 \in 0..N
    OBVIOUS
  <2> HIDE DEF f, Step
  <2> QED
    BY <2>1, <2>2
<1>2. ASSUME NEW n \in solved, n < N
      PROVE  n + 1 \in solved
  <2>1. PICK f : f = [k \in 0..n |-> Step(f, k)]
    OBVIOUS
  <2> DEFINE g == [k \in 0..(n + 1) |-> IF k = n + 1 THEN Step(f, n + 1) ELSE f[k]]
  <2>2. n \in Nat /\ n + 1 \in 0..N
    BY <1>2
  <2>3. \A k \in 0..n : g[k] = f[k]
    BY <2>2
  <2>4. \A k \in 0..(n + 1) : Step(g, k) = Step(f, k)
    BY <2>2, <2>3 DEF SelectedStep
  <2>5. \A k \in 0..n : f[k] = Step(f, k)
    BY <2>1
  <2> HIDE DEF Step
  <2>6. \A k \in 0..(n + 1) : g[k] = Step(f, k)
    BY <2>2, <2>5
  <2>7. g = [k \in 0..(n + 1) |-> Step(g, k)]
    BY <2>4, <2>6
  <2> QED
    BY <2>2, <2>7
<1> HIDE DEF solved
<1>3. N \in solved
  BY <1>1, <1>2, Induction DEF solved
<1> QED
  BY <1>3 DEF solved

\* A comprehension keeps the rows it selects, and no other.
LEMMA SelectedRows ==
  ASSUME NEW R, NEW rows \in Seq(R), NEW kept \in SUBSET DOMAIN rows
  PROVE  /\ Selected(rows, kept) \in Seq(R)
         /\ {Selected(rows, kept)[i] : i \in DOMAIN Selected(rows, kept)}
              = {rows[k] : k \in kept}
         /\ IF kept = DOMAIN rows THEN Selected(rows, kept) = rows
            ELSE Len(Selected(rows, kept)) < Len(rows)
<1> DEFINE N == Len(rows)
           Step(f, n) == SelectedStep(rows, kept, f, n)
           selected == CHOOSE f : f = [n \in 0..N |-> Step(f, n)]
           Picked(n) == {rows[k] : k \in kept \cap (1..n)}
           Selects(c, n) == /\ c \in Seq(R)
                            /\ {c[i] : i \in DOMAIN c} = Picked(n)
                            /\ IF 1..n \subseteq kept
                               THEN Len(c) = n /\ \A i \in 1..n : c[i] = rows[i]
                               ELSE Len(c) < n
           good == {n \in 0..N : Selects(selected[n], n)}
<1>1. Selected(rows, kept) = selected[N]
  BY DEF Selected, SelectedStep
<1>2. N \in Nat /\ DOMAIN rows = 1..N /\ \A n \in 1..N : rows[n] \in R
  OBVIOUS
<1>3. selected = [n \in 0..N |-> Step(selected, n)]
  <2>1. \E f : f = [n \in 0..N |-> Step(f, n)]
    BY <1>2, SelectedRecursion
  <2> HIDE DEF N, Step
  <2> QED
    BY <2>1
<1>4. /\ selected[0] = <<>>
      /\ \A n \in 1..N : selected[n] = Step(selected, n)
  <2>1. \A n \in 0..N : selected[n] = Step(selected, n)
    <3> HIDE DEF selected, N, Step
    <3> QED
      BY <1>3
  <2> HIDE DEF selected, N
  <2> QED
    BY <1>2, <2>1 DEF SelectedStep
<1> HIDE DEF N, selected
<1>5. 0 \in good
  <2>1. 0 \in 0..N /\ 1..0 = {}
    BY <1>2
  <2>2. <<>> \in Seq(R) /\ Len(<<>>) = 0 /\ DOMAIN <<>> = {}
    OBVIOUS
  <2>3. Picked(0) = {}
    BY <2>1
  <2>4. Selects(<<>>, 0)
    BY <2>1, <2>2, <2>3
  <2> HIDE DEF Selects
  <2> QED
    BY <1>4, <2>1, <2>4
<1>6. ASSUME NEW n \in good, n < N
      PROVE  n + 1 \in good
  <2> DEFINE c == selected[n]
             d == selected[n + 1]
  <2>1. n \in Nat /\ n + 1 \in 1..N /\ n + 1 \in 0..N /\ Selects(c, n)
    <3> HIDE DEF Selects
    <3> QED
      BY <1>2, <1>6
  <2>2. d = IF n + 1 \in kept THEN Append(c, rows[n + 1]) ELSE c
    BY <1>4, <2>1 DEF SelectedStep
  <2>3. /\ 1..(n + 1) = 1..n \cup {n + 1}
        /\ rows[n + 1] \in R
    BY <1>2, <2>1
  <2> HIDE DEF c, d
  <2>4. CASE n + 1 \in kept
    <3>1. /\ d \in Seq(R) /\ Len(d) = Len(c) + 1 /\ Len(c) \in Nat
          /\ DOMAIN c = 1..Len(c) /\ DOMAIN d = 1..(Len(c) + 1)
          /\ \A i \in 1..Len(c) : d[i] = c[i]
          /\ d[Len(c) + 1] = rows[n + 1]
      BY <2>1, <2>2, <2>3, <2>4
    <3>2. Picked(n + 1) = Picked(n) \cup {rows[n + 1]}
      BY <2>3, <2>4
    <3>3. {d[i] : i \in DOMAIN d} = {c[i] : i \in DOMAIN c} \cup {rows[n + 1]}
      BY <3>1
    <3>4. {d[i] : i \in DOMAIN d} = Picked(n + 1)
      <4> HIDE DEF Picked
      <4> QED
        BY <2>1, <3>2, <3>3
    <3>5. IF 1..(n + 1) \subseteq kept
          THEN Len(d) = n + 1 /\ \A i \in 1..(n + 1) : d[i] = rows[i]
          ELSE Len(d) < n + 1
      <4>1. CASE 1..n \subseteq kept
        <5>1. Len(c) = n /\ \A i \in 1..n : c[i] = rows[i]
          BY <2>1, <4>1
        <5>2. Len(d) = n + 1 /\ \A i \in 1..(n + 1) : d[i] = rows[i]
          BY <2>1, <2>3, <3>1, <5>1
        <5> QED
          BY <2>3, <2>4, <4>1, <5>2
      <4>2. CASE ~(1..n \subseteq kept)
        BY <2>1, <2>3, <3>1, <4>2
      <4> QED
        BY <4>1, <4>2
    <3> HIDE DEF Picked
    <3> QED
      BY <2>1, <3>1, <3>4, <3>5 DEF d
  <2>5. CASE n + 1 \notin kept
    <3>1. Picked(n + 1) = Picked(n) /\ ~(1..(n + 1) \subseteq kept)
      BY <2>3, <2>5
    <3>2. Len(c) < n + 1
      BY <2>1
    <3>3. d = c
      BY <2>2, <2>5
    <3> HIDE DEF Picked
    <3> QED
      BY <2>1, <3>1, <3>2, <3>3 DEF d
  <2> QED
    BY <2>4, <2>5
<1>7. N \in good
  <2> HIDE DEF good
  <2>1. good \in SUBSET (0..N)
    BY DEF good
  <2> QED
    BY <1>2, <1>5, <1>6, <2>1, Induction
<1>8. Selects(Selected(rows, kept), N)
  BY <1>1, <1>7
<1>9. kept \cap (1..N) = kept /\ (1..N \subseteq kept <=> kept = DOMAIN rows)
  BY <1>2
<1> DEFINE c == Selected(rows, kept)
<1>10. c \in Seq(R) /\ {c[i] : i \in DOMAIN c} = {rows[k] : k \in kept}
  BY <1>8, <1>9
<1>11. ASSUME kept = DOMAIN rows
       PROVE  c = rows
  <2>1. c \in Seq(R) /\ Len(c) = N /\ \A i \in 1..N : c[i] = rows[i]
    BY <1>8, <1>9, <1>11
  <2> HIDE DEF c
  <2> QED
    BY <1>2, <2>1 DEF N
<1>12. ASSUME kept # DOMAIN rows
       PROVE  Len(c) < Len(rows)
  BY <1>8, <1>9, <1>12 DEF N
<1> QED
  BY <1>10, <1>11, <1>12

\* sorted() is defined for every sequence of numbers: each row is inserted
\* behind the ones that are not greater.
Arranged(rows, r, order, n) ==
    /\ r \in [1..n -> Int] /\ order \in [1..n -> 1..n]
    /\ \A i, j \in 1..n : i < j => r[i] <= r[j]
    /\ \A k \in 1..n : \E i \in 1..n : order[i] = k
    /\ \A i \in 1..n : r[i] = rows[order[i]]

LEMMA Insertion ==
  ASSUME NEW n \in Nat, NEW rows, rows[n + 1] \in Int,
         NEW r, NEW order, Arranged(rows, r, order, n)
  PROVE  \E t, q : Arranged(rows, t, q, n + 1)
<1> DEFINE x == rows[n + 1]
           below == {i \in 1..n : r[i] <= x}
<1>1. /\ r \in [1..n -> Int] /\ order \in [1..n -> 1..n] /\ x \in Int
      /\ \A i, j \in 1..n : i < j => r[i] <= r[j]
  BY DEF Arranged
<1>2. \E p \in 0..n : \A i \in 1..n : i <= p <=> r[i] <= x
  <2>1. CASE below = {}
    <3>1. \A i \in 1..n : ~(i <= 0) /\ ~(r[i] <= x)
      BY <2>1
    <3> QED
      BY <3>1
  <2>2. CASE below # {}
    <3>1. PICK p \in below : \A i \in below : i <= p
      <4>1. below \in SUBSET (1..n)
        OBVIOUS
      <4> HIDE DEF below
      <4> QED
        BY <2>2, <4>1, Greatest
    <3>2. p \in 1..n /\ r[p] <= x
      OBVIOUS
    <3>3. ASSUME NEW i \in 1..n, i <= p
          PROVE  r[i] <= x
      <4>1. i = p \/ r[i] <= r[p]
        BY <1>1, <3>2, <3>3
      <4> HIDE DEF x, below
      <4>2. r[i] \in Int /\ r[p] \in Int
        BY <1>1, <3>2
      <4> QED
        BY <1>1, <3>2, <4>1, <4>2
    <3>4. \A i \in 1..n : r[i] <= x => i <= p
      BY <3>1
    <3> QED
      BY <3>2, <3>3, <3>4
  <2> QED
    BY <2>1, <2>2
<1>3. PICK p \in 0..n : \A i \in 1..n : i <= p <=> r[i] <= x
  BY <1>2
<1> DEFINE q == [i \in 1..(n + 1) |-> IF i <= p THEN order[i]
                                    ELSE IF i = p + 1 THEN n + 1 ELSE order[i - 1]]
           t == [i \in 1..(n + 1) |-> IF i <= p THEN r[i]
                                    ELSE IF i = p + 1 THEN x ELSE r[i - 1]]
<1> HIDE DEF x, below
<1>4. q \in [1..(n + 1) -> 1..(n + 1)] /\ t \in [1..(n + 1) -> Int]
  <2>1. \A i \in 1..(n + 1) : /\ i <= p => i \in 1..n
                             /\ ~(i <= p) /\ i # p + 1 => i - 1 \in 1..n
    OBVIOUS
  <2>2. \A i \in 1..n : order[i] \in 1..(n + 1) /\ r[i] \in Int
    BY <1>1
  <2> QED
    BY <1>1, <2>1, <2>2
<1>5. \A i \in 1..(n + 1) : t[i] = rows[q[i]]
  <2>1. \A i \in 1..n : r[i] = rows[order[i]]
    BY DEF Arranged
  <2> QED
    BY <2>1 DEF x
<1>6. ASSUME NEW k \in 1..(n + 1)
      PROVE  \E i \in 1..(n + 1) : q[i] = k
  <2>1. CASE k = n + 1
    <3>1. p + 1 \in 1..(n + 1) /\ q[p + 1] = n + 1
      OBVIOUS
    <3> QED
      BY <2>1, <3>1
  <2>2. CASE k # n + 1
    <3>1. PICK i \in 1..n : order[i] = k
      BY <2>2 DEF Arranged
    <3>2. CASE i <= p
      BY <3>1, <3>2
    <3>3. CASE i > p
      <4>1. i + 1 \in 1..(n + 1) /\ q[i + 1] = order[i]
        BY <3>3
      <4> QED
        BY <3>1, <4>1
    <3> QED
      BY <3>2, <3>3
  <2> QED
    BY <2>1, <2>2
<1>7. ASSUME NEW i \in 1..(n + 1), NEW j \in 1..(n + 1), i < j
      PROVE  t[i] <= t[j]
  <2>1. ASSUME NEW k \in 1..(n + 1), k <= p
        PROVE  k \in 1..n /\ t[k] = r[k] /\ t[k] <= x
    BY <1>3, <2>1
  <2>2. ASSUME NEW k \in 1..(n + 1), k = p + 1
        PROVE  t[k] = x
    BY <2>2
  <2>3. ASSUME NEW k \in 1..(n + 1), k > p + 1
        PROVE  k - 1 \in 1..n /\ t[k] = r[k - 1] /\ x <= t[k]
    <3>1. k - 1 \in 1..n /\ ~(k - 1 <= p)
      BY <2>3
    <3>2. ~(r[k - 1] <= x) /\ r[k - 1] \in Int
      BY <1>1, <1>3, <3>1
    <3>3. t[k] = r[k - 1]
      BY <2>3
    <3> HIDE DEF t
    <3> QED
      BY <1>1, <3>1, <3>2, <3>3
  <2>4. t[i] \in Int /\ t[j] \in Int /\ x \in Int
    BY <1>1, <1>4
  <2> HIDE DEF t
  <2>5. CASE j <= p
    BY <1>1, <1>7, <2>1, <2>5
  <2>6. CASE i > p + 1
    BY <1>1, <1>7, <2>3, <2>6
  <2>7. CASE i <= p + 1 /\ j > p
    <3>1. t[i] <= x
      BY <2>1, <2>2, <2>4, <2>7
    <3>2. x <= t[j]
      BY <2>2, <2>3, <2>4, <2>7
    <3> QED
      BY <2>4, <3>1, <3>2
  <2> QED
    BY <2>5, <2>6, <2>7
<1> HIDE DEF t, q
<1>8. Arranged(rows, t, q, n + 1)
  BY <1>4, <1>5, <1>6, <1>7 DEF Arranged
<1> QED
  BY <1>8

LEMMA SortedRows ==
  ASSUME NEW rows \in Seq(Int)
  PROVE  /\ Sorted(rows) \in Seq(Int) /\ Len(Sorted(rows)) = Len(rows)
         /\ \A i, j \in 1..Len(rows) : i < j => Sorted(rows)[i] <= Sorted(rows)[j]
         /\ {Sorted(rows)[i] : i \in DOMAIN Sorted(rows)}
              = {rows[i] : i \in DOMAIN rows}
<1> DEFINE N == Len(rows)
           values == {rows[i] : i \in DOMAIN rows}
           arranged == {n \in 0..N : \E r, order : Arranged(rows, r, order, n)}
           Sorts(r) == /\ \A i, j \in DOMAIN r : i < j => r[i] <= r[j]
                       /\ \E order \in [DOMAIN rows -> DOMAIN rows] :
                             /\ DOMAIN rows \subseteq {order[i] : i \in DOMAIN rows}
                             /\ \A i \in DOMAIN rows : r[i] = rows[order[i]]
<1>1. N \in Nat /\ DOMAIN rows = 1..N /\ \A i \in 1..N : rows[i] \in Int
  OBVIOUS
<1> HIDE DEF N
<1>2. 0 \in arranged
  <2> DEFINE none == [i \in {} |-> 0]
  <2>1. 1..0 = {} /\ 0 \in 0..N
    BY <1>1
  <2>2. Arranged(rows, none, none, 0)
    BY <2>1 DEF Arranged
  <2> QED
    BY <2>1, <2>2
<1>3. ASSUME NEW n \in arranged, n < N
      PROVE  n + 1 \in arranged
  <2>1. n \in Nat /\ n + 1 \in 0..N /\ rows[n + 1] \in Int
    BY <1>1, <1>3
  <2>2. PICK r, order : Arranged(rows, r, order, n)
    OBVIOUS
  <2>3. \E t, q : Arranged(rows, t, q, n + 1)
    BY <2>1, <2>2, Insertion
  <2> QED
    BY <2>1, <2>3
<1>4. PICK r, order : Arranged(rows, r, order, N)
  <2>1. arranged \in SUBSET (0..N)
    OBVIOUS
  <2> HIDE DEF arranged
  <2>2. N \in arranged
    BY <1>1, <1>2, <1>3, <2>1, Induction
  <2> QED
    BY <2>2 DEF arranged
<1>5. r \in [DOMAIN rows -> values] /\ Sorts(r)
  <2>1. /\ r \in [1..N -> Int] /\ order \in [1..N -> 1..N]
        /\ \A i, j \in 1..N : i < j => r[i] <= r[j]
        /\ \A k \in 1..N : \E i \in 1..N : order[i] = k
        /\ \A i \in 1..N : r[i] = rows[order[i]]
    BY <1>4 DEF Arranged
  <2>2. r \in [DOMAIN rows -> values]
    BY <1>1, <2>1
  <2>3. DOMAIN r = 1..N
    BY <2>1
  <2>4. order \in [DOMAIN rows -> DOMAIN rows]
    BY <1>1, <2>1
  <2>5. DOMAIN rows \subseteq {order[i] : i \in DOMAIN rows}
    BY <1>1, <2>1
  <2> HIDE DEF values
  <2> QED
    BY <1>1, <2>1, <2>2, <2>3, <2>4, <2>5
<1>6. Sorted(rows) = CHOOSE s \in [DOMAIN rows -> values] : Sorts(s)
  BY DEF Sorted
<1> DEFINE s == Sorted(rows)
<1>7. s \in [DOMAIN rows -> values] /\ Sorts(s)
  <2> HIDE DEF values, Sorts
  <2> QED
    BY <1>5, <1>6
<1> HIDE DEF s
<1>8. s \in [1..N -> Int]
  BY <1>1, <1>7
<1>9. s \in Seq(Int) /\ Len(s) = N /\ DOMAIN s = 1..N
  BY <1>1, <1>8
<1>10. PICK o \in [1..N -> 1..N] : /\ 1..N \subseteq {o[i] : i \in 1..N}
                                  /\ \A i \in 1..N : s[i] = rows[o[i]]
  BY <1>1, <1>7
<1>11. {s[i] : i \in DOMAIN s} = values
  <2>1. \A k \in 1..N : \E i \in 1..N : s[i] = rows[k]
    BY <1>10
  <2> QED
    BY <1>1, <1>9, <1>10, <2>1
<1>12. \A i, j \in 1..N : i < j => s[i] <= s[j]
  BY <1>7, <1>9
<1> QED
  BY <1>9, <1>11, <1>12 DEF s, N
=============================================================================
