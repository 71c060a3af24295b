------------------------------ MODULE Recursion ------------------------------
(***************************************************************************)
(* Induction over the natural numbers, stated with sets instead of         *)
(* operators, and what it says of functions defined by recursion.          *)
(***************************************************************************)
EXTENDS Integers, FiniteSets, FiniteSetTheorems, TLAPS

\* Induction: a set with 0 and all successors of its members has every natural
\* number.  If n were missing, to add one would map the members below n into
\* those but 0, which are fewer.
LEMMA Induction ==
  ASSUME NEW S, 0 \in S, \A n \in Nat : n \in S => n + 1 \in S
  PROVE  Nat \subseteq S
<1> SUFFICES ASSUME NEW n \in Nat, n \notin S PROVE FALSE
  OBVIOUS
<1> DEFINE B == {k \in 0 .. n : k \in S}
           f == [k \in B |-> k + 1]
<1>1. IsFiniteSet(B) /\ 0 \in B
  <2>1. IsFiniteSet(0 .. n)
    BY FS_Interval
  <2> QED BY <2>1, FS_Subset
<1>2. \A k \in B : k + 1 \in B \ {0}
  OBVIOUS
<1>3. f \in Injection(B, B \ {0})
  BY <1>2 DEF Injection, IsInjective
<1>4. IsFiniteSet(B \ {0}) /\ Cardinality(B \ {0}) = Cardinality(B) - 1
  BY <1>1, FS_RemoveElement
<1>5. Cardinality(B) <= Cardinality(B \ {0}) /\ Cardinality(B) \in Nat
  BY <1>1, <1>3, <1>4, FS_Injection, FS_CardinalityType
<1> QED BY <1>4, <1>5

-----------------------------------------------------------------------------
\* w goes from start along step: w[k + 1] is step[k][w[k]], up to n.
Follows(w, start, step, n) ==
  /\ w[0] = start
  /\ \A k \in 0 .. n - 1 : w[k + 1] = step[k][w[k]]

\* Where start and step lead is not open.
LEMMA OneWay ==
  ASSUME NEW start, NEW step, NEW n \in Nat, NEW v, NEW w,
         Follows(v, start, step, n), Follows(w, start, step, n)
  PROVE  \A k \in 0 .. n : v[k] = w[k]
<1> DEFINE S == {k \in Nat : k <= n => v[k] = w[k]}
<1>1. 0 \in S
  BY DEF Follows
<1>2. ASSUME NEW k \in Nat, k \in S PROVE k + 1 \in S
  <2>1. CASE k + 1 <= n
    <3>1. k \in 0 .. n - 1 /\ v[k] = w[k]
      BY <1>2, <2>1
    <3>2. v[k + 1] = step[k][v[k]] /\ w[k + 1] = step[k][w[k]]
      BY <3>1 DEF Follows
    <3> QED BY <3>1, <3>2
  <2> QED BY <2>1
<1> HIDE DEF S
<1>3. Nat \subseteq S
  BY <1>1, <1>2, Induction
<1> QED BY <1>3 DEF S

\* And they lead somewhere.
LEMMA SomeWay ==
  ASSUME NEW D, NEW start \in D, NEW step \in [Nat -> [D -> D]], NEW n \in Nat
  PROVE  \E w \in [0 .. n -> D] : Follows(w, start, step, n)
<1> DEFINE S == {m \in Nat : \E w \in [0 .. m -> D] : Follows(w, start, step, m)}
<1>1. 0 \in S
  <2>1. [k \in 0 .. 0 |-> start] \in [0 .. 0 -> D]
    OBVIOUS
  <2>2. Follows([k \in 0 .. 0 |-> start], start, step, 0)
    BY DEF Follows
  <2> QED BY <2>1, <2>2
<1>2. ASSUME NEW m \in Nat, m \in S PROVE m + 1 \in S
  <2>1. PICK w \in [0 .. m -> D] : Follows(w, start, step, m)
    BY <1>2
  <2> DEFINE v == [k \in 0 .. m + 1 |-> IF k = m + 1 THEN step[m][w[m]] ELSE w[k]]
  <2>2. v \in [0 .. m + 1 -> D]
    OBVIOUS
  <2>3. v[0] = start
    BY <2>1 DEF Follows
  <2>4. ASSUME NEW k \in 0 .. m + 1 - 1 PROVE v[k + 1] = step[k][v[k]]
    <3>1. CASE k = m
      <4>1. v[m + 1] = step[m][w[m]] /\ v[m] = w[m]
        OBVIOUS
      <4> QED BY <3>1, <4>1
    <3>2. CASE k # m
      <4>1. k \in 0 .. m - 1 /\ v[k + 1] = w[k + 1] /\ v[k] = w[k]
        BY <3>2
      <4>2. w[k + 1] = step[k][w[k]]
        BY <2>1, <4>1 DEF Follows
      <4> QED BY <4>1, <4>2
    <3> QED BY <3>1, <3>2
  <2> HIDE DEF v
  <2>5. Follows(v, start, step, m + 1)
    BY <2>3, <2>4 DEF Follows
  <2> QED BY <2>2, <2>5
<1> HIDE DEF S
<1>3. Nat \subseteq S
  BY <1>1, <1>2, Induction
<1> QED BY <1>3 DEF S

\* For all natural numbers at once.
LEMMA EndlessWay ==
  ASSUME NEW D, NEW start \in D, NEW step \in [Nat -> [D -> D]]
  PROVE  \E w \in [Nat -> D] : \A n \in Nat : Follows(w, start, step, n)
<1> DEFINE way == [n \in Nat |-> CHOOSE w \in [0 .. n -> D] : Follows(w, start, step, n)]
           all == [n \in Nat |-> way[n][n]]
<1>1. \A n \in Nat : way[n] \in [0 .. n -> D] /\ Follows(way[n], start, step, n)
  BY SomeWay
<1> HIDE DEF way
<1>2. all \in [Nat -> D]
  BY <1>1
<1>3. ASSUME NEW k \in Nat PROVE all[k + 1] = step[k][all[k]]
  <2>1. Follows(way[k + 1], start, step, k)
    BY <1>1 DEF Follows
  <2>2. way[k + 1][k] = way[k][k]
    BY <1>1, <2>1, OneWay
  <2>3. way[k + 1][k + 1] = step[k][way[k + 1][k]]
    BY <1>1 DEF Follows
  <2> QED BY <2>2, <2>3
<1>4. all[0] = start
  BY <1>1 DEF Follows
<1> HIDE DEF all
<1>5. \A n \in Nat : Follows(all, start, step, n)
  BY <1>3, <1>4 DEF Follows
<1> QED BY <1>2, <1>5

-----------------------------------------------------------------------------
\* A set of natural numbers has a least one.
LEMMA Least ==
  ASSUME NEW S \in SUBSET Nat, S # {}
  PROVE  \E m \in S : \A k \in S : m <= k
<1> SUFFICES ASSUME \A m \in S : \E k \in S : k < m PROVE FALSE
  OBVIOUS
<1> DEFINE Below == {n \in Nat : \A k \in S : n <= k}
<1>1. 0 \in Below
  OBVIOUS
<1>2. ASSUME NEW n \in Nat, n \in Below PROVE n + 1 \in Below
  <2>1. n \notin S
    BY <1>2
  <2>2. \A k \in S : n <= k /\ k # n
    BY <1>2, <2>1
  <2> QED BY <2>2
<1> HIDE DEF Below
<1>3. Nat \subseteq Below
  BY <1>1, <1>2, Induction
<1>4. PICK s \in S : TRUE
  OBVIOUS
<1>5. s + 1 \in Below
  BY <1>3, <1>4
<1> QED BY <1>4, <1>5 DEF Below

\* w goes round in L from h on, along f.
Walks(w, h, f, L) ==
  /\ w \in [Nat -> L]
  /\ w[0] = h
  /\ \A k \in Nat : w[k + 1] = f[w[k]]

\* What a recursive function says is where the walk is.
LEMMA WalkGoes ==
  ASSUME NEW L, NEW h \in L, NEW f, \A x \in L : f[x] \in L, NEW w,
         w = CHOOSE v : v = [k \in Nat |-> IF k = 0 THEN h ELSE f[v[k - 1]]]
  PROVE  Walks(w, h, f, L)
<1> DEFINE Is(v) == v = [k \in Nat |-> IF k = 0 THEN h ELSE f[v[k - 1]]]
           along == [k \in Nat |-> [x \in L |-> f[x]]]
<1>1. along \in [Nat -> [L -> L]]
  OBVIOUS
<1>2. PICK u \in [Nat -> L] : \A n \in Nat : Follows(u, h, along, n)
  <2> HIDE DEF along
  <2> QED BY <1>1, EndlessWay
<1>3. u[0] = h
  BY <1>2 DEF Follows
<1>4. ASSUME NEW k \in Nat PROVE u[k + 1] = f[u[k]]
  <2>1. k \in 0 .. (k + 1) - 1 /\ k + 1 \in Nat
    OBVIOUS
  <2>2. u[k + 1] = along[k][u[k]]
    BY <1>2, <2>1 DEF Follows
  <2> QED BY <1>2, <2>2
<1>5. Is(u)
  <2>1. \A k \in Nat : u[k] = IF k = 0 THEN h ELSE f[u[k - 1]]
    <3> TAKE k \in Nat
    <3>1. CASE k = 0
      BY <1>3, <3>1
    <3>2. CASE k # 0
      <4>1. k - 1 \in Nat /\ (k - 1) + 1 = k
        BY <3>2
      <4> QED BY <1>4, <3>2, <4>1
    <3> QED BY <3>1, <3>2
  <2> QED BY <1>2, <2>1
<1>6. Is(w)
  <2>1. w = CHOOSE v : Is(v)
    OBVIOUS
  <2> HIDE DEF Is
  <2> QED BY <1>5, <2>1
<1>7. w[0] = h /\ \A k \in Nat : w[k + 1] = f[w[k]]
  <2> DEFINE W(k) == IF k = 0 THEN h ELSE f[w[k - 1]]
  <2>1. \A k \in Nat : w[k] = W(k)
    BY <1>6
  <2>2. ASSUME NEW k \in Nat PROVE w[k + 1] = f[w[k]]
    <3>1. k + 1 \in Nat /\ k + 1 # 0 /\ (k + 1) - 1 = k
      OBVIOUS
    <3>2. w[k + 1] = W(k + 1)
      BY <2>1, <3>1
    <3> QED BY <3>1, <3>2
  <2> QED BY <2>1, <2>2
<1> DEFINE S == {k \in Nat : w[k] \in L}
<1>8. 0 \in S
  BY <1>7
<1>9. ASSUME NEW k \in Nat, k \in S PROVE k + 1 \in S
  BY <1>7, <1>9
<1> HIDE DEF S
<1>10. Nat \subseteq S
  BY <1>8, <1>9, Induction
<1>11. w \in [Nat -> L]
  <2>1. DOMAIN w = Nat /\ w = [k \in DOMAIN w |-> w[k]]
    BY <1>6
  <2>2. \A k \in Nat : w[k] \in L
    BY <1>10 DEF S
  <2> HIDE DEF Is
  <2> QED BY <2>1, <2>2
<1> QED BY <1>7, <1>11 DEF Walks

\* A finite set that f runs through without leaving a part of it: the walk is
\* back after as many steps as there are members, and has met each once.
LEMMA Lap ==
  ASSUME NEW L, IsFiniteSet(L), NEW h, NEW f, NEW g, NEW w, Walks(w, h, f, L),
         \A x \in L : f[x] \in L /\ g[f[x]] = x,
         \A S \in SUBSET L : S # {} /\ (\A x \in S : f[x] \in S) => S = L
  PROVE  /\ Cardinality(L) \in Nat \ {0}
         /\ w[Cardinality(L)] = h
         /\ \A i, j \in 0 .. Cardinality(L) - 1 : w[i] = w[j] => i = j
         /\ \A x \in L : \E k \in 0 .. Cardinality(L) - 1 : w[k] = x
<1>1. w \in [Nat -> L] /\ w[0] = h /\ \A k \in Nat : w[k + 1] = f[w[k]]
  BY DEF Walks
<1>2. ASSUME NEW i \in Nat, NEW j \in Nat, w[i + 1] = w[j + 1] PROVE w[i] = w[j]
  <2>1. g[f[w[i]]] = w[i] /\ g[f[w[j]]] = w[j]
    BY <1>1
  <2> QED BY <1>1, <1>2, <2>1
<1> DEFINE P == {i \in Nat : \A d \in Nat : w[i] = w[i + d] => w[0] = w[d]}
<1>3. Nat \subseteq P
  <2>1. 0 \in P
    OBVIOUS
  <2>2. ASSUME NEW i \in Nat, i \in P PROVE i + 1 \in P
    <3>1. ASSUME NEW d \in Nat, w[i + 1] = w[(i + 1) + d] PROVE w[0] = w[d]
      <4>1. (i + 1) + d = (i + d) + 1 /\ i + d \in Nat
        OBVIOUS
      <4>2. w[i] = w[i + d]
        BY <1>2, <3>1, <4>1
      <4> QED BY <2>2, <4>2
    <3> QED BY <3>1
  <2> HIDE DEF P
  <2> QED BY <2>1, <2>2, Induction
<1>4. ASSUME NEW i \in Nat, NEW j \in Nat, i < j, w[i] = w[j] PROVE w[j - i] = h /\ j - i \in Nat \ {0}
  <2>1. j - i \in Nat \ {0} /\ i + (j - i) = j
    BY <1>4
  <2>2. i \in P
    BY <1>3
  <2> QED BY <1>1, <1>4, <2>1, <2>2
<1> DEFINE Returns == {m \in Nat \ {0} : w[m] = h}
<1>5. Returns # {}
  <2> SUFFICES ASSUME Returns = {} PROVE FALSE
    OBVIOUS
  <2> DEFINE c == Cardinality(L)
             v == [k \in 0 .. c |-> w[k]]
  <2>1. c \in Nat
    BY FS_CardinalityType
  <2>2. ASSUME NEW i \in Nat, NEW j \in Nat, w[i] = w[j] PROVE i = j
    <3>1. ~(i < j)
      BY <1>4, <2>2
    <3>2. ~(j < i)
      BY <1>4, <2>2
    <3> QED BY <3>1, <3>2
  <2>3. v \in Injection(0 .. c, L)
    <3>1. v \in [0 .. c -> L] /\ \A i, j \in 0 .. c : v[i] = v[j] => i = j
      BY <1>1, <2>1, <2>2
    <3> HIDE DEF v, c
    <3> QED BY <3>1 DEF Injection, IsInjective
  <2> HIDE DEF v
  <2>4. Cardinality(0 .. c) <= c
    BY <2>3, FS_Injection
  <2>5. Cardinality(0 .. c) = c + 1
    <3> HIDE DEF c
    <3>1. Cardinality(0 .. c) = IF 0 > c THEN 0 ELSE c - 0 + 1
      BY <2>1, FS_Interval
    <3> QED BY <2>1, <3>1
  <2> HIDE DEF c
  <2> QED BY <2>1, <2>4, <2>5
<1>6. PICK m \in Returns : \A k \in Returns : m <= k
  <2> HIDE DEF Returns
  <2>1. Returns \in SUBSET Nat
    BY DEF Returns
  <2> QED BY <1>5, <2>1, Least
<1>7. m \in Nat \ {0} /\ w[m] = h
  BY <1>6
<1> DEFINE S == {w[k] : k \in 0 .. m - 1}
<1>8. S = L
  <2>1. S \in SUBSET L
    BY <1>1, <1>7
  <2>2. h \in S
    BY <1>1, <1>7
  <2>3. ASSUME NEW x \in S PROVE f[x] \in S
    <3>1. PICK k \in 0 .. m - 1 : x = w[k]
      OBVIOUS
    <3>2. f[x] = w[k + 1]
      BY <1>1, <3>1
    <3>3. CASE k + 1 = m
      BY <1>7, <2>2, <3>2, <3>3
    <3>4. CASE k + 1 # m
      <4>1. k + 1 \in 0 .. m - 1
        BY <1>7, <3>1, <3>4
      <4> QED BY <3>2, <4>1
    <3> QED BY <3>3, <3>4
  <2> HIDE DEF S
  <2> QED BY <2>1, <2>2, <2>3
<1>9. ASSUME NEW i \in 0 .. m - 1, NEW j \in 0 .. m - 1, w[i] = w[j] PROVE i = j
  <2>1. ASSUME NEW a \in 0 .. m - 1, NEW b \in 0 .. m - 1, a < b, w[a] = w[b] PROVE FALSE
    <3>1. w[b - a] = h /\ b - a \in Nat \ {0}
      BY <1>4, <1>7, <2>1
    <3>2. m <= b - a
      BY <1>6, <3>1
    <3> QED BY <1>7, <2>1, <3>2
  <2>2. ~(i < j) /\ ~(j < i)
    BY <1>9, <2>1
  <2> QED BY <1>7, <2>2
<1>10. Cardinality(L) = m
  <2> DEFINE v == [k \in 0 .. m - 1 |-> w[k]]
  <2>1. v \in Bijection(0 .. m - 1, L)
    <3>1. v \in [0 .. m - 1 -> L]
      BY <1>1, <1>7
    <3>2. \A i, j \in 0 .. m - 1 : v[i] = v[j] => i = j
      BY <1>9
    <3>3. \A x \in L : \E k \in 0 .. m - 1 : v[k] = x
      BY <1>8
    <3> HIDE DEF v
    <3> QED BY <3>1, <3>2, <3>3 DEF Bijection, Injection, Surjection, IsInjective
  <2>2. IsFiniteSet(0 .. m - 1) /\ Cardinality(0 .. m - 1) = m
    <3>1. IsFiniteSet(0 .. m - 1) /\ Cardinality(0 .. m - 1) = IF 0 > m - 1 THEN 0 ELSE (m - 1) - 0 + 1
      BY <1>7, FS_Interval
    <3> QED BY <1>7, <3>1
  <2> HIDE DEF v, S
  <2>3. ExistsBijection(0 .. m - 1, L)
    BY <2>1 DEF ExistsBijection
  <2> QED BY <2>2, <2>3, FS_Bijection
<1> QED BY <1>7, <1>8, <1>9, <1>10

\* The first n places of v go from h on along f.
Along(v, h, f, n) ==
  /\ v[0] = h
  /\ \A k \in 0 .. n - 1 : k + 1 < n => v[k + 1] = f[v[k]]

\* Such a list is the beginning of the walk.
LEMMA SameWalk ==
  ASSUME NEW L, NEW h, NEW f, NEW w, Walks(w, h, f, L), NEW n \in Nat, NEW v,
         Along(v, h, f, n)
  PROVE  \A k \in 0 .. n - 1 : w[k] = v[k]
<1> USE DEF Along
<1> DEFINE S == {k \in Nat : k < n => w[k] = v[k]}
<1>1. 0 \in S
  BY DEF Walks
<1>2. ASSUME NEW k \in Nat, k \in S PROVE k + 1 \in S
  <2>1. CASE k + 1 < n
    <3>1. k \in 0 .. n - 1 /\ w[k] = v[k]
      BY <1>2, <2>1
    <3>2. w[k + 1] = f[w[k]] /\ v[k + 1] = f[v[k]]
      BY <2>1, <3>1 DEF Walks
    <3> QED BY <3>1, <3>2
  <2>2. CASE ~(k + 1 < n)
    BY <2>2
  <2> QED BY <2>1, <2>2
<1> HIDE DEF S
<1>3. Nat \subseteq S
  BY <1>1, <1>2, Induction
<1> QED BY <1>3 DEF S

=============================================================================
