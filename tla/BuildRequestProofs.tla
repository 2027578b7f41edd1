-------------------------- MODULE BuildRequestProofs --------------------------
(***************************************************************************)
(* A request and the job it is given, for any number of requests, proxies, *)
(* modules, plugins and replacements: the key of a job tells apart what    *)
(* has to be told apart and nothing else, and the job builds all of what   *)
(* the client asked for.                                                   *)
(***************************************************************************)
EXTENDS ModuleSelection, TLAPS, FiniteSetTheorems, WellFoundedInduction

-----------------------------------------------------------------------------
(* Numbers and orders.                                                     *)

LEMMA LeastNumber ==
    ASSUME NEW S \in SUBSET Nat, S # {}
    PROVE  \E n \in S : \A m \in S : n <= m
<1>1. PICK n \in S : \A m \in S : ~ (<<m, n>> \in OpToRel(<, Nat))
  BY NatLessThanWellFounded, WFMin
<1>2. \A m \in S : ~ (m < n)
  BY <1>1 DEF OpToRel
<1> QED
  BY <1>2

LEMMA GreatestNumber ==
    ASSUME NEW n \in Nat, NEW S \in SUBSET (0 .. n), S # {}
    PROVE  \E i \in S : \A j \in S : j <= i
<1> DEFINE R == {n - i : i \in S}
<1>1. R \in SUBSET Nat /\ R # {}
  <2>1. \A i \in S : n - i \in Nat
    OBVIOUS
  <2> QED
    BY <2>1
<1>2. PICK r \in R : \A q \in R : r <= q
  BY <1>1, LeastNumber
<1>3. PICK i \in S : r = n - i
  BY <1>2
<1>4. ASSUME NEW j \in S
      PROVE  j <= i
  <2>1. n - i <= n - j
    BY <1>2, <1>3
  <2> QED
    BY <1>3, <2>1
<1> QED
  BY <1>4

\* Before is a strict total order of T.
Orders(T) ==
    \A p, q \in T :
        /\ p = q \/ Before(p, q) \/ Before(q, p)
        /\ ~ (Before(p, q) /\ Before(q, p))
        /\ \A r \in T : Before(p, q) /\ Before(q, r) => Before(p, r)

\* The sequences of n numbers.
Tuples(n) == {p \in Seq(Nat) : Len(p) = n}

(* It is one of the sequences of the same length.                          *)
LEMMA TuplesOrdered ==
    ASSUME NEW n \in Nat
    PROVE  Orders(Tuples(n))
<1> DEFINE D(p, q, i) == p[i] < q[i] /\ \A j \in 1 .. i - 1 : p[j] = q[j]
<1>1. \A p, q \in Tuples(n) : Before(p, q) <=> \E i \in 1 .. n : D(p, q, i)
  <2>1. \A p \in Tuples(n) : DOMAIN p = 1 .. n
    BY DEF Tuples
  <2> QED
    BY <2>1 DEF Before
<1>2. \A p \in Tuples(n) : \A i \in 1 .. n : p[i] \in Nat
  BY DEF Tuples
<1>3. ASSUME NEW p \in Tuples(n), NEW q \in Tuples(n), p # q
      PROVE  Before(p, q) \/ Before(q, p)
  <2> DEFINE S == {i \in 1 .. n : p[i] # q[i]}
  <2>1. S \in SUBSET Nat /\ S # {}
    <3>1. /\ p = [i \in 1 .. n |-> p[i]]
          /\ q = [i \in 1 .. n |-> q[i]]
      BY DEF Tuples
    <3>2. S # {}
      BY <1>3, <3>1
    <3> QED
      BY <3>2
  <2>2. PICK i \in S : \A j \in S : i <= j
    BY <2>1, LeastNumber
  <2>3. \A j \in 1 .. i - 1 : p[j] = q[j]
    BY <2>2
  <2>4. D(p, q, i) \/ D(q, p, i)
    BY <1>2, <2>2, <2>3
  <2> QED
    BY <1>1, <2>2, <2>4
<1>4. ASSUME NEW p \in Tuples(n), NEW q \in Tuples(n), Before(p, q), Before(q, p)
      PROVE  FALSE
  <2>1. PICK i \in 1 .. n : D(p, q, i)
    BY <1>1, <1>4
  <2>2. PICK j \in 1 .. n : D(q, p, j)
    BY <1>1, <1>4
  <2>3. i = j \/ i \in 1 .. j - 1 \/ j \in 1 .. i - 1
    OBVIOUS
  <2> QED
    BY <1>2, <2>1, <2>2, <2>3
<1>5. ASSUME NEW p \in Tuples(n), NEW q \in Tuples(n), NEW r \in Tuples(n),
             Before(p, q), Before(q, r)
      PROVE  Before(p, r)
  <2>1. PICK i \in 1 .. n : D(p, q, i)
    BY <1>1, <1>5
  <2>2. PICK j \in 1 .. n : D(q, r, j)
    BY <1>1, <1>5
  <2>3. CASE i <= j
    <3>1. q[i] <= r[i]
      BY <1>2, <2>2, <2>3
    <3>2. D(p, r, i)
      BY <1>2, <2>1, <2>2, <2>3, <3>1
    <3> QED
      BY <1>1, <3>2
  <2>4. CASE j < i
    <3>1. p[j] = q[j]
      BY <2>1, <2>4
    <3>2. D(p, r, j)
      BY <1>2, <2>1, <2>2, <2>4, <3>1
    <3> QED
      BY <1>1, <3>2
  <2> QED
    BY <2>3, <2>4
<1> QED
  BY <1>3, <1>4, <1>5 DEF Orders

-----------------------------------------------------------------------------
(* Sort.                                                                   *)

(* There is a rearrangement in order: each place takes the element before  *)
(* which there are as many as places before it.                            *)
LEMMA ArrangementExists ==
    ASSUME NEW T, Orders(T), NEW s \in Seq(T)
    PROVE  \E f \in Rearrangements(s) : InOrder(s, f)
<1> DEFINE D == DOMAIN s
           Le(j, i) == Before(s[j], s[i]) \/ (s[j] = s[i] /\ j <= i)
           Down(i) == {j \in D : Le(j, i)}
           rank == [i \in D |-> Cardinality(Down(i))]
<1>1. D = 1 .. Len(s) /\ Len(s) \in Nat /\ \A i \in D : i \in Nat /\ s[i] \in T
  OBVIOUS
<1>2. IsFiniteSet(D) /\ Cardinality(D) = Len(s)
  <2>1. PICK n \in Nat : n = Len(s) /\ D = 1 .. n
    BY <1>1
  <2>2. IsFiniteSet(1 .. n) /\ Cardinality(1 .. n) = n
    BY FS_Interval
  <2> QED
    BY <2>1, <2>2
<1>3. \A i, j \in D : /\ Le(i, i)
                      /\ Le(i, j) \/ Le(j, i)
                      /\ Le(i, j) /\ Le(j, i) => i = j
                      /\ \A k \in D : Le(i, j) /\ Le(j, k) => Le(i, k)
  BY <1>1 DEF Orders
<1> HIDE DEF Le
<1>4. ASSUME NEW i \in D
      PROVE  IsFiniteSet(Down(i)) /\ Cardinality(Down(i)) \in D
  <2>1. Down(i) \in SUBSET D /\ Down(i) # {}
    BY <1>3
  <2>2. IsFiniteSet(Down(i)) /\ Cardinality(Down(i)) <= Len(s)
    BY <1>2, <2>1, FS_Subset
  <2>3. Cardinality(Down(i)) \in Nat /\ Cardinality(Down(i)) # 0
    BY <2>1, <2>2, FS_CardinalityType, FS_EmptySet
  <2> QED
    BY <1>1, <2>2, <2>3
<1>5. ASSUME NEW i \in D, NEW j \in D, Le(j, i), j # i
      PROVE  Cardinality(Down(j)) < Cardinality(Down(i))
  <2>1. Down(j) \in SUBSET Down(i) /\ i \in Down(i) /\ i \notin Down(j)
    BY <1>3, <1>5
  <2>2. /\ Cardinality(Down(j)) <= Cardinality(Down(i))
        /\ Cardinality(Down(j)) # Cardinality(Down(i))
    BY <1>4, <2>1, FS_Subset
  <2>3. PICK a \in D, b \in D : a = Cardinality(Down(j)) /\ b = Cardinality(Down(i))
    BY <1>4
  <2> QED
    BY <1>1, <2>2, <2>3
<1> HIDE DEF Down
<1>6. /\ rank \in [D -> D]
      /\ \A i, j \in D : Le(j, i) /\ j # i => rank[j] < rank[i]
  BY <1>4, <1>5
<1> HIDE DEF rank
<1>7. \A i, j \in D : rank[i] = rank[j] => i = j
  <2>1. \A i \in D : rank[i] \in Nat
    BY <1>1, <1>6
  <2>2. ASSUME NEW i \in D, NEW j \in D, i # j
        PROVE  rank[i] # rank[j]
    <3>1. Le(i, j) \/ Le(j, i)
      BY <1>3
    <3>2. rank[i] < rank[j] \/ rank[j] < rank[i]
      BY <1>6, <2>2, <3>1
    <3> HIDE DEF D
    <3> QED
      BY <2>1, <3>2
  <2> QED
    BY <2>2
<1>8. rank \in Surjection(D, D)
  <2>1. rank \in Injection(D, D)
    BY <1>6, <1>7 DEF Injection, IsInjective
  <2> QED
    BY <1>2, <2>1, FS_Injection
<1> DEFINE f == [n \in D |-> CHOOSE i \in D : rank[i] = n]
<1>9. \A n \in D : f[n] \in D /\ rank[f[n]] = n
  BY <1>8 DEF Surjection
<1>10. f \in Rearrangements(s)
  <2>1. f \in [D -> D]
    BY <1>9
  <2>2. \A n, m \in D : f[n] = f[m] => n = m
    BY <1>9
  <2> HIDE DEF f
  <2> QED
    BY <2>1, <2>2 DEF Rearrangements, IsInjective
<1>11. InOrder(s, f)
  <2>1. ASSUME NEW i \in D, NEW j \in D, i < j, Before(s[f[j]], s[f[i]])
        PROVE  FALSE
    <3>1. Le(f[j], f[i]) /\ f[j] # f[i]
      <4>1. f[j] # f[i]
        BY <1>1, <1>9, <2>1
      <4> QED
        BY <2>1, <4>1 DEF Le
    <3>2. rank[f[j]] < rank[f[i]]
      BY <1>6, <1>9, <3>1
    <3>3. rank[f[j]] = j /\ rank[f[i]] = i
      BY <1>9
    <3>4. j < i
      BY <3>2, <3>3
    <3> HIDE DEF D
    <3>5. i \in Nat /\ j \in Nat
      BY <1>1
    <3> QED
      BY <2>1, <3>4, <3>5
  <2> QED
    BY <2>1 DEF InOrder
<1> QED
  BY <1>10, <1>11

\* The places of x.
At(s, x) == {i \in DOMAIN s : s[i] = x}

Ordered(s) == \A i, j \in DOMAIN s : i < j => ~ Before(s[j], s[i])

LEMMA PlacesFinite ==
    ASSUME NEW T, NEW s \in Seq(T), NEW x
    PROVE  IsFiniteSet(At(s, x)) /\ Cardinality(At(s, x)) \in Nat
<1>1. IsFiniteSet(DOMAIN s)
  BY FS_Interval
<1>2. At(s, x) \in SUBSET DOMAIN s
  BY DEF At
<1> QED
  BY <1>1, <1>2, FS_Subset, FS_CardinalityType

LEMMA SameCounts ==
    ASSUME NEW T, NEW s \in Seq(T), NEW t \in Seq(T)
    PROVE  SameElements(s, t) <=> \A x : Cardinality(At(s, x)) = Cardinality(At(t, x))
<1>1. ASSUME NEW x, x \notin Range(s) \cup Range(t)
      PROVE  Cardinality(At(s, x)) = Cardinality(At(t, x))
  <2>1. At(s, x) = {} /\ At(t, x) = {}
    BY <1>1 DEF At, Range
  <2> QED
    BY <2>1
<1> QED
  BY <1>1 DEF SameElements, At

LEMMA SortKeeps ==
    ASSUME NEW T, Orders(T), NEW s \in Seq(T)
    PROVE  /\ Sort(s) \in Seq(T)
           /\ DOMAIN Sort(s) = DOMAIN s
           /\ Len(Sort(s)) = Len(s)
           /\ Ordered(Sort(s))
           /\ \A x : Cardinality(At(Sort(s), x)) = Cardinality(At(s, x))
<1> DEFINE D == DOMAIN s
           r == Sort(s)
<1>0. D = 1 .. Len(s) /\ Len(s) \in Nat /\ \A i \in D : s[i] \in T
  OBVIOUS
<1>1. PICK f \in Rearrangements(s) : InOrder(s, f) /\ r = [i \in D |-> s[f[i]]]
  BY ArrangementExists DEF Sort
<1> HIDE DEF r
<1>2. f \in [D -> D] /\ \A i, j \in D : f[i] = f[j] => i = j
  BY <1>1 DEF Rearrangements, IsInjective
<1>3. f \in Surjection(D, D)
  <2>1. f \in Injection(D, D)
    BY <1>2 DEF Injection, IsInjective
  <2>2. IsFiniteSet(D)
    BY <1>0, FS_Interval
  <2> QED
    BY <2>1, <2>2, FS_Injection
<1>4. r \in Seq(T) /\ DOMAIN r = D /\ Len(r) = Len(s) /\ \A i \in D : r[i] = s[f[i]]
  <2>1. r \in [1 .. Len(s) -> T]
    BY <1>0, <1>1, <1>2
  <2> QED
    BY <1>0, <1>1, <2>1
<1>5. Ordered(r)
  BY <1>1, <1>4 DEF Ordered, InOrder
<1>6. ASSUME NEW x
      PROVE  Cardinality(At(r, x)) = Cardinality(At(s, x))
  <2> DEFINE g == [i \in At(r, x) |-> f[i]]
  <2>1. \A i \in At(r, x) : g[i] \in At(s, x)
    BY <1>2, <1>4 DEF At
  <2>2. \A i, j \in At(r, x) : g[i] = g[j] => i = j
    BY <1>2, <1>4 DEF At
  <2>3. ASSUME NEW n \in At(s, x)
        PROVE  \E i \in At(r, x) : g[i] = n
    <3>1. PICK i \in D : f[i] = n
      BY <1>3 DEF At, Surjection
    <3>2. i \in At(r, x)
      BY <1>4, <3>1 DEF At
    <3> QED
      BY <3>1, <3>2
  <2>4. g \in Bijection(At(r, x), At(s, x))
    BY <2>1, <2>2, <2>3 DEF Bijection, Injection, Surjection, IsInjective
  <2>5. IsFiniteSet(At(r, x))
    BY <1>4, PlacesFinite
  <2> QED
    BY <2>4, <2>5, FS_Bijection DEF ExistsBijection
<1> QED
  BY <1>4, <1>5, <1>6 DEF r

(* Where t has an element of s for the last time before s has it again.    *)
LEMMA Missing ==
    ASSUME NEW T, NEW s \in Seq(T), NEW t \in Seq(T), NEW i \in DOMAIN s,
           \A j \in 1 .. i - 1 : s[j] = t[j],
           \A j \in DOMAIN t : j >= i => t[j] # s[i]
    PROVE  \E x : Cardinality(At(s, x)) # Cardinality(At(t, x))
<1> DEFINE x == s[i]
           S == At(s, x)
<1>1. At(t, x) \in SUBSET (S \ {i})
  BY DEF At
<1>2. IsFiniteSet(S) /\ IsFiniteSet(S \ {i}) /\ i \in S
      /\ Cardinality(S \ {i}) = Cardinality(S) - 1 /\ Cardinality(S) \in Nat
  <2>1. i \in S /\ IsFiniteSet(S) /\ Cardinality(S) \in Nat
    BY PlacesFinite DEF At
  <2> QED
    BY <2>1, FS_RemoveElement
<1>3. Cardinality(At(t, x)) <= Cardinality(S \ {i}) /\ Cardinality(At(t, x)) \in Nat
  BY <1>1, <1>2, FS_Subset, PlacesFinite
<1> HIDE DEF S
<1>4. Cardinality(At(t, x)) # Cardinality(S)
  BY <1>2, <1>3
<1> QED
  BY <1>4 DEF S

LEMMA OrderedOnce ==
    ASSUME NEW T, Orders(T), NEW s \in Seq(T), NEW t \in Seq(T), Ordered(s), Ordered(t),
           \A x : Cardinality(At(s, x)) = Cardinality(At(t, x))
    PROVE  s = t
<1> DEFINE S == {i \in DOMAIN s \cup DOMAIN t :
                    ~ (i \in DOMAIN s /\ i \in DOMAIN t /\ s[i] = t[i])}
<1>0. /\ DOMAIN s = 1 .. Len(s) /\ Len(s) \in Nat /\ \A i \in DOMAIN s : s[i] \in T
      /\ DOMAIN t = 1 .. Len(t) /\ Len(t) \in Nat /\ \A i \in DOMAIN t : t[i] \in T
  OBVIOUS
<1>1. S = {} => s = t
  <2> SUFFICES ASSUME S = {} PROVE s = t
    OBVIOUS
  <2>1. \A i \in DOMAIN s \cup DOMAIN t : i \in DOMAIN s /\ i \in DOMAIN t /\ s[i] = t[i]
    OBVIOUS
  <2>2. DOMAIN s = DOMAIN t
    BY <2>1
  <2> QED
    BY <1>0, <2>1, <2>2
<1>2. ASSUME S # {}
      PROVE  FALSE
  <2>1. S \in SUBSET Nat
    BY <1>0
  <2>2. PICK i \in S : \A j \in S : i <= j
    BY <1>2, <2>1, LeastNumber
  <2>3. i \in Nat /\ \A j \in 1 .. i - 1 : j \in DOMAIN s /\ j \in DOMAIN t /\ s[j] = t[j]
    <3>1. \A j \in 1 .. i - 1 : j \in DOMAIN s \cup DOMAIN t /\ j \notin S
      BY <1>0, <2>2
    <3> QED
      BY <2>1, <3>1
  <2>4. ASSUME i \in DOMAIN s, \A j \in DOMAIN t : j >= i => t[j] # s[i]
        PROVE  FALSE
    <3>1. \A j \in 1 .. i - 1 : s[j] = t[j]
      BY <2>3
    <3> HIDE DEF S
    <3>2. \E x : Cardinality(At(s, x)) # Cardinality(At(t, x))
      BY <2>4, <3>1, Missing
    <3> QED
      BY <3>2
  <2>5. ASSUME i \in DOMAIN t, \A j \in DOMAIN s : j >= i => s[j] # t[i]
        PROVE  FALSE
    <3>1. \A j \in 1 .. i - 1 : t[j] = s[j]
      BY <2>3
    <3> HIDE DEF S
    <3>2. \E x : Cardinality(At(t, x)) # Cardinality(At(s, x))
      BY <2>5, <3>1, Missing
    <3> QED
      BY <3>2
  <2>6. CASE i \notin DOMAIN t
    BY <1>0, <2>3, <2>4, <2>6
  <2>7. CASE i \notin DOMAIN s
    BY <1>0, <2>3, <2>5, <2>7
  <2>8. CASE i \in DOMAIN s /\ i \in DOMAIN t /\ s[i] # t[i]
    <3>1. Before(s[i], t[i]) \/ Before(t[i], s[i])
      BY <1>0, <2>8 DEF Orders
    <3>2. CASE Before(s[i], t[i])
      <4>1. \A j \in DOMAIN t : j >= i => t[j] # s[i]
        BY <1>0, <2>8, <3>2 DEF Ordered
      <4> QED
        BY <2>4, <2>8, <4>1
    <3>3. CASE Before(t[i], s[i])
      <4>1. \A j \in DOMAIN s : j >= i => s[j] # t[i]
        BY <1>0, <2>8, <3>3 DEF Ordered
      <4> QED
        BY <2>5, <2>8, <4>1
    <3> QED
      BY <3>1, <3>2, <3>3
  <2> QED
    BY <2>2, <2>6, <2>7, <2>8
<1> QED
  BY <1>1, <1>2

(* What is sorted is the same exactly if the elements are.                 *)
LEMMA SortTells ==
    ASSUME NEW T, Orders(T), NEW s \in Seq(T), NEW t \in Seq(T)
    PROVE  Sort(s) = Sort(t) <=> SameElements(s, t)
<1>1. Sort(s) = Sort(t) => SameElements(s, t)
  BY SortKeeps, SameCounts
<1>2. ASSUME SameElements(s, t)
      PROVE  Sort(s) = Sort(t)
  <2>1. \A x : Cardinality(At(Sort(s), x)) = Cardinality(At(Sort(t), x))
    BY <1>2, SortKeeps, SameCounts
  <2> QED
    BY <2>1, SortKeeps, OrderedOnce
<1> QED
  BY <1>1, <1>2

LEMMA SameShape ==
    ASSUME NEW T, Orders(T), NEW s \in Seq(T), NEW t \in Seq(T), SameElements(s, t)
    PROVE  Len(s) = Len(t) /\ Range(s) = Range(t)
<1>1. Len(s) = Len(t)
  <2>1. Len(Sort(s)) = Len(s) /\ Len(Sort(t)) = Len(t)
    BY SortKeeps
  <2> QED
    BY <2>1, SortTells
<1>2. \A x : x \in Range(s) <=> x \in Range(t)
  <2>1. \A x : /\ x \in Range(s) <=> At(s, x) # {}
               /\ x \in Range(t) <=> At(t, x) # {}
    BY DEF Range, At
  <2>2. \A x : /\ At(s, x) = {} <=> Cardinality(At(s, x)) = 0
               /\ At(t, x) = {} <=> Cardinality(At(t, x)) = 0
    BY PlacesFinite, FS_EmptySet
  <2> QED
    BY <2>1, <2>2, SameCounts
<1> QED
  BY <1>1, <1>2

-----------------------------------------------------------------------------
(* What a configuration comes to.                                          *)

Config == [plugins : Seq(Tuples(4)), replacements : Seq(Tuples(2))]

SameConfig(c, d) ==
    /\ SameElements(c.plugins, d.plugins)
    /\ SameElements(c.replacements, d.replacements)

LEMMA KeyTells ==
    ASSUME NEW c \in Config, NEW d \in Config
    PROVE  BuildKey(c) = BuildKey(d) <=> SameConfig(c, d)
<1>1. /\ c.plugins \in Seq(Tuples(4)) /\ d.plugins \in Seq(Tuples(4))
      /\ c.replacements \in Seq(Tuples(2)) /\ d.replacements \in Seq(Tuples(2))
  BY DEF Config
<1>2. Orders(Tuples(4)) /\ Orders(Tuples(2))
  BY TuplesOrdered
<1>3. /\ Sort(c.plugins) = Sort(d.plugins) <=> SameElements(c.plugins, d.plugins)
      /\ Sort(c.replacements) = Sort(d.replacements) <=>
             SameElements(c.replacements, d.replacements)
  BY <1>1, <1>2, SortTells
<1> QED
  BY <1>3 DEF BuildKey, Normalize, SameConfig

(* A rearrangement of a sequence without repetitions has none either.      *)
LEMMA SameDistinct ==
    ASSUME NEW T, NEW s \in Seq(T), NEW t \in Seq(T), SameElements(s, t), IsInjective(s)
    PROVE  IsInjective(t)
<1> SUFFICES ASSUME NEW i \in DOMAIN t, NEW j \in DOMAIN t, t[i] = t[j]
             PROVE  i = j
  BY DEF IsInjective
<1> DEFINE x == t[i]
<1>1. Cardinality(At(s, x)) = Cardinality(At(t, x))
  BY SameCounts
<1>2. IsFiniteSet(At(s, x)) /\ IsFiniteSet(At(t, x)) /\ i \in At(t, x) /\ j \in At(t, x)
  BY PlacesFinite DEF At
<1>3. At(s, x) # {}
  BY <1>1, <1>2, FS_EmptySet
<1>4. PICK a : At(s, x) = {a}
  BY <1>3 DEF At, IsInjective
<1>5. Cardinality(At(t, x)) = 1
  BY <1>1, <1>4, FS_Singleton
<1>6. \E b : At(t, x) = {b}
  BY <1>2, <1>5, FS_Singleton
<1> QED
  BY <1>2, <1>6

(* Two sequences of the same plugins, none of which come to the same       *)
(* module, are compatible or not, both of them.                            *)
LEMMA SameCompatible ==
    ASSUME NEW T, Orders(T), NEW s \in Seq(T), NEW t \in Seq(T), SameElements(s, t),
           Compatible(s)
    PROVE  Compatible(t)
<1>1. /\ IsInjective(PathsOf(s))
      /\ DOMAIN PathsOf(s) = DOMAIN s /\ DOMAIN PathsOf(t) = DOMAIN t
  BY DEF Compatible, PathsOf
<1>2. IsInjective(s)
  BY <1>1 DEF PathsOf, IsInjective
<1>3. IsInjective(t) /\ Range(s) = Range(t)
  BY <1>2, SameDistinct, SameShape
<1>4. IsInjective(PathsOf(t))
  <2> SUFFICES ASSUME NEW i \in DOMAIN t, NEW j \in DOMAIN t,
                      PathsOf(t)[i] = PathsOf(t)[j]
               PROVE  i = j
    BY <1>1 DEF IsInjective
  <2>0. t[i] \in Range(s) /\ t[j] \in Range(s)
    <3>1. t[i] \in Range(t) /\ t[j] \in Range(t)
      BY DEF Range
    <3> QED
      BY <1>3, <3>1
  <2>1. PICK a \in DOMAIN s : s[a] = t[i]
    BY <2>0 DEF Range
  <2>2. PICK b \in DOMAIN s : s[b] = t[j]
    BY <2>0 DEF Range
  <2>3. PathsOf(s)[a] = PathsOf(s)[b]
    BY <2>1, <2>2 DEF PathsOf
  <2>4. a = b
    BY <1>1, <2>3 DEF IsInjective
  <2> QED
    BY <1>3, <2>1, <2>2, <2>4 DEF IsInjective
<1> QED
  BY <1>3, <1>4 DEF Compatible

-----------------------------------------------------------------------------
(* What a request comes to.                                                *)

LEMMA MaxIs ==
    ASSUME NEW n \in Nat, NEW S \in SUBSET (0 .. n), S # {}
    PROVE  Max(S) \in S /\ \A x \in S : x <= Max(S)
<1>1. PICK i \in S : \A j \in S : j <= i
  BY GreatestNumber
<1>2. \A y \in S : i >= y
  BY <1>1
<1> QED
  BY <1>2 DEF Max

LEMMA Elements ==
    ASSUME NEW T, NEW s \in Seq(T)
    PROVE  /\ Len(s) \in Nat /\ DOMAIN s = 1 .. Len(s) /\ s = [i \in 1 .. Len(s) |-> s[i]]
           /\ \A i \in DOMAIN s : s[i] \in T
OBVIOUS

LEMMA Joined ==
    ASSUME NEW T, NEW s \in Seq(T), NEW t \in Seq(T)
    PROVE  /\ s \o t \in Seq(T) /\ Len(s \o t) = Len(s) + Len(t)
           /\ \A i \in 1 .. Len(s) : (s \o t)[i] = s[i]
OBVIOUS

LEMMA Widened ==
    ASSUME NEW T, NEW S \in SUBSET T
    PROVE  Seq(S) \subseteq Seq(T)
<1> SUFFICES ASSUME NEW s \in Seq(S)
             PROVE  s \in Seq(T)
  OBVIOUS
<1>1. Len(s) \in Nat /\ s \in [1 .. Len(s) -> S]
  OBVIOUS
<1>2. s \in [1 .. Len(s) -> T]
  BY <1>1
<1> QED
  BY <1>1, <1>2

LEMMA PairIs ==
    /\ \A p \in Nat \X Nat : p \in Tuples(2) /\ p = <<p[1], p[2]>>
    /\ Seq(Nat \X Nat) \subseteq Seq(Tuples(2))
<1>1. ASSUME NEW p \in Nat \X Nat
      PROVE  p \in Tuples(2) /\ p = <<p[1], p[2]>>
  <2>1. PICK a \in Nat, b \in Nat : p = <<a, b>>
    OBVIOUS
  <2>2. <<a, b>> \in Seq(Nat) /\ Len(<<a, b>>) = 2
    OBVIOUS
  <2> QED
    BY <2>1, <2>2 DEF Tuples
<1>2. PICK S : S = Nat \X Nat
  OBVIOUS
<1>3. S \in SUBSET Tuples(2)
  BY <1>1, <1>2
<1>4. Seq(S) \subseteq Seq(Tuples(2))
  BY <1>3, Widened
<1> QED
  BY <1>1, <1>2, <1>4

(* A plugin in its version names the module.                               *)
LEMMA PluginIs ==
    ASSUME NEW m \in Nat \X Nat, NEW v \in Version
    PROVE  m \o v \in Tuples(4) /\ (m \o v)[1] = m[1] /\ (m \o v)[2] = m[2]
<1>1. PICK a \in Nat, b \in Nat : m = <<a, b>>
  OBVIOUS
<1>2. PICK c \in Nat, d \in Nat : v = <<c, d>>
  BY DEF Version
<1>3. /\ <<a, b>> \in Seq(Nat) /\ Len(<<a, b>>) = 2
      /\ <<c, d>> \in Seq(Nat) /\ Len(<<c, d>>) = 2
  OBVIOUS
<1>4. m \in Seq(Nat) /\ Len(m) = 2 /\ v \in Seq(Nat) /\ Len(v) = 2
  BY <1>1, <1>2, <1>3
<1>5. /\ m \o v \in Seq(Nat) /\ Len(m \o v) = Len(m) + Len(v)
      /\ \A i \in 1 .. Len(m) : (m \o v)[i] = m[i]
  BY <1>4, Joined
<1> QED
  BY <1>4, <1>5 DEF Tuples

LEMMA OnePluginEach ==
    ASSUME NEW m \in Nat \X Nat, NEW n \in Nat \X Nat,
           NEW v \in Version, NEW w \in Version, m \o v = n \o w
    PROVE  m = n
<1>1. m[1] = n[1] /\ m[2] = n[2]
  BY PluginIs
<1>2. m = <<m[1], m[2]>> /\ n = <<n[1], n[2]>>
  BY PairIs
<1> QED
  BY <1>1, <1>2

(* The version asked for a module is that of the plugin that names it last. *)
LEMMA QueryIs ==
    ASSUME NEW plugins \in Plugins, NEW m \in Wanted(plugins)
    PROVE  /\ Query(plugins, m) \in {Latest} \cup Version
           /\ \A i \in DOMAIN plugins :
                 /\ plugins[i].module = m
                 /\ \A j \in i + 1 .. Len(plugins) : plugins[j].module # m
                 => plugins[i].query = Query(plugins, m)
<1> DEFINE N == {i \in DOMAIN plugins : plugins[i].module = m}
           IsLast(i) == /\ plugins[i].module = m
                        /\ \A j \in i + 1 .. Len(plugins) : plugins[j].module # m
<1>0. \A i \in DOMAIN plugins :
         plugins[i] \in [module : Modules, query : {Latest} \cup Version]
  BY Elements DEF Plugins
<1>1. /\ DOMAIN plugins = 1 .. Len(plugins) /\ Len(plugins) \in Nat
      /\ \A i \in DOMAIN plugins : plugins[i].query \in {Latest} \cup Version
  BY <1>0 DEF Plugins
<1>2. N \in SUBSET (0 .. Len(plugins)) /\ N # {}
  BY <1>1 DEF Wanted
<1>3. PICK i \in N : \A j \in N : j <= i
  BY <1>1, <1>2, GreatestNumber
<1>4. i \in DOMAIN plugins /\ IsLast(i)
  BY <1>1, <1>3
<1>5. \A j \in DOMAIN plugins : IsLast(j) => j = i
  BY <1>1, <1>4
<1>6. Query(plugins, m) = plugins[i].query
  <2>1. i = CHOOSE j \in DOMAIN plugins : IsLast(j)
    BY <1>4, <1>5
  <2> QED
    BY <2>1 DEF Query
<1> QED
  BY <1>1, <1>4, <1>5, <1>6

LEMMA WantedAre ==
    ASSUME NEW plugins \in Plugins
    PROVE  /\ IsFiniteSet(Wanted(plugins))
           /\ Wanted(plugins) \subseteq Modules
<1>1. Wanted(plugins) \subseteq Modules
  <2>1. \A i \in DOMAIN plugins :
           plugins[i] \in [module : Modules, query : {Latest} \cup Version]
    BY Elements DEF Plugins
  <2> QED
    BY <2>1 DEF Wanted
<1>2. IsFiniteSet(DOMAIN plugins)
  BY FS_Interval DEF Plugins
<1> DEFINE f == [i \in DOMAIN plugins |-> plugins[i].module]
<1>3. f \in Surjection(DOMAIN plugins, Wanted(plugins))
  BY DEF Wanted, Surjection
<1> HIDE DEF f
<1> QED
  BY <1>1, <1>2, <1>3, FS_Surjection

(* Every order of a finite set has each of its elements once.              *)
LEMMA OrdersOfSet ==
    ASSUME NEW S, IsFiniteSet(S), NEW s \in SetToSeqs(S)
    PROVE  s \in Seq(S) /\ Len(s) = Cardinality(S) /\ Range(s) = S
<1>1. PICK n \in Nat : n = Cardinality(S)
  BY FS_CardinalityType
<1>2. s \in [1 .. n -> S] /\ \A i, j \in 1 .. n : s[i] = s[j] => i = j
  BY <1>1 DEF SetToSeqs
<1>3. s \in Injection(1 .. n, S)
  BY <1>2 DEF Injection, IsInjective
<1>4. s \in Surjection(1 .. n, S)
  <2>1. Cardinality(1 .. n) = n
    BY FS_Interval
  <2> QED
    BY <1>1, <1>3, <2>1, FS_Injection
<1>5. Range(s) = S
  BY <1>2, <1>4 DEF Surjection, Range
<1>6. s \in Seq(S) /\ Len(s) = n
  BY <1>2
<1> QED
  BY <1>1, <1>5, <1>6

(* As many as there are, if no two come to the same.                       *)
LEMMA AsMany ==
    ASSUME NEW S, IsFiniteSet(S), NEW f, DOMAIN f = S, IsInjective(f)
    PROVE  IsFiniteSet(Range(f)) /\ Cardinality(Range(f)) = Cardinality(S)
<1> DEFINE g == [x \in S |-> f[x]]
<1>1. g \in Bijection(S, Range(f))
  <2>1. g \in [S -> Range(f)]
    BY DEF Range
  <2>2. \A x, y \in S : g[x] = g[y] => x = y
    BY DEF IsInjective
  <2>3. \A y \in Range(f) : \E x \in S : g[x] = y
    BY DEF Range
  <2> HIDE DEF g
  <2>4. g \in Injection(S, Range(f))
    BY <2>1, <2>2 DEF Injection, IsInjective
  <2>5. g \in Surjection(S, Range(f))
    BY <2>1, <2>3 DEF Surjection
  <2> QED
    BY <2>4, <2>5 DEF Bijection
<1> QED
  BY <1>1, FS_Bijection DEF ExistsBijection

-----------------------------------------------------------------------------
(* Why the job is that of the request.                                     *)

Lookups == [result : {"none", "found", "error"}, version : {Latest} \cup Version,
            tried : Nat]

Request == [plugins : Plugins, replacements : Seq(Replacement)]

RequestTypes ==
    /\ newest \in [1 .. Proxies -> [Modules -> Nat]]
    /\ \A p \in 1 .. Proxies : \A m \in Modules : newest[p][m] <= Len(Releases[m])
    /\ pc \in [Requests -> {"idle", "resolving", "create", "answered", "refused"}]
    /\ ask \in [Requests -> Request]
    /\ lookup = [r \in Requests |-> lookup[r]]
    /\ config \in [Requests -> Config]

\* The version that a module may be built in for r.
Fits(r, m, v) ==
    /\ v \in Version
    /\ IF Query(ask[r].plugins, m) = Latest THEN v \in Published(m)
       ELSE v = Query(ask[r].plugins, m)

\* There is a goroutine for each module asked for, and what it found fits.
LookupsAgree ==
    \A r \in Requests : pc[r] = "resolving" =>
        /\ lookup[r] \in [Wanted(ask[r].plugins) -> Lookups]
        /\ \A m \in Wanted(ask[r].plugins) :
              lookup[r][m].result = "found" => Fits(r, m, lookup[r][m].version)

\* A configuration has each module asked for once, in a version that fits.
ConfigsAgree ==
    \A r \in Requests : pc[r] \in {"create", "answered"} =>
        /\ Len(config[r].plugins) = Cardinality(Wanted(ask[r].plugins))
        /\ \A m \in Wanted(ask[r].plugins) :
              \E v \in Version : Fits(r, m, v) /\ m \o v \in Range(config[r].plugins)

\* A job has the key of its configuration and no other job has it, and who is
\* answered has a job with the key of the request.
JobsAgree ==
    /\ \A j \in jobs : j.config \in Config /\ j.key = BuildKey(j.config)
    /\ \A i, j \in jobs : i.key = j.key => i = j
    /\ \A r \in Requests : pc[r] = "answered" =>
          \E j \in jobs : j.key = BuildKey(config[r])

RequestInv == RequestTypes /\ LookupsAgree /\ ConfigsAgree /\ JobsAgree

-----------------------------------------------------------------------------
LEMMA NoConfigIs == NoConfig \in Request /\ NoConfig \in Config
<1>1. \A T : << >> \in Seq(T)
  OBVIOUS
<1>2. << >> \in Plugins
  BY <1>1 DEF Plugins
<1> QED
  BY <1>1, <1>2 DEF NoConfig, Request, Config

LEMMA RequestInitInv == RequestInit => RequestInv
<1> SUFFICES ASSUME RequestInit PROVE RequestInv
  OBVIOUS
<1>1. RequestTypes
  BY RequestAssumption, NoConfigIs DEF RequestInit, RequestTypes
<1>2. LookupsAgree /\ ConfigsAgree /\ JobsAgree
  BY DEF RequestInit, LookupsAgree, ConfigsAgree, JobsAgree
<1> QED
  BY <1>1, <1>2 DEF RequestInv

(* The greatest number of a function.                                      *)
LEMMA HighestIs ==
    ASSUME NEW P, P # {}, NEW l \in Nat, NEW f \in [P -> 0 .. l]
    PROVE  /\ Max({f[p] : p \in P}) \in 0 .. l
           /\ \E q \in P : Max({f[p] : p \in P}) = f[q]
           /\ \A q \in P : f[q] <= Max({f[p] : p \in P})
<1> DEFINE S == {f[p] : p \in P}
<1>1. S \in SUBSET (0 .. l) /\ S # {} /\ \A p \in P : f[p] \in S
  OBVIOUS
<1>2. \A x \in S : \E p \in P : x = f[p]
  OBVIOUS
<1> HIDE DEF S
<1>3. Max(S) \in S /\ \A x \in S : x <= Max(S)
  BY <1>1, MaxIs
<1>4. /\ Max(S) \in 0 .. l
      /\ \E p \in P : Max(S) = f[p]
      /\ \A p \in P : f[p] <= Max(S)
  BY <1>1, <1>2, <1>3
<1> QED
  BY <1>4 DEF S

(* What a proxy has is published.                                          *)
LEMMA NewestPublished ==
    ASSUME RequestTypes, NEW m \in Modules, NEW p \in 1 .. Proxies, newest[p][m] > 0
    PROVE  /\ Releases[m][newest[p][m]] \in Published(m)
           /\ Releases[m][newest[p][m]] \in Version
<1> DEFINE f == [q \in 1 .. Proxies |-> newest[q][m]]
<1>1. PICK l \in Nat : /\ l = Len(Releases[m])
                      /\ \A n \in 1 .. l : Releases[m][n] \in Version
  BY RequestAssumption, Elements
<1>2. f \in [1 .. Proxies -> 0 .. l]
  BY <1>1 DEF RequestTypes
<1>3. {newest[q][m] : q \in 1 .. Proxies} = {f[q] : q \in 1 .. Proxies}
  OBVIOUS
<1>4. newest[p][m] = f[p]
  OBVIOUS
<1> HIDE DEF f
<1>5. PICK a \in 0 .. l : a = Max({f[q] : q \in 1 .. Proxies}) /\ f[p] <= a
  BY <1>2, HighestIs
<1>6. newest[p][m] \in 1 .. a
  BY <1>2, <1>4, <1>5
<1>7. Published(m) = {Releases[m][n] : n \in 1 .. a}
  BY <1>3, <1>5 DEF Published
<1>8. Releases[m][newest[p][m]] \in Published(m)
  BY <1>6, <1>7
<1>9. newest[p][m] \in 1 .. l
  BY <1>2, <1>4, <1>6
<1> QED
  BY <1>1, <1>8, <1>9

(* What is published stays published.                                      *)
LEMMA PublishedStays ==
    ASSUME RequestTypes, NEW p \in 1 .. Proxies, NEW m \in Modules, Publish(p, m)
    PROVE  /\ RequestTypes'
           /\ \A n \in Modules : Published(n) \subseteq Published(n)'
<1>1. RequestTypes'
  <2>1. newest[p][m] + 1 \in Nat /\ newest[p][m] + 1 <= Len(Releases[m])
    <3>1. Len(Releases[m]) \in Nat
      BY RequestAssumption, Elements
    <3> QED
      BY <3>1 DEF RequestTypes, Publish
  <2>2. \A q \in 1 .. Proxies : \A n \in Modules :
           newest'[q][n] = IF q = p /\ n = m THEN newest[p][m] + 1 ELSE newest[q][n]
    BY DEF RequestTypes, Publish
  <2>3. newest' \in [1 .. Proxies -> [Modules -> Nat]]
    BY <2>1 DEF RequestTypes, Publish
  <2>4. \A q \in 1 .. Proxies : \A n \in Modules : newest'[q][n] <= Len(Releases[n])
    BY <2>1, <2>2 DEF RequestTypes
  <2> QED
    BY <2>3, <2>4 DEF RequestTypes, Publish
<1>2. ASSUME NEW n \in Modules
      PROVE  Published(n) \subseteq Published(n)'
  <2> DEFINE f == [q \in 1 .. Proxies |-> newest[q][n]]
             g == [q \in 1 .. Proxies |-> newest'[q][n]]
  <2>1. PICK l \in Nat : l = Len(Releases[n])
    BY RequestAssumption, Elements
  <2>2. f \in [1 .. Proxies -> 0 .. l] /\ g \in [1 .. Proxies -> 0 .. l]
    BY <1>1, <2>1 DEF RequestTypes
  <2>3. \A q \in 1 .. Proxies : f[q] <= g[q]
    BY DEF RequestTypes, Publish
  <2>4. /\ {newest[q][n] : q \in 1 .. Proxies} = {f[q] : q \in 1 .. Proxies}
        /\ {newest'[q][n] : q \in 1 .. Proxies} = {g[q] : q \in 1 .. Proxies}
    OBVIOUS
  <2> HIDE DEF f, g
  <2>5. PICK a \in 0 .. l : /\ a = Max({f[q] : q \in 1 .. Proxies})
                            /\ \E q \in 1 .. Proxies : a = f[q]
    BY <2>2, HighestIs
  <2>6. PICK b \in 0 .. l : /\ b = Max({g[q] : q \in 1 .. Proxies})
                            /\ \A q \in 1 .. Proxies : g[q] <= b
    BY <2>2, HighestIs
  <2>7. 1 .. a \subseteq 1 .. b
    <3>1. PICK q \in 1 .. Proxies : a = f[q]
      BY <2>5
    <3>2. f[q] <= g[q] /\ g[q] <= b /\ g[q] \in Nat
      BY <2>2, <2>3, <2>6
    <3> QED
      BY <3>1, <3>2
  <2> QED
    BY <2>4, <2>5, <2>6, <2>7 DEF Published
<1> QED
  BY <1>1, <1>2

-----------------------------------------------------------------------------
LEMMA ArriveKeeps ==
    ASSUME RequestInv, NEW r \in Requests, Arrive(r)
    PROVE  RequestInv'
<1>0. RequestTypes /\ LookupsAgree /\ ConfigsAgree /\ JobsAgree
  BY DEF RequestInv
<1>1. PICK a \in Asks :
         /\ ask' = [ask EXCEPT ![r] = a]
         /\ lookup' = [lookup EXCEPT ![r] =
                         [m \in Wanted(a.plugins) |->
                            [result |-> "none", version |-> Latest, tried |-> 0]]]
  BY DEF Arrive
<1>2. /\ pc' = [pc EXCEPT ![r] = "resolving"]
      /\ newest' = newest /\ config' = config /\ jobs' = jobs
  BY DEF Arrive, Goes
<1>3. a \in Request
  BY RequestAssumption DEF Request
<1>4. RequestTypes'
  BY <1>0, <1>1, <1>2, <1>3 DEF RequestTypes
<1>5. \A s \in Requests : s # r =>
         ask'[s] = ask[s] /\ lookup'[s] = lookup[s] /\ pc'[s] = pc[s]
  BY <1>0, <1>1, <1>2 DEF RequestTypes
<1>6. pc'[r] = "resolving" /\ ask'[r] = a
      /\ lookup'[r] = [m \in Wanted(a.plugins) |->
                         [result |-> "none", version |-> Latest, tried |-> 0]]
  BY <1>0, <1>1, <1>2 DEF RequestTypes
<1>7. \A s \in Requests : s # r => \A m, v : Fits(s, m, v)' <=> Fits(s, m, v)
  <2> SUFFICES ASSUME NEW s \in Requests, s # r, NEW m, NEW v
               PROVE  Fits(s, m, v)' <=> Fits(s, m, v)
    OBVIOUS
  <2>1. Published(m)' = Published(m)
    BY <1>2 DEF Published
  <2> QED
    BY <1>5, <2>1 DEF Fits
<1>8. LookupsAgree'
  <2> SUFFICES ASSUME NEW s \in Requests, pc'[s] = "resolving"
               PROVE  /\ lookup'[s] \in [Wanted(ask'[s].plugins) -> Lookups]
                      /\ \A m \in Wanted(ask'[s].plugins) :
                            lookup'[s][m].result = "found" =>
                               Fits(s, m, lookup[s][m].version)'
    BY DEF LookupsAgree
  <2>1. CASE s = r
    <3>1. [result |-> "none", version |-> Latest, tried |-> 0] \in Lookups
      BY DEF Lookups
    <3> QED
      BY <1>6, <2>1, <3>1
  <2>2. CASE s # r
    BY <1>0, <1>5, <1>7, <2>2 DEF LookupsAgree
  <2> QED
    BY <2>1, <2>2
<1>9. ConfigsAgree'
  BY <1>0, <1>2, <1>5, <1>6, <1>7 DEF ConfigsAgree
<1>10. JobsAgree'
  BY <1>0, <1>2, <1>5, <1>6 DEF JobsAgree
<1> QED
  BY <1>4, <1>8, <1>9, <1>10 DEF RequestInv

(* A goroutine ends with a version that fits, or goes on without one.      *)
LEMMA LookupChanges ==
    ASSUME RequestInv, NEW r \in Requests, NEW m \in Wanted(ask[r].plugins),
           NEW row \in Lookups, row.result = "found" => Fits(r, m, row.version),
           pc[r] = "resolving",
           lookup' = [lookup EXCEPT ![r] = [lookup[r] EXCEPT ![m] = row]],
           UNCHANGED <<newest, pc, ask, config, jobs>>
    PROVE  RequestInv'
<1>0. RequestTypes /\ LookupsAgree /\ ConfigsAgree /\ JobsAgree
  BY DEF RequestInv
<1>1. \A s \in Requests : \A n, v : Fits(s, n, v)' <=> Fits(s, n, v)
  <2> SUFFICES ASSUME NEW s \in Requests, NEW n, NEW v
               PROVE  Fits(s, n, v)' <=> Fits(s, n, v)
    OBVIOUS
  <2>1. Published(n)' = Published(n)
    BY DEF Published
  <2> QED
    BY <2>1 DEF Fits
<1>2. RequestTypes' /\ ConfigsAgree' /\ JobsAgree'
  <2>1. RequestTypes'
    BY <1>0 DEF RequestTypes
  <2>2. ConfigsAgree'
    BY <1>0, <1>1 DEF ConfigsAgree
  <2>3. JobsAgree'
    BY <1>0 DEF JobsAgree
  <2> QED
    BY <2>1, <2>2, <2>3
<1>3. \A s \in Requests : lookup'[s] = IF s = r THEN [lookup[r] EXCEPT ![m] = row]
                                       ELSE lookup[s]
  BY <1>0 DEF RequestTypes
<1>4. LookupsAgree'
  <2> SUFFICES ASSUME NEW s \in Requests, pc[s] = "resolving"
               PROVE  /\ lookup'[s] \in [Wanted(ask[s].plugins) -> Lookups]
                      /\ \A n \in Wanted(ask[s].plugins) :
                            lookup'[s][n].result = "found" =>
                               Fits(s, n, lookup[s][n].version)'
    BY DEF LookupsAgree
  <2>1. /\ lookup[s] \in [Wanted(ask[s].plugins) -> Lookups]
        /\ \A n \in Wanted(ask[s].plugins) :
              lookup[s][n].result = "found" => Fits(s, n, lookup[s][n].version)
    BY <1>0 DEF LookupsAgree
  <2>2. CASE s = r
    <3>1. lookup'[s] = [lookup[s] EXCEPT ![m] = row]
      BY <1>3, <2>2
    <3>2. lookup'[s] \in [Wanted(ask[s].plugins) -> Lookups]
      BY <2>1, <3>1
    <3>3. ASSUME NEW n \in Wanted(ask[s].plugins), lookup'[s][n].result = "found"
          PROVE  Fits(s, n, lookup'[s][n].version)
      <4>1. CASE n = m
        BY <2>1, <2>2, <3>1, <3>3, <4>1
      <4>2. CASE n # m
        BY <2>1, <3>1, <3>3, <4>2
      <4> QED
        BY <4>1, <4>2
    <3> QED
      BY <1>1, <3>2, <3>3
  <2>3. CASE s # r
    BY <1>1, <1>3, <2>1, <2>3
  <2> QED
    BY <2>2, <2>3
<1> QED
  BY <1>2, <1>4 DEF RequestInv

LEMMA LookupKeeps ==
    ASSUME RequestInv, NEW r \in Requests, NEW m \in Modules, Lookup(r, m)
    PROVE  RequestInv'
<1>0. RequestTypes /\ LookupsAgree
  BY DEF RequestInv
<1>1. pc[r] = "resolving" /\ m \in DOMAIN lookup[r] /\ lookup[r][m].result = "none"
  BY DEF Lookup, TakeVersion, AskProxy, ProxyFails, Looking
<1>2. lookup[r] \in [Wanted(ask[r].plugins) -> Lookups] /\ m \in Wanted(ask[r].plugins)
  BY <1>0, <1>1 DEF LookupsAgree
<1>3. lookup[r][m] \in Lookups
  BY <1>2
<1>4. ask[r].plugins \in Plugins
  BY <1>0 DEF RequestTypes, Request
<1>5. lookup = [s \in Requests |-> lookup[s]]
  BY <1>0 DEF RequestTypes
<1>6. UNCHANGED <<newest, pc, ask, config, jobs>>
  BY DEF Lookup, TakeVersion, AskProxy, ProxyFails
<1>7. ASSUME NEW v \in {Latest} \cup Version, Fits(r, m, v), Finds(r, m, v)
      PROVE  RequestInv'
  <2> DEFINE row == [lookup[r][m] EXCEPT !.result = "found", !.version = v]
  <2>1. row \in Lookups /\ row.result = "found" /\ row.version = v
    BY <1>3 DEF Lookups
  <2>2. lookup' = [lookup EXCEPT ![r] = [lookup[r] EXCEPT ![m] = row]]
    BY <1>2, <1>3, <1>5, <1>7 DEF Finds, Lookups
  <2> HIDE DEF row
  <2> QED
    BY <1>1, <1>2, <1>6, <1>7, <2>1, <2>2, LookupChanges
<1>8. CASE TakeVersion(r, m)
  <2>1. Query(ask[r].plugins, m) \in Version
    BY <1>2, <1>4, <1>8, QueryIs DEF TakeVersion
  <2> QED
    BY <1>7, <1>8, <2>1 DEF TakeVersion, Fits
<1>9. CASE AskProxy(r, m)
  <2> DEFINE p == lookup[r][m].tried + 1
             v == Releases[m][newest[p][m]]
  <2>1. p \in 1 .. Proxies
    <3>1. lookup[r][m].tried \in Nat
      BY <1>3 DEF Lookups
    <3>2. p <= Proxies
      BY <1>9 DEF AskProxy
    <3>3. Proxies \in Nat
      BY RequestAssumption
    <3>4. p \in Nat /\ p >= 1
      BY <3>1
    <3> HIDE DEF p
    <3> QED
      BY <3>2, <3>3, <3>4
  <2>2. newest[p][m] > 0 /\ Finds(r, m, v) /\ Query(ask[r].plugins, m) = Latest
    BY <1>9 DEF AskProxy
  <2> HIDE DEF p
  <2>3. v \in Published(m) /\ v \in Version
    BY <1>0, <2>1, <2>2, NewestPublished
  <2>4. Fits(r, m, v)
    BY <2>2, <2>3 DEF Fits
  <2> QED
    BY <1>7, <2>2, <2>3, <2>4
<1>10. CASE ProxyFails(r, m)
  <2> DEFINE p == lookup[r][m].tried + 1
             row == [lookup[r][m] EXCEPT !.tried = p,
                                         !.result = IF p = Proxies THEN "error" ELSE @]
  <2>1. row \in Lookups /\ row.result # "found"
    <3>1. p \in Nat
      BY <1>3 DEF Lookups
    <3>2. row.result \in {"none", "error"}
      BY <1>1, <1>3 DEF Lookups
    <3> HIDE DEF p
    <3> QED
      BY <1>3, <3>1, <3>2 DEF Lookups
  <2>2. lookup' = [lookup EXCEPT ![r] = [lookup[r] EXCEPT ![m] = row]]
    BY <1>2, <1>3, <1>5, <1>10 DEF ProxyFails, Lookups
  <2> HIDE DEF row
  <2> QED
    BY <1>1, <1>2, <1>6, <2>1, <2>2, LookupChanges
<1> QED
  BY <1>8, <1>9, <1>10 DEF Lookup

(* The plugins that a request came to are as many as the modules it asked  *)
(* for, whatever order they are in.                                        *)
LEMMA PluginsOfRequest ==
    ASSUME RequestInv, NEW r \in Requests, Collected(r), Found(r) = DOMAIN lookup[r],
           NEW plugins \in SetToSeqs({Plugin(r, m) : m \in Found(r)})
    PROVE  /\ plugins \in Seq(Tuples(4))
           /\ Len(plugins) = Cardinality(Wanted(ask[r].plugins))
           /\ \A m \in Wanted(ask[r].plugins) :
                 \E v \in Version : Fits(r, m, v) /\ m \o v \in Range(plugins)
<1> DEFINE W == Wanted(ask[r].plugins)
           v(m) == lookup[r][m].version
           f == [m \in W |-> m \o v(m)]
           P == {Plugin(r, m) : m \in Found(r)}
<1>0. RequestTypes /\ LookupsAgree
  BY DEF RequestInv
<1>1. /\ lookup[r] \in [W -> Lookups]
      /\ \A m \in W : lookup[r][m].result = "found" => Fits(r, m, v(m))
  BY <1>0 DEF Collected, LookupsAgree
<1>2. \A m \in W : Fits(r, m, v(m)) /\ v(m) \in Version
  BY <1>1 DEF Found, Fits
<1>3. IsFiniteSet(W) /\ \A m \in W : m \in Nat \X Nat
  <2>1. ask[r].plugins \in Plugins
    BY <1>0 DEF RequestTypes, Request
  <2> QED
    BY <2>1, WantedAre, RequestAssumption
<1>4. \A m \in W : f[m] = m \o v(m) /\ f[m] \in Tuples(4)
  BY <1>2, <1>3, PluginIs
<1>5. P = Range(f)
  <2>1. Found(r) = W
    BY <1>1
  <2> QED
    BY <2>1 DEF Range, Plugin
<1>6. DOMAIN f = W /\ IsInjective(f)
  <2>1. ASSUME NEW m \in W, NEW n \in W, f[m] = f[n]
        PROVE  m = n
    <3>1. /\ m \in Nat \X Nat /\ n \in Nat \X Nat /\ v(m) \in Version /\ v(n) \in Version
          /\ m \o v(m) = n \o v(n)
      BY <1>2, <1>3, <2>1
    <3> QED
      BY <3>1, OnePluginEach
  <2> QED
    BY <2>1 DEF IsInjective
<1> HIDE DEF f, W, P
<1>7. IsFiniteSet(P) /\ Cardinality(P) = Cardinality(W)
  BY <1>3, <1>5, <1>6, AsMany
<1>8. plugins \in Seq(P) /\ Len(plugins) = Cardinality(P) /\ Range(plugins) = P
  BY <1>7, OrdersOfSet DEF P
<1>9. P \in SUBSET Tuples(4) /\ \A m \in W : m \o v(m) \in P
  BY <1>4, <1>5, <1>6 DEF Range
<1>10. plugins \in Seq(Tuples(4))
  BY <1>8, <1>9
<1>11. \A m \in W : \E u \in Version : Fits(r, m, u) /\ m \o u \in Range(plugins)
  BY <1>2, <1>8, <1>9
<1> QED
  BY <1>7, <1>8, <1>10, <1>11 DEF W

(* A step of r's handler that leaves the jobs alone.                       *)
LEMMA HandlerMoves ==
    ASSUME RequestInv, NEW r \in Requests, NEW c \in Config,
           NEW to \in {"create", "refused"},
           NEW l,
           pc' = [pc EXCEPT ![r] = to], lookup' = [lookup EXCEPT ![r] = l],
           config' = [config EXCEPT ![r] = c], UNCHANGED <<newest, ask, jobs>>,
           to = "create" =>
              /\ Len(c.plugins) = Cardinality(Wanted(ask[r].plugins))
              /\ \A m \in Wanted(ask[r].plugins) :
                    \E v \in Version : Fits(r, m, v) /\ m \o v \in Range(c.plugins)
    PROVE  RequestInv'
<1>0. RequestTypes /\ LookupsAgree /\ ConfigsAgree /\ JobsAgree
  BY DEF RequestInv
<1>1. RequestTypes'
  BY <1>0 DEF RequestTypes
<1>2. /\ pc'[r] = to /\ config'[r] = c
      /\ \A s \in Requests : s # r =>
            pc'[s] = pc[s] /\ config'[s] = config[s] /\ lookup'[s] = lookup[s]
  BY <1>0 DEF RequestTypes
<1>3. \A s \in Requests : \A m, v : Fits(s, m, v)' <=> Fits(s, m, v)
  <2> SUFFICES ASSUME NEW s \in Requests, NEW m, NEW v
               PROVE  Fits(s, m, v)' <=> Fits(s, m, v)
    OBVIOUS
  <2>1. Published(m)' = Published(m)
    BY DEF Published
  <2> QED
    BY <2>1 DEF Fits
<1>4. LookupsAgree'
  <2> SUFFICES ASSUME NEW s \in Requests, pc'[s] = "resolving"
               PROVE  /\ lookup'[s] \in [Wanted(ask[s].plugins) -> Lookups]
                      /\ \A n \in Wanted(ask[s].plugins) :
                            lookup'[s][n].result = "found" =>
                               Fits(s, n, lookup[s][n].version)'
    BY DEF LookupsAgree
  <2>1. s # r /\ pc[s] = "resolving"
    BY <1>2
  <2> QED
    BY <1>0, <1>2, <1>3, <2>1 DEF LookupsAgree
<1>5. ConfigsAgree'
  <2> SUFFICES ASSUME NEW s \in Requests, pc'[s] \in {"create", "answered"}
               PROVE  /\ Len(config'[s].plugins) = Cardinality(Wanted(ask[s].plugins))
                      /\ \A m \in Wanted(ask[s].plugins) :
                            \E v \in Version :
                               Fits(s, m, v)' /\ m \o v \in Range(config'[s].plugins)
    BY DEF ConfigsAgree
  <2>1. CASE s = r
    BY <1>2, <1>3, <2>1
  <2>2. CASE s # r
    BY <1>0, <1>2, <1>3, <2>2 DEF ConfigsAgree
  <2> QED
    BY <2>1, <2>2
<1>6. JobsAgree'
  BY <1>0, <1>2 DEF JobsAgree
<1> QED
  BY <1>1, <1>4, <1>5, <1>6 DEF RequestInv

LEMMA CreateKeeps ==
    ASSUME RequestInv, NEW r \in Requests, CreateBuild(r)
    PROVE  RequestInv'
<1> DEFINE key == BuildKey(config[r])
<1>0. RequestTypes /\ LookupsAgree /\ ConfigsAgree /\ JobsAgree
  BY DEF RequestInv
<1>1. /\ pc[r] = "create" /\ pc' = [pc EXCEPT ![r] = "answered"]
      /\ jobs' = IF \E j \in jobs : j.key = key THEN jobs
                 ELSE jobs \cup {[key |-> key, config |-> config[r]]}
      /\ UNCHANGED <<newest, ask, lookup, config>>
  BY DEF CreateBuild, Goes
<1>2. RequestTypes'
  BY <1>0, <1>1 DEF RequestTypes
<1>3. pc'[r] = "answered" /\ \A s \in Requests : s # r => pc'[s] = pc[s]
  BY <1>0, <1>1 DEF RequestTypes
<1>4. \A s \in Requests : \A m, v : Fits(s, m, v)' <=> Fits(s, m, v)
  <2> SUFFICES ASSUME NEW s \in Requests, NEW m, NEW v
               PROVE  Fits(s, m, v)' <=> Fits(s, m, v)
    OBVIOUS
  <2>1. Published(m)' = Published(m)
    BY <1>1 DEF Published
  <2> QED
    BY <1>1, <2>1 DEF Fits
<1>5. LookupsAgree'
  BY <1>0, <1>1, <1>3, <1>4 DEF LookupsAgree
<1>6. ConfigsAgree'
  <2>1. \A s \in Requests :
           pc'[s] \in {"create", "answered"} => pc[s] \in {"create", "answered"}
    BY <1>1, <1>3
  <2> QED
    BY <1>0, <1>1, <1>4, <2>1 DEF ConfigsAgree
<1>7. JobsAgree'
  <2> DEFINE job == [key |-> key, config |-> config[r]]
  <2>1. job.config \in Config /\ job.config = config[r] /\ job.key = key
    BY <1>0 DEF RequestTypes
  <2> HIDE DEF job, key
  <2>2. \A j \in jobs' : j.config \in Config /\ j.key = BuildKey(j.config)
    BY <1>0, <1>1, <2>1 DEF JobsAgree, job, key
  <2>3. \A i, j \in jobs' : i.key = j.key => i = j
    BY <1>0, <1>1, <2>1 DEF JobsAgree, job
  <2>4. ASSUME NEW s \in Requests, pc'[s] = "answered"
        PROVE  \E j \in jobs' : j.key = BuildKey(config'[s])
    <3>1. CASE s = r
      BY <1>1, <2>1, <3>1 DEF job, key
    <3>2. CASE s # r
      BY <1>0, <1>1, <1>3, <2>4, <3>2 DEF JobsAgree
    <3> QED
      BY <3>1, <3>2
  <2> QED
    BY <2>2, <2>3, <2>4 DEF JobsAgree
<1> QED
  BY <1>2, <1>5, <1>6, <1>7 DEF RequestInv

LEMMA HandleKeeps ==
    ASSUME RequestInv, NEW r \in Requests, Handle(r)
    PROVE  RequestInv'
<1>0. RequestTypes
  BY DEF RequestInv
<1>1. config = [config EXCEPT ![r] = config[r]] /\ config[r] \in Config
      /\ lookup = [lookup EXCEPT ![r] = lookup[r]]
  BY <1>0 DEF RequestTypes
<1>2. CASE Resolved(r)
  <2>1. PICK plugins \in SetToSeqs({Plugin(r, m) : m \in Found(r)}) :
           config' = [config EXCEPT ![r] = [plugins |-> plugins,
                                            replacements |-> ask[r].replacements]]
    BY <1>2 DEF Resolved
  <2>2. Collected(r) /\ Found(r) = DOMAIN lookup[r]
    BY <1>2 DEF Resolved
  <2> DEFINE c == [plugins |-> plugins, replacements |-> ask[r].replacements]
  <2>3. /\ plugins \in Seq(Tuples(4))
        /\ Len(plugins) = Cardinality(Wanted(ask[r].plugins))
        /\ \A m \in Wanted(ask[r].plugins) :
              \E v \in Version : Fits(r, m, v) /\ m \o v \in Range(plugins)
    BY <2>1, <2>2, PluginsOfRequest
  <2>4. ask[r].replacements \in Seq(Tuples(2))
    <3>1. ask[r].replacements \in Seq(Nat \X Nat)
      BY <1>0 DEF RequestTypes, Request, Replacement
    <3> QED
      BY <3>1, PairIs
  <2>5. c \in Config /\ c.plugins = plugins
    BY <2>3, <2>4 DEF Config
  <2>6. pc' = [pc EXCEPT ![r] = "create"] /\ lookup' = [lookup EXCEPT ![r] = << >>]
        /\ UNCHANGED <<newest, ask, jobs>>
    BY <1>2 DEF Resolved, Leaves, Goes
  <2>7. config' = [config EXCEPT ![r] = c]
    BY <2>1
  <2> HIDE DEF c
  <2> QED
    BY <2>3, <2>5, <2>6, <2>7, HandlerMoves
<1>3. CASE Unresolved(r)
  <2>1. /\ pc' = [pc EXCEPT ![r] = "refused"] /\ lookup' = [lookup EXCEPT ![r] = << >>]
        /\ config' = [config EXCEPT ![r] = config[r]] /\ UNCHANGED <<newest, ask, jobs>>
    BY <1>1, <1>3 DEF Unresolved, Leaves, Goes
  <2> QED
    BY <1>1, <2>1, HandlerMoves
<1>4. CASE CreateBuild(r)
  BY <1>4, CreateKeeps
<1>5. CASE CreateFails(r)
  <2>1. /\ pc' = [pc EXCEPT ![r] = "refused"]
        /\ lookup' = [lookup EXCEPT ![r] = lookup[r]]
        /\ config' = [config EXCEPT ![r] = config[r]] /\ UNCHANGED <<newest, ask, jobs>>
    BY <1>1, <1>5 DEF CreateFails, Goes
  <2> QED
    BY <1>1, <2>1, HandlerMoves
<1> QED
  BY <1>2, <1>3, <1>4, <1>5 DEF Handle

LEMMA PublishKeeps ==
    ASSUME RequestInv, NEW p \in 1 .. Proxies, NEW m \in Modules, Publish(p, m)
    PROVE  RequestInv'
<1>0. RequestTypes /\ LookupsAgree /\ ConfigsAgree /\ JobsAgree
  BY DEF RequestInv
<1>1. RequestTypes' /\ \A n \in Modules : Published(n) \subseteq Published(n)'
  BY <1>0, PublishedStays
<1>2. UNCHANGED <<pc, ask, lookup, config, jobs>>
  BY DEF Publish
<1>3. ASSUME NEW s \in Requests, NEW n \in Wanted(ask[s].plugins), NEW v, Fits(s, n, v)
      PROVE  Fits(s, n, v)'
  <2>1. n \in Modules
    <3>1. ask[s].plugins \in Plugins
      BY <1>0 DEF RequestTypes, Request
    <3> QED
      BY <3>1, WantedAre
  <2>2. Published(n) \subseteq Published(n)'
    BY <1>1, <2>1
  <2> QED
    BY <1>2, <1>3, <2>2 DEF Fits
<1>4. LookupsAgree'
  BY <1>0, <1>2, <1>3 DEF LookupsAgree
<1>5. ConfigsAgree'
  BY <1>0, <1>2, <1>3 DEF ConfigsAgree
<1>6. JobsAgree'
  BY <1>0, <1>2 DEF JobsAgree
<1> QED
  BY <1>1, <1>4, <1>5, <1>6 DEF RequestInv

LEMMA RequestStutter == RequestInv /\ UNCHANGED requestVars => RequestInv'
<1> SUFFICES ASSUME RequestInv, UNCHANGED requestVars PROVE RequestInv'
  OBVIOUS
<1>0. RequestTypes /\ LookupsAgree /\ ConfigsAgree /\ JobsAgree
  BY DEF RequestInv
<1>1. UNCHANGED <<newest, pc, ask, lookup, config, jobs>>
  BY DEF requestVars
<1>2. ASSUME NEW s, NEW m, NEW v
      PROVE  Fits(s, m, v)' <=> Fits(s, m, v)
  <2>1. Published(m)' = Published(m)
    BY <1>1 DEF Published
  <2> QED
    BY <1>1, <2>1 DEF Fits
<1>3. RequestTypes'
  BY <1>0, <1>1 DEF RequestTypes
<1>4. LookupsAgree'
  BY <1>0, <1>1, <1>2 DEF LookupsAgree
<1>5. ConfigsAgree'
  BY <1>0, <1>1, <1>2 DEF ConfigsAgree
<1>6. JobsAgree'
  BY <1>0, <1>1 DEF JobsAgree
<1> QED
  BY <1>3, <1>4, <1>5, <1>6 DEF RequestInv

LEMMA RequestStep == RequestInv /\ [RequestNext]_requestVars => RequestInv'
BY ArriveKeeps, HandleKeeps, LookupKeeps, PublishKeeps, RequestStutter DEF RequestNext

(* Everything above, as an invariant of the specification.                 *)
THEOREM RequestInvHolds == RequestSpec => []RequestInv
BY RequestInitInv, RequestStep, PTL DEF RequestSpec

-----------------------------------------------------------------------------
(* The job of who is answered has the same plugins and replacements.       *)
LEMMA JobOfRequest ==
    ASSUME RequestInv, NEW r \in Answered
    PROVE  /\ JobOf(r) \in jobs /\ JobOf(r).config \in Config
           /\ JobOf(r).key = BuildKey(config[r])
           /\ JobOf(r).key = BuildKey(JobOf(r).config)
           /\ config[r] \in Config
<1>1. /\ r \in Requests /\ pc[r] = "answered" /\ config[r] \in Config
  BY DEF Answered, RequestInv, RequestTypes
<1>2. JobOf(r) \in jobs /\ JobOf(r).key = BuildKey(config[r])
  BY <1>1 DEF RequestInv, JobsAgree, JobOf
<1> QED
  BY <1>1, <1>2 DEF RequestInv, JobsAgree

(* Two requests that are answered share a job exactly if they came to the  *)
(* same plugins and replacements, in whatever order: db.BuildConfig sorts  *)
(* a copy of both before it is hashed.                                     *)
THEOREM SameJobForSameConfigHolds == RequestSpec => []SameJobForSameConfig
<1>1. ASSUME RequestInv, NEW r \in Answered, NEW s \in Answered
      PROVE  JobOf(r) = JobOf(s) <=> SameConfig(config[r], config[s])
  <2>1. /\ JobOf(r) \in jobs /\ JobOf(s) \in jobs
        /\ JobOf(r).key = BuildKey(config[r]) /\ JobOf(s).key = BuildKey(config[s])
        /\ config[r] \in Config /\ config[s] \in Config
    BY <1>1, JobOfRequest
  <2>2. JobOf(r) = JobOf(s) <=> JobOf(r).key = JobOf(s).key
    BY <1>1, <2>1 DEF RequestInv, JobsAgree
  <2> QED
    BY <2>1, <2>2, KeyTells
<1>2. RequestInv => SameJobForSameConfig
  BY <1>1 DEF SameJobForSameConfig, SameConfig
<1> QED
  BY <1>2, RequestInvHolds, PTL

(* Every plugin asked for is in the job, once, in the version asked for    *)
(* last or in one that a proxy has, whichever proxies failed and whoever   *)
(* created the job: resolvePlugins refuses the request if one is missing.  *)
THEOREM AllOfTheRequestHolds == RequestSpec => []AllOfTheRequest
<1>1. ASSUME RequestInv, NEW r \in Answered
      PROVE  LET asked == ask[r].plugins
                 built == JobOf(r).config.plugins
             IN  /\ Len(built) = Cardinality({asked[i].module : i \in DOMAIN asked})
                 /\ \A i \in DOMAIN asked :
                       (\A j \in i + 1 .. Len(asked) : asked[j].module # asked[i].module)
                       => \E v \in Published(asked[i].module) \cup {asked[i].query} :
                             /\ asked[i].query \in {Latest, v}
                             /\ asked[i].module \o v \in Range(built)
  <2> DEFINE asked == ask[r].plugins
             built == JobOf(r).config.plugins
             given == config[r].plugins
  <2>1. r \in Requests /\ pc[r] = "answered" /\ asked \in Plugins
    BY <1>1 DEF Answered, RequestInv, RequestTypes, Request
  <2>2. /\ Len(given) = Cardinality(Wanted(asked))
        /\ \A m \in Wanted(asked) :
              \E v \in Version : Fits(r, m, v) /\ m \o v \in Range(given)
    BY <1>1, <2>1 DEF RequestInv, ConfigsAgree
  <2>3. Len(built) = Len(given) /\ Range(built) = Range(given)
    <3>1. /\ JobOf(r).config \in Config /\ config[r] \in Config
          /\ BuildKey(config[r]) = BuildKey(JobOf(r).config)
      BY <1>1, JobOfRequest
    <3>2. /\ SameElements(given, built)
          /\ given \in Seq(Tuples(4)) /\ built \in Seq(Tuples(4))
      BY <3>1, KeyTells DEF SameConfig, Config
    <3> QED
      BY <3>2, SameShape, TuplesOrdered
  <2>4. ASSUME NEW i \in DOMAIN asked,
               \A j \in i + 1 .. Len(asked) : asked[j].module # asked[i].module
        PROVE  \E v \in Published(asked[i].module) \cup {asked[i].query} :
                  /\ asked[i].query \in {Latest, v}
                  /\ asked[i].module \o v \in Range(built)
    <3> DEFINE m == asked[i].module
    <3>1. m \in Wanted(asked)
      BY DEF Wanted
    <3>2. asked[i].query = Query(asked, m)
      BY <2>1, <2>4, <3>1, QueryIs
    <3>3. PICK v \in Version : Fits(r, m, v) /\ m \o v \in Range(given)
      BY <2>2, <3>1
    <3>4. v \in Published(m) \cup {asked[i].query} /\ asked[i].query \in {Latest, v}
      BY <3>2, <3>3 DEF Fits
    <3> QED
      BY <2>3, <3>3, <3>4
  <2> QED
    BY <2>2, <2>3, <2>4 DEF Wanted
<1>2. RequestInv => AllOfTheRequest
  BY <1>1 DEF AllOfTheRequest
<1> QED
  BY <1>2, RequestInvHolds, PTL

-----------------------------------------------------------------------------
(* What the go gets of a job pin.                                          *)

Versions == Nat \X Nat

LEMMA VersionOrder ==
    \A u, v, w \in Versions :
        /\ NotNewer(u, u)
        /\ NotNewer(u, v) \/ NotNewer(v, u)
        /\ NotNewer(u, v) /\ NotNewer(v, u) => u = v
        /\ NotNewer(u, v) /\ NotNewer(v, w) => NotNewer(u, w)
<1>1. Orders(Tuples(2))
  BY TuplesOrdered
<1>2. \A u \in Versions : u \in Tuples(2)
  BY PairIs DEF Versions
<1> QED
  BY <1>1, <1>2 DEF Orders, NotNewer

(* What is not older than the others is the newest.                        *)
LEMMA NewestIs ==
    ASSUME NEW S \in SUBSET Versions, NEW v \in S, \A w \in S : NotNewer(w, v)
    PROVE  NewestOf(S) = v
<1>1. NewestOf(S) \in S /\ \A w \in S : NotNewer(w, NewestOf(S))
  BY Zenon DEF NewestOf
<1> QED
  BY <1>1, VersionOrder

(* Absent comes before every version.                                      *)
LEMMA AbsentFirst == \A v \in Versions : NotNewer(Absent, v)
<1> SUFFICES ASSUME NEW v \in Versions, v # Absent
             PROVE  Before(Absent, v)
  BY DEF NotNewer
<1>1. PICK a \in Nat, b \in Nat : v = <<a, b>>
  BY DEF Versions
<1>2. Absent = <<0, 0>> /\ DOMAIN Absent = 1 .. 2
  BY DEF Absent
<1>3. a # 0 \/ b # 0
  BY <1>1, <1>2
<1>4. CASE a # 0
  <2>1. Absent[1] < v[1] /\ \A j \in 1 .. 1 - 1 : Absent[j] = v[j]
    BY <1>1, <1>2, <1>4
  <2> QED
    BY <1>2, <2>1 DEF Before
<1>5. CASE a = 0 /\ b # 0
  <2>1. Absent[2] < v[2] /\ \A j \in 1 .. 2 - 1 : Absent[j] = v[j]
    BY <1>1, <1>2, <1>5
  <2> QED
    BY <1>2, <2>1 DEF Before
<1> QED
  BY <1>3, <1>4, <1>5

\* What a module may be in: a release, or not at all.
Selectable(n) == ReleasesOf(n) \cup {Absent}

(* What releases need is theirs to need, and includes what that needs.     *)
LEMMA NeedsAre ==
    /\ \A n \in Modules : Selectable(n) \subseteq Versions
    /\ \A m \in Modules : \A v \in Selectable(m) : \A n \in Modules :
          /\ NeededBy(m, v)[n] \in Selectable(n)
          /\ NotNewer(NeededBy(m, v)[m], v)
          /\ \A o \in Modules : NotNewer(NeededBy(n, NeededBy(m, v)[n])[o], NeededBy(m, v)[o])
          /\ v # Absent => v \in ReleasesOf(m) /\ NeededBy(m, v) = Needs[m][v]
<1>1. Absent \in Versions
  BY DEF Absent, Versions
<1>2. ASSUME NEW n \in Modules
      PROVE  Selectable(n) \subseteq Versions
  <2>1. Releases[n] \in Seq(Version)
    BY RequestAssumption
  <2>2. \A i \in DOMAIN Releases[n] : Releases[n][i] \in Version
    BY <2>1, Elements
  <2>3. ReleasesOf(n) \subseteq Version
    BY <2>2 DEF ReleasesOf, Range
  <2> QED
    BY <1>1, <2>3 DEF Selectable, Version, Versions
<1>3. ASSUME NEW m \in Modules, NEW v \in Selectable(m), NEW n \in Modules
      PROVE  /\ NeededBy(m, v)[n] \in Selectable(n)
             /\ NotNewer(NeededBy(m, v)[m], v)
             /\ \A o \in Modules :
                   NotNewer(NeededBy(n, NeededBy(m, v)[n])[o], NeededBy(m, v)[o])
             /\ v # Absent => v \in ReleasesOf(m) /\ NeededBy(m, v) = Needs[m][v]
  <2>1. CASE v = Absent
    <3>1. \A o \in Modules : NeededBy(m, v)[o] = Absent
      BY <2>1 DEF NeededBy
    <3>2. \A o \in Modules : NeededBy(n, Absent)[o] = Absent
      BY DEF NeededBy
    <3> QED
      BY <2>1, <3>1, <3>2 DEF Selectable, NotNewer
  <2>2. CASE v # Absent
    <3>1. v \in ReleasesOf(m) /\ NeededBy(m, v) = Needs[m][v]
      BY <2>2 DEF Selectable, NeededBy
    <3> DEFINE w == Needs[m][v][n]
    <3>2. /\ w \in Selectable(n)
          /\ NotNewer(Needs[m][v][m], v)
          /\ w # Absent => \A o \in Modules : NotNewer(Needs[n][w][o], Needs[m][v][o])
      BY <3>1, NeedsAssumption DEF Selectable
    <3>3. ASSUME NEW o \in Modules
          PROVE  NotNewer(NeededBy(n, w)[o], Needs[m][v][o])
      <4>1. CASE w = Absent
        <5>1. NeededBy(n, w)[o] = Absent
          BY <4>1 DEF NeededBy
        <5>2. Needs[m][v][o] \in Versions
          BY <1>2, <3>1, NeedsAssumption DEF Selectable
        <5>3. NotNewer(Absent, Needs[m][v][o])
          BY <5>2, AbsentFirst
        <5> QED
          BY <5>1, <5>3
      <4>2. CASE w # Absent
        BY <3>2, <4>2 DEF NeededBy
      <4> QED
        BY <4>1, <4>2
    <3> QED
      BY <3>1, <3>2, <3>3
  <2> QED
    BY <2>1, <2>2
<1> QED
  BY <1>2, <1>3

\* A module is in version v because of the i-th plugin of P.
Because(P, i, n, v) ==
    \/ n = VersionedPath(P[i]) /\ v = VersionOf(P[i])
    \/ v = Needs[VersionedPath(P[i])][VersionOf(P[i])][n]

\* Where the first g go gets of compatible plugins P leave the modules: each of
\* these plugins has its version, everything is there because of one of them, and
\* nothing needs more than there is.
Settles(P, g, mod) ==
    /\ \A n \in Modules : mod[n] \in Selectable(n)
    /\ \A i \in 1 .. g : mod[VersionedPath(P[i])] = VersionOf(P[i])
    /\ \A n \in Modules : mod[n] # Absent => \E i \in 1 .. g : Because(P, i, n, mod[n])
    /\ \A n, o \in Modules : NotNewer(NeededBy(n, mod[n])[o], mod[o])

(* The next go get of compatible plugins lowers nothing, and raises only   *)
(* what its own plugin needs, which is nothing that is pinned.             *)
LEMMA GoGotKeeps ==
    ASSUME NEW P \in Seq(Tuples(4)), Compatible(P), NEW g \in Nat, g < Len(P),
           NEW mod, Settles(P, g, mod)
    PROVE  Settles(P, g + 1, GoGot(mod, VersionedPath(P[g + 1]), VersionOf(P[g + 1])))
<1> DEFINE m == VersionedPath(P[g + 1])
           v == VersionOf(P[g + 1])
           path(i) == VersionedPath(P[i])
           version(i) == VersionOf(P[i])
           new == GoGot(mod, m, v)
<1>1. \A i \in 1 .. g + 1 : /\ i \in DOMAIN P /\ P[i] \in Range(P)
                            /\ path(i) \in Modules /\ version(i) \in ReleasesOf(path(i))
  <2>1. \A i \in 1 .. g + 1 : i \in DOMAIN P
    BY Elements
  <2>2. \A i \in DOMAIN P : P[i] \in Range(P)
    BY DEF Range
  <2> QED
    BY <2>1, <2>2 DEF Compatible, Released
<1>2. \A n \in Modules : \A u \in ReleasesOf(n) :
         u \in Selectable(n) /\ u # Absent /\ NeededBy(n, u) = Needs[n][u]
  BY NeedsAssumption DEF Selectable, NeededBy
<1>3. m \in Modules /\ v \in Selectable(m) /\ NeededBy(m, v) = Needs[m][v]
      /\ v # Absent
  <2>1. g + 1 \in 1 .. g + 1
    OBVIOUS
  <2> QED
    BY <1>1, <1>2, <2>1
<1>4. ASSUME NEW i \in 1 .. g
      PROVE  /\ path(i) # m
             /\ NotNewer(Needs[path(i)][version(i)][m], v)
             /\ NotNewer(Needs[m][v][path(i)], version(i))
  <2>1. /\ i \in DOMAIN P /\ g + 1 \in DOMAIN P /\ i # g + 1
        /\ P[i] \in Range(P) /\ P[g + 1] \in Range(P)
    BY <1>1
  <2>2. path(i) # m
    BY <2>1 DEF Compatible, IsInjective, PathsOf
  <2> QED
    BY <2>1, <2>2 DEF Compatible
<1>5. /\ \A n \in Modules : Selectable(n) \subseteq Versions /\ mod[n] \in Selectable(n)
      /\ \A n, o \in Modules : NotNewer(NeededBy(n, mod[n])[o], mod[o])
      /\ \A i \in 1 .. g : mod[path(i)] = version(i)
      /\ \A n \in Modules : mod[n] # Absent => \E i \in 1 .. g : Because(P, i, n, mod[n])
  BY NeedsAre DEF Settles
<1>6. ASSUME NEW n \in Modules, n # m
      PROVE  NotNewer(NeededBy(n, mod[n])[m], v)
  <2>1. v \in Versions
    BY <1>3, <1>5
  <2>2. CASE mod[n] = Absent
    <3>1. NeededBy(n, mod[n])[m] = Absent
      BY <1>3, <2>2 DEF NeededBy
    <3> QED
      BY <2>1, <3>1, AbsentFirst
  <2>3. CASE mod[n] # Absent
    <3>1. PICK i \in 1 .. g : Because(P, i, n, mod[n])
      BY <1>5, <2>3
    <3>2. /\ path(i) \in Modules /\ version(i) \in Selectable(path(i))
          /\ NeededBy(path(i), version(i)) = Needs[path(i)][version(i)]
          /\ NotNewer(Needs[path(i)][version(i)][m], v)
      BY <1>1, <1>2, <1>4
    <3>3. CASE n = path(i) /\ mod[n] = version(i)
      BY <3>2, <3>3
    <3>4. CASE mod[n] = Needs[path(i)][version(i)][n]
      <4> DEFINE a == NeededBy(n, mod[n])[m]
                 b == Needs[path(i)][version(i)][m]
      <4>1. NotNewer(a, b)
        BY <1>3, <3>2, <3>4, NeedsAre
      <4>2. a \in Versions /\ b \in Versions
        BY <1>3, <1>5, <3>2, NeedsAre
      <4> HIDE DEF a, b
      <4>3. NotNewer(a, v)
        BY <2>1, <3>2, <4>1, <4>2, VersionOrder DEF b
      <4> QED
        BY <4>3 DEF a
    <3> QED
      BY <3>1, <3>3, <3>4 DEF Because
  <2> QED
    BY <2>2, <2>3
<1>7. ASSUME NEW n \in Modules, n # m, mod[n] # Absent
      PROVE  LoweredFor(n, mod[n], m, v) = mod[n]
  <2> DEFINE S == {Absent} \cup {u \in ReleasesOf(n) :
                                   NotNewer(u, mod[n]) /\ NotNewer(Needs[n][u][m], v)}
  <2>1. S \in SUBSET Versions
    BY <1>5 DEF Selectable
  <2>2. mod[n] \in S
    <3>1. mod[n] \in ReleasesOf(n)
      BY <1>5, <1>7 DEF Selectable
    <3>2. NotNewer(mod[n], mod[n])
      BY DEF NotNewer
    <3>3. NotNewer(Needs[n][mod[n]][m], v)
      BY <1>2, <1>6, <1>7, <3>1
    <3> QED
      BY <3>1, <3>2, <3>3
  <2>3. \A u \in S : NotNewer(u, mod[n])
    BY <2>1, <2>2, AbsentFirst
  <2> HIDE DEF S
  <2>4. NewestOf(S) = mod[n]
    BY <2>1, <2>2, <2>3, NewestIs
  <2> QED
    BY <2>4 DEF LoweredFor, S
<1> DEFINE kept == [n \in Modules |->
                      IF n = m THEN v
                      ELSE IF mod[n] = Absent THEN Absent
                      ELSE LoweredFor(n, mod[n], m, v)]
<1>8. kept[m] = v /\ \A n \in Modules : n # m => kept[n] = mod[n]
  BY <1>3, <1>7
<1>9. new[m] = v /\ \A n \in Modules : n # m =>
         new[n] = NewestOf({kept[n]} \cup {NeededBy(o, kept[o])[n] : o \in Modules})
  BY <1>3 DEF GoGot
<1> HIDE DEF kept, new
<1>10. ASSUME NEW n \in Modules, n # m
       PROVE  /\ new[n] \in {mod[n], Needs[m][v][n]}
              /\ new[n] \in Selectable(n)
              /\ NotNewer(mod[n], new[n]) /\ NotNewer(Needs[m][v][n], new[n])
              /\ NotNewer(Needs[m][v][n], mod[n]) => new[n] = mod[n]
  <2> DEFINE S == {kept[n]} \cup {NeededBy(o, kept[o])[n] : o \in Modules}
             x == Needs[m][v][n]
  <2>1. mod[n] \in Selectable(n) /\ x \in Selectable(n)
        /\ mod[n] \in Versions /\ x \in Versions
    BY <1>3, <1>5, NeedsAre
  <2>2. \A o \in Modules : NeededBy(o, kept[o])[n] \in Versions
    <3>1. \A o \in Modules : kept[o] \in Selectable(o)
      BY <1>3, <1>5, <1>8
    <3> QED
      BY <1>5, <3>1, NeedsAre
  <2>3. kept[n] = mod[n] /\ NeededBy(m, kept[m])[n] = x
    BY <1>3, <1>8, <1>10
  <2>4. S \in SUBSET Versions /\ mod[n] \in S /\ x \in S
    BY <1>3, <2>1, <2>2, <2>3
  <2>5. \A w \in S : w = mod[n] \/ w = x \/ NotNewer(w, mod[n])
    <3>1. \A o \in Modules : o # m => NotNewer(NeededBy(o, kept[o])[n], mod[n])
      BY <1>5, <1>8
    <3> QED
      BY <2>3, <3>1
  <2>6. new[n] = NewestOf(S)
    BY <1>9, <1>10
  <2> HIDE DEF S, x
  <2>7. CASE NotNewer(x, mod[n])
    <3>1. \A w \in S : NotNewer(w, mod[n])
      BY <2>1, <2>5, <2>7, VersionOrder
    <3>2. new[n] = mod[n]
      BY <2>4, <2>6, <3>1, NewestIs
    <3> QED
      BY <2>1, <2>7, <3>2, VersionOrder DEF x
  <2>8. CASE ~ NotNewer(x, mod[n])
    <3>1. NotNewer(mod[n], x)
      BY <2>1, <2>8, VersionOrder
    <3>2. \A w \in S : NotNewer(w, x)
      BY <2>1, <2>4, <2>5, <3>1, VersionOrder
    <3>3. new[n] = x
      BY <2>4, <2>6, <3>2, NewestIs
    <3> QED
      BY <2>1, <2>8, <3>1, <3>3, VersionOrder DEF x
  <2> QED
    BY <2>7, <2>8
<1>11. \A n \in Modules : new[n] \in Selectable(n)
  BY <1>3, <1>9, <1>10
<1>12. ASSUME NEW i \in 1 .. g + 1
       PROVE  new[path(i)] = version(i)
  <2>1. CASE i \in 1 .. g
    <3>1. /\ path(i) # m /\ path(i) \in Modules /\ mod[path(i)] = version(i)
          /\ NotNewer(Needs[m][v][path(i)], version(i))
      BY <1>1, <1>4, <1>5, <2>1
    <3> QED
      BY <1>10, <3>1
  <2>2. CASE i = g + 1
    BY <1>9, <2>2
  <2> QED
    BY <2>1, <2>2
<1>13. ASSUME NEW n \in Modules, new[n] # Absent
       PROVE  \E i \in 1 .. g + 1 : Because(P, i, n, new[n])
  <2>1. g + 1 \in 1 .. g + 1 /\ 1 .. g \subseteq 1 .. g + 1
    OBVIOUS
  <2>2. CASE n = m \/ new[n] = Needs[m][v][n]
    <3>1. Because(P, g + 1, n, new[n])
      BY <1>9, <2>2 DEF Because
    <3> QED
      BY <2>1, <3>1
  <2>3. CASE n # m /\ new[n] = mod[n]
    <3>1. \E i \in 1 .. g : Because(P, i, n, mod[n])
      BY <1>5, <1>13, <2>3
    <3> QED
      BY <2>1, <2>3, <3>1
  <2> QED
    BY <1>10, <2>2, <2>3
<1>14. ASSUME NEW n \in Modules, NEW o \in Modules
       PROVE  NotNewer(NeededBy(n, new[n])[o], new[o])
  <2>0. /\ new[o] \in Versions /\ mod[o] \in Versions
        /\ NeededBy(n, new[n])[o] \in Versions
        /\ NeededBy(n, mod[n])[o] \in Versions
        /\ Needs[m][v][o] \in Versions
    BY <1>3, <1>5, <1>11, NeedsAre
  <2>1. NotNewer(Needs[m][v][o], new[o])
    BY <1>3, <1>9, <1>10, NeedsAre
  <2>2. CASE n = m
    BY <1>3, <1>9, <2>1, <2>2
  <2>3. CASE n # m /\ new[n] = mod[n]
    <3>1. CASE o = m
      BY <1>6, <1>9, <2>3, <3>1
    <3>2. CASE o # m
      <4>1. NotNewer(NeededBy(n, mod[n])[o], mod[o]) /\ NotNewer(mod[o], new[o])
        BY <1>5, <1>10, <3>2
      <4>2. NotNewer(NeededBy(n, mod[n])[o], new[o])
        BY <2>0, <4>1, VersionOrder
      <4> QED
        BY <2>3, <4>2
    <3> QED
      BY <3>1, <3>2
  <2>4. CASE n # m /\ new[n] = Needs[m][v][n]
    <3>1. NotNewer(NeededBy(n, new[n])[o], Needs[m][v][o])
      BY <1>3, <2>4, NeedsAre
    <3> QED
      BY <2>0, <2>1, <3>1, VersionOrder
  <2> QED
    BY <1>10, <2>2, <2>3, <2>4
<1>15. Settles(P, g + 1, new)
  BY <1>11, <1>12, <1>13, <1>14 DEF Settles
<1> QED
  BY <1>15 DEF new

\* The go gets that a build has done so far.
SelectionInv ==
    /\ env = [config |-> env.config, gets |-> env.gets, mod |-> env.mod]
    /\ env.config \in Config
    /\ env.gets \in 0 .. Len(env.config.plugins)
    /\ env # NoEnv /\ Compatible(env.config.plugins) =>
           Settles(env.config.plugins, env.gets, env.mod)

LEMMA SelectionInitInv == SelectionInit => SelectionInv
<1> SUFFICES ASSUME env = NoEnv
             PROVE  SelectionInv
  BY DEF SelectionInit
<1>1. << >> \in Seq(Tuples(4)) /\ << >> \in Seq(Tuples(2)) /\ Len(<< >>) = 0
  OBVIOUS
<1> QED
  BY <1>1 DEF SelectionInv, NoEnv, NoConfig, Config

LEMMA SelectionKeeps ==
    ASSUME RequestInv, SelectionInv, [SelectionNext]_selectionVars
    PROVE  SelectionInv'
<1>1. CASE UNCHANGED env
  BY <1>1 DEF SelectionInv
<1>2. CASE BuildBegins
  <2>1. PICK j \in jobs :
           env' = [config |-> j.config, gets |-> 0, mod |-> [m \in Modules |-> Absent]]
    BY <1>2 DEF BuildBegins
  <2>2. j.config \in Config /\ Len(j.config.plugins) \in Nat
    <3>1. j.config \in Config
      BY DEF RequestInv, JobsAgree
    <3> QED
      BY <3>1, Elements DEF Config
  <2> DEFINE mod == [m \in Modules |-> Absent]
  <2>3. Settles(j.config.plugins, 0, mod)
    <3>1. \A n, o \in Modules : NeededBy(n, mod[n])[o] = Absent
      BY DEF NeededBy
    <3> QED
      BY <3>1 DEF Settles, Selectable, NotNewer
  <2>4. env'.config = j.config /\ env'.gets = 0 /\ env'.mod = mod
    BY <2>1
  <2> HIDE DEF mod
  <2> QED
    BY <2>1, <2>2, <2>3, <2>4 DEF SelectionInv, mod
<1>3. CASE GoGet
  <2> DEFINE P == env.config.plugins
             g == env.gets
             mod == GoGot(env.mod, VersionedPath(P[g + 1]), VersionOf(P[g + 1]))
  <2>1. /\ env = [config |-> env.config, gets |-> env.gets, mod |-> env.mod]
        /\ env.config \in Config /\ P \in Seq(Tuples(4)) /\ g \in 0 .. Len(P)
    BY DEF SelectionInv, Config
  <2>2. /\ env # NoEnv /\ g < Len(P) /\ g \in Nat /\ Len(P) \in Nat
        /\ env' = [env EXCEPT !.gets = g + 1, !.mod = mod]
    BY <1>3, <2>1, Elements DEF GoGet, GetsLeft
  <2>3. Compatible(P) => Settles(P, g + 1, mod)
    BY <2>1, <2>2, GoGotKeeps DEF SelectionInv
  <2> HIDE DEF mod
  <2>4. /\ env' = [config |-> env.config, gets |-> g + 1, mod |-> mod]
        /\ g + 1 \in 0 .. Len(P)
    <3>1. PICK c, h, d : env = [config |-> c, gets |-> h, mod |-> d]
      BY <2>1
    <3>2. env' = [config |-> c, gets |-> g + 1, mod |-> mod]
      BY <2>2, <3>1
    <3>3. env.config = c
      BY <3>1
    <3>4. g + 1 \in 0 .. Len(P)
      BY <2>2
    <3> QED
      BY <3>2, <3>3, <3>4
  <2>5. env'.config = env.config /\ env'.gets = g + 1 /\ env'.mod = mod
    BY <2>4
  <2> QED
    BY <2>1, <2>3, <2>4, <2>5 DEF SelectionInv
<1>4. CASE BuildOver
  <2>1. env' = NoEnv
    BY <1>4 DEF BuildOver
  <2>2. << >> \in Seq(Tuples(4)) /\ << >> \in Seq(Tuples(2)) /\ Len(<< >>) = 0
    OBVIOUS
  <2> QED
    BY <2>1, <2>2 DEF SelectionInv, NoEnv, NoConfig, Config
<1> QED
  BY <1>1, <1>2, <1>3, <1>4 DEF SelectionNext, selectionVars

LEMMA SelectionInvHolds == SelectionSpec => [](RequestInv /\ SelectionInv)
<1>1. SelectionInit => RequestInv /\ SelectionInv
  BY RequestInitInv, SelectionInitInv DEF SelectionInit
<1>2. ASSUME RequestInv, [SelectionNext]_selectionVars
      PROVE  RequestInv'
  <2>1. RequestNext \/ UNCHANGED requestVars
    BY <1>2 DEF SelectionNext, selectionVars
  <2> QED
    BY <1>2, <2>1, RequestStep
<1> QED
  BY <1>1, <1>2, SelectionKeeps, PTL DEF SelectionSpec

(* The job a client is given ends up with the plugins in the versions that *)
(* the client's own request came to: CreateBuild keeps the row of whoever  *)
(* came first, which differs from the client's by the order of its lines,  *)
(* and while the go gets follow that order, those of compatible plugins    *)
(* never move what an earlier one has pinned, whatever order it is and     *)
(* whatever other modules the plugins need.                                *)
THEOREM JobBuildsRequestHolds == SelectionSpec => []JobBuildsRequest
<1>1. ASSUME RequestInv, SelectionInv, NEW r \in Answered,
             env # NoEnv, ~ GetsLeft, env.config = JobOf(r).config,
             Compatible(config[r].plugins), NEW p \in Range(config[r].plugins)
      PROVE  env.mod[VersionedPath(p)] = VersionOf(p)
  <2> DEFINE P == env.config.plugins
             Q == config[r].plugins
  <2>1. /\ env.config \in Config /\ config[r] \in Config
        /\ BuildKey(config[r]) = BuildKey(env.config)
    BY <1>1, JobOfRequest
  <2>2. SameElements(Q, P) /\ P \in Seq(Tuples(4)) /\ Q \in Seq(Tuples(4))
    BY <2>1, KeyTells DEF SameConfig, Config
  <2>3. Compatible(P) /\ Range(P) = Range(Q)
    BY <1>1, <2>2, TuplesOrdered, SameCompatible, SameShape
  <2>4. env.gets = Len(P) /\ Settles(P, env.gets, env.mod)
    BY <1>1, <2>2, <2>3, Elements DEF SelectionInv, GetsLeft
  <2>5. PICK i \in DOMAIN P : p = P[i]
    BY <1>1, <2>3 DEF Range
  <2>6. i \in 1 .. env.gets
    BY <2>2, <2>4, <2>5, Elements
  <2> QED
    BY <2>4, <2>5, <2>6 DEF Settles
<1>2. RequestInv /\ SelectionInv => JobBuildsRequest
  BY <1>1 DEF JobBuildsRequest
<1> QED
  BY <1>2, SelectionInvHolds, PTL
=============================================================================
