-------------------------- MODULE CountingTheorems --------------------------
(***************************************************************************)
(* Facts about least elements, about the size of sets and the rank of a    *)
(* number in one, and about sums of natural numbers, which the selector's  *)
(* weights, the matcher's scores, the counts of the metrics and the bytes  *)
(* of a logged body are.  A sum is a fold, so a recursive function on the  *)
(* subsets of its indices; every fact is proved of a smallest set it could *)
(* be wrong of, which there is none of.                                    *)
(***************************************************************************)
EXTENDS Integers, FiniteSets, FiniteSetsExt, FiniteSetTheorems,
        WellFoundedInduction, TLAPS

\* Every non-empty set of natural numbers has a least element.
LEMMA LeastNatural ==
    ASSUME NEW S, S \subseteq Nat, S # {}
    PROVE  \E m \in S : \A n \in S : m <= n
<1> DEFINE Less == {ss \in Nat \X Nat : ss[1] < ss[2]}
<1>1. IsWellFoundedOn(Less, Nat)
  BY NatLessThanWellFounded DEF OpToRel
<1> HIDE DEF Less
<1>2. PICK m \in S : \A n \in S : <<n, m>> \notin Less
  BY <1>1, WFMin
<1>3. ASSUME NEW n \in S PROVE m <= n
  <2>1. n \in Nat /\ m \in Nat /\ <<n, m>> \notin Less
    BY <1>2
  <2> QED
    BY <2>1 DEF Less
<1> QED
  BY <1>2, <1>3

\* Min picks that element.
LEMMA MinIsLeast ==
    ASSUME NEW S, S \subseteq Nat, S # {}
    PROVE  Min(S) \in S /\ \A n \in S : Min(S) <= n
<1>1. \E m \in S : \A n \in S : m <= n
  BY LeastNatural
<1> QED
  BY <1>1 DEF Min

\* Every non-empty collection of finite sets has a smallest member.
LEMMA SmallestMember ==
    ASSUME NEW B, B # {}, \A s \in B : IsFiniteSet(s)
    PROVE  \E s \in B : \A t \in B : Cardinality(s) <= Cardinality(t)
<1> DEFINE sizes == {Cardinality(s) : s \in B}
<1>1. sizes \subseteq Nat /\ sizes # {}
  BY FS_CardinalityType
<1>2. PICK m \in sizes : \A n \in sizes : m <= n
  BY <1>1, LeastNatural
<1> QED
  BY <1>2

\* A subset of a finite set, and what is left when an element is taken away.
LEMMA Smaller ==
    ASSUME NEW S, IsFiniteSet(S), NEW s \in SUBSET S
    PROVE  /\ IsFiniteSet(s) /\ Cardinality(s) \in Nat
           /\ \A x \in s : /\ IsFiniteSet(s \ {x})
                           /\ Cardinality(s \ {x}) = Cardinality(s) - 1
                           /\ Cardinality(s) # 0
<1>1. IsFiniteSet(s) /\ Cardinality(s) \in Nat
  BY FS_Subset, FS_CardinalityType
<1>2. ASSUME NEW x \in s
      PROVE  IsFiniteSet(s \ {x}) /\ Cardinality(s \ {x}) = Cardinality(s) - 1
  BY <1>1, FS_RemoveElement
<1>3. s # {} => Cardinality(s) # 0
  BY <1>1, FS_EmptySet
<1> QED
  BY <1>1, <1>2, <1>3

LEMMA CountTo ==
    ASSUME NEW n \in Nat
    PROVE  IsFiniteSet(1 .. n) /\ Cardinality(1 .. n) = n
<1>1. /\ IsFiniteSet(1 .. n)
      /\ Cardinality(1 .. n) = IF 1 > n THEN 0 ELSE n - 1 + 1
  BY FS_Interval
<1> QED
  BY <1>1

\* The values a function takes on a finite set are finitely many, and one of
\* the indices has the least of them.
LEMMA FiniteImage ==
    ASSUME NEW S, NEW T, NEW e, IsFiniteSet(S),
           \A x \in S : e[x] \in T, \A y \in T : \E x \in S : e[x] = y
    PROVE  IsFiniteSet(T) /\ Cardinality(T) <= Cardinality(S)
<1>1. [i \in S |-> e[i]] \in Surjection(S, T)
  BY DEF Surjection
<1> QED
  BY <1>1, FS_Surjection

LEMMA LeastValue ==
    ASSUME NEW S, IsFiniteSet(S), S # {}, NEW e, \A x \in S : e[x] \in Int
    PROVE  \E x \in S : \A y \in S : e[x] <= e[y]
<1> DEFINE bad == {s \in SUBSET S : s # {} /\ ~ \E x \in s : \A y \in s : e[x] <= e[y]}
<1> SUFFICES ASSUME bad # {} PROVE FALSE
  OBVIOUS
<1>1. PICK s \in bad : \A t \in bad : Cardinality(s) <= Cardinality(t)
  BY Smaller, SmallestMember
<1>2. PICK x \in s : TRUE
  BY <1>1
<1>3. s \ {x} \notin bad /\ s \in SUBSET S
  <2>1. /\ Cardinality(s \ {x}) = Cardinality(s) - 1
        /\ Cardinality(s) \in Nat
    BY <1>1, <1>2, Smaller
  <2> HIDE DEF bad
  <2>2. s \ {x} \notin bad
    BY <1>1, <2>1
  <2> QED
    BY <1>1, <2>2 DEF bad
<1>4. CASE s \ {x} = {}
  BY <1>1, <1>2, <1>3, <1>4
<1>5. CASE s \ {x} # {}
  <2>1. PICK m \in s \ {x} : \A y \in s \ {x} : e[m] <= e[y]
    BY <1>3, <1>5
  <2>2. e[m] \in Int /\ e[x] \in Int /\ \A y \in s : e[y] \in Int
    BY <1>2, <1>3, <2>1
  <2>3. \/ \A y \in s : e[m] <= e[y]
        \/ \A y \in s : e[x] <= e[y]
    BY <2>1, <2>2
  <2> QED
    BY <1>1, <1>2, <2>1, <2>3
<1> QED
  BY <1>4, <1>5

(***************************************************************************)
(* Comparing two sets, and the place of a number in a set of numbers       *)
(***************************************************************************)
LEMMA CoveredIsSmaller ==
    ASSUME NEW S, NEW T, NEW e, IsFiniteSet(S), \A y \in T : \E x \in S : e[x] = y
    PROVE  IsFiniteSet(T) /\ Cardinality(T) <= Cardinality(S)
<1> DEFINE Q == {x \in S : e[x] \in T}
<1>1. IsFiniteSet(Q) /\ Cardinality(Q) <= Cardinality(S) /\ Cardinality(Q) \in Nat
  BY FS_Subset, FS_CardinalityType
<1>2. IsFiniteSet(T) /\ Cardinality(T) <= Cardinality(Q)
  BY <1>1, FiniteImage
<1>3. Cardinality(T) \in Nat /\ Cardinality(S) \in Nat
  BY <1>2, FS_CardinalityType
<1> HIDE DEF Q
<1> QED
  BY <1>1, <1>2, <1>3

LEMMA InjectedIsSmaller ==
    ASSUME NEW S, NEW T, NEW e, IsFiniteSet(T), \A x \in S : e[x] \in T,
           \A x, y \in S : x # y => e[x] # e[y]
    PROVE  IsFiniteSet(S) /\ Cardinality(S) <= Cardinality(T)
<1>1. [x \in S |-> e[x]] \in Injection(S, T)
  BY DEF Injection, IsInjective
<1> QED
  BY <1>1, FS_Injection

LEMMA InjectedCovers ==
    ASSUME NEW S, NEW T, NEW e, IsFiniteSet(S), IsFiniteSet(T), Cardinality(S) = Cardinality(T),
           \A x \in S : e[x] \in T, \A x, y \in S : x # y => e[x] # e[y]
    PROVE  \A y \in T : \E x \in S : e[x] = y
<1> DEFINE f == [x \in S |-> e[x]]
<1>1. f \in Injection(S, T)
  BY DEF Injection, IsInjective
<1>2. f \in Surjection(S, T)
  <2> HIDE DEF f
  <2> QED
    BY <1>1, FS_Injection
<1> QED
  BY <1>2 DEF Surjection

\* How many members of R there are up to p, and the member with i up to it.
Rank(R, p) == Cardinality({q \in R : q <= p})

Member(R, i) == CHOOSE p \in R : Rank(R, p) = i

LEMMA RankGrows ==
    ASSUME NEW R, R \subseteq Nat, IsFiniteSet(R)
    PROVE  /\ Cardinality(R) \in Nat
           /\ \A p \in R : Rank(R, p) \in 1 .. Cardinality(R)
           /\ \A p, q \in R : p < q => Rank(R, p) < Rank(R, q)
<1>1. ASSUME NEW p \in R
      PROVE  Rank(R, p) \in 1 .. Cardinality(R)
  <2> DEFINE low == {q \in R : q <= p}
  <2>1. low \in SUBSET R /\ p \in low
    OBVIOUS
  <2> HIDE DEF low
  <2>2. /\ IsFiniteSet(low) /\ Cardinality(low) \in Nat /\ Cardinality(low) # 0
        /\ Cardinality(low) <= Cardinality(R) /\ Cardinality(R) \in Nat
    BY <2>1, Smaller, FS_Subset, FS_CardinalityType
  <2> QED
    BY <2>2 DEF Rank, low
<1>2. ASSUME NEW p \in R, NEW q \in R, p < q
      PROVE  Rank(R, p) < Rank(R, q)
  <2> DEFINE low == {r \in R : r <= p}
             high == {r \in R : r <= q}
  <2>1. low \in SUBSET (high \ {q}) /\ high \in SUBSET R /\ q \in high
    <3>1. \A r \in R : r \in Nat /\ (r <= p => r <= q /\ r # q)
      BY <1>2
    <3>2. q \in R /\ q <= q
      BY <1>2
    <3> QED
      BY <3>1, <3>2
  <2> HIDE DEF low, high
  <2>2. /\ IsFiniteSet(high) /\ IsFiniteSet(high \ {q})
        /\ Cardinality(high \ {q}) = Cardinality(high) - 1
        /\ Cardinality(high) \in Nat
    BY <2>1, Smaller
  <2>3. Cardinality(low) <= Cardinality(high \ {q}) /\ Cardinality(low) \in Nat
    BY <2>1, <2>2, FS_Subset, FS_CardinalityType
  <2>4. Cardinality(low) < Cardinality(high)
    BY <2>2, <2>3
  <2> QED
    BY <2>4 DEF Rank, low, high
<1>3. Cardinality(R) \in Nat
  BY FS_CardinalityType
<1> QED
  BY <1>1, <1>2, <1>3

\* Each number up to the size of R is the rank of one of its members.
LEMMA RankFacts ==
    ASSUME NEW R, R \subseteq Nat, IsFiniteSet(R)
    PROVE  /\ Cardinality(R) \in Nat
           /\ \A p \in R : Rank(R, p) \in 1 .. Cardinality(R) /\ Member(R, Rank(R, p)) = p
           /\ \A p, q \in R : p < q => Rank(R, p) < Rank(R, q)
           /\ \A i \in 1 .. Cardinality(R) : Member(R, i) \in R /\ Rank(R, Member(R, i)) = i
           /\ \A i, j \in 1 .. Cardinality(R) : i < j => Member(R, i) < Member(R, j)
<1> DEFINE n == Cardinality(R)
           f == [p \in R |-> Rank(R, p)]
<1>1. /\ n \in Nat /\ \A p \in R : Rank(R, p) \in 1 .. n
      /\ \A p, q \in R : p < q => Rank(R, p) < Rank(R, q)
  BY RankGrows
<1>2. \A p, q \in R : p # q => Rank(R, p) # Rank(R, q)
  <2> TAKE p, q \in R
  <2>1. /\ p \in Nat /\ q \in Nat /\ Rank(R, p) \in Nat /\ Rank(R, q) \in Nat
        /\ p < q => Rank(R, p) < Rank(R, q)
        /\ q < p => Rank(R, q) < Rank(R, p)
    BY <1>1
  <2> QED
    BY <2>1
<1>3. ASSUME NEW i \in 1 .. n
      PROVE  \E p \in R : Rank(R, p) = i
  <2> SUFFICES ASSUME \A p \in R : Rank(R, p) # i PROVE FALSE
    OBVIOUS
  <2> DEFINE others == (1 .. n) \ {i}
  <2>1. IsFiniteSet(others) /\ Cardinality(others) = n - 1
    <3>1. IsFiniteSet(1 .. n) /\ Cardinality(1 .. n) = n
      BY <1>1, CountTo
    <3> QED
      BY <3>1, Smaller
  <2>2. /\ \A p \in R : f[p] \in others
        /\ \A p, q \in R : p # q => f[p] # f[q]
    BY <1>1, <1>2
  <2> HIDE DEF others, f
  <2>3. Cardinality(R) <= Cardinality(others)
    BY <2>1, <2>2, InjectedIsSmaller
  <2> QED
    BY <1>1, <2>1, <2>3
<1>4. \A i \in 1 .. n : Member(R, i) \in R /\ Rank(R, Member(R, i)) = i
  BY <1>3 DEF Member
<1>5. \A p \in R : Member(R, Rank(R, p)) = p
  BY <1>1, <1>2, <1>4
<1>6. \A i, j \in 1 .. n : i < j => Member(R, i) < Member(R, j)
  <2> TAKE i, j \in 1 .. n
  <2>1. /\ Member(R, i) \in Nat /\ Member(R, j) \in Nat
        /\ Rank(R, Member(R, i)) = i /\ Rank(R, Member(R, j)) = j
        /\ Member(R, j) < Member(R, i) => j < i
    BY <1>1, <1>4
  <2> QED
    BY <2>1
<1> QED
  BY <1>1, <1>4, <1>5, <1>6

(***************************************************************************)
(* The recursive function inside the sum                                   *)
(***************************************************************************)
\* The element the fold takes first.
AnyOf(s) == CHOOSE x \in s : TRUE

\* g is a table of sums of f on the sets in D.
IsTable(g, f, D) ==
    g = [s \in D |-> IF s = {} THEN 0 ELSE f[AnyOf(s)] + g[s \ {AnyOf(s)}]]

Table(f, S) == CHOOSE g : IsTable(g, f, SUBSET S)

UpTo(S, n) == {s \in SUBSET S : Cardinality(s) <= n}

LEMMA SumIsTable ==
    ASSUME NEW f, NEW S
    PROVE  SumFunctionOnSet(f, S) = Table(f, S)[S]
  BY DEF SumFunctionOnSet, FoldFunctionOnSet, MapThenFoldSet, Table, IsTable, AnyOf

LEMMA AnyOfIn ==
    ASSUME NEW s, s # {}
    PROVE  AnyOf(s) \in s
  BY DEF AnyOf

\* A table for the small subsets can be extended to those one larger.
LEMMA TableGrows ==
    ASSUME NEW f, NEW S, IsFiniteSet(S), NEW n \in Nat,
           NEW g, IsTable(g, f, UpTo(S, n))
    PROVE  \E h : IsTable(h, f, UpTo(S, n + 1))
<1> DEFINE h == [s \in UpTo(S, n + 1) |->
                   IF s = {} THEN 0 ELSE f[AnyOf(s)] + g[s \ {AnyOf(s)}]]
<1>1. \A s \in UpTo(S, n) : g[s] = h[s]
  <2>1. \A s \in UpTo(S, n) : s \in UpTo(S, n + 1)
    BY Smaller DEF UpTo
  <2> QED
    BY <2>1 DEF IsTable
<1>2. \A s \in UpTo(S, n + 1) : s # {} => s \ {AnyOf(s)} \in UpTo(S, n)
  BY Smaller, AnyOfIn DEF UpTo
<1>3. \A s \in UpTo(S, n + 1) :
         s # {} => g[s \ {AnyOf(s)}] = h[s \ {AnyOf(s)}]
  BY <1>1, <1>2
<1>4. h = [s \in UpTo(S, n + 1) |->
             IF s = {} THEN 0 ELSE f[AnyOf(s)] + h[s \ {AnyOf(s)}]]
  <2> HIDE DEF h
  <2>1. h = [s \in UpTo(S, n + 1) |->
               IF s = {} THEN 0 ELSE f[AnyOf(s)] + g[s \ {AnyOf(s)}]]
    BY DEF h
  <2> QED
    BY <1>3, <2>1
<1> QED
  BY <1>4 DEF IsTable

LEMMA TableExists ==
    ASSUME NEW f, NEW S, IsFiniteSet(S)
    PROVE  IsTable(Table(f, S), f, SUBSET S)
<1> DEFINE bad == {n \in Nat : ~ \E g : IsTable(g, f, UpTo(S, n))}
<1>1. bad = {}
  <2> SUFFICES ASSUME bad # {} PROVE FALSE
    OBVIOUS
  <2>1. PICK m \in bad : \A n \in bad : m <= n
    BY LeastNatural
  <2>2. CASE m = 0
    <3>1. UpTo(S, 0) = {{}}
      BY FS_EmptySet, Smaller DEF UpTo
    <3>2. IsTable([s \in UpTo(S, 0) |-> 0], f, UpTo(S, 0))
      BY <3>1 DEF IsTable
    <3> QED
      BY <2>1, <2>2, <3>2
  <2>3. CASE m # 0
    <3>1. m - 1 \in Nat /\ m - 1 \notin bad /\ (m - 1) + 1 = m
      BY <2>1, <2>3
    <3>2. PICK g : IsTable(g, f, UpTo(S, m - 1))
      BY <3>1
    <3>3. \E h : IsTable(h, f, UpTo(S, (m - 1) + 1))
      BY <3>1, <3>2, TableGrows
    <3> QED
      BY <2>1, <3>1, <3>3
  <2> QED
    BY <2>2, <2>3
<1>2. UpTo(S, Cardinality(S)) = SUBSET S
  BY FS_Subset, FS_CardinalityType DEF UpTo
<1>3. \A n \in Nat : \E g : IsTable(g, f, UpTo(S, n))
  BY <1>1
<1>4. \E g : IsTable(g, f, SUBSET S)
  <2>1. Cardinality(S) \in Nat
    BY FS_CardinalityType
  <2>2. \E g : IsTable(g, f, UpTo(S, Cardinality(S)))
    BY <1>3, <2>1
  <2> QED
    BY <1>2, <2>2
<1> QED
  BY <1>4 DEF Table

\* Tables agree on the sets they share, whatever larger sets they are about.
LEMMA TablesAgree ==
    ASSUME NEW f, NEW g, NEW h, NEW S, NEW T,
           IsFiniteSet(S), T \in SUBSET S,
           IsTable(g, f, SUBSET S), IsTable(h, f, SUBSET T)
    PROVE  \A s \in SUBSET T : g[s] = h[s]
<1> DEFINE bad == {s \in SUBSET T : g[s] # h[s]}
<1> SUFFICES ASSUME bad # {} PROVE FALSE
  OBVIOUS
<1>1. \A s \in bad : IsFiniteSet(s)
  BY FS_Subset
<1>2. PICK s \in bad : \A t \in bad : Cardinality(s) <= Cardinality(t)
  BY <1>1, SmallestMember
<1>3. s \in SUBSET T /\ s \in SUBSET S /\ g[s] # h[s]
  BY <1>2
<1>4. g[s] = IF s = {} THEN 0 ELSE f[AnyOf(s)] + g[s \ {AnyOf(s)}]
  BY <1>3 DEF IsTable
<1>5. h[s] = IF s = {} THEN 0 ELSE f[AnyOf(s)] + h[s \ {AnyOf(s)}]
  BY <1>3 DEF IsTable
<1>6. s # {} /\ AnyOf(s) \in s
  BY <1>3, <1>4, <1>5, AnyOfIn
<1>7. s \ {AnyOf(s)} \in SUBSET T /\ s \ {AnyOf(s)} \notin bad
  BY <1>2, <1>3, <1>6, Smaller
<1> QED
  BY <1>3, <1>4, <1>5, <1>7

(***************************************************************************)
(* Sums                                                                    *)
(***************************************************************************)
LEMMA SumEmpty ==
    ASSUME NEW f
    PROVE  SumFunctionOnSet(f, {}) = 0
<1>1. IsTable(Table(f, {}), f, SUBSET {})
  BY FS_EmptySet, TableExists
<1> QED
  BY <1>1, SumIsTable DEF IsTable

\* The sum takes its indices in some order.
LEMMA SumFirst ==
    ASSUME NEW f, NEW S, IsFiniteSet(S), S # {}
    PROVE  SumFunctionOnSet(f, S) = f[AnyOf(S)] + SumFunctionOnSet(f, S \ {AnyOf(S)})
<1> DEFINE T == S \ {AnyOf(S)}
<1>1. IsFiniteSet(T) /\ T \in SUBSET S
  BY FS_Subset
<1>2. IsTable(Table(f, S), f, SUBSET S) /\ IsTable(Table(f, T), f, SUBSET T)
  BY <1>1, TableExists
<1>3. Table(f, S)[S] = f[AnyOf(S)] + Table(f, S)[T]
  BY <1>2 DEF IsTable
<1> HIDE DEF T
<1>4. T \in SUBSET T
  OBVIOUS
<1>5. ASSUME NEW g, IsTable(g, f, SUBSET S), NEW h, IsTable(h, f, SUBSET T)
      PROVE  g[T] = h[T]
  <2>1. \A s \in SUBSET T : g[s] = h[s]
    BY <1>1, <1>5, TablesAgree
  <2> QED
    BY <1>4, <2>1
<1>6. Table(f, S)[T] = Table(f, T)[T]
  BY <1>2, <1>5
<1>7. SumFunctionOnSet(f, S) = f[AnyOf(S)] + SumFunctionOnSet(f, T)
  BY <1>3, <1>6, SumIsTable
<1> QED
  BY <1>7 DEF T

\* A sum of natural numbers is one.
LEMMA SumNat ==
    ASSUME NEW f, NEW S, IsFiniteSet(S), \A x \in S : f[x] \in Nat
    PROVE  SumFunctionOnSet(f, S) \in Nat
<1> DEFINE bad == {s \in SUBSET S : SumFunctionOnSet(f, s) \notin Nat}
<1> SUFFICES ASSUME bad # {} PROVE FALSE
  OBVIOUS
<1>1. PICK s \in bad : \A t \in bad : Cardinality(s) <= Cardinality(t)
  BY Smaller, SmallestMember
<1>2. s \in SUBSET S /\ IsFiniteSet(s) /\ SumFunctionOnSet(f, s) \notin Nat
  BY <1>1, Smaller
<1>3. s # {}
  BY <1>2, SumEmpty
<1>4. AnyOf(s) \in s /\ f[AnyOf(s)] \in Nat
  BY <1>2, <1>3, AnyOfIn
<1>5. s \ {AnyOf(s)} \in SUBSET S /\ s \ {AnyOf(s)} \notin bad
  BY <1>1, <1>2, <1>4, Smaller
<1>6. SumFunctionOnSet(f, s \ {AnyOf(s)}) \in Nat
  BY <1>5
<1> QED
  BY <1>2, <1>3, <1>4, <1>6, SumFirst

\* Functions with the same values have the same sum.
LEMMA SumSame ==
    ASSUME NEW f, NEW g, NEW S, IsFiniteSet(S), \A x \in S : f[x] = g[x]
    PROVE  SumFunctionOnSet(f, S) = SumFunctionOnSet(g, S)
<1> DEFINE bad == {s \in SUBSET S : SumFunctionOnSet(f, s) # SumFunctionOnSet(g, s)}
<1> SUFFICES ASSUME bad # {} PROVE FALSE
  OBVIOUS
<1>1. PICK s \in bad : \A t \in bad : Cardinality(s) <= Cardinality(t)
  BY Smaller, SmallestMember
<1>2. /\ s \in SUBSET S /\ IsFiniteSet(s)
      /\ SumFunctionOnSet(f, s) # SumFunctionOnSet(g, s)
  BY <1>1, Smaller
<1>3. s # {}
  BY <1>2, SumEmpty
<1>4. AnyOf(s) \in s /\ f[AnyOf(s)] = g[AnyOf(s)]
  BY <1>2, <1>3, AnyOfIn
<1>5. s \ {AnyOf(s)} \in SUBSET S /\ s \ {AnyOf(s)} \notin bad
  BY <1>1, <1>2, <1>4, Smaller
<1>6. SumFunctionOnSet(f, s \ {AnyOf(s)}) = SumFunctionOnSet(g, s \ {AnyOf(s)})
  BY <1>5
<1> QED
  BY <1>2, <1>3, <1>4, <1>6, SumFirst

\* Any index may be taken first.
LEMMA SumAny ==
    ASSUME NEW f, NEW S, IsFiniteSet(S), \A x \in S : f[x] \in Nat, NEW e \in S
    PROVE  SumFunctionOnSet(f, S) = f[e] + SumFunctionOnSet(f, S \ {e})
<1> DEFINE Sum(s) == SumFunctionOnSet(f, s)
           bad == {s \in SUBSET S : \E x \in s : Sum(s) # f[x] + Sum(s \ {x})}
<1>1. \A s \in SUBSET S : IsFiniteSet(s) /\ Sum(s) \in Nat
  BY Smaller, SumNat
<1>2. \A s \in SUBSET S : s # {} => Sum(s) = f[AnyOf(s)] + Sum(s \ {AnyOf(s)})
  BY <1>1, SumFirst
<1> HIDE DEF Sum
<1> SUFFICES ASSUME bad # {} PROVE FALSE
  BY DEF Sum
<1>3. PICK s \in bad : \A t \in bad : Cardinality(s) <= Cardinality(t)
  BY <1>1, SmallestMember
<1>4. PICK x \in s : Sum(s) # f[x] + Sum(s \ {x})
  BY <1>3
<1> DEFINE p == AnyOf(s)
<1>5. s \in SUBSET S /\ p \in s /\ x \in S /\ p \in S
  BY <1>3, <1>4, AnyOfIn
<1>6. \A y \in s : s \ {y} \notin bad
  <2>1. \A y \in s : /\ Cardinality(s \ {y}) = Cardinality(s) - 1
                     /\ Cardinality(s) \in Nat
    BY <1>5, Smaller
  <2> QED
    BY <1>3, <2>1, SMTT(30)
<1>7. Sum(s) = f[p] + Sum(s \ {p})
  BY <1>2, <1>5
<1> HIDE DEF p
<1>8. x # p
  BY <1>4, <1>7
<1>9. Sum(s \ {p}) = f[x] + Sum((s \ {p}) \ {x})
  BY <1>4, <1>5, <1>6, <1>8
<1>10. Sum(s \ {x}) = f[p] + Sum((s \ {x}) \ {p})
  BY <1>4, <1>5, <1>6, <1>8
<1>11. (s \ {p}) \ {x} = (s \ {x}) \ {p}
  OBVIOUS
<1>12. Sum((s \ {x}) \ {p}) \in Nat /\ f[x] \in Nat /\ f[p] \in Nat
  BY <1>1, <1>5
<1> QED
  BY <1>4, <1>7, <1>9, <1>10, <1>11, <1>12

\* Leaving indices out does not make a sum larger, and makes it smaller when
\* one of them counts.
LEMMA SumSubset ==
    ASSUME NEW f, NEW S, IsFiniteSet(S), \A x \in S : f[x] \in Nat,
           NEW R \in SUBSET S
    PROVE  /\ SumFunctionOnSet(f, R) <= SumFunctionOnSet(f, S)
           /\ \A x \in S \ R :
                 f[x] > 0 => SumFunctionOnSet(f, R) < SumFunctionOnSet(f, S)
<1> DEFINE Sum(s) == SumFunctionOnSet(f, s)
           bad == {s \in SUBSET S : R \subseteq s /\ ~ Sum(R) <= Sum(s)}
<1>1. \A s \in SUBSET S : IsFiniteSet(s) /\ Sum(s) \in Nat
  BY Smaller, SumNat
<1>2. \A s \in SUBSET S : \A x \in s : Sum(s) = f[x] + Sum(s \ {x})
  BY <1>1, SumAny, ZenonT(40)
<1> HIDE DEF Sum
<1>3. bad = {}
  <2> SUFFICES ASSUME bad # {} PROVE FALSE
    OBVIOUS
  <2>1. PICK s \in bad : \A t \in bad : Cardinality(s) <= Cardinality(t)
    BY <1>1, SmallestMember
  <2>2. s \in SUBSET S /\ R \subseteq s /\ ~ Sum(R) <= Sum(s)
    BY <2>1
  <2>3. s # R
    BY <1>1, <2>2
  <2>4. PICK x \in s : x \notin R
    BY <2>2, <2>3
  <2>5. s \ {x} \notin bad /\ R \subseteq s \ {x} /\ s \ {x} \in SUBSET S
    BY <2>1, <2>2, <2>4, Smaller
  <2>6. Sum(R) <= Sum(s \ {x})
    BY <2>5
  <2>7. Sum(s) = f[x] + Sum(s \ {x}) /\ f[x] \in Nat
    BY <1>2, <2>2, <2>4
  <2>8. Sum(R) \in Nat /\ Sum(s) \in Nat /\ Sum(s \ {x}) \in Nat
    BY <1>1, <2>2, <2>5
  <2> QED
    BY <2>2, <2>6, <2>7, <2>8
<1>4. \A s \in SUBSET S : R \subseteq s => Sum(R) <= Sum(s)
  BY <1>3
<1>5. ASSUME NEW x \in S \ R, f[x] > 0 PROVE Sum(R) < Sum(S)
  <2>1. Sum(R) <= Sum(S \ {x})
    BY <1>4
  <2>2. Sum(S) = f[x] + Sum(S \ {x}) /\ f[x] \in Nat
    BY <1>2
  <2>3. Sum(R) \in Nat /\ Sum(S) \in Nat /\ Sum(S \ {x}) \in Nat
    BY <1>1
  <2> QED
    BY <1>5, <2>1, <2>2, <2>3
<1> QED
  BY <1>4, <1>5 DEF Sum

\* A sum is the same over the indices another, injective, function stands for.
LEMMA SumImage ==
    ASSUME NEW f, NEW g, NEW e, NEW S, NEW T, IsFiniteSet(S),
           \A x \in S : e[x] \in T, \A y \in T : \E x \in S : e[x] = y,
           \A x, y \in S : x # y => e[x] # e[y],
           \A x \in S : f[x] \in Nat /\ f[x] = g[e[x]]
    PROVE  SumFunctionOnSet(f, S) = SumFunctionOnSet(g, T)
<1> DEFINE To(s) == {e[x] : x \in s}
           bad == {s \in SUBSET S :
                     SumFunctionOnSet(f, s) # SumFunctionOnSet(g, To(s))}
<1>0. T = To(S)
  OBVIOUS
<1> SUFFICES ASSUME bad # {} PROVE FALSE
  BY <1>0
<1>1. PICK s \in bad : \A t \in bad : Cardinality(s) <= Cardinality(t)
  BY Smaller, SmallestMember
<1>2. /\ s \in SUBSET S /\ IsFiniteSet(s)
      /\ SumFunctionOnSet(f, s) # SumFunctionOnSet(g, To(s))
  BY <1>1, Smaller
<1>3. PICK x \in s : TRUE
  <2>1. To({}) = {}
    OBVIOUS
  <2> QED
    BY <1>2, <2>1, SumEmpty
<1>4. s \ {x} \in SUBSET S /\ s \ {x} \notin bad
  <2>1. /\ Cardinality(s \ {x}) = Cardinality(s) - 1
        /\ Cardinality(s) \in Nat
    BY <1>2, <1>3, Smaller
  <2> HIDE DEF bad
  <2>2. s \ {x} \notin bad
    BY <1>1, <2>1
  <2> QED
    BY <1>2, <2>2
<1>5. SumFunctionOnSet(f, s \ {x}) = SumFunctionOnSet(g, To(s \ {x}))
  BY <1>4
<1>6. To(s) \ {e[x]} = To(s \ {x}) /\ e[x] \in To(s)
  BY <1>2, <1>3
<1>7. IsFiniteSet(To(s)) /\ \A y \in To(s) : g[y] \in Nat
  <2>1. /\ \A y \in s : e[y] \in To(s)
        /\ \A z \in To(s) : \E y \in s : e[y] = z
    OBVIOUS
  <2>2. \A y \in s : g[e[y]] \in Nat
    BY <1>2
  <2> HIDE DEF To
  <2> QED
    BY <1>2, <2>1, <2>2, FiniteImage
<1> HIDE DEF To
<1>8. SumFunctionOnSet(g, To(s)) = g[e[x]] + SumFunctionOnSet(g, To(s) \ {e[x]})
  BY <1>6, <1>7, SumAny
<1>9. SumFunctionOnSet(f, s) = f[x] + SumFunctionOnSet(f, s \ {x})
  BY <1>2, <1>3, SumAny
<1> QED
  BY <1>2, <1>3, <1>5, <1>6, <1>8, <1>9

\* A sum of positive numbers is as large as there are.
LEMMA SumAtLeast ==
    ASSUME NEW f, NEW S, IsFiniteSet(S), \A x \in S : f[x] \in Nat /\ f[x] > 0
    PROVE  Cardinality(S) <= SumFunctionOnSet(f, S)
<1> DEFINE Sum(s) == SumFunctionOnSet(f, s)
           bad == {s \in SUBSET S : ~ Cardinality(s) <= Sum(s)}
<1> SUFFICES ASSUME bad # {} PROVE FALSE
  OBVIOUS
<1>1. \A s \in SUBSET S : IsFiniteSet(s) /\ Sum(s) \in Nat
  BY Smaller, SumNat
<1>2. PICK s \in bad : \A t \in bad : Cardinality(s) <= Cardinality(t)
  BY Smaller, SmallestMember
<1>3. s \in SUBSET S /\ ~ Cardinality(s) <= Sum(s)
  BY <1>2
<1>4. s # {}
  BY <1>3, SumEmpty, FS_EmptySet
<1>5. PICK x \in s : TRUE
  BY <1>4
<1>6. Sum(s) = f[x] + Sum(s \ {x})
  BY <1>1, <1>3, SumAny
<1>7. /\ Cardinality(s) \in Nat /\ Cardinality(s \ {x}) = Cardinality(s) - 1
      /\ s \ {x} \in SUBSET S
  BY <1>3, Smaller
<1>8. s \ {x} \notin bad
  BY <1>2, <1>7
<1>9. Cardinality(s \ {x}) <= Sum(s \ {x})
  BY <1>7, <1>8
<1>10. f[x] \in Nat /\ f[x] > 0 /\ Sum(s \ {x}) \in Nat
  BY <1>1, <1>3, <1>7
<1> HIDE DEF Sum, bad
<1> QED
  BY <1>3, <1>6, <1>7, <1>9, <1>10

\* The members of a set that have a label in s.
PartOf(done, labelOf, s) == {r \in done : labelOf[r] \in s}

\* The members of a set, counted apart by what they are labelled with.
LEMMA SumOfParts ==
    ASSUME NEW done, IsFiniteSet(done), NEW labelOf, NEW vec, NEW S, IsFiniteSet(S),
           \A l \in S : vec[l] = Cardinality(PartOf(done, labelOf, {l}))
    PROVE  SumFunctionOnSet(vec, S) = Cardinality(PartOf(done, labelOf, S))
<1> DEFINE Sum(s) == SumFunctionOnSet(vec, s)
           Part(s) == PartOf(done, labelOf, s)
           bad == {s \in SUBSET S : Sum(s) # Cardinality(Part(s))}
<1> SUFFICES ASSUME bad # {} PROVE FALSE
  OBVIOUS
<1>1. \A s : Part(s) \in SUBSET done /\ IsFiniteSet(Part(s)) /\ Cardinality(Part(s)) \in Nat
  BY Smaller DEF PartOf
<1>2. \A l \in S : vec[l] = Cardinality(Part({l}))
  OBVIOUS
<1>3. \A l \in S : vec[l] \in Nat
  BY <1>1, <1>2
<1>4. PICK s \in bad : \A t \in bad : Cardinality(s) <= Cardinality(t)
  BY Smaller, SmallestMember
<1>5. s \in SUBSET S /\ Sum(s) # Cardinality(Part(s)) /\ IsFiniteSet(s)
  BY <1>4, Smaller
<1>6. s # {}
  <2>1. Part({}) = {}
    BY DEF PartOf
  <2> QED
    BY <1>5, <2>1, SumEmpty, FS_EmptySet
<1>7. PICK x \in s : TRUE
  BY <1>6
<1>8. Sum(s) = vec[x] + Sum(s \ {x})
  BY <1>3, <1>5, SumAny
<1>9. s \ {x} \in SUBSET S /\ s \ {x} \notin bad
  <2>1. /\ Cardinality(s) \in Nat /\ Cardinality(s \ {x}) = Cardinality(s) - 1
        /\ s \ {x} \in SUBSET S
    BY <1>5, <1>7, Smaller
  <2> QED
    BY <1>4, <2>1
<1>10. Sum(s \ {x}) = Cardinality(Part(s \ {x}))
  BY <1>9
<1>11. Part(s) = Part({x}) \cup Part(s \ {x}) /\ Part({x}) \cap Part(s \ {x}) = {}
  BY <1>7 DEF PartOf
<1> HIDE DEF Sum, Part, bad
<1>12. Cardinality(Part(s)) = Cardinality(Part({x})) + Cardinality(Part(s \ {x}))
                               - Cardinality(Part({x}) \cap Part(s \ {x}))
  <2>1. Cardinality(Part({x}) \cup Part(s \ {x}))
          = Cardinality(Part({x})) + Cardinality(Part(s \ {x}))
              - Cardinality(Part({x}) \cap Part(s \ {x}))
    BY <1>1, FS_Union
  <2> QED
    BY <1>11, <2>1
<1>13. Cardinality(Part({x}) \cap Part(s \ {x})) = 0
  BY <1>11, FS_EmptySet
<1>14. vec[x] = Cardinality(Part({x}))
  BY <1>2, <1>5, <1>7
<1> QED
  BY <1>1, <1>5, <1>8, <1>10, <1>12, <1>13, <1>14
=============================================================================
