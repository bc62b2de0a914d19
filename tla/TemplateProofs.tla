--------------------------- MODULE TemplateProofs ---------------------------
(* Theorems about Template, for any templates and any values of the helpers. *)
EXTENDS TemplateMeaning, CountingTheorems, SequenceTheorems

(***************************************************************************)
(* Stacks                                                                  *)
(***************************************************************************)
IsList(s) == \E S : s \in Seq(S)

LEMMA StackFacts ==
    ASSUME NEW s, IsList(s), s # <<>>
    PROVE  /\ Len(s) \in Nat \ {0} /\ DOMAIN s = 1 .. Len(s)
           /\ IsList(Front(s)) /\ Len(Front(s)) = Len(s) - 1
           /\ \A k \in 1 .. Len(s) - 1 : Front(s)[k] = s[k]
<1>1. PICK S : s \in Seq(S)
  BY DEF IsList
<1>2. /\ Len(s) \in Nat \ {0} /\ DOMAIN s = 1 .. Len(s)
      /\ \A k \in 1 .. Len(s) : s[k] \in S
  BY <1>1, EmptySeq, LenProperties, ElementOfSeq
<1>3. /\ Front(s) \in Seq(S) /\ Len(Front(s)) = Len(s) - 1
      /\ \A k \in 1 .. Len(s) - 1 : Front(s)[k] = s[k]
  BY <1>2, SubSeqProperties DEF Front
<1> QED
  BY <1>2, <1>3 DEF IsList

LEMMA Pushed ==
    ASSUME NEW s, IsList(s), NEW e
    PROVE  /\ Len(s) \in Nat /\ IsList(Append(s, e)) /\ Append(s, e) # <<>>
           /\ Len(Append(s, e)) = Len(s) + 1
           /\ DOMAIN Append(s, e) = 1 .. Len(s) + 1
           /\ \A k \in 1 .. Len(s) : Append(s, e)[k] = s[k]
           /\ Append(s, e)[Len(s) + 1] = e
           /\ s \o <<e>> = Append(s, e) /\ s \o <<>> = s
<1>1. PICK S : s \in Seq(S)
  BY DEF IsList
<1>2. s \in Seq(S \cup {e}) /\ e \in S \cup {e}
  BY <1>1, SeqMonotonic
<1>3. s \o <<e>> = Append(s, e) /\ s \o <<>> = s
  BY <1>2, AppendIsConcat, ConcatEmptySeq
<1>4. Append(s, e) \in Seq(S \cup {e})
  BY <1>2, AppendProperties
<1> QED
  BY <1>2, <1>3, <1>4, AppendProperties, LenProperties DEF IsList

(***************************************************************************)
(* The end of a block                                                      *)
(***************************************************************************)
IsTemplate(t) ==
    /\ Len(t) \in Nat /\ DOMAIN t = 1 .. Len(t)
    /\ \A i \in DOMAIN t : t[i].op \in {"text", "eval", "/other"} \cup Opening \cup Closing

LEMMA ActionNames ==
    /\ \A op \in Opening : Closer[op] \in Closing /\ Closer[op] \notin Opening
    /\ \A op \in Closing : op \notin Opening \cup {"text", "eval", "/other"}
    /\ \A op \in Opening : op \notin {"text", "eval", "/other"}
  BY DEF Opening, Closing, Closer

\* The actions of one name behind o, up to p.
Named(t, o, p, op) == {i \in o + 1 .. p : t[i].op = op}

\* blockDepth after the action at p, for the block that opens at o.
DepthOf(t, o, p) ==
    1 + Cardinality(Named(t, o, p, t[o].op)) - Cardinality(Named(t, o, p, Closer[t[o].op]))

\* A block opens at o and ends before or at to.
IsBlock(t, o, to) ==
    /\ o \in 1 .. to /\ t[o].op \in Opening
    /\ \E p \in o + 1 .. to : DepthOf(t, o, p) = 0

EndOf(t, o) == Min({p \in o + 1 .. Len(t) : DepthOf(t, o, p) = 0})

LEMMA NamedNone ==
    ASSUME NEW t, NEW o \in Nat, NEW op
    PROVE  Cardinality(Named(t, o, o, op)) = 0
<1>1. Named(t, o, o, op) = {}
  BY DEF Named
<1> QED
  BY <1>1, FS_EmptySet

LEMMA NamedGrows ==
    ASSUME NEW t, NEW o \in Nat, NEW p \in Nat, o < p, NEW op
    PROVE  /\ Cardinality(Named(t, o, p - 1, op)) \in Nat
           /\ t[p].op = op =>
                 Cardinality(Named(t, o, p, op)) = Cardinality(Named(t, o, p - 1, op)) + 1
           /\ t[p].op # op =>
                 Cardinality(Named(t, o, p, op)) = Cardinality(Named(t, o, p - 1, op))
<1> DEFINE before == Named(t, o, p - 1, op)
<1>1. IsFiniteSet(o + 1 .. p - 1) /\ before \in SUBSET (o + 1 .. p - 1)
  BY FS_Interval DEF Named
<1>2. IsFiniteSet(before) /\ Cardinality(before) \in Nat
  BY <1>1, FS_Subset, FS_CardinalityType
<1>3. p \notin before
  BY DEF Named
<1>4. CASE t[p].op = op
  <2>1. Named(t, o, p, op) = before \cup {p}
    BY <1>4 DEF Named
  <2>2. Cardinality(before \cup {p}) = Cardinality(before) + 1
    BY <1>2, <1>3, FS_AddElement
  <2> QED
    BY <1>2, <1>4, <2>1, <2>2
<1>5. CASE t[p].op # op
  <2>1. Named(t, o, p, op) = before
    BY <1>5 DEF Named
  <2> QED
    BY <1>2, <1>5, <2>1
<1> QED
  BY <1>2, <1>4, <1>5

\* The depth starts at one and changes by one; only a closing action of the
\* name makes it less.
LEMMA DepthSteps ==
    ASSUME NEW t, NEW o \in Nat, t[o].op \in Opening
    PROVE  /\ DepthOf(t, o, o) = 1
           /\ \A p \in Nat : o < p =>
                 /\ DepthOf(t, o, p - 1) \in Int /\ DepthOf(t, o, p) \in Int
                 /\ DepthOf(t, o, p) >= DepthOf(t, o, p - 1) - 1
                 /\ t[p].op # Closer[t[o].op] => DepthOf(t, o, p) >= DepthOf(t, o, p - 1)
<1>1. DepthOf(t, o, o) = 1
  BY NamedNone DEF DepthOf
<1>2. ASSUME NEW p \in Nat, o < p
      PROVE  /\ DepthOf(t, o, p - 1) \in Int /\ DepthOf(t, o, p) \in Int
             /\ DepthOf(t, o, p) >= DepthOf(t, o, p - 1) - 1
             /\ t[p].op # Closer[t[o].op] => DepthOf(t, o, p) >= DepthOf(t, o, p - 1)
  <2> DEFINE a == Cardinality(Named(t, o, p - 1, t[o].op))
             b == Cardinality(Named(t, o, p - 1, Closer[t[o].op]))
             c == IF t[p].op = t[o].op THEN 1 ELSE 0
             d == IF t[p].op = Closer[t[o].op] THEN 1 ELSE 0
  <2>1. /\ a \in Nat /\ b \in Nat /\ c \in {0, 1} /\ d \in {0, 1}
        /\ t[p].op # Closer[t[o].op] => d = 0
        /\ Cardinality(Named(t, o, p, t[o].op)) = a + c
        /\ Cardinality(Named(t, o, p, Closer[t[o].op])) = b + d
    <3>1. /\ a \in Nat
          /\ t[p].op = t[o].op => Cardinality(Named(t, o, p, t[o].op)) = a + 1
          /\ t[p].op # t[o].op => Cardinality(Named(t, o, p, t[o].op)) = a
      BY <1>2, NamedGrows
    <3>2. /\ b \in Nat
          /\ t[p].op = Closer[t[o].op] => Cardinality(Named(t, o, p, Closer[t[o].op])) = b + 1
          /\ t[p].op # Closer[t[o].op] => Cardinality(Named(t, o, p, Closer[t[o].op])) = b
      BY <1>2, NamedGrows
    <3> HIDE DEF a, b
    <3> QED
      BY <3>1, <3>2
  <2>2. DepthOf(t, o, p - 1) = 1 + a - b
    BY DEF DepthOf
  <2> HIDE DEF a, b, c, d
  <2>3. DepthOf(t, o, p) = 1 + (a + c) - (b + d)
    BY <2>1 DEF DepthOf
  <2> QED
    BY <2>1, <2>2, <2>3
<1> QED
  BY <1>1, <1>2

\* findBlock finds the same end in every part that holds it, and it is a
\* closing action of the name.
LEMMA EndFacts ==
    ASSUME NEW t, IsTemplate(t), NEW to \in Nat, to <= Len(t), NEW o, IsBlock(t, o, to)
    PROVE  /\ EndOf(t, o) \in o + 1 .. to
           /\ EndOf(t, o) = Min({p \in o + 1 .. to : DepthOf(t, o, p) = 0})
           /\ t[EndOf(t, o)].op = Closer[t[o].op]
<1>0. o \in Nat /\ t[o].op \in Opening /\ Len(t) \in Nat
  BY DEF IsBlock, IsTemplate
<1>d. /\ DepthOf(t, o, o) = 1
      /\ \A p \in Nat : o < p =>
            /\ DepthOf(t, o, p - 1) \in Int /\ DepthOf(t, o, p) \in Int
            /\ DepthOf(t, o, p) >= DepthOf(t, o, p - 1) - 1
            /\ t[p].op # Closer[t[o].op] => DepthOf(t, o, p) >= DepthOf(t, o, p - 1)
  BY <1>0, DepthSteps
<1> DEFINE all == {p \in o + 1 .. Len(t) : DepthOf(t, o, p) = 0}
           part == {p \in o + 1 .. to : DepthOf(t, o, p) = 0}
           e == Min(all)
<1>1. PICK q \in o + 1 .. to : DepthOf(t, o, q) = 0
  BY DEF IsBlock
<1>2. /\ all \subseteq Nat /\ all # {} /\ part \subseteq Nat /\ part # {}
      /\ part \subseteq all /\ q \in all
  BY <1>0, <1>1
<1>3. /\ Min(all) \in all /\ \A p \in all : Min(all) <= p
      /\ Min(part) \in part /\ \A p \in part : Min(part) <= p
  <2> HIDE DEF all, part
  <2> QED
    BY <1>2, MinIsLeast
<1>4. e \in part
  <2> HIDE DEF e
  <2>1. e \in all /\ e <= q
    BY <1>2, <1>3 DEF e
  <2> QED
    BY <1>0, <1>1, <2>1
<1>5. e = Min(part)
  <2>1. e <= Min(part) /\ Min(part) <= e
    BY <1>2, <1>3, <1>4
  <2>2. e \in Nat /\ Min(part) \in Nat
    BY <1>2, <1>3
  <2> HIDE DEF e, part
  <2> QED
    BY <2>1, <2>2
<1>6. EndOf(t, o) = e
  BY DEF EndOf
<1>7. /\ e \in Nat /\ o < e /\ e <= to /\ DepthOf(t, o, e) = 0
      /\ \A p \in o + 1 .. to : DepthOf(t, o, p) = 0 => e <= p
  BY <1>0, <1>3, <1>4, <1>5
<1> HIDE DEF e, all, part
<1> DEFINE low == {p \in o + 1 .. e - 1 : DepthOf(t, o, p) <= 0}
\* Up to the end the depth is positive: it would have to pass zero.
<1>8. low = {}
  <2> SUFFICES ASSUME low # {} PROVE FALSE
    OBVIOUS
  <2>1. low \subseteq Nat
    BY <1>0
  <2>2. PICK m \in low : \A n \in low : m <= n
    <3> HIDE DEF low
    <3> QED
      BY <2>1, LeastNatural
  <2>3. m \in Nat /\ o < m /\ m < e /\ DepthOf(t, o, m) <= 0
    BY <1>0, <1>7, <2>2
  <2>4. DepthOf(t, o, m - 1) >= 1
    <3>1. CASE m - 1 = o
      BY <1>0, <3>1, <1>d
    <3>2. CASE m - 1 # o
      <4>1. m - 1 \in o + 1 .. e - 1 /\ m - 1 \notin low
        BY <1>0, <1>7, <2>2, <2>3, <3>2
      <4>2. DepthOf(t, o, m - 1) \in Int
        BY <1>0, <2>3, <1>d
      <4> QED
        BY <4>1, <4>2
    <3> QED
      BY <3>1, <3>2
  <2>5. DepthOf(t, o, m) = 0
    <3>1. /\ DepthOf(t, o, m - 1) \in Int /\ DepthOf(t, o, m) \in Int
          /\ DepthOf(t, o, m) >= DepthOf(t, o, m - 1) - 1
      BY <2>3, <1>d
    <3> QED
      BY <2>3, <2>4, <3>1
  <2> QED
    BY <1>0, <1>7, <2>3, <2>5
<1>9. DepthOf(t, o, e - 1) >= 1
  <2>1. CASE e - 1 = o
    BY <1>0, <2>1, <1>d
  <2>2. CASE e - 1 # o
    <3>1. e - 1 \in o + 1 .. e - 1 /\ e - 1 \notin low
      BY <1>0, <1>7, <1>8, <2>2
    <3>2. DepthOf(t, o, e - 1) \in Int
      BY <1>0, <1>7, <1>d
    <3> QED
      BY <3>1, <3>2
  <2> QED
    BY <2>1, <2>2
<1>10. t[e].op = Closer[t[o].op]
  BY <1>0, <1>7, <1>9, <1>d
<1> QED
  BY <1>0, <1>5, <1>6, <1>7, <1>10 DEF part

(***************************************************************************)
(* Walks and parts.  A part of the template is walked from one action to   *)
(* the next, over each block.  Those that may be rendered are the whole    *)
(* template and the bodies of the blocks on the walk of such a part.       *)
(***************************************************************************)
After(t, i) == IF t[i].op \in Opening THEN EndOf(t, i) + 1 ELSE i + 1

CanPass(t, i, to) == i \in 1 .. to /\ (t[i].op \in Opening => IsBlock(t, i, to))

HoldsWalk(t, from, to, S) ==
    from \in S /\ \A i \in S : CanPass(t, i, to) => After(t, i) \in S

Walk(t, from, to) == {i \in Nat : \A S \in SUBSET Nat : HoldsWalk(t, from, to, S) => i \in S}

LEMMA AfterFacts ==
    ASSUME NEW t, IsTemplate(t), NEW to \in Nat, to <= Len(t), NEW i, CanPass(t, i, to)
    PROVE  /\ i \in Nat /\ i >= 1 /\ i <= to
           /\ After(t, i) \in Nat /\ i < After(t, i) /\ After(t, i) <= to + 1
           /\ t[i].op \in Opening => After(t, i) = EndOf(t, i) + 1
<1>1. CASE t[i].op \in Opening
  <2>1. i \in 1 .. to /\ After(t, i) = EndOf(t, i) + 1
    BY <1>1 DEF CanPass, After
  <2>2. EndOf(t, i) \in i + 1 .. to
    BY <1>1, EndFacts DEF CanPass
  <2> QED
    BY <2>1, <2>2
<1>2. CASE t[i].op \notin Opening
  BY <1>2 DEF CanPass, After
<1> QED
  BY <1>1, <1>2

LEMMA BlockPasses ==
    ASSUME NEW t, NEW o, NEW to, IsBlock(t, o, to)
    PROVE  CanPass(t, o, to) /\ t[o].op \in Opening
  BY DEF IsBlock, CanPass

\* A set that holds the walk from its start on holds all of it.
LEMMA WalkWithin ==
    ASSUME NEW t, NEW from, NEW to, NEW S \in SUBSET Nat, HoldsWalk(t, from, to, S)
    PROVE  Walk(t, from, to) \subseteq S
  BY DEF Walk

LEMMA WalkGoesOn ==
    ASSUME NEW t, IsTemplate(t), NEW from \in Nat, NEW to \in Nat, to <= Len(t)
    PROVE  Walk(t, from, to) \subseteq Nat /\ HoldsWalk(t, from, to, Walk(t, from, to))
<1>1. from \in Walk(t, from, to)
  BY DEF Walk, HoldsWalk
<1>2. ASSUME NEW i \in Walk(t, from, to), CanPass(t, i, to)
      PROVE  After(t, i) \in Walk(t, from, to)
  <2>1. After(t, i) \in Nat
    BY <1>2, AfterFacts
  <2>2. ASSUME NEW S \in SUBSET Nat, HoldsWalk(t, from, to, S)
        PROVE  After(t, i) \in S
    <3>1. i \in S
      BY <2>2 DEF Walk
    <3> QED
      BY <1>2, <2>2, <3>1 DEF HoldsWalk
  <2> QED
    BY <2>1, <2>2 DEF Walk
<1>3. Walk(t, from, to) \subseteq Nat
  BY DEF Walk
<1> QED
  BY <1>1, <1>2, <1>3 DEF HoldsWalk

LEMMA WalkRange ==
    ASSUME NEW t, IsTemplate(t), NEW from \in Nat, NEW to \in Nat, to <= Len(t), from <= to + 1
    PROVE  Walk(t, from, to) \subseteq from .. to + 1
<1> DEFINE S == from .. to + 1
<1>1. S \in SUBSET Nat /\ from \in S
  OBVIOUS
<1>2. ASSUME NEW i \in S, CanPass(t, i, to)
      PROVE  After(t, i) \in S
  BY <1>2, AfterFacts
<1> HIDE DEF S
<1>3. HoldsWalk(t, from, to, S)
  BY <1>1, <1>2 DEF HoldsWalk
<1> QED
  BY <1>1, <1>3, WalkWithin DEF S

\* A walk passes one action after the other.
LEMMA WalkOrdered ==
    ASSUME NEW t, IsTemplate(t), NEW from \in Nat, NEW to \in Nat, to <= Len(t),
           NEW i \in Walk(t, from, to), NEW j \in Walk(t, from, to), i < j
    PROVE  CanPass(t, i, to) /\ After(t, i) <= j
<1> DEFINE W == Walk(t, from, to)
           Passed(k, l) == k < l => CanPass(t, k, to) /\ After(t, k) <= l
           S == {l \in W : \A k \in W : Passed(k, l)}
<1>1. /\ W \subseteq Nat /\ from \in W
      /\ \A k \in W : CanPass(t, k, to) => After(t, k) \in W
  BY WalkGoesOn DEF HoldsWalk
<1>2. \A k \in Nat : CanPass(t, k, to) => After(t, k) \in Nat /\ k < After(t, k)
  BY AfterFacts
<1> HIDE DEF W
<1>3. \A k \in W : from <= k
  <2> DEFINE F == {k \in Nat : from <= k}
  <2>1. F \in SUBSET Nat /\ HoldsWalk(t, from, to, F)
    BY <1>2 DEF HoldsWalk
  <2>2. W \subseteq F
    <3> HIDE DEF F
    <3> QED
      BY <2>1, WalkWithin DEF W
  <2> QED
    BY <2>2
<1>4. from \in S
  BY <1>1, <1>3
<1>5. ASSUME NEW l \in S, CanPass(t, l, to)
      PROVE  After(t, l) \in S
  <2> DEFINE n == After(t, l)
             F == {k \in W : k <= l \/ n <= k}
  <2>1. l \in W /\ l \in Nat /\ n \in W /\ n \in Nat /\ l < n /\ \A k \in W : Passed(k, l)
    BY <1>1, <1>2, <1>5
  <2> HIDE DEF n
  <2>2. from \in F
    BY <1>1, <1>3, <2>1
  <2>3. ASSUME NEW k \in F, CanPass(t, k, to)
        PROVE  After(t, k) \in F
    <3>1. k \in W /\ k \in Nat /\ After(t, k) \in W /\ After(t, k) \in Nat /\ k < After(t, k)
      BY <1>1, <1>2, <2>3
    <3>2. CASE k < l
      BY <2>1, <3>1, <3>2
    <3>3. CASE k = l
      BY <2>1, <3>1, <3>3 DEF n
    <3>4. CASE k > l
      BY <2>1, <2>3, <3>1, <3>4
    <3> QED
      BY <2>1, <3>1, <3>2, <3>3, <3>4
  <2>4. W \subseteq F
    <3>1. F \in SUBSET Nat
      BY <1>1
    <3>2. HoldsWalk(t, from, to, F)
      <4> HIDE DEF F
      <4> QED
        BY <2>2, <2>3 DEF HoldsWalk
    <3> HIDE DEF F
    <3> QED
      BY <3>1, <3>2, WalkWithin DEF W
  <2>5. ASSUME NEW k \in W, k < n
        PROVE  CanPass(t, k, to) /\ After(t, k) <= n
    <3>1. k <= l /\ k \in Nat
      BY <1>1, <2>1, <2>4, <2>5
    <3>2. CASE k < l
      <4>1. CanPass(t, k, to) /\ After(t, k) <= l /\ After(t, k) \in Nat
        BY <1>1, <1>2, <2>1, <3>2
      <4> QED
        BY <2>1, <4>1
    <3>3. CASE k = l
      BY <1>5, <2>1, <3>3 DEF n
    <3> QED
      BY <2>1, <3>1, <3>2, <3>3
  <2>6. n \in S
    BY <2>1, <2>5
  <2> QED
    BY <2>6 DEF n
<1>6. W \subseteq S
  <2>1. S \in SUBSET Nat
    BY <1>1
  <2> HIDE DEF S
  <2>2. HoldsWalk(t, from, to, S)
    BY <1>4, <1>5 DEF HoldsWalk
  <2> QED
    BY <2>1, <2>2, WalkWithin DEF W
<1>7. i \in W /\ j \in W
  BY DEF W
<1> QED
  BY <1>6, <1>7

\* The whole template, and with each part the bodies of its blocks.
HoldsParts(t, Z) ==
    /\ <<1, Len(t)>> \in Z
    /\ \A z \in Z : \A o \in Walk(t, z[1], z[2]) :
          IsBlock(t, o, z[2]) => <<o + 1, EndOf(t, o) - 1>> \in Z

Parts(t) == {z \in Nat \X Nat : \A Z \in SUBSET (Nat \X Nat) : HoldsParts(t, Z) => z \in Z}

IsPart(t, z) == /\ z \in Nat \X Nat /\ 1 <= z[1] /\ z[1] <= z[2] + 1 /\ z[2] <= Len(t)

Body(t, o) == <<o + 1, EndOf(t, o) - 1>>

LEMMA BodyFacts ==
    ASSUME NEW t, IsTemplate(t), NEW z, IsPart(t, z),
           NEW o \in Walk(t, z[1], z[2]), IsBlock(t, o, z[2])
    PROVE  /\ o \in Nat /\ z[1] <= o /\ o < EndOf(t, o) /\ EndOf(t, o) <= z[2] /\ EndOf(t, o) \in Nat
           /\ IsPart(t, Body(t, o))
           /\ Body(t, o)[1] = o + 1 /\ Body(t, o)[2] = EndOf(t, o) - 1
<1>1. /\ z[1] \in Nat /\ z[2] \in Nat /\ z[1] <= z[2] + 1 /\ z[2] <= Len(t) /\ 1 <= z[1]
      /\ Len(t) \in Nat
  BY DEF IsPart, IsTemplate
<1>2. o \in Nat /\ z[1] <= o
  BY <1>1, WalkRange
<1>3. EndOf(t, o) \in o + 1 .. z[2]
  BY <1>1, EndFacts
<1>4. Body(t, o)[1] = o + 1 /\ Body(t, o)[2] = EndOf(t, o) - 1 /\ Body(t, o) \in Nat \X Nat
  BY <1>1, <1>2, <1>3 DEF Body
<1> QED
  BY <1>1, <1>2, <1>3, <1>4 DEF IsPart

\* A set that holds the whole template and goes on with the bodies has all parts.
LEMMA PartsWithin ==
    ASSUME NEW t, NEW Z \in SUBSET (Nat \X Nat), HoldsParts(t, Z)
    PROVE  Parts(t) \subseteq Z
  BY DEF Parts

LEMMA PartsGoOn ==
    ASSUME NEW t, IsTemplate(t)
    PROVE  /\ Parts(t) \subseteq Nat \X Nat
           /\ \A z \in Parts(t) : IsPart(t, z)
           /\ <<1, Len(t)>> \in Parts(t)
           /\ \A z \in Parts(t) : \A o \in Walk(t, z[1], z[2]) :
                 IsBlock(t, o, z[2]) => Body(t, o) \in Parts(t)
<1> DEFINE Z == {z \in Nat \X Nat : IsPart(t, z)}
<1>1. Z \in SUBSET (Nat \X Nat) /\ <<1, Len(t)>> \in Z
  BY DEF IsPart, IsTemplate
<1>2. ASSUME NEW z \in Z, NEW o \in Walk(t, z[1], z[2]), IsBlock(t, o, z[2])
      PROVE  Body(t, o) \in Z
  <2>1. IsPart(t, z)
    OBVIOUS
  <2> HIDE DEF Z
  <2>2. IsPart(t, Body(t, o))
    BY <1>2, <2>1, BodyFacts
  <2>3. Body(t, o) \in Nat \X Nat
    BY <2>2 DEF IsPart
  <2> QED
    BY <2>2, <2>3 DEF Z
<1>3. \A z \in Parts(t) : z \in Nat \X Nat
  BY DEF Parts
<1>4. \A z \in Parts(t) : IsPart(t, z)
  <2>1. HoldsParts(t, Z)
    <3> HIDE DEF Z
    <3> QED
      BY <1>1, <1>2 DEF HoldsParts, Body
  <2>2. Parts(t) \subseteq Z
    <3> HIDE DEF Z
    <3> QED
      BY <1>1, <2>1, PartsWithin
  <2> QED
    BY <2>2
<1> HIDE DEF Z
<1>5. <<1, Len(t)>> \in Parts(t)
  <2>1. <<1, Len(t)>> \in Nat \X Nat
    BY DEF IsTemplate
  <2> QED
    BY <2>1 DEF Parts, HoldsParts
<1>6. ASSUME NEW z \in Parts(t), NEW o \in Walk(t, z[1], z[2]), IsBlock(t, o, z[2])
      PROVE  Body(t, o) \in Parts(t)
  <2>1. Body(t, o) \in Nat \X Nat
    BY <1>4, <1>6, BodyFacts DEF IsPart
  <2>2. ASSUME NEW Y \in SUBSET (Nat \X Nat), HoldsParts(t, Y)
        PROVE  Body(t, o) \in Y
    <3>1. z \in Y
      BY <2>2, PartsWithin
    <3> QED
      BY <1>6, <2>2, <3>1 DEF HoldsParts, Body
  <2> QED
    BY <2>1, <2>2 DEF Parts
<1> QED
  BY <1>3, <1>4, <1>5, <1>6

(***************************************************************************)
(* Two parts are the same, lie apart, or one is in a block of the other    *)
(***************************************************************************)
LiesApart(y, z) == y[2] < z[1] \/ z[2] < y[1]

InBlock(t, y, o) == o < y[1] /\ y[2] < EndOf(t, o)

LiesIn(t, y, z) == \E o \in Walk(t, z[1], z[2]) : IsBlock(t, o, z[2]) /\ InBlock(t, y, o)

Related(t, y, z) == y = z \/ LiesApart(y, z) \/ LiesIn(t, y, z) \/ LiesIn(t, z, y)

\* What holds of the whole, and of a body when it holds of its part, holds of
\* all parts.
LEMMA PartsInduction ==
    ASSUME NEW t, IsTemplate(t), NEW S, <<1, Len(t)>> \in S,
           \A z \in Parts(t) : z \in S =>
               \A o \in Walk(t, z[1], z[2]) : IsBlock(t, o, z[2]) => Body(t, o) \in S
    PROVE  Parts(t) \subseteq S
<1> DEFINE Z == {z \in Parts(t) : z \in S}
<1>1. Z \in SUBSET (Nat \X Nat)
  BY PartsGoOn
<1>2. HoldsParts(t, Z)
  <2>1. <<1, Len(t)>> \in Z
    BY PartsGoOn
  <2>2. ASSUME NEW z \in Z, NEW o \in Walk(t, z[1], z[2]), IsBlock(t, o, z[2])
        PROVE  Body(t, o) \in Z
    BY <2>2, PartsGoOn
  <2> HIDE DEF Z
  <2> QED
    BY <2>1, <2>2 DEF HoldsParts, Body
<1>3. Parts(t) \subseteq Z
  <2> HIDE DEF Z
  <2> QED
    BY <1>1, <1>2, PartsWithin
<1> QED
  BY <1>3

\* A body of a part lies where the part lies.
LEMMA BodyWithPart ==
    ASSUME NEW t, IsTemplate(t), NEW y, IsPart(t, y), NEW z, IsPart(t, z),
           NEW o \in Walk(t, y[1], y[2]), IsBlock(t, o, y[2])
    PROVE  /\ LiesApart(y, z) => LiesApart(Body(t, o), z) /\ LiesApart(z, Body(t, o))
           /\ LiesIn(t, y, z) => LiesIn(t, Body(t, o), z)
           /\ LiesIn(t, Body(t, o), y)
<1>1. /\ y[1] \in Nat /\ y[2] \in Nat /\ z[1] \in Nat /\ z[2] \in Nat
  BY DEF IsPart
<1>2. /\ o \in Nat /\ y[1] <= o /\ o < EndOf(t, o) /\ EndOf(t, o) <= y[2] /\ EndOf(t, o) \in Nat
      /\ Body(t, o)[1] = o + 1 /\ Body(t, o)[2] = EndOf(t, o) - 1
  BY BodyFacts
<1>3. LiesApart(y, z) => LiesApart(Body(t, o), z) /\ LiesApart(z, Body(t, o))
  BY <1>1, <1>2 DEF LiesApart
<1>4. ASSUME LiesIn(t, y, z) PROVE LiesIn(t, Body(t, o), z)
  <2>1. PICK a \in Walk(t, z[1], z[2]) : IsBlock(t, a, z[2]) /\ InBlock(t, y, a)
    BY <1>4 DEF LiesIn
  <2>2. a \in Nat /\ EndOf(t, a) \in Nat
    BY <2>1, BodyFacts
  <2>3. InBlock(t, Body(t, o), a)
    BY <1>1, <1>2, <2>1, <2>2 DEF InBlock
  <2> QED
    BY <2>1, <2>3 DEF LiesIn
<1>5. LiesIn(t, Body(t, o), y)
  <2>1. InBlock(t, Body(t, o), o)
    BY <1>2 DEF InBlock
  <2> QED
    BY <2>1 DEF LiesIn
<1> QED
  BY <1>3, <1>4, <1>5

\* The blocks of one part lie apart.
LEMMA BlocksApart ==
    ASSUME NEW t, IsTemplate(t), NEW z, IsPart(t, z),
           NEW a \in Walk(t, z[1], z[2]), IsBlock(t, a, z[2]),
           NEW b \in Walk(t, z[1], z[2]), a < b
    PROVE  EndOf(t, a) < b
<1>1. z[1] \in Nat /\ z[2] \in Nat /\ z[2] <= Len(t)
  BY DEF IsPart
<1>2. After(t, a) <= b
  BY <1>1, WalkOrdered
<1>3. After(t, a) = EndOf(t, a) + 1
  BY <1>1, BlockPasses, AfterFacts
<1>4. EndOf(t, a) \in Nat /\ b \in Nat
  <2>1. EndOf(t, a) \in Nat
    BY BodyFacts
  <2>2. Walk(t, z[1], z[2]) \subseteq Nat
    BY DEF Walk
  <2> QED
    BY <2>1, <2>2
<1> QED
  BY <1>2, <1>3, <1>4

LEMMA RelatedToWhole ==
    ASSUME NEW t, IsTemplate(t)
    PROVE  \A y \in Parts(t) : y = <<1, Len(t)>> \/ LiesIn(t, y, <<1, Len(t)>>)
<1> DEFINE whole == <<1, Len(t)>>
           S == {y \in Nat \X Nat : y = whole \/ LiesIn(t, y, whole)}
<1>1. whole \in S /\ whole \in Parts(t) /\ IsPart(t, whole)
  BY PartsGoOn
<1>2. ASSUME NEW y \in Parts(t), y \in S,
             NEW o \in Walk(t, y[1], y[2]), IsBlock(t, o, y[2])
      PROVE  Body(t, o) \in S
  <2> HIDE DEF whole
  <2>1. IsPart(t, y) /\ Body(t, o) \in Nat \X Nat
    BY <1>2, PartsGoOn
  <2>2. LiesIn(t, Body(t, o), whole)
    BY <1>1, <1>2, <2>1, BodyWithPart
  <2> QED
    BY <2>1, <2>2
<1>3. Parts(t) \subseteq S
  <2> HIDE DEF S
  <2> QED
    BY <1>1, <1>2, PartsInduction
<1> QED
  BY <1>3

LEMMA RelatedToBody ==
    ASSUME NEW t, IsTemplate(t), NEW z \in Parts(t), \A y \in Parts(t) : Related(t, y, z),
           NEW o \in Walk(t, z[1], z[2]), IsBlock(t, o, z[2])
    PROVE  \A y \in Parts(t) : Related(t, y, Body(t, o))
<1> DEFINE body == Body(t, o)
           S == {y \in Nat \X Nat : Related(t, y, body)}
<1>1. /\ z \in Parts(t) /\ IsPart(t, z) /\ body \in Parts(t) /\ IsPart(t, body)
      /\ z[1] \in Nat /\ z[2] \in Nat
      /\ o \in Nat /\ EndOf(t, o) \in Nat
      /\ body[1] = o + 1 /\ body[2] = EndOf(t, o) - 1
  <2>1. IsPart(t, z) /\ body \in Parts(t)
    BY PartsGoOn
  <2>2. z[1] \in Nat /\ z[2] \in Nat
    BY <2>1 DEF IsPart
  <2> QED
    BY <2>1, <2>2, BodyFacts
<1> HIDE DEF body
<1>2. <<1, Len(t)>> \in S
  BY <1>1, RelatedToWhole, PartsGoOn DEF Related
<1>3. ASSUME NEW y \in Parts(t), y \in S,
             NEW q \in Walk(t, y[1], y[2]), IsBlock(t, q, y[2])
      PROVE  Body(t, q) \in S
  <2> DEFINE inner == Body(t, q)
  <2>1. /\ IsPart(t, y) /\ inner \in Parts(t) /\ IsPart(t, inner)
        /\ inner[1] \in Nat /\ inner[2] \in Nat
        /\ q \in Nat /\ EndOf(t, q) \in Nat
        /\ inner[1] = q + 1 /\ inner[2] = EndOf(t, q) - 1
    BY <1>3, PartsGoOn, BodyFacts DEF IsPart
  <2>2. Related(t, y, body) /\ Related(t, inner, z)
    BY <1>3, <2>1
  <2>3. /\ LiesApart(y, body) => LiesApart(inner, body)
        /\ LiesIn(t, y, body) => LiesIn(t, inner, body)
        /\ LiesIn(t, inner, y)
    BY <1>1, <1>3, <2>1, BodyWithPart
  <2>4. /\ LiesApart(z, inner) => LiesApart(body, inner)
        /\ LiesIn(t, z, inner) => LiesIn(t, body, inner)
        /\ LiesIn(t, body, z)
    BY <1>1, <2>1, BodyWithPart DEF body
  <2>5. body[1] \in Nat /\ body[2] \in Nat
    BY <1>1 DEF IsPart
  <2> HIDE DEF inner
  \* In another block of the same part, it lies apart.
  <2>6. ASSUME NEW x, IsPart(t, x), NEW a \in Walk(t, x[1], x[2]), IsBlock(t, a, x[2]),
               NEW b \in Walk(t, x[1], x[2]), IsBlock(t, b, x[2]), a # b,
               InBlock(t, inner, a), InBlock(t, body, b)
        PROVE  LiesApart(inner, body)
    <3>1. a \in Nat /\ b \in Nat /\ EndOf(t, a) \in Nat /\ EndOf(t, b) \in Nat
      BY <2>6, BodyFacts
    <3>2. a < b => EndOf(t, a) < b
      BY <2>6, BlocksApart
    <3>3. b < a => EndOf(t, b) < a
      BY <2>6, BlocksApart
    <3> QED
      BY <2>1, <2>5, <2>6, <3>1, <3>2, <3>3 DEF InBlock, LiesApart
  <2>7. InBlock(t, inner, q) /\ InBlock(t, body, o)
    BY <1>1, <2>1 DEF InBlock
  <2>8. Related(t, inner, body)
    <3>1. CASE y = body \/ LiesApart(y, body) \/ LiesIn(t, y, body)
      BY <2>3, <3>1 DEF Related
    <3>2. CASE LiesIn(t, body, y)
      <4>1. PICK a \in Walk(t, y[1], y[2]) : IsBlock(t, a, y[2]) /\ InBlock(t, body, a)
        BY <3>2 DEF LiesIn
      <4>2. CASE a # q
        BY <1>3, <2>1, <2>6, <2>7, <4>1, <4>2 DEF Related
      <4>3. CASE a = q
        <5>1. CASE inner = z \/ LiesApart(inner, z) \/ LiesIn(t, z, inner)
          BY <2>4, <5>1 DEF Related, LiesApart
        <5>2. CASE LiesIn(t, inner, z)
          <6>1. PICK b \in Walk(t, z[1], z[2]) : IsBlock(t, b, z[2]) /\ InBlock(t, inner, b)
            BY <5>2 DEF LiesIn
          <6>2. CASE b # o
            BY <1>1, <2>6, <2>7, <6>1, <6>2 DEF Related
          <6>3. CASE b = o
            <7>1. q < body[1] /\ body[2] < EndOf(t, q) /\ o < inner[1] /\ inner[2] < EndOf(t, o)
              BY <4>1, <4>3, <6>1, <6>3 DEF InBlock
            <7>2. q = o /\ EndOf(t, q) = EndOf(t, o)
              BY <1>1, <2>1, <7>1
            <7> QED
              BY <7>2 DEF Related, inner, body
          <6> QED
            BY <6>2, <6>3
        <5> QED
          BY <2>2, <5>1, <5>2 DEF Related
      <4> QED
        BY <4>2, <4>3
    <3> QED
      BY <2>2, <3>1, <3>2 DEF Related
  <2> QED
    BY <2>1, <2>8 DEF inner, IsPart
<1>4. Parts(t) \subseteq S
  <2> HIDE DEF S
  <2> QED
    BY <1>2, <1>3, PartsInduction
<1> QED
  BY <1>4 DEF body

LEMMA PartsRelated ==
    ASSUME NEW t, IsTemplate(t)
    PROVE  \A z, y \in Parts(t) : Related(t, y, z)
<1> DEFINE S == {z \in Nat \X Nat : \A y \in Parts(t) : Related(t, y, z)}
<1>1. <<1, Len(t)>> \in S
  BY RelatedToWhole, PartsGoOn DEF Related
<1>2. ASSUME NEW z \in Parts(t), z \in S,
             NEW o \in Walk(t, z[1], z[2]), IsBlock(t, o, z[2])
      PROVE  Body(t, o) \in S
  <2>1. Body(t, o) \in Nat \X Nat
    BY <1>2, PartsGoOn
  <2>2. \A y \in Parts(t) : Related(t, y, Body(t, o))
    BY <1>2, RelatedToBody
  <2> QED
    BY <2>1, <2>2
<1>3. Parts(t) \subseteq S
  <2> HIDE DEF S
  <2> QED
    BY <1>1, <1>2, PartsInduction
<1> QED
  BY <1>3

\* Blocks that may be rendered nest.
LEMMA BlocksNest ==
    ASSUME NEW t, IsTemplate(t), NEW y \in Parts(t), NEW z \in Parts(t),
           NEW a \in Walk(t, y[1], y[2]), IsBlock(t, a, y[2]),
           NEW b \in Walk(t, z[1], z[2]), IsBlock(t, b, z[2]), a < b
    PROVE  EndOf(t, a) < b \/ EndOf(t, b) < EndOf(t, a)
<1>1. /\ IsPart(t, y) /\ IsPart(t, z)
      /\ y[1] \in Nat /\ y[2] \in Nat /\ z[1] \in Nat /\ z[2] \in Nat
  <2>1. IsPart(t, y) /\ IsPart(t, z)
    BY PartsGoOn
  <2> QED
    BY <2>1 DEF IsPart
<1>2. /\ a \in Nat /\ y[1] <= a /\ a < EndOf(t, a) /\ EndOf(t, a) <= y[2] /\ EndOf(t, a) \in Nat
      /\ b \in Nat /\ z[1] <= b /\ b < EndOf(t, b) /\ EndOf(t, b) <= z[2] /\ EndOf(t, b) \in Nat
  BY <1>1, BodyFacts
<1>3. Related(t, y, z)
  BY PartsRelated
<1>4. CASE y = z
  BY <1>1, <1>4, BlocksApart
<1>5. CASE LiesApart(y, z)
  BY <1>1, <1>2, <1>5 DEF LiesApart
<1>6. CASE LiesIn(t, y, z)
  <2>1. PICK c \in Walk(t, z[1], z[2]) : IsBlock(t, c, z[2]) /\ InBlock(t, y, c)
    BY <1>6 DEF LiesIn
  <2>2. c \in Nat /\ EndOf(t, c) \in Nat /\ c < y[1] /\ y[2] < EndOf(t, c)
    BY <1>1, <2>1, BodyFacts DEF InBlock
  <2>3. EndOf(t, c) < b
    BY <1>1, <1>2, <2>1, <2>2, BlocksApart
  <2> QED
    BY <1>1, <1>2, <2>2, <2>3
<1>7. CASE LiesIn(t, z, y)
  <2>1. PICK c \in Walk(t, y[1], y[2]) : IsBlock(t, c, y[2]) /\ InBlock(t, z, c)
    BY <1>7 DEF LiesIn
  <2>2. c \in Nat /\ EndOf(t, c) \in Nat /\ c < z[1] /\ z[2] < EndOf(t, c)
    BY <1>1, <2>1, BodyFacts DEF InBlock
  <2>3. a < c => EndOf(t, a) < c
    BY <1>1, <2>1, BlocksApart
  <2>4. c < a => EndOf(t, c) < a
    BY <1>1, <2>1, BlocksApart
  <2> QED
    BY <1>1, <1>2, <2>2, <2>3, <2>4
<1> QED
  BY <1>3, <1>4, <1>5, <1>6, <1>7 DEF Related

(***************************************************************************)
(* The inductive invariant.  Each call renders a part and is on its walk;  *)
(* and what was reached are texts, expressions, and blocks with their ends.*)
(***************************************************************************)
FrameFields == {"from", "to", "at", "vars", "last", "items", "as", "outer"}

IsCall(t, f) ==
    /\ DOMAIN f = FrameFields
    /\ <<f.from, f.to>> \in Parts(t)
    /\ f.at \in Walk(t, f.from, f.to)
    /\ DOMAIN f.outer \subseteq DOMAIN f.vars

\* The call of f made that of g, for a block that ends before f goes on.
Calls(f, g) ==
    /\ f.from < g.from
    /\ f.at = g.to + 2
    /\ DOMAIN f.vars \subseteq DOMAIN g.outer

IsStack(t, s) ==
    /\ IsList(s) /\ s # <<>>
    /\ \A k \in 1 .. Len(s) : IsCall(t, s[k])
    /\ \A k \in 1 .. Len(s) - 1 : Calls(s[k], s[k + 1])

IsPaired(t, R) ==
    /\ \A r \in R : t[r].op # "/other"
    /\ \A r \in R : t[r].op \in Opening =>
          /\ EndOf(t, r) \in R
          /\ \E z \in Parts(t) : r \in Walk(t, z[1], z[2]) /\ IsBlock(t, r, z[2])
    /\ \A r \in R : t[r].op \in Closing =>
          \E o \in R : t[o].op \in Opening /\ EndOf(t, o) = r

IInv ==
    /\ template \in Templates
    /\ verdict \in {"none", "done", "error"}
    /\ reached \subseteq DOMAIN template
    /\ IsStack(template, frames)
    /\ verdict # "error" => IsPaired(template, reached)

LEMMA TemplatesAre == \A t \in Templates : IsTemplate(t)
  BY TemplateAssumption DEF IsTemplate

(***************************************************************************)
(* Calls                                                                   *)
(***************************************************************************)
LEMMA NewFrame ==
    ASSUME NEW from, NEW to, NEW bound, NEW last, NEW items, NEW as, NEW outer, NEW f,
           f = Frame(from, to, bound, last, items, as, outer)
    PROVE  /\ DOMAIN f = FrameFields
           /\ f.from = from /\ f.to = to /\ f.at = from
           /\ f.vars = bound /\ f.outer = outer
  BY DEF Frame, FrameFields

LEMMA FrameGoes ==
    ASSUME NEW f, DOMAIN f = FrameFields, NEW n
    PROVE  /\ DOMAIN [f EXCEPT !.at = n] = FrameFields
           /\ [f EXCEPT !.at = n].from = f.from /\ [f EXCEPT !.at = n].to = f.to
           /\ [f EXCEPT !.at = n].at = n
           /\ [f EXCEPT !.at = n].vars = f.vars /\ [f EXCEPT !.at = n].outer = f.outer
  BY DEF FrameFields

LEMMA ItemTaken ==
    ASSUME NEW f, DOMAIN f = FrameFields
    PROVE  /\ DOMAIN withItem(f) = FrameFields
           /\ withItem(f).from = f.from /\ withItem(f).to = f.to
           /\ withItem(f).at = f.from /\ withItem(f).outer = f.outer
           /\ DOMAIN f.outer \subseteq DOMAIN withItem(f).vars
  BY DEF FrameFields, withItem

LEMMA CallRange ==
    ASSUME NEW t, IsTemplate(t), NEW f, IsCall(t, f)
    PROVE  /\ f.from \in Nat /\ f.to \in Nat /\ f.at \in Nat
           /\ 1 <= f.from /\ f.from <= f.at /\ f.at <= f.to + 1
           /\ f.from <= f.to + 1 /\ f.to <= Len(t)
           /\ f.from \in Walk(t, f.from, f.to)
<1> DEFINE z == <<f.from, f.to>>
<1>1. z \in Nat \X Nat /\ 1 <= z[1] /\ z[1] <= z[2] + 1 /\ z[2] <= Len(t)
  BY PartsGoOn DEF IsCall, IsPart
<1>2. f.from \in Nat /\ f.to \in Nat /\ 1 <= f.from /\ f.from <= f.to + 1 /\ f.to <= Len(t)
  BY <1>1
<1>3. f.from \in Walk(t, f.from, f.to) /\ Walk(t, f.from, f.to) \subseteq f.from .. f.to + 1
  BY <1>2, WalkGoesOn, WalkRange DEF HoldsWalk
<1> QED
  BY <1>2, <1>3 DEF IsCall

\* The innermost call goes on, ...
LEMMA StackGoesOn ==
    ASSUME NEW t, NEW s, IsStack(t, s), NEW g, IsCall(t, g),
           g.from = s[Len(s)].from, g.to = s[Len(s)].to, g.outer = s[Len(s)].outer
    PROVE  IsStack(t, Append(Front(s), g)) /\ Last(Append(Front(s), g)) = g
<1> DEFINE n == Len(s)
           r == Append(Front(s), g)
<1>1. /\ n \in Nat \ {0} /\ IsList(r) /\ r # <<>> /\ Len(r) = n
      /\ r[n] = g /\ \A k \in 1 .. n - 1 : r[k] = s[k]
  <2>1. /\ n \in Nat \ {0} /\ IsList(Front(s)) /\ Len(Front(s)) = n - 1
        /\ \A k \in 1 .. n - 1 : Front(s)[k] = s[k]
    BY StackFacts DEF IsStack
  <2>2. /\ IsList(r) /\ r # <<>> /\ Len(r) = (n - 1) + 1 /\ r[(n - 1) + 1] = g
        /\ \A k \in 1 .. n - 1 : r[k] = Front(s)[k]
    BY <2>1, Pushed
  <2>3. (n - 1) + 1 = n
    BY <2>1
  <2> HIDE DEF n, r
  <2> QED
    BY <2>1, <2>2, <2>3
<1> HIDE DEF r
<1>2. \A k \in 1 .. n : IsCall(t, r[k])
  <2> TAKE k \in 1 .. n
  <2>1. CASE k = n
    BY <1>1, <2>1
  <2>2. CASE k # n
    BY <1>1, <2>2 DEF IsStack
  <2> QED
    BY <2>1, <2>2
<1>3. \A k \in 1 .. n - 1 : Calls(r[k], r[k + 1])
  <2> TAKE k \in 1 .. n - 1
  <2>1. Calls(s[k], s[k + 1]) /\ r[k] = s[k]
    BY <1>1 DEF IsStack
  <2>2. CASE k + 1 = n
    <3>1. r[k + 1] = g /\ s[k + 1] = s[Len(s)]
      BY <1>1, <2>2
    <3> QED
      BY <2>1, <3>1 DEF Calls
  <2>3. CASE k + 1 # n
    <3>1. r[k + 1] = s[k + 1]
      BY <1>1, <2>3
    <3> QED
      BY <2>1, <3>1
  <2> QED
    BY <2>2, <2>3
<1> HIDE DEF n
<1> QED
  BY <1>1, <1>2, <1>3 DEF IsStack, r, Last

\* ... makes a call, ...
LEMMA StackGrows ==
    ASSUME NEW t, NEW s, IsStack(t, s), NEW g, IsCall(t, g), Calls(Last(s), g)
    PROVE  IsStack(t, s \o <<g>>)
<1> DEFINE n == Len(s)
           r == Append(s, g)
<1>1. n \in Nat \ {0}
  BY StackFacts DEF IsStack
<1>2. /\ s \o <<g>> = r /\ IsList(r) /\ r # <<>> /\ Len(r) = n + 1
      /\ r[n + 1] = g /\ \A k \in 1 .. n : r[k] = s[k]
  BY Pushed DEF IsStack
<1> HIDE DEF r
<1>3. \A k \in 1 .. n + 1 : IsCall(t, r[k])
  <2> TAKE k \in 1 .. n + 1
  <2>1. CASE k = n + 1
    BY <1>2, <2>1
  <2>2. CASE k # n + 1
    BY <1>1, <1>2, <2>2 DEF IsStack
  <2> QED
    BY <2>1, <2>2
<1>4. \A k \in 1 .. n : Calls(r[k], r[k + 1])
  <2> TAKE k \in 1 .. n
  <2>1. CASE k = n
    BY <1>1, <1>2, <2>1 DEF Last
  <2>2. CASE k # n
    BY <1>1, <1>2, <2>2 DEF IsStack
  <2> QED
    BY <2>1, <2>2
<1>5. \A k \in 1 .. Len(r) - 1 : Calls(r[k], r[k + 1])
  BY <1>1, <1>2, <1>4
<1> HIDE DEF n
<1> QED
  BY <1>2, <1>3, <1>5 DEF IsStack

\* ... or returns.
LEMMA StackShrinks ==
    ASSUME NEW t, NEW s, IsStack(t, s), Len(s) # 1
    PROVE  IsStack(t, Front(s))
<1> DEFINE n == Len(s)
           r == Front(s)
<1>1. /\ n \in Nat /\ n > 1 /\ IsList(r) /\ Len(r) = n - 1
      /\ \A k \in 1 .. n - 1 : r[k] = s[k]
  <2>1. /\ n \in Nat \ {0} /\ IsList(r) /\ Len(r) = n - 1
        /\ \A k \in 1 .. n - 1 : r[k] = s[k]
    BY StackFacts DEF IsStack
  <2> HIDE DEF r
  <2> QED
    BY <2>1
<1> HIDE DEF r
<1>2. r # <<>>
  BY <1>1
<1>3. \A k \in 1 .. n - 1 : IsCall(t, r[k])
  BY <1>1 DEF IsStack
<1>4. \A k \in 1 .. n - 2 : Calls(r[k], r[k + 1])
  BY <1>1 DEF IsStack
<1>5. \A k \in 1 .. Len(r) - 1 : Calls(r[k], r[k + 1])
  BY <1>1, <1>4
<1> HIDE DEF n
<1> QED
  BY <1>1, <1>2, <1>3, <1>5 DEF IsStack, r

(***************************************************************************)
(* What is reached                                                         *)
(***************************************************************************)
LEMMA PairedLeaf ==
    ASSUME NEW t, NEW R, IsPaired(t, R), NEW i, t[i].op \in {"text", "eval"}
    PROVE  IsPaired(t, R \cup {i})
<1>1. t[i].op \notin Opening \cup Closing \cup {"/other"}
  BY DEF Opening, Closing, Closer
<1> QED
  BY <1>1 DEF IsPaired

LEMMA PairedBlock ==
    ASSUME NEW t, IsTemplate(t), NEW R, IsPaired(t, R), NEW z \in Parts(t),
           NEW o \in Walk(t, z[1], z[2]), IsBlock(t, o, z[2])
    PROVE  IsPaired(t, R \cup {o, EndOf(t, o)})
<1> DEFINE e == EndOf(t, o)
           Q == R \cup {o, e}
<1>1. IsPart(t, z)
  BY PartsGoOn
<1>2. z[2] \in Nat /\ z[2] <= Len(t)
  BY <1>1 DEF IsPart
<1>3. t[o].op \in Opening /\ t[e].op = Closer[t[o].op]
  BY <1>2, EndFacts DEF IsBlock
<1>4. /\ t[o].op # "/other" /\ t[o].op \notin Closing
      /\ t[e].op # "/other" /\ t[e].op \notin Opening
  BY <1>3, ActionNames
<1>5. \A r \in Q : r \in R \/ r = o \/ r = e
  OBVIOUS
<1>6. \A r \in Q : t[r].op # "/other"
  BY <1>4, <1>5 DEF IsPaired
<1>7. ASSUME NEW r \in Q, t[r].op \in Opening
      PROVE  /\ EndOf(t, r) \in Q
             /\ \E y \in Parts(t) : r \in Walk(t, y[1], y[2]) /\ IsBlock(t, r, y[2])
  <2>1. CASE r \in R
    BY <1>7, <2>1 DEF IsPaired
  <2>2. CASE r = o
    BY <2>2
  <2> QED
    BY <1>4, <1>5, <1>7, <2>1, <2>2
<1>8. ASSUME NEW r \in Q, t[r].op \in Closing
      PROVE  \E p \in Q : t[p].op \in Opening /\ EndOf(t, p) = r
  <2>1. CASE r \in R
    BY <1>8, <2>1 DEF IsPaired
  <2>2. CASE r = e
    BY <1>3, <2>2
  <2> QED
    BY <1>4, <1>5, <1>8, <2>1, <2>2
<1> HIDE DEF Q
<1>9. IsPaired(t, Q)
  BY <1>6, <1>7, <1>8 DEF IsPaired
<1> QED
  BY <1>9 DEF Q

(***************************************************************************)
(* The steps                                                               *)
(***************************************************************************)
LEMMA TopFacts ==
    ASSUME IInv
    PROVE  /\ IsTemplate(template)
           /\ Len(template) \in Nat /\ DOMAIN template = 1 .. Len(template)
           /\ IsCall(template, Top) /\ DOMAIN Top = FrameFields
           /\ Top.from \in Nat /\ Top.to \in Nat /\ Top.at \in Nat
           /\ 1 <= Top.from /\ Top.from <= Top.at /\ Top.at <= Top.to + 1
           /\ Top.to <= Len(template)
           /\ InText => Top.at \in DOMAIN template /\ Top.at \in 1 .. Top.to
           /\ Top = frames[Len(frames)]
<1>1. IsTemplate(template)
  BY TemplatesAre DEF IInv
<1>2. Len(template) \in Nat /\ DOMAIN template = 1 .. Len(template)
  BY <1>1 DEF IsTemplate
<1>3. Len(frames) \in Nat \ {0}
  BY StackFacts DEF IInv, IsStack
<1>4. Top = frames[Len(frames)]
  BY DEF Top, Last
<1>5. IsCall(template, Top)
  BY <1>3, <1>4 DEF IInv, IsStack
<1>6. /\ Top.from \in Nat /\ Top.to \in Nat /\ Top.at \in Nat
      /\ 1 <= Top.from /\ Top.from <= Top.at /\ Top.at <= Top.to + 1
      /\ Top.to <= Len(template)
  BY <1>1, <1>5, CallRange
<1>7. InText => Top.at \in DOMAIN template /\ Top.at \in 1 .. Top.to
  BY <1>2, <1>6 DEF InText
<1> QED
  BY <1>1, <1>2, <1>4, <1>5, <1>6, <1>7 DEF IsCall

\* Over an action or a block, a call stays in its part and on its walk.
LEMMA GoesOn ==
    ASSUME IInv, CanPass(template, Top.at, Top.to),
           NEW n, n = After(template, Top.at)
    PROVE  /\ IsStack(template, Append(Below, GoTo(n)))
           /\ Last(Append(Below, GoTo(n))) = GoTo(n)
           /\ GoTo(n).from = Top.from /\ GoTo(n).at = n /\ GoTo(n).vars = Top.vars
<1>1. /\ IsTemplate(template) /\ IsCall(template, Top) /\ Top.from \in Nat /\ Top.to \in Nat
      /\ Top.to <= Len(template) /\ Top = frames[Len(frames)] /\ DOMAIN Top = FrameFields
  BY TopFacts
<1> DEFINE g == GoTo(n)
<1>2. /\ DOMAIN g = FrameFields /\ g.from = Top.from /\ g.to = Top.to /\ g.at = n
      /\ g.vars = Top.vars /\ g.outer = Top.outer
  BY <1>1, FrameGoes DEF GoTo
<1>3. n \in Walk(template, Top.from, Top.to)
  BY <1>1, WalkGoesOn DEF HoldsWalk, IsCall
<1> HIDE DEF g
<1>4. IsCall(template, g)
  BY <1>1, <1>2, <1>3 DEF IsCall
<1>5. IsStack(template, frames) /\ Below = Front(frames)
  BY DEF IInv, Below
<1>6. IsStack(template, Append(Below, g)) /\ Last(Append(Below, g)) = g
  BY <1>1, <1>2, <1>4, <1>5, StackGoesOn
<1> QED
  BY <1>2, <1>6 DEF g

LEMMA StepLeaf == IInv /\ (Text \/ Inline) => IInv'
<1> SUFFICES ASSUME IInv, Text \/ Inline PROVE IInv'
  OBVIOUS
<1>1. /\ InText /\ verdict = "none" /\ Here = template[Top.at] /\ Here.op \in {"text", "eval"}
      /\ frames' = Append(Below, GoTo(Top.at + 1)) /\ reached' = reached \cup {Top.at}
      /\ template' = template /\ verdict' = verdict
  BY DEF Text, Inline, InText, Here
<1>2. template[Top.at].op \notin Opening
  BY <1>1 DEF Opening
<1>3. CanPass(template, Top.at, Top.to) /\ After(template, Top.at) = Top.at + 1
  BY <1>1, <1>2, TopFacts DEF CanPass, After
<1>4. IsStack(template, frames')
  BY <1>1, <1>3, GoesOn
<1>5. IsPaired(template, reached')
  <2>1. IsPaired(template, reached)
    BY <1>1 DEF IInv
  <2>2. template[Top.at].op \in {"text", "eval"}
    BY <1>1
  <2>3. IsPaired(template, reached \cup {Top.at})
    BY <2>1, <2>2, PairedLeaf
  <2> QED
    BY <1>1, <2>3
<1>6. reached' \subseteq DOMAIN template
  BY <1>1, TopFacts DEF IInv
<1> QED
  BY <1>1, <1>4, <1>5, <1>6 DEF IInv

\* A block whose end was found is a block of its part.
LEMMA BlockFound ==
    ASSUME IInv, NEW op \in Opening, AtBlock(op)
    PROVE  /\ IsBlock(template, Top.at, Top.to)
           /\ Min(Ends) = EndOf(template, Top.at)
<1>1. /\ InText /\ template[Top.at].op = op /\ Ends # {} /\ Here = template[Top.at]
  BY DEF AtBlock, Here
<1>2. \A p : Depth(p) = DepthOf(template, Top.at, p)
  BY <1>1 DEF Depth, DepthOf, Named
<1>3. Ends = {p \in Top.at + 1 .. Top.to : DepthOf(template, Top.at, p) = 0}
  BY <1>2 DEF Ends
<1>4. IsBlock(template, Top.at, Top.to)
  BY <1>1, <1>3, TopFacts DEF IsBlock
<1>5. EndOf(template, Top.at) = Min({p \in Top.at + 1 .. Top.to : DepthOf(template, Top.at, p) = 0})
  BY <1>4, TopFacts, EndFacts
<1> QED
  BY <1>3, <1>4, <1>5

\* The call that renders the body of a block.
LEMMA BodyCalled ==
    ASSUME IInv, NEW op \in Opening, AtBlock(op), NEW p, p = Min(Ends),
           NEW b, DOMAIN b = FrameFields, b.from = Top.at + 1, b.to = p - 1, b.at = b.from,
           DOMAIN Top.vars \subseteq DOMAIN b.outer, DOMAIN b.outer \subseteq DOMAIN b.vars
    PROVE  /\ IsStack(template, Append(Below, GoTo(p + 1)))
           /\ IsStack(template, Append(Below, GoTo(p + 1)) \o <<b>>)
           /\ IsPaired(template, reached) => IsPaired(template, reached \cup {Top.at, p})
           /\ {Top.at, p} \subseteq DOMAIN template
<1> DEFINE o == Top.at
           z == <<Top.from, Top.to>>
<1>1. /\ IsTemplate(template) /\ IsCall(template, Top) /\ o \in Nat /\ Top.from <= o
      /\ Top.from \in Nat /\ Top.to \in Nat /\ Top.to <= Len(template)
      /\ Len(template) \in Nat /\ DOMAIN template = 1 .. Len(template)
  BY TopFacts
<1>2. IsBlock(template, o, Top.to) /\ p = EndOf(template, o)
  BY BlockFound
<1>3. p \in o + 1 .. Top.to
  <2>1. EndOf(template, o) \in o + 1 .. Top.to
    BY <1>1, <1>2, EndFacts
  <2> QED
    BY <1>2, <2>1
<1>4. /\ z \in Parts(template) /\ z[1] = Top.from /\ z[2] = Top.to
      /\ o \in Walk(template, z[1], z[2])
  BY <1>1 DEF IsCall
<1>5. /\ IsStack(template, Append(Below, GoTo(p + 1)))
      /\ Last(Append(Below, GoTo(p + 1))) = GoTo(p + 1)
      /\ GoTo(p + 1).from = Top.from /\ GoTo(p + 1).at = p + 1 /\ GoTo(p + 1).vars = Top.vars
  <2>1. CanPass(template, o, Top.to) /\ After(template, o) = p + 1
    BY <1>2, BlockPasses DEF After
  <2> QED
    BY <2>1, GoesOn
<1> HIDE DEF z
<1>6. IsCall(template, b)
  <2>1. Body(template, o) \in Parts(template) /\ Body(template, o) = <<b.from, b.to>>
    BY <1>1, <1>2, <1>4, PartsGoOn DEF Body
  <2>2. b.from \in Nat /\ b.to \in Nat /\ b.to <= Len(template)
    BY <1>1, <1>3
  <2>3. b.at \in Walk(template, b.from, b.to)
    BY <1>1, <2>2, WalkGoesOn DEF HoldsWalk
  <2> QED
    BY <2>1, <2>3 DEF IsCall
<1>7. Calls(GoTo(p + 1), b)
  BY <1>1, <1>3, <1>5 DEF Calls
<1>8. IsStack(template, Append(Below, GoTo(p + 1)) \o <<b>>)
  BY <1>5, <1>6, <1>7, StackGrows
<1>9. IsPaired(template, reached) => IsPaired(template, reached \cup {o, p})
  BY <1>1, <1>2, <1>4, PairedBlock
<1>10. {o, p} \subseteq DOMAIN template
  <2>1. CanPass(template, o, Top.to)
    BY <1>2, BlockPasses
  <2>2. o \in 1 .. Top.to
    BY <2>1 DEF CanPass
  <2>3. o \in 1 .. Len(template) /\ p \in 1 .. Len(template)
    BY <1>1, <1>3, <2>2
  <2> QED
    BY <1>1, <2>3
<1> QED
  BY <1>5, <1>8, <1>9, <1>10

LEMMA StepEach == IInv /\ Each => IInv'
<1> SUFFICES ASSUME IInv, Each PROVE IInv'
  OBVIOUS
<1> DEFINE p == Min(Ends)
           items == toItems(ValueOf(Here.expr, Top.vars, Top.last))
           body == Frame(Top.at + 1, p - 1, Top.vars, Top.last, items, Here.as, Top.vars)
           after == Append(Below, GoTo(p + 1))
<1>1. AtBlock("#each") /\ "#each" \in Opening
  BY DEF Each, Opening
<1>2. /\ frames' = after \o IF items = <<>> THEN <<>> ELSE <<withItem(body)>>
      /\ Behind(p)
  BY DEF Each
<1>3. /\ DOMAIN body = FrameFields /\ body.from = Top.at + 1 /\ body.to = p - 1
      /\ body.outer = Top.vars
  BY NewFrame
<1> HIDE DEF p, items, body, after
<1>4. /\ DOMAIN withItem(body) = FrameFields
      /\ withItem(body).from = Top.at + 1 /\ withItem(body).to = p - 1
      /\ withItem(body).at = withItem(body).from /\ withItem(body).outer = Top.vars
      /\ DOMAIN withItem(body).outer \subseteq DOMAIN withItem(body).vars
  BY <1>3, ItemTaken
<1>5. /\ IsStack(template, after) /\ IsStack(template, after \o <<withItem(body)>>)
      /\ IsPaired(template, reached) => IsPaired(template, reached \cup {Top.at, p})
      /\ {Top.at, p} \subseteq DOMAIN template
  BY <1>1, <1>4, BodyCalled DEF p, after
<1>6. frames' = after \/ frames' = after \o <<withItem(body)>>
  <2>1. IsList(after)
    BY <1>5 DEF IsStack
  <2>2. after \o <<>> = after
    BY <2>1, Pushed
  <2> QED
    BY <1>2, <2>2
<1>7. IsStack(template, frames')
  BY <1>5, <1>6
<1>8. /\ reached' = reached \cup {Top.at, p} /\ template' = template /\ verdict' = verdict
      /\ verdict = "none"
  BY <1>1, <1>2 DEF Behind, AtBlock, InText
<1>9. IsPaired(template, reached')
  <2>1. IsPaired(template, reached)
    BY <1>8 DEF IInv
  <2> QED
    BY <1>5, <1>8, <2>1
<1>10. reached' \subseteq DOMAIN template
  BY <1>5, <1>8 DEF IInv
<1> QED
  BY <1>7, <1>8, <1>9, <1>10 DEF IInv

LEMMA StepUnless == IInv /\ Unless => IInv'
<1> SUFFICES ASSUME IInv, Unless PROVE IInv'
  OBVIOUS
<1> DEFINE p == Min(Ends)
           body == Frame(Top.at + 1, p - 1, Top.vars, Top.last, <<>>, "this", Top.vars)
           after == Append(Below, GoTo(p + 1))
<1>1. AtBlock("#unless") /\ "#unless" \in Opening
  BY DEF Unless, Opening
<1>2. /\ frames' = after \o IF unlessCondition THEN <<>> ELSE <<body>>
      /\ Behind(p)
  BY DEF Unless
<1>3. /\ DOMAIN body = FrameFields /\ body.from = Top.at + 1 /\ body.to = p - 1
      /\ body.at = body.from /\ body.outer = Top.vars /\ body.vars = Top.vars
  BY NewFrame
<1> HIDE DEF p, body, after
<1>4. DOMAIN Top.vars \subseteq DOMAIN body.outer /\ DOMAIN body.outer \subseteq DOMAIN body.vars
  BY <1>3
<1>5. /\ IsStack(template, after) /\ IsStack(template, after \o <<body>>)
      /\ IsPaired(template, reached) => IsPaired(template, reached \cup {Top.at, p})
      /\ {Top.at, p} \subseteq DOMAIN template
  BY <1>1, <1>3, <1>4, BodyCalled DEF p, after
<1>6. frames' = after \/ frames' = after \o <<body>>
  <2>1. IsList(after)
    BY <1>5 DEF IsStack
  <2>2. after \o <<>> = after
    BY <2>1, Pushed
  <2> QED
    BY <1>2, <2>2
<1>7. IsStack(template, frames')
  BY <1>5, <1>6
<1>8. /\ reached' = reached \cup {Top.at, p} /\ template' = template /\ verdict' = verdict
      /\ verdict = "none"
  BY <1>1, <1>2 DEF Behind, AtBlock, InText
<1>9. IsPaired(template, reached')
  <2>1. IsPaired(template, reached)
    BY <1>8 DEF IInv
  <2> QED
    BY <1>5, <1>8, <2>1
<1>10. reached' \subseteq DOMAIN template
  BY <1>5, <1>8 DEF IInv
<1> QED
  BY <1>7, <1>8, <1>9, <1>10 DEF IInv

LEMMA StepFails == IInv /\ Fails => IInv'
<1> SUFFICES ASSUME IInv, Fails PROVE IInv'
  OBVIOUS
<1>1. /\ InText /\ verdict' = "error" /\ reached' = reached \cup {Top.at}
      /\ template' = template /\ frames' = frames
  BY DEF Fails
<1>2. reached' \subseteq DOMAIN template
  BY <1>1, TopFacts DEF IInv
<1> QED
  BY <1>1, <1>2 DEF IInv

LEMMA StepNextItem == IInv /\ NextItem => IInv'
<1> SUFFICES ASSUME IInv, NextItem PROVE IInv'
  OBVIOUS
<1>1. /\ frames' = Append(Below, withItem(Top)) /\ template' = template
      /\ reached' = reached /\ verdict' = verdict
  BY DEF NextItem
<1>2. /\ IsTemplate(template) /\ IsCall(template, Top) /\ DOMAIN Top = FrameFields
      /\ Top = frames[Len(frames)]
  BY TopFacts
<1>3. /\ DOMAIN withItem(Top) = FrameFields
      /\ withItem(Top).from = Top.from /\ withItem(Top).to = Top.to
      /\ withItem(Top).at = Top.from /\ withItem(Top).outer = Top.outer
      /\ DOMAIN Top.outer \subseteq DOMAIN withItem(Top).vars
  BY <1>2, ItemTaken
<1>4. Top.from \in Walk(template, Top.from, Top.to)
  BY <1>2, CallRange
<1>5. IsCall(template, withItem(Top))
  BY <1>2, <1>3, <1>4 DEF IsCall
<1>6. IsStack(template, frames) /\ Below = Front(frames)
  BY DEF IInv, Below
<1>7. IsStack(template, Append(Below, withItem(Top)))
  BY <1>2, <1>3, <1>5, <1>6, StackGoesOn
<1> QED
  BY <1>1, <1>7 DEF IInv

LEMMA StepBlockEnds == IInv /\ BlockEnds => IInv'
<1> SUFFICES ASSUME IInv, BlockEnds PROVE IInv'
  OBVIOUS
<1>1. template' = template /\ reached' = reached /\ verdict = "none"
  BY DEF BlockEnds
<1>2. CASE Len(frames) = 1
  <2>1. verdict' = "done" /\ frames' = frames
    BY <1>2 DEF BlockEnds
  <2> QED
    BY <1>1, <2>1 DEF IInv
<1>3. CASE Len(frames) # 1
  <2>1. verdict' = verdict /\ frames' = Below
    BY <1>3 DEF BlockEnds
  <2>2. IsStack(template, Below)
    BY <1>3, StackShrinks DEF IInv, Below
  <2> QED
    BY <1>1, <2>1, <2>2 DEF IInv
<1> QED
  BY <1>2, <1>3

(***************************************************************************)
(* The invariant                                                           *)
(***************************************************************************)
LEMMA InitIInv == Init => IInv
<1> SUFFICES ASSUME Init PROVE IInv
  OBVIOUS
<1> DEFINE f == Frame(1, Len(template), NoVars, FALSE, <<>>, "this", NoVars)
<1>1. template \in Templates /\ frames = <<f>> /\ reached = {} /\ verdict = "none"
  BY DEF Init
<1>2. IsTemplate(template)
  BY <1>1, TemplatesAre
<1>3. /\ DOMAIN f = FrameFields /\ f.from = 1 /\ f.to = Len(template) /\ f.at = 1
      /\ f.vars = NoVars /\ f.outer = NoVars
  BY DEF Frame, FrameFields
<1> HIDE DEF f
<1>4. <<1, Len(template)>> \in Parts(template)
  BY <1>2, PartsGoOn
<1>5. 1 \in Walk(template, 1, Len(template))
  <2>1. Len(template) \in Nat /\ Len(template) <= Len(template)
    BY <1>2 DEF IsTemplate
  <2> QED
    BY <1>2, <2>1, WalkGoesOn DEF HoldsWalk
<1>6. IsCall(template, f)
  BY <1>3, <1>4, <1>5 DEF IsCall
<1>7. IsStack(template, <<f>>)
  <2>1. <<f>> \in Seq({f})
    OBVIOUS
  <2>2. IsList(<<f>>) /\ <<f>> # <<>> /\ Len(<<f>>) = 1 /\ <<f>>[1] = f
    BY <2>1 DEF IsList
  <2> QED
    BY <1>6, <2>2 DEF IsStack
<1>8. IsPaired(template, reached)
  BY <1>1 DEF IsPaired
<1> QED
  BY <1>1, <1>7, <1>8 DEF IInv

LEMMA Invariance == Spec => []IInv
<1>1. Init => IInv
  BY InitIInv
<1>2. IInv /\ [Next]_vars => IInv'
  <2> SUFFICES ASSUME IInv, [Next]_vars PROVE IInv'
    OBVIOUS
  <2>1. CASE Text \/ Inline
    BY <2>1, StepLeaf
  <2>2. CASE Each
    BY <2>2, StepEach
  <2>3. CASE Unless
    BY <2>3, StepUnless
  <2>4. CASE Fails
    BY <2>4, StepFails
  <2>5. CASE NextItem
    BY <2>5, StepNextItem
  <2>6. CASE BlockEnds
    BY <2>6, StepBlockEnds
  <2>7. CASE UNCHANGED vars
    BY <2>7 DEF vars, IInv
  <2> QED
    BY <2>1, <2>2, <2>3, <2>4, <2>5, <2>6, <2>7 DEF Next
<1> QED
  BY <1>1, <1>2, PTL DEF Spec

\* Each call of renderString renders a part that lies in the part of the call
\* below it, which goes on behind the end of the block, and keeps in scope the
\* variables that call has.
THEOREM TypeCorrect == Spec => []TypeOK
<1>1. IInv => TypeOK
  <2> SUFFICES ASSUME IInv PROVE TypeOK
    OBVIOUS
  <2>1. IsTemplate(template) /\ IsStack(template, frames)
    BY TemplatesAre DEF IInv
  <2>2. /\ Len(frames) \in Nat \ {0} /\ DOMAIN frames = 1 .. Len(frames)
        /\ IsList(Front(frames)) /\ Len(Front(frames)) = Len(frames) - 1
    BY <2>1, StackFacts DEF IsStack
  <2>3. DOMAIN Below = 1 .. Len(frames) - 1
    <3>1. DOMAIN Front(frames) = 1 .. Len(Front(frames))
      BY <2>2, LenProperties DEF IsList
    <3> QED
      BY <2>2, <3>1 DEF Below
  <2>4. \A k \in DOMAIN frames : IsCall(template, frames[k])
    BY <2>1, <2>2 DEF IsStack
  <2>5. \A k \in DOMAIN frames : frames[k].at \in frames[k].from .. frames[k].to + 1
    BY <2>1, <2>4, CallRange
  <2>6. ASSUME NEW k \in DOMAIN Below
        PROVE  /\ frames[k].from < frames[k + 1].from
               /\ frames[k].at = frames[k + 1].to + 2
               /\ DOMAIN frames[k].vars \subseteq DOMAIN frames[k + 1].vars
    <3>1. Calls(frames[k], frames[k + 1])
      BY <2>1, <2>3 DEF IsStack
    <3>2. IsCall(template, frames[k + 1])
      BY <2>2, <2>3, <2>4
    <3> QED
      BY <3>1, <3>2 DEF Calls, IsCall
  <2>7. frames # <<>>
    BY <2>1 DEF IsStack
  <2> QED
    BY <2>5, <2>6, <2>7 DEF TypeOK, IInv
<1> QED
  BY <1>1, Invariance, PTL

(***************************************************************************)
(* A list in which each opening action has a closing one of its own, and   *)
(* those with their partners nest, is well nested                          *)
(***************************************************************************)
Opens(u, i, j) == {k \in i .. j : u[k].op \in Opening}
Closes(u, i, j) == {k \in i .. j : u[k].op \in Closing}

\* e[k] is the index of the closing action of the block that opens at k.
IsMatching(u, n, e) ==
    /\ \A k \in Opens(u, 1, n) : e[k] \in k + 1 .. n /\ e[k] \in Closes(u, 1, n)
    /\ \A c \in Closes(u, 1, n) : \E k \in Opens(u, 1, n) : e[k] = c
    /\ \A a, b \in Opens(u, 1, n) : a < b => e[a] < b \/ e[b] < e[a]

LEMMA Actions ==
    ASSUME NEW u, NEW n \in Nat, NEW i \in Nat, 1 <= i, NEW j \in Nat, j <= n
    PROVE  /\ \A k : k \in Opens(u, i, j) <=> k \in Opens(u, 1, n) /\ i <= k /\ k <= j
           /\ \A k : k \in Closes(u, i, j) <=> k \in Closes(u, 1, n) /\ i <= k /\ k <= j
           /\ \A k \in Opens(u, 1, n) : k \in Nat /\ 1 <= k /\ k <= n
           /\ \A k \in Closes(u, 1, n) : k \in Nat /\ 1 <= k /\ k <= n
           /\ IsFiniteSet(Opens(u, i, j)) /\ Cardinality(Opens(u, i, j)) \in Nat
           /\ IsFiniteSet(Closes(u, i, j)) /\ Cardinality(Closes(u, i, j)) \in Nat
<1>1. IsFiniteSet(i .. j)
  BY FS_Interval
<1>2. Opens(u, i, j) \in SUBSET (i .. j) /\ Closes(u, i, j) \in SUBSET (i .. j)
  BY DEF Opens, Closes
<1>3. /\ IsFiniteSet(Opens(u, i, j)) /\ Cardinality(Opens(u, i, j)) \in Nat
      /\ IsFiniteSet(Closes(u, i, j)) /\ Cardinality(Closes(u, i, j)) \in Nat
  BY <1>1, <1>2, FS_Subset, FS_CardinalityType
<1>4. \A k : k \in Opens(u, i, j) <=> k \in Opens(u, 1, n) /\ i <= k /\ k <= j
  BY DEF Opens
<1>5. \A k : k \in Closes(u, i, j) <=> k \in Closes(u, 1, n) /\ i <= k /\ k <= j
  BY DEF Closes
<1>6. /\ \A k \in Opens(u, 1, n) : k \in Nat /\ 1 <= k /\ k <= n
      /\ \A k \in Closes(u, 1, n) : k \in Nat /\ 1 <= k /\ k <= n
  BY DEF Opens, Closes
<1> QED
  BY <1>3, <1>4, <1>5, <1>6

\* Up to any index there are as many opening actions, in all just as many.
LEMMA OpensFirst ==
    ASSUME NEW u, NEW n \in Nat, NEW e, IsMatching(u, n, e), NEW j \in Nat, j <= n
    PROVE  /\ Cardinality(Closes(u, 1, j)) <= Cardinality(Opens(u, 1, j))
           /\ Cardinality(Closes(u, 1, n)) = Cardinality(Opens(u, 1, n))
<1>1. /\ \A k : k \in Opens(u, 1, j) <=> k \in Opens(u, 1, n) /\ 1 <= k /\ k <= j
      /\ \A k : k \in Closes(u, 1, j) <=> k \in Closes(u, 1, n) /\ 1 <= k /\ k <= j
      /\ IsFiniteSet(Opens(u, 1, j))
  BY Actions
<1>2. /\ \A k \in Opens(u, 1, n) : k \in Nat /\ 1 <= k /\ k <= n
      /\ \A k \in Closes(u, 1, n) : k \in Nat /\ 1 <= k /\ k <= n
      /\ IsFiniteSet(Opens(u, 1, n)) /\ Cardinality(Opens(u, 1, n)) \in Nat
      /\ IsFiniteSet(Closes(u, 1, n)) /\ Cardinality(Closes(u, 1, n)) \in Nat
  BY Actions
<1>3. /\ \A k \in Opens(u, 1, n) : k < e[k] /\ e[k] \in Closes(u, 1, n)
      /\ \A c \in Closes(u, 1, n) : \E k \in Opens(u, 1, n) : e[k] = c
      /\ \A a, b \in Opens(u, 1, n) : a < b => e[a] < b \/ e[b] < e[a]
  BY <1>2 DEF IsMatching
<1>4. \A c \in Closes(u, 1, j) : \E k \in Opens(u, 1, j) : e[k] = c
  <2> TAKE c \in Closes(u, 1, j)
  <2>1. c \in Closes(u, 1, n) /\ c <= j /\ c \in Nat
    BY <1>1, <1>2
  <2>2. PICK k \in Opens(u, 1, n) : e[k] = c
    BY <1>3, <2>1
  <2>3. k \in Nat /\ 1 <= k /\ k < c
    BY <1>2, <1>3, <2>2
  <2>4. k \in Opens(u, 1, j)
    BY <1>1, <2>1, <2>2, <2>3
  <2> QED
    BY <2>2, <2>4
<1>5. Cardinality(Closes(u, 1, j)) <= Cardinality(Opens(u, 1, j))
  BY <1>1, <1>4, CoveredIsSmaller
<1>6. Cardinality(Closes(u, 1, n)) <= Cardinality(Opens(u, 1, n))
  BY <1>2, <1>3, CoveredIsSmaller
<1>7. \A a, b \in Opens(u, 1, n) : a # b => e[a] # e[b]
  <2> TAKE a, b \in Opens(u, 1, n)
  <2>1. /\ a \in Nat /\ b \in Nat /\ e[a] \in Nat /\ e[b] \in Nat /\ a < e[a] /\ b < e[b]
        /\ a < b => e[a] < b \/ e[b] < e[a]
        /\ b < a => e[b] < a \/ e[a] < e[b]
    BY <1>2, <1>3
  <2> QED
    BY <2>1
<1>8. Cardinality(Opens(u, 1, n)) <= Cardinality(Closes(u, 1, n))
  BY <1>2, <1>3, <1>7, InjectedIsSmaller
<1> QED
  BY <1>2, <1>5, <1>6, <1>8

\* From an opening action on there are more opening actions than closing ones
\* up to its partner, and there as many.
LEMMA PartnerBalances ==
    ASSUME NEW u, NEW n \in Nat, NEW e, IsMatching(u, n, e), NEW i \in Opens(u, 1, n)
    PROVE  /\ i \in Nat /\ 1 <= i /\ e[i] \in Nat /\ i < e[i] /\ e[i] <= n
           /\ \A j \in i .. e[i] - 1 : Cardinality(Closes(u, i, j)) < Cardinality(Opens(u, i, j))
           /\ Cardinality(Closes(u, i, e[i])) = Cardinality(Opens(u, i, e[i]))
<1>1. /\ \A k \in Opens(u, 1, n) : k \in Nat /\ 1 <= k /\ k <= n
      /\ \A k \in Closes(u, 1, n) : k \in Nat /\ 1 <= k /\ k <= n
  BY Actions
<1>2. /\ \A k \in Opens(u, 1, n) : k < e[k] /\ e[k] \in Closes(u, 1, n)
      /\ \A c \in Closes(u, 1, n) : \E k \in Opens(u, 1, n) : e[k] = c
      /\ \A a, b \in Opens(u, 1, n) : a < b => e[a] < b \/ e[b] < e[a]
  BY <1>1 DEF IsMatching
<1>3. i \in Nat /\ 1 <= i /\ e[i] \in Nat /\ i < e[i] /\ e[i] <= n
  BY <1>1, <1>2
\* What closes there opened there.
<1>4. ASSUME NEW c \in Closes(u, 1, n), i <= c, c <= e[i]
      PROVE  \E k \in Opens(u, 1, n) : e[k] = c /\ i <= k /\ k < c
  <2>1. PICK k \in Opens(u, 1, n) : e[k] = c
    BY <1>2
  <2>2. k \in Nat /\ c \in Nat /\ k < c /\ (k < i => c < i \/ e[i] < c)
    BY <1>1, <1>2, <2>1
  <2> QED
    BY <1>3, <1>4, <2>1, <2>2
<1>5. ASSUME NEW j \in i .. e[i] - 1
      PROVE  Cardinality(Closes(u, i, j)) < Cardinality(Opens(u, i, j))
  <2>1. j \in Nat /\ i <= j /\ j < e[i] /\ j <= n
    BY <1>3
  <2>2. /\ \A k : k \in Opens(u, i, j) <=> k \in Opens(u, 1, n) /\ i <= k /\ k <= j
        /\ \A k : k \in Closes(u, i, j) <=> k \in Closes(u, 1, n) /\ i <= k /\ k <= j
        /\ IsFiniteSet(Opens(u, i, j)) /\ Cardinality(Opens(u, i, j)) \in Nat
        /\ IsFiniteSet(Closes(u, i, j)) /\ Cardinality(Closes(u, i, j)) \in Nat
    BY <1>3, <2>1, Actions
  <2> DEFINE others == Opens(u, i, j) \ {i}
  <2>3. i \in Opens(u, i, j)
    BY <1>3, <2>1, <2>2
  <2>4. IsFiniteSet(others) /\ Cardinality(others) = Cardinality(Opens(u, i, j)) - 1
    BY <2>2, <2>3, FS_RemoveElement
  <2>5. \A c \in Closes(u, i, j) : \E k \in others : e[k] = c
    <3> TAKE c \in Closes(u, i, j)
    <3>1. c \in Closes(u, 1, n) /\ i <= c /\ c <= j /\ c \in Nat
      BY <1>1, <2>2
    <3>2. c <= e[i]
      BY <1>3, <2>1, <3>1
    <3>3. PICK k \in Opens(u, 1, n) : e[k] = c /\ i <= k /\ k < c
      BY <1>4, <3>1, <3>2
    <3>4. k \in Nat /\ k <= j /\ k # i
      BY <1>1, <1>3, <2>1, <3>1, <3>3
    <3> QED
      BY <2>2, <3>3, <3>4
  <2> HIDE DEF others
  <2>6. Cardinality(Closes(u, i, j)) <= Cardinality(others)
    BY <2>4, <2>5, CoveredIsSmaller
  <2> QED
    BY <2>2, <2>4, <2>6
<1>6. Cardinality(Closes(u, i, e[i])) = Cardinality(Opens(u, i, e[i]))
  <2> DEFINE m == e[i]
             O == Opens(u, i, m)
             C == Closes(u, i, m)
  <2>1. m \in Nat /\ i < m /\ m <= n
    BY <1>3
  <2> HIDE DEF m
  <2>2. /\ \A k : k \in O <=> k \in Opens(u, 1, n) /\ i <= k /\ k <= m
        /\ \A k : k \in C <=> k \in Closes(u, 1, n) /\ i <= k /\ k <= m
        /\ IsFiniteSet(O) /\ Cardinality(O) \in Nat
        /\ IsFiniteSet(C) /\ Cardinality(C) \in Nat
    BY <1>3, <2>1, Actions
  <2> HIDE DEF O, C
  <2>3. \A c \in C : \E k \in O : e[k] = c
    <3> TAKE c \in C
    <3>1. c \in Closes(u, 1, n) /\ i <= c /\ c <= m /\ c \in Nat
      BY <1>1, <2>2
    <3>2. PICK k \in Opens(u, 1, n) : e[k] = c /\ i <= k /\ k < c
      BY <1>4, <3>1 DEF m
    <3>3. k \in Nat /\ k <= m
      BY <1>1, <2>1, <3>1, <3>2
    <3> QED
      BY <2>2, <3>2, <3>3
  <2>4. \A k \in O : e[k] \in C
    <3> TAKE k \in O
    <3>1. k \in Opens(u, 1, n) /\ i <= k /\ k <= m /\ k \in Nat
      BY <1>1, <2>2
    <3>2. e[k] \in Closes(u, 1, n) /\ e[k] \in Nat /\ k < e[k]
      BY <1>1, <1>2, <3>1
    <3>3. i < k => m < k \/ e[k] < m
      BY <1>2, <3>1 DEF m
    <3>4. i = k => e[k] = m
      BY DEF m
    <3>5. e[k] <= m
      BY <1>3, <2>1, <3>1, <3>2, <3>3, <3>4
    <3> QED
      BY <1>3, <2>2, <3>1, <3>2, <3>5
  <2>5. \A a, b \in O : a # b => e[a] # e[b]
    <3> TAKE a, b \in O
    <3>1. a \in Opens(u, 1, n) /\ b \in Opens(u, 1, n)
      BY <2>2
    <3>2. /\ a \in Nat /\ b \in Nat /\ e[a] \in Nat /\ e[b] \in Nat /\ a < e[a] /\ b < e[b]
          /\ a < b => e[a] < b \/ e[b] < e[a]
          /\ b < a => e[b] < a \/ e[a] < e[b]
      BY <1>1, <1>2, <3>1
    <3> QED
      BY <3>2
  <2>6. Cardinality(C) <= Cardinality(O)
    BY <2>2, <2>3, CoveredIsSmaller
  <2>7. Cardinality(O) <= Cardinality(C)
    BY <2>2, <2>4, <2>5, InjectedIsSmaller
  <2>8. Cardinality(C) = Cardinality(O)
    BY <2>2, <2>6, <2>7
  <2> QED
    BY <2>8 DEF O, C, m
<1> QED
  BY <1>3, <1>5, <1>6

LEMMA MatchedIsNested ==
    ASSUME NEW u, NEW n \in Nat, DOMAIN u = 1 .. n, Len(u) = n,
           NEW e, IsMatching(u, n, e),
           \A k \in Opens(u, 1, n) : u[e[k]].op = Closer[u[k].op],
           \A k \in 1 .. n : u[k].op # "/other"
    PROVE  WellNested(u)
<1>1. \A i, j : Balance(u, i, j) = Cardinality(Opens(u, i, j)) - Cardinality(Closes(u, i, j))
  BY DEF Balance, Opens, Closes
<1>2. Balance(u, 1, Len(u)) = 0
  <2>1. /\ Cardinality(Opens(u, 1, n)) \in Nat
        /\ Cardinality(Closes(u, 1, n)) = Cardinality(Opens(u, 1, n))
    BY OpensFirst, Actions
  <2> QED
    BY <1>1, <2>1
<1>3. \A j \in 1 .. n : Balance(u, 1, j) >= 0
  <2> TAKE j \in 1 .. n
  <2>1. /\ Cardinality(Opens(u, 1, j)) \in Nat /\ Cardinality(Closes(u, 1, j)) \in Nat
        /\ Cardinality(Closes(u, 1, j)) <= Cardinality(Opens(u, 1, j))
    <3>1. j \in Nat /\ j <= n
      OBVIOUS
    <3>2. Cardinality(Closes(u, 1, j)) <= Cardinality(Opens(u, 1, j))
      BY <3>1, OpensFirst
    <3>3. Cardinality(Opens(u, 1, j)) \in Nat /\ Cardinality(Closes(u, 1, j)) \in Nat
      BY <3>1, Actions
    <3> QED
      BY <3>2, <3>3
  <2> QED
    BY <1>1, <2>1
<1>4. ASSUME NEW i \in Opens(u, 1, n)
      PROVE  PartnerOf(u, i) = e[i]
  <2> DEFINE P == {j \in i .. n : Balance(u, i, j) = 0}
  <2>1. /\ i \in Nat /\ 1 <= i /\ e[i] \in Nat /\ i < e[i] /\ e[i] <= n
        /\ \A j \in i .. e[i] - 1 : Cardinality(Closes(u, i, j)) < Cardinality(Opens(u, i, j))
        /\ Cardinality(Closes(u, i, e[i])) = Cardinality(Opens(u, i, e[i]))
    BY PartnerBalances
  <2>2. \A j \in i .. n : /\ Cardinality(Opens(u, i, j)) \in Nat
                          /\ Cardinality(Closes(u, i, j)) \in Nat
    <3> TAKE j \in i .. n
    <3>1. j \in Nat /\ j <= n
      BY <2>1
    <3> QED
      BY <2>1, <3>1, Actions
  <2>3. Balance(u, i, e[i]) = 0
    <3>1. e[i] \in i .. n
      BY <2>1
    <3>2. Cardinality(Opens(u, i, e[i])) \in Nat /\ Cardinality(Closes(u, i, e[i])) \in Nat
      BY <2>2, <3>1
    <3>3. Cardinality(Closes(u, i, e[i])) = Cardinality(Opens(u, i, e[i]))
      BY <2>1
    <3>4. Balance(u, i, e[i])
            = Cardinality(Opens(u, i, e[i])) - Cardinality(Closes(u, i, e[i]))
      BY <1>1
    <3> QED
      BY <3>2, <3>3, <3>4
  <2>4. \A j \in i .. e[i] - 1 : Balance(u, i, j) # 0
    <3> TAKE j \in i .. e[i] - 1
    <3>1. j \in i .. n
      BY <2>1
    <3>2. Cardinality(Opens(u, i, j)) \in Nat /\ Cardinality(Closes(u, i, j)) \in Nat
      BY <2>2, <3>1
    <3>3. Cardinality(Closes(u, i, j)) < Cardinality(Opens(u, i, j))
      BY <2>1
    <3>4. Balance(u, i, j) = Cardinality(Opens(u, i, j)) - Cardinality(Closes(u, i, j))
      BY <1>1
    <3> QED
      BY <3>2, <3>3, <3>4
  <2>5. P \subseteq Nat /\ e[i] \in P
    BY <2>1, <2>3
  <2>6. Min(P) \in P /\ Min(P) <= e[i]
    <3> HIDE DEF P
    <3> QED
      BY <2>5, MinIsLeast
  <2>7. Min(P) = e[i]
    BY <2>1, <2>4, <2>6
  <2> QED
    BY <2>7 DEF PartnerOf
<1>5. \A i \in DOMAIN u : u[i].op \in Opening => u[PartnerOf(u, i)].op = Closer[u[i].op]
  <2> TAKE i \in DOMAIN u
  <2> HAVE u[i].op \in Opening
  <2>1. i \in Opens(u, 1, n)
    BY DEF Opens
  <2> QED
    BY <1>4, <2>1
<1> QED
  BY <1>2, <1>3, <1>5 DEF WellNested

(***************************************************************************)
(* What was looked at, in its order, is such a list                        *)
(***************************************************************************)
LEMMA LookedFacts ==
    ASSUME IInv
    PROVE  LET n == Cardinality(reached) IN
           /\ reached \subseteq Nat /\ IsFiniteSet(reached) /\ n \in Nat
           /\ DOMAIN Looked = 1 .. n /\ Len(Looked) = n
           /\ \A k \in 1 .. n : Looked[k] = template[Member(reached, k)]
<1> DEFINE n == Cardinality(reached)
<1>1. reached \subseteq DOMAIN template /\ IsTemplate(template)
  BY TemplatesAre DEF IInv
<1>2. Len(template) \in Nat /\ DOMAIN template = 1 .. Len(template)
  BY <1>1 DEF IsTemplate
<1>3. reached \in SUBSET (1 .. Len(template)) /\ IsFiniteSet(1 .. Len(template))
  BY <1>1, <1>2, CountTo
<1>4. IsFiniteSet(reached) /\ n \in Nat
  BY <1>3, Smaller
<1> HIDE DEF n
<1>5. Looked = [k \in 1 .. n |-> template[Member(reached, k)]]
  BY DEF Looked, Member, Rank, n
<1>6. DOMAIN Looked = 1 .. n /\ \A k \in 1 .. n : Looked[k] = template[Member(reached, k)]
  BY <1>5
<1>7. Len(Looked) = n
  BY <1>4, <1>6
<1> QED
  BY <1>3, <1>4, <1>6, <1>7 DEF n

LEMMA LookedMatches ==
    ASSUME IInv, verdict = "done"
    PROVE  MisnestedRefused
<1> DEFINE R == reached
           u == Looked
           n == Cardinality(reached)
           e == [k \in 1 .. n |-> Rank(R, EndOf(template, Member(R, k)))]
<1>1. /\ R \subseteq Nat /\ IsFiniteSet(R) /\ n \in Nat
      /\ DOMAIN u = 1 .. n /\ Len(u) = n
      /\ \A k \in 1 .. n : u[k] = template[Member(R, k)]
  BY LookedFacts
<1>2. /\ \A p \in R : Rank(R, p) \in 1 .. n /\ Member(R, Rank(R, p)) = p
      /\ \A p, q \in R : p < q => Rank(R, p) < Rank(R, q)
      /\ \A k \in 1 .. n : Member(R, k) \in R /\ Rank(R, Member(R, k)) = k
      /\ \A a, b \in 1 .. n : a < b => Member(R, a) < Member(R, b)
  BY <1>1, RankFacts
<1>3. IsTemplate(template) /\ IsPaired(template, R)
  BY TemplatesAre DEF IInv
<1> HIDE DEF R, u, n
\* Where a block opens among what was looked at, it ends there.
<1>4. ASSUME NEW k \in Opens(u, 1, n)
      PROVE  LET r == Member(R, k) IN
             /\ k \in 1 .. n /\ r \in R /\ template[r].op \in Opening
             /\ EndOf(template, r) \in R /\ r < EndOf(template, r)
             /\ template[EndOf(template, r)].op = Closer[template[r].op]
             /\ \E z \in Parts(template) :
                   r \in Walk(template, z[1], z[2]) /\ IsBlock(template, r, z[2])
             /\ e[k] = Rank(R, EndOf(template, r)) /\ Member(R, e[k]) = EndOf(template, r)
             /\ e[k] \in 1 .. n /\ k < e[k]
  <2> DEFINE r == Member(R, k)
             q == EndOf(template, r)
  <2>1. k \in 1 .. n /\ u[k].op \in Opening
    BY DEF Opens
  <2>2. r \in R /\ Rank(R, r) = k /\ template[r].op \in Opening
    BY <1>1, <1>2, <2>1
  <2> HIDE DEF r
  <2>3. /\ q \in R
        /\ \E z \in Parts(template) :
              r \in Walk(template, z[1], z[2]) /\ IsBlock(template, r, z[2])
    BY <1>3, <2>2 DEF IsPaired
  <2>4. PICK z \in Parts(template) :
           r \in Walk(template, z[1], z[2]) /\ IsBlock(template, r, z[2])
    BY <2>3
  <2>5. IsPart(template, z)
    BY <1>3, PartsGoOn
  <2>6. z[2] \in Nat /\ z[2] <= Len(template)
    BY <2>5 DEF IsPart
  <2>7. r < q
    BY <1>3, <2>4, <2>5, BodyFacts
  <2>8. template[q].op = Closer[template[r].op]
    BY <1>3, <2>4, <2>6, EndFacts
  <2>9. e[k] = Rank(R, q)
    BY <2>1 DEF r
  <2> HIDE DEF e, q
  <2>10. Member(R, e[k]) = q /\ e[k] \in 1 .. n /\ k < e[k]
    BY <1>2, <2>2, <2>3, <2>7, <2>9
  <2> QED
    BY <2>1, <2>2, <2>3, <2>7, <2>8, <2>9, <2>10 DEF r, q
<1> HIDE DEF e
<1>5. \A k \in Opens(u, 1, n) : e[k] \in k + 1 .. n /\ e[k] \in Closes(u, 1, n)
  <2> TAKE k \in Opens(u, 1, n)
  <2>1. /\ e[k] \in 1 .. n /\ k < e[k] /\ k \in 1 .. n
        /\ template[Member(R, e[k])].op \in Closing
    BY <1>4, ActionNames
  <2>2. u[e[k]].op \in Closing
    BY <1>1, <2>1
  <2>3. e[k] \in Closes(u, 1, n)
    BY <2>1, <2>2 DEF Closes
  <2> QED
    BY <1>1, <2>1, <2>3
<1>6. \A c \in Closes(u, 1, n) : \E k \in Opens(u, 1, n) : e[k] = c
  <2> TAKE c \in Closes(u, 1, n)
  <2> DEFINE r == Member(R, c)
  <2>1. c \in 1 .. n /\ u[c].op \in Closing
    BY DEF Closes
  <2>2. r \in R /\ Rank(R, r) = c /\ template[r].op \in Closing
    BY <1>1, <1>2, <2>1
  <2> HIDE DEF r
  <2>3. PICK o \in R : template[o].op \in Opening /\ EndOf(template, o) = r
    BY <1>3, <2>2 DEF IsPaired
  <2> DEFINE k == Rank(R, o)
  <2>4. k \in 1 .. n /\ Member(R, k) = o
    BY <1>2
  <2> HIDE DEF k
  <2>5. k \in Opens(u, 1, n)
    BY <1>1, <2>3, <2>4 DEF Opens
  <2>6. e[k] = c
    BY <1>4, <2>2, <2>3, <2>4, <2>5
  <2> QED
    BY <2>5, <2>6
<1>7. \A a, b \in Opens(u, 1, n) : a < b => e[a] < b \/ e[b] < e[a]
  <2> TAKE a, b \in Opens(u, 1, n)
  <2> HAVE a < b
  <2> DEFINE p == Member(R, a)
             q == Member(R, b)
  <2>1. /\ a \in 1 .. n /\ p \in R /\ EndOf(template, p) \in R
        /\ e[a] = Rank(R, EndOf(template, p))
        /\ \E z \in Parts(template) :
              p \in Walk(template, z[1], z[2]) /\ IsBlock(template, p, z[2])
    BY <1>4
  <2>2. /\ b \in 1 .. n /\ q \in R /\ EndOf(template, q) \in R
        /\ e[b] = Rank(R, EndOf(template, q))
        /\ \E z \in Parts(template) :
              q \in Walk(template, z[1], z[2]) /\ IsBlock(template, q, z[2])
    BY <1>4
  <2>3. p < q /\ Rank(R, q) = b
    BY <1>2, <2>1, <2>2
  <2> HIDE DEF p, q
  <2>4. EndOf(template, p) < q \/ EndOf(template, q) < EndOf(template, p)
    BY <1>3, <2>1, <2>2, <2>3, BlocksNest
  <2> QED
    BY <1>2, <2>1, <2>2, <2>3, <2>4
<1>8. IsMatching(u, n, e)
  BY <1>5, <1>6, <1>7 DEF IsMatching
<1>9. \A k \in Opens(u, 1, n) : u[e[k]].op = Closer[u[k].op]
  <2> TAKE k \in Opens(u, 1, n)
  <2>1. /\ k \in 1 .. n /\ e[k] \in 1 .. n
        /\ template[Member(R, e[k])].op = Closer[template[Member(R, k)].op]
    BY <1>4
  <2> QED
    BY <1>1, <2>1
<1>10. \A k \in 1 .. n : u[k].op # "/other"
  BY <1>1, <1>2, <1>3 DEF IsPaired
<1>11. WellNested(u)
  BY <1>1, <1>8, <1>9, <1>10, MatchedIsNested
<1> QED
  BY <1>11 DEF u, MisnestedRefused

\* A template that was rendered to its end is well nested in all that the
\* renderer looked at.
THEOREM MisnestedRefusedAlways == Spec => []MisnestedRefused
<1>1. IInv => MisnestedRefused
  BY LookedMatches DEF MisnestedRefused
<1> QED
  BY <1>1, Invariance, PTL

(***************************************************************************)
(* Conversely, in a well nested template each opening action has a partner *)
(* that the renderer finds.  The level of an index is how many blocks are  *)
(* open before it.                                                         *)
(***************************************************************************)
Level(t, i) == Balance(t, 1, i - 1)

LEMMA BalanceIs ==
    ASSUME NEW t, NEW i, NEW j
    PROVE  Balance(t, i, j) = Cardinality(Opens(t, i, j)) - Cardinality(Closes(t, i, j))
  BY DEF Balance, Opens, Closes

\* What an interval has, and its parts.
LEMMA SplitActions ==
    ASSUME NEW t, NEW i \in Nat, 1 <= i, NEW j \in Nat, i <= j + 1
    PROVE  /\ Cardinality(Opens(t, 1, j)) = Cardinality(Opens(t, 1, i - 1)) + Cardinality(Opens(t, i, j))
           /\ Cardinality(Closes(t, 1, j)) = Cardinality(Closes(t, 1, i - 1)) + Cardinality(Closes(t, i, j))
<1>1. /\ IsFiniteSet(1 .. i - 1) /\ IsFiniteSet(i .. j) 
  BY FS_Interval
<1>2. ASSUME NEW A, NEW B, NEW C, A \in SUBSET (1 .. i - 1), B \in SUBSET (i .. j), C = A \cup B
      PROVE  Cardinality(C) = Cardinality(A) + Cardinality(B)
  <2>1. A \cap B = {}
    BY <1>2
  <2>2. IsFiniteSet(A) /\ IsFiniteSet(B) /\ Cardinality(A) \in Nat /\ Cardinality(B) \in Nat
    BY <1>1, <1>2, FS_Subset, FS_CardinalityType
  <2>3. Cardinality(A \cap B) = 0
    BY <2>1, FS_EmptySet
  <2>4. Cardinality(A \cup B) = Cardinality(A) + Cardinality(B) - Cardinality(A \cap B)
    BY <2>2, FS_Union
  <2> QED
    BY <1>2, <2>2, <2>3, <2>4
<1>3. /\ Opens(t, 1, i - 1) \in SUBSET (1 .. i - 1) /\ Opens(t, i, j) \in SUBSET (i .. j)
      /\ Opens(t, 1, j) = Opens(t, 1, i - 1) \cup Opens(t, i, j)
  BY DEF Opens
<1>4. /\ Closes(t, 1, i - 1) \in SUBSET (1 .. i - 1) /\ Closes(t, i, j) \in SUBSET (i .. j)
      /\ Closes(t, 1, j) = Closes(t, 1, i - 1) \cup Closes(t, i, j)
  BY DEF Closes
<1> QED
  BY <1>2, <1>3, <1>4

LEMMA LevelFacts ==
    ASSUME NEW t, IsTemplate(t)
    PROVE  /\ \A i \in 1 .. Len(t) + 1 : Level(t, i) \in Int
           /\ \A i \in 1 .. Len(t) + 1 : \A j \in i .. Len(t) :
                 Balance(t, i, j) = Level(t, j + 1) - Level(t, i)
           /\ Level(t, 1) = 0
           /\ \A i \in 1 .. Len(t) :
                 /\ t[i].op \in Opening => Level(t, i + 1) = Level(t, i) + 1
                 /\ t[i].op \in Closing => Level(t, i + 1) = Level(t, i) - 1
                 /\ t[i].op \notin Opening \cup Closing => Level(t, i + 1) = Level(t, i)
<1> DEFINE n == Len(t)
<1>1. n \in Nat
  BY DEF IsTemplate
<1> HIDE DEF n
<1>2. ASSUME NEW i \in Nat, 1 <= i, NEW j \in Nat
      PROVE  /\ Cardinality(Opens(t, i, j)) \in Nat /\ Cardinality(Closes(t, i, j)) \in Nat
             /\ Balance(t, i, j) \in Int
  <2>1. /\ Cardinality(Opens(t, i, j)) \in Nat /\ Cardinality(Closes(t, i, j)) \in Nat
    <3>1. j <= j
      BY <1>2
    <3> QED
      BY <1>2, <3>1, Actions
  <2> QED
    BY <2>1, BalanceIs
<1>3. \A i \in 1 .. n + 1 : Level(t, i) \in Int
  <2> TAKE i \in 1 .. n + 1
  <2>1. i - 1 \in Nat /\ 1 \in Nat /\ 1 <= 1
    BY <1>1
  <2> QED
    BY <1>2, <2>1 DEF Level
<1>4. \A i \in 1 .. n + 1 : \A j \in i .. n : Balance(t, i, j) = Level(t, j + 1) - Level(t, i)
  <2> TAKE i \in 1 .. n + 1
  <2> TAKE j \in i .. n
  <2>1. i \in Nat /\ j \in Nat /\ i - 1 \in Nat /\ 1 <= i /\ i <= j + 1 /\ (j + 1) - 1 = j
    BY <1>1
  <2> DEFINE a == Cardinality(Opens(t, 1, j))
             b == Cardinality(Opens(t, 1, i - 1))
             c == Cardinality(Opens(t, i, j))
             d == Cardinality(Closes(t, 1, j))
             e == Cardinality(Closes(t, 1, i - 1))
             f == Cardinality(Closes(t, i, j))
  <2>2. a \in Nat /\ b \in Nat /\ c \in Nat /\ d \in Nat /\ e \in Nat /\ f \in Nat
    BY <1>2, <2>1
  <2>3. a = b + c /\ d = e + f
    BY <2>1, SplitActions
  <2>4. Balance(t, i, j) = c - f /\ Level(t, j + 1) = a - d /\ Level(t, i) = b - e
    BY <2>1, BalanceIs DEF Level
  <2> HIDE DEF a, b, c, d, e, f
  <2> QED
    BY <2>2, <2>3, <2>4
<1>5. Level(t, 1) = 0
  <2>1. Opens(t, 1, 0) = {} /\ Closes(t, 1, 0) = {}
    BY DEF Opens, Closes
  <2>2. Cardinality(Opens(t, 1, 0)) = 0 /\ Cardinality(Closes(t, 1, 0)) = 0
    BY <2>1, FS_EmptySet
  <2>3. Level(t, 1) = Balance(t, 1, 0)
    BY DEF Level
  <2> QED
    BY <2>2, <2>3, BalanceIs
<1>6. ASSUME NEW i \in 1 .. n
      PROVE  /\ t[i].op \in Opening => Level(t, i + 1) = Level(t, i) + 1
             /\ t[i].op \in Closing => Level(t, i + 1) = Level(t, i) - 1
             /\ t[i].op \notin Opening \cup Closing => Level(t, i + 1) = Level(t, i)
  <2>1. i \in 1 .. n + 1 /\ i \in i .. n /\ i + 1 \in 1 .. n + 1 /\ i \in Nat
    BY <1>1
  <2>2. /\ Level(t, i) \in Int /\ Level(t, i + 1) \in Int
        /\ Balance(t, i, i) = Level(t, i + 1) - Level(t, i)
    BY <1>3, <1>4, <2>1
  <2>3. Cardinality({}) = 0 /\ Cardinality({i}) = 1
    BY FS_EmptySet, FS_Singleton
  <2>4. CASE t[i].op \in Opening
    <3>1. t[i].op \notin Closing
      BY <2>4, ActionNames
    <3>2. Opens(t, i, i) = {i} /\ Closes(t, i, i) = {}
      BY <2>1, <2>4, <3>1 DEF Opens, Closes
    <3>3. Balance(t, i, i) = 1
      BY <2>3, <3>2, BalanceIs
    <3> QED
      BY <2>2, <2>4, <3>1, <3>3
  <2>5. CASE t[i].op \in Closing
    <3>1. t[i].op \notin Opening
      BY <2>5, ActionNames
    <3>2. Opens(t, i, i) = {} /\ Closes(t, i, i) = {i}
      BY <2>1, <2>5, <3>1 DEF Opens, Closes
    <3>3. Balance(t, i, i) = 0 - 1
      BY <2>3, <3>2, BalanceIs
    <3> QED
      BY <2>2, <2>5, <3>1, <3>3
  <2>6. CASE t[i].op \notin Opening \cup Closing
    <3>1. Opens(t, i, i) = {} /\ Closes(t, i, i) = {}
      BY <2>1, <2>6 DEF Opens, Closes
    <3>2. Balance(t, i, i) = 0
      BY <2>3, <3>1, BalanceIs
    <3> QED
      BY <2>2, <2>6, <3>2
  <2> QED
    BY <2>4, <2>5, <2>6
<1> QED
  BY <1>3, <1>4, <1>5, <1>6 DEF n

LEMMA NestedLevels ==
    ASSUME NEW t, IsTemplate(t), WellNested(t)
    PROVE  /\ Level(t, Len(t) + 1) = 0
           /\ \A i \in 1 .. Len(t) + 1 : Level(t, i) >= 0
           /\ \A i \in 1 .. Len(t) : t[i].op # "/other"
           /\ Cardinality(Opens(t, 1, Len(t))) = Cardinality(Closes(t, 1, Len(t)))
<1>1. Len(t) \in Nat /\ DOMAIN t = 1 .. Len(t)
  BY DEF IsTemplate
<1>2. /\ Balance(t, 1, Len(t)) = 0
      /\ \A j \in 1 .. Len(t) : Balance(t, 1, j) >= 0 /\ t[j].op # "/other"
  BY <1>1 DEF WellNested
<1>3. \A j : (j + 1) - 1 = j => Level(t, j + 1) = Balance(t, 1, j)
  BY DEF Level
<1>4. Level(t, Len(t) + 1) = 0
  <2>1. (Len(t) + 1) - 1 = Len(t)
    BY <1>1
  <2> QED
    BY <1>2, <1>3, <2>1
<1>5. ASSUME NEW i \in 1 .. Len(t) + 1
      PROVE  Level(t, i) >= 0
  <2>1. CASE i = 1
    BY <2>1, LevelFacts
  <2>2. CASE i # 1
    <3>1. i - 1 \in 1 .. Len(t)
      BY <1>1, <2>2
    <3> QED
      BY <1>2, <3>1 DEF Level
  <2> QED
    BY <2>1, <2>2
<1>6. Cardinality(Opens(t, 1, Len(t))) = Cardinality(Closes(t, 1, Len(t)))
  <2>1. /\ Cardinality(Opens(t, 1, Len(t))) \in Nat /\ Cardinality(Closes(t, 1, Len(t))) \in Nat
    <3>1. Len(t) <= Len(t)
      BY <1>1
    <3> QED
      BY <1>1, <3>1, Actions
  <2>2. Cardinality(Opens(t, 1, Len(t))) - Cardinality(Closes(t, 1, Len(t))) = 0
    BY <1>2, BalanceIs
  <2> QED
    BY <2>1, <2>2
<1> QED
  BY <1>2, <1>4, <1>5, <1>6

\* The partner of an opening action is where its level is reached again.
LEMMA PartnerFacts ==
    ASSUME NEW t, IsTemplate(t), WellNested(t), NEW o \in 1 .. Len(t), t[o].op \in Opening
    PROVE  /\ PartnerOf(t, o) \in Nat /\ o < PartnerOf(t, o) /\ PartnerOf(t, o) <= Len(t)
           /\ Level(t, PartnerOf(t, o) + 1) = Level(t, o)
           /\ \A j \in o + 1 .. PartnerOf(t, o) : Level(t, j) > Level(t, o)
           /\ t[PartnerOf(t, o)].op = Closer[t[o].op] /\ t[PartnerOf(t, o)].op \in Closing
<1> DEFINE n == Len(t)
           S == {j \in o + 1 .. n + 1 : Level(t, j) <= Level(t, o)}
           P == {j \in o .. n : Balance(t, o, j) = 0}
<1>1. /\ n \in Nat /\ o \in Nat /\ o \in 1 .. n /\ \A i \in 1 .. n + 1 : Level(t, i) \in Int
      /\ Level(t, n + 1) = 0 /\ Level(t, o) >= 0
      /\ Level(t, o + 1) = Level(t, o) + 1
      /\ \A j \in o .. n : Balance(t, o, j) = Level(t, j + 1) - Level(t, o)
  <2>1. n \in Nat
    BY DEF IsTemplate
  <2>2. o \in 1 .. n + 1
    BY <2>1
  <2> QED
    BY <2>1, <2>2, LevelFacts, NestedLevels
<1>2. \A i \in 1 .. n : Level(t, i + 1) >= Level(t, i) - 1
  <2> TAKE i \in 1 .. n
  <2>1. i \in 1 .. n + 1 /\ i + 1 \in 1 .. n + 1
    BY <1>1
  <2>2. Level(t, i) \in Int /\ Level(t, i + 1) \in Int
    BY <1>1, <2>1
  <2>3. \/ Level(t, i + 1) = Level(t, i) + 1
        \/ Level(t, i + 1) = Level(t, i) - 1
        \/ Level(t, i + 1) = Level(t, i)
    BY LevelFacts
  <2> QED
    BY <2>2, <2>3
<1> HIDE DEF n
<1>3. S \subseteq Nat /\ n + 1 \in S
  BY <1>1
<1>4. PICK m \in S : \A j \in S : m <= j
  <2> HIDE DEF S
  <2> QED
    BY <1>3, LeastNatural
<1>5. m \in Nat /\ o + 1 <= m /\ m <= n + 1 /\ Level(t, m) <= Level(t, o)
  BY <1>1, <1>4
<1>6. o + 1 < m
  BY <1>1, <1>5
<1>7. ASSUME NEW j \in o + 1 .. m - 1
      PROVE  Level(t, j) > Level(t, o)
  <2>1. j \in o + 1 .. n + 1 /\ j \in 1 .. n + 1 /\ o \in 1 .. n + 1 /\ ~ m <= j
    BY <1>1, <1>5
  <2>2. j \notin S
    BY <1>4, <2>1
  <2>3. ~ Level(t, j) <= Level(t, o)
    BY <2>1, <2>2
  <2> QED
    BY <1>1, <2>1, <2>3
<1>8. Level(t, m) = Level(t, o)
  <2>1. /\ m - 1 \in 1 .. n /\ m - 1 \in o + 1 .. m - 1 /\ (m - 1) + 1 = m
        /\ m - 1 \in 1 .. n + 1 /\ m \in 1 .. n + 1 /\ o \in 1 .. n + 1
    BY <1>1, <1>5, <1>6
  <2>2. Level(t, m) >= Level(t, m - 1) - 1
    BY <1>2, <2>1
  <2>3. Level(t, m - 1) > Level(t, o)
    BY <1>7, <2>1
  <2>4. Level(t, m - 1) \in Int /\ Level(t, m) \in Int /\ Level(t, o) \in Int
    BY <1>1, <2>1
  <2> QED
    BY <1>5, <2>2, <2>3, <2>4
<1> DEFINE e == m - 1
<1>9. e \in Nat /\ o < e /\ e <= n /\ e + 1 = m /\ e \in o .. n
  BY <1>1, <1>5, <1>6
<1> HIDE DEF S, e
<1>10. e \in P
  <2>1. Balance(t, o, e) = Level(t, m) - Level(t, o)
    BY <1>1, <1>9
  <2>2. m \in 1 .. n + 1 /\ o \in 1 .. n + 1
    BY <1>1, <1>5
  <2>3. Level(t, m) \in Int /\ Level(t, o) \in Int
    BY <1>1, <2>2
  <2> QED
    BY <1>8, <1>9, <2>1, <2>3
<1>11. \A j \in P : e <= j
  <2> TAKE j \in P
  <2>1. j \in o .. n /\ Balance(t, o, j) = 0 /\ j \in Nat
    BY <1>1
  <2>2. j + 1 \in 1 .. n + 1 /\ o \in 1 .. n + 1
    BY <1>1, <2>1
  <2>3. Level(t, j + 1) \in Int /\ Level(t, o) \in Int
    BY <1>1, <2>2
  <2>4. Level(t, j + 1) = Level(t, o)
    BY <1>1, <2>1, <2>3
  <2>5. ~ j + 1 \in o + 1 .. m - 1
    BY <1>7, <2>3, <2>4
  <2> QED
    BY <1>1, <1>5, <1>9, <2>1, <2>5
<1>12. P \subseteq Nat
  BY <1>1
<1>13. Min(P) = e
  <2> HIDE DEF P
  <2>1. Min(P) \in P /\ Min(P) <= e
    BY <1>10, <1>12, MinIsLeast
  <2>2. Min(P) \in Nat /\ e <= Min(P)
    BY <1>11, <1>12, <2>1
  <2> QED
    BY <1>9, <2>1, <2>2
<1>14. PartnerOf(t, o) = e
  BY <1>13 DEF PartnerOf, n
<1>15. t[PartnerOf(t, o)].op = Closer[t[o].op] /\ t[PartnerOf(t, o)].op \in Closing
  <2>1. o \in DOMAIN t
    BY DEF IsTemplate
  <2>2. t[PartnerOf(t, o)].op = Closer[t[o].op]
    BY <2>1 DEF WellNested
  <2> QED
    BY <2>2, ActionNames
<1>16. \A j \in o + 1 .. e : Level(t, j) > Level(t, o)
  BY <1>7 DEF e
<1> QED
  BY <1>8, <1>9, <1>14, <1>15, <1>16 DEF n

LEMMA PartnersNest ==
    ASSUME NEW t, IsTemplate(t), WellNested(t),
           NEW a \in 1 .. Len(t), t[a].op \in Opening,
           NEW b \in 1 .. Len(t), t[b].op \in Opening, a < b
    PROVE  PartnerOf(t, a) < b \/ PartnerOf(t, b) < PartnerOf(t, a)
<1> DEFINE d == PartnerOf(t, a)
           e == PartnerOf(t, b)
<1>1. /\ d \in Nat /\ a < d /\ d <= Len(t) /\ Level(t, d + 1) = Level(t, a)
      /\ \A j \in a + 1 .. d : Level(t, j) > Level(t, a)
      /\ t[d].op \in Closing
  BY PartnerFacts
<1>2. /\ e \in Nat /\ b < e /\ e <= Len(t) /\ Level(t, e + 1) = Level(t, b)
      /\ \A j \in b + 1 .. e : Level(t, j) > Level(t, b)
  BY PartnerFacts
<1> HIDE DEF d, e
<1>3. Len(t) \in Nat /\ a \in Nat /\ b \in Nat
  BY DEF IsTemplate
<1>4. Level(t, a) \in Int /\ Level(t, b) \in Int
  <2>1. a \in 1 .. Len(t) + 1 /\ b \in 1 .. Len(t) + 1
    BY <1>3
  <2> QED
    BY <2>1, LevelFacts
<1>5. SUFFICES ASSUME b <= d, d <= e PROVE FALSE
  BY <1>1, <1>2, <1>3 DEF d, e
<1>6. b # d
  BY <1>1, ActionNames
<1>7. Level(t, b) > Level(t, a)
  BY <1>1, <1>3, <1>5
<1>8. CASE d = e
  BY <1>1, <1>2, <1>4, <1>7, <1>8
<1>9. CASE d # e
  <2>1. d + 1 \in b + 1 .. e
    BY <1>1, <1>2, <1>3, <1>5, <1>9
  <2>2. Level(t, d + 1) > Level(t, b)
    BY <1>2, <2>1
  <2> QED
    BY <1>1, <1>4, <1>7, <2>2
<1> QED
  BY <1>8, <1>9

LEMMA NestedMatches ==
    ASSUME NEW t, IsTemplate(t), WellNested(t), NEW e,
           \A k \in 1 .. Len(t) : e[k] = PartnerOf(t, k)
    PROVE  IsMatching(t, Len(t), e)
<1> DEFINE n == Len(t)
           O == Opens(t, 1, n)
           C == Closes(t, 1, n)
<1>1. n \in Nat /\ n <= n
  BY DEF IsTemplate
<1>2. /\ \A k \in O : k \in 1 .. n /\ t[k].op \in Opening
      /\ \A k : k \in 1 .. n /\ t[k].op \in Closing => k \in C
  BY DEF Opens, Closes
<1>3. IsFiniteSet(O) /\ IsFiniteSet(C)
  BY <1>1, Actions
<1>4. Cardinality(O) = Cardinality(C)
  BY NestedLevels
<1> HIDE DEF n
<1>5. \A k \in O : e[k] = PartnerOf(t, k)
  BY <1>2 DEF n
<1> HIDE DEF O, C
<1>6. \A k \in O : e[k] \in k + 1 .. n /\ e[k] \in C
  <2> TAKE k \in O
  <2>1. k \in 1 .. n /\ k \in Nat
    BY <1>1, <1>2
  <2>2. /\ PartnerOf(t, k) \in Nat /\ k < PartnerOf(t, k) /\ PartnerOf(t, k) <= n
        /\ t[PartnerOf(t, k)].op \in Closing
    BY <1>2, <2>1, PartnerFacts DEF n
  <2>3. e[k] \in k + 1 .. n /\ e[k] \in 1 .. n
    BY <1>1, <1>5, <2>1, <2>2
  <2> QED
    BY <1>2, <1>5, <2>2, <2>3
<1>7. \A a, b \in O : a < b => e[a] < b \/ e[b] < e[a]
  BY <1>2, <1>5, PartnersNest DEF n
<1>8. \A a, b \in O : a # b => e[a] # e[b]
  <2> TAKE a, b \in O
  <2>1. /\ a < b => e[a] < b \/ e[b] < e[a]
        /\ b < a => e[b] < a \/ e[a] < e[b]
    BY <1>7
  <2>2. /\ a \in 1 .. n /\ b \in 1 .. n /\ e[a] \in a + 1 .. n /\ e[b] \in b + 1 .. n
    BY <1>2, <1>6
  <2>3. /\ a \in Nat /\ b \in Nat /\ e[a] \in Nat /\ e[b] \in Nat /\ a < e[a] /\ b < e[b]
    BY <1>1, <2>2
  <2> QED
    BY <2>1, <2>3
<1>9. \A c \in C : \E k \in O : e[k] = c
  <2>1. \A k \in O : e[k] \in C
    BY <1>6
  <2> QED
    BY <1>3, <1>4, <1>8, <2>1, InjectedCovers
<1> QED
  BY <1>6, <1>7, <1>9 DEF IsMatching, n, O, C

LEMMA CloserNames == \A op, other \in Opening : Closer[op] = Closer[other] => op = other
  BY DEF Opening, Closer

\* u has of t the actions that open and close blocks like that at o.
LEMMA LikeMatches ==
    ASSUME NEW t, IsTemplate(t), WellNested(t), NEW op \in Opening, NEW u, NEW e,
           \A k \in 1 .. Len(t) : e[k] = PartnerOf(t, k),
           \A k \in 1 .. Len(t) : u[k].op = IF t[k].op \in {op, Closer[op]} THEN t[k].op ELSE "text"
    PROVE  IsMatching(u, Len(t), e)
<1> DEFINE n == Len(t)
           O == Opens(t, 1, n)
           C == Closes(t, 1, n)
           P == Opens(u, 1, n)
           D == Closes(u, 1, n)
<1>1. IsMatching(t, n, e)
  BY NestedMatches
<1>2. /\ \A k \in O : e[k] \in k + 1 .. n /\ e[k] \in C
      /\ \A c \in C : \E k \in O : e[k] = c
      /\ \A a, b \in O : a < b => e[a] < b \/ e[b] < e[a]
  BY <1>1 DEF IsMatching
<1>3. "text" \notin Opening \cup Closing
  BY DEF Opening, Closing, Closer
<1>4. \A k : k \in P <=> k \in 1 .. n /\ t[k].op = op
  <2>1. \A k \in 1 .. n : u[k].op \in Opening <=> t[k].op = op
    BY <1>3, ActionNames
  <2> QED
    BY <2>1 DEF Opens
<1>5. \A k : k \in D <=> k \in 1 .. n /\ t[k].op = Closer[op]
  <2>1. \A k \in 1 .. n : u[k].op \in Closing <=> t[k].op = Closer[op]
    BY <1>3, ActionNames
  <2> QED
    BY <2>1 DEF Closes
<1>6. \A k \in P : k \in O
  BY <1>4 DEF Opens
<1>7. \A k \in O : k \in 1 .. n /\ t[k].op \in Opening /\ t[e[k]].op = Closer[t[k].op]
  <2> TAKE k \in O
  <2>1. k \in 1 .. n /\ t[k].op \in Opening
    BY DEF Opens
  <2>2. t[PartnerOf(t, k)].op = Closer[t[k].op]
    BY <2>1, PartnerFacts
  <2> QED
    BY <2>1, <2>2
<1>8. \A c \in C : c \in 1 .. n
  BY DEF Closes
<1>9. \A k \in P : e[k] \in k + 1 .. n /\ e[k] \in D
  BY <1>2, <1>4, <1>5, <1>6, <1>7, <1>8
<1>10. ASSUME NEW c \in D
       PROVE  \E k \in P : e[k] = c
  <2>1. c \in 1 .. n /\ t[c].op = Closer[op]
    BY <1>5
  <2>2. c \in C
    BY <2>1, ActionNames DEF Closes
  <2>3. PICK k \in O : e[k] = c
    BY <1>2, <2>2
  <2>4. t[k].op = op
    BY <1>7, <2>1, <2>3, CloserNames
  <2> QED
    BY <1>4, <1>7, <2>3, <2>4
<1> HIDE DEF n, O, C, P, D
<1>11. \A a, b \in P : a < b => e[a] < b \/ e[b] < e[a]
  BY <1>2, <1>6
<1> QED
  BY <1>9, <1>10, <1>11 DEF IsMatching, P, D, n

\* In a well nested list the end that findBlock finds, which counts the actions
\* of one name, is the partner in the nesting of both kinds, in every part of the
\* list that has it.
THEOREM EndIsPartner ==
    ASSUME NEW t, IsTemplate(t), WellNested(t), NEW o \in 1 .. Len(t), t[o].op \in Opening
    PROVE  /\ EndOf(t, o) = PartnerOf(t, o)
           /\ \A to \in Nat : PartnerOf(t, o) <= to /\ to <= Len(t) => IsBlock(t, o, to)
<1> DEFINE n == Len(t)
           op == t[o].op
           cl == Closer[t[o].op]
           u == [k \in 1 .. n |-> [op |-> IF t[k].op \in {op, cl} THEN t[k].op ELSE "text"]]
           e == [k \in 1 .. n |-> PartnerOf(t, k)]
           d == PartnerOf(t, o)
<1>1. n \in Nat /\ o \in Nat /\ 1 <= o /\ o <= n /\ d \in Nat /\ o < d /\ d <= n
  BY PartnerFacts DEF IsTemplate
<1>2. /\ \A k \in 1 .. n : e[k] = PartnerOf(t, k)
      /\ \A k \in 1 .. n : u[k].op = IF t[k].op \in {op, cl} THEN t[k].op ELSE "text"
      /\ e[o] = d
  OBVIOUS
<1>3. op \in Opening /\ cl \in Closing /\ cl \notin Opening /\ op \notin Closing /\ op # cl
  BY ActionNames
<1>4. "text" \notin Opening \cup Closing
  BY DEF Opening, Closing, Closer
<1> HIDE DEF u, e, d
<1>5. IsMatching(u, n, e)
  BY <1>2, LikeMatches
<1>6. o \in Opens(u, 1, n)
  <2>1. u[o].op = op
    BY <1>2
  <2> QED
    BY <1>3, <2>1 DEF Opens
<1>7. /\ \A j \in o .. d - 1 : Cardinality(Closes(u, o, j)) < Cardinality(Opens(u, o, j))
      /\ Cardinality(Closes(u, o, d)) = Cardinality(Opens(u, o, d))
  BY <1>1, <1>2, <1>5, <1>6, PartnerBalances
<1>8. ASSUME NEW p \in o .. n
      PROVE  /\ DepthOf(t, o, p) = Cardinality(Opens(u, o, p)) - Cardinality(Closes(u, o, p))
             /\ Cardinality(Opens(u, o, p)) \in Nat /\ Cardinality(Closes(u, o, p)) \in Nat
  <2>1. \A k \in o .. p : /\ k \in 1 .. n
                          /\ u[k].op \in Opening <=> t[k].op = op
                          /\ u[k].op \in Closing <=> t[k].op = cl
    <3> TAKE k \in o .. p
    <3>1. k \in 1 .. n
      BY <1>1
    <3>2. u[k].op = IF t[k].op \in {op, cl} THEN t[k].op ELSE "text"
      BY <1>2, <3>1
    <3> QED
      BY <1>3, <1>4, <3>1, <3>2
  <2> DEFINE A == Named(t, o, p, op)
             B == Named(t, o, p, cl)
  <2>2. o \notin A /\ Opens(u, o, p) = A \cup {o}
    BY <1>1, <2>1 DEF Opens, Named
  <2>3. Closes(u, o, p) = B
    BY <1>1, <1>3, <2>1 DEF Closes, Named
  <2>4. A \in SUBSET (o + 1 .. p) /\ B \in SUBSET (o + 1 .. p) /\ IsFiniteSet(o + 1 .. p)
    <3>1. A \in SUBSET (o + 1 .. p) /\ B \in SUBSET (o + 1 .. p)
      BY DEF Named
    <3>2. o + 1 \in Int /\ p \in Int
      BY <1>1
    <3> QED
      BY <3>1, <3>2, FS_Interval
  <2>5. IsFiniteSet(A) /\ Cardinality(A) \in Nat /\ IsFiniteSet(B) /\ Cardinality(B) \in Nat
    BY <2>4, FS_Subset, FS_CardinalityType
  <2>6. Cardinality(A \cup {o}) = Cardinality(A) + 1
    BY <2>2, <2>5, FS_AddElement
  <2>7. DepthOf(t, o, p) = 1 + Cardinality(A) - Cardinality(B)
    BY DEF DepthOf
  <2> HIDE DEF A, B
  <2> QED
    BY <2>2, <2>3, <2>5, <2>6, <2>7
<1> HIDE DEF n, op, cl
<1>9. DepthOf(t, o, d) = 0
  <2>1. d \in o .. n
    BY <1>1
  <2> QED
    BY <1>7, <1>8, <2>1
<1>10. ASSUME NEW p \in o + 1 .. n, DepthOf(t, o, p) = 0
       PROVE  d <= p
  <2>1. p \in o .. n /\ (p < d => p \in o .. d - 1)
    BY <1>1
  <2>2. /\ 0 = Cardinality(Opens(u, o, p)) - Cardinality(Closes(u, o, p))
        /\ Cardinality(Opens(u, o, p)) \in Nat /\ Cardinality(Closes(u, o, p)) \in Nat
    BY <1>8, <1>10, <2>1
  <2>3. ~ p < d
    BY <1>7, <2>1, <2>2
  <2> QED
    BY <1>1, <2>3
<1>11. EndOf(t, o) = d
  <2> DEFINE S == {p \in o + 1 .. n : DepthOf(t, o, p) = 0}
  <2>1. S \subseteq Nat /\ d \in S /\ \A p \in S : d <= p
    BY <1>1, <1>9, <1>10
  <2> HIDE DEF S
  <2>2. Min(S) \in S /\ Min(S) <= d
    BY <2>1, MinIsLeast
  <2>3. Min(S) \in Nat /\ d <= Min(S)
    BY <2>1, <2>2
  <2>4. Min(S) = d
    BY <1>1, <2>2, <2>3
  <2> QED
    BY <2>4 DEF S, EndOf, n
<1>12. ASSUME NEW to \in Nat, d <= to, to <= n
       PROVE  IsBlock(t, o, to)
  <2>1. d \in o + 1 .. to /\ o \in 1 .. to
    BY <1>1, <1>12
  <2> QED
    BY <1>9, <2>1 DEF IsBlock
<1> QED
  BY <1>11, <1>12 DEF d, n

\* A part in which all blocks that open are closed, and no others.
IsWhole(t, z) ==
    /\ Level(t, z[2] + 1) = Level(t, z[1])
    /\ \A j \in z[1] .. z[2] + 1 : Level(t, j) >= Level(t, z[1])
    /\ z[2] < Len(t) => t[z[2] + 1].op \in Closing

LEMMA WholeFacts ==
    ASSUME NEW t, IsTemplate(t), WellNested(t), NEW z, IsPart(t, z), IsWhole(t, z),
           NEW i \in z[1] .. z[2], Level(t, i) = Level(t, z[1])
    PROVE  /\ t[i].op \notin Closing \cup {"/other"}
           /\ CanPass(t, i, z[2])
           /\ After(t, i) = Following(t, i) /\ Level(t, After(t, i)) = Level(t, z[1])
           /\ t[i].op \in Opening => /\ IsBlock(t, i, z[2])
                                     /\ EndOf(t, i) = PartnerOf(t, i)
<1>1. /\ Len(t) \in Nat /\ z[1] \in Nat /\ z[2] \in Nat /\ 1 <= z[1] /\ z[2] <= Len(t)
      /\ i \in Nat /\ i \in 1 .. Len(t) /\ i \in 1 .. z[2] /\ i + 1 \in z[1] .. z[2] + 1
  BY DEF IsPart, IsTemplate
<1>2. /\ Level(t, z[2] + 1) = Level(t, i) /\ Level(t, i + 1) >= Level(t, i)
  BY <1>1 DEF IsWhole
<1>3. Level(t, i) \in Int /\ Level(t, z[2] + 1) \in Int /\ Level(t, i + 1) \in Int
  <2>1. i \in 1 .. Len(t) + 1 /\ z[2] + 1 \in 1 .. Len(t) + 1 /\ i + 1 \in 1 .. Len(t) + 1
    BY <1>1
  <2> QED
    BY <2>1, LevelFacts
<1>4. t[i].op \notin Closing \cup {"/other"}
  <2>1. t[i].op \in Closing => Level(t, i + 1) = Level(t, i) - 1
    BY <1>1, LevelFacts
  <2>2. t[i].op # "/other"
    BY <1>1, NestedLevels
  <2> QED
    BY <1>2, <1>3, <2>1, <2>2
<1>5. ASSUME t[i].op \in Opening
      PROVE  /\ IsBlock(t, i, z[2]) /\ EndOf(t, i) = PartnerOf(t, i)
             /\ Level(t, PartnerOf(t, i) + 1) = Level(t, i)
  <2> DEFINE d == PartnerOf(t, i)
  <2>1. /\ d \in Nat /\ i < d /\ d <= Len(t) /\ Level(t, d + 1) = Level(t, i)
        /\ \A j \in i + 1 .. d : Level(t, j) > Level(t, i)
    BY <1>1, <1>5, PartnerFacts
  <2>2. EndOf(t, i) = d /\ \A to \in Nat : d <= to /\ to <= Len(t) => IsBlock(t, i, to)
    BY <1>1, <1>5, EndIsPartner
  <2> HIDE DEF d
  <2>3. d <= z[2]
    <3>1. SUFFICES ASSUME z[2] < d PROVE FALSE
      BY <1>1, <2>1
    <3>2. z[2] + 1 \in i + 1 .. d
      BY <1>1, <2>1, <3>1
    <3>3. Level(t, z[2] + 1) > Level(t, i)
      BY <2>1, <3>2
    <3> QED
      BY <1>2, <1>3, <3>3
  <2> QED
    BY <1>1, <2>1, <2>2, <2>3 DEF d
<1>6. CASE t[i].op \in Opening
  BY <1>1, <1>4, <1>5, <1>6 DEF CanPass, After, Following
<1>7. CASE t[i].op \notin Opening
  <2>1. Level(t, i + 1) = Level(t, i)
    BY <1>1, <1>4, <1>7, LevelFacts
  <2> QED
    BY <1>1, <1>4, <1>7, <2>1 DEF CanPass, After, Following
<1> QED
  BY <1>6, <1>7

LEMMA WalkLevel ==
    ASSUME NEW t, IsTemplate(t), WellNested(t), NEW z, IsPart(t, z), IsWhole(t, z)
    PROVE  \A i \in Walk(t, z[1], z[2]) : i \in z[1] .. z[2] + 1 /\ Level(t, i) = Level(t, z[1])
<1> DEFINE S == {i \in z[1] .. z[2] + 1 : Level(t, i) = Level(t, z[1])}
<1>1. /\ z[1] \in Nat /\ z[2] \in Nat /\ z[1] <= z[2] + 1 /\ z[2] <= Len(t)
  BY DEF IsPart
<1>2. S \in SUBSET Nat /\ z[1] \in S
  BY <1>1
<1>3. ASSUME NEW i \in S, CanPass(t, i, z[2])
      PROVE  After(t, i) \in S
  <2>1. i \in z[1] .. z[2] /\ Level(t, i) = Level(t, z[1])
    BY <1>1, <1>3 DEF CanPass
  <2>2. Level(t, After(t, i)) = Level(t, z[1])
    BY <2>1, WholeFacts
  <2>3. After(t, i) \in Nat /\ i < After(t, i) /\ After(t, i) <= z[2] + 1
    BY <1>1, <1>3, AfterFacts
  <2>4. After(t, i) \in z[1] .. z[2] + 1
    BY <1>1, <2>1, <2>3
  <2> QED
    BY <2>2, <2>4
<1> HIDE DEF S
<1>4. HoldsWalk(t, z[1], z[2], S)
  BY <1>2, <1>3 DEF HoldsWalk
<1>5. Walk(t, z[1], z[2]) \subseteq S
  BY <1>2, <1>4, WalkWithin
<1> QED
  BY <1>5 DEF S

LEMMA PartsAreWhole ==
    ASSUME NEW t, IsTemplate(t), WellNested(t)
    PROVE  \A z \in Parts(t) : IsPart(t, z) /\ IsWhole(t, z)
<1> DEFINE S == {z \in Nat \X Nat : IsWhole(t, z)}
<1>1. Len(t) \in Nat
  BY DEF IsTemplate
<1>2. <<1, Len(t)>> \in S
  <2>1. Level(t, 1) = 0 /\ Level(t, Len(t) + 1) = 0 /\ \A i \in 1 .. Len(t) + 1 : Level(t, i) >= 0
    BY NestedLevels, LevelFacts
  <2> QED
    BY <1>1, <2>1 DEF IsWhole
<1>3. ASSUME NEW z \in Parts(t), z \in S, NEW o \in Walk(t, z[1], z[2]), IsBlock(t, o, z[2])
      PROVE  Body(t, o) \in S
  <2>1. IsPart(t, z) /\ IsWhole(t, z)
    BY <1>3, PartsGoOn
  <2>2. /\ o \in Nat /\ IsPart(t, Body(t, o))
        /\ Body(t, o)[1] = o + 1 /\ Body(t, o)[2] = EndOf(t, o) - 1
    BY <1>3, <2>1, BodyFacts
  <2>3. t[o].op \in Opening /\ o \in 1 .. Len(t)
    BY <1>1, <1>3, <2>1 DEF IsBlock, IsPart
  <2> DEFINE d == PartnerOf(t, o)
  <2>4. /\ d \in Nat /\ o < d /\ d <= Len(t) /\ Level(t, d + 1) = Level(t, o)
        /\ \A j \in o + 1 .. d : Level(t, j) > Level(t, o)
        /\ t[d].op \in Closing
    BY <2>3, PartnerFacts
  <2>5. EndOf(t, o) = d
    BY <2>3, EndIsPartner
  <2> HIDE DEF d
  <2>6. Level(t, o + 1) = Level(t, o) + 1
    BY <2>3, LevelFacts
  <2>7. Level(t, d + 1) = Level(t, d) - 1
    <3>1. d \in 1 .. Len(t)
      BY <1>1, <2>2, <2>4
    <3> QED
      BY <2>4, <3>1, LevelFacts
  <2>8. /\ Level(t, o) \in Int /\ Level(t, d) \in Int
        /\ \A j \in o + 1 .. d : Level(t, j) \in Int
    <3>1. \A j \in o .. d : j \in 1 .. Len(t) + 1
      BY <1>1, <2>2, <2>3, <2>4
    <3>2. o \in o .. d /\ d \in o .. d /\ \A j \in o + 1 .. d : j \in o .. d
      BY <2>2, <2>4
    <3> QED
      BY <3>1, <3>2, LevelFacts
  <2>9. /\ Level(t, d) = Level(t, o + 1)
        /\ \A j \in o + 1 .. d : Level(t, j) >= Level(t, o + 1)
    BY <2>4, <2>6, <2>7, <2>8
  <2>10. Body(t, o)[2] + 1 = d /\ Body(t, o) \in Nat \X Nat
    BY <2>2, <2>4, <2>5 DEF IsPart
  <2>11. IsWhole(t, Body(t, o))
    BY <2>2, <2>4, <2>9, <2>10 DEF IsWhole
  <2> QED
    BY <2>10, <2>11
<1> HIDE DEF S
<1>4. Parts(t) \subseteq S
  BY <1>2, <1>3, PartsInduction
<1> QED
  BY <1>4, PartsGoOn DEF S

\* On the walk of a part, the renderer meets no action it would fail on but an
\* unknown name, and finds each block's end where the partner is.
LEMMA WalkedFacts ==
    ASSUME NEW t, IsTemplate(t), WellNested(t), NEW z \in Parts(t),
           NEW i \in Walk(t, z[1], z[2])
    PROVE  /\ i \in Nat /\ 1 <= i /\ i <= z[2] + 1 /\ z[2] \in Nat /\ z[2] <= Len(t)
           /\ i <= z[2] => /\ i \in 1 .. Len(t)
                           /\ t[i].op \notin Closing \cup {"/other"}
                           /\ CanPass(t, i, z[2])
                           /\ After(t, i) = Following(t, i)
                           /\ t[i].op \in Opening => /\ IsBlock(t, i, z[2])
                                                     /\ EndOf(t, i) = PartnerOf(t, i)
           /\ z[2] < i => i > Len(t) \/ t[i].op \in Closing
<1>1. IsPart(t, z) /\ IsWhole(t, z)
  BY PartsAreWhole
<1>2. i \in z[1] .. z[2] + 1 /\ Level(t, i) = Level(t, z[1])
  BY <1>1, WalkLevel
<1>3. /\ z[1] \in Nat /\ z[2] \in Nat /\ 1 <= z[1] /\ z[2] <= Len(t) /\ Len(t) \in Nat
      /\ i \in Nat /\ 1 <= i /\ i <= z[2] + 1
  BY <1>1, <1>2 DEF IsPart, IsTemplate
<1>4. ASSUME i <= z[2]
      PROVE  /\ i \in 1 .. Len(t)
             /\ t[i].op \notin Closing \cup {"/other"}
             /\ CanPass(t, i, z[2])
             /\ After(t, i) = Following(t, i)
             /\ t[i].op \in Opening => /\ IsBlock(t, i, z[2])
                                       /\ EndOf(t, i) = PartnerOf(t, i)
  <2>1. i \in z[1] .. z[2] /\ i \in 1 .. Len(t)
    BY <1>2, <1>3, <1>4
  <2> QED
    BY <1>1, <1>2, <2>1, WholeFacts
<1>5. z[2] < i => i > Len(t) \/ t[i].op \in Closing
  <2>1. SUFFICES ASSUME z[2] < i, ~ i > Len(t) PROVE t[i].op \in Closing
    OBVIOUS
  <2>2. i = z[2] + 1 /\ z[2] < Len(t)
    BY <1>3, <2>1
  <2> QED
    BY <1>1, <2>2 DEF IsWhole
<1> QED
  BY <1>3, <1>4, <1>5

(***************************************************************************)
(* A list of lists, flattened                                              *)
(***************************************************************************)
LEMMA Regroup ==
    ASSUME NEW S, NEW a \in Seq(S), NEW b \in Seq(S), NEW c \in Seq(S)
    PROVE  (a \o b) \o c = a \o (b \o c) /\ a \o b \in Seq(S) /\ b \o c \in Seq(S)
  OBVIOUS

IsGrouped(a, b, c) == (a \o b) \o c = a \o (b \o c)

LEMMA Grouped ==
    ASSUME NEW S, NEW a, a \in Seq(S), NEW b, b \in Seq(S), NEW c, c \in Seq(S)
    PROVE  IsGrouped(a, b, c)
  BY DEF IsGrouped

IsFlat(g, s, n) == g = [i \in 1 .. n |-> IF i = 1 THEN s[i] ELSE g[i - 1] \o s[i]]

Flat(s) == CHOOSE g : IsFlat(g, s, Len(s))

LEMMA FlatExists ==
    ASSUME NEW s, NEW n \in Nat
    PROVE  \E g : IsFlat(g, s, n)
<1> DEFINE bad == {m \in Nat : ~ \E g : IsFlat(g, s, m)}
<1>1. SUFFICES ASSUME n \in bad PROVE FALSE
  OBVIOUS
<1>2. PICK m \in bad : \A k \in bad : m <= k
  <2>1. bad \subseteq Nat /\ bad # {}
    BY <1>1
  <2> HIDE DEF bad
  <2> QED
    BY <2>1, LeastNatural
<1>3. CASE m = 0
  <2> DEFINE g == [i \in 1 .. 0 |-> s[i]]
  <2>1. g = [i \in 1 .. 0 |-> IF i = 1 THEN s[i] ELSE g[i - 1] \o s[i]]
    OBVIOUS
  <2> QED
    BY <1>2, <1>3, <2>1 DEF IsFlat
<1>4. CASE m # 0
  <2>1. m - 1 \in Nat /\ m - 1 \notin bad
    BY <1>2, <1>4
  <2>2. PICK g : IsFlat(g, s, m - 1)
    BY <2>1
  <2> DEFINE F(f, i) == IF i = 1 THEN s[i] ELSE f[i - 1] \o s[i]
             h == [i \in 1 .. m |-> IF i < m THEN g[i] ELSE F(g, i)]
  <2>3. \A i \in 1 .. m : F(h, i) = F(g, i)
    <3> TAKE i \in 1 .. m
    <3>1. i # 1 => i - 1 \in 1 .. m /\ i - 1 < m
      OBVIOUS
    <3>2. i # 1 => h[i - 1] = g[i - 1]
      BY <3>1
    <3> QED
      BY <3>2
  <2>4. \A i \in 1 .. m : i < m => g[i] = F(g, i)
    <3> TAKE i \in 1 .. m
    <3>1. i < m => i \in 1 .. m - 1
      OBVIOUS
    <3> QED
      BY <2>2, <3>1 DEF IsFlat
  <2>5. \A i \in 1 .. m : h[i] = F(g, i)
    BY <2>4
  <2>6. h = [i \in 1 .. m |-> F(h, i)]
    <3>1. DOMAIN h = 1 .. m /\ h = [i \in 1 .. m |-> h[i]]
      OBVIOUS
    <3> HIDE DEF h, F
    <3> QED
      BY <2>3, <2>5, <3>1
  <2>7. IsFlat(h, s, m)
    <3> HIDE DEF h
    <3> QED
      BY <2>6 DEF IsFlat
  <2> QED
    BY <1>2, <2>7
<1> QED
  BY <1>3, <1>4

Lists(S) == Seq(Seq(S))

LEMMA FlatFacts ==
    ASSUME NEW S, NEW s \in Lists(S), s # <<>>
    PROVE  /\ Len(s) \in Nat /\ 1 <= Len(s)
           /\ FlattenSeq(s) = Flat(s)[Len(s)]
           /\ Flat(s)[1] = s[1]
           /\ \A i \in 2 .. Len(s) : Flat(s)[i] = Flat(s)[i - 1] \o s[i]
           /\ \A i \in 1 .. Len(s) : Flat(s)[i] \in Seq(S)
<1>1. Len(s) \in Nat /\ 1 <= Len(s) /\ Len(s) # 0
  BY EmptySeq DEF Lists
<1>2. FlattenSeq(s) = Flat(s)[Len(s)]
  BY <1>1 DEF FlattenSeq, Flat, IsFlat
<1>3. IsFlat(Flat(s), s, Len(s))
  BY <1>1, FlatExists DEF Flat
<1> DEFINE f == Flat(s)
           n == Len(s)
<1>4. f = [i \in 1 .. n |-> IF i = 1 THEN s[i] ELSE f[i - 1] \o s[i]]
  BY <1>3 DEF IsFlat
<1>5. \A i \in 1 .. n : s[i] \in Seq(S)
  BY ElementOfSeq DEF Lists
<1> HIDE DEF f, n
<1>6. f[1] = s[1]
  BY <1>1, <1>4 DEF n
<1>7. \A i \in 2 .. n : f[i] = f[i - 1] \o s[i]
  <2> TAKE i \in 2 .. n
  <2>1. i \in 1 .. n /\ i # 1
    BY <1>1 DEF n
  <2> QED
    BY <1>4, <2>1
<1>8. \A i \in 1 .. n : f[i] \in Seq(S)
  <2> DEFINE bad == {i \in 1 .. n : f[i] \notin Seq(S)}
  <2>1. SUFFICES ASSUME bad # {} PROVE FALSE
    OBVIOUS
  <2>2. bad \subseteq Nat
    OBVIOUS
  <2>3. PICK m \in bad : \A k \in bad : m <= k
    <3> HIDE DEF bad
    <3> QED
      BY <2>1, <2>2, LeastNatural
  <2>4. CASE m = 1
    BY <1>1, <1>5, <1>6, <2>3, <2>4
  <2>5. CASE m # 1
    <3>1. m \in 2 .. n /\ m \in 1 .. n /\ m - 1 \in 1 .. n /\ ~ m <= m - 1
      BY <1>1, <2>3, <2>5 DEF n
    <3>2. f[m - 1] \in Seq(S)
      BY <2>3, <3>1
    <3>3. f[m] \in Seq(S)
      BY <1>5, <1>7, <3>1, <3>2, ConcatProperties
    <3> QED
      BY <2>3, <3>3
  <2> QED
    BY <2>4, <2>5
<1> QED
  BY <1>1, <1>2, <1>6, <1>7, <1>8 DEF f, n

LEMMA FlattenFirst ==
    ASSUME NEW S, NEW s \in Lists(S), s # <<>>
    PROVE  /\ FlattenSeq(s) = s[1] \o FlattenSeq(Tail(s))
           /\ Tail(s) \in Lists(S) /\ s[1] \in Seq(S)
           /\ FlattenSeq(s) \in Seq(S)
<1> DEFINE n == Len(s)
           t == Tail(s)
           f == Flat(s)
           g == Flat(t)
<1>1. /\ n \in Nat /\ 1 <= n
      /\ FlattenSeq(s) = f[n] /\ f[1] = s[1]
      /\ \A i \in 2 .. n : f[i] = f[i - 1] \o s[i]
      /\ \A i \in 1 .. n : f[i] \in Seq(S)
  BY FlatFacts
<1>2. t \in Lists(S) /\ Len(t) = n - 1 /\ \A i \in 1 .. n - 1 : t[i] = s[i + 1]
  BY HeadTailProperties DEF Lists
<1>3. \A i \in 1 .. n : s[i] \in Seq(S)
  BY ElementOfSeq DEF Lists
<1> HIDE DEF n, t, f, g
<1>4. FlattenSeq(s) \in Seq(S) /\ s[1] \in Seq(S)
  BY <1>1, <1>3
<1>5. CASE n = 1
  <2>1. t = <<>> /\ FlattenSeq(t) = t
    BY <1>2, <1>5, EmptySeq DEF FlattenSeq, Lists
  <2>2. s[1] \o <<>> = s[1]
    BY <1>4, ConcatEmptySeq
  <2> QED
    BY <1>1, <1>2, <1>4, <1>5, <2>1, <2>2 DEF t
<1>6. CASE n # 1
  <2>1. t # <<>>
    BY <1>1, <1>2, <1>6, EmptySeq
  <2>2. /\ FlattenSeq(t) = g[n - 1] /\ g[1] = t[1]
        /\ \A i \in 2 .. n - 1 : g[i] = g[i - 1] \o t[i]
        /\ \A i \in 1 .. n - 1 : g[i] \in Seq(S)
    BY <1>2, <2>1, FlatFacts DEF g
  <2> DEFINE bad == {i \in 1 .. n - 1 : f[i + 1] # s[1] \o g[i]}
  <2>3. bad = {}
    <3>1. SUFFICES ASSUME bad # {} PROVE FALSE
      OBVIOUS
    <3>2. bad \subseteq Nat
      <4>1. bad \subseteq 1 .. n - 1
        OBVIOUS
      <4>2. n - 1 \in Int
        BY <1>1
      <4> HIDE DEF bad
      <4> QED
        BY <4>1, <4>2
    <3>3. PICK m \in bad : \A k \in bad : m <= k
      <4> HIDE DEF bad
      <4> QED
        BY <3>1, <3>2, LeastNatural
    <3>4. m \in 1 .. n - 1 /\ m + 1 \in 2 .. n /\ (m + 1) - 1 = m
      BY <1>1, <3>3
    <3>5. f[m + 1] = f[m] \o s[m + 1] /\ t[m] = s[m + 1] /\ t[m] \in Seq(S)
      <4>1. m + 1 \in 1 .. n
        BY <1>1, <3>4
      <4> QED
        BY <1>1, <1>2, <1>3, <3>4, <4>1
    <3>6. CASE m = 1
      BY <1>1, <2>2, <3>3, <3>5, <3>6
    <3>7. CASE m # 1
      <4>1. /\ m - 1 \in 1 .. n - 1 /\ (m - 1) + 1 = m /\ ~ m <= m - 1 /\ m \in 2 .. n - 1
        BY <1>1, <3>4, <3>7
      <4>2. f[m] = s[1] \o g[m - 1]
        BY <3>3, <4>1
      <4>3. g[m] = g[m - 1] \o t[m] /\ g[m - 1] \in Seq(S)
        BY <2>2, <4>1
      <4>4. (s[1] \o g[m - 1]) \o t[m] = s[1] \o (g[m - 1] \o t[m])
        <5>1. s[1] \in Seq(S) /\ g[m - 1] \in Seq(S) /\ t[m] \in Seq(S)
          BY <1>4, <3>5, <4>3
        <5> HIDE DEF bad
        <5>2. IsGrouped(s[1], g[m - 1], t[m])
          BY <5>1, Grouped, Zenon
        <5> QED
          BY <5>2, Zenon DEF IsGrouped
      <4> QED
        BY <3>3, <3>5, <4>2, <4>3, <4>4
    <3> QED
      BY <3>6, <3>7
  <2>4. n - 1 \in 1 .. n - 1 /\ (n - 1) + 1 = n
    BY <1>1, <1>6
  <2>5. f[n] = s[1] \o g[n - 1]
    BY <2>3, <2>4
  <2> QED
    BY <1>1, <1>2, <1>4, <2>2, <2>5 DEF t
<1> QED
  BY <1>5, <1>6

LEMMA FlattenNone == FlattenSeq(<<>>) = <<>>
  BY EmptySeq DEF FlattenSeq

(***************************************************************************)
(* What a template means, in lists over Outs(t)                            *)
(***************************************************************************)
Outs(t) == Values \cup {Error} \cup {Value(t[i].expr) : i \in DOMAIN t}

IsKnown(e, bound) == e = "@last" \/ e \in DOMAIN Helpers \/ e \in DOMAIN bound

ItemsOf(e, bound, last) == toItems(ValueOf(e, bound, last))

\* The meanings of the body at from, for each item.
Turns(rest, from, outer, as, items) ==
    [k \in DOMAIN items |-> rest[At(from, Bind(outer, as, items[k]), k = Len(items))]]

LEMMA AtFacts ==
    ASSUME NEW lo, NEW bound, NEW last
    PROVE  /\ At(lo, bound, last).lo = lo
           /\ At(lo, bound, last).bound = bound
           /\ At(lo, bound, last).last = last
  BY DEF At

LEMMA ReadingFacts ==
    ASSUME NEW t
    PROVE  /\ \A lo \in 1 .. Len(t) + 1 : \A bound \in Contexts : \A last \in BOOLEAN :
                 At(lo, bound, last) \in Readings(t)
           /\ \A r \in Readings(t) : /\ r.lo \in 1 .. Len(t) + 1 /\ r.bound \in Contexts
                                     /\ r.last \in BOOLEAN
                                     /\ r = At(r.lo, r.bound, r.last)
  BY DEF At, Readings

LEMMA ContextFacts ==
    /\ NoVars \in Contexts
    /\ \A b \in Contexts : \A x \in DOMAIN b : b[x] \in Values
    /\ \A b \in Contexts : \A name \in Names : \A v \in Values : Bind(b, name, v) \in Contexts
<1>1. NoVars \in Contexts
  <2>1. NoVars \in [{} -> Values] /\ {} \in SUBSET Names
    BY DEF NoVars
  <2> QED
    BY <2>1 DEF Contexts
<1>2. \A b \in Contexts : \A x \in DOMAIN b : b[x] \in Values
  BY DEF Contexts
<1>3. ASSUME NEW b \in Contexts, NEW name \in Names, NEW v \in Values
      PROVE  Bind(b, name, v) \in Contexts
  <2>1. PICK N \in SUBSET Names : b \in [N -> Values]
    BY DEF Contexts
  <2>2. N \cup {name} \in SUBSET Names
    OBVIOUS
  <2>3. Bind(b, name, v) \in [N \cup {name} -> Values]
    BY <2>1 DEF Bind
  <2> QED
    BY <2>2, <2>3 DEF Contexts
<1> QED
  BY <1>1, <1>2, <1>3

LEMMA ValueFacts ==
    ASSUME NEW e, NEW b \in Contexts, NEW last \in BOOLEAN, IsKnown(e, b)
    PROVE  /\ ValueOf(e, b, last) \in Values
           /\ ItemsOf(e, b, last) \in Seq(Values)
           /\ stringify(ValueOf(e, b, last)) \in Seq(Values)
<1>1. ValueOf(e, b, last) \in Values
  BY MeaningAssumption, ContextFacts DEF ValueOf, IsKnown
<1>2. ASSUME NEW v \in Values
      PROVE  toItems(v) \in Seq(Values) /\ stringify(v) \in Seq(Values)
  <2>1. v.is = "list" => v.items \in Seq(Values)
    BY MeaningAssumption
  <2>2. <<>> \in Seq(Values) /\ <<v>> \in Seq(Values)
    OBVIOUS
  <2> QED
    BY <2>1, <2>2 DEF toItems, stringify
<1> QED
  BY <1>1, <1>2 DEF ItemsOf

LEMMA HereCases ==
    ASSUME NEW rest, NEW t, NEW r
    PROVE  /\ t[r.lo].op = "text" => MeaningHere(rest, t, r) = <<Value(t[r.lo].expr)>>
           /\ t[r.lo].op = "#unless" =>
                 MeaningHere(rest, t, r) =
                    IF t[r.lo].expr = "@last" /\ r.last THEN <<>>
                    ELSE rest[At(r.lo + 1, r.bound, r.last)]
           /\ t[r.lo].op \in {"eval", "#each"} /\ ~ IsKnown(t[r.lo].expr, r.bound) =>
                 MeaningHere(rest, t, r) = <<Error>>
           /\ t[r.lo].op = "eval" /\ IsKnown(t[r.lo].expr, r.bound) =>
                 MeaningHere(rest, t, r) = stringify(ValueOf(t[r.lo].expr, r.bound, r.last))
           /\ t[r.lo].op = "#each" /\ IsKnown(t[r.lo].expr, r.bound) =>
                 MeaningHere(rest, t, r) =
                    FlattenSeq(Turns(rest, r.lo + 1, r.bound, t[r.lo].as,
                                     ItemsOf(t[r.lo].expr, r.bound, r.last)))
  BY DEF MeaningHere, IsKnown, Turns, ItemsOf

\* Where the meaning of what is behind the text, expression or block at r is
\* asked for.
LEMMA ReadsBehind ==
    ASSUME NEW t \in Templates, WellNested(t), NEW r \in Readings(t),
           r.lo <= Len(t), t[r.lo].op \notin Closing
    PROVE  /\ r.lo \in DOMAIN t /\ r.lo \in Nat /\ Len(t) \in Nat
           /\ t[r.lo].op \in {"text", "eval", "#each", "#unless"}
           /\ Following(t, r.lo) \in r.lo + 1 .. Len(t) + 1
           /\ At(Following(t, r.lo), r.bound, r.last) \in Readings(t)
           /\ At(r.lo + 1, r.bound, r.last) \in Readings(t)
           /\ \A items \in Seq(Values) : \A k \in DOMAIN items :
                 t[r.lo].op = "#each" =>
                    At(r.lo + 1, Bind(r.bound, t[r.lo].as, items[k]), k = Len(items)) \in Readings(t)
<1>1. /\ IsTemplate(t) /\ Len(t) \in Nat /\ DOMAIN t = 1 .. Len(t)
  BY TemplatesAre DEF IsTemplate
<1>2. r.lo \in 1 .. Len(t) + 1 /\ r.bound \in Contexts /\ r.last \in BOOLEAN
  BY ReadingFacts
<1>3. r.lo \in 1 .. Len(t) /\ r.lo \in Nat /\ r.lo + 1 \in r.lo + 1 .. Len(t) + 1
  BY <1>1, <1>2
<1>4. t[r.lo].op \in {"text", "eval", "#each", "#unless"}
  <2>1. t[r.lo].op \in {"text", "eval", "/other"} \cup Opening \cup Closing
    BY <1>1, <1>3 DEF IsTemplate
  <2>2. t[r.lo].op # "/other"
    BY <1>1, <1>3, NestedLevels
  <2> QED
    BY <2>1, <2>2 DEF Opening
<1>5. Following(t, r.lo) \in r.lo + 1 .. Len(t) + 1
  <2>1. CASE t[r.lo].op \in Opening
    <3>1. PartnerOf(t, r.lo) \in Nat /\ r.lo < PartnerOf(t, r.lo) /\ PartnerOf(t, r.lo) <= Len(t)
      BY <1>1, <1>3, <2>1, PartnerFacts
    <3>2. Following(t, r.lo) = PartnerOf(t, r.lo) + 1
      BY <2>1 DEF Following
    <3> QED
      BY <1>1, <1>3, <3>1, <3>2
  <2>2. CASE t[r.lo].op \notin Opening
    BY <1>3, <2>2 DEF Following
  <2> QED
    BY <2>1, <2>2
<1>6. \A lo \in r.lo + 1 .. Len(t) + 1 : lo \in 1 .. Len(t) + 1
  BY <1>1, <1>3
<1>7. /\ At(Following(t, r.lo), r.bound, r.last) \in Readings(t)
      /\ At(r.lo + 1, r.bound, r.last) \in Readings(t)
  BY <1>2, <1>3, <1>5, <1>6, ReadingFacts
<1>8. ASSUME NEW items \in Seq(Values), NEW k \in DOMAIN items, t[r.lo].op = "#each"
      PROVE  At(r.lo + 1, Bind(r.bound, t[r.lo].as, items[k]), k = Len(items)) \in Readings(t)
  <2>1. items[k] \in Values
    BY LenProperties, ElementOfSeq
  <2>2. t[r.lo].as \in Names
    BY <1>1, <1>3, <1>8, MeaningAssumption
  <2>3. Bind(r.bound, t[r.lo].as, items[k]) \in Contexts
    BY <1>2, <2>1, <2>2, ContextFacts
  <2>4. (k = Len(items)) \in BOOLEAN
    OBVIOUS
  <2> QED
    BY <1>3, <1>6, <2>3, <2>4, ReadingFacts
<1> QED
  BY <1>1, <1>3, <1>4, <1>5, <1>7, <1>8

LEMMA MeaningUses ==
    ASSUME NEW t \in Templates, WellNested(t), NEW r \in Readings(t), NEW g, NEW h,
           \A q \in Readings(t) : r.lo < q.lo => g[q] = h[q]
    PROVE  MeaningFrom(g, t, r) = MeaningFrom(h, t, r)
<1>1. CASE r.lo > Len(t) \/ t[r.lo].op \in Closing
  BY <1>1 DEF MeaningFrom
<1>2. CASE ~(r.lo > Len(t) \/ t[r.lo].op \in Closing)
  <2>1. r.lo <= Len(t)
    <3>1. r.lo \in 1 .. Len(t) + 1 /\ Len(t) \in Nat
      BY ReadingFacts, TemplatesAre DEF IsTemplate
    <3> QED
      BY <1>2, <3>1
  <2>2. /\ r.lo \in DOMAIN t /\ r.lo \in Nat /\ Len(t) \in Nat
        /\ t[r.lo].op \in {"text", "eval", "#each", "#unless"}
        /\ Following(t, r.lo) \in r.lo + 1 .. Len(t) + 1
        /\ At(Following(t, r.lo), r.bound, r.last) \in Readings(t)
        /\ At(r.lo + 1, r.bound, r.last) \in Readings(t)
    BY <1>2, <2>1, ReadsBehind
  <2>3. \A lo, b, l : At(lo, b, l) \in Readings(t) /\ r.lo < lo => g[At(lo, b, l)] = h[At(lo, b, l)]
    BY AtFacts
  <2>4. /\ r.lo < Following(t, r.lo) /\ r.lo < r.lo + 1
    BY <2>2
  <2>5. /\ g[At(Following(t, r.lo), r.bound, r.last)] = h[At(Following(t, r.lo), r.bound, r.last)]
        /\ g[At(r.lo + 1, r.bound, r.last)] = h[At(r.lo + 1, r.bound, r.last)]
    BY <2>2, <2>3, <2>4
  <2>6. ASSUME t[r.lo].op = "#each", IsKnown(t[r.lo].expr, r.bound)
        PROVE  MeaningHere(g, t, r) = MeaningHere(h, t, r)
    <3> DEFINE items == ItemsOf(t[r.lo].expr, r.bound, r.last)
               as == t[r.lo].as
    <3>1. items \in Seq(Values)
      BY <2>6, ReadingFacts, ValueFacts
    <3> HIDE DEF items
    <3>2. \A k \in DOMAIN items : At(r.lo + 1, Bind(r.bound, as, items[k]), k = Len(items)) \in Readings(t)
      BY <1>2, <2>1, <2>6, <3>1, ReadsBehind
    <3>3. \A k \in DOMAIN items : g[At(r.lo + 1, Bind(r.bound, as, items[k]), k = Len(items))]
                                    = h[At(r.lo + 1, Bind(r.bound, as, items[k]), k = Len(items))]
      BY <2>3, <2>4, <3>2
    <3>4. Turns(g, r.lo + 1, r.bound, as, items) = Turns(h, r.lo + 1, r.bound, as, items)
      BY <3>3 DEF Turns
    <3> QED
      BY <2>6, <3>4, HereCases DEF items
  <2>7. MeaningHere(g, t, r) = MeaningHere(h, t, r)
    <3>1. CASE t[r.lo].op = "text"
      BY <3>1, HereCases
    <3>2. CASE t[r.lo].op = "#unless"
      BY <2>5, <3>2, HereCases
    <3>3. CASE t[r.lo].op \in {"eval", "#each"} /\ ~ IsKnown(t[r.lo].expr, r.bound)
      BY <3>3, HereCases
    <3>4. CASE t[r.lo].op = "eval" /\ IsKnown(t[r.lo].expr, r.bound)
      BY <3>4, HereCases
    <3>5. CASE t[r.lo].op = "#each" /\ IsKnown(t[r.lo].expr, r.bound)
      BY <2>6, <3>5
    <3> QED
      BY <2>2, <3>1, <3>2, <3>3, <3>4, <3>5
  <2> QED
    BY <1>2, <2>5, <2>7 DEF MeaningFrom
<1> QED
  BY <1>1, <1>2

IsMeaning(f, t) == f = [r \in Readings(t) |-> MeaningFrom(f, t, r)]

\* The table can be filled from the end of the template on.
LEMMA MeaningExists ==
    ASSUME NEW t \in Templates, WellNested(t)
    PROVE  \E f : IsMeaning(f, t)
<1> DEFINE n == Len(t)
           HoldsFrom(f, k) == \A r \in Readings(t) : k < r.lo => f[r] = MeaningFrom(f, t, r)
           good == {k \in Nat : \E f : f = [r \in Readings(t) |-> f[r]] /\ HoldsFrom(f, k)}
<1>1. n \in Nat /\ \A r \in Readings(t) : r.lo \in 1 .. n + 1
  BY TemplatesAre, ReadingFacts DEF IsTemplate
<1>2. n + 1 \in good
  <2> DEFINE f == [r \in Readings(t) |-> <<>>]
  <2>1. f = [r \in Readings(t) |-> f[r]] /\ HoldsFrom(f, n + 1)
    BY <1>1
  <2> QED
    BY <1>1, <2>1
<1>3. good \subseteq Nat /\ good # {}
  BY <1>2
<1>4. PICK k \in good : \A j \in good : k <= j
  <2> HIDE DEF good
  <2> QED
    BY <1>3, LeastNatural
<1>5. PICK f : f = [r \in Readings(t) |-> f[r]] /\ HoldsFrom(f, k)
  BY <1>4
<1>6. k = 0
  <2>1. SUFFICES ASSUME k # 0 PROVE FALSE
    OBVIOUS
  <2>2. k \in Nat /\ k - 1 \in Nat /\ ~ k <= k - 1
    BY <1>4, <2>1
  <2> DEFINE h == [r \in Readings(t) |-> IF r.lo = k THEN MeaningFrom(f, t, r) ELSE f[r]]
  <2>3. ASSUME NEW r \in Readings(t), k - 1 < r.lo
        PROVE  h[r] = MeaningFrom(h, t, r)
    <3>1. k <= r.lo /\ r.lo \in Nat
      BY <1>1, <2>2, <2>3
    <3>2. \A q \in Readings(t) : r.lo < q.lo => f[q] = h[q]
      <4> TAKE q \in Readings(t)
      <4>1. r.lo < q.lo => q.lo # k
        BY <1>1, <2>2, <3>1
      <4> QED
        BY <4>1
    <3> HIDE DEF h
    <3>3. MeaningFrom(f, t, r) = MeaningFrom(h, t, r)
      BY <3>2, MeaningUses
    <3>4. r.lo = k \/ k < r.lo
      BY <2>2, <3>1
    <3>5. h[r] = MeaningFrom(f, t, r)
      BY <1>5, <3>4 DEF h
    <3> QED
      BY <3>3, <3>5
  <2>4. h = [r \in Readings(t) |-> h[r]]
    OBVIOUS
  <2> HIDE DEF h
  <2>5. HoldsFrom(h, k - 1)
    BY <2>3
  <2>6. k - 1 \in good
    BY <2>2, <2>4, <2>5
  <2> HIDE DEF good
  <2> QED
    BY <1>4, <2>2, <2>6
<1>7. \A r \in Readings(t) : f[r] = MeaningFrom(f, t, r)
  <2> TAKE r \in Readings(t)
  <2>1. 0 < r.lo
    BY <1>1
  <2> QED
    BY <1>5, <1>6, <2>1
<1>8. f = [r \in Readings(t) |-> f[r]]
  BY <1>5
<1> QED
  BY <1>7, <1>8 DEF IsMeaning

\* The meaning of a well nested template is a function of the place, the
\* variables and @last, and obeys its own definition at each of them: the
\* reference that renderString is compared with exists.
THEOREM MeaningIs ==
    ASSUME NEW t \in Templates, WellNested(t), NEW r \in Readings(t)
    PROVE  MeaningOf(t)[r] = MeaningFrom(MeaningOf(t), t, r)
<1> DEFINE Is(f) == IsMeaning(f, t)
<1>1. MeaningOf(t) = CHOOSE f : Is(f)
  BY DEF MeaningOf, IsMeaning
<1>2. \E f : Is(f)
  BY MeaningExists
<1> HIDE DEF Is
<1>3. Is(MeaningOf(t))
  BY <1>1, <1>2
<1>4. MeaningOf(t) = [q \in Readings(t) |-> MeaningFrom(MeaningOf(t), t, q)]
  BY <1>3 DEF Is, IsMeaning
<1> QED
  BY <1>4

LEMMA FlattenTyped ==
    ASSUME NEW S, NEW s \in Lists(S)
    PROVE  FlattenSeq(s) \in Seq(S)
<1>1. CASE s = <<>>
  <2>1. <<>> \in Seq(S)
    BY EmptySeq
  <2> QED
    BY <1>1, <2>1, FlattenNone
<1>2. CASE s # <<>>
  BY <1>2, FlattenFirst
<1> QED
  BY <1>1, <1>2

\* With each item less to render, there is one turn less.
TakesTurns(rest, from, outer, as, items) ==
    /\ items = <<>> => Turns(rest, from, outer, as, items) = <<>>
    /\ items # <<>> =>
          /\ Turns(rest, from, outer, as, items) # <<>>
          /\ Turns(rest, from, outer, as, items)[1] =
                rest[At(from, Bind(outer, as, Head(items)), Len(items) = 1)]
          /\ Tail(Turns(rest, from, outer, as, items)) =
                Turns(rest, from, outer, as, Tail(items))

LEMMA TurnsList ==
    ASSUME NEW rest, NEW from, NEW outer, NEW as, NEW items, IsList(items), NEW S,
           \A k \in DOMAIN items :
              rest[At(from, Bind(outer, as, items[k]), k = Len(items))] \in S
    PROVE  /\ Turns(rest, from, outer, as, items) \in Seq(S)
           /\ TakesTurns(rest, from, outer, as, items)
<1> DEFINE T == Turns(rest, from, outer, as, items)
<1>1. PICK V : items \in Seq(V)
  BY DEF IsList
<1>2. Len(items) \in Nat /\ DOMAIN items = 1 .. Len(items)
  BY <1>1, LenProperties
<1>3. T = [k \in 1 .. Len(items) |-> rest[At(from, Bind(outer, as, items[k]), k = Len(items))]]
  BY <1>2 DEF Turns
<1>4. T \in [1 .. Len(items) -> S]
  <2> DEFINE turn(k) == rest[At(from, Bind(outer, as, items[k]), k = Len(items))]
  <2>1. \A k \in 1 .. Len(items) : turn(k) \in S
    BY <1>2
  <2>2. T = [k \in 1 .. Len(items) |-> turn(k)]
    BY <1>3
  <2> HIDE DEF T, turn
  <2> QED
    BY <2>1, <2>2
<1> HIDE DEF T
<1>5. T \in Seq(S) /\ Len(T) = Len(items)
  BY <1>2, <1>4
<1>6. items = <<>> => T = <<>>
  BY <1>5, EmptySeq
<1>7. ASSUME items # <<>>
      PROVE  /\ T # <<>>
             /\ T[1] = rest[At(from, Bind(outer, as, Head(items)), Len(items) = 1)]
             /\ Tail(T) = Turns(rest, from, outer, as, Tail(items))
  <2> DEFINE n == Len(items)
             rs == Tail(items)
             U == Turns(rest, from, outer, as, rs)
  <2>1. n \in Nat \ {0} /\ Head(items) = items[1]
    BY <1>1, <1>7, EmptySeq
  <2>2. rs \in Seq(V) /\ Len(rs) = n - 1 /\ \A k \in 1 .. n - 1 : rs[k] = items[k + 1]
    BY <1>1, <1>7, HeadTailProperties
  <2>3. DOMAIN rs = 1 .. n - 1
    BY <2>2, LenProperties
  <2> HIDE DEF n, rs
  <2>4. U = [k \in 1 .. n - 1 |-> rest[At(from, Bind(outer, as, rs[k]), k = Len(rs))]]
    BY <2>3 DEF Turns
  <2>5. T # <<>>
    BY <1>5, <2>1 DEF n
  <2>6. Tail(T) = [k \in 1 .. n - 1 |-> T[k + 1]]
    <3>1. Tail(T) \in Seq(S) /\ Len(Tail(T)) = n - 1 /\ \A k \in 1 .. n - 1 : Tail(T)[k] = T[k + 1]
      BY <1>5, <2>5, HeadTailProperties DEF n
    <3>2. Tail(T) \in [1 .. n - 1 -> S]
      BY <3>1, LenProperties
    <3>3. Tail(T) = [k \in 1 .. n - 1 |-> Tail(T)[k]]
      BY <3>2
    <3> QED
      BY <3>1, <3>3
  <2>7. \A k \in 1 .. n - 1 : T[k + 1] = rest[At(from, Bind(outer, as, rs[k]), k = Len(rs))]
    <3> TAKE k \in 1 .. n - 1
    <3>1. k + 1 \in 1 .. n /\ ((k + 1 = n) <=> (k = Len(rs))) /\ rs[k] = items[k + 1]
      BY <2>1, <2>2
    <3>2. T[k + 1] = rest[At(from, Bind(outer, as, items[k + 1]), k + 1 = n)]
      BY <1>3, <3>1 DEF n
    <3>3. (k + 1 = n) = (k = Len(rs))
      BY <3>1
    <3> QED
      BY <3>1, <3>2, <3>3
  <2>8. T[1] = rest[At(from, Bind(outer, as, Head(items)), n = 1)]
    <3>1. 1 \in 1 .. n
      BY <2>1
    <3>2. T[1] = rest[At(from, Bind(outer, as, items[1]), 1 = n)]
      BY <1>3, <3>1 DEF n
    <3>3. (1 = n) = (n = 1)
      OBVIOUS
    <3> QED
      BY <2>1, <3>2, <3>3
  <2> QED
    BY <2>4, <2>5, <2>6, <2>7, <2>8 DEF n, rs
<1> QED
  BY <1>5, <1>6, <1>7 DEF T, TakesTurns

LEMMA TurnsFacts ==
    ASSUME NEW rest, NEW from, NEW outer, NEW as, NEW items, IsList(items), NEW S,
           \A k \in DOMAIN items :
              rest[At(from, Bind(outer, as, items[k]), k = Len(items))] \in Seq(S)
    PROVE  /\ Turns(rest, from, outer, as, items) \in Lists(S)
           /\ TakesTurns(rest, from, outer, as, items)
<1> DEFINE Q == Seq(S)
<1>1. \A k \in DOMAIN items :
         rest[At(from, Bind(outer, as, items[k]), k = Len(items))] \in Q
  OBVIOUS
<1>2. Lists(S) = Seq(Q)
  BY DEF Lists
<1> HIDE DEF Q
<1>3. /\ Turns(rest, from, outer, as, items) \in Seq(Q)
      /\ TakesTurns(rest, from, outer, as, items)
  BY <1>1, TurnsList
<1> QED
  BY <1>2, <1>3

LEMMA HereTyped ==
    ASSUME NEW t \in Templates, WellNested(t), NEW r \in Readings(t),
           r.lo <= Len(t), t[r.lo].op \notin Closing, NEW rest,
           \A q \in Readings(t) : r.lo < q.lo => rest[q] \in Seq(Outs(t))
    PROVE  /\ MeaningHere(rest, t, r) \in Seq(Outs(t))
           /\ rest[At(Following(t, r.lo), r.bound, r.last)] \in Seq(Outs(t))
<1> DEFINE S == Outs(t)
<1>1. <<>> \in Seq(S)
  BY EmptySeq
<1>2. /\ r.lo \in DOMAIN t /\ r.lo \in Nat /\ Len(t) \in Nat
      /\ t[r.lo].op \in {"text", "eval", "#each", "#unless"}
      /\ Following(t, r.lo) \in r.lo + 1 .. Len(t) + 1
      /\ At(Following(t, r.lo), r.bound, r.last) \in Readings(t)
      /\ At(r.lo + 1, r.bound, r.last) \in Readings(t)
  BY ReadsBehind
<1>3. \A lo, b, l : At(lo, b, l) \in Readings(t) /\ r.lo < lo => rest[At(lo, b, l)] \in Seq(S)
  BY AtFacts
<1>4. /\ r.lo < Following(t, r.lo) /\ r.lo < r.lo + 1
  BY <1>2
<1>5. /\ rest[At(Following(t, r.lo), r.bound, r.last)] \in Seq(S)
      /\ rest[At(r.lo + 1, r.bound, r.last)] \in Seq(S)
  BY <1>2, <1>3, <1>4
<1>6. Value(t[r.lo].expr) \in S /\ Error \in S /\ Values \subseteq S
  BY <1>2 DEF Outs
<1>7. ASSUME t[r.lo].op = "#each", IsKnown(t[r.lo].expr, r.bound)
      PROVE  MeaningHere(rest, t, r) \in Seq(S)
  <2> DEFINE items == ItemsOf(t[r.lo].expr, r.bound, r.last)
             as == t[r.lo].as
  <2>1. items \in Seq(Values)
    BY <1>7, ReadingFacts, ValueFacts
  <2> HIDE DEF items, S
  <2>2. \A k \in DOMAIN items : At(r.lo + 1, Bind(r.bound, as, items[k]), k = Len(items)) \in Readings(t)
    BY <1>7, <2>1, ReadsBehind
  <2>3. \A k \in DOMAIN items :
           rest[At(r.lo + 1, Bind(r.bound, as, items[k]), k = Len(items))] \in Seq(S)
    BY <1>3, <1>4, <2>2
  <2>4. IsList(items)
    BY <2>1 DEF IsList
  <2>5. Turns(rest, r.lo + 1, r.bound, as, items) \in Lists(S)
    BY <2>3, <2>4, TurnsFacts
  <2>6. FlattenSeq(Turns(rest, r.lo + 1, r.bound, as, items)) \in Seq(S)
    BY <2>5, FlattenTyped
  <2> QED
    BY <1>7, <2>6, HereCases DEF items
<1>8. MeaningHere(rest, t, r) \in Seq(S)
  <2> HIDE DEF S
  <2>1. CASE t[r.lo].op = "text"
    <3>1. <<Value(t[r.lo].expr)>> \in Seq(S)
      BY <1>6
    <3>2. MeaningHere(rest, t, r) = <<Value(t[r.lo].expr)>>
      BY <2>1, HereCases
    <3> QED
      BY <3>1, <3>2
  <2>2. CASE t[r.lo].op = "#unless"
    BY <1>1, <1>5, <2>2, HereCases
  <2>3. CASE t[r.lo].op \in {"eval", "#each"} /\ ~ IsKnown(t[r.lo].expr, r.bound)
    <3>1. <<Error>> \in Seq(S)
      BY <1>6
    <3>2. MeaningHere(rest, t, r) = <<Error>>
      BY <2>3, HereCases
    <3> QED
      BY <3>1, <3>2
  <2>4. CASE t[r.lo].op = "eval" /\ IsKnown(t[r.lo].expr, r.bound)
    <3>1. stringify(ValueOf(t[r.lo].expr, r.bound, r.last)) \in Seq(Values)
      BY <2>4, ReadingFacts, ValueFacts
    <3>2. stringify(ValueOf(t[r.lo].expr, r.bound, r.last)) \in Seq(S)
      BY <1>6, <3>1, SeqMonotonic
    <3> QED
      BY <2>4, <3>2, HereCases
  <2>5. CASE t[r.lo].op = "#each" /\ IsKnown(t[r.lo].expr, r.bound)
    BY <1>7, <2>5
  <2> QED
    BY <1>2, <2>1, <2>2, <2>3, <2>4, <2>5
<1> QED
  BY <1>5, <1>8

LEMMA FromTyped ==
    ASSUME NEW t \in Templates, WellNested(t), NEW r \in Readings(t), NEW rest,
           \A q \in Readings(t) : r.lo < q.lo => rest[q] \in Seq(Outs(t))
    PROVE  MeaningFrom(rest, t, r) \in Seq(Outs(t))
<1>1. CASE r.lo > Len(t) \/ t[r.lo].op \in Closing
  <2>1. <<>> \in Seq(Outs(t))
    BY EmptySeq
  <2> QED
    BY <1>1, <2>1 DEF MeaningFrom
<1>2. CASE ~(r.lo > Len(t) \/ t[r.lo].op \in Closing)
  <2>1. r.lo <= Len(t)
    <3>1. r.lo \in 1 .. Len(t) + 1 /\ Len(t) \in Nat
      BY ReadingFacts, TemplatesAre DEF IsTemplate
    <3> QED
      BY <1>2, <3>1
  <2>2. /\ MeaningHere(rest, t, r) \in Seq(Outs(t))
        /\ rest[At(Following(t, r.lo), r.bound, r.last)] \in Seq(Outs(t))
    BY <1>2, <2>1, HereTyped
  <2>3. MeaningHere(rest, t, r) \o rest[At(Following(t, r.lo), r.bound, r.last)] \in Seq(Outs(t))
    BY <2>2, ConcatProperties
  <2> QED
    BY <1>2, <2>3 DEF MeaningFrom
<1> QED
  BY <1>1, <1>2

LEMMA MeaningTyped ==
    ASSUME NEW t \in Templates, WellNested(t)
    PROVE  \A r \in Readings(t) : MeaningOf(t)[r] \in Seq(Outs(t))
<1> DEFINE n == Len(t)
           M == MeaningOf(t)
           S == Seq(Outs(t))
           bad == {k \in Nat : \E r \in Readings(t) : r.lo + k = n + 1 /\ M[r] \notin S}
<1>1. n \in Nat /\ \A r \in Readings(t) : r.lo \in 1 .. n + 1
  BY TemplatesAre, ReadingFacts DEF IsTemplate
<1> HIDE DEF n, M, S
<1>2. bad = {}
  <2>1. SUFFICES ASSUME bad # {} PROVE FALSE
    OBVIOUS
  <2>2. PICK m \in bad : \A k \in bad : m <= k
    <3>1. bad \subseteq Nat
      OBVIOUS
    <3> HIDE DEF bad
    <3> QED
      BY <2>1, <3>1, LeastNatural
  <2>3. PICK r \in Readings(t) : r.lo + m = n + 1 /\ M[r] \notin S
    BY <2>2
  <2>4. ASSUME NEW q \in Readings(t), r.lo < q.lo
        PROVE  M[q] \in S
    <3> DEFINE k == n + 1 - q.lo
    <3>1. k \in Nat /\ q.lo + k = n + 1 /\ ~ m <= k
      BY <1>1, <2>2, <2>3, <2>4
    <3> HIDE DEF k
    <3>2. k \notin bad
      BY <2>2, <3>1
    <3> QED
      BY <3>1, <3>2
  <2>5. MeaningFrom(M, t, r) \in S
    BY <2>4, FromTyped DEF S
  <2>6. M[r] = MeaningFrom(M, t, r)
    BY MeaningIs DEF M
  <2> QED
    BY <2>3, <2>5, <2>6
<1>3. ASSUME NEW r \in Readings(t)
      PROVE  M[r] \in S
  <2> DEFINE k == n + 1 - r.lo
  <2>1. k \in Nat /\ r.lo + k = n + 1
    BY <1>1
  <2> HIDE DEF k
  <2> QED
    BY <1>2, <2>1
<1> QED
  BY <1>3 DEF M, S

(***************************************************************************)
(* What the calls still have to write, the innermost first                 *)
(***************************************************************************)
FrameMeans(M, f) ==
    M[At(f.at, f.vars, f.last)] \o FlattenSeq(Turns(M, f.from, f.outer, f.as, f.items))

\* r[k] is what the calls up to the k-th have to write.
IsOwed(M, S, s, r) ==
    /\ r \in [0 .. Len(s) -> Seq(S)]
    /\ r[0] = <<>>
    /\ \A k \in 1 .. Len(s) : r[k] = FrameMeans(M, s[k]) \o r[k - 1]

Owes(M, S, s, x) == \E r : IsOwed(M, S, s, r) /\ x = r[Len(s)]

LEMMA OwesNothing ==
    ASSUME NEW M, NEW S, NEW s, Len(s) = 0, NEW x
    PROVE  Owes(M, S, s, x) <=> x = <<>>
<1>1. Owes(M, S, s, x) => x = <<>>
  BY DEF Owes, IsOwed
<1>2. ASSUME x = <<>> PROVE Owes(M, S, s, x)
  <2> DEFINE r == [k \in 0 .. 0 |-> <<>>]
  <2>1. <<>> \in Seq(S)
    BY EmptySeq
  <2>2. r \in [0 .. 0 -> Seq(S)] /\ r[0] = <<>>
    BY <2>1
  <2> HIDE DEF r
  <2>3. IsOwed(M, S, s, r) /\ x = r[Len(s)]
    BY <1>2, <2>2 DEF IsOwed
  <2> QED
    BY <2>3 DEF Owes
<1> QED
  BY <1>1, <1>2

LEMMA OwesType ==
    ASSUME NEW M, NEW S, NEW s, Len(s) \in Nat, NEW x, Owes(M, S, s, x)
    PROVE  x \in Seq(S)
<1>1. PICK r : IsOwed(M, S, s, r) /\ x = r[Len(s)]
  BY DEF Owes
<1>2. Len(s) \in 0 .. Len(s)
  OBVIOUS
<1> QED
  BY <1>1, <1>2 DEF IsOwed

\* The innermost call, and those below it.
OwesFirst(M, S, s, x) ==
    \E y \in Seq(S) : Owes(M, S, Front(s), y) /\ x = FrameMeans(M, Last(s)) \o y

LEMMA OwesTop ==
    ASSUME NEW M, NEW S, NEW s, IsList(s), s # <<>>, NEW x, Owes(M, S, s, x)
    PROVE  OwesFirst(M, S, s, x)
<1> DEFINE n == Len(s)
           b == Front(s)
<1>1. /\ n \in Nat \ {0} /\ Len(b) = n - 1 /\ \A k \in 1 .. n - 1 : b[k] = s[k]
  BY StackFacts
<1>2. PICK r : IsOwed(M, S, s, r) /\ x = r[n]
  BY DEF Owes
<1>3. /\ r \in [0 .. n -> Seq(S)] /\ r[0] = <<>>
      /\ \A k \in 1 .. n : r[k] = FrameMeans(M, s[k]) \o r[k - 1]
  BY <1>2 DEF IsOwed
<1>4. Last(s) = s[n]
  BY DEF Last
<1> HIDE DEF n, b
<1> DEFINE q == [k \in 0 .. n - 1 |-> r[k]]
<1>5. \A k \in 0 .. n - 1 : q[k] = r[k] /\ r[k] \in Seq(S)
  <2> TAKE k \in 0 .. n - 1
  <2>1. k \in 0 .. n
    BY <1>1
  <2> QED
    BY <1>3, <2>1
<1>6. q \in [0 .. n - 1 -> Seq(S)]
  BY <1>5
<1> HIDE DEF q
<1>7. q[0] = <<>> /\ n - 1 \in 0 .. n - 1
  BY <1>1, <1>3, <1>5
<1>8. \A k \in 1 .. n - 1 : q[k] = FrameMeans(M, b[k]) \o q[k - 1]
  <2> TAKE k \in 1 .. n - 1
  <2>1. k \in 0 .. n - 1 /\ k - 1 \in 0 .. n - 1 /\ k \in 1 .. n
    BY <1>1
  <2>2. r[k] = FrameMeans(M, s[k]) \o r[k - 1] /\ b[k] = s[k]
    BY <1>1, <1>3, <2>1
  <2> QED
    BY <1>5, <2>1, <2>2
<1>9. IsOwed(M, S, b, q)
  BY <1>1, <1>6, <1>7, <1>8 DEF IsOwed
<1>10. Owes(M, S, b, q[n - 1])
  BY <1>1, <1>9 DEF Owes
<1>11. x = FrameMeans(M, s[n]) \o q[n - 1]
  <2>1. n \in 1 .. n
    BY <1>1
  <2> QED
    BY <1>2, <1>3, <1>5, <1>7, <2>1
<1>12. q[n - 1] \in Seq(S)
  BY <1>6, <1>7
<1> QED
  BY <1>4, <1>10, <1>11, <1>12 DEF b, OwesFirst

LEMMA OwesPushed ==
    ASSUME NEW M, NEW S, NEW s, IsList(s), NEW y, Owes(M, S, s, y),
           NEW f, FrameMeans(M, f) \in Seq(S)
    PROVE  Owes(M, S, Append(s, f), FrameMeans(M, f) \o y)
<1> DEFINE n == Len(s)
           a == Append(s, f)
           m == FrameMeans(M, f)
<1>1. n \in Nat /\ Len(a) = n + 1 /\ a[n + 1] = f /\ \A k \in 1 .. n : a[k] = s[k]
  BY Pushed
<1>2. PICK r : IsOwed(M, S, s, r) /\ y = r[n]
  BY DEF Owes
<1>3. /\ r \in [0 .. n -> Seq(S)] /\ r[0] = <<>>
      /\ \A k \in 1 .. n : r[k] = FrameMeans(M, s[k]) \o r[k - 1]
  BY <1>2 DEF IsOwed
<1>4. m \o y \in Seq(S)
  <2>1. n \in 0 .. n
    BY <1>1
  <2>2. y \in Seq(S)
    BY <1>2, <1>3, <2>1
  <2> QED
    BY <2>2, ConcatProperties
<1>5. m = FrameMeans(M, a[n + 1])
  BY <1>1
<1> HIDE DEF n, a, m
<1> DEFINE q == [k \in 0 .. n + 1 |-> IF k = n + 1 THEN m \o y ELSE r[k]]
<1>6. /\ q[n + 1] = m \o y /\ \A k \in 0 .. n : q[k] = r[k]
      /\ \A k \in 0 .. n + 1 : q[k] \in Seq(S)
  <2>1. n + 1 \in 0 .. n + 1 /\ \A k \in 0 .. n : k \in 0 .. n + 1 /\ k # n + 1
    BY <1>1
  <2>2. \A k \in 0 .. n + 1 : k # n + 1 => k \in 0 .. n
    BY <1>1
  <2>3. \A k \in 0 .. n : r[k] \in Seq(S)
    BY <1>3
  <2>4. q[n + 1] = m \o y /\ \A k \in 0 .. n : q[k] = r[k]
    BY <2>1
  <2> HIDE DEF q
  <2> QED
    BY <1>4, <2>2, <2>3, <2>4
<1>7. q \in [0 .. n + 1 -> Seq(S)]
  <2>1. q = [k \in 0 .. n + 1 |-> q[k]]
    OBVIOUS
  <2> HIDE DEF q
  <2> QED
    BY <1>6, <2>1
<1> HIDE DEF q
<1>8. \A k \in 1 .. n + 1 : q[k] = FrameMeans(M, a[k]) \o q[k - 1]
  <2> TAKE k \in 1 .. n + 1
  <2>1. CASE k = n + 1
    <3>1. k - 1 = n /\ n \in 0 .. n
      BY <1>1, <2>1
    <3> QED
      BY <1>2, <1>5, <1>6, <2>1, <3>1
  <2>2. CASE k # n + 1
    <3>1. k \in 1 .. n /\ k \in 0 .. n /\ k - 1 \in 0 .. n
      BY <1>1, <2>2
    <3>2. r[k] = FrameMeans(M, s[k]) \o r[k - 1] /\ a[k] = s[k]
      BY <1>1, <1>3, <3>1
    <3> QED
      BY <1>6, <3>1, <3>2
  <2> QED
    BY <2>1, <2>2
<1>9. q[0] = <<>>
  <2>1. 0 \in 0 .. n
    BY <1>1
  <2> QED
    BY <1>3, <1>6, <2>1
<1>10. IsOwed(M, S, a, q) /\ q[Len(a)] = m \o y
  BY <1>1, <1>6, <1>7, <1>8, <1>9 DEF IsOwed
<1> QED
  BY <1>10 DEF Owes, a, m

\* What f has to write is h and what g has to.
Leaves(M, f, h, g) == FrameMeans(M, f) = h \o FrameMeans(M, g)

\* Behind o, the calls had x to write; now h is written too.
WritesMore(M, S, s, x, h, o) == \E z : Owes(M, S, s, z) /\ o \o x = (o \o h) \o z

\* A call that writes h, or nothing, and goes on, ...
LEMMA OwesGoingOn ==
    ASSUME NEW M, NEW S, NEW s, IsList(s), s # <<>>, NEW x, Owes(M, S, s, x),
           NEW g, FrameMeans(M, g) \in Seq(S), NEW h, h \in Seq(S),
           Leaves(M, Last(s), h, g), NEW o, o \in Seq(S)
    PROVE  WritesMore(M, S, Append(Front(s), g), x, h, o)
<1>1. OwesFirst(M, S, s, x)
  BY OwesTop
<1>2. PICK y \in Seq(S) : Owes(M, S, Front(s), y) /\ x = FrameMeans(M, Last(s)) \o y
  BY <1>1 DEF OwesFirst
<1>3. IsList(Front(s))
  BY StackFacts
<1> DEFINE m == FrameMeans(M, g)
           z == m \o y
<1>4. Owes(M, S, Append(Front(s), g), z)
  BY <1>2, <1>3, OwesPushed
<1>5. x = (h \o m) \o y
  BY <1>2 DEF Leaves
<1>6. m \in Seq(S) /\ y \in Seq(S)
  OBVIOUS
<1> HIDE DEF m
<1>7. (h \o m) \o y = h \o (m \o y)
  <2>1. IsGrouped(h, m, y)
    BY <1>6, Grouped, Zenon
  <2> QED
    BY <2>1, Zenon DEF IsGrouped
<1>8. o \o (h \o z) = (o \o h) \o z
  <2>1. z \in Seq(S)
    BY <1>6, ConcatProperties
  <2> HIDE DEF z
  <2>2. IsGrouped(o, h, z)
    BY <2>1, Grouped, Zenon
  <2> QED
    BY <2>2, Zenon DEF IsGrouped
<1>9. o \o x = (o \o h) \o z
  BY <1>5, <1>7, <1>8
<1> QED
  BY <1>4, <1>9 DEF WritesMore

\* ... and one that makes a call for the part of a block.
LEMMA OwesCalling ==
    ASSUME NEW M, NEW S, NEW s, IsList(s), s # <<>>, NEW x, Owes(M, S, s, x),
           NEW g, FrameMeans(M, g) \in Seq(S), NEW b, FrameMeans(M, b) \in Seq(S),
           Leaves(M, Last(s), FrameMeans(M, b), g)
    PROVE  Owes(M, S, Append(Front(s), g) \o <<b>>, x)
<1>1. OwesFirst(M, S, s, x)
  BY OwesTop
<1>2. PICK y \in Seq(S) : Owes(M, S, Front(s), y) /\ x = FrameMeans(M, Last(s)) \o y
  BY <1>1 DEF OwesFirst
<1> DEFINE m == FrameMeans(M, g)
           k == FrameMeans(M, b)
           a == Append(Front(s), g)
<1>3. IsList(Front(s))
  BY StackFacts
<1>4. Owes(M, S, a, m \o y) /\ IsList(a) /\ a \o <<b>> = Append(a, b)
  <2>1. IsList(a)
    BY <1>3, Pushed
  <2>2. a \o <<b>> = Append(a, b)
    BY <2>1, Pushed
  <2> QED
    BY <1>2, <1>3, <2>1, <2>2, OwesPushed
<1> HIDE DEF a
<1>5. Owes(M, S, Append(a, b), k \o (m \o y))
  BY <1>4, OwesPushed
<1>6. x = (k \o m) \o y
  BY <1>2 DEF Leaves
<1>7. m \in Seq(S) /\ k \in Seq(S) /\ y \in Seq(S)
  OBVIOUS
<1> HIDE DEF m, k
<1>8. (k \o m) \o y = k \o (m \o y)
  <2>1. IsGrouped(k, m, y)
    BY <1>7, Grouped, Zenon
  <2> QED
    BY <2>1, Zenon DEF IsGrouped
<1> QED
  BY <1>4, <1>5, <1>6, <1>8 DEF a

(***************************************************************************)
(* What a call has to write, and what it has to after a step               *)
(***************************************************************************)
InContext(f) ==
    /\ f.vars \in Contexts /\ f.outer \in Contexts /\ f.last \in BOOLEAN
    /\ f.items \in Seq(Values)
    /\ f.items # <<>> => f.as \in Names

TurnComes(M, from, outer, as, items) ==
    FlattenSeq(Turns(M, from, outer, as, items)) =
       M[At(from, Bind(outer, as, Head(items)), Len(items) = 1)]
          \o FlattenSeq(Turns(M, from, outer, as, Tail(items)))

LEMMA TurnsTyped ==
    ASSUME NEW t \in Templates, WellNested(t), NEW from \in 1 .. Len(t) + 1,
           NEW outer \in Contexts, NEW items, items \in Seq(Values),
           NEW as, items # <<>> => as \in Names
    PROVE  /\ FlattenSeq(Turns(MeaningOf(t), from, outer, as, items)) \in Seq(Outs(t))
           /\ items = <<>> => FlattenSeq(Turns(MeaningOf(t), from, outer, as, items)) = <<>>
           /\ items # <<>> => TurnComes(MeaningOf(t), from, outer, as, items)
<1> DEFINE M == MeaningOf(t)
           S == Outs(t)
           T == Turns(M, from, outer, as, items)
<1>1. IsList(items)
  BY DEF IsList
<1>2. ASSUME NEW k \in DOMAIN items
      PROVE  M[At(from, Bind(outer, as, items[k]), k = Len(items))] \in Seq(S)
  <2>1. DOMAIN items = 1 .. Len(items) /\ items[k] \in Values
    BY LenProperties, ElementOfSeq
  <2>2. items # <<>>
    BY EmptySeq, <2>1
  <2>3. Bind(outer, as, items[k]) \in Contexts
    BY <2>1, <2>2, ContextFacts
  <2>4. At(from, Bind(outer, as, items[k]), k = Len(items)) \in Readings(t)
    <3>1. (k = Len(items)) \in BOOLEAN
      OBVIOUS
    <3> QED
      BY <2>3, <3>1, ReadingFacts
  <2> QED
    BY <2>4, MeaningTyped
<1> HIDE DEF M, S
<1>3. T \in Lists(S) /\ TakesTurns(M, from, outer, as, items)
  BY <1>1, <1>2, TurnsFacts
<1>4. FlattenSeq(T) \in Seq(S)
  <2> HIDE DEF T
  <2> QED
    BY <1>3, FlattenTyped
<1>5. items = <<>> => FlattenSeq(T) = <<>>
  BY <1>3, FlattenNone DEF TakesTurns
<1>6. ASSUME items # <<>>
      PROVE  TurnComes(M, from, outer, as, items)
  <2>1. /\ T # <<>> /\ T[1] = M[At(from, Bind(outer, as, Head(items)), Len(items) = 1)]
        /\ Tail(T) = Turns(M, from, outer, as, Tail(items))
    BY <1>3, <1>6 DEF TakesTurns
  <2> HIDE DEF T
  <2>2. FlattenSeq(T) = T[1] \o FlattenSeq(Tail(T))
    BY <1>3, <2>1, FlattenFirst
  <2> QED
    BY <2>1, <2>2 DEF T, TurnComes
<1> QED
  BY <1>4, <1>5, <1>6 DEF M, S

LEMMA FrameTyped ==
    ASSUME NEW t \in Templates, WellNested(t), NEW f, InContext(f),
           f.from \in 1 .. Len(t) + 1, f.at \in 1 .. Len(t) + 1
    PROVE  /\ MeaningOf(t)[At(f.at, f.vars, f.last)] \in Seq(Outs(t))
           /\ FlattenSeq(Turns(MeaningOf(t), f.from, f.outer, f.as, f.items)) \in Seq(Outs(t))
           /\ FrameMeans(MeaningOf(t), f) \in Seq(Outs(t))
           /\ f.items = <<>> =>
                 FlattenSeq(Turns(MeaningOf(t), f.from, f.outer, f.as, f.items)) = <<>>
<1>1. MeaningOf(t)[At(f.at, f.vars, f.last)] \in Seq(Outs(t))
  BY ReadingFacts, MeaningTyped DEF InContext
<1>2. /\ FlattenSeq(Turns(MeaningOf(t), f.from, f.outer, f.as, f.items)) \in Seq(Outs(t))
      /\ f.items = <<>> =>
            FlattenSeq(Turns(MeaningOf(t), f.from, f.outer, f.as, f.items)) = <<>>
  <2>1. /\ f.outer \in Contexts /\ f.items \in Seq(Values)
        /\ f.items # <<>> => f.as \in Names
    BY DEF InContext
  <2> QED
    BY <2>1, TurnsTyped
<1>3. FrameMeans(MeaningOf(t), f) \in Seq(Outs(t))
  BY <1>1, <1>2, ConcatProperties DEF FrameMeans
<1> QED
  BY <1>1, <1>2, <1>3

\* The next item is what the call had to write of its items.
LEMMA ItemMeans ==
    ASSUME NEW t \in Templates, WellNested(t), NEW f, DOMAIN f = FrameFields, InContext(f),
           f.from \in 1 .. Len(t) + 1, f.items # <<>>
    PROVE  /\ InContext(withItem(f))
           /\ withItem(f).from = f.from /\ withItem(f).at = f.from
           /\ FrameMeans(MeaningOf(t), withItem(f)) =
                 FlattenSeq(Turns(MeaningOf(t), f.from, f.outer, f.as, f.items))
<1> DEFINE g == withItem(f)
<1>1. /\ f.vars \in Contexts /\ f.outer \in Contexts /\ f.last \in BOOLEAN
      /\ f.items \in Seq(Values) /\ f.as \in Names
  BY DEF InContext
<1>2. /\ g.from = f.from /\ g.at = f.from /\ g.outer = f.outer /\ g.as = f.as
      /\ g.vars = Bind(f.outer, f.as, Head(f.items))
      /\ g.last = (Len(f.items) = 1)
      /\ g.items = Tail(f.items)
  BY DEF FrameFields, withItem, Bind
<1> HIDE DEF g
<1>3. Head(f.items) \in Values /\ Tail(f.items) \in Seq(Values)
  BY <1>1, HeadTailProperties
<1>4. InContext(g)
  BY <1>1, <1>2, <1>3, ContextFacts DEF InContext
<1>5. TurnComes(MeaningOf(t), f.from, f.outer, f.as, f.items)
  BY <1>1, TurnsTyped
<1>6. FrameMeans(MeaningOf(t), g) =
         FlattenSeq(Turns(MeaningOf(t), f.from, f.outer, f.as, f.items))
  BY <1>2, <1>5 DEF FrameMeans, TurnComes
<1> QED
  BY <1>2, <1>4, <1>6 DEF g

\* What is not behind the end of its part writes what is here, and goes on.
LEMMA HereMeans ==
    ASSUME NEW t \in Templates, WellNested(t), NEW f, DOMAIN f = FrameFields, InContext(f),
           f.from \in 1 .. Len(t) + 1, f.at \in 1 .. Len(t), t[f.at].op \notin Closing,
           NEW r, r = At(f.at, f.vars, f.last),
           NEW g, g = [f EXCEPT !.at = Following(t, f.at)]
    PROVE  /\ MeaningHere(MeaningOf(t), t, r) \in Seq(Outs(t))
           /\ Leaves(MeaningOf(t), f, MeaningHere(MeaningOf(t), t, r), g)
           /\ InContext(g) /\ FrameMeans(MeaningOf(t), g) \in Seq(Outs(t))
<1> DEFINE M == MeaningOf(t)
           S == Outs(t)
           h == MeaningHere(MeaningOf(t), t, r)
           d == M[At(Following(t, f.at), f.vars, f.last)]
           F == FlattenSeq(Turns(M, f.from, f.outer, f.as, f.items))
<1>1. /\ r.lo = f.at /\ r.bound = f.vars /\ r.last = f.last
      /\ Len(t) \in Nat /\ f.at \in Nat /\ f.at <= Len(t) /\ f.at \in 1 .. Len(t) + 1
  BY AtFacts, TemplatesAre DEF IsTemplate
<1>2. r \in Readings(t)
  BY <1>1, ReadingFacts DEF InContext
<1>3. h \in Seq(S) /\ d \in Seq(S)
  <2>1. \A q \in Readings(t) : r.lo < q.lo => MeaningOf(t)[q] \in Seq(Outs(t))
    BY MeaningTyped
  <2> QED
    BY <1>1, <1>2, <2>1, HereTyped
<1>4. M[r] = h \o d
  <2>1. M[r] = MeaningFrom(M, t, r)
    BY <1>2, MeaningIs
  <2>2. ~(r.lo > Len(t) \/ t[r.lo].op \in Closing)
    BY <1>1
  <2> QED
    BY <1>1, <2>1, <2>2 DEF MeaningFrom
<1>5. Following(t, f.at) \in 1 .. Len(t) + 1
  <2>1. Following(t, f.at) \in f.at + 1 .. Len(t) + 1
    BY <1>1, <1>2, ReadsBehind
  <2> QED
    BY <1>1, <2>1
<1>6. /\ g.from = f.from /\ g.at = Following(t, f.at) /\ g.vars = f.vars /\ g.last = f.last
      /\ g.items = f.items /\ g.as = f.as /\ g.outer = f.outer
  BY DEF FrameFields
<1>7. InContext(g)
  BY <1>6 DEF InContext
<1>8. F \in Seq(S) /\ FrameMeans(M, g) \in Seq(S)
  BY <1>1, <1>5, <1>6, <1>7, FrameTyped
<1>9. FrameMeans(M, g) = d \o F
  BY <1>6 DEF FrameMeans
<1>10. FrameMeans(M, f) = (h \o d) \o F
  BY <1>4 DEF FrameMeans
<1> HIDE DEF M, S, h, d, F
<1>11. (h \o d) \o F = h \o (d \o F)
  <2>1. h \in Seq(S) /\ d \in Seq(S) /\ F \in Seq(S)
    BY <1>3, <1>8
  <2>2. IsGrouped(h, d, F)
    BY <2>1, Grouped, Zenon
  <2> QED
    BY <2>2, Zenon DEF IsGrouped
<1>12. Leaves(M, f, h, g)
  BY <1>9, <1>10, <1>11 DEF Leaves
<1> QED
  BY <1>3, <1>7, <1>8, <1>12 DEF M, S, h

\* Behind the end of its part, a call has its items to write.
LEMMA EndMeans ==
    ASSUME NEW t \in Templates, WellNested(t), NEW f, InContext(f),
           f.from \in 1 .. Len(t) + 1, f.at \in 1 .. Len(t) + 1,
           f.at > Len(t) \/ t[f.at].op \in Closing
    PROVE  FrameMeans(MeaningOf(t), f) =
              FlattenSeq(Turns(MeaningOf(t), f.from, f.outer, f.as, f.items))
<1> DEFINE M == MeaningOf(t)
           r == At(f.at, f.vars, f.last)
           F == FlattenSeq(Turns(M, f.from, f.outer, f.as, f.items))
<1>1. r.lo = f.at /\ r \in Readings(t)
  BY AtFacts, ReadingFacts DEF InContext
<1>2. M[r] = MeaningFrom(M, t, r)
  BY <1>1, MeaningIs
<1>3. M[r] = <<>>
  BY <1>1, <1>2 DEF MeaningFrom
<1>4. F \in Seq(Outs(t))
  BY FrameTyped
<1>5. FrameMeans(M, f) = M[r] \o F
  BY DEF FrameMeans
<1> HIDE DEF M, r, F
<1>6. <<>> \o F = F
  BY <1>4, ConcatEmptySeq
<1> QED
  BY <1>3, <1>5, <1>6 DEF M, F

(***************************************************************************)
(* The calls know what is bound around them                                *)
(***************************************************************************)
AllInContext(s) == \A k \in 1 .. Len(s) : InContext(s[k])

LEMMA ContextGoesOn ==
    ASSUME NEW s, IsList(s), s # <<>>, AllInContext(s), NEW g, InContext(g)
    PROVE  AllInContext(Front(s)) /\ AllInContext(Append(Front(s), g))
<1> DEFINE n == Len(s)
           b == Front(s)
           a == Append(b, g)
<1>1. /\ n \in Nat \ {0} /\ IsList(b) /\ Len(b) = n - 1
      /\ \A k \in 1 .. n - 1 : b[k] = s[k]
  BY StackFacts
<1>2. /\ Len(a) = Len(b) + 1 /\ a[Len(b) + 1] = g /\ \A k \in 1 .. Len(b) : a[k] = b[k]
  BY <1>1, Pushed
<1> HIDE DEF a, b
<1>3. \A k \in 1 .. n - 1 : InContext(b[k])
  <2> TAKE k \in 1 .. n - 1
  <2>1. k \in 1 .. n /\ b[k] = s[k]
    BY <1>1
  <2> QED
    BY <2>1 DEF AllInContext
<1>4. AllInContext(b)
  BY <1>1, <1>3 DEF AllInContext
<1>5. \A k \in 1 .. Len(a) : InContext(a[k])
  <2> TAKE k \in 1 .. Len(a)
  <2>1. CASE k = Len(b) + 1
    BY <1>2, <2>1
  <2>2. CASE k # Len(b) + 1
    <3>1. k \in 1 .. n - 1 /\ k \in 1 .. Len(b)
      BY <1>1, <1>2, <2>2
    <3> QED
      BY <1>2, <1>3, <3>1
  <2> QED
    BY <2>1, <2>2
<1> QED
  BY <1>4, <1>5 DEF AllInContext, a, b

LEMMA ContextGrows ==
    ASSUME NEW s, IsList(s), AllInContext(s), NEW g, InContext(g)
    PROVE  AllInContext(s \o <<g>>)
<1> DEFINE n == Len(s)
           a == Append(s, g)
<1>1. /\ n \in Nat /\ Len(a) = n + 1 /\ a[n + 1] = g /\ \A k \in 1 .. n : a[k] = s[k]
      /\ s \o <<g>> = a
  BY Pushed
<1> HIDE DEF a
<1>2. \A k \in 1 .. Len(a) : InContext(a[k])
  <2> TAKE k \in 1 .. Len(a)
  <2>1. CASE k = n + 1
    BY <1>1, <2>1
  <2>2. CASE k # n + 1
    <3>1. k \in 1 .. n
      BY <1>1, <2>2
    <3> QED
      BY <1>1, <3>1 DEF AllInContext
  <2> QED
    BY <2>1, <2>2
<1> QED
  BY <1>1, <1>2 DEF AllInContext

LEMMA ConcatMembers ==
    ASSUME NEW S, NEW a, a \in Seq(S), NEW b, b \in Seq(S), NEW e
    PROVE  e \in ToSet(a \o b) <=> e \in ToSet(a) \/ e \in ToSet(b)
<1> DEFINE c == a \o b
<1>1. /\ Len(a) \in Nat /\ DOMAIN a = 1 .. Len(a)
      /\ Len(b) \in Nat /\ DOMAIN b = 1 .. Len(b)
  BY LenProperties
<1>2. /\ c \in Seq(S) /\ Len(c) = Len(a) + Len(b)
      /\ \A k \in 1 .. Len(c) : c[k] = IF k <= Len(a) THEN a[k] ELSE b[k - Len(a)]
  BY ConcatProperties
<1>3. DOMAIN c = 1 .. Len(c)
  BY <1>2, LenProperties
<1> HIDE DEF c
<1>4. ASSUME NEW k \in 1 .. Len(a)
      PROVE  k \in DOMAIN c /\ c[k] = a[k]
  BY <1>1, <1>2, <1>3
<1>5. ASSUME NEW k \in 1 .. Len(b)
      PROVE  Len(a) + k \in DOMAIN c /\ c[Len(a) + k] = b[k]
  <2>1. Len(a) + k \in 1 .. Len(c) /\ ~(Len(a) + k <= Len(a)) /\ (Len(a) + k) - Len(a) = k
    BY <1>1, <1>2
  <2> QED
    BY <1>2, <1>3, <2>1
<1>6. ASSUME NEW k \in DOMAIN c
      PROVE  \/ k \in DOMAIN a /\ c[k] = a[k]
             \/ k - Len(a) \in DOMAIN b /\ c[k] = b[k - Len(a)]
  <2>1. CASE k <= Len(a)
    BY <1>1, <1>2, <1>3, <2>1
  <2>2. CASE ~(k <= Len(a))
    <3>1. k - Len(a) \in 1 .. Len(b)
      BY <1>1, <1>2, <1>3, <2>2
    <3> QED
      BY <1>1, <1>2, <1>3, <2>2, <3>1
  <2> QED
    BY <2>1, <2>2
<1>7. \A s : e \in ToSet(s) <=> \E k \in DOMAIN s : e = s[k]
  BY DEF ToSet
<1> HIDE DEF c
<1>8. ASSUME e \in ToSet(c)
      PROVE  e \in ToSet(a) \/ e \in ToSet(b)
  <2>1. PICK k \in DOMAIN c : e = c[k]
    BY <1>7, <1>8
  <2> QED
    BY <1>6, <1>7, <2>1
<1>9. ASSUME e \in ToSet(a)
      PROVE  e \in ToSet(c)
  <2>1. PICK k \in DOMAIN a : e = a[k]
    BY <1>7, <1>9
  <2>2. k \in DOMAIN c /\ c[k] = a[k]
    BY <1>1, <1>4
  <2> QED
    BY <1>7, <2>1, <2>2
<1>10. ASSUME e \in ToSet(b)
       PROVE  e \in ToSet(c)
  <2>1. PICK k \in DOMAIN b : e = b[k]
    BY <1>7, <1>10
  <2>2. Len(a) + k \in DOMAIN c /\ c[Len(a) + k] = b[k]
    BY <1>1, <1>5
  <2> QED
    BY <1>7, <2>1, <2>2
<1> QED
  BY <1>8, <1>9, <1>10 DEF c

LEMMA OneMember == \A e, d : e \in ToSet(<<d>>) <=> e = d
  BY DEF ToSet

LEMMA ValuesAreSound ==
    ASSUME NEW h, h \in Seq(Values)
    PROVE  Error \notin ToSet(h)
<1>1. \A k \in DOMAIN h : h[k] \in Values
  BY LenProperties, ElementOfSeq
<1> QED
  BY <1>1, MeaningAssumption DEF ToSet

(***************************************************************************)
(* What was written, and what the calls have to write, is what the         *)
(* template means                                                          *)
(***************************************************************************)
Whole(t) == MeaningOf(t)[At(1, NoVars, FALSE)]

IsToWrite(t, s, o) == \E x : Owes(MeaningOf(t), Outs(t), s, x) /\ o \o x = Whole(t)

Renders(t, s, o, v) ==
    /\ AllInContext(s)
    /\ o \in Seq(Outs(t)) /\ Error \notin ToSet(o)
    /\ v = "none" => IsToWrite(t, s, o)
    /\ v = "done" => o = Whole(t)
    /\ v = "error" => Error \in ToSet(Whole(t))

MInv == WellNested(template) => Renders(template, frames, out, verdict)

\* The innermost call, in a template that nests.
LEMMA TopNested ==
    ASSUME IInv, WellNested(template), Renders(template, frames, out, verdict)
    PROVE  /\ template \in Templates /\ IsList(frames) /\ frames # <<>>
           /\ Last(frames) = Top /\ Front(frames) = Below
           /\ InContext(Top) /\ DOMAIN Top = FrameFields
           /\ Top.from \in 1 .. Len(template) + 1 /\ Top.at \in 1 .. Len(template) + 1
           /\ InText => /\ Top.at \in 1 .. Len(template) /\ Top.at + 1 \in 1 .. Len(template) + 1
                        /\ template[Top.at].op \notin Closing \cup {"/other"}
                        /\ template[Top.at].op \in Opening =>
                              /\ IsBlock(template, Top.at, Top.to)
                              /\ EndOf(template, Top.at) = PartnerOf(template, Top.at)
           /\ Top.at > Top.to => Top.at > Len(template) \/ template[Top.at].op \in Closing
<1> DEFINE z == <<Top.from, Top.to>>
<1>1. /\ IsTemplate(template) /\ IsCall(template, Top) /\ DOMAIN Top = FrameFields
      /\ Top.from \in Nat /\ Top.to \in Nat /\ Top.at \in Nat /\ Len(template) \in Nat
      /\ 1 <= Top.from /\ Top.from <= Top.at /\ Top.at <= Top.to + 1 /\ Top.to <= Len(template)
      /\ Top = frames[Len(frames)]
  BY TopFacts
<1>2. z \in Parts(template) /\ z[1] = Top.from /\ z[2] = Top.to
      /\ Top.at \in Walk(template, z[1], z[2])
  BY <1>1 DEF IsCall
<1> HIDE DEF z
<1>3. /\ Top.at <= z[2] => /\ Top.at \in 1 .. Len(template)
                           /\ template[Top.at].op \notin Closing \cup {"/other"}
                           /\ template[Top.at].op \in Opening =>
                                 /\ IsBlock(template, Top.at, z[2])
                                 /\ EndOf(template, Top.at) = PartnerOf(template, Top.at)
      /\ z[2] < Top.at => Top.at > Len(template) \/ template[Top.at].op \in Closing
  BY <1>1, <1>2, WalkedFacts
<1>4. /\ IsList(frames) /\ frames # <<>> /\ template \in Templates
  BY DEF IInv, IsStack
<1>5. InContext(Top)
  <2>1. Len(frames) \in 1 .. Len(frames)
    BY <1>4, StackFacts
  <2> QED
    BY <1>1, <2>1 DEF Renders, AllInContext
<1>6. Last(frames) = Top /\ Front(frames) = Below
  BY DEF Top, Below
<1>7. Top.from \in 1 .. Len(template) + 1 /\ Top.at \in 1 .. Len(template) + 1
  BY <1>1
<1>8. InText => Top.at <= Top.to
  BY DEF InText
<1>9. Top.at > Top.to => Top.to < Top.at
  BY <1>1
<1>10. Top.at \in 1 .. Len(template) => Top.at + 1 \in 1 .. Len(template) + 1
  BY <1>1
<1> QED
  BY <1>1, <1>2, <1>3, <1>4, <1>5, <1>6, <1>7, <1>8, <1>9, <1>10

\* What is here, where the call goes on behind it.
MeansHere(t, f) == MeaningHere(MeaningOf(t), t, At(f.at, f.vars, f.last))

LEMMA TopMeans ==
    ASSUME IInv, WellNested(template), Renders(template, frames, out, verdict), InText,
           NEW g, g = GoTo(Following(template, Top.at))
    PROVE  /\ MeansHere(template, Top) \in Seq(Outs(template))
           /\ Leaves(MeaningOf(template), Last(frames), MeansHere(template, Top), g)
           /\ InContext(g) /\ FrameMeans(MeaningOf(template), g) \in Seq(Outs(template))
<1> DEFINE r == At(Top.at, Top.vars, Top.last)
<1>1. /\ template \in Templates /\ InContext(Top) /\ DOMAIN Top = FrameFields
      /\ Last(frames) = Top
      /\ Top.from \in 1 .. Len(template) + 1 /\ Top.at \in 1 .. Len(template)
      /\ template[Top.at].op \notin Closing
  BY TopNested
<1>2. g = [Top EXCEPT !.at = Following(template, Top.at)]
  BY DEF GoTo
<1>3. /\ MeaningHere(MeaningOf(template), template, r) \in Seq(Outs(template))
      /\ Leaves(MeaningOf(template), Top, MeaningHere(MeaningOf(template), template, r), g)
      /\ InContext(g) /\ FrameMeans(MeaningOf(template), g) \in Seq(Outs(template))
  <2> HIDE DEF r
  <2>1. r = At(Top.at, Top.vars, Top.last)
    BY DEF r
  <2> QED
    BY <1>1, <1>2, <2>1, HereMeans
<1> QED
  BY <1>1, <1>3 DEF MeansHere

\* A step that writes what is here ...
LEMMA WritesHere ==
    ASSUME IInv, WellNested(template), Renders(template, frames, out, verdict),
           verdict = "none", InText, NEW g, g = GoTo(Following(template, Top.at)),
           Error \notin ToSet(MeansHere(template, Top))
    PROVE  Renders(template, Append(Below, g), out \o MeansHere(template, Top), "none")
<1> DEFINE h == MeansHere(template, Top)
           M == MeaningOf(template)
           S == Outs(template)
<1>1. /\ h \in Seq(S) /\ Leaves(M, Last(frames), h, g)
      /\ InContext(g) /\ FrameMeans(M, g) \in Seq(S)
  BY TopMeans
<1>2. IsList(frames) /\ frames # <<>> /\ Front(frames) = Below
  BY TopNested
<1>3. AllInContext(Append(Below, g))
  <2>1. AllInContext(frames)
    BY DEF Renders
  <2> QED
    BY <1>1, <1>2, <2>1, ContextGoesOn
<1>4. out \in Seq(S) /\ Error \notin ToSet(out)
  BY DEF Renders
<1>5. PICK x : Owes(M, S, frames, x) /\ out \o x = Whole(template)
  BY DEF Renders, IsToWrite
<1> HIDE DEF h, M, S
<1>6. WritesMore(M, S, Append(Front(frames), g), x, h, out)
  BY <1>1, <1>2, <1>4, <1>5, OwesGoingOn
<1>7. IsToWrite(template, Append(Below, g), out \o h)
  BY <1>2, <1>5, <1>6 DEF WritesMore, IsToWrite, M, S
<1>8. Error \notin ToSet(out \o h)
  <2>1. Error \notin ToSet(h)
    BY DEF h
  <2> QED
    BY <1>1, <1>4, <2>1, ConcatMembers
<1>9. out \o h \in Seq(S)
  BY <1>1, <1>4, ConcatProperties
<1> QED
  BY <1>3, <1>7, <1>8, <1>9 DEF Renders, h, S

\* ... or calls for a part that means what is here.
LEMMA CallsHere ==
    ASSUME IInv, WellNested(template), Renders(template, frames, out, verdict),
           verdict = "none", InText, NEW g, g = GoTo(Following(template, Top.at)),
           NEW b, InContext(b), FrameMeans(MeaningOf(template), b) = MeansHere(template, Top)
    PROVE  Renders(template, Append(Below, g) \o <<b>>, out, "none")
<1> DEFINE h == MeansHere(template, Top)
           M == MeaningOf(template)
           S == Outs(template)
<1>1. /\ h \in Seq(S) /\ Leaves(M, Last(frames), h, g)
      /\ InContext(g) /\ FrameMeans(M, g) \in Seq(S)
  BY TopMeans
<1>2. IsList(frames) /\ frames # <<>> /\ Front(frames) = Below
  BY TopNested
<1>3. AllInContext(Append(Below, g) \o <<b>>)
  <2>1. AllInContext(frames)
    BY DEF Renders
  <2>2. AllInContext(Append(Below, g))
    BY <1>1, <1>2, <2>1, ContextGoesOn
  <2>3. IsList(Append(Below, g))
    BY <1>2, StackFacts, Pushed
  <2> QED
    BY <2>2, <2>3, ContextGrows
<1>4. PICK x : Owes(M, S, frames, x) /\ out \o x = Whole(template)
  BY DEF Renders, IsToWrite
<1>5. FrameMeans(M, b) = h
  OBVIOUS
<1> HIDE DEF h, M, S
<1>6. FrameMeans(M, b) \in Seq(S) /\ Leaves(M, Last(frames), FrameMeans(M, b), g)
  BY <1>1, <1>5
<1>7. Owes(M, S, Append(Front(frames), g) \o <<b>>, x)
  BY <1>1, <1>2, <1>4, <1>6, OwesCalling
<1>8. IsToWrite(template, Append(Below, g) \o <<b>>, out)
  BY <1>2, <1>4, <1>7 DEF IsToWrite, M, S
<1> QED
  BY <1>3, <1>8 DEF Renders

(***************************************************************************)
(* The steps go on rendering                                               *)
(***************************************************************************)
LEMMA TextRenders ==
    ASSUME IInv, WellNested(template), Renders(template, frames, out, verdict), Text
    PROVE  Renders(template, frames', out', verdict')
<1> DEFINE r == At(Top.at, Top.vars, Top.last)
           g == GoTo(Following(template, Top.at))
<1>1. /\ InText /\ verdict = "none" /\ template[Top.at].op = "text"
      /\ out' = Append(out, Value(template[Top.at].expr))
      /\ frames' = Append(Below, GoTo(Top.at + 1)) /\ verdict' = verdict
  BY DEF Text, InText, Here
<1>2. r.lo = Top.at
  BY AtFacts
<1>3. MeansHere(template, Top) = <<Value(template[Top.at].expr)>>
  <2> HIDE DEF r
  <2>1. MeaningHere(MeaningOf(template), template, r) = <<Value(template[Top.at].expr)>>
    BY <1>1, <1>2, HereCases
  <2> QED
    BY <2>1 DEF MeansHere, r
<1>4. g = GoTo(Top.at + 1)
  BY <1>1 DEF Following, Opening
<1>5. Error \notin ToSet(MeansHere(template, Top))
  <2>1. template \in Templates /\ Top.at \in DOMAIN template
    BY <1>1, TopFacts DEF IInv
  <2>2. Value(template[Top.at].expr) # Error
    BY <1>1, <2>1, MeaningAssumption
  <2> QED
    BY <1>3, <2>2, OneMember
<1>6. Renders(template, Append(Below, g), out \o MeansHere(template, Top), "none")
  BY <1>1, <1>5, WritesHere
<1>7. out' = out \o MeansHere(template, Top)
  <2>1. IsList(out)
    BY DEF Renders, IsList
  <2> QED
    BY <1>1, <1>3, <2>1, Pushed
<1> QED
  BY <1>1, <1>4, <1>6, <1>7

LEMMA KnownHere ==
    ASSUME InText
    PROVE  Known(Here.expr) <=> IsKnown(template[Top.at].expr, Top.vars)
  BY DEF Known, IsKnown, Here

LEMMA InlineRenders ==
    ASSUME IInv, WellNested(template), Renders(template, frames, out, verdict), Inline
    PROVE  Renders(template, frames', out', verdict')
<1> DEFINE r == At(Top.at, Top.vars, Top.last)
           g == GoTo(Following(template, Top.at))
           e == template[Top.at].expr
<1>1. /\ InText /\ verdict = "none" /\ template[Top.at].op = "eval" /\ IsKnown(e, Top.vars)
      /\ out' = out \o stringify(ValueOf(e, Top.vars, Top.last))
      /\ frames' = Append(Below, GoTo(Top.at + 1)) /\ verdict' = verdict
  BY KnownHere DEF Inline, InText, Here
<1>2. r.lo = Top.at /\ r.bound = Top.vars /\ r.last = Top.last
  BY AtFacts
<1>3. MeansHere(template, Top) = stringify(ValueOf(e, Top.vars, Top.last))
  <2> HIDE DEF r
  <2>1. MeaningHere(MeaningOf(template), template, r) = stringify(ValueOf(e, Top.vars, Top.last))
    BY <1>1, <1>2, HereCases
  <2> QED
    BY <2>1 DEF MeansHere, r
<1>4. g = GoTo(Top.at + 1)
  BY <1>1 DEF Following, Opening
<1>5. Error \notin ToSet(MeansHere(template, Top))
  <2>1. Top.vars \in Contexts /\ Top.last \in BOOLEAN
    BY TopNested DEF InContext
  <2>2. stringify(ValueOf(e, Top.vars, Top.last)) \in Seq(Values)
    BY <1>1, <2>1, ValueFacts
  <2> QED
    BY <1>3, <2>2, ValuesAreSound
<1>6. Renders(template, Append(Below, g), out \o MeansHere(template, Top), "none")
  BY <1>1, <1>5, WritesHere
<1> QED
  BY <1>1, <1>3, <1>4, <1>6

\* What follows a block is what follows the end that findBlock finds.
LEMMA BlockFollowed ==
    ASSUME IInv, WellNested(template), Renders(template, frames, out, verdict),
           NEW op \in Opening, AtBlock(op)
    PROVE  Min(Ends) + 1 = Following(template, Top.at)
<1>1. InText /\ template[Top.at].op = op
  BY DEF AtBlock, Here
<1>2. EndOf(template, Top.at) = PartnerOf(template, Top.at)
  BY <1>1, TopNested
<1>3. Min(Ends) = EndOf(template, Top.at)
  BY BlockFound
<1> QED
  BY <1>1, <1>2, <1>3 DEF Following

\* A block that has nothing to render writes nothing.
LEMMA SkipsHere ==
    ASSUME IInv, WellNested(template), Renders(template, frames, out, verdict),
           verdict = "none", InText, NEW g, g = GoTo(Following(template, Top.at)),
           MeansHere(template, Top) = <<>>
    PROVE  Renders(template, Append(Below, g), out, "none")
<1>1. Error \notin ToSet(MeansHere(template, Top))
  BY DEF ToSet
<1>2. Renders(template, Append(Below, g), out \o MeansHere(template, Top), "none")
  BY <1>1, WritesHere
<1>3. out \o <<>> = out
  <2>1. IsList(out)
    BY DEF Renders, IsList
  <2> QED
    BY <2>1, Pushed
<1> QED
  BY <1>2, <1>3

LEMMA EachRenders ==
    ASSUME IInv, WellNested(template), Renders(template, frames, out, verdict), Each
    PROVE  Renders(template, frames', out', verdict')
<1> DEFINE p == Min(Ends)
           e == template[Top.at].expr
           as == template[Top.at].as
           items == toItems(ValueOf(e, Top.vars, Top.last))
           body == Frame(Top.at + 1, p - 1, Top.vars, Top.last, items, as, Top.vars)
           g == GoTo(Following(template, Top.at))
           after == Append(Below, g)
           r == At(Top.at, Top.vars, Top.last)
           M == MeaningOf(template)
<1>1. /\ AtBlock("#each") /\ "#each" \in Opening /\ InText /\ verdict = "none"
      /\ template[Top.at].op = "#each" /\ IsKnown(e, Top.vars)
  BY KnownHere DEF Each, Opening, AtBlock, InText, Here
<1>2. p + 1 = Following(template, Top.at)
  BY <1>1, BlockFollowed
<1>3. /\ frames' = after \o IF items = <<>> THEN <<>> ELSE <<withItem(body)>>
      /\ out' = out /\ verdict' = "none"
  BY <1>1, <1>2 DEF Each, Behind, Here
<1>4. /\ DOMAIN body = FrameFields /\ body.from = Top.at + 1 /\ body.vars = Top.vars
      /\ body.outer = Top.vars /\ body.last = Top.last /\ body.items = items /\ body.as = as
  BY DEF Frame, FrameFields
<1>5. /\ template \in Templates /\ InContext(Top) /\ Top.at \in 1 .. Len(template)
      /\ Top.at + 1 \in 1 .. Len(template) + 1 /\ IsList(frames) /\ frames # <<>>
      /\ Front(frames) = Below
  BY <1>1, TopNested
<1>6. items \in Seq(Values) /\ items = ItemsOf(e, Top.vars, Top.last)
  <2>1. Top.vars \in Contexts /\ Top.last \in BOOLEAN
    BY <1>5 DEF InContext
  <2> QED
    BY <1>1, <2>1, ValueFacts DEF ItemsOf
<1>7. as \in Names
  BY <1>1, <1>5, MeaningAssumption, TopFacts
<1>8. MeansHere(template, Top) = FlattenSeq(Turns(M, Top.at + 1, Top.vars, as, items))
  <2>1. r.lo = Top.at /\ r.bound = Top.vars /\ r.last = Top.last
    BY AtFacts
  <2> HIDE DEF r, M, items
  <2>2. MeaningHere(M, template, r) = FlattenSeq(Turns(M, Top.at + 1, Top.vars, as, items))
    BY <1>1, <1>6, <2>1, HereCases
  <2> QED
    BY <2>2 DEF MeansHere, r, M
<1> HIDE DEF p, items, body, g, after, M
<1>9. InContext(body)
  BY <1>4, <1>5, <1>6, <1>7 DEF InContext
<1>10. CASE items = <<>>
  <2>1. MeansHere(template, Top) = <<>>
    <3>1. FlattenSeq(Turns(M, Top.at + 1, Top.vars, as, items)) = <<>>
      <4>1. Top.vars \in Contexts
        BY <1>5 DEF InContext
      <4> QED
        BY <1>5, <1>6, <1>7, <1>10, <4>1, TurnsTyped DEF M
    <3> QED
      BY <1>8, <3>1
  <2>2. Renders(template, after, out, "none")
    BY <1>1, <2>1, SkipsHere DEF g, after
  <2>3. frames' = after
    <3>1. IsList(after)
      BY <1>5, StackFacts, Pushed DEF after
    <3> QED
      BY <1>3, <1>10, <3>1, Pushed
  <2> QED
    BY <1>3, <2>2, <2>3
<1>11. CASE items # <<>>
  <2>1. /\ InContext(withItem(body))
        /\ FrameMeans(M, withItem(body)) =
              FlattenSeq(Turns(M, body.from, body.outer, body.as, body.items))
    BY <1>4, <1>5, <1>9, <1>11, ItemMeans DEF M
  <2>2. FrameMeans(M, withItem(body)) = MeansHere(template, Top)
    BY <1>4, <1>8, <2>1
  <2>3. Renders(template, after \o <<withItem(body)>>, out, "none")
    BY <1>1, <2>1, <2>2, CallsHere DEF g, after, M
  <2> QED
    BY <1>3, <1>11, <2>3
<1> QED
  BY <1>10, <1>11

LEMMA UnlessRenders ==
    ASSUME IInv, WellNested(template), Renders(template, frames, out, verdict), Unless
    PROVE  Renders(template, frames', out', verdict')
<1> DEFINE p == Min(Ends)
           body == Frame(Top.at + 1, p - 1, Top.vars, Top.last, <<>>, "this", Top.vars)
           g == GoTo(Following(template, Top.at))
           after == Append(Below, g)
           r == At(Top.at, Top.vars, Top.last)
           s == At(Top.at + 1, Top.vars, Top.last)
           M == MeaningOf(template)
<1>1. /\ AtBlock("#unless") /\ "#unless" \in Opening /\ InText /\ verdict = "none"
      /\ template[Top.at].op = "#unless"
  BY DEF Unless, Opening, AtBlock, InText, Here
<1>2. p + 1 = Following(template, Top.at)
  BY <1>1, BlockFollowed
<1>3. /\ frames' = after \o IF unlessCondition THEN <<>> ELSE <<body>>
      /\ out' = out /\ verdict' = "none"
  BY <1>1, <1>2 DEF Unless, Behind
<1>4. /\ body.from = Top.at + 1 /\ body.at = Top.at + 1 /\ body.vars = Top.vars
      /\ body.outer = Top.vars /\ body.last = Top.last /\ body.items = <<>>
  BY DEF Frame
<1>5. /\ template \in Templates /\ InContext(Top)
      /\ Top.at + 1 \in 1 .. Len(template) + 1 /\ IsList(frames) /\ frames # <<>>
      /\ Front(frames) = Below
  BY <1>1, TopNested
<1>6. MeansHere(template, Top) = IF unlessCondition THEN <<>> ELSE M[s]
  <2>1. r.lo = Top.at /\ r.bound = Top.vars /\ r.last = Top.last
    BY AtFacts
  <2> HIDE DEF r, M
  <2>2. MeaningHere(M, template, r) =
           IF template[Top.at].expr = "@last" /\ Top.last THEN <<>> ELSE M[s]
    BY <1>1, <2>1, HereCases
  <2> QED
    BY <2>2 DEF MeansHere, r, M, unlessCondition, Here
<1> HIDE DEF p, body, g, after, s, M
<1>7. CASE unlessCondition
  <2>1. Renders(template, after, out, "none")
    BY <1>1, <1>6, <1>7, SkipsHere DEF g, after
  <2>2. frames' = after
    <3>1. IsList(after)
      BY <1>5, StackFacts, Pushed DEF after
    <3> QED
      BY <1>3, <1>7, <3>1, Pushed
  <2> QED
    BY <1>3, <2>1, <2>2
<1>8. CASE ~unlessCondition
  <2>1. InContext(body)
    <3>1. <<>> \in Seq(Values)
      BY EmptySeq
    <3> QED
      BY <1>4, <1>5, <3>1 DEF InContext
  <2>2. FrameMeans(M, body) = MeansHere(template, Top)
    <3>1. /\ M[At(body.at, body.vars, body.last)] \in Seq(Outs(template))
          /\ FlattenSeq(Turns(M, body.from, body.outer, body.as, body.items)) = <<>>
      BY <1>4, <1>5, <2>1, FrameTyped DEF M
    <3>2. M[s] \in Seq(Outs(template)) /\ FrameMeans(M, body) = M[s] \o <<>>
      BY <1>4, <3>1 DEF FrameMeans, s
    <3>3. M[s] \o <<>> = M[s]
      BY <3>2, ConcatEmptySeq
    <3> QED
      BY <1>6, <1>8, <3>2, <3>3
  <2>3. Renders(template, after \o <<body>>, out, "none")
    BY <1>1, <2>1, <2>2, CallsHere DEF g, after, M
  <2> QED
    BY <1>3, <1>8, <2>3
<1> QED
  BY <1>7, <1>8

\* In a template that nests, only an unknown name fails.
LEMMA FailsRenders ==
    ASSUME IInv, WellNested(template), Renders(template, frames, out, verdict), Fails
    PROVE  Renders(template, frames', out', verdict')
<1> DEFINE r == At(Top.at, Top.vars, Top.last)
           g == GoTo(Following(template, Top.at))
           M == MeaningOf(template)
           S == Outs(template)
           h == MeansHere(template, Top)
<1>1. /\ InText /\ verdict = "none" /\ Here = template[Top.at]
      /\ frames' = frames /\ out' = out /\ verdict' = "error"
  BY DEF Fails, InText, Here
<1>2. /\ IsList(frames) /\ frames # <<>> /\ template[Top.at].op \notin Closing \cup {"/other"}
      /\ template[Top.at].op \in Opening => IsBlock(template, Top.at, Top.to)
  BY <1>1, TopNested
<1>3. template[Top.at].op \in Opening => Ends # {}
  <2> SUFFICES ASSUME template[Top.at].op \in Opening PROVE Ends # {}
    OBVIOUS
  <2>1. \A q : Depth(q) = DepthOf(template, Top.at, q)
    BY <1>1 DEF Depth, DepthOf, Named
  <2>2. Ends = {q \in Top.at + 1 .. Top.to : DepthOf(template, Top.at, q) = 0}
    BY <2>1 DEF Ends
  <2> QED
    BY <1>2, <2>2 DEF IsBlock
<1>4. template[Top.at].op \in {"eval", "#each"} /\ ~ IsKnown(template[Top.at].expr, Top.vars)
  BY <1>1, <1>2, <1>3, KnownHere DEF Fails
<1>5. h = <<Error>>
  <2>1. r.lo = Top.at /\ r.bound = Top.vars /\ r.last = Top.last
    BY AtFacts
  <2> HIDE DEF r
  <2>2. MeaningHere(M, template, r) = <<Error>>
    BY <1>4, <2>1, HereCases
  <2> QED
    BY <2>2 DEF MeansHere, r
<1>6. h \in Seq(S) /\ Leaves(M, Last(frames), h, g) /\ FrameMeans(M, g) \in Seq(S)
  BY <1>1, TopMeans
<1>7. PICK x : Owes(M, S, frames, x) /\ out \o x = Whole(template)
  BY <1>1 DEF Renders, IsToWrite
<1>8. out \in Seq(S)
  BY DEF Renders
<1> HIDE DEF M, S, h, g
<1>9. WritesMore(M, S, Append(Front(frames), g), x, h, out)
  BY <1>2, <1>6, <1>7, <1>8, OwesGoingOn
<1>10. PICK z : /\ Owes(M, S, Append(Front(frames), g), z)
                /\ out \o x = (out \o h) \o z
  BY <1>9 DEF WritesMore
<1>11. z \in Seq(S)
  <2>1. Len(Append(Front(frames), g)) \in Nat
    BY <1>2, StackFacts, Pushed
  <2> QED
    BY <1>10, <2>1, OwesType
<1>12. Error \in ToSet(out \o h) /\ out \o h \in Seq(S)
  <2>1. Error \in ToSet(h)
    BY <1>5, OneMember
  <2>2. out \o h \in Seq(S)
    BY <1>6, <1>8, ConcatProperties
  <2> QED
    BY <1>6, <1>8, <2>1, <2>2, ConcatMembers
<1>13. Error \in ToSet((out \o h) \o z)
  <2> DEFINE w == out \o h
  <2>1. w \in Seq(S) /\ Error \in ToSet(w)
    BY <1>12
  <2> HIDE DEF w
  <2>2. Error \in ToSet(w \o z)
    BY <1>11, <2>1, ConcatMembers
  <2> QED
    BY <2>2 DEF w
<1> QED
  BY <1>1, <1>7, <1>10, <1>13 DEF Renders

\* Behind the end of its part, a call means the items left.
LEMMA ItemRenders ==
    ASSUME IInv, WellNested(template), Renders(template, frames, out, verdict), NextItem
    PROVE  Renders(template, frames', out', verdict')
<1> DEFINE g == withItem(Top)
           M == MeaningOf(template)
           S == Outs(template)
<1>1. /\ verdict = "none" /\ Top.at > Top.to /\ Top.items # <<>>
      /\ frames' = Append(Below, g) /\ out' = out /\ verdict' = verdict
  BY DEF NextItem
<1>2. /\ template \in Templates /\ IsList(frames) /\ frames # <<>>
      /\ Last(frames) = Top /\ Front(frames) = Below
      /\ InContext(Top) /\ DOMAIN Top = FrameFields
      /\ Top.from \in 1 .. Len(template) + 1 /\ Top.at \in 1 .. Len(template) + 1
      /\ Top.at > Len(template) \/ template[Top.at].op \in Closing
  BY <1>1, TopNested
<1>3. /\ InContext(g) /\ g.from = Top.from /\ g.at = Top.from
      /\ FrameMeans(M, g) = FlattenSeq(Turns(M, Top.from, Top.outer, Top.as, Top.items))
  BY <1>1, <1>2, ItemMeans
<1>4. FrameMeans(M, Top) = FlattenSeq(Turns(M, Top.from, Top.outer, Top.as, Top.items))
  BY <1>2, EndMeans
<1>5. FrameMeans(M, g) \in Seq(S)
  BY <1>2, <1>3, FrameTyped
<1>6. <<>> \in Seq(S) /\ out \in Seq(S)
  BY EmptySeq DEF Renders
<1>7. PICK x : Owes(M, S, frames, x) /\ out \o x = Whole(template)
  BY <1>1 DEF Renders, IsToWrite
<1> HIDE DEF g, M, S
<1>8. Leaves(M, Last(frames), <<>>, g)
  <2>1. <<>> \o FrameMeans(M, g) = FrameMeans(M, g)
    BY <1>5, ConcatEmptySeq
  <2> QED
    BY <1>2, <1>3, <1>4, <2>1 DEF Leaves
<1>9. WritesMore(M, S, Append(Front(frames), g), x, <<>>, out)
  BY <1>2, <1>5, <1>6, <1>7, <1>8, OwesGoingOn
<1>10. IsToWrite(template, Append(Below, g), out)
  <2>1. out \o <<>> = out
    BY <1>6, ConcatEmptySeq
  <2> QED
    BY <1>2, <1>7, <1>9, <2>1 DEF WritesMore, IsToWrite, M, S
<1>11. AllInContext(Append(Below, g))
  <2>1. AllInContext(frames)
    BY DEF Renders
  <2> QED
    BY <1>2, <1>3, <2>1, ContextGoesOn
<1> QED
  BY <1>1, <1>10, <1>11 DEF Renders

\* A call that returns means nothing more.
LEMMA EndRenders ==
    ASSUME IInv, WellNested(template), Renders(template, frames, out, verdict), BlockEnds
    PROVE  Renders(template, frames', out', verdict')
<1> DEFINE M == MeaningOf(template)
           S == Outs(template)
<1>1. verdict = "none" /\ Top.at > Top.to /\ Top.items = <<>> /\ out' = out
  BY DEF BlockEnds
<1>2. /\ template \in Templates /\ IsList(frames) /\ frames # <<>>
      /\ Last(frames) = Top /\ Front(frames) = Below /\ InContext(Top)
      /\ Top.from \in 1 .. Len(template) + 1 /\ Top.at \in 1 .. Len(template) + 1
      /\ Top.at > Len(template) \/ template[Top.at].op \in Closing
  BY <1>1, TopNested
<1>3. FrameMeans(M, Top) = <<>>
  <2>1. FrameMeans(M, Top) = FlattenSeq(Turns(M, Top.from, Top.outer, Top.as, Top.items))
    BY <1>2, EndMeans
  <2>2. FlattenSeq(Turns(M, Top.from, Top.outer, Top.as, Top.items)) = <<>>
    BY <1>1, <1>2, FrameTyped
  <2> QED
    BY <2>1, <2>2
<1>4. PICK x : Owes(M, S, frames, x) /\ out \o x = Whole(template)
  BY <1>1 DEF Renders, IsToWrite
<1>5. AllInContext(frames) /\ out \in Seq(S) /\ Error \notin ToSet(out)
  BY DEF Renders
<1> HIDE DEF M, S
<1>6. OwesFirst(M, S, frames, x)
  BY <1>2, <1>4, OwesTop
<1>7. PICK y \in Seq(S) : Owes(M, S, Below, y) /\ x = FrameMeans(M, Top) \o y
  BY <1>2, <1>6 DEF OwesFirst
<1>8. x = y
  <2>1. <<>> \o y = y
    BY <1>7, ConcatEmptySeq
  <2> QED
    BY <1>3, <1>7, <2>1
<1>9. CASE Len(frames) = 1
  <2>1. frames' = frames /\ verdict' = "done"
    BY <1>9 DEF BlockEnds
  <2>2. Len(Below) = 0
    <3>1. Len(Front(frames)) = Len(frames) - 1
      BY <1>2, StackFacts
    <3> QED
      BY <1>2, <1>9, <3>1
  <2>3. x = <<>>
    BY <1>7, <1>8, <2>2, OwesNothing
  <2>4. out = Whole(template)
    <3>1. out \o <<>> = out
      BY <1>5, ConcatEmptySeq
    <3> QED
      BY <1>4, <2>3, <3>1
  <2> QED
    BY <1>1, <1>5, <2>1, <2>4 DEF Renders, S
<1>10. CASE Len(frames) # 1
  <2>1. frames' = Below /\ verdict' = "none"
    BY <1>1, <1>10 DEF BlockEnds
  <2>2. AllInContext(Below)
    <3>1. InContext(Top)
      BY <1>2
    <3>2. AllInContext(Front(frames))
      BY <1>2, <1>5, <3>1, ContextGoesOn
    <3> QED
      BY <1>2, <3>2
  <2>3. IsToWrite(template, Below, out)
    BY <1>4, <1>7, <1>8 DEF IsToWrite, M, S
  <2> QED
    BY <1>1, <1>5, <2>1, <2>2, <2>3 DEF Renders, S
<1> QED
  BY <1>9, <1>10

LEMMA StepRenders == IInv /\ MInv /\ [Next]_vars => MInv'
<1> SUFFICES ASSUME IInv, MInv, [Next]_vars, WellNested(template')
             PROVE  Renders(template', frames', out', verdict')
  BY DEF MInv
<1>1. template' = template
  BY DEF Next, Text, Inline, Each, Behind, Unless, Fails, NextItem, BlockEnds, vars
<1>2. WellNested(template) /\ Renders(template, frames, out, verdict)
  BY <1>1 DEF MInv
<1>3. Renders(template, frames', out', verdict')
  <2>1. CASE Text
    BY <1>2, <2>1, TextRenders
  <2>2. CASE Inline
    BY <1>2, <2>2, InlineRenders
  <2>3. CASE Each
    BY <1>2, <2>3, EachRenders
  <2>4. CASE Unless
    BY <1>2, <2>4, UnlessRenders
  <2>5. CASE Fails
    BY <1>2, <2>5, FailsRenders
  <2>6. CASE NextItem
    BY <1>2, <2>6, ItemRenders
  <2>7. CASE BlockEnds
    BY <1>2, <2>7, EndRenders
  <2>8. CASE UNCHANGED vars
    BY <1>2, <2>8 DEF vars
  <2> QED
    BY <2>1, <2>2, <2>3, <2>4, <2>5, <2>6, <2>7, <2>8 DEF Next
<1> QED
  BY <1>1, <1>3

LEMMA InitRenders == Init => MInv
<1> SUFFICES ASSUME Init, WellNested(template)
             PROVE  Renders(template, frames, out, verdict)
  BY DEF MInv
<1> DEFINE f == Frame(1, Len(template), NoVars, FALSE, <<>>, "this", NoVars)
           M == MeaningOf(template)
           S == Outs(template)
<1>1. /\ template \in Templates /\ frames = <<f>> /\ out = <<>> /\ verdict = "none"
  BY DEF Init
<1>2. /\ f.from = 1 /\ f.at = 1 /\ f.vars = NoVars /\ f.outer = NoVars /\ f.last = FALSE
      /\ f.items = <<>>
  BY DEF Frame
<1>3. 1 \in 1 .. Len(template) + 1
  BY <1>1, TemplateAssumption
<1>4. InContext(f)
  <2>1. <<>> \in Seq(Values)
    BY EmptySeq
  <2> QED
    BY <1>2, <2>1, ContextFacts DEF InContext
<1> HIDE DEF f
<1>5. /\ M[At(f.at, f.vars, f.last)] \in Seq(S)
      /\ FlattenSeq(Turns(M, f.from, f.outer, f.as, f.items)) = <<>>
      /\ FrameMeans(M, f) \in Seq(S)
  BY <1>1, <1>2, <1>3, <1>4, FrameTyped
<1>6. M[At(f.at, f.vars, f.last)] = Whole(template)
  BY <1>2 DEF Whole
<1> HIDE DEF M, S
<1>7. FrameMeans(M, f) = Whole(template)
  <2>1. FrameMeans(M, f) = Whole(template) \o <<>>
    BY <1>5, <1>6 DEF FrameMeans
  <2>2. Whole(template) \o <<>> = Whole(template)
    BY <1>5, <1>6, ConcatEmptySeq
  <2> QED
    BY <2>1, <2>2
<1>8. IsList(<<>>) /\ Len(<<>>) = 0 /\ Append(<<>>, f) = <<f>>
  <2>1. <<>> \in Seq({f})
    BY EmptySeq
  <2> QED
    BY <2>1 DEF IsList
<1>9. Owes(M, S, <<f>>, FrameMeans(M, f) \o <<>>)
  <2>1. Owes(M, S, <<>>, <<>>)
    BY <1>8, OwesNothing
  <2>2. Owes(M, S, Append(<<>>, f), FrameMeans(M, f) \o <<>>)
    BY <1>5, <1>8, <2>1, OwesPushed
  <2> QED
    BY <1>8, <2>2
<1>10. IsToWrite(template, <<f>>, <<>>)
  <2> DEFINE m == FrameMeans(M, f)
  <2>1. m \o <<>> = m /\ <<>> \o m = m
    BY <1>5, ConcatEmptySeq
  <2>2. Owes(M, S, <<f>>, m)
    BY <1>9, <2>1
  <2> QED
    BY <1>7, <2>1, <2>2 DEF IsToWrite, M, S
<1>11. AllInContext(<<f>>)
  <2>1. Len(<<f>>) = 1 /\ <<f>>[1] = f
    OBVIOUS
  <2> QED
    BY <1>4, <2>1 DEF AllInContext
<1>12. <<>> \in Seq(S) /\ Error \notin ToSet(<<>>)
  BY EmptySeq DEF ToSet
<1> QED
  BY <1>1, <1>10, <1>11, <1>12 DEF Renders, S

\* A template whose blocks nest is rendered to what it means, whatever the
\* values and the items are: each block ends at the action that closes it, its
\* body is written once for each item with the names that are in scope there,
\* and rendering fails exactly if it comes to a name that nothing binds.
THEOREM RendersMeaningAlways == Spec => []RendersMeaning
<1>1. Init => IInv /\ MInv
  BY InitIInv, InitRenders
<1>2. MInv /\ IInv => RendersMeaning
  <2> SUFFICES ASSUME IInv, MInv, verdict # "none", WellNested(template)
               PROVE  IF Error \in ToSet(Whole(template)) THEN verdict = "error"
                      ELSE verdict = "done" /\ out = Whole(template)
    BY DEF RendersMeaning, Whole
  <2>1. verdict \in {"done", "error"}
    BY DEF IInv
  <2>2. /\ Error \notin ToSet(out)
        /\ verdict = "done" => out = Whole(template)
        /\ verdict = "error" => Error \in ToSet(Whole(template))
    BY DEF MInv, Renders
  <2> QED
    BY <2>1, <2>2
<1>3. IInv /\ MInv /\ [Next]_vars => MInv'
  BY StepRenders
<1> QED
  BY <1>1, <1>2, <1>3, Invariance, PTL DEF Spec
=============================================================================
