-------------------------- MODULE ValueMatchProofs --------------------------
(***************************************************************************)
(* Facts about ValueMatch for any values, any nested matchers and any      *)
(* bound on their number.                                                  *)
(***************************************************************************)
EXTENDS ValueMatch, FiniteSetTheorems, WellFoundedInduction, TLAPS

\* A non-empty set of indices has a least element, which is what Min picks.
LEMMA MinIndex ==
    ASSUME NEW S, S \subseteq Nat, S # {}
    PROVE  Min(S) \in S
<1> DEFINE Less == {ss \in Nat \X Nat : ss[1] < ss[2]}
<1>1. IsWellFoundedOn(Less, Nat)
  BY NatLessThanWellFounded DEF OpToRel
<1> HIDE DEF Less
<1>2. PICK m \in S : \A y \in S : <<y, m>> \notin Less
  BY <1>1, WFMin
<1>3. \A y \in S : m =< y
  <2>1. TAKE y \in S
  <2>2. y \in Nat /\ m \in Nat /\ <<y, m>> \notin Less
    BY <1>2
  <2> QED
    BY <2>2 DEF Less
<1> QED
  BY <1>2, <1>3 DEF Min

(***************************************************************************)
(* The inductive invariant: the nested matchers that are done were given   *)
(* values, each an accepted one of its own, and the used indices are those *)
(* of these values and no others.                                          *)
(***************************************************************************)
\* deal gives the first n nested matchers a value each.
Deals(deal, n) ==
    /\ deal \in [1 .. n -> DOMAIN values]
    /\ \A i, k \in 1 .. n : i # k => deal[i] # deal[k]
    /\ \A i \in 1 .. n : deal[i] \in Accepted(i)

Given ==
    operator = "hasExactly" =>
        \E deal : Deals(deal, at - 1) /\ used = {deal[i] : i \in 1 .. at - 1}

Included ==
    operator = "includes" => \A i \in 1 .. at - 1 : Accepted(i) # {}

Decided ==
    /\ verdict = "yes" => at = Len(matchers) + 1
    /\ verdict = "yes" /\ operator = "hasExactly" => SameNumber
    /\ verdict = "no" /\ operator = "includes" =>
          \E i \in DOMAIN matchers : Accepted(i) = {}

IInv == TypeOK /\ Given /\ Included /\ Decided /\ ExactlyCompleteForEqualTo

LEMMA CasesAreSeqs ==
    ASSUME NEW S, NEW s \in Cases(S)
    PROVE  s \in Seq(S)
<1>1. PICK n \in 0 .. Limit : s \in [1 .. n -> S]
  BY DEF Cases
<1>2. n \in Nat
  BY ValueMatchAssumption
<1> QED
  BY <1>1, <1>2

LEMMA Domains ==
    ASSUME TypeOK
    PROVE  /\ DOMAIN matchers = 1 .. Len(matchers) /\ Len(matchers) \in Nat
           /\ DOMAIN values = 1 .. Len(values) /\ Len(values) \in Nat
           /\ at \in Nat \ {0}
  BY DEF TypeOK

LEMMA InitIInv == Init => IInv
<1> SUFFICES ASSUME Init PROVE IInv
  OBVIOUS
<1>1. matchers \in Seq(SUBSET Values) /\ values \in Seq(Values)
  BY CasesAreSeqs DEF Init
<1>2. TypeOK
  BY <1>1 DEF Init, TypeOK
<1>3. Given
  <2>1. Deals([i \in {} |-> 0], 0)
    BY DEF Deals
  <2>2. at - 1 = 0 /\ used = {} /\ 1 .. 0 = {}
    BY DEF Init
  <2> QED
    BY <2>1, <2>2 DEF Given
<1>4. Included /\ Decided /\ ExactlyCompleteForEqualTo
  BY DEF Init, Included, Decided, ExactlyCompleteForEqualTo
<1> QED
  BY <1>2, <1>3, <1>4 DEF IInv

LEMMA FreeIndices ==
    ASSUME TypeOK
    PROVE  Free \subseteq DOMAIN values /\ Free \subseteq Nat
  BY Domains DEF Free, Accepted

LEMMA TakeTypeOK ==
    ASSUME IInv, Take
    PROVE  TypeOK'
<1>1. Min(Free) \in DOMAIN values
  BY MinIndex, FreeIndices DEF IInv, Take
<1>2. at \in 1 .. Len(matchers)
  BY Domains DEF IInv, Take, InLoop
<1> QED
  BY <1>1, <1>2 DEF IInv, TypeOK, Take, InLoop, Running, case

\* The value hasExactly takes extends the deal so far.
LEMMA TakeGiven ==
    ASSUME IInv, Take
    PROVE  Given'
<1> SUFFICES ASSUME operator = "hasExactly" PROVE Given'
  BY DEF Given, Take, InLoop, Running, case
<1> DEFINE j == Min(Free)
<1>1. /\ operator' = operator /\ matchers' = matchers /\ values' = values
      /\ at' = at + 1 /\ used' = used \cup {j}
      /\ at \in DOMAIN matchers /\ Free # {}
  BY DEF Take, InLoop, Running, case
<1>2. at \in Nat \ {0}
  BY Domains DEF IInv
<1>3. j \in Free /\ j \in DOMAIN values
  BY <1>1, MinIndex, FreeIndices DEF IInv
<1>4. j \in Accepted(at) /\ j \notin used
  BY <1>3 DEF Free
<1> HIDE DEF j
<1>5. PICK deal : Deals(deal, at - 1) /\ used = {deal[i] : i \in 1 .. at - 1}
  BY DEF IInv, Given
<1> DEFINE more == [i \in 1 .. at |-> IF i = at THEN j ELSE deal[i]]
<1>6. more \in [1 .. at -> DOMAIN values]
  BY <1>2, <1>3, <1>5 DEF Deals
<1>7. \A i \in 1 .. at : i # at => i \in 1 .. at - 1 /\ more[i] = deal[i]
  BY <1>2
<1>8. more[at] = j
  BY <1>2
<1> HIDE DEF more
<1>9. \A i, k \in 1 .. at : i # k => more[i] # more[k]
  BY <1>4, <1>5, <1>7, <1>8 DEF Deals
<1>10. \A i \in 1 .. at : more[i] \in Accepted(i)
  BY <1>4, <1>5, <1>7, <1>8 DEF Deals
<1>11. used' = {more[i] : i \in 1 .. at}
  <2>1. \A i \in 1 .. at - 1 : i \in 1 .. at /\ i # at
    BY <1>2
  <2>2. at \in 1 .. at
    BY <1>2
  <2> QED
    BY <1>1, <1>5, <1>7, <1>8, <2>1, <2>2
<1>12. PICK d, n : /\ n = at /\ Deals(d, n)
                    /\ used' = {d[i] : i \in 1 .. n}
  BY <1>6, <1>9, <1>10, <1>11 DEF Deals
<1>13. Deals(d, n)'
  <2>1. \A i : Accepted(i)' = Accepted(i)
    BY <1>1 DEF Accepted
  <2> QED
    BY <1>1, <1>12, <2>1 DEF Deals
<1>14. at' - 1 = n
  BY <1>1, <1>2, <1>12
<1> QED
  BY <1>12, <1>13, <1>14 DEF Given

LEMMA TakeRest ==
    ASSUME IInv, Take
    PROVE  Included' /\ Decided' /\ ExactlyCompleteForEqualTo'
<1>1. /\ operator' = operator /\ matchers' = matchers /\ values' = values
      /\ at' = at + 1 /\ verdict' = "none"
      /\ at \in DOMAIN matchers /\ Free # {}
  BY DEF Take, InLoop, Running, case
<1>2. at \in Nat \ {0}
  BY Domains DEF IInv
<1>3. \A i : Accepted(i)' = Accepted(i)
  BY <1>1 DEF Accepted
<1>4. operator = "includes" => Accepted(at) # {}
  BY <1>1 DEF Free
<1>5. \A i \in 1 .. at' - 1 : i = at \/ i \in 1 .. at - 1
  BY <1>1, <1>2
<1>6. Included'
  BY <1>1, <1>3, <1>4, <1>5 DEF IInv, Included
<1> QED
  BY <1>1, <1>6 DEF Decided, ExactlyCompleteForEqualTo

(***************************************************************************)
(* Taking the first free value is enough when nested matchers do not       *)
(* overlap: those that accept what this one accepts were given all of it,  *)
(* and they are fewer than those that need it.                             *)
(***************************************************************************)
LEMMA NoneLeft ==
    ASSUME IInv, InLoop, Free = {}, operator = "hasExactly", NoOverlap
    PROVE  ~Dealt
<1> SUFFICES ASSUME Dealt PROVE FALSE
  OBVIOUS
<1>0. /\ DOMAIN matchers = 1 .. Len(matchers) /\ Len(matchers) \in Nat
      /\ at \in DOMAIN matchers /\ at \in Nat \ {0}
  BY Domains DEF IInv, InLoop
<1>1. PICK deal \in [DOMAIN matchers -> DOMAIN values] :
         /\ \A i, k \in DOMAIN matchers : i # k => deal[i] # deal[k]
         /\ \A i \in DOMAIN matchers : deal[i] \in Accepted(i)
  BY DEF Dealt
<1>2. PICK given : Deals(given, at - 1) /\ used = {given[i] : i \in 1 .. at - 1}
  BY DEF IInv, Given
<1> DEFINE Alike == {i \in DOMAIN matchers : matchers[i] = matchers[at]}
           Served == {i \in Alike : i \in 1 .. at - 1}
           Giver(j) == CHOOSE i \in Served : given[i] = j
           route == [i \in Alike |-> Giver(deal[i])]
<1>3. \A i \in Alike : deal[i] \in Accepted(at)
  BY <1>0, <1>1 DEF Accepted
<1>4. ASSUME NEW j \in Accepted(at) PROVE \E i \in Served : given[i] = j
  <2>1. j \in used
    BY <1>4 DEF Free
  <2>2. PICK i \in 1 .. at - 1 : given[i] = j
    BY <1>2, <2>1
  <2>3. i \in DOMAIN matchers
    BY <1>0
  <2>4. j \in Accepted(i)
    BY <1>2, <2>2 DEF Deals
  <2>5. matchers[i] = matchers[at]
    BY <1>0, <1>4, <2>3, <2>4 DEF Accepted, NoOverlap
  <2> QED
    BY <2>2, <2>3, <2>5
<1>5. \A i \in Alike : Giver(deal[i]) \in Served /\ given[Giver(deal[i])] = deal[i]
  BY <1>3, <1>4
<1>6. route \in [Alike -> Served]
  BY <1>5
<1>7. \A i, k \in Alike : i # k => route[i] # route[k]
  BY <1>1, <1>5
<1>8. IsFiniteSet(Alike) /\ IsFiniteSet(Served) /\ Cardinality(Served) < Cardinality(Alike)
  <2>1. IsFiniteSet(1 .. Len(matchers))
    BY <1>0, FS_Interval
  <2>2. IsFiniteSet(Alike)
    BY <1>0, <2>1, FS_Subset
  <2>3. at \in Alike /\ at \notin Served /\ Served \subseteq Alike
    BY <1>0
  <2>4. /\ IsFiniteSet(Served) /\ Cardinality(Served) <= Cardinality(Alike)
        /\ Cardinality(Served) # Cardinality(Alike)
    BY <2>2, <2>3, FS_Subset
  <2>5. Cardinality(Served) \in Nat /\ Cardinality(Alike) \in Nat
    BY <2>2, <2>4, FS_CardinalityType
  <2> HIDE DEF Alike, Served
  <2> QED
    BY <2>2, <2>4, <2>5
<1> HIDE DEF Alike, Served, route
<1>9. \E i, k \in Alike : i # k /\ route[i] = route[k]
  BY <1>6, <1>8, FS_PigeonHole
<1> QED
  BY <1>7, <1>9

LEMMA NoneFreeIInv ==
    ASSUME IInv, NoneFree
    PROVE  IInv'
<1>1. /\ UNCHANGED <<operator, matchers, values, at, used>>
      /\ verdict' = "no" /\ at \in DOMAIN matchers /\ Free = {}
  BY DEF NoneFree, InLoop, Running, case
<1>2. \A i : Accepted(i)' = Accepted(i)
  BY <1>1 DEF Accepted
<1>3. TypeOK'
  BY <1>1 DEF IInv, TypeOK
<1>4. Given'
  BY <1>1, <1>2 DEF IInv, Given, Deals
<1>5. Included'
  BY <1>1, <1>2 DEF IInv, Included
<1>6. Decided'
  BY <1>1, <1>2 DEF Decided, Free
<1>7. ExactlyCompleteForEqualTo'
  <2>1. NoOverlap' = NoOverlap /\ Dealt' = Dealt
    BY <1>1, <1>2 DEF NoOverlap, Dealt
  <2>2. operator = "hasExactly" /\ NoOverlap => ~Dealt
    BY <1>1, NoneLeft DEF NoneFree
  <2> QED
    BY <1>1, <2>1, <2>2 DEF ExactlyCompleteForEqualTo
<1> QED
  BY <1>3, <1>4, <1>5, <1>6, <1>7 DEF IInv

LEMMA StepIInv == IInv /\ [Next]_vars => IInv'
<1> SUFFICES ASSUME IInv, [Next]_vars PROVE IInv'
  OBVIOUS
<1>1. CASE Take
  BY <1>1, TakeTypeOK, TakeGiven, TakeRest DEF IInv
<1>2. CASE NoneFree
  BY <1>2, NoneFreeIInv
<1>3. ASSUME UNCHANGED <<operator, matchers, values, at, used>>
      PROVE  /\ \A i : Accepted(i)' = Accepted(i)
             /\ Given' /\ Included'
             /\ verdict' \in {"yes", "no"} => TypeOK'
  <2>1. \A i : Accepted(i)' = Accepted(i)
    BY <1>3 DEF Accepted
  <2>2. Given' /\ Included'
    BY <1>3, <2>1 DEF IInv, Given, Deals, Included
  <2>3. verdict' \in {"yes", "no"} => TypeOK'
    BY <1>3 DEF IInv, TypeOK
  <2> QED
    BY <2>1, <2>2, <2>3
<1>4. CASE LengthDiffers
  <2>1. /\ UNCHANGED <<operator, matchers, values, at, used>>
        /\ operator = "hasExactly" /\ verdict' = "no" /\ ~SameNumber
    BY <1>4 DEF LengthDiffers, Running, case, SameNumber
  <2>2. Decided' /\ ExactlyCompleteForEqualTo'
    BY <2>1 DEF Decided, ExactlyCompleteForEqualTo, SameNumber
  <2> QED
    BY <1>3, <2>1, <2>2 DEF IInv
<1>5. CASE AllTaken
  <2>1. /\ UNCHANGED <<operator, matchers, values, at, used>>
        /\ verdict' = "yes" /\ at > Len(matchers)
        /\ operator = "hasExactly" => SameNumber
    BY <1>5 DEF AllTaken, Running, case, SameNumber
  <2>2. at = Len(matchers) + 1
    <3>1. at \in 1 .. Len(matchers) + 1 /\ Len(matchers) \in Nat
      BY Domains DEF IInv, TypeOK
    <3> QED
      BY <2>1, <3>1
  <2>3. Decided' /\ ExactlyCompleteForEqualTo'
    BY <2>1, <2>2 DEF Decided, ExactlyCompleteForEqualTo, SameNumber
  <2> QED
    BY <1>3, <2>1, <2>3 DEF IInv
<1>6. CASE UNCHANGED vars
  BY <1>6, ZenonT(40) DEF vars, case, IInv, TypeOK, Given, Deals, Accepted, Included, Decided,
     ExactlyCompleteForEqualTo, NoOverlap, Dealt, SameNumber
<1> QED
  BY <1>1, <1>2, <1>4, <1>5, <1>6 DEF Next

LEMMA Invariance == Spec => []IInv
  BY InitIInv, StepIInv, PTL DEF Spec

(***************************************************************************)
(* The theorems                                                            *)
(***************************************************************************)
\* Whatever the nested matchers accept: a request that hasExactly matches has
\* an accepted value of its own for each of them, and no other.
THEOREM YesIsSound == Spec => []ExactlySound
<1>1. ASSUME IInv PROVE ExactlySound
  <2> SUFFICES ASSUME operator = "hasExactly", verdict = "yes" PROVE SameNumber /\ Dealt
    BY DEF ExactlySound
  <2>1. at - 1 = Len(matchers) /\ DOMAIN matchers = 1 .. Len(matchers) /\ SameNumber
    BY <1>1, Domains DEF IInv, Decided
  <2>2. PICK deal : Deals(deal, Len(matchers))
    BY <1>1, <2>1 DEF IInv, Given
  <2> QED
    BY <2>1, <2>2 DEF Deals, Dealt
<1> QED
  BY <1>1, Invariance, PTL

\* A request that has exactly a value for each nested matcher is matched, as
\* long as the sets that two of them accept are the same or disjoint.
THEOREM NoIsRightWithoutOverlap == Spec => []ExactlyCompleteForEqualTo
  BY Invariance, PTL DEF IInv

\* includes: each nested matcher accepts a value, in any order and number.
THEOREM IncludesIsExact == Spec => []IncludesExact
<1>1. ASSUME IInv PROVE IncludesExact
  <2> SUFFICES ASSUME operator = "includes", verdict # "none"
               PROVE  verdict = "yes" <=> \A i \in DOMAIN matchers :
                          {values[j] : j \in DOMAIN values} \cap matchers[i] # {}
    BY DEF IncludesExact
  <2>1. \A i \in DOMAIN matchers :
           Accepted(i) # {} <=> {values[j] : j \in DOMAIN values} \cap matchers[i] # {}
    BY DEF Accepted
  <2>2. verdict = "yes" => \A i \in DOMAIN matchers : Accepted(i) # {}
    BY <1>1, Domains DEF IInv, Decided, Included
  <2>3. verdict = "yes" \/ verdict = "no"
    BY <1>1 DEF IInv, TypeOK
  <2>4. verdict = "no" => \E i \in DOMAIN matchers : Accepted(i) = {}
    BY <1>1 DEF IInv, Decided
  <2> QED
    BY <2>1, <2>2, <2>3, <2>4
<1> QED
  BY <1>1, Invariance, PTL
=============================================================================
