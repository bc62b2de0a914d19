--------------------------- MODULE MatchingProofs ---------------------------
(***************************************************************************)
(* Facts about Matching for any mappings, of any number, with any checks,  *)
(* priorities and IDs.                                                     *)
(***************************************************************************)
EXTENDS Matching, CountingTheorems

(***************************************************************************)
(* The specificity of a mapping                                            *)
(***************************************************************************)
Weights(i) == [k \in DOMAIN items[i].checks |-> Weight(items[i].checks[k])]

\* The loaded mappings, as far as the proofs look into them.
Loaded ==
    /\ \E n \in Nat : items \in [1 .. n -> Mappings]
    /\ Len(items) \in Nat /\ DOMAIN items = 1 .. Len(items)

LEMMA WeightPositive ==
    ASSUME NEW c \in Checks
    PROVE  Weight(c) \in Nat /\ Weight(c) > 0
<1>1. c.segments \in Nat /\ c.static \in Nat
  BY DEF Checks
<1>2. Weight(c) \in {1000, 900, 600, 20, 10, 700 + 2 * c.segments + 3 * c.static}
  BY DEF Weight
<1> QED
  BY <1>1, <1>2

LEMMA ItemFacts ==
    ASSUME Loaded, NEW i \in DOMAIN items
    PROVE  /\ items[i].priority \in Int /\ items[i].id \in Int
           /\ items[i].checks \in Seq(Checks)
           /\ Len(items[i].checks) \in Nat
           /\ DOMAIN items[i].checks = 1 .. Len(items[i].checks)
           /\ \A k \in 1 .. Len(items[i].checks) : items[i].checks[k] \in Checks
<1>1. items[i] \in Mappings
  BY DEF Loaded
<1>2. items[i].checks \in Seq(Checks)
  BY <1>1, MatchingAssumption DEF Mappings
<1>3. \A q \in Seq(Checks) : /\ Len(q) \in Nat /\ DOMAIN q = 1 .. Len(q)
                             /\ \A k \in 1 .. Len(q) : q[k] \in Checks
  OBVIOUS
<1>4. items[i].priority \in Int /\ items[i].id \in Int
  BY <1>1, MatchingAssumption DEF Mappings
<1> QED
  BY <1>2, <1>3, <1>4

LEMMA SpecificityFacts ==
    ASSUME Loaded, NEW i \in DOMAIN items
    PROVE  /\ DOMAIN Weights(i) = 1 .. Len(items[i].checks)
           /\ IsFiniteSet(1 .. Len(items[i].checks))
           /\ \A k \in 1 .. Len(items[i].checks) :
                 /\ Weights(i)[k] = Weight(items[i].checks[k])
                 /\ Weights(i)[k] \in Nat /\ Weights(i)[k] > 0
           /\ Specificity(i) = SumFunctionOnSet(Weights(i), 1 .. Len(items[i].checks))
           /\ Specificity(i) \in Nat
<1>1. /\ DOMAIN Weights(i) = 1 .. Len(items[i].checks)
      /\ \A k \in 1 .. Len(items[i].checks) :
            /\ Weights(i)[k] = Weight(items[i].checks[k])
            /\ Weights(i)[k] \in Nat /\ Weights(i)[k] > 0
  BY ItemFacts, WeightPositive DEF Weights
<1>2. IsFiniteSet(1 .. Len(items[i].checks))
  BY ItemFacts, FS_Interval
<1>3. Specificity(i) = SumFunctionOnSet(Weights(i), 1 .. Len(items[i].checks))
  BY <1>1 DEF Specificity, SumFunction, Weights
<1> QED
  BY <1>1, <1>2, <1>3, SumNat

\* The score of the first k checks, one check later.
LEMMA NextWeight ==
    ASSUME Loaded, NEW i \in DOMAIN items, NEW k \in 1 .. Len(items[i].checks)
    PROVE  SumFunctionOnSet(Weights(i), 1 .. k)
             = SumFunctionOnSet(Weights(i), 1 .. k - 1) + Weight(items[i].checks[k])
<1>1. Len(items[i].checks) \in Nat /\ k \in 1 .. k
  BY ItemFacts
<1>2. /\ \A l \in 1 .. k : Weights(i)[l] \in Nat
      /\ Weights(i)[k] = Weight(items[i].checks[k])
  BY <1>1, SpecificityFacts
<1>3. IsFiniteSet(1 .. k) /\ IsFiniteSet(1 .. k - 1)
  BY <1>1, FS_Interval
<1>4. SumFunctionOnSet(Weights(i), 1 .. k)
        = Weights(i)[k] + SumFunctionOnSet(Weights(i), (1 .. k) \ {k})
  BY <1>1, <1>2, <1>3, SumAny, SMTT(30)
<1>5. SumFunctionOnSet(Weights(i), (1 .. k) \ {k}) = SumFunctionOnSet(Weights(i), 1 .. k - 1)
  <2>1. (1 .. k) \ {k} = 1 .. k - 1
    BY <1>1
  <2> QED
    BY <2>1
<1>6. SumFunctionOnSet(Weights(i), 1 .. k - 1) \in Nat
  BY <1>1, <1>2, <1>3, SumNat
<1>7. Weights(i)[k] \in Nat
  BY <1>1, <1>2
<1> QED
  BY <1>2, <1>4, <1>5, <1>6, <1>7

(***************************************************************************)
(* The inductive invariant.  It says what the score is in the middle of a  *)
(* mapping, and of the candidates one by one what CandidatesExact says of  *)
(* all of them, and in which order they are.                               *)
(***************************************************************************)
Positions ==
    /\ at \in Nat \ {0} /\ at <= Len(items) + 1
    /\ step \in Nat \ {0}
    /\ at <= Len(items) => step <= Len(items[at].checks) + 1

ScoreSoFar ==
    at <= Len(items) =>
        /\ \A k \in 1 .. step - 1 : items[at].checks[k].holds
        /\ score = SumFunctionOnSet(Weights(at), 1 .. step - 1)

CandidatesSound ==
    /\ candidates \in Seq([index : Nat, score : Nat])
    /\ \A c \in DOMAIN candidates :
          /\ candidates[c].index \in Matched /\ candidates[c].index < at
          /\ candidates[c].score = Specificity(candidates[c].index)
    /\ \A c, d \in DOMAIN candidates :
          c < d => candidates[c].index < candidates[d].index

CandidatesComplete ==
    \A i \in Matched :
        i < at => \E c \in DOMAIN candidates : candidates[c].index = i

UnmatchedExact == unmatched = {i \in DOMAIN items \ Matched : i < at}

Selected ==
    \/ best = -1
    \/ /\ at > Len(items)
       /\ best = IF candidates = <<>> THEN 0 ELSE First

IInv ==
    /\ Loaded /\ Positions /\ ScoreSoFar
    /\ CandidatesSound /\ CandidatesComplete /\ UnmatchedExact
    /\ Selected

LEMMA InitIInv == Init => IInv
<1> SUFFICES ASSUME Init PROVE IInv
  OBVIOUS
<1>1. Loaded
  <2>1. PICK n \in 0 .. MaxItems : items \in [1 .. n -> Mappings]
    BY DEF Init
  <2>2. n \in Nat
    BY MatchingAssumption
  <2>3. Len(items) = n /\ DOMAIN items = 1 .. n
    BY <2>1, <2>2
  <2> QED
    BY <2>1, <2>2, <2>3 DEF Loaded
<1>2. Positions
  BY <1>1, ItemFacts DEF Init, Positions, Loaded
<1>3. ScoreSoFar
  <2>1. 1 .. 1 - 1 = {}
    OBVIOUS
  <2> QED
    BY <2>1, SumEmpty DEF Init, ScoreSoFar
<1>4. CandidatesSound
  BY DEF Init, CandidatesSound
<1>5. CandidatesComplete /\ UnmatchedExact
  BY <1>1 DEF Init, CandidatesComplete, UnmatchedExact, Matched, Loaded
<1> QED
  BY <1>1, <1>2, <1>3, <1>4, <1>5 DEF Init, IInv, Selected

\* What the definitions about the items say does not change with the items.
LEMMA ItemsKept ==
    ASSUME items' = items
    PROVE  /\ Loaded' = Loaded /\ Matched' = Matched
           /\ \A i : Weights(i)' = Weights(i) /\ Specificity(i)' = Specificity(i)
  BY DEF Loaded, Matched, Weights, Specificity

LEMMA StepHolds == IInv /\ Holds => IInv'
<1> SUFFICES ASSUME IInv, Holds PROVE IInv'
  OBVIOUS
<1> USE DEF IInv
<1>1. /\ at \in DOMAIN items /\ at <= Len(items)
      /\ step \in 1 .. Len(items[at].checks)
      /\ items' = items /\ at' = at /\ candidates' = candidates
      /\ unmatched' = unmatched /\ best' = best
      /\ step' = step + 1 /\ score' = score + Weight(items[at].checks[step])
      /\ items[at].checks[step].holds
  BY ItemFacts DEF Holds, Checking, Check, Positions, Loaded
<1>2. Loaded' /\ Positions'
  BY <1>1, ItemsKept, ItemFacts DEF Positions
<1>3. ScoreSoFar'
  <2>1. \A k \in 1 .. step' - 1 : items[at].checks[k].holds
    BY <1>1 DEF ScoreSoFar, Positions
  <2>2. SumFunctionOnSet(Weights(at), 1 .. step)
          = SumFunctionOnSet(Weights(at), 1 .. step - 1) + Weight(items[at].checks[step])
    BY <1>1, NextWeight
  <2>3. step' - 1 = step
    BY <1>1 DEF Positions
  <2>4. score' = SumFunctionOnSet(Weights(at), 1 .. step' - 1)
    BY <1>1, <2>2, <2>3 DEF ScoreSoFar
  <2>5. Weights(at)' = Weights(at)
    BY <1>1, ItemsKept
  <2> QED
    BY <1>1, <2>1, <2>4, <2>5 DEF ScoreSoFar
<1>4. CandidatesSound' /\ CandidatesComplete' /\ UnmatchedExact'
  BY <1>1, ItemsKept DEF CandidatesSound, CandidatesComplete, UnmatchedExact
<1>5. Selected'
  BY <1>1 DEF Selected, Positions, Loaded
<1> QED
  BY <1>2, <1>3, <1>4, <1>5

\* The next mapping starts with no check made and no points.
LEMMA StartsAfresh ==
    ASSUME IInv, at \in DOMAIN items, NextItem, items' = items
    PROVE  Loaded' /\ Positions' /\ ScoreSoFar'
<1> USE DEF IInv
<1>1. at' = at + 1 /\ step' = 1 /\ score' = 0 /\ Loaded'
  BY ItemsKept DEF NextItem
<1>2. Positions'
  BY <1>1, ItemFacts DEF Positions, Loaded
<1>3. ScoreSoFar'
  <2>1. 1 .. 1 - 1 = {}
    OBVIOUS
  <2> QED
    BY <1>1, <2>1, SumEmpty DEF ScoreSoFar
<1> QED
  BY <1>1, <1>2, <1>3

LEMMA StepFails == IInv /\ Fails => IInv'
<1> SUFFICES ASSUME IInv, Fails PROVE IInv'
  OBVIOUS
<1> USE DEF IInv
<1>1. /\ at \in DOMAIN items /\ at <= Len(items)
      /\ step \in DOMAIN items[at].checks /\ ~items[at].checks[step].holds
      /\ items' = items /\ at' = at + 1 /\ candidates' = candidates
      /\ unmatched' = unmatched \cup {at} /\ best' = best /\ NextItem
  BY ItemFacts DEF Fails, NextItem, Checking, Check, Positions, Loaded
<1>2. at \notin Matched /\ Matched' = Matched /\ at \in Nat
  BY <1>1, ItemsKept DEF Matched, Positions
<1>3. Loaded' /\ Positions' /\ ScoreSoFar'
  BY <1>1, StartsAfresh
<1>4. \A i \in DOMAIN items : i < at' <=> i < at \/ i = at
  BY <1>1 DEF Positions, Loaded
<1>5. CandidatesSound'
  <2>1. \A i : Specificity(i)' = Specificity(i)
    BY <1>1, ItemsKept
  <2>2. \A c \in DOMAIN candidates : candidates[c].index < at'
    BY <1>1, <1>2 DEF CandidatesSound, Matched, Loaded
  <2> QED
    BY <1>1, <1>2, <2>1, <2>2 DEF CandidatesSound
<1>6. CandidatesComplete'
  BY <1>1, <1>2, <1>4 DEF CandidatesComplete, Matched
<1>7. UnmatchedExact'
  BY <1>1, <1>2, <1>4 DEF UnmatchedExact
<1>8. Selected'
  BY <1>1 DEF Selected, Positions, Loaded
<1> QED
  BY <1>3, <1>5, <1>6, <1>7, <1>8

LEMMA StepMatches == IInv /\ Matches => IInv'
<1> SUFFICES ASSUME IInv, Matches PROVE IInv'
  OBVIOUS
<1> USE DEF IInv
<1> DEFINE new == [index |-> at, score |-> score]
<1>1. /\ at \in DOMAIN items /\ at <= Len(items)
      /\ step = Len(items[at].checks) + 1
      /\ items' = items /\ at' = at + 1 /\ candidates' = Append(candidates, new)
      /\ unmatched' = unmatched /\ best' = best /\ NextItem
  BY ItemFacts DEF Matches, NextItem, Positions, Loaded
<1>2. at \in Matched /\ Matched' = Matched /\ at \in Nat
  <2>1. step - 1 = Len(items[at].checks)
    BY <1>1, ItemFacts
  <2> QED
    BY <1>1, <2>1, ItemsKept, ItemFacts DEF Matched, Positions, ScoreSoFar
<1>3. Loaded' /\ Positions' /\ ScoreSoFar'
  BY <1>1, StartsAfresh
<1>4. \A i \in DOMAIN items : i < at' <=> i < at \/ i = at
  BY <1>1 DEF Positions, Loaded
<1>5. score = Specificity(at) /\ score \in Nat
  <2>1. step - 1 = Len(items[at].checks)
    BY <1>1, ItemFacts
  <2> QED
    BY <1>1, <2>1, SpecificityFacts DEF ScoreSoFar
<1> DEFINE n == Len(candidates)
<1>6. /\ n \in Nat /\ DOMAIN candidates = 1 .. n
      /\ DOMAIN candidates' = 1 .. n + 1
      /\ candidates' \in Seq([index : Nat, score : Nat])
      /\ \A c \in 1 .. n : candidates'[c] = candidates[c]
      /\ candidates'[n + 1] = new
  BY <1>1, <1>2, <1>5 DEF CandidatesSound
<1>7. \A i : Specificity(i)' = Specificity(i)
  BY <1>1, ItemsKept
<1>8. \A c \in 1 .. n :
         /\ candidates[c].index \in Matched /\ candidates[c].index < at
         /\ candidates[c].index < at'
         /\ candidates[c].score = Specificity(candidates[c].index)
  <2> TAKE c \in 1 .. n
  <2>1. /\ candidates[c].index \in Matched /\ candidates[c].index < at
        /\ candidates[c].score = Specificity(candidates[c].index)
    BY <1>6 DEF CandidatesSound
  <2> HIDE DEF n, IInv
  <2>2. candidates[c].index \in Nat
    BY <1>6, ItemFacts, <2>1 DEF IInv, Matched, Loaded
  <2>3. candidates[c].index < at'
    BY <1>1, <1>2, <2>1, <2>2
  <2> QED
    BY <2>1, <2>3
<1>9. \A c \in 1 .. n + 1 : c \in 1 .. n \/ c = n + 1
  BY <1>6
<1> HIDE DEF n
<1>10. CandidatesSound'
  <2>1. ASSUME NEW c \in 1 .. n + 1
        PROVE  /\ candidates'[c].index \in Matched /\ candidates'[c].index < at'
               /\ candidates'[c].score = Specificity(candidates'[c].index)
    <3>1. CASE c \in 1 .. n
      BY <1>6, <1>8, <3>1
    <3>2. CASE c = n + 1
      BY <1>1, <1>2, <1>5, <1>6, <3>2
    <3> QED
      BY <1>9, <3>1, <3>2
  <2>2. ASSUME NEW c \in 1 .. n + 1, NEW d \in 1 .. n + 1, c < d
        PROVE  candidates'[c].index < candidates'[d].index
    <3>1. c \in 1 .. n
      BY <1>6, <2>2
    <3>2. CASE d \in 1 .. n
      BY <1>6, <2>2, <3>1, <3>2 DEF CandidatesSound
    <3>3. CASE d = n + 1
      BY <1>6, <1>8, <3>1, <3>3
    <3> QED
      BY <1>9, <3>2, <3>3
  <2> QED
    BY <1>2, <1>6, <1>7, <2>1, <2>2 DEF CandidatesSound
<1>11. CandidatesComplete'
  <2>1. ASSUME NEW i \in Matched, i < at'
        PROVE  \E c \in 1 .. n + 1 : candidates'[c].index = i
    <3>1. CASE i < at
      <4>1. PICK c \in 1 .. n : candidates[c].index = i
        BY <1>6, <3>1 DEF CandidatesComplete
      <4>2. c \in 1 .. n + 1 /\ candidates'[c] = candidates[c]
        BY <1>6
      <4> QED
        BY <4>1, <4>2
    <3>2. CASE i = at
      BY <1>6, <3>2
    <3> QED
      BY <1>4, <2>1, <3>1, <3>2 DEF Matched
  <2> QED
    BY <1>2, <1>6, <2>1 DEF CandidatesComplete
<1>12. UnmatchedExact'
  BY <1>1, <1>2, <1>4 DEF UnmatchedExact
<1>13. Selected'
  BY <1>1 DEF Selected, Positions, Loaded
<1> QED
  BY <1>3, <1>10, <1>11, <1>12, <1>13

LEMMA StepChoose == IInv /\ (Choose \/ UNCHANGED vars) => IInv'
<1> SUFFICES ASSUME IInv, Choose \/ UNCHANGED vars PROVE IInv'
  OBVIOUS
<1> USE DEF IInv
<1>1. /\ items' = items /\ at' = at /\ step' = step /\ score' = score
      /\ candidates' = candidates /\ unmatched' = unmatched
  BY DEF Choose, vars
<1>2. Loaded' /\ Positions' /\ ScoreSoFar'
  BY <1>1, ItemsKept DEF Positions, ScoreSoFar
<1>3. CandidatesSound' /\ CandidatesComplete' /\ UnmatchedExact'
  BY <1>1, ItemsKept DEF CandidatesSound, CandidatesComplete, UnmatchedExact
<1>4. Selected'
  <2>1. First' = First
    BY <1>1 DEF First, less
  <2> QED
    BY <1>1, <2>1 DEF Choose, vars, Selected
<1> QED
  BY <1>2, <1>3, <1>4

LEMMA Invariance == Spec => []IInv
<1>1. IInv /\ [Next]_vars => IInv'
  BY StepHolds, StepFails, StepMatches, StepChoose DEF Next
<1> QED
  BY InitIInv, <1>1, PTL DEF Spec

(***************************************************************************)
(* The selection                                                           *)
(***************************************************************************)
\* less compares what the items and the scores say, in three steps.
Before(i, j) ==
    \/ items[i].priority < items[j].priority
    \/ items[i].priority = items[j].priority /\ Specificity(i) > Specificity(j)
    \/ /\ items[i].priority = items[j].priority
       /\ Specificity(i) = Specificity(j)
       /\ items[i].id < items[j].id

\* The mapping behind a candidate.
Of(c) == candidates[c].index

LEMMA CandidateFacts ==
    ASSUME IInv
    PROVE  /\ \E n \in Nat : DOMAIN candidates = 1 .. n
           /\ candidates = <<>> <=> DOMAIN candidates = {}
           /\ \A c \in DOMAIN candidates :
                 /\ Of(c) \in Matched /\ Of(c) \in DOMAIN items
                 /\ Of(c) \in Nat \ {0} /\ Of(c) < at
                 /\ candidates[c].score = Specificity(Of(c))
                 /\ items[Of(c)].priority \in Int /\ items[Of(c)].id \in Int
                 /\ Specificity(Of(c)) \in Nat
<1>1. candidates \in Seq([index : Nat, score : Nat])
  BY DEF IInv, CandidatesSound
<1>2. /\ \E n \in Nat : DOMAIN candidates = 1 .. n
      /\ candidates = <<>> <=> DOMAIN candidates = {}
  BY <1>1
<1>3. ASSUME NEW c \in DOMAIN candidates
      PROVE  /\ Of(c) \in Matched /\ Of(c) \in DOMAIN items
             /\ Of(c) \in Nat \ {0} /\ Of(c) < at
             /\ candidates[c].score = Specificity(Of(c))
  BY DEF IInv, CandidatesSound, Of, Matched, Loaded
<1>4. ASSUME NEW i \in DOMAIN items
      PROVE  /\ items[i].priority \in Int /\ items[i].id \in Int
             /\ Specificity(i) \in Nat
  BY ItemFacts, SpecificityFacts DEF IInv
<1> QED
  BY <1>2, <1>3, <1>4

LEMMA LessIsBefore ==
    ASSUME IInv, NEW c \in DOMAIN candidates, NEW d \in DOMAIN candidates
    PROVE  less(candidates[c], candidates[d]) <=> Before(Of(c), Of(d))
<1>1. /\ candidates[c].score = Specificity(Of(c))
      /\ candidates[d].score = Specificity(Of(d))
      /\ items[Of(c)].priority \in Int /\ items[Of(d)].priority \in Int
      /\ Specificity(Of(c)) \in Nat /\ Specificity(Of(d)) \in Nat
  BY CandidateFacts
<1> QED
  BY <1>1 DEF less, Before, Of

\* There is a candidate that none precedes: one with the least ID among those
\* with the highest score among those with the least priority.
LEMMA SomeFirst ==
    ASSUME IInv, candidates # <<>>
    PROVE  \E c \in DOMAIN candidates :
               \A d \in DOMAIN candidates : ~Before(Of(d), Of(c))
<1> DEFINE C == DOMAIN candidates
           priority == [c \in C |-> items[Of(c)].priority]
           behind == [c \in C |-> -Specificity(Of(c))]
           id == [c \in C |-> items[Of(c)].id]
<1>1. IsFiniteSet(C) /\ C # {}
  <2>1. PICK n \in Nat : C = 1 .. n
    BY CandidateFacts
  <2>2. IsFiniteSet(1 .. n)
    BY FS_Interval
  <2> QED
    BY <2>1, <2>2, CandidateFacts
<1>2. \A c \in C : priority[c] \in Int /\ behind[c] \in Int /\ id[c] \in Int
                   /\ Specificity(Of(c)) \in Nat
  BY CandidateFacts
<1>3. PICK p \in C : \A c \in C : priority[p] <= priority[c]
  BY <1>1, <1>2, LeastValue
<1> DEFINE D == {c \in C : priority[c] = priority[p]}
<1>4. IsFiniteSet(D) /\ D # {} /\ D \subseteq C
  BY <1>1, <1>3, FS_Subset
<1>5. PICK s \in D : \A c \in D : behind[s] <= behind[c]
  BY <1>2, <1>4, LeastValue
<1> DEFINE E == {c \in D : behind[c] = behind[s]}
<1>6. IsFiniteSet(E) /\ E # {} /\ E \subseteq C
  BY <1>4, <1>5, FS_Subset
<1>7. PICK m \in E : \A c \in E : id[m] <= id[c]
  BY <1>2, <1>6, LeastValue
<1>8. m \in C /\ priority[m] = priority[p] /\ behind[m] = behind[s]
  BY <1>6, <1>7
<1>9. ASSUME NEW c \in C, Before(Of(c), Of(m)) PROVE FALSE
  <2>1. \/ priority[c] < priority[m]
        \/ priority[c] = priority[m] /\ behind[c] < behind[m]
        \/ priority[c] = priority[m] /\ behind[c] = behind[m] /\ id[c] < id[m]
    BY <1>2, <1>8, <1>9 DEF Before
  <2>2. priority[m] <= priority[c]
    BY <1>3, <1>8
  <2>3. priority[c] = priority[m] => behind[m] <= behind[c]
    BY <1>5, <1>8
  <2>4. priority[c] = priority[m] /\ behind[c] = behind[m] => id[m] <= id[c]
    BY <1>7, <1>8
  <2> HIDE DEF priority, behind, id
  <2> QED
    BY <1>2, <1>8, <2>1, <2>2, <2>3, <2>4
<1> QED
  BY <1>8, <1>9

\* The selected mapping is that of the earliest candidate that none precedes.
LEMMA FirstFacts ==
    ASSUME IInv, candidates # <<>>
    PROVE  \E c \in DOMAIN candidates :
               /\ First = Of(c)
               /\ \A d \in DOMAIN candidates :
                     /\ ~Before(Of(d), Of(c))
                     /\ d < c => \E e \in DOMAIN candidates : Before(Of(e), Of(d))
<1> DEFINE least == {i \in DOMAIN candidates :
                       \A j \in DOMAIN candidates : ~less(candidates[j], candidates[i])}
<1>1. least = {i \in DOMAIN candidates :
                 \A j \in DOMAIN candidates : ~Before(Of(j), Of(i))}
  BY LessIsBefore
<1>2. least # {}
  BY <1>1, SomeFirst
<1>3. least \subseteq Nat /\ DOMAIN candidates \subseteq Nat
  BY CandidateFacts
<1>4. Min(least) \in least /\ \A c \in least : Min(least) <= c
  BY <1>2, <1>3, MinIsLeast
<1>5. First = Of(Min(least))
  BY DEF First, Of
<1> HIDE DEF least
<1>6. \A c, d \in Nat : d < c => ~ c <= d
  OBVIOUS
<1>7. \A d \in DOMAIN candidates : d < Min(least) => d \notin least
  BY <1>3, <1>4, <1>6
<1> QED
  BY <1>1, <1>4, <1>5, <1>7

\* Of the mapping that is selected: every other that matches is behind it.
LEMMA BestFacts ==
    ASSUME IInv, Chosen
    PROVE  /\ best \in Matched
           /\ \A i \in Matched \ {best} :
                 /\ ~Before(i, best)
                 /\ Before(best, i) \/ best < i
<1>1. at > Len(items) /\ candidates # <<>> /\ best = First
  BY DEF IInv, Selected, Chosen
<1>2. PICK c \in DOMAIN candidates :
         /\ First = Of(c)
         /\ \A d \in DOMAIN candidates :
               /\ ~Before(Of(d), Of(c))
               /\ d < c => \E e \in DOMAIN candidates : Before(Of(e), Of(d))
  BY <1>1, FirstFacts
<1>3. best \in Matched
  BY <1>1, <1>2, CandidateFacts
<1>4. ASSUME NEW i \in Matched \ {best}
      PROVE  ~Before(i, best) /\ (Before(best, i) \/ best < i)
  <2>1. i < at
    BY <1>1 DEF IInv, Matched, Loaded, Positions
  <2>2. PICK d \in DOMAIN candidates : Of(d) = i
    BY <2>1 DEF IInv, CandidatesComplete, Of
  <2>3. c \in Nat /\ d \in Nat /\ c # d
    BY <1>1, <1>2, <2>2, CandidateFacts
  <2>4. CASE c < d
    BY <1>1, <1>2, <2>2, <2>4 DEF IInv, CandidatesSound, Of
  <2>5. CASE d < c
    <3>1. PICK e \in DOMAIN candidates : Before(Of(e), i)
      BY <1>2, <2>2, <2>5
    <3>2. ~Before(Of(e), best)
      BY <1>1, <1>2
    <3>3. /\ items[Of(e)].priority \in Int /\ items[Of(e)].id \in Int
          /\ items[i].priority \in Int /\ items[i].id \in Int
          /\ items[best].priority \in Int /\ items[best].id \in Int
          /\ Specificity(Of(e)) \in Nat /\ Specificity(i) \in Nat
          /\ Specificity(best) \in Nat
      BY <1>1, <1>2, <2>2, CandidateFacts
    <3>4. Before(best, i)
      BY <3>1, <3>2, <3>3 DEF Before
    <3> QED
      BY <1>1, <1>2, <2>2, <3>4
  <2> QED
    BY <1>1, <1>2, <2>2, <2>3, <2>4, <2>5
<1> QED
  BY <1>3, <1>4

(***************************************************************************)
(* The theorems                                                            *)
(***************************************************************************)
\* The candidates are always the mappings tried so far that match, each with
\* the points of its own checks as its score, and the rest is reported.
THEOREM CandidatesExactAlways == Spec => []CandidatesExact
<1>1. ASSUME IInv PROVE CandidatesExact
  <2> DEFINE told == {<<c.index, c.score>> : c \in ToSet(candidates)}
             true == {<<i, Specificity(i)>> : i \in {j \in Matched : j < at}}
  <2>1. ToSet(candidates) = {candidates[c] : c \in DOMAIN candidates}
    BY DEF ToSet
  <2>2. \A c \in DOMAIN candidates :
           /\ candidates[c].index \in Matched /\ candidates[c].index < at
           /\ candidates[c].score = Specificity(candidates[c].index)
    BY <1>1 DEF IInv, CandidatesSound
  <2>3. told \subseteq true
    BY <2>1, <2>2
  <2>4. ASSUME NEW i \in Matched, i < at PROVE <<i, Specificity(i)>> \in told
    <3>1. PICK c \in DOMAIN candidates : candidates[c].index = i
      BY <1>1, <2>4 DEF IInv, CandidatesComplete
    <3> QED
      BY <2>1, <2>2, <3>1
  <2>5. told = true
    BY <2>3, <2>4
  <2> QED
    BY <1>1, <2>5 DEF CandidatesExact, IInv, UnmatchedExact
<1> QED
  BY Invariance, <1>1, PTL

\* Whatever the mappings, the selected one is ahead of every other that
\* matches by priority, then specificity, then ID, and by the order of the
\* files only when all three are equal.
THEOREM DeterministicAlways == Spec => []Deterministic
<1>1. ASSUME IInv, best = 0 PROVE Matched = {}
  <2>1. at > Len(items)
    BY <1>1 DEF IInv, Selected
  <2>2. candidates = <<>>
    <3>1. ASSUME candidates # <<>> PROVE FALSE
      <4>1. best = First
        BY <1>1, <3>1 DEF IInv, Selected
      <4> QED
        BY <1>1, <3>1, <4>1, FirstFacts, CandidateFacts
    <3> QED
      BY <3>1
  <2> QED
    BY <1>1, <2>1, <2>2 DEF IInv, CandidatesComplete, Matched, Loaded, Positions
<1>2. ASSUME IInv, Chosen, NEW i \in Matched \ {best}
      PROVE  \/ items[best].priority < items[i].priority
             \/ /\ items[best].priority = items[i].priority
                /\ Specificity(best) > Specificity(i)
             \/ /\ items[best].priority = items[i].priority
                /\ Specificity(best) = Specificity(i)
                /\ items[best].id <= items[i].id
                /\ items[best].id = items[i].id => best < i
  <2>1. ~Before(i, best) /\ (Before(best, i) \/ best < i)
    BY <1>2, BestFacts
  <2>2. /\ items[i].priority \in Int /\ items[i].id \in Int
        /\ items[best].priority \in Int /\ items[best].id \in Int
        /\ Specificity(i) \in Nat /\ Specificity(best) \in Nat
    BY <1>2, BestFacts, ItemFacts, SpecificityFacts DEF IInv, Matched
  <2> QED
    BY <2>1, <2>2 DEF Before
<1>3. IInv => Deterministic
  BY <1>1, <1>2, BestFacts DEF Deterministic
<1> QED
  BY Invariance, <1>3, PTL

\* However many checks a mapping makes and of whatever kinds, one of the same
\* priority that makes all of them and more has more points.
LEMMA MoreChecksMorePoints ==
    ASSUME Loaded, NEW i \in DOMAIN items, NEW j \in DOMAIN items,
           Len(items[i].checks) > Len(items[j].checks),
           NEW f \in [DOMAIN items[j].checks -> DOMAIN items[i].checks],
           \A k, l \in DOMAIN f : k < l => f[k] < f[l],
           \A k \in DOMAIN f : items[i].checks[f[k]] = items[j].checks[k]
    PROVE  Specificity(i) > Specificity(j)
<1> DEFINE few == 1 .. Len(items[j].checks)
           many == 1 .. Len(items[i].checks)
           reached == {f[k] : k \in few}
<1>1. /\ Len(items[i].checks) \in Nat /\ Len(items[j].checks) \in Nat
      /\ DOMAIN f = few /\ \A k \in few : f[k] \in many
  BY ItemFacts
<1>2. /\ IsFiniteSet(few) /\ IsFiniteSet(many)
      /\ \A k \in few : Weights(j)[k] \in Nat /\ Weights(j)[k] = Weight(items[j].checks[k])
      /\ \A k \in many : Weights(i)[k] \in Nat /\ Weights(i)[k] > 0
                         /\ Weights(i)[k] = Weight(items[i].checks[k])
      /\ Specificity(j) = SumFunctionOnSet(Weights(j), few)
      /\ Specificity(i) = SumFunctionOnSet(Weights(i), many)
      /\ Specificity(i) \in Nat /\ Specificity(j) \in Nat
  BY SpecificityFacts
<1>3. \A k \in few : Weights(j)[k] = Weights(i)[f[k]]
  BY <1>1, <1>2
<1>4. \A k, l \in few : k # l => f[k] # f[l]
  <2>1. ASSUME NEW k \in few, NEW l \in few, k # l PROVE f[k] # f[l]
    <3>1. k < l \/ l < k
      BY <2>1
    <3>2. f[k] < f[l] \/ f[l] < f[k]
      BY <1>1, <3>1
    <3>3. f[k] \in Nat /\ f[l] \in Nat
      BY <1>1
    <3> QED
      BY <3>2, <3>3
  <2> QED
    BY <2>1
<1>5. /\ \A k \in few : f[k] \in reached
      /\ \A l \in reached : \E k \in few : f[k] = l
      /\ reached \in SUBSET many
  BY <1>1
<1> HIDE DEF reached
<1>6. reached # many
  <2>1. Cardinality(reached) <= Cardinality(few)
    BY <1>2, <1>5, FiniteImage
  <2>2. /\ Cardinality(few) = Len(items[j].checks)
        /\ Cardinality(many) = Len(items[i].checks)
    BY <1>1, CountTo
  <2> HIDE DEF few, many
  <2> QED
    BY <1>1, <2>1, <2>2
<1> HIDE DEF few, many
<1>7. SumFunctionOnSet(Weights(j), few) = SumFunctionOnSet(Weights(i), reached)
  BY <1>2, <1>3, <1>4, <1>5, SumImage
<1>8. PICK k \in many : k \notin reached
  BY <1>5, <1>6
<1>9. SumFunctionOnSet(Weights(i), reached) < SumFunctionOnSet(Weights(i), many)
  BY <1>2, <1>5, <1>8, SumSubset
<1> QED
  BY <1>2, <1>7, <1>9

(***************************************************************************)
(* The points of the kinds of checks                                       *)
(***************************************************************************)
\* A mapping has one check of the URL.
LEMMA OneUrl ==
    ASSUME Loaded, NEW i \in DOMAIN items
    PROVE  /\ \E u \in 1 .. Len(items[i].checks) :
                 /\ UrlCheck(i) = items[i].checks[u] /\ IsUrl(items[i].checks[u])
                 /\ \A k \in 1 .. Len(items[i].checks) :
                       k # u => ~IsUrl(items[i].checks[k])
           /\ UrlCheck(i) \in Checks /\ IsUrl(UrlCheck(i))
           /\ UrlCheck(i).static <= UrlCheck(i).segments
<1> DEFINE q == items[i].checks
<1>1. q \in Requests
  BY DEF Loaded, Mappings
<1>2. PICK u \in DOMAIN q : IsUrl(q[u]) /\ \A l \in DOMAIN q \ {u} : ~IsUrl(q[l])
  BY <1>1, MatchingAssumption
<1>3. \A k \in DOMAIN q : q[k].static <= q[k].segments
  BY <1>1, MatchingAssumption
<1>4. DOMAIN q = 1 .. Len(q) /\ \A k \in 1 .. Len(q) : q[k] \in Checks
  BY ItemFacts
<1>5. UrlCheck(i) = q[u]
  <2>1. (CHOOSE k \in DOMAIN q : IsUrl(q[k])) = u
    BY <1>2
  <2> QED
    BY <2>1 DEF UrlCheck
<1> QED
  BY <1>2, <1>3, <1>4, <1>5

\* Exactness and Weight, kind by kind.
LEMMA KindFacts ==
    ASSUME NEW c \in Checks
    PROVE  \/ c.kind = "url" /\ Exactness(c.kind) = 4 /\ Weight(c) = 1000
           \/ c.kind = "urlPath" /\ Exactness(c.kind) = 3 /\ Weight(c) = 900
           \/ /\ c.kind = "urlPathTemplate" /\ Exactness(c.kind) = 2
              /\ Weight(c) = 700 + 2 * c.segments + 3 * c.static
           \/ /\ c.kind \in {"urlPattern", "urlPathPattern"} /\ Exactness(c.kind) = 1
              /\ Weight(c) = 600
           \/ c.kind = "body" /\ Exactness(c.kind) = 0 /\ Weight(c) = 20
           \/ /\ c.kind \notin {"urlPathTemplate", "body"} /\ Exactness(c.kind) = 0
              /\ Weight(c) = 10
<1>1. c.kind \in Kinds
  BY DEF Checks
<1>2. CASE c.kind = "url"
  BY <1>2 DEF Exactness, Weight
<1>3. CASE c.kind = "urlPath"
  BY <1>3 DEF Exactness, Weight
<1>4. CASE c.kind = "urlPathTemplate"
  BY <1>4 DEF Exactness, Weight
<1>5. CASE c.kind = "urlPattern"
  BY <1>5 DEF Exactness, Weight
<1>6. CASE c.kind = "urlPathPattern"
  BY <1>6 DEF Exactness, Weight
<1>7. CASE c.kind = "body"
  BY <1>7 DEF Exactness, Weight
<1>8. CASE c.kind \in {"method", "header", "query", "cookie", "pathParameter", "basicAuth"}
  BY <1>8 DEF Exactness, Weight
<1> QED
  BY <1>1, <1>2, <1>3, <1>4, <1>5, <1>6, <1>7, <1>8 DEF Kinds

\* The checks other than the URL's weigh the same within their kinds.
LEMMA PlainWeight ==
    ASSUME NEW c \in Checks
    PROVE  /\ IsUrl(c) => c.kind # "body"
           /\ ~IsUrl(c) /\ c.kind = "body" => Weight(c) = 20
           /\ ~IsUrl(c) /\ c.kind # "body" => Weight(c) = 10
  BY KindFacts DEF IsUrl

\* A more exact check of the URL has more points.
LEMMA MoreExactMorePoints ==
    ASSUME NEW c \in Checks, NEW d \in Checks, MoreExact(c, d), IsUrl(d),
           c.static <= c.segments, d.static <= d.segments
    PROVE  Weight(c) > Weight(d)
<1>1. /\ c.segments \in Nat /\ c.static \in Nat
      /\ d.segments \in Nat /\ d.static \in Nat
  BY DEF Checks
<1>2. CASE c.kind = "urlPathTemplate" /\ d.kind = "urlPathTemplate"
  <2>1. /\ Weight(c) = 700 + 2 * c.segments + 3 * c.static
        /\ Weight(d) = 700 + 2 * d.segments + 3 * d.static
    BY <1>2 DEF Weight
  <2>2. c.segments = d.segments /\ c.static > d.static
    BY <1>2, KindFacts DEF MoreExact
  <2> QED
    BY <1>1, <2>1, <2>2
<1>3. CASE ~(c.kind = "urlPathTemplate" /\ d.kind = "urlPathTemplate")
  <2>1. Exactness(c.kind) > Exactness(d.kind) /\ Exactness(d.kind) > 0
    BY <1>3 DEF MoreExact, IsUrl
  <2>2. CASE Exactness(d.kind) = 1
    <3>1. Weight(d) = 600
      BY <2>2, KindFacts
    <3>2. Weight(c) \in {1000, 900} \/ Weight(c) = 700 + 2 * c.segments + 3 * c.static
      BY <2>1, <2>2, KindFacts
    <3> QED
      BY <1>1, <3>1, <3>2
  <2>3. CASE Exactness(d.kind) = 2
    <3>1. d.kind = "urlPathTemplate" /\ Weight(d) = 700 + 2 * d.segments + 3 * d.static
      BY <2>3, KindFacts
    <3>2. d.segments < 40
      BY <1>3, <3>1 DEF MoreExact, LongTemplate
    <3>3. Weight(c) \in {1000, 900}
      BY <2>1, <2>3, KindFacts
    <3> QED
      BY <1>1, <3>1, <3>2, <3>3
  <2>4. CASE Exactness(d.kind) \in {3, 4}
    BY <2>1, <2>4, KindFacts
  <2> QED
    BY <2>1, <2>2, <2>3, <2>4, KindFacts
<1> QED
  BY <1>2, <1>3

\* OfBody and Others of the first k checks.
OfBodyTo(i, k) == {l \in 1 .. k : items[i].checks[l].kind = "body"}
OthersTo(i, k) ==
    {l \in 1 .. k : items[i].checks[l].kind # "body" /\ ~IsUrl(items[i].checks[l])}

LEMMA CountedTo ==
    ASSUME NEW i, NEW k \in Nat
    PROVE  /\ IsFiniteSet(OfBodyTo(i, k)) /\ Cardinality(OfBodyTo(i, k)) \in Nat
           /\ IsFiniteSet(OthersTo(i, k)) /\ Cardinality(OthersTo(i, k)) \in Nat
<1>1. IsFiniteSet(1 .. k)
  BY FS_Interval
<1>2. IsFiniteSet(OfBodyTo(i, k)) /\ IsFiniteSet(OthersTo(i, k))
  BY <1>1, FS_Subset DEF OfBodyTo, OthersTo
<1> QED
  BY <1>2, FS_CardinalityType

\* One check more is in one of the two sets, or is the URL's.
LEMMA CountedNext ==
    ASSUME NEW i, NEW k \in Nat \ {0}
    PROVE  /\ OfBodyTo(i, k) = IF items[i].checks[k].kind = "body"
                                THEN OfBodyTo(i, k - 1) \cup {k} ELSE OfBodyTo(i, k - 1)
           /\ OthersTo(i, k) =
                 IF items[i].checks[k].kind # "body" /\ ~IsUrl(items[i].checks[k])
                 THEN OthersTo(i, k - 1) \cup {k} ELSE OthersTo(i, k - 1)
           /\ k \notin OfBodyTo(i, k - 1) /\ k \notin OthersTo(i, k - 1)
<1>1. 1 .. k = (1 .. k - 1) \cup {k} /\ k \notin 1 .. k - 1
  OBVIOUS
<1> QED
  BY <1>1 DEF OfBodyTo, OthersTo

LEMMA CardinalityNext ==
    ASSUME NEW i, NEW k \in Nat \ {0}
    PROVE  /\ Cardinality(OfBodyTo(i, k)) =
                 Cardinality(OfBodyTo(i, k - 1))
                   + (IF items[i].checks[k].kind = "body" THEN 1 ELSE 0)
           /\ Cardinality(OthersTo(i, k)) =
                 Cardinality(OthersTo(i, k - 1))
                   + (IF items[i].checks[k].kind # "body" /\ ~IsUrl(items[i].checks[k])
                      THEN 1 ELSE 0)
<1>1. k - 1 \in Nat
  OBVIOUS
<1>2. \A S : IsFiniteSet(S) /\ k \notin S => Cardinality(S \cup {k}) = Cardinality(S) + 1
  BY FS_AddElement
<1>3. /\ IsFiniteSet(OfBodyTo(i, k - 1)) /\ Cardinality(OfBodyTo(i, k - 1)) \in Nat
      /\ IsFiniteSet(OthersTo(i, k - 1)) /\ Cardinality(OthersTo(i, k - 1)) \in Nat
  BY <1>1, CountedTo
<1> QED
  BY <1>2, <1>3, CountedNext

\* The points of the first k checks, by kinds; u is the check of the URL.
PointsTo(i, u, k) ==
    (IF u <= k THEN Weight(items[i].checks[u]) ELSE 0)
      + 20 * Cardinality(OfBodyTo(i, k)) + 10 * Cardinality(OthersTo(i, k))

LEMMA PointsNext ==
    ASSUME Loaded, NEW i \in DOMAIN items, NEW u \in 1 .. Len(items[i].checks),
           IsUrl(items[i].checks[u]),
           \A k \in 1 .. Len(items[i].checks) : k # u => ~IsUrl(items[i].checks[k]),
           NEW k \in 1 .. Len(items[i].checks)
    PROVE  PointsTo(i, u, k) = PointsTo(i, u, k - 1) + Weight(items[i].checks[k])
<1>1. /\ k \in Nat \ {0} /\ k - 1 \in Nat /\ u \in Nat
      /\ items[i].checks[k] \in Checks /\ items[i].checks[u] \in Checks
  BY ItemFacts
<1>2. /\ Cardinality(OfBodyTo(i, k - 1)) \in Nat
      /\ Cardinality(OthersTo(i, k - 1)) \in Nat
      /\ Weight(items[i].checks[u]) \in Nat /\ Weight(items[i].checks[k]) \in Nat
  BY <1>1, CountedTo, WeightPositive
<1> DEFINE B(n) == Cardinality(OfBodyTo(i, n))
           O(n) == Cardinality(OthersTo(i, n))
<1>3. CASE k = u
  <2>1. B(k) = B(k - 1) + 0 /\ O(k) = O(k - 1) + 0
    BY <1>1, <1>3, CardinalityNext, PlainWeight
  <2>2. u <= k /\ ~ u <= k - 1
    BY <1>1, <1>3
  <2> HIDE DEF B, O
  <2>3. B(k - 1) \in Nat /\ O(k - 1) \in Nat
    BY <1>2 DEF B, O
  <2>4. /\ PointsTo(i, u, k) = Weight(items[i].checks[u]) + 20 * B(k) + 10 * O(k)
        /\ PointsTo(i, u, k - 1) = 0 + 20 * B(k - 1) + 10 * O(k - 1)
    BY <2>2 DEF PointsTo, B, O
  <2> QED
    BY <1>2, <1>3, <2>1, <2>3, <2>4
<1>4. CASE k # u
  <2> DEFINE url == IF u <= k THEN Weight(items[i].checks[u]) ELSE 0
  <2>1. u <= k <=> u <= k - 1
    BY <1>1, <1>4
  <2>2. /\ PointsTo(i, u, k) = url + 20 * B(k) + 10 * O(k)
        /\ PointsTo(i, u, k - 1) = url + 20 * B(k - 1) + 10 * O(k - 1)
    BY <2>1 DEF PointsTo
  <2>3. url \in Nat
    BY <1>2
  <2>4. \/ /\ B(k) = B(k - 1) + 1 /\ O(k) = O(k - 1) + 0
           /\ Weight(items[i].checks[k]) = 20
        \/ /\ B(k) = B(k - 1) + 0 /\ O(k) = O(k - 1) + 1
           /\ Weight(items[i].checks[k]) = 10
    BY <1>1, <1>4, CardinalityNext, PlainWeight
  <2> HIDE DEF B, O, url
  <2>5. B(k - 1) \in Nat /\ O(k - 1) \in Nat
    BY <1>2 DEF B, O
  <2> QED
    BY <2>2, <2>3, <2>4, <2>5
<1> QED
  BY <1>3, <1>4

\* All kinds of points are in one sum.
LEMMA SpecificityByKind ==
    ASSUME Loaded, NEW i \in DOMAIN items
    PROVE  /\ Specificity(i) = Weight(UrlCheck(i)) + 20 * Cardinality(OfBody(i))
                                 + 10 * Cardinality(Others(i))
           /\ Cardinality(OfBody(i)) \in Nat /\ Cardinality(Others(i)) \in Nat
<1> DEFINE n == Len(items[i].checks)
<1>1. PICK u \in 1 .. n : /\ UrlCheck(i) = items[i].checks[u] /\ IsUrl(items[i].checks[u])
                          /\ \A k \in 1 .. n : k # u => ~IsUrl(items[i].checks[k])
  BY OneUrl
<1>2. n \in Nat /\ DOMAIN items[i].checks = 1 .. n
  BY ItemFacts
<1> DEFINE S(k) == SumFunctionOnSet(Weights(i), 1 .. k)
           bad == {k \in 0 .. n : S(k) # PointsTo(i, u, k)}
<1>3. bad = {}
  <2> SUFFICES ASSUME bad # {} PROVE FALSE
    OBVIOUS
  <2>0. bad \subseteq Nat
    BY <1>2
  <2>1. PICK m \in bad : \A k \in bad : m <= k
    BY <2>0, LeastNatural
  <2>2. m # 0
    <3>1. 1 .. 0 = {}
      OBVIOUS
    <3>2. S(0) = 0
      BY <3>1, SumEmpty
    <3>3. OfBodyTo(i, 0) = {} /\ OthersTo(i, 0) = {}
      BY <3>1 DEF OfBodyTo, OthersTo
    <3>4. PointsTo(i, u, 0) = 0
      <4>1. Cardinality(OfBodyTo(i, 0)) = 0 /\ Cardinality(OthersTo(i, 0)) = 0
        BY <3>3, FS_EmptySet
      <4>2. ~ u <= 0
        BY <1>1, <1>2
      <4> QED
        BY <4>1, <4>2 DEF PointsTo
    <3> QED
      BY <2>1, <3>2, <3>4
  <2>3. m \in 1 .. n /\ m - 1 \in 0 .. n /\ ~ m <= m - 1
    BY <1>2, <2>1, <2>2
  <2>4. S(m - 1) = PointsTo(i, u, m - 1)
    BY <2>1, <2>3
  <2>5. S(m) = S(m - 1) + Weight(items[i].checks[m])
    BY <2>3, NextWeight
  <2>6. PointsTo(i, u, m) = PointsTo(i, u, m - 1) + Weight(items[i].checks[m])
    BY <1>1, <2>3, PointsNext
  <2> QED
    BY <2>1, <2>4, <2>5, <2>6
<1>4. Specificity(i) = S(n)
  BY SpecificityFacts
<1>5. OfBody(i) = OfBodyTo(i, n) /\ Others(i) = OthersTo(i, n)
  BY <1>2 DEF OfBody, Others, OfBodyTo, OthersTo
<1>6. S(n) = PointsTo(i, u, n)
  BY <1>2, <1>3
<1>7. u <= n
  BY <1>2
<1> QED
  BY <1>1, <1>2, <1>4, <1>5, <1>6, <1>7, CountedTo DEF PointsTo

\* At the same priority neither a mapping with more checks of the same kind nor
\* one with a more exact URL ever loses, whatever the number of checks.
THEOREM MoreSpecificWinsAlways == Spec => []MoreSpecificWins
<1>1. ASSUME IInv, Chosen, NEW i \in Matched,
             items[i].priority = items[best].priority,
             Specificity(i) > Specificity(best)
      PROVE  FALSE
  <2>1. best \in DOMAIN items /\ i \in DOMAIN items /\ Loaded
    BY <1>1, BestFacts DEF Matched, IInv
  <2>2. Before(i, best) /\ i # best
    BY <1>1, <2>1, SpecificityFacts DEF Before
  <2> QED
    BY <1>1, <2>2, BestFacts
<1>2. ASSUME Loaded, NEW i \in DOMAIN items, NEW j \in DOMAIN items, MakesMore(i, j)
      PROVE  Specificity(i) > Specificity(j)
  <2>1. \A k \in DOMAIN items : /\ DOMAIN Kind(k) = DOMAIN items[k].checks
                                /\ Len(Kind(k)) = Len(items[k].checks)
    BY <1>2, ItemFacts DEF Kind
  <2>2. Len(items[i].checks) > Len(items[j].checks)
    BY <1>2, <2>1 DEF MakesMore
  <2>3. PICK f \in [DOMAIN items[j].checks -> DOMAIN items[i].checks] :
           /\ \A k, l \in DOMAIN f : k < l => f[k] < f[l]
           /\ \A k \in DOMAIN f : items[i].checks[f[k]] = items[j].checks[k]
    BY <1>2, <2>1 DEF MakesMore
  <2> QED
    BY <1>2, <2>2, <2>3, MoreChecksMorePoints
<1>3. ASSUME Loaded, NEW i \in DOMAIN items, NEW j \in DOMAIN items, AsksMoreExactly(i, j)
      PROVE  Specificity(i) > Specificity(j)
  <2>1. Weight(UrlCheck(i)) > Weight(UrlCheck(j))
    BY <1>3, OneUrl, MoreExactMorePoints DEF AsksMoreExactly
  <2>2. Weight(UrlCheck(i)) \in Nat /\ Weight(UrlCheck(j)) \in Nat
    BY <1>3, OneUrl, WeightPositive
  <2>3. /\ Cardinality(OfBody(i)) >= Cardinality(OfBody(j))
        /\ Cardinality(Others(i)) >= Cardinality(Others(j))
    BY <1>3 DEF AsksMoreExactly
  <2> QED
    BY <1>3, <2>1, <2>2, <2>3, SpecificityByKind
<1>4. ASSUME IInv, Chosen, NEW i \in Matched,
             items[i].priority = items[best].priority
      PROVE  ~MakesMore(i, best) /\ ~AsksMoreExactly(i, best)
  <2>1. best \in DOMAIN items /\ i \in DOMAIN items /\ Loaded
    BY <1>4, BestFacts DEF Matched, IInv
  <2> QED
    BY <1>1, <1>2, <1>3, <1>4, <2>1
<1>5. IInv => MoreSpecificWins
  BY <1>4 DEF MoreSpecificWins
<1> QED
  BY Invariance, <1>5, PTL
=============================================================================
