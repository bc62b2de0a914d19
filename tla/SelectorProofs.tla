--------------------------- MODULE SelectorProofs ---------------------------
(***************************************************************************)
(* Facts about Selector for any number of goroutines, variants and         *)
(* weights, any width of int and any bound on the calls.                   *)
(***************************************************************************)
EXTENDS Selector, CountingTheorems

\* The cursor stays on a variant when it is advanced.
LEMMA Advanced ==
    ASSUME NEW i \in Variants
    PROVE  /\ (i + 1) % N \in Variants
           /\ i + 1 < N => (i + 1) % N = i + 1
           /\ i + 1 = N => (i + 1) % N = 0
  BY SelectorAssumption DEF Variants

(***************************************************************************)
(* The table of thresholds                                                 *)
(***************************************************************************)
\* g is buildCumulative's table as far as the first n variants.
IsCumulative(g, n) ==
    g = [v \in 0 .. n - 1 |-> Wrap((IF v = 0 THEN 0 ELSE g[v - 1]) + weight[v])]

\* The recursive definition has a value: the table can be built one variant
\* after the other.
LEMMA CumulativeExists == IsCumulative(Cumulative, N)
<1> DEFINE bad == {n \in Nat : ~ \E g : IsCumulative(g, n)}
<1>1. bad = {}
  <2> SUFFICES ASSUME bad # {} PROVE FALSE
    OBVIOUS
  <2>1. PICK m \in bad : \A n \in bad : m <= n
    BY LeastNatural
  <2>2. m # 0
    <3>1. 0 .. 0 - 1 = {}
      OBVIOUS
    <3>2. IsCumulative([v \in {} |-> 0], 0)
      BY <3>1 DEF IsCumulative
    <3> QED
      BY <2>1, <3>2
  <2>3. m - 1 \in Nat /\ m - 1 \notin bad
    BY <2>1, <2>2
  <2>4. PICK g : IsCumulative(g, m - 1)
    BY <2>3
  <2> DEFINE h == [v \in 0 .. m - 1 |->
                     Wrap((IF v = 0 THEN 0 ELSE g[v - 1]) + weight[v])]
  <2>5. \A v \in 0 .. m - 2 : g[v] = h[v]
    BY <2>3, <2>4 DEF IsCumulative
  <2>6. \A v \in 0 .. m - 1 : v # 0 => g[v - 1] = h[v - 1]
    <3> HIDE DEF h
    <3>1. ASSUME NEW v \in 0 .. m - 1, v # 0 PROVE v - 1 \in 0 .. m - 2
      BY <2>3, <3>1
    <3> QED
      BY <2>5, <3>1
  <2>7. h = [v \in 0 .. m - 1 |-> Wrap((IF v = 0 THEN 0 ELSE h[v - 1]) + weight[v])]
    <3>1. h = [v \in 0 .. m - 1 |->
                 Wrap((IF v = 0 THEN 0 ELSE g[v - 1]) + weight[v])]
      OBVIOUS
    <3> HIDE DEF h
    <3> QED
      BY <2>6, <3>1
  <2> QED
    BY <2>1, <2>7 DEF IsCumulative
<1>2. \E g : g = [v \in Variants |->
                    Wrap((IF v = 0 THEN 0 ELSE g[v - 1]) + weight[v])]
  <2>1. N \in Nat /\ N \notin bad
    BY <1>1, SelectorAssumption
  <2> QED
    BY <2>1 DEF IsCumulative, Variants
<1> QED
  BY <1>2 DEF IsCumulative, Cumulative, Variants

\* The thresholds as they would be without the width of an int.
Prefix(v) == SumFunctionOnSet(weight, 0 .. v)

LEMMA PrefixFacts ==
    ASSUME weight \in [Variants -> Nat]
    PROVE  /\ \A v \in Variants :
                 /\ Prefix(v) \in Nat /\ Prefix(v) <= TrueTotal
                 /\ Prefix(v) = (IF v = 0 THEN 0 ELSE Prefix(v - 1)) + weight[v]
                 /\ \A u \in Variants : u <= v => Prefix(u) <= Prefix(v)
           /\ Prefix(N - 1) = TrueTotal
<1>1. ASSUME NEW v \in Variants
      PROVE  /\ IsFiniteSet(0 .. v) /\ 0 .. v \in SUBSET Variants
             /\ \A u \in 0 .. v : weight[u] \in Nat
  <2>1. v \in Int /\ 0 .. v \in SUBSET Variants
    BY SelectorAssumption DEF Variants
  <2> QED
    BY <2>1, FS_Interval
<1>2. IsFiniteSet(Variants) /\ TrueTotal = SumFunctionOnSet(weight, Variants)
  BY FS_Interval, SelectorAssumption DEF Variants, TrueTotal, SumFunction
<1>3. ASSUME NEW v \in Variants
      PROVE  Prefix(v) = (IF v = 0 THEN 0 ELSE Prefix(v - 1)) + weight[v]
  <2>1. v \in 0 .. v /\ v \in Nat
    BY SelectorAssumption DEF Variants
  <2>2. Prefix(v) = weight[v] + SumFunctionOnSet(weight, (0 .. v) \ {v})
    BY <1>1, <2>1, SumAny DEF Prefix
  <2>3. (0 .. v) \ {v} = 0 .. v - 1 /\ (v = 0 => 0 .. v - 1 = {})
    BY <2>1
  <2>4. weight[v] \in Nat /\ SumFunctionOnSet(weight, (0 .. v) \ {v}) \in Nat
    <3>1. IsFiniteSet((0 .. v) \ {v})
      BY <1>1, FS_RemoveElement
    <3> QED
      BY <1>1, <3>1, SumNat
  <2>5. SumFunctionOnSet(weight, (0 .. v) \ {v}) = IF v = 0 THEN 0 ELSE Prefix(v - 1)
    <3>1. CASE v = 0
      BY <2>3, <3>1, SumEmpty
    <3>2. CASE v # 0
      <4>1. SumFunctionOnSet(weight, 0 .. v - 1) = Prefix(v - 1)
        BY DEF Prefix
      <4> QED
        BY <2>3, <3>2, <4>1
    <3> QED
      BY <3>1, <3>2
  <2> QED
    BY <2>2, <2>4, <2>5
<1>4. ASSUME NEW v \in Variants
      PROVE  Prefix(v) \in Nat /\ Prefix(v) <= TrueTotal
  BY <1>1, <1>2, SumNat, SumSubset DEF Prefix
<1>5. ASSUME NEW v \in Variants, NEW u \in Variants, u <= v
      PROVE  Prefix(u) <= Prefix(v)
  <2>1. 0 .. u \in SUBSET (0 .. v)
    BY <1>5, SelectorAssumption DEF Variants
  <2> QED
    BY <1>1, <2>1, SumSubset DEF Prefix
<1>6. Prefix(N - 1) = TrueTotal
  BY <1>2 DEF Prefix, Variants
<1> QED
  BY <1>3, <1>4, <1>5, <1>6

LEMMA NoWrap ==
    ASSUME NEW x \in Nat, x <= MaxInt
    PROVE  Wrap(x) = x
  BY SelectorAssumption DEF Wrap

\* Without an overflow the thresholds are the sums of the weights.
LEMMA CumulativeExact ==
    ASSUME weight \in [Variants -> Nat], TrueTotal <= MaxInt
    PROVE  \A v \in Variants : Cumulative[v] = Prefix(v)
<1> DEFINE bad == {v \in Variants : Cumulative[v] # Prefix(v)}
<1> SUFFICES ASSUME bad # {} PROVE FALSE
  OBVIOUS
<1>1. Variants \subseteq Nat /\ N - 1 \in Variants
  BY SelectorAssumption DEF Variants
<1>2. PICK v \in bad : \A u \in bad : v <= u
  BY <1>1, LeastNatural
<1>3. v \in Variants /\ Cumulative[v] # Prefix(v)
  BY <1>2
<1>4. Cumulative[v] = Wrap((IF v = 0 THEN 0 ELSE Cumulative[v - 1]) + weight[v])
  BY <1>3, CumulativeExists DEF IsCumulative, Variants
<1>5. v # 0 => Cumulative[v - 1] = Prefix(v - 1)
  <2>1. ASSUME v # 0 PROVE v - 1 \in Variants /\ ~ v <= v - 1
    BY <1>3, <2>1, SelectorAssumption DEF Variants
  <2> QED
    BY <1>2, <2>1
<1>6. Cumulative[v] = Wrap(Prefix(v))
  BY <1>3, <1>4, <1>5, PrefixFacts
<1>7. Prefix(v) \in Nat /\ Prefix(v) <= MaxInt
  <2>1. TrueTotal = Prefix(N - 1) /\ Prefix(N - 1) \in Nat
    BY <1>1, PrefixFacts
  <2>2. Prefix(v) \in Nat /\ Prefix(v) <= TrueTotal
    BY <1>3, PrefixFacts
  <2> QED
    BY <2>1, <2>2, SelectorAssumption
<1> QED
  BY <1>3, <1>6, <1>7, NoWrap

\* Then a number below the total stands for the variant between whose
\* thresholds it lies.
LEMMA IndexExact ==
    ASSUME weight \in [Variants -> Nat], TrueTotal <= MaxInt,
           NEW point \in 0 .. Total - 1, NEW v \in Variants
    PROVE  IndexOf(point) = v <=> /\ (IF v = 0 THEN 0 ELSE Prefix(v - 1)) <= point
                                  /\ point < Prefix(v)
<1> DEFINE above == {u \in Variants : point < Cumulative[u]}
           m == Min(above)
<1>1. Variants \subseteq Nat /\ N - 1 \in Variants
  BY SelectorAssumption DEF Variants
<1>2. \A u \in Variants : Cumulative[u] = Prefix(u) /\ Prefix(u) \in Nat
  BY CumulativeExact, PrefixFacts
<1>3. point \in Nat /\ N - 1 \in above
  <2>1. Total = Cumulative[N - 1] /\ Cumulative[N - 1] \in Nat
    BY <1>1, <1>2 DEF Total
  <2>2. point \in Nat /\ point < Total
    BY <2>1
  <2> QED
    BY <1>1, <2>1, <2>2
<1>4. m \in above /\ \A u \in above : m <= u
  BY <1>1, <1>3, MinIsLeast
<1>5. IndexOf(point) = m
  BY <1>3 DEF IndexOf
<1>6. m \in Variants /\ point < Prefix(m)
  BY <1>2, <1>4
<1>7. m # 0 => Prefix(m - 1) <= point
  <2>1. ASSUME m # 0 PROVE m - 1 \in Variants /\ m - 1 \notin above
    BY <1>1, <1>4, <1>6, <2>1 DEF Variants
  <2> QED
    BY <1>2, <1>3, <2>1
<1>8. ASSUME (IF v = 0 THEN 0 ELSE Prefix(v - 1)) <= point, point < Prefix(v)
      PROVE  v = m
  <2>1. m <= v
    BY <1>2, <1>4, <1>8
  <2>2. ASSUME m < v PROVE FALSE
    <3>1. v # 0 /\ v - 1 \in Variants /\ m <= v - 1
      BY <1>1, <1>6, <2>2 DEF Variants
    <3>2. Prefix(m) <= Prefix(v - 1)
      BY <1>6, <3>1, PrefixFacts
    <3> QED
      BY <1>2, <1>3, <1>6, <1>8, <3>1, <3>2
  <2>3. m \in Nat /\ v \in Nat
    BY <1>1, <1>6
  <2> HIDE DEF m
  <2> QED
    BY <2>1, <2>2, <2>3
<1> HIDE DEF above, m
<1>9. IndexOf(point) = v => /\ (IF v = 0 THEN 0 ELSE Prefix(v - 1)) <= point
                            /\ point < Prefix(v)
  BY <1>3, <1>5, <1>6, <1>7
<1> QED
  BY <1>5, <1>8, <1>9

(***************************************************************************)
(* The inductive invariant.  Balanced alone is not inductive: it forgets   *)
(* the cursor.  The strengthening says where the cursor is while a call is *)
(* under way, and that the answers so far are whole rounds and one part of *)
(* a round, which ends at the variant whose call takes effect next.        *)
(***************************************************************************)
CursorKnown ==
    \A t \in Threads :
        /\ pc[t] \in {"read", "advance"} => mode = "sequential"
        /\ pc[t] \in {"draw", "store"} => mode # "sequential"
        /\ pc[t] = "advance" => seen[t] = next
        /\ pc[t] = "unlock" /\ mode = "sequential" => next = (seen[t] + 1) % N

\* The generator is advanced once for each call that draws, in the lock.
GeneratorKnown ==
    \A t \in Threads :
        /\ pc[t] = "store" => took[t] = source
        /\ pc[t] = "unlock" /\ mode # "sequential" => source = took[t] + 1

WholeRounds ==
    mode = "sequential" =>
        \E rounds \in Nat : \A v \in Variants :
            answered[v] = IF v < Due THEN rounds + 1 ELSE rounds

\* What a panic would need: a weighted table whose last threshold is not
\* positive, which validated weights only give when their sum overflows.
Weighted == weight \in [Variants -> Weights]

IInv == TypeOK /\ Exclusive /\ CursorKnown /\ GeneratorKnown /\ WholeRounds
          /\ Weighted /\ PanicOnlyOnOverflow

LEMMA InitIInv == Init => IInv
<1> SUFFICES ASSUME Init PROVE IInv
  OBVIOUS
<1>1. 0 \in Variants
  BY SelectorAssumption DEF Variants
<1>2. TypeOK
  <2>1. weight \in [Variants -> Nat]
    BY SelectorAssumption DEF Init
  <2> QED
    BY <1>1, <2>1 DEF Init, TypeOK, Modes, Inside
<1>3. Exclusive /\ CursorKnown /\ GeneratorKnown
  BY SelectorAssumption DEF Init, Exclusive, CursorKnown, GeneratorKnown, Inside
<1>4. WholeRounds
  <2>1. \A v \in Variants : answered[v] = IF v < Due THEN 0 + 1 ELSE 0
    BY SelectorAssumption DEF Init, Due, Variants
  <2> QED
    BY <2>1 DEF WholeRounds
<1>5. Weighted /\ PanicOnlyOnOverflow
  BY DEF Init, Weighted, PanicOnlyOnOverflow
<1> QED
  BY <1>2, <1>3, <1>4, <1>5 DEF IInv

LEMMA StepTypeOK == IInv /\ [Next]_vars => TypeOK'
<1> SUFFICES ASSUME IInv, [Next]_vars PROVE TypeOK'
  OBVIOUS
<1> USE DEF TypeOK, Modes, Inside
<1>0. TypeOK
  BY DEF IInv
<1>1. ASSUME NEW t \in Threads, Call(t) PROVE TypeOK'
  BY <1>0, <1>1 DEF Call, Move, conf, generator
<1>2. ASSUME NEW t \in Threads, Lock(t) PROVE TypeOK'
  BY <1>0, <1>2 DEF Lock, Move, conf, generator
<1>3. ASSUME NEW t \in Threads, Read(t) PROVE TypeOK'
  BY <1>0, <1>3 DEF Read, Move, conf, generator
<1>4. ASSUME NEW t \in Threads, Advance(t) PROVE TypeOK'
  BY <1>0, <1>4, Advanced DEF Advance, Move, conf, generator
<1>5. ASSUME NEW t \in Threads, Draw(t) PROVE TypeOK'
  <2>1. PICK point \in 0 .. DrawBound - 1 :
           seen' = [seen EXCEPT ![t] = PickOf(point)]
    BY <1>5 DEF Draw
  <2>2. PickOf(point) \in Variants
    <3>1. CASE mode = "random"
      BY <3>1, <2>1 DEF PickOf, DrawBound, Variants
    <3>2. CASE mode # "random"
      <4>1. IndexOf(point) \in Variants
        <5> DEFINE above == {v \in Variants : point < Cumulative[v]}
        <5>1. above # {} => Min(above) \in Variants
          BY MinIsLeast, SelectorAssumption DEF Variants
        <5>2. N - 1 \in Variants
          BY SelectorAssumption DEF Variants
        <5> QED
          BY <5>1, <5>2 DEF IndexOf
      <4> QED
        BY <3>2, <4>1 DEF PickOf
    <3> QED
      BY <3>1, <3>2
  <2> QED
    BY <1>0, <1>5, <2>1, <2>2 DEF Draw, Move, conf, generator
<1>6. ASSUME NEW t \in Threads, Store(t) PROVE TypeOK'
  BY <1>0, <1>6 DEF Store, Move, conf, generator
<1>7. ASSUME NEW t \in Threads, DrawPanics(t) PROVE TypeOK'
  BY <1>0, <1>7 DEF DrawPanics, Move, conf, generator
<1>8. ASSUME NEW t \in Threads, Unlock(t) PROVE TypeOK'
  <2>1. 0 \in Variants
    BY SelectorAssumption DEF Variants
  <2> QED
    BY <1>0, <1>8, <2>1 DEF Unlock, Move, conf, generator
<1>9. CASE UNCHANGED vars
  BY <1>0, <1>9 DEF vars, conf, generator
<1> QED
  BY <1>1, <1>2, <1>3, <1>4, <1>5, <1>6, <1>7, <1>8, <1>9 DEF Next, Step

LEMMA StepExclusive == IInv /\ [Next]_vars => Exclusive'
<1> SUFFICES ASSUME IInv, [Next]_vars PROVE Exclusive'
  OBVIOUS
<1> USE SelectorAssumption DEF IInv, TypeOK, Exclusive, Inside
<1>1. ASSUME NEW t \in Threads, Call(t) PROVE Exclusive'
  BY <1>1 DEF Call, Move, conf, generator
<1>2. ASSUME NEW t \in Threads, Lock(t) PROVE Exclusive'
  BY <1>2 DEF Lock, Move, conf, generator
<1>3. ASSUME NEW t \in Threads, Read(t) PROVE Exclusive'
  BY <1>3 DEF Read, Move, conf, generator
<1>4. ASSUME NEW t \in Threads, Advance(t) PROVE Exclusive'
  BY <1>4 DEF Advance, Move, conf, generator
<1>5. ASSUME NEW t \in Threads, Draw(t) PROVE Exclusive'
  BY <1>5 DEF Draw, Move, conf, generator
<1>6. ASSUME NEW t \in Threads, Store(t) PROVE Exclusive'
  BY <1>6 DEF Store, Move, conf, generator
<1>7. ASSUME NEW t \in Threads, DrawPanics(t) PROVE Exclusive'
  BY <1>7 DEF DrawPanics, Move, conf, generator
<1>8. ASSUME NEW t \in Threads, Unlock(t) PROVE Exclusive'
  BY <1>8 DEF Unlock, Move, conf, generator
<1>9. CASE UNCHANGED vars
  BY <1>9 DEF vars, conf, generator
<1> QED
  BY <1>1, <1>2, <1>3, <1>4, <1>5, <1>6, <1>7, <1>8, <1>9 DEF Next, Step

LEMMA StepCursorKnown == IInv /\ [Next]_vars => CursorKnown'
<1> SUFFICES ASSUME IInv, [Next]_vars PROVE CursorKnown'
  OBVIOUS
<1> USE SelectorAssumption DEF IInv, TypeOK, CursorKnown
<1>1. ASSUME NEW t \in Threads, Call(t) PROVE CursorKnown'
  BY <1>1 DEF Call, Move, conf, generator
<1>2. ASSUME NEW t \in Threads, Lock(t) PROVE CursorKnown'
  BY <1>2 DEF Lock, Move, conf, generator
<1>3. ASSUME NEW t \in Threads, Read(t) PROVE CursorKnown'
  BY <1>3 DEF Read, Move, conf, generator
<1>4. ASSUME NEW t \in Threads, Advance(t) PROVE CursorKnown'
  <2>1. \A u \in Threads \ {t} : pc[u] \notin Inside
    BY <1>4 DEF Advance, Move, Exclusive, Inside
  <2> QED
    BY <1>4, <2>1 DEF Advance, Move, conf, generator, Inside
<1>5. ASSUME NEW t \in Threads, Draw(t) PROVE CursorKnown'
  BY <1>5 DEF Draw, Move, conf, generator
<1>6. ASSUME NEW t \in Threads, Store(t) PROVE CursorKnown'
  BY <1>6 DEF Store, Move, conf, generator
<1>7. ASSUME NEW t \in Threads, DrawPanics(t) PROVE CursorKnown'
  BY <1>7 DEF DrawPanics, Move, conf, generator
<1>8. ASSUME NEW t \in Threads, Unlock(t) PROVE CursorKnown'
  BY <1>8 DEF Unlock, Move, conf, generator
<1>9. CASE UNCHANGED vars
  BY <1>9 DEF vars, conf, generator
<1> QED
  BY <1>1, <1>2, <1>3, <1>4, <1>5, <1>6, <1>7, <1>8, <1>9 DEF Next, Step

LEMMA StepGeneratorKnown == IInv /\ [Next]_vars => GeneratorKnown'
<1> SUFFICES ASSUME IInv, [Next]_vars PROVE GeneratorKnown'
  OBVIOUS
<1> USE SelectorAssumption DEF IInv, TypeOK, GeneratorKnown
<1>1. ASSUME NEW t \in Threads,
             Call(t) \/ Lock(t) \/ Read(t) \/ DrawPanics(t) \/ Unlock(t)
      PROVE  GeneratorKnown'
  BY <1>1 DEF Call, Lock, Read, DrawPanics, Unlock, Move, conf, generator
<1>2. ASSUME NEW t \in Threads, Advance(t) PROVE GeneratorKnown'
  BY <1>2 DEF Advance, Move, conf, generator, CursorKnown
<1>3. ASSUME NEW t \in Threads, Draw(t) PROVE GeneratorKnown'
  BY <1>3 DEF Draw, Move, conf
<1>4. ASSUME NEW t \in Threads, Store(t) PROVE GeneratorKnown'
  <2>1. \A u \in Threads \ {t} : pc[u] \notin Inside
    BY <1>4 DEF Store, Move, Exclusive, Inside
  <2> QED
    BY <1>4, <2>1 DEF Store, Move, conf, Inside
<1>5. CASE UNCHANGED vars
  BY <1>5 DEF vars, conf, generator
<1> QED
  BY <1>1, <1>2, <1>3, <1>4, <1>5 DEF Next, Step

\* A step that answers nobody leaves the variant that is due the same.
LEMMA DueKept ==
    ASSUME IInv, TypeOK', Exclusive', CursorKnown', mode' = mode,
           NEW t \in Threads,
           \/ Call(t) \/ Lock(t) \/ Read(t) \/ Advance(t) \/ Draw(t) \/ Store(t) \/ DrawPanics(t),
           mode = "sequential"
    PROVE  Due' = Due
<1> USE SelectorAssumption DEF IInv, TypeOK, Exclusive, Inside, Due
<1>1. CASE Call(t)
  BY <1>1 DEF Call, Move, conf, generator
<1>2. CASE Lock(t)
  BY <1>2 DEF Lock, Move, conf, generator
<1>3. CASE Read(t)
  BY <1>3 DEF Read, Move, conf, generator
<1>4. CASE Advance(t)
  BY <1>4 DEF Advance, Move, conf, generator, CursorKnown
<1>5. CASE Draw(t)
  BY <1>5 DEF Draw, Move, conf, generator, CursorKnown
<1>6. CASE Store(t)
  BY <1>6 DEF Store, Move, conf, CursorKnown
<1>7. CASE DrawPanics(t)
  BY <1>7 DEF DrawPanics, Move, conf, CursorKnown
<1> QED
  BY <1>1, <1>2, <1>3, <1>4, <1>5, <1>6, <1>7

\* Nor does it change which number of the generator comes next.
LEMMA UsedKept ==
    ASSUME IInv, TypeOK', Exclusive', NEW t \in Threads,
           \/ Call(t) \/ Lock(t) \/ Read(t) \/ Advance(t) \/ Draw(t) \/ Store(t)
           \/ DrawPanics(t)
    PROVE  Used' = Used
<1> USE SelectorAssumption DEF IInv, TypeOK, Exclusive, Inside, Used
<1>1. CASE Call(t)
  BY <1>1 DEF Call, Move, conf, generator
<1>2. CASE Lock(t)
  BY <1>2 DEF Lock, Move, conf, generator
<1>3. CASE Read(t)
  BY <1>3 DEF Read, Move, conf, generator
<1>4. CASE Advance(t)
  BY <1>4 DEF Advance, Move, conf, generator, CursorKnown
<1>5. CASE Draw(t)
  BY <1>5 DEF Draw, Move, conf
<1>6. CASE Store(t)
  BY <1>6 DEF Store, Move, conf, CursorKnown, GeneratorKnown
<1>7. CASE DrawPanics(t)
  BY <1>7 DEF DrawPanics, Move, conf, generator
<1> QED
  BY <1>1, <1>2, <1>3, <1>4, <1>5, <1>6, <1>7

\* When a sequential call returns, it is answered with the variant that was
\* due, and the next one is due.
LEMMA UnlockTakesTurn ==
    ASSUME IInv, NEW t \in Threads, Unlock(t), mode = "sequential"
    PROVE  /\ seen[t] = Due /\ Due \in Variants
           /\ Due' = (Due + 1) % N
           /\ answered' = [answered EXCEPT ![Due] = @ + 1]
  BY SelectorAssumption
  DEF Unlock, Move, conf, generator, IInv, TypeOK, Exclusive, CursorKnown, Inside, Due

LEMMA StepWholeRounds == IInv /\ [Next]_vars => WholeRounds'
<1> SUFFICES ASSUME IInv, [Next]_vars, mode' = "sequential"
             PROVE  \E rounds \in Nat : \A v \in Variants :
                        answered'[v] = IF v < Due' THEN rounds + 1 ELSE rounds
  BY DEF WholeRounds
<1>1. TypeOK' /\ Exclusive' /\ CursorKnown'
  BY StepTypeOK, StepExclusive, StepCursorKnown
<1>2. mode = "sequential" /\ mode' = mode
  BY DEF Next, Step, Call, Lock, Read, Advance, Draw, Store, DrawPanics, Unlock, vars, conf, generator
<1>3. PICK rounds \in Nat : \A v \in Variants :
         answered[v] = IF v < Due THEN rounds + 1 ELSE rounds
  BY <1>2 DEF IInv, WholeRounds
<1>4. ASSUME NEW t \in Threads, Unlock(t)
      PROVE  \E r \in Nat : \A v \in Variants :
                 answered'[v] = IF v < Due' THEN r + 1 ELSE r
  <2>1. /\ Due \in Variants
        /\ Due' = (Due + 1) % N
        /\ answered' = [answered EXCEPT ![Due] = @ + 1]
        /\ answered \in [Variants -> Nat]
    BY <1>2, <1>4, UnlockTakesTurn DEF IInv, TypeOK
  <2>2. CASE Due + 1 < N
    <3>1. \A v \in Variants : answered'[v] = IF v < Due' THEN rounds + 1 ELSE rounds
      BY <1>3, <2>1, <2>2, Advanced, SelectorAssumption DEF Variants
    <3> QED
      BY <3>1
  <2>3. CASE Due + 1 = N
    <3>1. \A v \in Variants :
             answered'[v] = IF v < Due' THEN (rounds + 1) + 1 ELSE rounds + 1
      BY <1>3, <2>1, <2>3, Advanced, SelectorAssumption DEF Variants
    <3> QED
      BY <3>1
  <2> QED
    BY <2>1, <2>2, <2>3, SelectorAssumption DEF Variants
<1>5. ASSUME NEW t \in Threads, Call(t) \/ Lock(t) \/ Read(t) \/ Advance(t)
                                \/ Draw(t) \/ Store(t) \/ DrawPanics(t)
      PROVE  Due' = Due /\ answered' = answered
  <2>1. Due' = Due
    BY <1>1, <1>2, <1>5, DueKept
  <2> QED
    BY <1>5, <2>1 DEF Call, Lock, Read, Advance, Draw, Store, DrawPanics
<1>6. CASE UNCHANGED vars
  BY <1>3, <1>6 DEF vars, conf, generator, Due
<1> QED
  BY <1>3, <1>4, <1>5, <1>6 DEF Next, Step

\* A draw whose bound is not positive is a weighted one that overflowed.
LEMMA BoundPositive ==
    ASSUME IInv, NEW t \in Threads, DrawPanics(t)
    PROVE  mode = "weighted" /\ TrueTotal > MaxInt
<1>1. mode # "sequential" /\ mode \in Modes /\ DrawBound <= 0
  BY DEF IInv, CursorKnown, TypeOK, DrawPanics, Move
<1>2. mode = "weighted"
  BY <1>1, SelectorAssumption DEF DrawBound, Modes
<1>3. weight \in [Variants -> Nat] /\ N - 1 \in Variants /\ weight[N - 1] > 0
  BY SelectorAssumption DEF IInv, TypeOK, Weighted, Variants
<1>4. TrueTotal \in Nat /\ TrueTotal > 0 /\ Prefix(N - 1) = TrueTotal
  <2>1. /\ Prefix(N - 1) = TrueTotal /\ Prefix(N - 1) \in Nat
        /\ Prefix(N - 1) = (IF N - 1 = 0 THEN 0 ELSE Prefix((N - 1) - 1)) + weight[N - 1]
    BY <1>3, PrefixFacts
  <2>2. N - 1 # 0 => (N - 1) - 1 \in Variants
    BY SelectorAssumption DEF Variants
  <2>3. N - 1 # 0 => Prefix((N - 1) - 1) \in Nat
    BY <1>3, <2>2, PrefixFacts
  <2>4. weight[N - 1] \in Nat
    BY <1>3
  <2> QED
    BY <1>3, <2>1, <2>3, <2>4
<1>5. TrueTotal <= MaxInt => DrawBound = TrueTotal
  BY <1>2, <1>3, <1>4, CumulativeExact DEF DrawBound, Total
<1> QED
  BY <1>1, <1>2, <1>4, <1>5, SelectorAssumption

LEMMA StepPanics == IInv /\ [Next]_vars => Weighted' /\ PanicOnlyOnOverflow'
<1> SUFFICES ASSUME IInv, [Next]_vars PROVE Weighted' /\ PanicOnlyOnOverflow'
  OBVIOUS
<1>1. mode' = mode /\ weight' = weight
  BY DEF Next, Step, Call, Lock, Read, Advance, Draw, Store, DrawPanics, Unlock, vars, conf, generator
<1>2. Weighted'
  BY <1>1 DEF IInv, Weighted
<1>3. TrueTotal' = TrueTotal
  BY <1>1 DEF TrueTotal
<1>4. ASSUME panicked' = panicked PROVE PanicOnlyOnOverflow'
  BY <1>1, <1>3, <1>4 DEF IInv, PanicOnlyOnOverflow
<1>5. ASSUME NEW t \in Threads, DrawPanics(t) PROVE PanicOnlyOnOverflow'
  BY <1>1, <1>3, <1>5, BoundPositive DEF PanicOnlyOnOverflow
<1>6. panicked' = panicked \/ \E t \in Threads : DrawPanics(t)
  BY DEF Next, Step, Call, Lock, Read, Advance, Draw, Store, Unlock, vars, conf, generator
<1> QED
  BY <1>2, <1>4, <1>5, <1>6

(***************************************************************************)
(* The theorems                                                            *)
(***************************************************************************)
LEMMA Invariance == Spec => []IInv
<1>1. IInv /\ [Next]_vars => IInv'
  BY StepTypeOK, StepExclusive, StepCursorKnown, StepGeneratorKnown,
     StepWholeRounds, StepPanics
  DEF IInv
<1> QED
  BY InitIInv, <1>1, PTL DEF Spec

\* Every variable of a selector keeps its type; in particular the index that
\* Select uses never leaves the slice of variants.
THEOREM TypeCorrect == Spec => []TypeOK
  BY Invariance, PTL DEF IInv

\* The cursor and the generator are only ever used by the goroutine that
\* holds the selector's mutex.
THEOREM ExclusiveAlways == Spec => []Exclusive
  BY Invariance, PTL DEF IInv

\* After any calls of any goroutines in any order, a sequential selector has
\* returned no variant twice more often than another.
THEOREM BalancedAlways == Spec => []Balanced
<1>1. ASSUME IInv, mode = "sequential", NEW v \in Variants, NEW w \in Variants, v < w
      PROVE  answered[v] - answered[w] \in {0, 1}
  <2>1. PICK rounds \in Nat : \A u \in Variants :
           answered[u] = IF u < Due THEN rounds + 1 ELSE rounds
    BY <1>1 DEF IInv, WholeRounds
  <2>2. Due \in Variants
    BY <1>1 DEF IInv, TypeOK, Due
  <2> QED
    BY <1>1, <2>1, <2>2, SelectorAssumption DEF Variants
<1>2. IInv => Balanced
  BY <1>1 DEF Balanced
<1> QED
  BY Invariance, <1>2, PTL

\* For any variants and weights whose sum fits the int, the numbers a weighted
\* draw can return are divided exactly as the weights say.
THEOREM WeightedShareAlways == Spec => []WeightedShare
<1>1. ASSUME weight \in [Variants -> Nat], mode = "weighted", TrueTotal <= MaxInt,
             NEW v \in Variants
      PROVE  Cardinality({p \in 0 .. DrawBound - 1 : PickOf(p) = v}) = weight[v]
  <2> DEFINE from == IF v = 0 THEN 0 ELSE Prefix(v - 1)
  <2>1. DrawBound = Total /\ \A p : PickOf(p) = IndexOf(p)
    BY <1>1 DEF DrawBound, PickOf
  <2>2. Total = TrueTotal
    <3>1. N - 1 \in Variants
      BY SelectorAssumption DEF Variants
    <3> QED
      BY <1>1, <3>1, CumulativeExact, PrefixFacts DEF Total
  <2>3. /\ from \in Nat /\ Prefix(v) \in Nat /\ weight[v] \in Nat
        /\ Prefix(v) = from + weight[v] /\ Prefix(v) <= Total
    <3>1. v # 0 => v - 1 \in Variants
      BY SelectorAssumption DEF Variants
    <3> QED
      BY <1>1, <2>2, <3>1, PrefixFacts
  <2>4. \A p \in 0 .. Total - 1 : IndexOf(p) = v <=> from <= p /\ p < Prefix(v)
    BY <1>1, IndexExact
  <2> HIDE DEF from
  <2>5. TrueTotal \in Nat
    <3>1. N - 1 \in Variants
      BY SelectorAssumption DEF Variants
    <3> QED
      BY <1>1, <3>1, PrefixFacts
  <2>6. {p \in 0 .. Total - 1 : IndexOf(p) = v} = from .. Prefix(v) - 1
    BY <2>2, <2>3, <2>4, <2>5
  <2>7. Cardinality(from .. Prefix(v) - 1) = weight[v]
    <3>1. from \in Int /\ Prefix(v) - 1 \in Int
      BY <2>3
    <3>2. Cardinality(from .. Prefix(v) - 1)
            = IF from > Prefix(v) - 1 THEN 0 ELSE (Prefix(v) - 1) - from + 1
      BY <3>1, FS_Interval
    <3> QED
      BY <2>3, <3>2
  <2> QED
    BY <2>1, <2>6, <2>7
<1>2. TypeOK => WeightedShare
  BY <1>1 DEF TypeOK, WeightedShare
<1> QED
  BY TypeCorrect, <1>2, PTL

\* A draw panics only in a weighted selector whose weights overflow the int
\* they are added in, whatever the other goroutines do.
THEOREM PanicOnlyOnOverflowAlways == Spec => []PanicOnlyOnOverflow
  BY Invariance, PTL DEF IInv

\* Callers of Select cannot tell the locked selector from the one-step
\* rotation: every step answers nobody or answers with the variant due.
THEOREM ImplementsRotation == Spec => RotationSpec
<1>1. Init => R!RInit
  BY SelectorAssumption DEF Init, R!RInit, R!Variants, Variants, Due, Used
<1>2. ASSUME IInv, [Next]_vars PROVE [R!RNext]_(R!rvars)
  <2>1. TypeOK' /\ Exclusive' /\ CursorKnown'
    BY <1>2, StepTypeOK, StepExclusive, StepCursorKnown
  <2>2. ASSUME NEW t \in Threads, Unlock(t), mode = "sequential"
        PROVE  R!InTurn
    <3>1. Used' = Used
      BY <2>2 DEF Unlock, conf, Used
    <3> QED
      BY <1>2, <2>2, <3>1, UnlockTakesTurn DEF R!InTurn, Unlock, conf
  <2>3. ASSUME NEW t \in Threads, Unlock(t), mode # "sequential"
        PROVE  R!Drawn
    <3>1. Due' = Due
      BY <1>2, <2>3 DEF Unlock, conf, generator, Due
    <3>2. Used' = Used + 1
      BY <1>2, <2>3, SelectorAssumption
      DEF Unlock, Move, conf, Used, IInv, TypeOK, Exclusive, Inside, GeneratorKnown
    <3>3. seen[t] \in R!Variants
      BY <1>2 DEF IInv, TypeOK, R!Variants, Variants
    <3> QED
      BY <2>3, <3>1, <3>2, <3>3 DEF R!Drawn, Unlock, conf
  <2>4. ASSUME NEW t \in Threads, Call(t) \/ Lock(t) \/ Read(t) \/ Advance(t)
                                  \/ Draw(t) \/ Store(t) \/ DrawPanics(t)
        PROVE  UNCHANGED R!rvars
    <3>1. mode' = mode /\ answered' = answered
      BY <2>4 DEF Call, Lock, Read, Advance, Draw, Store, DrawPanics, conf, generator
    <3>2. Used' = Used
      BY <1>2, <2>1, <2>4, UsedKept
    <3>3. CASE mode = "sequential"
      BY <1>2, <2>1, <2>4, <3>1, <3>3, <3>2, DueKept DEF R!rvars
    <3>4. CASE mode # "sequential"
      <4>1. next' = next
        BY <1>2, <2>4, <3>4
        DEF Call, Lock, Read, Advance, Draw, Store, DrawPanics, Move, IInv, CursorKnown
      <4> QED
        BY <3>1, <3>4, <3>2, <4>1 DEF R!rvars, Due
    <3> QED
      BY <3>3, <3>4
  <2>5. CASE UNCHANGED vars
    BY <2>5 DEF vars, conf, generator, R!rvars, Due, Used
  <2> QED
    BY <1>2, <2>2, <2>3, <2>4, <2>5 DEF Next, Step, R!RNext
<1> QED
  BY Invariance, <1>1, <1>2, PTL DEF Spec, RotationSpec, R!RSpec
=============================================================================
