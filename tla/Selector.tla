------------------------------ MODULE Selector ------------------------------
(***************************************************************************)
(* One response selector (internal/domain/selector) called by the          *)
(* goroutines of concurrent requests.  The sequential selector keeps a     *)
(* cursor, the random and the weighted one a math/rand generator that is   *)
(* not safe for concurrent use; all three guard it with a sync.Mutex that  *)
(* is released by a deferred call, so also when the draw panics.           *)
(*                                                                         *)
(* A Select call is: take the lock, touch the shared state (one step per   *)
(* statement of the source), release the lock and return.  A draw touches  *)
(* the generator twice: it reads its state and stores the next one.        *)
(***************************************************************************)
EXTENDS Integers, FiniteSets, FiniteSetsExt

CONSTANTS
    Threads,    \* request goroutines
    NoThread,   \* what holder is while mu is free
    N,          \* number of variants
    Weights,    \* bound: the weights a variant may be configured with
    MaxInt,     \* an int of the build holds -MaxInt - 1 .. MaxInt
    MaxCalls    \* bound: Select calls begun in a behaviour

Variants == 0 .. N - 1

ASSUME SelectorAssumption ==
    /\ N \in Nat \ {0}
    /\ Weights \subseteq Nat \ {0}   \* validated: "must be positive"
    /\ MaxInt \in Nat
    /\ NoThread \notin Threads

VARIABLES
    mode,       \* which of the three selectors NewSet built
    weight,     \* weight[v]: the configured weight of variant v
    pc,         \* pc[t]: where goroutine t is in Select
    holder,     \* the goroutine that holds mu; NoThread when it is free
    next,       \* sequentialSelector.next
    source,     \* the state of the generator: how often it was advanced
    took,       \* took[t]: the state of the generator that t drew from
    seen,       \* seen[t]: index of the variant read or drawn by t
    answered,   \* answered[v]: calls that returned variant v
    panicked    \* calls that ended in a panic of the draw

conf == <<mode, weight>>

vars == <<conf, pc, holder, next, source, took, seen, answered, panicked>>

generator == <<source, took>>

\* Two's complement addition of the build's int.
Wrap(x) == ((x + MaxInt + 1) % (2 * (MaxInt + 1))) - (MaxInt + 1)

\* weightedSelector.cumulative, built once by buildCumulative.
Cumulative[v \in Variants] ==
    Wrap((IF v = 0 THEN 0 ELSE Cumulative[v - 1]) + weight[v])

\* weightedSelector.total after the last addition.
Total == Cumulative[N - 1]

\* Fault: a point on a threshold is still below it.
IndexOfInclusive(point) ==
    LET above == {v \in Variants : point =< Cumulative[v]}
    IN  IF above = {} THEN N - 1 ELSE Min(above)

\* weightedSelector.index: the first threshold above the point.
IndexOf(point) ==
    LET above == {v \in Variants : point < Cumulative[v]}
    IN  IF above = {} THEN N - 1 ELSE Min(above)

\* The argument the selector passes to its intn function.
DrawBound == IF mode = "random" THEN N ELSE Total

\* The variant a drawn number stands for.
PickOf(point) == IF mode = "random" THEN point ELSE IndexOf(point)

(***************************************************************************)
(* One action per step of a call                                           *)
(***************************************************************************)
Move(t, from, to) == pc[t] = from /\ pc' = [pc EXCEPT ![t] = to]

\* Fault: a weight of zero passes the validation.
InitUnvalidated ==
    /\ mode \in {"sequential", "random", "weighted"}
    /\ weight \in [Variants -> Weights \cup {0}]
    /\ pc = [t \in Threads |-> "idle"]
    /\ holder = NoThread
    /\ next = 0
    /\ source = 0
    /\ took = [t \in Threads |-> 0]
    /\ seen = [t \in Threads |-> 0]
    /\ answered = [v \in Variants |-> 0]
    /\ panicked = 0

Init ==
    /\ mode \in {"sequential", "random", "weighted"}
    /\ weight \in [Variants -> Weights]
    /\ pc = [t \in Threads |-> "idle"]
    /\ holder = NoThread
    /\ next = 0
    /\ source = 0
    /\ took = [t \in Threads |-> 0]
    /\ seen = [t \in Threads |-> 0]
    /\ answered = [v \in Variants |-> 0]
    /\ panicked = 0

Begun == SumFunction(answered) + panicked
           + Cardinality({t \in Threads : pc[t] # "idle"})

\* A request goroutine enters Select.
Call(t) ==
    /\ Begun < MaxCalls
    /\ Move(t, "idle", "lock")
    /\ UNCHANGED <<conf, holder, next, seen, answered, panicked, generator>>

\* Fault: no mutex.
LockUnguarded(t) ==
    /\ Move(t, "lock", IF mode = "sequential" THEN "read" ELSE "draw")
    /\ holder' = t
    /\ UNCHANGED <<conf, next, seen, answered, panicked, generator>>

\* Fault: no mutex around the generator.
LockForCursor(t) ==
    /\ Move(t, "lock", IF mode = "sequential" THEN "read" ELSE "draw")
    /\ mode = "sequential" => holder = NoThread
    /\ holder' = t
    /\ UNCHANGED <<conf, next, seen, answered, panicked, generator>>

\* s.mu.Lock() succeeds.
Lock(t) ==
    /\ Move(t, "lock", IF mode = "sequential" THEN "read" ELSE "draw")
    /\ holder = NoThread
    /\ holder' = t
    /\ UNCHANGED <<conf, next, seen, answered, panicked, generator>>

\* response := s.variants[s.next]
Read(t) ==
    /\ Move(t, "read", "advance")
    /\ seen' = [seen EXCEPT ![t] = next]
    /\ UNCHANGED <<conf, holder, next, answered, panicked, generator>>

\* Fault: the cursor is not wrapped.
AdvanceUnwrapped(t) ==
    /\ Move(t, "advance", "unlock")
    /\ next' = next + 1
    /\ UNCHANGED <<conf, holder, seen, answered, panicked, generator>>

\* s.next = (s.next + 1) % len(s.variants)
Advance(t) ==
    /\ Move(t, "advance", "unlock")
    /\ next' = (next + 1) % N
    /\ UNCHANGED <<conf, holder, seen, answered, panicked, generator>>

\* s.nextInt(n) makes some number below n of the state of the generator, which
\* is turned into an index,
Draw(t) ==
    /\ Move(t, "draw", "store")
    /\ \E point \in 0 .. DrawBound - 1 :
          seen' = [seen EXCEPT ![t] = PickOf(point)]
    /\ took' = [took EXCEPT ![t] = source]
    /\ UNCHANGED <<conf, holder, next, source, answered, panicked>>

\* and stores the state that follows it.
Store(t) ==
    /\ Move(t, "store", "unlock")
    /\ source' = took[t] + 1
    /\ UNCHANGED <<conf, holder, next, took, seen, answered, panicked>>

\* Fault: Unlock is not deferred.
DrawPanicsHolding(t) ==
    /\ DrawBound <= 0
    /\ Move(t, "draw", "idle")
    /\ panicked' = panicked + 1
    /\ UNCHANGED <<conf, holder, next, seen, answered, generator>>

\* rand.Intn panics when its argument is not positive; the deferred Unlock
\* runs while the panic unwinds.
DrawPanics(t) ==
    /\ DrawBound <= 0
    /\ Move(t, "draw", "idle")
    /\ holder' = NoThread
    /\ panicked' = panicked + 1
    /\ UNCHANGED <<conf, next, seen, answered, generator>>

\* The deferred s.mu.Unlock(), and Select returns; its locals are gone.
Unlock(t) ==
    /\ Move(t, "unlock", "idle")
    /\ holder' = NoThread
    /\ answered' = [answered EXCEPT ![seen[t]] = @ + 1]
    /\ seen' = [seen EXCEPT ![t] = 0]
    /\ took' = [took EXCEPT ![t] = 0]
    /\ UNCHANGED <<conf, next, source, panicked>>

Step(t) == \/ Read(t) \/ Advance(t) \/ Draw(t) \/ Store(t) \/ DrawPanics(t)
           \/ Unlock(t)

Next == \E t \in Threads : Call(t) \/ Lock(t) \/ Step(t)

Spec == Init /\ [][Next]_vars

\* A running goroutine is scheduled again, and sync.Mutex hands the lock to
\* a waiter that has starved for 1ms, so an attempt succeeds in the end.
Fairness == \A t \in Threads : WF_vars(Step(t)) /\ SF_vars(Lock(t))

FairSpec == Spec /\ Fairness

(***************************************************************************)
(* Properties                                                              *)
(***************************************************************************)
Modes == {"sequential", "random", "weighted"}

\* Inside the lock: between s.mu.Lock() and the deferred s.mu.Unlock().
Inside == {"read", "advance", "draw", "store", "unlock"}

\* Every variable has its type.
TypeOK ==
    /\ mode \in Modes
    /\ weight \in [Variants -> Nat]
    /\ pc \in [Threads -> {"idle", "lock"} \cup Inside]
    /\ holder \in Threads \cup {NoThread}
    /\ next \in Variants
    /\ source \in Nat
    /\ took \in [Threads -> Nat]
    /\ seen \in [Threads -> Variants]
    /\ answered \in [Variants -> Nat]
    /\ panicked \in Nat

\* The goroutine inside Select is the holder of mu, and there is at most one:
\* the rand.Rand behind newSeededIntn is never used by two at a time.
Exclusive == \A t \in Threads : pc[t] \in Inside <=> holder = t

\* Sequential mode is fair to the variants after every prefix of calls, not
\* only after a whole round as TestSequentialSelectorIsSafeForConcurrentAccess
\* counts: no variant was returned twice more often than another, and the
\* earlier of two variants is never behind.
Balanced ==
    mode = "sequential" =>
        \A v, w \in Variants : v < w => answered[v] - answered[w] \in {0, 1}

\* The weights as configured, added without the width of an int.
TrueTotal == SumFunction(weight)

\* A weighted draw lands on each variant for exactly as many of the numbers
\* below total as the variant's weight, whenever the sum fits an int.
WeightedShare ==
    (mode = "weighted" /\ TrueTotal <= MaxInt) =>
        \A v \in Variants :
            Cardinality({p \in 0 .. DrawBound - 1 : PickOf(p) = v}) = weight[v]

\* The draw panics only when the weights overflow the int they are added in.
PanicOnlyOnOverflow ==
    panicked > 0 => mode = "weighted" /\ TrueTotal > MaxInt

\* A Select call always ends, even when an earlier one panicked in the lock.
EveryCallEnds == \A t \in Threads : pc[t] = "lock" ~> pc[t] = "idle"

\* The variant the next call to return will be answered with, in turn: a
\* cursor already advanced for a call that has not returned is one ahead.
Due == IF holder # NoThread /\ pc[holder] = "unlock" /\ mode = "sequential"
       THEN seen[holder] ELSE next

\* The numbers used up by the calls that have returned: likewise, the generator
\* is one ahead for a call that has drawn but not returned.
Used == IF holder # NoThread /\ pc[holder] = "unlock" /\ mode # "sequential"
        THEN took[holder] ELSE source

R == INSTANCE Rotation WITH turn <- Due, used <- Used

\* The callers see the abstract rotation: a call takes effect when it unlocks,
\* and takes the next turn or the next number of the generator, which no other
\* call takes.
RotationSpec == R!RSpec
=============================================================================
