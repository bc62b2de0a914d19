-------------------------------- MODULE Delay --------------------------------
(***************************************************************************)
(* A delay from the mapping file to the timer: how configloader/builder.go *)
(* turns what is configured into a mapping.Delay, and what the Calculator  *)
(* of internal/domain/delay draws from it.  Both int and time.Duration are *)
(* integers of one width, and their arithmetic wraps around.               *)
(***************************************************************************)
EXTENDS Integers

CONSTANTS
    Half,           \* half the range of an int: 2^63
    Millisecond,    \* time.Millisecond in nanoseconds
    Numbers,        \* bound: configured numbers and parsed durations
    None            \* a number that is missing, a duration that does not parse

ASSUME DelayAssumption ==
    /\ Half \in Nat \ {0}
    /\ Millisecond \in Nat \ {0}
    /\ Numbers \subseteq -Half .. Half - 1
    /\ None \notin Int

VARIABLES
    setting,        \* what the file says: [kind, lower, upper]
    verdict,        \* "none" before the build, then "accepted" or "rejected"
    type,           \* mapping.Delay.Type
    min, max,       \* its bounds; a fixed delay has its value in both
    drawn,          \* the last duration drawn, None before
    panicked        \* Int63n was called with a bound that is not positive

dvars == <<setting, verdict, type, min, max, drawn, panicked>>

Ints == -Half .. Half - 1

Wrap(x) == ((x + Half) % (2 * Half)) - Half

\* time.Duration(value) * time.Millisecond
Milliseconds(value) == Wrap(value * Millisecond)

Raws == [kind : {"fixedDelayMilliseconds", "delayDistribution", "fixed", "random"},
         lower : Numbers \cup {None}, upper : Numbers \cup {None}]

\* A fixed delay has one number, which cannot be missing from a file that
\* sets fixedDelayMilliseconds.
DInit ==
    /\ setting \in {r \in Raws :
                      /\ r.kind \in {"fixedDelayMilliseconds", "fixed"} => r.upper = r.lower
                      /\ r.kind = "fixedDelayMilliseconds" => r.lower # None}
    /\ verdict = "none" /\ type = "none"
    /\ min = 0 /\ max = 0
    /\ drawn = None /\ panicked = FALSE

(***************************************************************************)
(* Building                                                                *)
(***************************************************************************)
Reject ==
    /\ verdict' = "rejected"
    /\ UNCHANGED <<setting, type, min, max, drawn, panicked>>

Accept(kind, low, high) ==
    /\ verdict' = "accepted" /\ type' = kind
    /\ min' = low /\ max' = high
    /\ UNCHANGED <<setting, drawn, panicked>>

\* Both numbers are there and not negative.
NonNegative == /\ setting.lower # None /\ setting.upper # None
               /\ setting.lower >= 0 /\ setting.upper >= 0

Unbuilt(kind) == verdict = "none" /\ setting.kind = kind

fixedDelayMilliseconds ==
    /\ Unbuilt("fixedDelayMilliseconds")
    /\ IF NonNegative
       THEN Accept("fixed", Milliseconds(setting.lower), Milliseconds(setting.lower))
       ELSE Reject

\* Fault: the bounds are not compared.
uniformUnordered ==
    /\ Unbuilt("delayDistribution")
    /\ IF NonNegative
       THEN Accept("random", Milliseconds(setting.lower), Milliseconds(setting.upper))
       ELSE Reject

uniformDelayDistribution ==
    /\ Unbuilt("delayDistribution")
    /\ IF NonNegative /\ Milliseconds(setting.lower) <= Milliseconds(setting.upper)
       THEN Accept("random", Milliseconds(setting.lower), Milliseconds(setting.upper))
       ELSE Reject

fixedDelay ==
    /\ Unbuilt("fixed")
    /\ IF NonNegative THEN Accept("fixed", setting.lower, setting.lower) ELSE Reject

randomDelay ==
    /\ Unbuilt("random")
    /\ IF NonNegative /\ setting.lower <= setting.upper
       THEN Accept("random", setting.lower, setting.upper)
       ELSE Reject

(***************************************************************************)
(* Calculator.Duration, once for every request                             *)
(***************************************************************************)
Drawing == verdict = "accepted" /\ ~panicked

Certain ==
    /\ Drawing /\ (type = "random" => min >= max)
    /\ drawn' = min
    /\ UNCHANGED <<setting, verdict, type, min, max, panicked>>

Span == Wrap(max - min)

\* Fault: the upper bound itself is drawn.
randomDurationClosed ==
    /\ Drawing /\ type = "random" /\ min < max /\ Span > 0
    /\ \E n \in 0 .. Span : drawn' = Wrap(min + n)
    /\ UNCHANGED <<setting, verdict, type, min, max, panicked>>

randomDuration ==
    /\ Drawing /\ type = "random" /\ min < max /\ Span > 0
    /\ \E n \in 0 .. Span - 1 : drawn' = Wrap(min + n)
    /\ UNCHANGED <<setting, verdict, type, min, max, panicked>>

\* Fault: the bound is one less, so it is zero where the bounds are neighbours.
PanicsOnNeighbours ==
    /\ Drawing /\ type = "random" /\ min < max /\ Wrap(max - min - 1) <= 0
    /\ panicked' = TRUE
    /\ UNCHANGED <<setting, verdict, type, min, max, drawn>>

Int63nPanics ==
    /\ Drawing /\ type = "random" /\ min < max /\ Span <= 0
    /\ panicked' = TRUE
    /\ UNCHANGED <<setting, verdict, type, min, max, drawn>>

DNext ==
    \/ fixedDelayMilliseconds \/ uniformDelayDistribution \/ fixedDelay \/ randomDelay
    \/ Certain \/ randomDuration \/ Int63nPanics

DSpec == DInit /\ [][DNext]_dvars

(***************************************************************************)
(* Properties                                                              *)
(***************************************************************************)
InMilliseconds == setting.kind \in {"fixedDelayMilliseconds", "delayDistribution"}

\* What was configured, in nanoseconds, without any limit on integers.
Exact(n) == IF InMilliseconds THEN n * Millisecond ELSE n

Configured == setting.lower # None /\ setting.upper # None

\* The multiplication does not overflow.
Fits == Configured => Exact(setting.lower) \in Ints /\ Exact(setting.upper) \in Ints

\* Every variable has its type: no result of the arithmetic is out of range.
DelayTypeOK ==
    /\ setting \in Raws
    /\ verdict \in {"none", "accepted", "rejected"}
    /\ type \in {"none", "fixed", "random"}
    /\ min \in Ints /\ max \in Ints
    /\ drawn \in Ints \cup {None}
    /\ panicked \in BOOLEAN

\* As long as the numbers fit, exactly those are accepted that are there, not
\* negative and in order.
AcceptedExactly ==
    Fits /\ verdict # "none" =>
        (verdict = "accepted") = (Configured /\ 0 <= setting.lower /\ setting.lower <= setting.upper)

\* As long as the numbers fit, a request waits for what was configured: at
\* least the lower bound, and less than the upper one unless they are equal.
DrawnAsConfigured ==
    Fits /\ drawn # None =>
        /\ Exact(setting.lower) <= drawn
        /\ drawn < Exact(setting.upper) \/ drawn = Exact(setting.lower)

\* A draw panics in a request only where a multiplication overflowed.
PanicOnlyOnOverflow == panicked => ~Fits

\* "must be non-negative" (builder.go:416, 419, 439): a delay that was
\* accepted is not negative.
AcceptedNonNegative == verdict = "accepted" => min >= 0 /\ max >= 0
==============================================================================
