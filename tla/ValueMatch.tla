----------------------------- MODULE ValueMatch -----------------------------
(***************************************************************************)
(* The multi-value operators hasExactly and includes of a header, query or *)
(* cookie matcher (matchExactlyValues and matchIncludedValues of           *)
(* internal/domain/matcher/matcher.go), as the loops they are: the nested  *)
(* matchers are taken in their order, and hasExactly gives each the first  *)
(* value that it accepts and that no earlier one was given.                *)
(*                                                                         *)
(* Whether a nested matcher (equalTo, contains, matches, ...) accepts one  *)
(* value is a fact about the two, so a matcher is the set it accepts.      *)
(***************************************************************************)
EXTENDS Integers, FiniteSets, Sequences, FiniteSetsExt

CONSTANTS
    Values,     \* the values a request may carry
    Limit       \* bound: nested matchers, and values of a request, in a case

ASSUME ValueMatchAssumption == IsFiniteSet(Values) /\ Limit \in Nat

VARIABLES
    operator,   \* "hasExactly" or "includes"
    matchers,   \* the nested matchers of the operator, in their order
    values,     \* the values of the request, in their order
    at,         \* the index of the nested matcher the loop is at
    used,       \* the indices of the values hasExactly has given away
    verdict     \* "none" while the loop runs, then "yes" or "no"

case == <<operator, matchers, values>>
vars == <<case, at, used, verdict>>

Cases(S) == UNION {[1 .. n -> S] : n \in 0 .. Limit}

\* The indices of the values that nested matcher i accepts.
Accepted(i) == {j \in DOMAIN values : values[j] \in matchers[i]}

Init ==
    /\ operator \in {"hasExactly", "includes"}
    /\ matchers \in Cases(SUBSET Values)
    /\ values \in Cases(Values)
    /\ at = 1
    /\ used = {}
    /\ verdict = "none"

Running == verdict = "none" /\ UNCHANGED case

\* len(values) != len(matchers)
LengthDiffers ==
    /\ Running /\ operator = "hasExactly" /\ at = 1
    /\ Len(values) # Len(matchers)
    /\ verdict' = "no"
    /\ UNCHANGED <<at, used>>

\* The values the loop of the operator may still give to nested matcher at.
Free == IF operator = "hasExactly" THEN Accepted(at) \ used ELSE Accepted(at)

InLoop ==
    /\ Running /\ at \in DOMAIN matchers
    /\ operator = "hasExactly" => Len(values) = Len(matchers)

\* Fault: a value that was given away is not marked.
TakeUnmarked ==
    /\ InLoop /\ Free # {}
    /\ at' = at + 1
    /\ UNCHANGED <<used, verdict>>

\* Fault: the value is marked by the position of its matcher.
TakeMisplaced ==
    /\ InLoop /\ Free # {}
    /\ used' = IF operator = "hasExactly" THEN used \cup {at} ELSE used
    /\ at' = at + 1
    /\ UNCHANGED verdict

\* exactValueMatchIndex, or anyValueMatches, finds a value.
Take ==
    /\ InLoop /\ Free # {}
    /\ used' = IF operator = "hasExactly" THEN used \cup {Min(Free)} ELSE used
    /\ at' = at + 1
    /\ UNCHANGED verdict

\* ... or it finds none.
NoneFree ==
    /\ InLoop /\ Free = {}
    /\ verdict' = "no"
    /\ UNCHANGED <<at, used>>

\* The loop is over.
AllTaken ==
    /\ Running /\ at > Len(matchers)
    /\ operator = "hasExactly" => Len(values) = Len(matchers)
    /\ verdict' = "yes"
    /\ UNCHANGED <<at, used>>

Next == LengthDiffers \/ Take \/ NoneFree \/ AllTaken

Spec == Init /\ [][Next]_vars

(***************************************************************************)
(* Properties                                                              *)
(***************************************************************************)
\* Every variable has its type.
TypeOK ==
    /\ operator \in {"hasExactly", "includes"}
    /\ matchers \in Seq(SUBSET Values)
    /\ values \in Seq(Values)
    /\ at \in 1 .. Len(matchers) + 1
    /\ used \subseteq DOMAIN values
    /\ verdict \in {"none", "yes", "no"}

\* The values can be dealt out, one accepted value to each nested matcher.
Dealt ==
    \E deal \in [DOMAIN matchers -> DOMAIN values] :
        /\ \A i, k \in DOMAIN matchers : i # k => deal[i] # deal[k]
        /\ \A i \in DOMAIN matchers : deal[i] \in Accepted(i)

SameNumber == Len(values) = Len(matchers)

\* hasExactly says yes only to a request whose values can be dealt out with
\* none left over, however the nested matchers overlap.
ExactlySound ==
    operator = "hasExactly" /\ verdict = "yes" => SameNumber /\ Dealt

\* It says no only when they cannot, as long as two nested matchers accept the
\* same values or none in common, as those of equalTo do.
NoOverlap ==
    \A i, k \in DOMAIN matchers :
        matchers[i] = matchers[k] \/ matchers[i] \cap matchers[k] = {}

ExactlyCompleteForEqualTo ==
    operator = "hasExactly" /\ verdict = "no" /\ NoOverlap =>
        ~(SameNumber /\ Dealt)

\* includes has the same answer for the values in any order, with any value
\* repeated: each nested matcher accepts one of them.
IncludesExact ==
    operator = "includes" /\ verdict # "none" =>
        (verdict = "yes" <=> \A i \in DOMAIN matchers :
                                 {values[j] : j \in DOMAIN values} \cap matchers[i] # {})

\* "hasExactly [is] supported for multi-value header, query, and cookie
\* matching" (README.md:322): a request that has exactly a value for each
\* nested matcher is matched.
ExactlyComplete ==
    operator = "hasExactly" /\ verdict = "no" => ~(SameNumber /\ Dealt)
=============================================================================
