------------------------------ MODULE Matching ------------------------------
(***************************************************************************)
(* Select and Match of internal/domain/matcher/matcher.go: which of the    *)
(* loaded mappings answers a request.  Every mapping is tried in turn; its *)
(* checks run in a fixed order, stop at the first that fails, and add up a *)
(* score of specificity.  The mappings that match are sorted by priority,  *)
(* score and ID, and the first of them is selected.                        *)
(*                                                                         *)
(* Whether one check holds for the request is a fact about the two (see    *)
(* ValueMatch for the operators), so it is part of the input.              *)
(***************************************************************************)
EXTENDS Integers, FiniteSets, Sequences, FiniteSetsExt, SequencesExt

CONSTANTS
    Priorities,     \* bound: the priorities of mappings
    Ids,            \* bound: the IDs of mappings, a smaller one sorts first
    Requests,       \* bound: the matchers a mapping may have, as checks
    MaxItems        \* bound: loaded mappings

\* What a check is about, in the order match makes them.  A URL check is one
\* of five kinds; a template adds to its weight by its segments.
Kinds == {"method", "url", "urlPath", "urlPathTemplate", "urlPattern",
          "urlPathPattern", "header", "query", "cookie", "pathParameter",
          "basicAuth", "body"}

Checks == [kind : Kinds, segments : Nat, static : Nat, holds : BOOLEAN]

\* The five kinds of URL checks, the more exact the higher.
Exactness(kind) ==
    CASE kind = "url"             -> 4
      [] kind = "urlPath"         -> 3
      [] kind = "urlPathTemplate" -> 2
      [] kind \in {"urlPattern", "urlPathPattern"} -> 1
      [] OTHER                    -> 0

IsUrl(check) == Exactness(check.kind) > 0

\* Among its checks a mapping has one of its URL, as buildURL sees to, and the
\* static segments of a template are some of its segments.
ASSUME MatchingAssumption ==
    /\ Priorities \subseteq Int
    /\ Ids \subseteq Int
    /\ Requests \subseteq Seq(Checks)
    /\ \A q \in Requests :
          /\ \E k \in DOMAIN q : IsUrl(q[k]) /\ \A l \in DOMAIN q \ {k} : ~IsUrl(q[l])
          /\ \A k \in DOMAIN q : q[k].static <= q[k].segments
    /\ MaxItems \in Nat

VARIABLES
    items,          \* the loaded mappings, in the order of their files
    at,             \* the index of the mapping Match is at
    step,           \* the index of the check it is at
    score,          \* matchContext.score
    candidates,     \* the matches so far: [index, score] records
    unmatched,      \* the indices of the mappings that do not match
    best            \* the index of the selected mapping, 0 for none, -1 before

vars == <<items, at, step, score, candidates, unmatched, best>>

Mappings == [id : Ids, priority : Priorities, checks : Requests]

\* Fault: a segment counts as much as a static one.
WeightPerSegment(check) ==
    CASE check.kind = "url"             -> 1000
      [] check.kind = "urlPath"         -> 900
      [] check.kind = "urlPathTemplate" -> 700 + 3 * check.segments + 3 * check.static
      [] check.kind \in {"urlPattern", "urlPathPattern"} -> 600
      [] check.kind = "body"            -> 20
      [] OTHER                          -> 10

\* The points a check that holds adds to the score.
Weight(check) ==
    CASE check.kind = "url"             -> 1000
      [] check.kind = "urlPath"         -> 900
      [] check.kind = "urlPathTemplate" -> 700 + 2 * check.segments + 3 * check.static
      [] check.kind \in {"urlPattern", "urlPathPattern"} -> 600
      [] check.kind = "body"            -> 20
      [] OTHER                          -> 10

Init ==
    /\ items \in UNION {[1 .. n -> Mappings] : n \in 0 .. MaxItems}
    /\ at = 1
    /\ step = 1
    /\ score = 0
    /\ candidates = <<>>
    /\ unmatched = {}
    /\ best = -1

(***************************************************************************)
(* Match                                                                   *)
(***************************************************************************)
Checking == at <= Len(items) /\ step <= Len(items[at].checks)

Check == items[at].checks[step]

Holds ==
    /\ Checking /\ Check.holds
    /\ score' = score + Weight(Check)
    /\ step' = step + 1
    /\ UNCHANGED <<items, at, candidates, unmatched, best>>

\* Match starts the next mapping with a matchContext of its own.
NextItem == at' = at + 1 /\ step' = 1 /\ score' = 0

\* Fault: no return after a check that does not hold.
FailsGoingOn ==
    /\ Checking /\ ~Check.holds
    /\ step' = step + 1
    /\ UNCHANGED <<items, at, score, candidates, unmatched, best>>

Fails ==
    /\ Checking /\ ~Check.holds
    /\ unmatched' = unmatched \cup {at}
    /\ NextItem
    /\ UNCHANGED <<items, candidates, best>>

Matches ==
    /\ at <= Len(items) /\ step > Len(items[at].checks)
    /\ candidates' = Append(candidates, [index |-> at, score |-> score])
    /\ NextItem
    /\ UNCHANGED <<items, unmatched, best>>

(***************************************************************************)
(* Select                                                                  *)
(***************************************************************************)
\* Fault: the IDs are not compared.
lessWithoutId(c, d) ==
    LET m == items[c.index]  n == items[d.index] IN
    IF m.priority # n.priority THEN m.priority < n.priority
    ELSE c.score > d.score

\* candidate.less
less(c, d) ==
    LET m == items[c.index]  n == items[d.index] IN
    IF m.priority # n.priority THEN m.priority < n.priority
    ELSE IF c.score # d.score THEN c.score > d.score
    ELSE m.id < n.id

\* A stable sort by less puts first the earliest candidate that none precedes.
First ==
    LET least == {i \in DOMAIN candidates :
                    \A j \in DOMAIN candidates : ~less(candidates[j], candidates[i])}
    IN  candidates[Min(least)].index

Choose ==
    /\ at > Len(items) /\ best = -1
    /\ best' = IF candidates = <<>> THEN 0 ELSE First
    /\ UNCHANGED <<items, at, step, score, candidates, unmatched>>

Next == Holds \/ Fails \/ Matches \/ Choose

Spec == Init /\ [][Next]_vars

(***************************************************************************)
(* Properties                                                              *)
(***************************************************************************)
\* The mappings all of whose checks hold, and their specificity.
Matched == {i \in DOMAIN items :
               \A k \in DOMAIN items[i].checks : items[i].checks[k].holds}

Specificity(i) == SumFunction([k \in DOMAIN items[i].checks |-> Weight(items[i].checks[k])])

\* The candidates are the mappings all of whose checks hold, each with the
\* points of its own checks as its score; every other one is reported.
CandidatesExact ==
    /\ {<<c.index, c.score>> : c \in ToSet(candidates)}
          = {<<i, Specificity(i)>> : i \in {j \in Matched : j < at}}
    /\ unmatched = {i \in DOMAIN items \ Matched : i < at}

Chosen == best > 0

Kind(i) == [k \in DOMAIN items[i].checks |-> items[i].checks[k].kind]

\* Mapping i makes all the checks of mapping j, and more.
MakesMore(i, j) ==
    /\ Len(Kind(i)) > Len(Kind(j))
    /\ \E f \in [DOMAIN Kind(j) -> DOMAIN Kind(i)] :
          /\ \A k, l \in DOMAIN f : k < l => f[k] < f[l]
          /\ \A k \in DOMAIN f : items[i].checks[f[k]] = items[j].checks[k]

\* The check of the URL, those of the body, and the others.
UrlCheck(i) == items[i].checks[CHOOSE k \in DOMAIN items[i].checks : IsUrl(items[i].checks[k])]
OfBody(i) == {k \in DOMAIN items[i].checks : items[i].checks[k].kind = "body"}
Others(i) == {k \in DOMAIN items[i].checks :
                 items[i].checks[k].kind # "body" /\ ~IsUrl(items[i].checks[k])}

\* From as many segments on, all of them static, the points of a template
\* reach those of an exact path.
LongTemplate == 40

\* A URL check is more exact than another by its kind, or, of two templates of
\* one length, by its static segments (TestSelectPrefersMoreSpecificURLPathTemplate).
MoreExact(c, d) ==
    \/ /\ Exactness(c.kind) > Exactness(d.kind)
       /\ d.kind = "urlPathTemplate" => d.segments < LongTemplate
    \/ /\ c.kind = "urlPathTemplate" /\ d.kind = "urlPathTemplate"
       /\ c.segments = d.segments /\ c.static > d.static

\* Mapping i asks for a more exact URL than mapping j, and for no less else.
AsksMoreExactly(i, j) ==
    /\ MoreExact(UrlCheck(i), UrlCheck(j))
    /\ Cardinality(OfBody(i)) >= Cardinality(OfBody(j))
    /\ Cardinality(Others(i)) >= Cardinality(Others(j))

\* At the same priority no mapping wins over a more specific one that matches:
\* matchers added to a mapping never make it lose, and no number of segments
\* below LongTemplate makes up for a more exact kind of URL, although points
\* of all kinds are added up in one sum.
MoreSpecificWins ==
    Chosen => \A i \in Matched :
        items[i].priority = items[best].priority =>
            ~MakesMore(i, best) /\ ~AsksMoreExactly(i, best)

\* "Deterministic mapping selection by priority, specificity, and ID"
\* (README.md:12): as long as IDs differ, every other mapping that matches is
\* behind the selected one for a reason other than the order of the files.
Deterministic ==
    /\ best = 0 => Matched = {}
    /\ Chosen => best \in Matched /\ \A i \in Matched \ {best} :
        \/ items[best].priority < items[i].priority
        \/ /\ items[best].priority = items[i].priority
           /\ Specificity(best) > Specificity(i)
        \/ /\ items[best].priority = items[i].priority
           /\ Specificity(best) = Specificity(i)
           /\ items[best].id <= items[i].id
           /\ items[best].id = items[i].id => best < i
=============================================================================
