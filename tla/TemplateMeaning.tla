--------------------------- MODULE TemplateMeaning ---------------------------
(***************************************************************************)
(* What a template means, as a function of its text: the value a reader    *)
(* gives it, with blocks for parentheses.  The renderer of Template has to *)
(* arrive at the same.                                                     *)
(***************************************************************************)
EXTENDS Template

CONSTANTS
    Values,  \* bound: what an expression can be, with the items of its lists
    Names    \* bound: the names that blocks give to items

Error == Value("error")

\* Values has what helpers and @last can be, and the items of each of its lists;
\* an error is none of them, and no text of a template.
ASSUME MeaningAssumption ==
    /\ {Value("true"), Value("false")} \subseteq Values
    /\ \A e \in DOMAIN Helpers : Helpers[e] \in Values
    /\ \A v \in Values : v.is = "list" => v.items \in Seq(Values)
    /\ Error \notin Values
    /\ \A t \in Templates : \A i \in DOMAIN t :
          /\ t[i].op = "#each" => t[i].as \in Names
          /\ t[i].op = "text" => Value(t[i].expr) # Error

Contexts == UNION {[N -> Values] : N \in SUBSET Names}

Bind(bound, name, item) ==
    [v \in DOMAIN bound \cup {name} |-> IF v = name THEN item ELSE bound[v]]

\* A reader is at lo, with the variables bound, in an item of the innermost
\* each that is the last one or not.
At(lo, bound, last) == [lo |-> lo, bound |-> bound, last |-> last]

Readings(t) == [lo : 1 .. Len(t) + 1, bound : Contexts, last : BOOLEAN]

\* What the text, the expression or the block at r.lo means; rest has the
\* meaning of what is behind it.
MeaningHere(rest, t, r) ==
    LET op == t[r.lo].op
        expr == t[r.lo].expr
        known == expr = "@last" \/ expr \in DOMAIN Helpers \/ expr \in DOMAIN r.bound
        items == toItems(ValueOf(expr, r.bound, r.last))
    IN  CASE op = "text" -> <<Value(expr)>>
          [] op = "#unless" -> IF expr = "@last" /\ r.last THEN <<>>
                               ELSE rest[At(r.lo + 1, r.bound, r.last)]
          [] op \in {"eval", "#each"} /\ ~known -> <<Error>>
          [] op = "eval" /\ known -> stringify(ValueOf(expr, r.bound, r.last))
          [] op = "#each" /\ known ->
                FlattenSeq([k \in DOMAIN items |->
                    rest[At(r.lo + 1, Bind(r.bound, t[r.lo].as, items[k]), k = Len(items))]])

Following(t, lo) == IF t[lo].op \in Opening THEN PartnerOf(t, lo) + 1 ELSE lo + 1

MeaningFrom(rest, t, r) ==
    IF r.lo > Len(t) \/ t[r.lo].op \in Closing THEN <<>>
    ELSE MeaningHere(rest, t, r) \o rest[At(Following(t, r.lo), r.bound, r.last)]

\* The meaning of t from r.lo to the end of the block that r.lo is in.
MeaningOf(t) ==
    LET Meaning[r \in Readings(t)] == MeaningFrom(Meaning, t, r) IN Meaning

\* A template whose blocks nest is rendered to what it means: an inner block
\* of the same kind ends before the outer one, a name is that of the innermost
\* each that binds it and again the outer one's behind that block, and @last
\* is about the innermost item.  An unknown name is an error if it is reached.
RendersMeaning ==
    verdict # "none" /\ WellNested(template) =>
        LET meaning == MeaningOf(template)[At(1, NoVars, FALSE)] IN
        IF Error \in ToSet(meaning) THEN verdict = "error"
        ELSE verdict = "done" /\ out = meaning
==============================================================================
