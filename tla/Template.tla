------------------------------ MODULE Template ------------------------------
(***************************************************************************)
(* The renderer of response templates (internal/responsetemplate), as the  *)
(* machine its recursion is: a frame for each renderString under way, with *)
(* the part of the template it renders and the context it renders it in.   *)
(* A block ends where findBlock counts as many closing actions of its name *)
(* as opening ones; nothing checks that blocks of the two kinds nest.      *)
(*                                                                         *)
(* A template is the sequence of the texts and actions that nextAction     *)
(* takes off it.  What a helper (jsonPath, randomInt, ...) computes is a   *)
(* value of its expression.                                                *)
(***************************************************************************)
EXTENDS Integers, Sequences, FiniteSets, FiniteSetsExt, SequencesExt

CONSTANTS
    Templates,  \* bound: the templates to render
    Helpers     \* Helpers[e]: the value of the expression e in this request

\* A value is a list with its items, nil, or something else without items.
Value(is) == [is |-> is, items |-> <<>>]
List(items) == [is |-> "list", items |-> items]

Opening == {"#each", "#unless"}
Closer == [op \in Opening |-> IF op = "#each" THEN "/each" ELSE "/unless"]
Closing == {Closer[op] : op \in Opening}

ASSUME TemplateAssumption ==
    /\ \A t \in Templates :
          /\ Len(t) \in Nat /\ DOMAIN t = 1 .. Len(t)
          /\ \A i \in DOMAIN t :
                /\ DOMAIN t[i] = {"op", "expr", "as"}
                /\ t[i].op \in {"text", "eval", "/other"} \cup Opening \cup Closing
    /\ "@last" \notin DOMAIN Helpers

VARIABLES
    template,   \* the actions and texts of the template
    frames,     \* the calls of renderString, the innermost last
    out,        \* what was written so far
    reached,    \* the indices of template that were looked at, or closed a block
    verdict     \* "none", then "done" or "error"

vars == <<template, frames, out, reached, verdict>>

\* from .. to is the part of the template, at the place in it; vars and last
\* are the context.  In the body of an each, items are those left to render,
\* as the name of an item and outer the variables outside.
Frame(from, to, bound, last, items, as, outer) ==
    [from |-> from, to |-> to, at |-> from, vars |-> bound, last |-> last,
     items |-> items, as |-> as, outer |-> outer]

NoVars == [v \in {} |-> Value("nil")]

Init ==
    /\ template \in Templates
    /\ frames = <<Frame(1, Len(template), NoVars, FALSE, <<>>, "this", NoVars)>>
    /\ out = <<>>
    /\ reached = {}
    /\ verdict = "none"

Top == Last(frames)
Below == Front(frames)
Here == template[Top.at]
InText == verdict = "none" /\ Top.at <= Top.to

GoTo(n) == [Top EXCEPT !.at = n]

(***************************************************************************)
(* Expressions                                                             *)
(***************************************************************************)
Known(e) == e = "@last" \/ e \in DOMAIN Helpers \/ e \in DOMAIN Top.vars

ValueOf(e, bound, last) ==
    IF e = "@last" THEN Value(IF last THEN "true" ELSE "false")
    ELSE IF e \in DOMAIN Helpers THEN Helpers[e] ELSE bound[e]

\* toItems
toItems(value) ==
    CASE value.is = "list" -> value.items
      [] value.is = "nil"  -> <<>>
      [] OTHER             -> <<value>>

\* stringify: nil is the empty string.
stringify(value) == IF value.is = "nil" THEN <<>> ELSE <<value>>

\* withItem: the body of an each once more, for the next item.
withItem(frame) ==
    [frame EXCEPT !.vars = [v \in DOMAIN frame.outer \cup {frame.as} |->
                               IF v = frame.as THEN Head(frame.items) ELSE frame.outer[v]],
                  !.last = Len(frame.items) = 1,
                  !.items = Tail(@), !.at = frame.from]

(***************************************************************************)
(* renderString and renderAction                                           *)
(***************************************************************************)
Text ==
    /\ InText /\ Here.op = "text"
    /\ out' = Append(out, Value(Here.expr))
    /\ frames' = Append(Below, GoTo(Top.at + 1))
    /\ reached' = reached \cup {Top.at}
    /\ UNCHANGED <<template, verdict>>

Inline ==
    /\ InText /\ Here.op = "eval" /\ Known(Here.expr)
    /\ out' = out \o stringify(ValueOf(Here.expr, Top.vars, Top.last))
    /\ frames' = Append(Below, GoTo(Top.at + 1))
    /\ reached' = reached \cup {Top.at}
    /\ UNCHANGED <<template, verdict>>

\* Fault: the first closing action of the name ends the block.
DepthFlat(p) ==
    IF template[p].op = Closer[Here.op] THEN 0 ELSE 1

\* blockDepth after the action at p, for the block that opens here.
Depth(p) ==
    LET inside == Top.at + 1 .. p IN
    1 + Cardinality({i \in inside : template[i].op = Here.op})
      - Cardinality({i \in inside : template[i].op = Closer[Here.op]})

\* Fault: the end is looked for in all of the template.
EndsAnywhere == {p \in Top.at + 1 .. Len(template) : Depth(p) = 0}

\* findBlock looks for the end in the part that is being rendered.
Ends == {p \in Top.at + 1 .. Top.to : Depth(p) = 0}

\* The block here ends at p.  Its body is rendered in the frame Body(p), and
\* the rest of the part behind it.
AtBlock(op) == InText /\ Here.op = op /\ Ends # {}

Behind(p) == reached' = reached \cup {Top.at, p} /\ UNCHANGED <<template, out, verdict>>

\* renderEach, with something to render ...
Each ==
    /\ AtBlock("#each") /\ Known(Here.expr)
    /\ LET p == Min(Ends)
           items == toItems(ValueOf(Here.expr, Top.vars, Top.last))
           body == Frame(Top.at + 1, p - 1, Top.vars, Top.last, items, Here.as, Top.vars)
       IN  /\ frames' = Append(Below, GoTo(p + 1))
                          \o IF items = <<>> THEN <<>> ELSE <<withItem(body)>>
           /\ Behind(p)

\* unlessCondition knows @last only.
unlessCondition == Here.expr = "@last" /\ Top.last

\* renderUnless: the body in the same context, or nothing.
Unless ==
    /\ AtBlock("#unless")
    /\ LET p == Min(Ends)
           body == Frame(Top.at + 1, p - 1, Top.vars, Top.last, <<>>, "this", Top.vars)
       IN  /\ frames' = Append(Below, GoTo(p + 1))
                          \o IF unlessCondition THEN <<>> ELSE <<body>>
           /\ Behind(p)

\* Fault: a closing action without its block is passed over.
FailsNotOnClosing ==
    /\ InText /\ Here.op \in Closing
    /\ frames' = Append(Below, GoTo(Top.at + 1))
    /\ reached' = reached \cup {Top.at}
    /\ UNCHANGED <<template, out, verdict>>

\* An unknown name, a block without its end, or a closing action that is met
\* while rendering: nothing of the response is kept.
Fails ==
    /\ InText
    /\ \/ Here.op \in {"eval", "#each"} /\ ~Known(Here.expr)
       \/ Here.op \in Opening /\ Ends = {}
       \/ Here.op \in Closing \cup {"/other"}
    /\ verdict' = "error"
    /\ reached' = reached \cup {Top.at}
    /\ UNCHANGED <<template, frames, out>>

\* The loop of renderItems.
NextItem ==
    /\ verdict = "none" /\ Top.at > Top.to /\ Top.items # <<>>
    /\ frames' = Append(Below, withItem(Top))
    /\ UNCHANGED <<template, out, reached, verdict>>

\* renderString returns.
BlockEnds ==
    /\ verdict = "none" /\ Top.at > Top.to /\ Top.items = <<>>
    /\ IF Len(frames) = 1 THEN verdict' = "done" /\ UNCHANGED frames
                          ELSE frames' = Below /\ UNCHANGED verdict
    /\ UNCHANGED <<template, out, reached>>

Next == Text \/ Inline \/ Each \/ Unless \/ Fails \/ NextItem \/ BlockEnds

Spec == Init /\ [][Next]_vars

(***************************************************************************)
(* What it is to be well nested: blocks nest like parentheses              *)
(***************************************************************************)
\* The difference of opening and closing actions in t[i] .. t[j].
Balance(t, i, j) ==
    Cardinality({k \in i .. j : t[k].op \in Opening})
      - Cardinality({k \in i .. j : t[k].op \in Closing})

PartnerOf(t, i) == Min({j \in i .. Len(t) : Balance(t, i, j) = 0})

WellNested(t) ==
    /\ Balance(t, 1, Len(t)) = 0
    /\ \A j \in DOMAIN t : Balance(t, 1, j) >= 0 /\ t[j].op # "/other"
    /\ \A i \in DOMAIN t : t[i].op \in Opening => t[PartnerOf(t, i)].op = Closer[t[i].op]

(***************************************************************************)
(* Properties                                                              *)
(***************************************************************************)
\* A frame renders a part of the frame below it, which goes on behind the end
\* of the block; and the variables of the frame below are in scope.
TypeOK ==
    /\ template \in Templates
    /\ verdict \in {"none", "done", "error"}
    /\ reached \subseteq DOMAIN template
    /\ frames # <<>>
    /\ \A k \in DOMAIN frames :
          frames[k].at \in frames[k].from .. frames[k].to + 1
    /\ \A k \in DOMAIN Below :
          /\ frames[k].from < frames[k + 1].from
          /\ frames[k].at = frames[k + 1].to + 2
          /\ DOMAIN frames[k].vars \subseteq DOMAIN frames[k + 1].vars

\* A template that was rendered is well nested in all that was looked at: an
\* end that is missing, crossed or left over is only accepted where the body
\* it is in was never rendered.
Looked == [i \in 1 .. Cardinality(reached) |->
              template[CHOOSE p \in reached : Cardinality({q \in reached : q <= p}) = i]]

MisnestedRefused == verdict = "done" => WellNested(Looked)
=============================================================================
