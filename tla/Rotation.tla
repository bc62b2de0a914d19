------------------------------ MODULE Rotation ------------------------------
(***************************************************************************)
(* What a response selector promises its callers, with no lock and no      *)
(* threads: every call is answered at once with one variant.  In           *)
(* sequential mode the variants are handed out in turn, in the order of    *)
(* the file, starting again after the last one; in the other modes the     *)
(* answer is drawn, so it may be any variant, but each draw uses up one    *)
(* number of the generator, which no other draw is made of.                *)
(* Selector.tla is shown to implement this module.                         *)
(***************************************************************************)
EXTENDS Naturals

CONSTANT N      \* number of variants; they are numbered 0 .. N - 1

VARIABLES
    mode,       \* "sequential", "random" or "weighted"
    turn,       \* the variant whose turn it is in sequential mode
    used,       \* how many numbers of the generator were used up
    answered    \* answered[v]: how many calls were answered with v

rvars == <<mode, turn, used, answered>>

Variants == 0 .. N - 1

RInit ==
    /\ mode \in {"sequential", "random", "weighted"}
    /\ turn = 0
    /\ used = 0
    /\ answered = [v \in Variants |-> 0]

\* A call in sequential mode gets the variant whose turn it is.
InTurn ==
    /\ mode = "sequential"
    /\ answered' = [answered EXCEPT ![turn] = @ + 1]
    /\ turn' = (turn + 1) % N
    /\ UNCHANGED <<mode, used>>

\* A call in a drawing mode gets some variant, for the next number.
Drawn ==
    /\ mode # "sequential"
    /\ \E v \in Variants : answered' = [answered EXCEPT ![v] = @ + 1]
    /\ used' = used + 1
    /\ UNCHANGED <<mode, turn>>

RNext == InTurn \/ Drawn

RSpec == RInit /\ [][RNext]_rvars
=============================================================================
