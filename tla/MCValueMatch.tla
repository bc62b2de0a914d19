---------------------------- MODULE MCValueMatch ----------------------------
(* Three values, so that two nested matchers can overlap in one of them.    *)
EXTENDS ValueMatch, TLC

CONSTANTS a, b, c

Symmetry == Permutations(Values)
=============================================================================
