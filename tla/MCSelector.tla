----------------------------- MODULE MCSelector -----------------------------
(* An instance of Selector: three goroutines, so that two can wait for one. *)
EXTENDS Selector

CONSTANTS t1, t2, t3

MCThreads == {t1, t2, t3}
MCWeights == {1, 2, 4}
=============================================================================
