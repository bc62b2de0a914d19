------------------------------- MODULE MCDelay -------------------------------
(* Ints of eight bits and ten nanoseconds to the millisecond: 12 of them fit, *)
(* 13 to 25 wrap around to a negative duration, 26 to a positive one.         *)
EXTENDS Delay

MCNumbers == {-128, -1, 0, 1, 2, 12, 13, 19, 20, 26, 126, 127}
==============================================================================
