----------------------------- MODULE MCHandler -----------------------------
(* An instance of Handler with a mapping for each way a request can end.    *)
EXTENDS Handler, TLC

CONSTANTS r1, r2

MCRequests == {r1, r2}

MCMappings == {"round", "dice", "slow", "heavy", "bad"}

MCMode == [m \in MCMappings |->
    CASE m = "round" -> "sequential"
      [] m = "dice"  -> "random"
      [] m = "slow"  -> "single"
      [] m = "heavy" -> "overflow"
      [] m = "bad"   -> "broken"]

MCNames == {"default", "first", "second", "early", "late"}

MCSize == [m \in MCMappings |-> IF m \in {"round", "dice"} THEN 2 ELSE 1]

Variant(name, status, template, delay) ==
    [name |-> name, status |-> status, template |-> template, delay |-> delay]

MCResponse == [m \in MCMappings |->
    CASE m = "round" -> [v \in 0 .. 1 |-> IF v = 0 THEN Variant("first", 200, "fallible", "wait")
                                                   ELSE Variant("second", 503, "none", "none")]
      [] m = "dice"  -> [v \in 0 .. 1 |-> IF v = 0 THEN Variant("early", 103, "none", "none")
                                                   ELSE Variant("late", 200, "overflow", "wait")]
      [] OTHER       -> [v \in {0} |-> Variant("first", 201, "none", "overflow")]]
=============================================================================
