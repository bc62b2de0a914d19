----------------------------- MODULE MCTraffic -----------------------------
(* Bodies of every kind next to a limit of four bytes: short, of wide runes, *)
(* cut, with a sensitive name that is kept and one that is cut off.          *)
EXTENDS Traffic, MCHandler

Text(runes, nameEnds) == [runes |-> runes, nameEnds |-> nameEnds]

MCRequestBody ==
    [r \in MCRequests |-> IF r = r1 THEN Text(<<2, 2, 2>>, 0) ELSE Text(<<1, 1, 1, 1, 1>>, 5)]

MCServedBody == [m \in MCMappings |->
    CASE m = "round" -> Text(<<1, 1>>, 0)
      [] m = "dice"  -> Text(<<3, 3>>, 6)
      [] OTHER       -> Text(<<>>, 0)]

MCErrorBody == Text(<<1, 1, 1, 1, 1, 1>>, 3)
MCVerbosities == {"off", "full"}
=============================================================================
