--------------------------- MODULE RequestLedger ---------------------------
(***************************************************************************)
(* What the request metrics promise, without a word about how a request is *)
(* served: a request enters, its label may be decided and revised while it *)
(* is open, and then it is counted, observed and released, in this order   *)
(* and once each.  Handler is shown to implement this module.              *)
(***************************************************************************)
EXTENDS Metrics

CONSTANTS Requests, Labels

VARIABLES
    phase,      \* phase[r]: "out", "open", "counted", "observed", "released"
    label,      \* label[r]: the labels r has so far
    inFlight, total, latency

lvars == <<phase, label, inFlight, total, latency>>

Turn(r, from, to) == phase[r] = from /\ phase' = [phase EXCEPT ![r] = to]

\* Only r gets other labels.
Relabel(r) ==
    /\ label' = [label EXCEPT ![r] = label'[r]]
    /\ label'[r] \in Labels

LInit ==
    /\ phase = [r \in Requests |-> "out"]
    /\ label \in [Requests -> Labels]
    /\ inFlight = 0
    /\ total = NoVector
    /\ latency = NoVector

Enter(r) ==
    /\ Turn(r, "out", "open")
    /\ Relabel(r)
    /\ inFlight' = inFlight + 1
    /\ UNCHANGED <<total, latency>>

Decide(r) ==
    /\ phase[r] = "open"
    /\ Relabel(r)
    /\ UNCHANGED <<phase, inFlight, total, latency>>

CountOne(r) ==
    /\ Turn(r, "open", "counted")
    /\ total' = Inc(total, label[r])
    /\ UNCHANGED <<label, inFlight, latency>>

ObserveOne(r) ==
    /\ Turn(r, "counted", "observed")
    /\ latency' = Inc(latency, label[r])
    /\ UNCHANGED <<label, inFlight, total>>

Release(r) ==
    /\ Turn(r, "observed", "released")
    /\ inFlight' = inFlight - 1
    /\ UNCHANGED <<label, total, latency>>

LNext == \E r \in Requests :
    Enter(r) \/ Decide(r) \/ CountOne(r) \/ ObserveOne(r) \/ Release(r)

LSpec == LInit /\ [][LNext]_lvars

(***************************************************************************)
(* Properties                                                              *)
(***************************************************************************)
Open == {r \in Requests : phase[r] \in {"open", "counted", "observed"}}
CountedSet == {r \in Requests : phase[r] \in {"counted", "observed", "released"}}
ObservedSet == {r \in Requests : phase[r] \in {"observed", "released"}}

\* The gauge is the number of requests under way, and each of the two
\* vectors holds every request that reached it once, under its final label.
LedgerExact ==
    /\ inFlight = Cardinality(Open)
    /\ Ledger(total, CountedSet, label)
    /\ Ledger(latency, ObservedSet, label)
=============================================================================
