------------------------------ MODULE Metrics ------------------------------
(***************************************************************************)
(* The Prometheus vectors that internal/observability/metrics.go registers *)
(* (gomock_requests_total and the sample count of                          *)
(* gomock_request_duration_seconds): a count per label combination.  A     *)
(* child is created by WithLabelValues at the first use of its labels.     *)
(***************************************************************************)
EXTENDS Integers, FiniteSets

NoVector == [l \in {} |-> 0]

Count(vec, label) == IF label \in DOMAIN vec THEN vec[label] ELSE 0

\* vec.WithLabelValues(label).Inc(), or one Observe.
Inc(vec, label) ==
    [l \in DOMAIN vec \cup {label} |->
        Count(vec, l) + (IF l = label THEN 1 ELSE 0)]

\* Vector vec holds exactly one count for each member of done, under the
\* label that member has.
Ledger(vec, done, labelOf) ==
    /\ DOMAIN vec = {labelOf[r] : r \in done}
    /\ \A l \in DOMAIN vec :
          vec[l] = Cardinality({r \in done : labelOf[r] = l})
=============================================================================
