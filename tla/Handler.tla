------------------------------ MODULE Handler ------------------------------
(***************************************************************************)
(* The main HTTP handler (internal/server/handler.go) with the stub        *)
(* service behind it (internal/domain/stub) and the Prometheus metrics     *)
(* around it (internal/observability).  Every request has a goroutine of   *)
(* its own.  A stub request is read, matched, rendered, delayed and        *)
(* answered, and whatever happened to it a deferred finishRequest accounts *)
(* for it in three separate metric updates.                                *)
(*                                                                         *)
(* Which mapping a request matches is a function of the request (Matcher), *)
(* so it is chosen when the request arrives.  Select is one step here:     *)
(* Selector shows that its callers see no more.                            *)
(***************************************************************************)
EXTENDS Metrics, Functions

CONSTANTS
    Requests,       \* the requests of a behaviour
    Mappings,       \* the loaded mappings, by their IDs, which differ
    NoMapping,      \* the outcome of a match that found nothing
    Mode,           \* Mode[m]: the selector of m, one of SelectorModes
    Names,          \* the variant names there are
    Size,           \* Size[m]: the number of response variants of m
    Response        \* Response[m][v]: the configured variant v of m

\* "overflow" is a weighted selector whose weights overflow, "broken" a
\* mapping whose selector could not be built.
SelectorModes == {"single", "sequential", "random", "overflow", "broken"}

Variants(m) == 0 .. Size[m] - 1

\* What a configured response can do: a template may fail on a request, or draw
\* a randomInt whose range overflows, and the delay is none, a wait, or a
\* random one whose range overflows.
Responses == [name : Names, status : 100 .. 599,
              template : {"none", "fallible", "overflow"},
              delay : {"none", "wait", "overflow"}]

ASSUME HandlerAssumption ==
    /\ IsFiniteSet(Requests)
    /\ NoMapping \notin Mappings
    /\ "unmatched" \notin Mappings
    /\ "default" \in Names
    /\ Mode \in [Mappings -> SelectorModes]
    /\ Size \in [Mappings -> Nat \ {0}]
    /\ \A m \in Mappings : \A v \in Variants(m) : Response[m][v] \in Responses

VARIABLES
    pc,         \* pc[r]: how far the goroutine of r is
    target,     \* target[r]: the mapping r matches, or NoMapping
    chosen,     \* chosen[r]: the variant selected for r, or -1
    state,      \* state[r]: the requestMetricState of r
    wire,       \* wire[r]: the final status sent to the client, 0 before
    gone,       \* the requests whose client has left
    next,       \* next[m]: the cursor of m's sequential selector
    inFlight,   \* gomock_inflight_requests
    total,      \* gomock_requests_total, a counter per label
    latency     \* the sample counts of gomock_request_duration_seconds

vars == <<pc, target, chosen, state, wire, gone, next, inFlight, total, latency>>

newRequestMetricState ==
    [stub |-> "unmatched", variant |-> "default", status |-> 500, matched |-> FALSE]

\* net/http sends an informational status ahead and then a 200 with the body.
Final(status) == IF status \in 100 .. 199 /\ status # 101 THEN 200 ELSE status

Chosen(r) == Response[target[r]][chosen[r]]

Init ==
    /\ pc = [r \in Requests |-> "idle"]
    /\ target = [r \in Requests |-> NoMapping]
    /\ chosen = [r \in Requests |-> -1]
    /\ state = [r \in Requests |-> newRequestMetricState]
    /\ wire = [r \in Requests |-> 0]
    /\ gone = {}
    /\ next = [m \in Mappings |-> 0]
    /\ inFlight = 0
    /\ total = NoVector
    /\ latency = NoVector

Move(r, from, to) == pc[r] = from /\ pc' = [pc EXCEPT ![r] = to]

Send(r, status) == wire' = [wire EXCEPT ![r] = status]

Mark(r, fields) == state' = [state EXCEPT ![r] = fields]

selection == <<target, chosen, next>>
metrics == <<inFlight, total, latency>>

(***************************************************************************)
(* Routing                                                                 *)
(***************************************************************************)
\* GET /healthz or /readyz is a 200 (the application is always ready), any
\* other method a 405.  No metric sees a probe.
ServeProbe(r) ==
    /\ Move(r, "idle", "probed")
    /\ \E status \in {200, 405} : Send(r, status)
    /\ UNCHANGED <<selection, state, gone, metrics>>

\* /metrics is answered by the Prometheus handler if the configuration mounts
\* it on the main server, and is a stub request if not.
ServeMetrics(r) ==
    /\ Move(r, "idle", "probed")
    /\ Send(r, 200)
    /\ UNCHANGED <<selection, state, gone, metrics>>

\* handleStub for every other path, and for /metrics without metricsHTTP: a
\* fresh metric state, and RequestStarted.
handleStub(r) ==
    /\ Move(r, "idle", "body")
    /\ \E m \in Mappings \cup {NoMapping} : target' = [target EXCEPT ![r] = m]
    /\ Mark(r, newRequestMetricState)
    /\ inFlight' = inFlight + 1
    /\ UNCHANGED <<chosen, wire, gone, next, total, latency>>

\* The client closes the connection or cancels.
ClientLeaves(r) ==
    /\ pc[r] \notin {"idle", "probed", "done"}
    /\ r \notin gone
    /\ gone' = gone \cup {r}
    /\ UNCHANGED <<pc, selection, state, wire, metrics>>

(***************************************************************************)
(* dispatchStub                                                            *)
(***************************************************************************)
ReadBody(r) ==
    /\ Move(r, "body", "match")
    /\ UNCHANGED <<selection, state, wire, gone, metrics>>

\* Fault: no return after the error was written.
ReadBodyFailsGoesOn(r) ==
    /\ Move(r, "body", "match")
    /\ Send(r, 500)
    /\ UNCHANGED <<selection, state, gone, metrics>>

\* io.ReadAll fails: a client that left, or a malformed body.
ReadBodyFails(r) ==
    /\ Move(r, "body", "count")
    /\ Send(r, 500)
    /\ UNCHANGED <<selection, state, gone, metrics>>

\* Match finds no mapping: markUnmatched and writeUnmatched.
Unmatched(r) ==
    /\ target[r] = NoMapping
    /\ Move(r, "match", "count")
    /\ Mark(r, [state[r] EXCEPT !.status = 404])
    /\ Send(r, 404)
    /\ UNCHANGED <<selection, gone, metrics>>

\* selectResponse returns an error: markError keeps the status at 500.
SelectFails(r) ==
    /\ target[r] # NoMapping /\ Mode[target[r]] = "broken"
    /\ Move(r, "match", "count")
    /\ Mark(r, [state[r] EXCEPT !.stub = target[r], !.matched = TRUE])
    /\ Send(r, 500)
    /\ UNCHANGED <<selection, gone, metrics>>

\* Fault: finishRequest is called, not deferred.
SelectPanicsUnfinished(r) ==
    /\ target[r] # NoMapping /\ Mode[target[r]] = "overflow"
    /\ Move(r, "match", "done")
    /\ UNCHANGED <<selection, state, wire, gone, metrics>>

\* Select panics inside Match: nothing was marked, the deferred
\* finishRequest runs, net/http recovers and drops the connection.
SelectPanics(r) ==
    /\ target[r] # NoMapping /\ Mode[target[r]] = "overflow"
    /\ Move(r, "match", "count")
    /\ UNCHANGED <<selection, state, wire, gone, metrics>>

\* The variants Select may return for mapping m.
Selectable(m) ==
    CASE Mode[m] = "sequential" -> {next[m]}
      [] Mode[m] = "random"     -> Variants(m)
      [] Mode[m] = "single"     -> {0}
      [] OTHER                  -> {}

\* responseSelector.variantName: a single response goes by "default", whatever
\* its configured name; the name of a variant without one is "default" here.
variantName(m, v) == IF Mode[m] = "single" THEN "default" ELSE Response[m][v].name

\* Fault: the cursor is not wrapped.
MatchedUnwrapped(r) ==
    LET m == target[r] IN
    /\ m # NoMapping
    /\ Move(r, "match", "render")
    /\ \E v \in Selectable(m) :
          /\ chosen' = [chosen EXCEPT ![r] = v]
          /\ Mark(r, [stub |-> m, variant |-> variantName(m, v),
                      status |-> Response[m][v].status, matched |-> TRUE])
    /\ next' = [next EXCEPT ![m] = IF Mode[m] = "sequential" THEN @ + 1 ELSE @]
    /\ UNCHANGED <<target, wire, gone, metrics>>

\* selectResponse returns a variant of the mapping: markMatched.
Matched(r) ==
    LET m == target[r] IN
    /\ m # NoMapping
    /\ Move(r, "match", "render")
    /\ \E v \in Selectable(m) :
          /\ chosen' = [chosen EXCEPT ![r] = v]
          /\ Mark(r, [stub |-> m, variant |-> variantName(m, v),
                      status |-> Response[m][v].status, matched |-> TRUE])
    /\ next' = [next EXCEPT ![m] = IF Mode[m] = "sequential" THEN (@ + 1) % Size[m] ELSE @]
    /\ UNCHANGED <<target, wire, gone, metrics>>

(***************************************************************************)
(* serveMatched                                                            *)
(***************************************************************************)
\* Fault: the status is not marked again.
RenderFailsUnmarked(r) ==
    /\ Move(r, "render", "count")
    /\ Chosen(r).template # "none"
    /\ Send(r, 500)
    /\ UNCHANGED <<selection, state, gone, metrics>>

\* Fault: markError starts from a fresh state.
RenderFailsForgets(r) ==
    /\ Move(r, "render", "count")
    /\ Chosen(r).template # "none"
    /\ Mark(r, newRequestMetricState)
    /\ Send(r, 500)
    /\ UNCHANGED <<selection, gone, metrics>>

\* The template fails on this request: a 500 after all.
RenderFails(r) ==
    /\ Move(r, "render", "count")
    /\ Chosen(r).template # "none"
    /\ Mark(r, [state[r] EXCEPT !.status = 500])
    /\ Send(r, 500)
    /\ UNCHANGED <<selection, gone, metrics>>

\* secureInt hands rand.Int a range that is not positive.
RenderPanics(r) ==
    /\ Move(r, "render", "count")
    /\ Chosen(r).template = "overflow"
    /\ UNCHANGED <<selection, state, wire, gone, metrics>>

\* Rendered, and there is no delay or not a positive one.
RenderNoDelay(r) ==
    /\ Move(r, "render", "write")
    /\ Chosen(r).delay = "none"
    /\ UNCHANGED <<selection, state, wire, gone, metrics>>

\* Rendered, and the goroutine waits in sleepTimer.
RenderDelay(r) ==
    /\ Move(r, "render", "sleep")
    /\ Chosen(r).delay = "wait"
    /\ UNCHANGED <<selection, state, wire, gone, metrics>>

\* Rendered, and Int63n panics on a range that overflowed.
DelayPanics(r) ==
    /\ Move(r, "render", "count")
    /\ Chosen(r).delay = "overflow"
    /\ UNCHANGED <<selection, state, wire, gone, metrics>>

\* Fault: sleepTimer's answers are swapped.
TimerFiresDrops(r) ==
    /\ Move(r, "sleep", "count")
    /\ UNCHANGED <<selection, state, wire, gone, metrics>>

\* Fault: only the end of the context ends the wait.
TimerIgnored(r) ==
    /\ r \in gone
    /\ Move(r, "sleep", "write")
    /\ UNCHANGED <<selection, state, wire, gone, metrics>>

\* sleepTimer: the timer fires.
TimerFires(r) ==
    /\ Move(r, "sleep", "write")
    /\ UNCHANGED <<selection, state, wire, gone, metrics>>

\* sleepTimer: the request context is done, and nothing is written.
DelayCancelled(r) ==
    /\ r \in gone
    /\ Move(r, "sleep", "count")
    /\ UNCHANGED <<selection, state, wire, gone, metrics>>

\* writeResponse; an error of Write is ignored.
WriteResponse(r) ==
    /\ Move(r, "write", "count")
    /\ Send(r, Final(Chosen(r).status))
    /\ UNCHANGED <<selection, state, gone, metrics>>

(***************************************************************************)
(* The deferred finishRequest: RequestFinished is three updates            *)
(***************************************************************************)
CountRequest(r) ==
    /\ Move(r, "count", "observe")
    /\ total' = Inc(total, state[r])
    /\ UNCHANGED <<selection, state, wire, gone, inFlight, latency>>

\* Fault: the gauge is decremented before the latency is observed.
ObserveLatencyLast(r) ==
    /\ Move(r, "observe", "done")
    /\ latency' = Inc(latency, state[r])
    /\ inFlight' = inFlight - 1
    /\ UNCHANGED <<selection, state, wire, gone, total>>

ObserveLatency(r) ==
    /\ Move(r, "observe", "leave")
    /\ latency' = Inc(latency, state[r])
    /\ UNCHANGED <<selection, state, wire, gone, inFlight, total>>

LeaveFlight(r) ==
    /\ Move(r, "leave", "done")
    /\ inFlight' = inFlight - 1
    /\ UNCHANGED <<selection, state, wire, gone, total, latency>>

Arrive(r) == ServeProbe(r) \/ ServeMetrics(r) \/ handleStub(r)

Dispatch(r) ==
    Unmatched(r) \/ SelectFails(r) \/ SelectPanics(r) \/ Matched(r)

Serve(r) ==
    \/ RenderFails(r) \/ RenderPanics(r) \/ RenderNoDelay(r) \/ RenderDelay(r)
    \/ DelayPanics(r) \/ TimerFires(r) \/ DelayCancelled(r) \/ WriteResponse(r)

Finish(r) == CountRequest(r) \/ ObserveLatency(r) \/ LeaveFlight(r)

Next == \E r \in Requests :
            \/ Arrive(r) \/ ClientLeaves(r) \/ ReadBody(r) \/ ReadBodyFails(r)
            \/ Dispatch(r) \/ Serve(r) \/ Finish(r)

Spec == Init /\ [][Next]_vars

\* Goroutines run and timers fire.  Nothing makes a client send the rest of
\* its body, but the read of a connection that was closed returns.
Fairness == \A r \in Requests :
                /\ WF_vars(Dispatch(r))
                /\ WF_vars(Serve(r))
                /\ WF_vars(Finish(r))
                /\ WF_vars(r \in gone /\ ReadBodyFails(r))

FairSpec == Spec /\ Fairness

(***************************************************************************)
(* Properties                                                              *)
(***************************************************************************)
Outside == {"idle", "probed"}
Accounting == {"count", "observe", "leave"}
Handling == {"body", "match", "render", "sleep", "write"} \cup Accounting

\* The requests the counter, and the histogram, must have seen.
Counted == {r \in Requests : pc[r] \in {"observe", "leave", "done"}}
Observed == {r \in Requests : pc[r] \in {"leave", "done"}}

Labels == [stub : Mappings \cup {"unmatched"}, variant : Names,
           status : 100 .. 599, matched : BOOLEAN]

\* Every variable has its type.
TypeOK ==
    /\ pc \in [Requests -> Outside \cup Handling \cup {"done"}]
    /\ target \in [Requests -> Mappings \cup {NoMapping}]
    /\ chosen \in [Requests -> Nat \cup {-1}]
    /\ state \in [Requests -> Labels]
    /\ wire \in [Requests -> Nat]
    /\ gone \subseteq Requests
    /\ next \in [Mappings -> Nat] /\ \A m \in Mappings : next[m] \in Variants(m)
    /\ inFlight \in Int
    /\ DOMAIN total \subseteq Labels /\ Range(total) \subseteq Nat
    /\ DOMAIN latency \subseteq Labels /\ Range(latency) \subseteq Nat

\* The in-flight gauge is the number of stub requests that a goroutine is
\* handling right now, whatever mixture of errors, panics, cancelled delays
\* and probes there was: it neither leaks nor goes negative.
InFlightExact ==
    inFlight = Cardinality({r \in Requests : pc[r] \in Handling})

\* Every handled stub request is counted exactly once, and observed exactly
\* once, under the label it finished with; probes never are.
CountedOnce == Ledger(total, Counted, state) /\ Ledger(latency, Observed, state)

\* What the metrics say was answered is what the client was sent: also when
\* the status was decided twice (a template that fails after the match).  An
\* informational status is the exception, the client then gets a 200.
TruthfulStatus ==
    \A r \in Requests : pc[r] \in Accounting \cup {"done"} /\ wire[r] # 0 =>
        wire[r] = Final(state[r].status)

\* A client that stays connected is answered, unless a draw (of the variant,
\* in the template, of the delay) panicked on an overflow.
NoSilentDrop ==
    \A r \in Requests : pc[r] = "done" /\ wire[r] = 0 =>
        \/ r \in gone
        \/ target[r] # NoMapping /\ Mode[target[r]] = "overflow"
        \/ chosen[r] >= 0 /\ "overflow" \in {Chosen(r).template, Chosen(r).delay}

\* The count of a variant in gomock_requests_total, over every status.
VariantCount(m, v) ==
    SumFunctionOnSet(total, {l \in DOMAIN total :
        l.stub = m /\ l.variant = variantName(m, v)})

\* The variants of m can be told apart by their names, which the loader does
\* not see to.
Distinct(m) == \A v, w \in Variants(m) : variantName(m, v) = variantName(m, w) => v = w

\* When nothing is in flight the counters show a sequential mapping going
\* round its variants, though turns were also taken by requests that failed
\* to render, or were cancelled while they waited.
RotationInMetrics ==
    inFlight = 0 =>
        \A m \in {n \in Mappings : Mode[n] = "sequential" /\ Distinct(n)} :
            \A v, w \in Variants(m) : v < w =>
                VariantCount(m, v) - VariantCount(m, w) \in {0, 1}

\* A response is sent once, and never once the request is being accounted
\* for: no path through the handler writes a second header.
SentOnce ==
    [][\A r \in Requests : wire'[r] # wire[r] =>
          wire[r] = 0 /\ pc[r] \notin Accounting \cup {"done"}]_vars

\* A request whose body was read, or whose client gave up sending it, is
\* handled and accounted for.
EveryRequestFinishes ==
    \A r \in Requests :
        pc[r] = "match" \/ (pc[r] = "body" /\ r \in gone) ~> pc[r] = "done"

\* How far a request at step p is as far as the metrics are concerned.
PhaseOf(p) ==
    CASE p \in Outside   -> "out"
      [] p = "observe"   -> "counted"
      [] p = "leave"     -> "observed"
      [] p = "done"      -> "released"
      [] OTHER           -> "open"

Phases == [r \in Requests |-> PhaseOf(pc[r])]

L == INSTANCE RequestLedger WITH phase <- Phases, label <- state

\* The handler implements the ledger: on every path, the panicking ones too,
\* the label is final when the request is counted, and the three updates of
\* RequestFinished happen once and in order.
LedgerSpec == L!LSpec
=============================================================================
