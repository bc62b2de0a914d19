----------------------------- MODULE Lifecycle -----------------------------
(***************************************************************************)
(* The life of the process: main.run, Application.Run, runServers with     *)
(* waitForServers, and for every server HTTPServer.Run with its listen     *)
(* goroutine.  The goroutines talk over two kinds of channel: each server  *)
(* has an errorsChan of capacity one between listen and Run, and the group *)
(* has one of capacity len(servers) between the Runs and waitForServers.   *)
(*                                                                         *)
(* net/http is external.  Of it the model keeps what this code relies on:  *)
(* a server that is shutting down refuses to listen, Shutdown closes the   *)
(* listener, waits for Serve to leave its accept loop, and then polls      *)
(* until no connection is busy or its context is done.                     *)
(***************************************************************************)
EXTENDS Integers, FiniteSets, Sequences

CONSTANTS
    Servers,    \* the main server, and the metrics server if it is separate
    MaxBusy     \* bound: the connections of a server that are busy at once

ASSUME LifecycleAssumption ==
    /\ IsFiniteSet(Servers)
    /\ MaxBusy \in Nat

VARIABLES
    phase,      \* how far main.run is
    code,       \* the exit code, -1 before
    signalled,  \* the context of signal.NotifyContext is done
    cancelled,  \* waitForServers has called cancel()
    listen,     \* listen[s]: where the listen goroutine of s is
    errs,       \* errs[s]: what the errorsChan of s holds
    run,        \* run[s]: where HTTPServer.Run of s is
    result,     \* result[s]: what HTTPServer.Run of s returns
    shut,       \* the servers on which Shutdown was called
    busy,       \* busy[s]: connections of s that are not idle
    queue,      \* the servers whose result is in the group's errorsChan
    collected,  \* results waitForServers has received
    firstErr    \* whether firstErr is set

vars == <<phase, code, signalled, cancelled, listen, errs, run, result, shut,
          busy, queue, collected, firstErr>>

process == <<phase, code, signalled>>
group == <<cancelled, queue, collected, firstErr>>
server == <<listen, errs, run, result, shut, busy>>

\* groupCtx.Done() is closed.
Done == signalled \/ cancelled

Init ==
    /\ phase = "flags"
    /\ code = -1
    /\ signalled = FALSE
    /\ cancelled = FALSE
    /\ listen = [s \in Servers |-> "off"]
    /\ errs = [s \in Servers |-> "empty"]
    /\ run = [s \in Servers |-> "off"]
    /\ result = [s \in Servers |-> "none"]
    /\ shut = {}
    /\ busy = [s \in Servers |-> 0]
    /\ queue = <<>>
    /\ collected = 0
    /\ firstErr = FALSE

(***************************************************************************)
(* main.run and Application.Run                                            *)
(***************************************************************************)
\* SIGINT or SIGTERM; NotifyContext swallows any later one.
Signal ==
    /\ phase # "exited" /\ ~signalled
    /\ signalled' = TRUE
    /\ UNCHANGED <<phase, code, group, server>>

Exit(status) == phase' = "exited" /\ code' = status

\* -version, or flags or a configuration that are not valid.
FlagsEnd ==
    /\ phase = "flags"
    /\ \E status \in {0, 2} : Exit(status)
    /\ UNCHANGED <<signalled, group, server>>

FlagsParsed ==
    /\ phase = "flags" /\ phase' = "load"
    /\ UNCHANGED <<code, signalled, group, server>>

\* LoadRoot or newMetrics returns an error.
LoadFails ==
    /\ phase = "load"
    /\ Exit(1)
    /\ UNCHANGED <<signalled, group, server>>

\* runServers starts a goroutine per server, and each Run one for listen.
StartServers ==
    /\ phase = "load" /\ phase' = "serve"
    /\ listen' = [s \in Servers |-> "starting"]
    /\ run' = [s \in Servers |-> "select"]
    /\ UNCHANGED <<code, signalled, group, errs, result, shut, busy>>

\* Fault: the last result overwrites the first error.
CollectLast ==
    /\ phase = "serve" /\ queue # <<>>
    /\ queue' = Tail(queue)
    /\ collected' = collected + 1
    /\ firstErr' = (result[Head(queue)] # "nil")
    /\ cancelled' = (cancelled \/ firstErr')
    /\ UNCHANGED <<process, server>>

\* Fault: the first error does not cancel the group.
CollectOnly ==
    /\ phase = "serve" /\ queue # <<>>
    /\ queue' = Tail(queue)
    /\ collected' = collected + 1
    /\ firstErr' = (firstErr \/ result[Head(queue)] # "nil")
    /\ UNCHANGED <<process, server, cancelled>>

\* waitForServers receives one result: the first error cancels the group.
Collect ==
    /\ phase = "serve" /\ queue # <<>>
    /\ queue' = Tail(queue)
    /\ collected' = collected + 1
    /\ firstErr' = (firstErr \/ result[Head(queue)] # "nil")
    /\ cancelled' = firstErr'
    /\ UNCHANGED <<process, server>>

\* waitForServers has received all the results and main.run returns.
AllCollected ==
    /\ phase = "serve" /\ collected = Cardinality(Servers)
    /\ Exit(IF firstErr THEN 1 ELSE 0)
    /\ UNCHANGED <<signalled, group, server>>

Main == FlagsEnd \/ FlagsParsed \/ LoadFails \/ StartServers \/ Collect \/ AllCollected

(***************************************************************************)
(* The listen goroutine of a server                                        *)
(***************************************************************************)
ListenStep(s, from, to) == listen[s] = from /\ listen' = [listen EXCEPT ![s] = to]

\* ListenAndServe returns, and listen sends the error, or nil in place of
\* http.ErrServerClosed, on errorsChan.
ListenEnds(s, from, err) ==
    /\ ListenStep(s, from, IF err = "nil" THEN "closed" ELSE "failed")
    /\ errs[s] = "empty"
    /\ errs' = [errs EXCEPT ![s] = err]
    /\ UNCHANGED <<process, group, run, result, shut, busy>>

ListenGoesOn(s, from, to) ==
    /\ ListenStep(s, from, to)
    /\ UNCHANGED <<process, group, errs, run, result, shut, busy>>

\* ListenAndServe first looks whether the server is shutting down.
ListenAllowed(s) == s \notin shut /\ ListenGoesOn(s, "starting", "binding")
ListenRefused(s) == s \in shut /\ ListenEnds(s, "starting", "nil")

\* The address cannot be bound, or the certificate cannot be loaded.
Bound(s) == ListenGoesOn(s, "binding", "bound")
BindFails(s) == ListenEnds(s, "binding", "error")

\* Serve registers the listener unless the server is shutting down.
Serve(s) == s \notin shut /\ ListenGoesOn(s, "bound", "serving")
ServeRefused(s) == s \in shut /\ ListenEnds(s, "bound", "nil")

\* Accept returns an error: the listener broke, or Shutdown has closed it.
AcceptFails(s) == s \notin shut /\ ListenEnds(s, "serving", "error")
AcceptClosed(s) == s \in shut /\ ListenEnds(s, "serving", "nil")

\* A client connects, or sends a request on an idle connection.
Accept(s) ==
    /\ listen[s] = "serving" /\ busy[s] < MaxBusy
    /\ busy' = [busy EXCEPT ![s] = @ + 1]
    /\ UNCHANGED <<process, group, listen, errs, run, result, shut>>

\* The handler of a busy connection has answered, or its client has gone.
Answered(s) ==
    /\ phase = "serve" /\ busy[s] > 0
    /\ busy' = [busy EXCEPT ![s] = @ - 1]
    /\ UNCHANGED <<process, group, listen, errs, run, result, shut>>

Listener(s) ==
    \/ ListenAllowed(s) \/ ListenRefused(s) \/ Bound(s) \/ BindFails(s)
    \/ Serve(s) \/ ServeRefused(s) \/ AcceptClosed(s)

(***************************************************************************)
(* HTTPServer.Run                                                          *)
(***************************************************************************)
RunStep(s, from, to) == run[s] = from /\ run' = [run EXCEPT ![s] = to]

\* Fault: the receive does not block.
ReceiveUnready(s, from) ==
    /\ RunStep(s, from, "post")
    /\ result' = [result EXCEPT ![s] = errs[s]]
    /\ errs' = [errs EXCEPT ![s] = "empty"]
    /\ UNCHANGED <<process, group, listen, shut, busy>>

\* Run or shutdown receives from errorsChan and returns what it received.
Receive(s, from) ==
    /\ errs[s] # "empty"
    /\ RunStep(s, from, "post")
    /\ result' = [result EXCEPT ![s] = errs[s]]
    /\ errs' = [errs EXCEPT ![s] = "empty"]
    /\ UNCHANGED <<process, group, listen, shut, busy>>

\* select: listen has sent something.
ListenReturned(s) == Receive(s, "select")

\* Fault: the select does not wait for the context.
ShutdownUnasked(s) ==
    /\ RunStep(s, "select", "closing")
    /\ shut' = shut \cup {s}
    /\ UNCHANGED <<process, group, listen, errs, result, busy>>

\* select: the context is done, and Shutdown closes the listener.
Shutdown(s) ==
    /\ Done
    /\ RunStep(s, "select", "closing")
    /\ shut' = shut \cup {s}
    /\ UNCHANGED <<process, group, listen, errs, result, busy>>

\* Fault: Close in place of Shutdown.
CloseAtOnce(s) ==
    /\ listen[s] # "serving"
    /\ RunStep(s, "closing", "await")
    /\ UNCHANGED <<process, group, listen, errs, result, shut, busy>>

\* Shutdown goes on once no accept loop of the server is left.
AcceptLoopLeft(s) ==
    /\ listen[s] # "serving"
    /\ RunStep(s, "closing", IF busy[s] = 0 THEN "await" ELSE "polling")
    /\ UNCHANGED <<process, group, listen, errs, result, shut, busy>>

\* A poll of Shutdown finds no busy connection, and Shutdown returns nil.
Quiescent(s) ==
    /\ busy[s] = 0
    /\ RunStep(s, "polling", "await")
    /\ UNCHANGED <<process, group, listen, errs, result, shut, busy>>

\* Fault: the shutdown context has no timeout.
WaitsForever(s) ==
    /\ busy[s] = 0
    /\ RunStep(s, "polling", "post")
    /\ result' = [result EXCEPT ![s] = "timeout"]
    /\ UNCHANGED <<process, group, listen, errs, shut, busy>>

\* shutdownTimeout passes first, and shutdown returns the context's error.
TimesOut(s) ==
    /\ RunStep(s, "polling", "post")
    /\ result' = [result EXCEPT ![s] = "timeout"]
    /\ UNCHANGED <<process, group, listen, errs, shut, busy>>

\* return <-errorsChan
Awaited(s) == Receive(s, "await")

\* The goroutine of runServers sends what Run returned to the group.
Post(s) ==
    /\ RunStep(s, "post", "done")
    /\ Len(queue) < Cardinality(Servers)
    /\ queue' = Append(queue, s)
    /\ UNCHANGED <<process, cancelled, collected, firstErr, listen, errs, result, shut, busy>>

Runner(s) ==
    \/ ListenReturned(s) \/ Shutdown(s) \/ AcceptLoopLeft(s) \/ Quiescent(s)
    \/ TimesOut(s) \/ Awaited(s) \/ Post(s)

\* main returns from os.Exit, and no goroutine runs any more.
Next ==
    \/ Signal
    \/ Main
    \/ phase = "serve" /\ \E s \in Servers :
          Listener(s) \/ AcceptFails(s) \/ Accept(s) \/ Answered(s) \/ Runner(s)

Spec == Init /\ [][Next]_vars

\* Goroutines are scheduled, net.Listen returns, the accept loop sees that its
\* listener was closed and the shutdown timer fires.  Requests may go on for
\* ever, clients may never come, and a good listener never breaks.
Fairness ==
    /\ WF_vars(Main)
    /\ \A s \in Servers : WF_vars(phase = "serve" /\ Listener(s))
                          /\ WF_vars(phase = "serve" /\ Runner(s))

FairSpec == Spec /\ Fairness

(***************************************************************************)
(* Properties                                                              *)
(***************************************************************************)
Listening == {"starting", "binding", "bound", "serving"}
Returned == {"post", "done"}

\* Every variable has its type.
TypeOK ==
    /\ phase \in {"flags", "load", "serve", "exited"}
    /\ code \in -1 .. 2
    /\ signalled \in BOOLEAN
    /\ cancelled \in BOOLEAN
    /\ listen \in [Servers -> {"off", "closed", "failed"} \cup Listening]
    /\ errs \in [Servers -> {"empty", "nil", "error"}]
    /\ run \in [Servers -> {"off", "select", "closing", "polling", "await"} \cup Returned]
    /\ result \in [Servers -> {"none", "nil", "error", "timeout"}]
    /\ shut \subseteq Servers
    /\ busy \in [Servers -> Nat]
    /\ queue \in Seq(Servers)
    /\ collected \in Nat
    /\ firstErr \in BOOLEAN

\* The process was started and has ended.
Ended == phase = "exited" /\ \E s \in Servers : run[s] # "off"

\* No error of a listener is lost on its way through a select that may prefer
\* the done context, through a shutdown that reports its own error, and
\* through a group that keeps the first error only: the exit code is 1.
NoErrorSwallowed ==
    Ended /\ code = 0 => \A s \in Servers : listen[s] = "closed"

\* No server still listens when the process ends, after a failure either.  The
\* exit cuts a busy connection off only when its server's listener broke or
\* its shutdown ran out of time; the failure of the other server alone gives
\* it the whole grace period.
GracefulExit ==
    /\ phase = "exited" => \A s \in Servers : listen[s] \notin Listening
    /\ Ended => \A s \in Servers : busy[s] > 0 => result[s] # "nil"

\* A signal ends the process, at any moment of the start-up and however long
\* the requests in flight take.
SignalStops == signalled ~> phase = "exited"

\* One server that fails takes the whole process down.
FailureStops == \A s \in Servers : listen[s] = "failed" ~> phase = "exited"

Stage == CASE phase = "serve"  -> "up"
           [] phase = "exited" -> "ended"
           [] OTHER            -> "boot"

S == INSTANCE Supervisor WITH
        stage <- Stage,
        up <- {s \in Servers : run[s] \notin {"off"} \cup Returned},
        failed <- {s \in Servers : result[s] \in {"error", "timeout"}},
        asked <- signalled

\* The channels and goroutines implement the supervisor of the group.
SupervisorSpec == S!SSpec
=============================================================================
