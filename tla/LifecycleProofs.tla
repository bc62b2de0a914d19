-------------------------- MODULE LifecycleProofs --------------------------
(***************************************************************************)
(* Facts about the process: about Lifecycle for any finite set of servers  *)
(* and any number of busy connections, and about Config, the settings that *)
(* are read in its first phase, for any flags, files and command lines.    *)
(***************************************************************************)
EXTENDS Lifecycle, Config, FiniteSetTheorems, SequenceTheorems, TLAPS

(***************************************************************************)
(* The inductive invariant.  Coherent relates the two goroutines of one    *)
(* server: what its channel or its result holds says how listen ended, and *)
(* nil says that Shutdown was called, because listen sends nil only then.  *)
(* The other parts follow the results through the group: every server that *)
(* is done is in the queue or was collected, and its error, if it returned *)
(* one, is in the queue or is known to waitForServers.                     *)
(***************************************************************************)
Coherent(s) ==
    /\ run[s] = "off" <=> listen[s] = "off"
    /\ run[s] = "off" => errs[s] = "empty" /\ busy[s] = 0
    /\ run[s] \in {"off", "select"} => s \notin shut
    /\ run[s] \in {"closing", "polling", "await"} => s \in shut
    /\ result[s] = "none" <=> run[s] \notin Returned
    /\ listen[s] = "closed" => s \in shut
    /\ errs[s] = "nil" => listen[s] = "closed"
    /\ errs[s] = "error" => listen[s] = "failed"
    /\ result[s] = "nil" => listen[s] = "closed" /\ busy[s] = 0
    /\ result[s] \in {"error", "timeout"} => listen[s] \in {"closed", "failed"}
    /\ busy[s] > 0 => listen[s] \in {"serving", "closed", "failed"}
    /\ run[s] = "polling" => listen[s] \in {"closed", "failed"}
    /\ run[s] = "await" => busy[s] = 0 /\ listen[s] # "serving"

AllCoherent == \A s \in Servers : Coherent(s)

Stopped == {s \in Servers : run[s] = "done"}

InError(s) == result[s] \in {"error", "timeout"}

\* Nothing happens to the servers before they are started.
BootQuiet ==
    /\ phase \in {"flags", "load"} =>
          /\ \A s \in Servers : run[s] = "off"
          /\ queue = <<>> /\ collected = 0 /\ ~firstErr
    /\ phase = "serve" => \A s \in Servers : run[s] # "off"

\* A shutdown has a cause.
Caused ==
    /\ cancelled = firstErr
    /\ shut # {} => Done
    /\ firstErr => \E s \in Servers : InError(s)

Queued == \A i \in 1 .. Len(queue) : run[queue[i]] = "done"

NoErrorLost ==
    \A s \in Servers : run[s] = "done" /\ InError(s) =>
        firstErr \/ \E i \in 1 .. Len(queue) : queue[i] = s

AllCounted == collected + Len(queue) = Cardinality(Stopped)

Verdict ==
    phase = "exited" =>
        \/ \A s \in Servers : run[s] = "off"
        \/ /\ \A s \in Servers : run[s] = "done"
           /\ queue = <<>>
           /\ code = IF firstErr THEN 1 ELSE 0

IInv ==
    /\ TypeOK /\ AllCoherent /\ BootQuiet /\ Caused
    /\ Queued /\ NoErrorLost /\ AllCounted /\ Verdict

LEMMA InitIInv == Init => IInv
<1> SUFFICES ASSUME Init PROVE IInv
  OBVIOUS
<1>1. TypeOK
  <2>1. queue \in Seq(Servers) /\ collected \in Nat /\ code \in -1 .. 2
    BY DEF Init
  <2>2. shut \subseteq Servers /\ busy \in [Servers -> Nat]
    BY DEF Init
  <2> QED
    BY <2>1, <2>2 DEF Init, TypeOK, Listening, Returned
<1>2. /\ AllCoherent /\ BootQuiet /\ Queued
      /\ Caused /\ NoErrorLost /\ Verdict
  <2>1. AllCoherent
    BY DEF Init, AllCoherent, Coherent, Returned
  <2>2. BootQuiet /\ Verdict
    BY DEF Init, BootQuiet, Verdict
  <2>3. Queued
    BY DEF Init, Queued
  <2>4. Caused /\ NoErrorLost
    BY DEF Init, Caused, NoErrorLost
  <2> QED
    BY <2>1, <2>2, <2>3, <2>4
<1>3. AllCounted
  <2>1. Stopped = {}
    BY DEF Init, Stopped
  <2> QED
    BY <2>1, FS_EmptySet DEF Init, AllCounted
<1> QED
  BY <1>1, <1>2, <1>3 DEF IInv

LEMMA StepTypeOK == IInv /\ [Next]_vars => TypeOK'
<1> SUFFICES ASSUME IInv, [Next]_vars PROVE TypeOK'
  OBVIOUS
<1>0. TypeOK
  BY DEF IInv
<1> USE LifecycleAssumption DEF TypeOK, Listening, Returned, process, group, server
<1>1. CASE Signal
  BY <1>0, <1>1 DEF Signal
<1>2. CASE FlagsEnd
  BY <1>0, <1>2 DEF FlagsEnd, Exit
<1>3. CASE FlagsParsed
  BY <1>0, <1>3 DEF FlagsParsed
<1>4. CASE LoadFails
  BY <1>0, <1>4 DEF LoadFails, Exit
<1>5. CASE StartServers
  BY <1>0, <1>5 DEF StartServers
<1>6. CASE Collect
  BY <1>0, <1>6 DEF Collect
<1>7. CASE AllCollected
  BY <1>0, <1>7 DEF AllCollected, Exit
<1>8. ASSUME NEW s \in Servers, ListenAllowed(s) PROVE TypeOK'
  BY <1>0, <1>8 DEF ListenAllowed, ListenGoesOn, ListenStep
<1>9. ASSUME NEW s \in Servers, ListenRefused(s) PROVE TypeOK'
  BY <1>0, <1>9 DEF ListenRefused, ListenEnds, ListenStep
<1>10. ASSUME NEW s \in Servers, Bound(s) PROVE TypeOK'
  BY <1>0, <1>10 DEF Bound, ListenGoesOn, ListenStep
<1>11. ASSUME NEW s \in Servers, BindFails(s) PROVE TypeOK'
  BY <1>0, <1>11 DEF BindFails, ListenEnds, ListenStep
<1>12. ASSUME NEW s \in Servers, Serve(s) PROVE TypeOK'
  BY <1>0, <1>12 DEF Serve, ListenGoesOn, ListenStep
<1>13. ASSUME NEW s \in Servers, ServeRefused(s) PROVE TypeOK'
  BY <1>0, <1>13 DEF ServeRefused, ListenEnds, ListenStep
<1>14. ASSUME NEW s \in Servers, AcceptFails(s) PROVE TypeOK'
  BY <1>0, <1>14 DEF AcceptFails, ListenEnds, ListenStep
<1>15. ASSUME NEW s \in Servers, AcceptClosed(s) PROVE TypeOK'
  BY <1>0, <1>15 DEF AcceptClosed, ListenEnds, ListenStep
<1>16. ASSUME NEW s \in Servers, Accept(s) PROVE TypeOK'
  BY <1>0, <1>16 DEF Accept
<1>17. ASSUME NEW s \in Servers, Answered(s) PROVE TypeOK'
  BY <1>0, <1>17 DEF Answered
<1>18. ASSUME NEW s \in Servers, ListenReturned(s) PROVE TypeOK'
  BY <1>0, <1>18 DEF ListenReturned, Receive, RunStep
<1>19. ASSUME NEW s \in Servers, Shutdown(s) PROVE TypeOK'
  BY <1>0, <1>19 DEF Shutdown, RunStep
<1>20. ASSUME NEW s \in Servers, AcceptLoopLeft(s) PROVE TypeOK'
  BY <1>0, <1>20 DEF AcceptLoopLeft, RunStep
<1>21. ASSUME NEW s \in Servers, Quiescent(s) PROVE TypeOK'
  BY <1>0, <1>21 DEF Quiescent, RunStep
<1>22. ASSUME NEW s \in Servers, TimesOut(s) PROVE TypeOK'
  BY <1>0, <1>22 DEF TimesOut, RunStep
<1>23. ASSUME NEW s \in Servers, Awaited(s) PROVE TypeOK'
  BY <1>0, <1>23 DEF Awaited, Receive, RunStep
<1>24. ASSUME NEW s \in Servers, Post(s) PROVE TypeOK'
  BY <1>0, <1>24 DEF Post, RunStep
<1>25. CASE UNCHANGED vars
  BY <1>0, <1>25 DEF vars
<1> QED
    BY <1>1, <1>2, <1>3, <1>4, <1>5, <1>6, <1>7, <1>8, <1>9, <1>10, <1>11,
     <1>12, <1>13, <1>14, <1>15, <1>16, <1>17, <1>18, <1>19, <1>20, <1>21,
     <1>22, <1>23, <1>24, <1>25 DEF Next, Main, Listener, Runner

LEMMA StepCoherent == IInv /\ [Next]_vars => AllCoherent'
<1> SUFFICES ASSUME IInv, [Next]_vars, NEW r \in Servers PROVE Coherent(r)'
  BY DEF AllCoherent
<1>0. TypeOK /\ Coherent(r) /\ BootQuiet
  BY DEF IInv, AllCoherent
<1> USE DEF TypeOK, Coherent, Listening, Returned, process, group, server
<1>1. CASE Signal
  BY <1>0, <1>1 DEF Signal
<1>2. CASE FlagsEnd
  BY <1>0, <1>2 DEF FlagsEnd, Exit
<1>3. CASE FlagsParsed
  BY <1>0, <1>3 DEF FlagsParsed
<1>4. CASE LoadFails
  BY <1>0, <1>4 DEF LoadFails, Exit
<1>5. CASE StartServers
  BY <1>0, <1>5 DEF StartServers, BootQuiet
<1>6. CASE Collect
  BY <1>0, <1>6 DEF Collect
<1>7. CASE AllCollected
  BY <1>0, <1>7 DEF AllCollected, Exit
<1>8. ASSUME NEW s \in Servers, ListenAllowed(s) PROVE Coherent(r)'
  BY <1>0, <1>8 DEF ListenAllowed, ListenGoesOn, ListenStep
<1>9. ASSUME NEW s \in Servers, ListenRefused(s) PROVE Coherent(r)'
  BY <1>0, <1>9 DEF ListenRefused, ListenEnds, ListenStep
<1>10. ASSUME NEW s \in Servers, Bound(s) PROVE Coherent(r)'
  BY <1>0, <1>10 DEF Bound, ListenGoesOn, ListenStep
<1>11. ASSUME NEW s \in Servers, BindFails(s) PROVE Coherent(r)'
  BY <1>0, <1>11 DEF BindFails, ListenEnds, ListenStep
<1>12. ASSUME NEW s \in Servers, Serve(s) PROVE Coherent(r)'
  BY <1>0, <1>12 DEF Serve, ListenGoesOn, ListenStep
<1>13. ASSUME NEW s \in Servers, ServeRefused(s) PROVE Coherent(r)'
  BY <1>0, <1>13 DEF ServeRefused, ListenEnds, ListenStep
<1>14. ASSUME NEW s \in Servers, AcceptFails(s) PROVE Coherent(r)'
  BY <1>0, <1>14 DEF AcceptFails, ListenEnds, ListenStep
<1>15. ASSUME NEW s \in Servers, AcceptClosed(s) PROVE Coherent(r)'
  BY <1>0, <1>15 DEF AcceptClosed, ListenEnds, ListenStep
<1>16. ASSUME NEW s \in Servers, Accept(s) PROVE Coherent(r)'
  BY <1>0, <1>16 DEF Accept
<1>17. ASSUME NEW s \in Servers, Answered(s) PROVE Coherent(r)'
  BY <1>0, <1>17 DEF Answered
<1>18. ASSUME NEW s \in Servers, ListenReturned(s) PROVE Coherent(r)'
  BY <1>0, <1>18 DEF ListenReturned, Receive, RunStep
<1>19. ASSUME NEW s \in Servers, Shutdown(s) PROVE Coherent(r)'
  BY <1>0, <1>19 DEF Shutdown, RunStep
<1>20. ASSUME NEW s \in Servers, AcceptLoopLeft(s) PROVE Coherent(r)'
  BY <1>0, <1>20 DEF AcceptLoopLeft, RunStep
<1>21. ASSUME NEW s \in Servers, Quiescent(s) PROVE Coherent(r)'
  BY <1>0, <1>21 DEF Quiescent, RunStep
<1>22. ASSUME NEW s \in Servers, TimesOut(s) PROVE Coherent(r)'
  BY <1>0, <1>22 DEF TimesOut, RunStep
<1>23. ASSUME NEW s \in Servers, Awaited(s) PROVE Coherent(r)'
  BY <1>0, <1>23 DEF Awaited, Receive, RunStep
<1>24. ASSUME NEW s \in Servers, Post(s) PROVE Coherent(r)'
  BY <1>0, <1>24 DEF Post, RunStep
<1>25. CASE UNCHANGED vars
  BY <1>0, <1>25 DEF vars
<1> QED
    BY <1>1, <1>2, <1>3, <1>4, <1>5, <1>6, <1>7, <1>8, <1>9, <1>10, <1>11,
     <1>12, <1>13, <1>14, <1>15, <1>16, <1>17, <1>18, <1>19, <1>20, <1>21,
     <1>22, <1>23, <1>24, <1>25 DEF Next, Main, Listener, Runner

(***************************************************************************)
(* What a step is to the group: the steps of listen and of the connections *)
(* do not concern it, and of those of Run only Post does.                  *)
(***************************************************************************)
Unconcerned == UNCHANGED <<process, group, run, result, shut>>

Proceeds(s) ==
    /\ phase = "serve"
    /\ UNCHANGED <<process, group>>
    /\ run[s] \notin {"off", "done"} /\ run'[s] \notin {"off", "done"}
    /\ run' = [run EXCEPT ![s] = run'[s]]
    /\ \A r \in Servers : InError(r) => InError(r)'
    /\ \A r \in Servers : run[r] = "done" => (InError(r)' => InError(r))
    /\ shut' # shut => Done

LEMMA StepShapes ==
    ASSUME IInv, [Next]_vars
    PROVE  \/ Signal \/ Main \/ Unconcerned
           \/ \E s \in Servers : Proceeds(s) \/ (phase = "serve" /\ Post(s))
<1>0. TypeOK /\ AllCoherent
  BY DEF IInv
<1> USE DEF process, group
<1>1. ASSUME NEW s \in Servers,
             Listener(s) \/ AcceptFails(s) \/ Accept(s) \/ Answered(s)
      PROVE  Unconcerned
  BY <1>1 DEF Unconcerned, Listener, ListenAllowed, ListenRefused, Bound,
     BindFails, Serve, ServeRefused, AcceptFails, AcceptClosed, Accept,
     Answered, ListenEnds, ListenGoesOn
<1>2. ASSUME NEW s \in Servers, phase = "serve", Runner(s), ~Post(s)
      PROVE  Proceeds(s)
  <2> USE DEF TypeOK, AllCoherent, Coherent, Returned, Proceeds, InError, RunStep
  <2>1. CASE ListenReturned(s)
    BY <1>0, <1>2, <2>1 DEF ListenReturned, Receive
  <2>2. CASE Shutdown(s)
    BY <1>0, <1>2, <2>2 DEF Shutdown
  <2>3. CASE AcceptLoopLeft(s)
    BY <1>0, <1>2, <2>3 DEF AcceptLoopLeft
  <2>4. CASE Quiescent(s)
    BY <1>0, <1>2, <2>4 DEF Quiescent
  <2>5. CASE TimesOut(s)
    BY <1>0, <1>2, <2>5 DEF TimesOut
  <2>6. CASE Awaited(s)
    BY <1>0, <1>2, <2>6 DEF Awaited, Receive
  <2> QED
    BY <1>2, <2>1, <2>2, <2>3, <2>4, <2>5, <2>6 DEF Runner
<1>3. CASE UNCHANGED vars
  BY <1>3 DEF vars, Unconcerned
<1> QED
  BY <1>1, <1>2, <1>3 DEF Next

\* What follows from Proceeds for every server.
LEMMA ProceedsFrame ==
    ASSUME TypeOK, NEW s \in Servers, Proceeds(s)
    PROVE  /\ \A r \in Servers : run'[r] = "off" <=> run[r] = "off"
           /\ \A r \in Servers : run'[r] = "done" <=> run[r] = "done"
           /\ Stopped' = Stopped
<1>1. \A r \in Servers : r # s => run'[r] = run[r]
  BY DEF Proceeds, TypeOK
<1>2. /\ \A r \in Servers : run'[r] = "off" <=> run[r] = "off"
      /\ \A r \in Servers : run'[r] = "done" <=> run[r] = "done"
  BY <1>1 DEF Proceeds
<1>3. Stopped' = Stopped
  BY <1>2 DEF Stopped
<1> QED
  BY <1>2, <1>3

LEMMA StepBootQuiet == IInv /\ [Next]_vars => BootQuiet'
<1> SUFFICES ASSUME IInv, [Next]_vars PROVE BootQuiet'
  OBVIOUS
<1>0. TypeOK /\ BootQuiet
  BY DEF IInv
<1> USE DEF BootQuiet, process, group, server
<1>1. CASE Signal
  BY <1>0, <1>1 DEF Signal
<1>2. CASE Main
  BY <1>0, <1>2 DEF Main, FlagsEnd, FlagsParsed, LoadFails, StartServers,
     Collect, AllCollected, Exit
<1>3. CASE Unconcerned
  BY <1>0, <1>3 DEF Unconcerned
<1>4. ASSUME NEW s \in Servers, Proceeds(s) PROVE BootQuiet'
  BY <1>0, <1>4, ProceedsFrame DEF Proceeds
<1>5. ASSUME NEW s \in Servers, phase = "serve", Post(s) PROVE BootQuiet'
  BY <1>0, <1>5 DEF Post, RunStep, TypeOK
<1> QED
  BY StepShapes, <1>1, <1>2, <1>3, <1>4, <1>5

LEMMA StepCaused == IInv /\ [Next]_vars => Caused'
<1> SUFFICES ASSUME IInv, [Next]_vars PROVE Caused'
  OBVIOUS
<1>0. TypeOK /\ Caused /\ BootQuiet
  BY DEF IInv
<1> USE DEF Caused, Done, process, group, server
<1>1. CASE Signal
  BY <1>0, <1>1 DEF Signal, InError
<1>2. CASE FlagsEnd \/ FlagsParsed \/ LoadFails \/ StartServers \/ AllCollected
  BY <1>0, <1>2 DEF FlagsEnd, FlagsParsed, LoadFails, StartServers,
     AllCollected, InError
<1>3. CASE Collect
  <2>1. Head(queue) \in Servers
    BY <1>0, <1>3 DEF Collect, TypeOK
  <2>2. result[Head(queue)] # "nil" => InError(Head(queue))
    <3>1. run[Head(queue)] = "done"
      BY <1>0, <1>3 DEF IInv, Queued, Collect, TypeOK
    <3> QED
      BY <1>0, <2>1, <3>1 DEF IInv, AllCoherent, Coherent, Returned, TypeOK, InError
  <2>3. firstErr' => \E s \in Servers : InError(s)
    BY <1>0, <1>3, <2>1, <2>2 DEF Collect
  <2> QED
    BY <1>0, <1>3, <2>3 DEF Collect, InError
<1>4. CASE Unconcerned
  BY <1>0, <1>4 DEF Unconcerned, InError
<1>5. ASSUME NEW s \in Servers, Proceeds(s) PROVE Caused'
  BY <1>0, <1>5 DEF Proceeds
<1>6. ASSUME NEW s \in Servers, phase = "serve", Post(s) PROVE Caused'
  BY <1>0, <1>6 DEF Post, InError
<1> QED
  BY StepShapes, <1>1, <1>2, <1>3, <1>4, <1>5, <1>6 DEF Main

LEMMA StepQueued == IInv /\ [Next]_vars => Queued'
<1> SUFFICES ASSUME IInv, [Next]_vars PROVE Queued'
  OBVIOUS
<1>0. TypeOK /\ Queued
  BY DEF IInv
<1> USE DEF Queued, process, group, server
<1>1. CASE Signal \/ FlagsEnd \/ FlagsParsed \/ LoadFails \/ AllCollected
  BY <1>0, <1>1 DEF Signal, FlagsEnd, FlagsParsed, LoadFails, AllCollected
<1>2. CASE StartServers
  BY <1>2 DEF IInv, BootQuiet, StartServers
<1>3. CASE Collect
  <2>1. Len(queue') = Len(queue) - 1 /\ \A i \in 1 .. Len(queue') : queue'[i] = queue[i + 1]
    BY <1>0, <1>3 DEF Collect, TypeOK
  <2> QED
    BY <1>0, <1>3, <2>1 DEF Collect, TypeOK
<1>4. CASE Unconcerned
  BY <1>0, <1>4 DEF Unconcerned
<1>5. ASSUME NEW s \in Servers, Proceeds(s) PROVE Queued'
  <2>1. \A i \in 1 .. Len(queue) : queue[i] \in Servers
    BY <1>0 DEF TypeOK
  <2> QED
    BY <1>0, <1>5, <2>1, ProceedsFrame DEF Proceeds
<1>6. ASSUME NEW s \in Servers, phase = "serve", Post(s) PROVE Queued'
  <2>1. /\ Len(queue') = Len(queue) + 1
        /\ \A i \in 1 .. Len(queue) : queue'[i] = queue[i]
        /\ queue'[Len(queue) + 1] = s
    BY <1>0, <1>6 DEF Post, TypeOK
  <2>2. run'[s] = "done" /\ \A r \in Servers : run[r] = "done" => run'[r] = "done"
    BY <1>0, <1>6 DEF Post, RunStep, TypeOK
  <2>3. \A i \in 1 .. Len(queue) : queue[i] \in Servers
    BY <1>0 DEF TypeOK
  <2>4. Len(queue) \in Nat
    BY <1>0 DEF TypeOK
  <2> QED
    BY <1>0, <2>1, <2>2, <2>3, <2>4
<1> QED
  BY StepShapes, <1>1, <1>2, <1>3, <1>4, <1>5, <1>6 DEF Main

LEMMA StepNoErrorLost == IInv /\ [Next]_vars => NoErrorLost'
<1> SUFFICES ASSUME IInv, [Next]_vars,
                    NEW r \in Servers, run'[r] = "done", InError(r)', ~firstErr'
             PROVE  \E i \in 1 .. Len(queue') : queue'[i] = r
  BY DEF NoErrorLost
<1>0. TypeOK /\ NoErrorLost
  BY DEF IInv
<1> USE DEF NoErrorLost, process, group, server
<1>1. CASE Signal \/ FlagsEnd \/ FlagsParsed \/ LoadFails \/ AllCollected
  BY <1>0, <1>1 DEF Signal, FlagsEnd, FlagsParsed, LoadFails, AllCollected, InError
<1>2. CASE StartServers
  BY <1>2 DEF StartServers
<1>3. CASE Collect
  <2>1. /\ Len(queue') = Len(queue) - 1
        /\ \A i \in 1 .. Len(queue') : queue'[i] = queue[i + 1]
        /\ Len(queue) \in Nat /\ Head(queue) = queue[1]
    BY <1>0, <1>3 DEF Collect, TypeOK
  <2>2. /\ run[r] = "done" /\ InError(r) /\ ~firstErr
        /\ result[Head(queue)] = "nil"
    BY <1>3 DEF Collect, InError
  <2>3. PICK i \in 1 .. Len(queue) : queue[i] = r
    BY <1>0, <2>2
  <2>4. i # 1
    BY <2>1, <2>2, <2>3 DEF InError
  <2>5. i - 1 \in 1 .. Len(queue') /\ queue'[i - 1] = r
    BY <2>1, <2>3, <2>4
  <2> QED
    BY <2>5
<1>4. CASE Unconcerned
  BY <1>0, <1>4 DEF Unconcerned, InError
<1>5. ASSUME NEW s \in Servers, Proceeds(s)
      PROVE  \E i \in 1 .. Len(queue') : queue'[i] = r
  <2>1. run[r] = "done"
    BY <1>0, <1>5, ProceedsFrame
  <2>2. InError(r) /\ ~firstErr
    BY <1>5, <2>1 DEF Proceeds
  <2> QED
    BY <1>0, <1>5, <2>1, <2>2 DEF Proceeds
<1>6. ASSUME NEW s \in Servers, phase = "serve", Post(s)
      PROVE  \E i \in 1 .. Len(queue') : queue'[i] = r
  <2>1. /\ Len(queue') = Len(queue) + 1
        /\ \A i \in 1 .. Len(queue) : queue'[i] = queue[i]
        /\ queue'[Len(queue) + 1] = s /\ Len(queue) \in Nat
    BY <1>0, <1>6 DEF Post, TypeOK
  <2>2. CASE r = s
    BY <2>1, <2>2
  <2>3. CASE r # s
    <3>1. run[r] = "done" /\ InError(r) /\ ~firstErr
      BY <1>0, <1>6, <2>3 DEF Post, RunStep, InError, TypeOK
    <3>2. PICK i \in 1 .. Len(queue) : queue[i] = r
      BY <1>0, <3>1
    <3> QED
      BY <2>1, <3>2
  <2> QED
    BY <2>2, <2>3
<1> QED
  BY StepShapes, <1>1, <1>2, <1>3, <1>4, <1>5, <1>6 DEF Main

LEMMA StepAllCounted == IInv /\ [Next]_vars => AllCounted'
<1> SUFFICES ASSUME IInv, [Next]_vars PROVE AllCounted'
  OBVIOUS
<1>0. TypeOK /\ AllCounted
  BY DEF IInv
<1>a. IsFiniteSet(Stopped)
  BY LifecycleAssumption, FS_Subset DEF Stopped
<1> USE DEF AllCounted, process, group, server
<1>1. CASE Signal \/ FlagsEnd \/ FlagsParsed \/ LoadFails \/ AllCollected
  BY <1>0, <1>1 DEF Signal, FlagsEnd, FlagsParsed, LoadFails, AllCollected, Stopped
<1>2. CASE StartServers
  <2>1. Stopped = {} /\ Stopped' = {}
    BY <1>2 DEF IInv, BootQuiet, StartServers, Stopped
  <2> QED
    BY <1>0, <1>2, <2>1 DEF StartServers
<1>3. CASE Collect
  <2>1. Stopped' = Stopped /\ collected' = collected + 1
    BY <1>3 DEF Collect, Stopped
  <2>2. Len(queue') = Len(queue) - 1 /\ Len(queue) \in Nat /\ collected \in Nat
    BY <1>0, <1>3 DEF Collect, TypeOK
  <2> QED
    BY <1>0, <2>1, <2>2
<1>4. CASE Unconcerned
  BY <1>0, <1>4 DEF Unconcerned, Stopped
<1>5. ASSUME NEW s \in Servers, Proceeds(s) PROVE AllCounted'
  <2>1. Stopped' = Stopped /\ queue' = queue /\ collected' = collected
    BY <1>0, <1>5, ProceedsFrame DEF Proceeds
  <2> QED
    BY <1>0, <2>1
<1>6. ASSUME NEW s \in Servers, phase = "serve", Post(s) PROVE AllCounted'
  <2>1. Stopped' = Stopped \cup {s} /\ s \notin Stopped
    BY <1>0, <1>6 DEF Post, RunStep, Stopped, TypeOK
  <2>2. Cardinality(Stopped') = Cardinality(Stopped) + 1
    BY <1>a, <2>1, FS_AddElement
  <2>3. /\ Len(queue') = Len(queue) + 1 /\ collected' = collected
        /\ Len(queue) \in Nat /\ collected \in Nat
    BY <1>0, <1>6 DEF Post, TypeOK
  <2> QED
    BY <1>0, <2>2, <2>3
<1> QED
  BY StepShapes, <1>1, <1>2, <1>3, <1>4, <1>5, <1>6 DEF Main

\* When as many results were collected as there are servers, none is left.
LEMMA CollectedAll ==
    ASSUME IInv, collected = Cardinality(Servers)
    PROVE  queue = <<>> /\ \A s \in Servers : run[s] = "done"
<1>1. IsFiniteSet(Servers) /\ Stopped \subseteq Servers
  BY LifecycleAssumption DEF Stopped
<1>2. /\ Cardinality(Stopped) <= Cardinality(Servers)
      /\ Cardinality(Stopped) = Cardinality(Servers) => Stopped = Servers
  BY <1>1, FS_Subset
<1>3. Cardinality(Servers) \in Nat /\ Cardinality(Stopped) \in Nat
  BY <1>1, FS_Subset, FS_CardinalityType
<1>4. Len(queue) \in Nat /\ queue \in Seq(Servers)
  BY DEF IInv, TypeOK
<1>5. Len(queue) = 0 /\ Stopped = Servers
  BY <1>2, <1>3, <1>4 DEF IInv, AllCounted
<1> QED
  BY <1>4, <1>5 DEF Stopped

LEMMA StepVerdict == IInv /\ [Next]_vars => Verdict'
<1> SUFFICES ASSUME IInv, [Next]_vars PROVE Verdict'
  OBVIOUS
<1>0. TypeOK /\ Verdict /\ BootQuiet
  BY DEF IInv
<1> USE DEF Verdict, process, group, server
<1>1. CASE Signal
  BY <1>0, <1>1 DEF Signal
<1>2. CASE FlagsEnd \/ LoadFails
  BY <1>0, <1>2 DEF BootQuiet, FlagsEnd, LoadFails
<1>3. CASE FlagsParsed \/ StartServers \/ Collect
  BY <1>0, <1>3 DEF FlagsParsed, StartServers, Collect
<1>4. CASE AllCollected
  BY <1>4, CollectedAll DEF AllCollected, Exit
<1>5. CASE Unconcerned
  BY <1>0, <1>5 DEF Unconcerned
<1>6. ASSUME NEW s \in Servers, Proceeds(s) PROVE Verdict'
  BY <1>0, <1>6 DEF Proceeds
<1>7. ASSUME NEW s \in Servers, phase = "serve", Post(s) PROVE Verdict'
  BY <1>0, <1>7 DEF Post
<1> QED
  BY StepShapes, <1>1, <1>2, <1>3, <1>4, <1>5, <1>6, <1>7 DEF Main

LEMMA Invariance == Spec => []IInv
<1>1. IInv /\ [Next]_vars => IInv'
  BY StepTypeOK, StepCoherent, StepBootQuiet, StepCaused, StepQueued,
     StepNoErrorLost, StepAllCounted, StepVerdict DEF IInv
<1> QED
  BY InitIInv, <1>1, PTL DEF Spec

(***************************************************************************)
(* The theorems                                                            *)
(***************************************************************************)
\* Every variable keeps its type: the two kinds of channel too.
THEOREM TypeCorrect == Spec => []TypeOK
  BY Invariance, PTL DEF IInv

\* The exit code is 0 only if every listener was closed in good order: no
\* error is lost between listen and main.run (NoErrorSwallowed).
THEOREM NoErrorIsSwallowed == Spec => []NoErrorSwallowed
<1>1. IInv => NoErrorSwallowed
  <2> SUFFICES ASSUME IInv, Ended, code = 0, NEW s \in Servers
               PROVE  listen[s] = "closed"
    BY DEF NoErrorSwallowed
  <2>1. (\A r \in Servers : run[r] = "done") /\ queue = <<>> /\ ~firstErr
    BY DEF IInv, Verdict, Ended
  <2>2. ~InError(s)
    BY <2>1 DEF IInv, NoErrorLost
  <2>3. result[s] = "nil"
    BY <2>1, <2>2 DEF IInv, TypeOK, InError, AllCoherent, Coherent, Returned
  <2> QED
    BY <2>3 DEF IInv, AllCoherent, Coherent
<1> QED
  BY <1>1, Invariance, PTL

\* The exit cuts a connection off only after an error of its own server or
\* the end of the grace period, and leaves no listener behind.
THEOREM ExitsInOrder == Spec => []GracefulExit
<1>1. ASSUME IInv, phase = "exited", NEW s \in Servers
      PROVE  listen[s] \notin Listening
  <2>1. run[s] = "off" \/ run[s] = "done"
    BY <1>1 DEF IInv, Verdict
  <2>2. listen[s] \in {"off", "closed", "failed"}
    BY <1>1, <2>1 DEF IInv, TypeOK, AllCoherent, Coherent, Returned
  <2> QED
    BY <2>2 DEF Listening
<1>2. ASSUME IInv, Ended, NEW s \in Servers, busy[s] > 0
      PROVE  result[s] # "nil"
  BY <1>2 DEF IInv, TypeOK, AllCoherent, Coherent, Ended
<1>3. IInv => GracefulExit
  BY <1>1, <1>2 DEF GracefulExit
<1> QED
  BY <1>3, Invariance, PTL

(***************************************************************************)
(* The refinement: Run of a server that puts a result in its hand goes     *)
(* down, in error or in good order, and AllCollected is the end.           *)
(***************************************************************************)
Up == {s \in Servers : run[s] \notin {"off"} \cup Returned}
Down == {s \in Servers : result[s] \in {"error", "timeout"}}

\* The abstract state is a function of these values.
LEMMA AbstractStutter ==
    ASSUME Stage' = Stage, code' = code, signalled' = signalled,
           Up' = Up, Down' = Down
    PROVE  UNCHANGED S!svars
  BY DEF S!svars, Up, Down

LEMMA StepSupervisor == IInv /\ [Next]_vars => [S!SNext]_(S!svars)
<1> SUFFICES ASSUME IInv, [Next]_vars PROVE [S!SNext]_(S!svars)
  OBVIOUS
<1>0. TypeOK /\ AllCoherent /\ BootQuiet
  BY DEF IInv
<1> USE DEF process, group, server
<1>1. CASE Signal
  <2>1. Stage' = Stage /\ Stage # "ended"
    BY <1>0, <1>1 DEF Signal, Stage, TypeOK
  <2>2. S!Ask
    BY <1>1, <2>1 DEF Signal, S!Ask
  <2> QED
    BY <2>2 DEF S!SNext
<1>2. CASE FlagsEnd \/ LoadFails
  <2>1. Stage = "boot" /\ Stage' = "ended" /\ code' \in {0, 1, 2}
    BY <1>2 DEF FlagsEnd, LoadFails, Exit, Stage
  <2>2. S!Abort
    BY <1>2, <2>1 DEF FlagsEnd, LoadFails, S!Abort
  <2> QED
    BY <2>2 DEF S!SNext
<1>3. CASE FlagsParsed
  <2>1. Stage' = Stage /\ code' = code /\ signalled' = signalled
    BY <1>3 DEF FlagsParsed, Stage
  <2>2. Up' = Up /\ Down' = Down
    BY <1>3 DEF FlagsParsed, Up, Down
  <2> QED
    BY <2>1, <2>2, AbstractStutter
<1>4. CASE StartServers
  <2>1. Stage = "boot" /\ Stage' = "up"
    BY <1>4 DEF StartServers, Stage
  <2>2. Up' = Servers
    BY <1>4 DEF StartServers, Up, Returned
  <2>3. Down' = Down
    BY <1>4 DEF StartServers, Down
  <2>4. S!Launch
    BY <1>4, <2>1, <2>2, <2>3 DEF StartServers, S!Launch, Up, Down
  <2> QED
    BY <2>4 DEF S!SNext
<1>5. CASE Collect
  <2>1. Stage' = Stage /\ code' = code /\ signalled' = signalled
    BY <1>5 DEF Collect, Stage
  <2>2. Up' = Up /\ Down' = Down
    BY <1>5 DEF Collect, Up, Down
  <2> QED
    BY <2>1, <2>2, AbstractStutter
<1>6. CASE AllCollected
  <2>1. Stage = "up" /\ Stage' = "ended"
    BY <1>6 DEF AllCollected, Exit, Stage
  <2>2. queue = <<>> /\ \A s \in Servers : run[s] = "done"
    BY <1>6, CollectedAll DEF AllCollected
  <2>3. Up = {} /\ Up' = Up /\ Down' = Down
    BY <1>6, <2>2 DEF AllCollected, Up, Down, Returned
  <2>4. firstErr <=> Down # {}
    BY <1>0, <2>2 DEF IInv, Caused, NoErrorLost, InError, Down
  <2>5. code' = IF Down = {} THEN 0 ELSE 1
    BY <1>6, <2>4 DEF AllCollected, Exit
  <2>6. S!End
    BY <1>6, <2>1, <2>3, <2>5 DEF AllCollected, S!End, Up, Down
  <2> QED
    BY <2>6 DEF S!SNext
<1>7. ASSUME NEW s \in Servers, phase = "serve",
             Listener(s) \/ AcceptFails(s) \/ Accept(s) \/ Answered(s)
      PROVE  UNCHANGED S!svars
  <2>1. UNCHANGED <<process, run, result>>
    BY <1>7 DEF Listener, ListenAllowed, ListenRefused, Bound, BindFails, Serve,
       ServeRefused, AcceptFails, AcceptClosed, Accept, Answered, ListenEnds,
       ListenGoesOn
  <2>2. Stage' = Stage /\ Up' = Up /\ Down' = Down
    BY <2>1 DEF Stage, Up, Down
  <2> QED
    BY <2>1, <2>2, AbstractStutter
<1>8. ASSUME NEW s \in Servers, phase = "serve",
             Shutdown(s) \/ AcceptLoopLeft(s) \/ Quiescent(s) \/ Post(s)
      PROVE  UNCHANGED S!svars
  <2>1. UNCHANGED <<process, result>>
    BY <1>8 DEF Shutdown, AcceptLoopLeft, Quiescent, Post
  <2>2. run[s] \notin {"off"} \cup Returned <=> run'[s] \notin {"off"} \cup Returned
    BY <1>0, <1>8 DEF Shutdown, AcceptLoopLeft, Quiescent, Post, RunStep,
       Returned, TypeOK
  <2>3. \A r \in Servers : r # s => run'[r] = run[r]
    BY <1>0, <1>8 DEF Shutdown, AcceptLoopLeft, Quiescent, Post, RunStep, TypeOK
  <2>4. Stage' = Stage /\ Up' = Up /\ Down' = Down
    BY <2>1, <2>2, <2>3 DEF Stage, Up, Down
  <2> QED
    BY <2>1, <2>4, AbstractStutter
<1>9. ASSUME NEW s \in Servers, phase = "serve",
             ListenReturned(s) \/ Awaited(s) \/ TimesOut(s)
      PROVE  S!SNext
  <2>1. /\ UNCHANGED <<process, group>>
        /\ run[s] \in {"select", "polling", "await"} /\ run'[s] = "post"
        /\ \A r \in Servers : r # s => run'[r] = run[r] /\ result'[r] = result[r]
        /\ result'[s] \in {"nil", "error", "timeout"}
    BY <1>0, <1>9 DEF ListenReturned, Awaited, TimesOut, Receive, RunStep, TypeOK
  <2>2. Stage' = Stage /\ s \in Up /\ Up' = Up \ {s}
    BY <2>1 DEF Stage, Up, Returned
  <2>3. CASE result'[s] \in {"error", "timeout"}
    <3>1. Down' = Down \cup {s}
      BY <2>1, <2>3 DEF Down
    <3>2. S!Fail(s)
      BY <2>1, <2>2, <3>1 DEF S!Fail, S!GoDown, Up, Down
    <3> QED
      BY <3>2 DEF S!SNext
  <2>4. CASE result'[s] = "nil"
    <3>1. s \notin Down
      BY <1>0, <2>1 DEF Down, AllCoherent, Coherent, Returned
    <3>2. Down' = Down
      BY <2>1, <2>4, <3>1 DEF Down
    <3>3. s \in shut
      BY <1>0, <1>9, <2>4 DEF ListenReturned, Awaited, TimesOut, Receive,
         AllCoherent, Coherent, TypeOK
    <3>4. signalled \/ Down # {}
      BY <3>3 DEF IInv, Caused, Done, InError, Down
    <3>5. S!Stop(s)
      BY <2>1, <2>2, <3>2, <3>4 DEF S!Stop, S!GoDown, Up, Down
    <3> QED
      BY <3>5 DEF S!SNext
  <2> QED
    BY <2>1, <2>3, <2>4
<1>10. CASE UNCHANGED vars
  <2>1. Stage' = Stage /\ code' = code /\ signalled' = signalled
    BY <1>10 DEF vars, Stage
  <2>2. Up' = Up /\ Down' = Down
    BY <1>10 DEF vars, Up, Down
  <2> QED
    BY <2>1, <2>2, AbstractStutter
<1> QED
  BY <1>1, <1>2, <1>3, <1>4, <1>5, <1>6, <1>7, <1>8, <1>9, <1>10
     DEF Next, Main, Runner

\* The channels and goroutines of the process implement Supervisor: a server
\* stops in good order only for a reason, the process ends only when all are
\* down, and the exit code tells whether one of them failed.
THEOREM ImplementsSupervisor == Spec => SupervisorSpec
<1>1. Init => S!SInit
  <2> SUFFICES ASSUME Init PROVE S!SInit
    OBVIOUS
  <2>1. Stage = "boot" /\ Up = {} /\ Down = {}
    BY DEF Init, Stage, Up, Down
  <2> QED
    BY <2>1 DEF Init, S!SInit, Up, Down
<1>2. IInv /\ [Next]_vars => [S!SNext]_(S!svars)
  BY StepSupervisor
<1> QED
  BY <1>1, <1>2, Invariance, PTL DEF Spec, SupervisorSpec, S!SSpec

(***************************************************************************)
(* The settings, which are read before anything else of this happens.      *)
(* From the load of the file on, what is known of a setting is the flags   *)
(* over the file over the defaults.                                        *)
(***************************************************************************)
Layered ==
    \A s \in Settings :
        config[s] = IF s \in DOMAIN flags THEN flags[s]
                    ELSE IF path # Empty /\ s \in DOMAIN Files[path] THEN Files[path][s]
                    ELSE Default[s]

\* The end of the start-up, or a step towards it after the load.
Loaded == pc \in {"parse", "validate"} \/ outcome \in {"serve", "version"}

ConfigTypeOK ==
    /\ args \in Seq(Args)
    /\ pc \in {"scan", "load", "parse", "validate", "end"}
    /\ at \in Nat \ {0}
    /\ path \in Texts
    /\ DOMAIN config = Settings
    /\ pc # "end" => outcome = Nil

Untouched == pc \in {"scan", "load"} =>
    config = Default /\ flags = [f \in {} |-> Empty] /\ taken = {}

(***************************************************************************)
(* The scan visits some of the arguments, V, and ends at one of them, n:   *)
(* after a bare -config it skips the next one.  The path is the one of the *)
(* last -config it visited.                                                *)
(***************************************************************************)
Stops(w, i) == IF i > Len(w) THEN TRUE ELSE w[i].text = "--"

IsConfig(w, i) == w[i].flag = "config"

After(w, i) == IF IsConfig(w, i) /\ w[i].value = Nil THEN i + 2 ELSE i + 1

Route(w, V, n) ==
    /\ V \subseteq 1 .. n /\ 1 \in V /\ n \in V
    /\ \A i \in V : i < n =>
          /\ ~Stops(w, i)
          /\ After(w, i) \in V
          /\ \A j \in V : j <= i \/ After(w, i) <= j

Value(w, i) == IF w[i].value # Nil THEN w[i].value ELSE w[i + 1].text

Asks(w, V, n) == {i \in V : i < n /\ IsConfig(w, i)}

Last(w, N, p) == \/ N = {} /\ p = Empty
                 \/ \E m \in N : (\A j \in N : j <= m) /\ p = Value(w, m)

\* What the parser has taken as values is nothing the scan stops at or skips.
TakenPlain == \A i \in taken : args[i].text # "--" /\ args[i].flag # "config"

Scanned(V, n) ==
    /\ Route(args, V, n) /\ Stops(args, n)
    /\ Last(args, Asks(args, V, n), path)
    /\ Loaded /\ TakenPlain => at \in V /\ Last(args, Asks(args, V, at), Asked)

ScanInv ==
    /\ pc = "scan" => /\ at <= Len(args) + 1
                      /\ \E V \in SUBSET Nat : Route(args, V, at) /\ Last(args, Asks(args, V, at), path)
    /\ pc = "load" \/ Loaded => \E V \in SUBSET Nat, n \in Nat : Scanned(V, n)

ConfigInv == ConfigTypeOK /\ Untouched /\ (Loaded => Layered) /\ ScanInv

LEMMA ArgumentTexts ==
    ASSUME ConfigTypeOK, NEW i \in 1 .. Len(args)
    PROVE  /\ args[i].text \in Texts
           /\ args[i].value \in Texts \cup {Nil}
           /\ args[i].flag = Nil => args[i].value = Nil
           /\ args[i].text = "--" => args[i].flag = Nil
<1>1. args[i] \in Args
  BY ElementOfSeq DEF ConfigTypeOK
<1> QED
  BY <1>1, ConfigAssumption

LEMMA ArgumentCount == ConfigTypeOK => Len(args) \in Nat
  BY LenProperties DEF ConfigTypeOK

\* Only one path is that of the last -config.
LEMMA OneLast ==
    ASSUME NEW w, NEW N \in SUBSET Nat, NEW p, NEW q, Last(w, N, p), Last(w, N, q)
    PROVE  p = q
<1>1. CASE N = {}
  BY <1>1 DEF Last
<1>2. CASE N # {}
  <2>1. PICK m \in N : (\A j \in N : j <= m) /\ p = Value(w, m)
    BY <1>2 DEF Last
  <2>2. PICK k \in N : (\A j \in N : j <= k) /\ q = Value(w, k)
    BY <1>2 DEF Last
  <2>3. m = k
    BY <2>1, <2>2
  <2> QED
    BY <2>1, <2>2, <2>3
<1> QED
  BY <1>1, <1>2

\* A scan that is at argument n, and does not stop there, goes on to the next.
LEMMA RouteGrows ==
    ASSUME NEW w, NEW V \in SUBSET Nat, NEW n \in Nat, Route(w, V, n), ~Stops(w, n)
    PROVE  Route(w, V \cup {After(w, n)}, After(w, n))
<1> SUFFICES ASSUME NEW next \in Nat, next = After(w, n), n < next
             PROVE  Route(w, V \cup {next}, next)
  BY DEF After
<1>1. V \subseteq 1 .. n /\ 1 \in V /\ n \in V
  BY DEF Route
<1>2. \A j \in V : j \in Nat /\ 1 <= j /\ j <= n
  BY <1>1
<1>3. ASSUME NEW i \in V \cup {next}, i < next
      PROVE  /\ ~Stops(w, i) /\ After(w, i) \in V \cup {next}
             /\ \A j \in V \cup {next} : j <= i \/ After(w, i) <= j
  <2>1. CASE i = n
    BY <1>2, <2>1
  <2>2. CASE i # n
    <3>1. i \in V /\ i < n
      BY <1>2, <1>3, <2>2
    <3>2. /\ ~Stops(w, i) /\ After(w, i) \in V
          /\ \A j \in V : j <= i \/ After(w, i) <= j
      BY <3>1 DEF Route
    <3>3. After(w, i) \in Nat /\ After(w, i) <= n
      BY <1>2, <3>2
    <3>4. After(w, i) <= next
      BY <3>3
    <3> QED
      BY <3>2, <3>4
  <2> QED
    BY <2>1, <2>2
<1>4. V \cup {next} \subseteq 1 .. next
  <2>1. ASSUME NEW j \in V \cup {next}
        PROVE  j \in Nat /\ 1 <= j /\ j <= next
    BY <1>1, <1>2
  <2>2. \A j \in V \cup {next} : j \in 1 .. next
    BY <2>1
  <2> QED
    BY <2>2
<1> QED
  BY <1>1, <1>3, <1>4 DEF Route

\* Between a place of a route and the next, only its first can be a -config.
LEMMA LastGrows ==
    ASSUME NEW w, NEW V \in SUBSET Nat, NEW n \in V, NEW next \in Nat, NEW W \in SUBSET Nat,
           n < next, \A i \in Nat : i <= n => (i \in V <=> i \in W),
           \A i \in W : n < i /\ i < next => ~IsConfig(w, i),
           NEW p, Last(w, Asks(w, V, n), p)
    PROVE  Last(w, Asks(w, W, next), IF IsConfig(w, n) THEN Value(w, n) ELSE p)
<1>1. CASE IsConfig(w, n)
  <2>1. n \in Asks(w, W, next) /\ \A j \in Asks(w, W, next) : j <= n
    BY <1>1 DEF Asks
  <2> QED
    BY <1>1, <2>1 DEF Last
<1>2. CASE ~IsConfig(w, n)
  <2>1. ASSUME NEW i
        PROVE  i \in Asks(w, W, next) <=> i \in Asks(w, V, n)
    <3>1. i \in Nat => i < n \/ i = n \/ n < i
      OBVIOUS
    <3>2. CASE i \in Nat /\ i < n
      BY <3>2 DEF Asks
    <3>3. CASE i = n
      BY <1>2, <3>3 DEF Asks
    <3>4. CASE i \in Nat /\ n < i
      BY <3>4 DEF Asks
    <3>5. CASE i \notin Nat
      BY <3>5 DEF Asks
    <3> QED
      BY <3>1, <3>2, <3>3, <3>4, <3>5
  <2>2. Asks(w, W, next) = Asks(w, V, n)
    BY <2>1
  <2> QED
    BY <1>2, <2>2
<1> QED
  BY <1>1, <1>2

LEMMA InitConfigInv == CInit => ConfigInv
<1> SUFFICES ASSUME CInit PROVE ConfigInv
  OBVIOUS
<1>1. args \in Seq(Args)
  <2>1. PICK n \in 0 .. MaxArgs : args \in [1 .. n -> Args]
    BY DEF CInit
  <2>2. MaxArgs \in Nat
    BY ConfigAssumption
  <2>3. n \in Nat
    BY <2>1, <2>2
  <2> QED
    BY <2>1, <2>3, SeqDef
<1>2. ConfigTypeOK
  <2>1. DOMAIN Default = Settings /\ Empty \in Texts
    BY ConfigAssumption
  <2> QED
    BY <1>1, <2>1, SMTT(30) DEF CInit, ConfigTypeOK
<1>3. Untouched /\ ~Loaded
  BY ConfigAssumption DEF CInit, Untouched, Loaded
<1>4. Route(args, {1}, 1) /\ Asks(args, {1}, 1) = {}
  BY DEF Route, Asks
<1>5. at = 1 /\ path = Empty /\ pc = "scan"
  BY DEF CInit
<1>7. at <= Len(args) + 1
  <2>1. Len(args) \in Nat
    BY <1>2, ArgumentCount
  <2> QED
    BY <1>5, <2>1
<1>6. \E V \in SUBSET Nat : Route(args, V, at) /\ Last(args, Asks(args, V, at), path)
  <2> WITNESS {1} \in SUBSET Nat
  <2> QED
    BY <1>4, <1>5 DEF Last
<1> QED
  BY <1>2, <1>3, <1>5, <1>6, <1>7 DEF ConfigInv, ScanInv

\* The scan goes on, and the path is that of the argument it was at, if it is
\* a -config.
LEMMA ScanGoesOn ==
    ASSUME ConfigInv, Scanning, at' = After(args, at), at' <= Len(args) + 1,
           pc' = pc, outcome' = outcome, path' \in Texts,
           path' = IF IsConfig(args, at) THEN Value(args, at) ELSE path
    PROVE  ConfigInv'
<1>0. /\ pc = "scan" /\ outcome = Nil
      /\ args' = args /\ config' = config /\ flags' = flags /\ taken' = taken
  BY DEF Scanning, ConfigInv, ConfigTypeOK
<1>1. at \in Nat /\ ~Stops(args, at)
  BY DEF Scanning, ArgsEnded, Stops, ConfigInv, ConfigTypeOK
<1>2. ConfigTypeOK'
  BY <1>0 DEF ConfigInv, ConfigTypeOK, After
<1>3. Untouched' /\ ~Loaded'
  BY <1>0, ConfigAssumption DEF ConfigInv, Untouched, Loaded
<1>4. PICK V \in SUBSET Nat : Route(args, V, at) /\ Last(args, Asks(args, V, at), path)
  BY <1>0 DEF ConfigInv, ScanInv
<1> DEFINE W == V \cup {After(args, at)}
<1>5. Route(args', W, at')
  BY <1>0, <1>1, <1>4, RouteGrows
<1>6. at < After(args, at) /\ After(args, at) \in Nat /\ at \in V /\ \A i \in V : i <= at
  BY <1>1, <1>4 DEF After, Route
<1>7. Last(args', Asks(args', W, at'), path')
  <2>1. \A i \in Nat : i <= at => (i \in V <=> i \in W)
    BY <1>1, <1>6
  <2>2. \A i \in W : at < i /\ i < After(args, at) => ~IsConfig(args, i)
    BY <1>1, <1>6
  <2>3. W \in SUBSET Nat
    BY <1>6
  <2> HIDE DEF W
  <2>4. Last(args, Asks(args, W, After(args, at)), IF IsConfig(args, at) THEN Value(args, at) ELSE path)
    BY <1>4, <1>6, <2>1, <2>2, <2>3, LastGrows
  <2> QED
    BY <1>0, <2>4
<1>8. (\E U \in SUBSET Nat : Route(args, U, at) /\ Last(args, Asks(args, U, at), path))'
  <2>1. W \in SUBSET Nat
    BY <1>6
  <2> HIDE DEF W
  <2> QED
    BY <1>5, <1>7, <2>1
<1> QED
  BY <1>0, <1>2, <1>3, <1>8 DEF ConfigInv, ScanInv

LEMMA StepScan == ConfigInv /\ (ScanEnds \/ ScanInline \/ ScanFlag \/ ScanOther) => ConfigInv'
<1> SUFFICES ASSUME ConfigInv, ScanEnds \/ ScanInline \/ ScanFlag \/ ScanOther PROVE ConfigInv'
  OBVIOUS
<1>0. ConfigTypeOK /\ at \in Nat \ {0} /\ Len(args) \in Nat
  BY ArgumentCount DEF ConfigInv, ConfigTypeOK
<1>1. CASE ScanEnds
  <2>1. pc = "scan" /\ pc' = "load" /\ UNCHANGED <<args, at, path, config, flags, taken, outcome>>
    BY <1>1 DEF ScanEnds
  <2>2. ConfigTypeOK' /\ Untouched' /\ ~Loaded'
    BY <2>1, ConfigAssumption DEF ConfigInv, ConfigTypeOK, Untouched, Loaded
  <2>3. PICK V \in SUBSET Nat : Route(args, V, at) /\ Last(args, Asks(args, V, at), path)
    BY <2>1 DEF ConfigInv, ScanInv
  <2>4. Stops(args, at)
    BY <1>1 DEF ScanEnds, ArgsEnded, Stops
  <2>5. Scanned(V, at)'
    BY <2>1, <2>2, <2>3, <2>4 DEF Scanned
  <2>6. (\E U \in SUBSET Nat, n \in Nat : Scanned(U, n))'
    BY <1>0, <2>1, <2>5
  <2> QED
    BY <2>1, <2>2, <2>6 DEF ConfigInv, ScanInv
<1>2. CASE ScanInline
  <2>1. /\ Scanning /\ IsConfig(args, at) /\ args[at].value # Nil
        /\ path' = args[at].value /\ at' = at + 1 /\ UNCHANGED <<pc, outcome>>
    BY <1>2 DEF ScanInline, IsConfig
  <2>2. at \in 1 .. Len(args)
    BY <1>0, <2>1 DEF Scanning, ArgsEnded
  <2>3. path' = Value(args, at) /\ at' = After(args, at)
    BY <2>1 DEF Value, After
  <2>4. path' \in Texts
    BY <1>0, <2>1, <2>2, ArgumentTexts
  <2>5. at' <= Len(args) + 1
    BY <1>0, <2>1, <2>2
  <2> QED
    BY <2>1, <2>3, <2>4, <2>5, ScanGoesOn
<1>3. CASE ScanFlag
  <2>1. Scanning /\ IsConfig(args, at) /\ args[at].value = Nil
    BY <1>3 DEF ScanFlag, IsConfig
  <2>2. at \in 1 .. Len(args)
    BY <1>0, <2>1 DEF Scanning, ArgsEnded
  <2>3. CASE at = Len(args)
    <3>1. /\ pc' = "end" /\ outcome' = "usage"
          /\ UNCHANGED <<at, path, args, config, flags, taken>>
      BY <1>3, <2>3 DEF ScanFlag, Scanning, End
    <3> QED
      BY <1>0, <3>1 DEF ConfigInv, ConfigTypeOK, Untouched, Loaded, ScanInv
  <2>4. CASE at # Len(args)
    <3>1. path' = args[at + 1].text /\ at' = at + 2 /\ UNCHANGED <<pc, outcome>>
      BY <1>3, <2>4 DEF ScanFlag
    <3>2. path' = Value(args, at) /\ at' = After(args, at)
      BY <2>1, <3>1 DEF Value, After
    <3>3. at + 1 \in 1 .. Len(args)
      BY <1>0, <2>2, <2>4
    <3>4. path' \in Texts
      BY <1>0, <3>1, <3>3, ArgumentTexts
    <3>5. at' <= Len(args) + 1
      BY <1>0, <2>2, <2>4, <3>1
    <3> QED
      BY <2>1, <3>1, <3>2, <3>4, <3>5, ScanGoesOn
  <2> QED
    BY <2>3, <2>4
<1>4. CASE ScanOther
  <2>1. /\ Scanning /\ ~IsConfig(args, at)
        /\ path' = path /\ at' = at + 1 /\ UNCHANGED <<pc, outcome>>
    BY <1>4 DEF ScanOther, IsConfig
  <2>2. at' = After(args, at) /\ path' \in Texts
    BY <1>0, <2>1 DEF After, ConfigTypeOK
  <2>3. at' <= Len(args) + 1
    BY <1>0, <2>1 DEF Scanning, ArgsEnded
  <2> QED
    BY <2>1, <2>2, <2>3, ScanGoesOn
<1> QED
  BY <1>1, <1>2, <1>3, <1>4

\* When the parse begins, nothing was asked for, and nothing was visited.
LEMMA ParseBegins ==
    ASSUME ConfigInv, pc = "load", at' = 1, UNCHANGED <<args, path, flags, taken>>
    PROVE  \E V \in SUBSET Nat, n \in Nat : Scanned(V, n)'
<1>1. PICK V \in SUBSET Nat, n \in Nat : Scanned(V, n)
  BY DEF ConfigInv, ScanInv
<1>2. V \subseteq 1 .. n /\ 1 \in V
  BY <1>1 DEF Scanned, Route
<1>3. Asks(args, V, 1) = {}
  <2>1. \A i \in V : ~(i < 1)
    BY <1>2
  <2> QED
    BY <2>1 DEF Asks
<1>4. flags' = [f \in {} |-> Empty]
  BY DEF ConfigInv, Untouched
<1>5. Asked' = Empty
  BY <1>4 DEF Asked
<1>6. Last(args, Asks(args, V, 1), Empty)
  BY <1>3 DEF Last
<1>7. Scanned(V, n)'
  BY <1>1, <1>2, <1>5, <1>6 DEF Scanned
<1> QED
  BY <1>7

LEMMA StepLoad == ConfigInv /\ Load => ConfigInv'
<1> SUFFICES ASSUME ConfigInv, Load PROVE ConfigInv'
  OBVIOUS
<1>1. /\ pc = "load" /\ at' = 1 /\ outcome = Nil /\ UNCHANGED <<args, path, flags, taken>>
      /\ config = Default /\ flags = [f \in {} |-> Empty]
      /\ ConfigTypeOK
  BY DEF Load, ConfigInv, ConfigTypeOK, Untouched
<1>2. (\E V \in SUBSET Nat, n \in Nat : Scanned(V, n))'
  BY <1>1, ParseBegins
<1>3. CASE path = Empty /\ pc' = "parse" /\ UNCHANGED <<config, outcome>>
  <2>1. ConfigTypeOK' /\ Untouched' /\ Layered'
    BY <1>1, <1>3 DEF ConfigTypeOK, Untouched, Layered
  <2> QED
    BY <1>2, <1>3, <2>1 DEF ConfigInv, ScanInv
<1>4. CASE path \in DOMAIN Files /\ config' = applyRawConfig(config, Files[path])
           /\ pc' = "parse" /\ UNCHANGED outcome
  <2>1. ConfigTypeOK' /\ Untouched'
    BY <1>1, <1>4 DEF ConfigTypeOK, Untouched, applyRawConfig
  <2>2. path # Empty
    BY <1>4, ConfigAssumption
  <2>3. Layered'
    BY <1>1, <1>4, <2>2 DEF Layered, applyRawConfig
  <2> QED
    BY <1>2, <1>4, <2>1, <2>3 DEF ConfigInv, ScanInv
<1>5. CASE pc' = "end" /\ outcome' = "usage" /\ UNCHANGED config
  BY <1>1, <1>5 DEF ConfigInv, ConfigTypeOK, Untouched, Loaded, ScanInv
<1> QED
  BY <1>3, <1>4, <1>5 DEF Load, End

\* As long as what the parser takes is plain, it stays on the route of the
\* scan: where it takes a value, the scan goes by it or skips it too.
LEMMA ParserOnRoute ==
    ASSUME ConfigInv, ParseFlag, NEW V \in SUBSET Nat, NEW n \in Nat, Scanned(V, n), TakenPlain'
    PROVE  at' \in V /\ Last(args, Asks(args, V, at'), Asked')
<1>1. /\ pc = "parse" /\ args' = args /\ taken \subseteq taken'
      /\ at \in 1 .. Len(args) /\ Len(args) \in Nat /\ at \in Nat
      /\ args[at].flag # Nil
  BY ArgumentCount DEF ParseFlag, Parsing, AtFlag, ConfigInv, ConfigTypeOK
<1>2. TakenPlain /\ Loaded
  BY <1>1 DEF TakenPlain, Loaded
<1>3. at \in V /\ Last(args, Asks(args, V, at), Asked)
  BY <1>2 DEF Scanned
<1>4. V \subseteq 1 .. n /\ Stops(args, n)
  BY DEF Scanned, Route
<1>5. \A i \in V : ~Stops(args, i) =>
        After(args, i) \in V /\ \A j \in V : j <= i \/ After(args, i) <= j
  <2> SUFFICES ASSUME NEW i \in V, ~Stops(args, i)
               PROVE  After(args, i) \in V /\ \A j \in V : j <= i \/ After(args, i) <= j
    OBVIOUS
  <2>1. i # n /\ i \in 1 .. n
    BY <1>4
  <2>2. i < n
    BY <2>1
  <2> QED
    BY <2>2 DEF Scanned, Route
<1>6. ~Stops(args, at)
  <2>1. args[at].text # "--"
    BY <1>1, ArgumentTexts DEF ConfigInv
  <2> QED
    BY <1>1, <2>1 DEF Stops
<1>7. After(args, at) \in V /\ \A j \in V : j <= at \/ After(args, at) <= j
  BY <1>3, <1>5, <1>6
<1>8. IsConfig(args, at) => ~Bool(args[at].flag)
  BY ConfigAssumption DEF IsConfig, Bool
<1>9. at' \in V /\ at' \in Nat /\ at < at' /\ \A i \in V : at < i /\ i < at' => ~IsConfig(args, i)
  <2>1. CASE OwnValue
    <3>1. at' = at + 1
      BY <2>1 DEF ParseFlag
    <3>2. After(args, at) = at + 1
      BY <1>8, <2>1 DEF After, OwnValue
    <3> QED
      BY <1>1, <1>7, <3>1, <3>2
  <2>2. CASE ~OwnValue
    <3>1. at' = at + 2 /\ taken' = taken \cup {at + 1} /\ at < Len(args) /\ args[at].value = Nil
      BY <2>2 DEF ParseFlag, Parsable, OwnValue
    <3>2. CASE IsConfig(args, at)
      <4>1. After(args, at) = at'
        BY <1>1, <3>1, <3>2 DEF After
      <4>2. at' \in V /\ \A j \in V : j <= at \/ at' <= j
        BY <1>7, <4>1
      <4>3. at' \in Nat /\ at < at'
        BY <1>1, <3>1
      <4>4. \A i \in V : ~(at < i /\ i < at')
        BY <1>1, <4>2, <4>3
      <4> QED
        BY <4>2, <4>3, <4>4
    <3>3. CASE ~IsConfig(args, at)
      <4>1. at + 1 \in V
        BY <1>7, <3>3 DEF After
      <4>2. args[at + 1].text # "--" /\ ~IsConfig(args, at + 1)
        BY <1>1, <3>1 DEF TakenPlain, IsConfig
      <4>3. ~Stops(args, at + 1)
        BY <1>1, <3>1, <4>2 DEF Stops
      <4>4. After(args, at + 1) \in V
        BY <1>5, <4>1, <4>3
      <4>5. After(args, at + 1) = at'
        BY <1>1, <3>1, <4>2 DEF After
      <4>6. \A i \in V : at < i /\ i < at' => i = at + 1
        BY <1>1, <3>1
      <4>7. \A i \in V : at < i /\ i < at' => ~IsConfig(args, i)
        BY <4>2, <4>6
      <4>8. at' \in V
        BY <4>4, <4>5
      <4>9. at' \in Nat /\ at < at'
        BY <1>1, <3>1
      <4> QED
        BY <4>7, <4>8, <4>9
    <3> QED
      BY <3>2, <3>3
  <2> QED
    BY <2>1, <2>2
<1>10. Asked' = IF IsConfig(args, at) THEN Value(args, at) ELSE Asked
  <2>1. flags' = [g \in DOMAIN flags \cup {args[at].flag} |->
                     IF g = args[at].flag THEN ValueHere ELSE flags[g]]
    BY DEF ParseFlag
  <2>2. CASE IsConfig(args, at)
    <3>1. Asked' = ValueHere
      BY <2>1, <2>2 DEF Asked, IsConfig
    <3>2. ValueHere = Value(args, at)
      BY <1>8, <2>2 DEF ValueHere, Value
    <3> QED
      BY <2>2, <3>1, <3>2
  <2>3. CASE ~IsConfig(args, at)
    BY <2>1, <2>3 DEF Asked, IsConfig
  <2> QED
    BY <2>2, <2>3
<1>11. Last(args, Asks(args, V, at'), IF IsConfig(args, at) THEN Value(args, at) ELSE Asked)
  BY <1>3, <1>9, LastGrows
<1> QED
  BY <1>9, <1>10, <1>11

\* The last flag of a setting is what it is set to.
LEMMA ParserLayers ==
    ASSUME ConfigInv, ParseFlag
    PROVE  Layered' /\ DOMAIN config' = Settings
<1>1. /\ path' = path /\ Layered /\ DOMAIN config = Settings
  BY DEF ParseFlag, Parsing, ConfigInv, ConfigTypeOK, Loaded
<1> DEFINE f == args[at].flag
<1>2. /\ config' = IF f \in Settings THEN [config EXCEPT ![f] = ValueHere] ELSE config
      /\ flags' = [g \in DOMAIN flags \cup {f} |-> IF g = f THEN ValueHere ELSE flags[g]]
  BY DEF ParseFlag
<1> HIDE DEF f
<1>3. ASSUME NEW s \in Settings
      PROVE  config'[s] = IF s \in DOMAIN flags' THEN flags'[s]
                          ELSE IF path # Empty /\ s \in DOMAIN Files[path] THEN Files[path][s]
                          ELSE Default[s]
  <2>1. CASE s = f
    BY <1>1, <1>2, <2>1
  <2>2. CASE s # f
    BY <1>1, <1>2, <2>2 DEF Layered
  <2> QED
    BY <2>1, <2>2
<1>4. DOMAIN config' = Settings
  BY <1>1, <1>2
<1> QED
  BY <1>1, <1>3, <1>4 DEF Layered

LEMMA StepParse == ConfigInv /\ (ParseEnds \/ ParseFlag \/ ParseFails \/ Validate) => ConfigInv'
<1> SUFFICES ASSUME ConfigInv, ParseEnds \/ ParseFlag \/ ParseFails \/ Validate PROVE ConfigInv'
  OBVIOUS
<1>0. ConfigTypeOK /\ at \in Nat \ {0} /\ Len(args) \in Nat
  BY ArgumentCount DEF ConfigInv, ConfigTypeOK
<1>1. CASE ParseEnds \/ Validate
  <2>1. /\ UNCHANGED <<args, at, path, config, flags, taken>> /\ Loaded
        /\ pc' \in {"validate", "end"}
        /\ pc' = "validate" => outcome' = outcome
    BY <1>1 DEF ParseEnds, Validate, End, Loaded
  <2>2. ConfigTypeOK' /\ Untouched'
    BY <1>1, <2>1 DEF ConfigInv, ConfigTypeOK, Untouched, ParseEnds, Validate, End
  <2>3. Layered'
    BY <2>1 DEF ConfigInv, Layered
  <2>4. PICK V \in SUBSET Nat, n \in Nat : Scanned(V, n)
    BY <2>1 DEF ConfigInv, ScanInv
  <2>5. Scanned(V, n)'
    BY <2>1, <2>4 DEF Scanned, TakenPlain, Asked
  <2>6. (\E U \in SUBSET Nat, m \in Nat : Scanned(U, m))'
    BY <2>5
  <2> QED
    BY <2>1, <2>2, <2>3, <2>6 DEF ConfigInv, ScanInv
<1>2. CASE ParseFlag
  <2>1. UNCHANGED <<args, pc, path, outcome>> /\ pc = "parse" /\ Loaded
    BY <1>2 DEF ParseFlag, Parsing, Loaded
  <2>2. ConfigTypeOK' /\ Untouched' /\ Layered'
    BY <1>0, <1>2, <2>1, ParserLayers DEF ConfigTypeOK, Untouched, ParseFlag
  <2>3. PICK V \in SUBSET Nat, n \in Nat : Scanned(V, n)
    BY <2>1 DEF ConfigInv, ScanInv
  <2>4. Scanned(V, n)'
    BY <1>2, <2>1, <2>3, ParserOnRoute DEF Scanned
  <2>5. (\E U \in SUBSET Nat, m \in Nat : Scanned(U, m))'
    BY <2>4
  <2> QED
    BY <2>1, <2>2, <2>5 DEF ConfigInv, ScanInv
<1>3. CASE ParseFails
  <2>1. /\ pc' = "end" /\ outcome' = "usage" /\ UNCHANGED <<args, at, path, config, flags, taken>>
    BY <1>3 DEF ParseFails, End
  <2> QED
    BY <1>0, <2>1 DEF ConfigInv, ConfigTypeOK, Untouched, Loaded, ScanInv
<1> QED
  BY <1>1, <1>2, <1>3

LEMMA AlwaysConfigInv == CSpec => []ConfigInv
<1>1. ConfigInv /\ [CNext]_cvars => ConfigInv'
  <2>1. CASE UNCHANGED cvars
    BY <2>1 DEF cvars, ConfigInv, ConfigTypeOK, Untouched, Loaded, Layered, ScanInv, Scanned,
                TakenPlain, Asked
  <2> QED
    BY <2>1, StepScan, StepLoad, StepParse DEF CNext
<1> QED
  BY <1>1, InitConfigInv, PTL DEF CSpec

\* A setting has the value of its last flag, else the one in the config file,
\* else the default.
THEOREM PrecedenceAlways == CSpec => []Precedence
<1>1. ConfigInv => Precedence
  BY DEF ConfigInv, Precedence, Parsed, Loaded, Layered
<1> QED
  BY <1>1, AlwaysConfigInv, PTL

\* However the arguments are arranged, as long as the parser takes nothing the
\* scan would read otherwise, both find the same config file.
THEOREM ScanAgreesAlways == CSpec => []ScanAgrees
<1>1. ASSUME ConfigInv, Parsed, Plain
      PROVE  path = Asked
  <2>1. TakenPlain /\ Loaded /\ at \in Nat
    BY <1>1 DEF Plain, TakenPlain, Parsed, Loaded, ConfigInv, ConfigTypeOK
  <2>2. PICK V \in SUBSET Nat, n \in Nat : Scanned(V, n)
    BY <1>1, <2>1 DEF ConfigInv, ScanInv
  <2>3. /\ at \in V /\ Last(args, Asks(args, V, at), Asked)
        /\ Last(args, Asks(args, V, n), path)
        /\ V \subseteq 1 .. n /\ Stops(args, n)
    BY <2>1, <2>2 DEF Scanned, Route
  <2>4. \A i \in V : at <= i /\ i < n => ~IsConfig(args, i)
    <3> SUFFICES ASSUME NEW i \in V, at <= i, i < n PROVE ~IsConfig(args, i)
      OBVIOUS
    <3>1. at \in Nat /\ n \in Nat /\ at < n
      BY <2>1, <2>3
    <3>2. ~Stops(args, i) /\ ~Stops(args, at)
      BY <2>2, <2>3, <3>1 DEF Scanned, Route
    <3>3. Len(args) \in Nat
      BY <1>1, ArgumentCount DEF ConfigInv
    <3>4. i \in at .. Len(args) /\ at <= Len(args) /\ args[at].text # "--"
      BY <2>1, <3>2, <3>3 DEF Stops
    <3> QED
      BY <1>1, <3>4 DEF Plain, IsConfig
  <2>5. \A i \in V : i < n /\ IsConfig(args, i) <=> i < at /\ IsConfig(args, i)
    BY <2>1, <2>3, <2>4
  <2>6. Asks(args, V, n) = Asks(args, V, at) /\ Asks(args, V, n) \in SUBSET Nat
    BY <2>5 DEF Asks
  <2> QED
    BY <2>3, <2>6, OneLast
<1>2. ConfigInv => ScanAgrees
  BY <1>1 DEF ScanAgrees
<1> QED
  BY <1>2, AlwaysConfigInv, PTL
=============================================================================
