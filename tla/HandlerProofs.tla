--------------------------- MODULE HandlerProofs ---------------------------
(***************************************************************************)
(* Facts about Handler, the ledger it keeps and the Traffic log around it, *)
(* for any finite set of requests, any mappings, configured responses,     *)
(* bodies and limits.                                                      *)
(***************************************************************************)
EXTENDS Traffic, CountingTheorems, SequenceTheorems

LEMMA InitTypeOK == Init => TypeOK
<1> SUFFICES ASSUME Init PROVE TypeOK
  OBVIOUS
<1> USE HandlerAssumption DEF Init, Outside, Handling, Accounting
<1>1. newRequestMetricState \in Labels
  BY DEF newRequestMetricState, Labels
<1>2. /\ pc \in [Requests -> Outside \cup Handling \cup {"done"}]
      /\ target \in [Requests -> Mappings \cup {NoMapping}]
      /\ chosen \in [Requests -> Nat \cup {-1}]
      /\ wire \in [Requests -> Nat]
      /\ gone \subseteq Requests
      /\ inFlight \in Int
  OBVIOUS
<1>3. state \in [Requests -> Labels]
  BY <1>1
<1>4. next \in [Mappings -> Nat] /\ \A m \in Mappings : next[m] \in Variants(m)
  BY DEF Variants
<1>5. /\ DOMAIN total \subseteq Labels /\ Range(total) \subseteq Nat
      /\ DOMAIN latency \subseteq Labels /\ Range(latency) \subseteq Nat
  BY DEF NoVector, Range
<1> QED
  BY <1>2, <1>3, <1>4, <1>5 DEF TypeOK

\* Counting one more under a label keeps a vector a vector of naturals.
LEMMA IncType ==
    ASSUME NEW vec, DOMAIN vec \subseteq Labels, Range(vec) \subseteq Nat,
           NEW l \in Labels
    PROVE  /\ DOMAIN Inc(vec, l) = DOMAIN vec \cup {l}
           /\ Range(Inc(vec, l)) \subseteq Nat
           /\ \A k \in DOMAIN vec \cup {l} :
                 Inc(vec, l)[k] = Count(vec, k) + (IF k = l THEN 1 ELSE 0)
<1>1. \A k \in DOMAIN vec \cup {l} : Count(vec, k) \in Nat
  BY DEF Count, Range
<1>2. /\ DOMAIN Inc(vec, l) = DOMAIN vec \cup {l}
      /\ \A k \in DOMAIN vec \cup {l} :
            Inc(vec, l)[k] = Count(vec, k) + (IF k = l THEN 1 ELSE 0)
  BY DEF Inc
<1>3. \A k \in DOMAIN Inc(vec, l) : Inc(vec, l)[k] \in Nat
  BY <1>1, <1>2
<1> QED
  BY <1>2, <1>3 DEF Range

(***************************************************************************)
(* The inductive invariant.  TruthfulStatus is not inductive: it must be   *)
(* known, from the match on, that the label carries the status of the      *)
(* variant that was chosen, and that nothing was sent yet.                 *)
(***************************************************************************)
InService ==
    \A r \in Requests :
        /\ pc[r] \in {"body", "match"} => state[r] = newRequestMetricState
        /\ pc[r] \in {"render", "sleep", "write"} =>
              /\ target[r] \in Mappings
              /\ chosen[r] \in Variants(target[r])
              /\ state[r].status = Chosen(r).status

Unsent == \A r \in Requests :
    pc[r] \in {"idle", "body", "match", "render", "sleep", "write"} => wire[r] = 0

IInv == TypeOK /\ InService /\ Unsent /\ TruthfulStatus

LEMMA SelectableVariants ==
    ASSUME TypeOK, NEW m \in Mappings
    PROVE  Selectable(m) \subseteq Variants(m)
  BY HandlerAssumption DEF TypeOK, Selectable, Variants, SelectorModes

LEMMA CursorWraps ==
    ASSUME NEW i \in Nat, NEW n \in Nat \ {0}
    PROVE  (i + 1) % n \in 0 .. n - 1
  OBVIOUS

\* The label revisions of the error paths stay labels.
LEMMA StatusRevised ==
    ASSUME NEW l \in Labels, NEW s \in 100 .. 599
    PROVE  [l EXCEPT !.status = s] \in Labels
  BY SMT DEF Labels

LEMMA StubRevised ==
    ASSUME NEW l \in Labels, NEW m \in Mappings
    PROVE  [l EXCEPT !.stub = m, !.matched = TRUE] \in Labels
<1> DEFINE k == [l EXCEPT !.stub = m]
<1>1. k \in Labels
  BY SMT DEF Labels
<1>2. [k EXCEPT !.matched = TRUE] \in Labels
  BY <1>1, Zenon DEF Labels
<1> QED
  BY <1>2

LEMMA FinalType ==
    ASSUME NEW s \in 100 .. 599
    PROVE  Final(s) \in Nat \ {0}
  BY DEF Final

LEMMA CountType ==
    ASSUME TypeOK, NEW r \in Requests
    PROVE  /\ DOMAIN Inc(total, state[r]) \subseteq Labels
           /\ Range(Inc(total, state[r])) \subseteq Nat
           /\ DOMAIN Inc(latency, state[r]) \subseteq Labels
           /\ Range(Inc(latency, state[r])) \subseteq Nat
<1>1. /\ state[r] \in Labels
      /\ DOMAIN total \subseteq Labels /\ Range(total) \subseteq Nat
      /\ DOMAIN latency \subseteq Labels /\ Range(latency) \subseteq Nat
  BY DEF TypeOK
<1>2. /\ DOMAIN Inc(total, state[r]) = DOMAIN total \cup {state[r]}
      /\ Range(Inc(total, state[r])) \subseteq Nat
  BY <1>1, IncType
<1>3. /\ DOMAIN Inc(latency, state[r]) = DOMAIN latency \cup {state[r]}
      /\ Range(Inc(latency, state[r])) \subseteq Nat
  BY <1>1, IncType
<1> QED
  BY <1>1, <1>2, <1>3

LEMMA StepTypeOK == IInv /\ [Next]_vars => TypeOK'
<1> SUFFICES ASSUME IInv, [Next]_vars PROVE TypeOK'
  OBVIOUS
<1>0. TypeOK
  BY DEF IInv
<1>a. \A r \in Requests : state[r] \in Labels /\ target[r] \in Mappings \cup {NoMapping}
  BY <1>0 DEF TypeOK
<1> USE <1>0, HandlerAssumption DEF TypeOK, Outside, Handling, Accounting
<1>1. ASSUME NEW r \in Requests, ServeProbe(r) PROVE TypeOK'
  BY <1>1 DEF ServeProbe, Move, Send, selection, metrics
<1>2. ASSUME NEW r \in Requests, ServeMetrics(r) PROVE TypeOK'
  BY <1>2 DEF ServeMetrics, Move, Send, selection, metrics
<1>3. ASSUME NEW r \in Requests, handleStub(r) PROVE TypeOK'
  <2>1. newRequestMetricState \in Labels
    BY DEF newRequestMetricState, Labels
  <2> QED
    BY <1>3, <2>1 DEF handleStub, Move, Mark
<1>4. ASSUME NEW r \in Requests, ClientLeaves(r) PROVE TypeOK'
  BY <1>4 DEF ClientLeaves, selection, metrics
<1>5. ASSUME NEW r \in Requests, ReadBody(r) PROVE TypeOK'
  BY <1>5 DEF ReadBody, Move, selection, metrics
<1>6. ASSUME NEW r \in Requests, ReadBodyFails(r) PROVE TypeOK'
  BY <1>6 DEF ReadBodyFails, Move, Send, selection, metrics
<1>7. ASSUME NEW r \in Requests, Unmatched(r) PROVE TypeOK'
  <2>1. [state[r] EXCEPT !.status = 404] \in Labels
    <3>1. 404 \in 100 .. 599 /\ state[r] \in Labels
      BY <1>a
    <3> QED
      BY <3>1, StatusRevised, Zenon
  <2>2. state' = [state EXCEPT ![r] = [state[r] EXCEPT !.status = 404]]
    BY <1>7 DEF Unmatched, Mark
  <2>3. state' \in [Requests -> Labels]
    BY <2>1, <2>2
  <2>4. /\ pc' = [pc EXCEPT ![r] = "count"]
        /\ wire' = [wire EXCEPT ![r] = 404]
        /\ UNCHANGED <<target, chosen, next, gone, inFlight, total, latency>>
    BY <1>7 DEF Unmatched, Move, Mark, Send, selection, metrics
  <2> QED
    BY <2>3, <2>4
<1>8. ASSUME NEW r \in Requests, SelectFails(r) PROVE TypeOK'
  <2> DEFINE revised == [state[r] EXCEPT !.stub = target[r], !.matched = TRUE]
  <2>1. revised \in Labels
    <3>1. state[r] \in Labels /\ target[r] \in Mappings
      BY <1>8, <1>a DEF SelectFails
    <3> QED
      BY <3>1, StubRevised
  <2>2. Mark(r, revised)
    BY <1>8 DEF SelectFails
  <2> HIDE DEF revised
  <2>3. state' \in [Requests -> Labels]
    BY <2>1, <2>2 DEF Mark
  <2>4. /\ pc' = [pc EXCEPT ![r] = "count"]
        /\ wire' = [wire EXCEPT ![r] = 500]
        /\ UNCHANGED <<target, chosen, next, gone, inFlight, total, latency>>
    BY <1>8 DEF SelectFails, Move, Mark, Send, selection, metrics
  <2> QED
    BY <2>3, <2>4
<1>9. ASSUME NEW r \in Requests, SelectPanics(r) PROVE TypeOK'
  BY <1>9 DEF SelectPanics, Move, selection, metrics
<1>10. ASSUME NEW r \in Requests, Matched(r) PROVE TypeOK'
  <2>1. PICK v \in Selectable(target[r]) :
           /\ chosen' = [chosen EXCEPT ![r] = v]
           /\ Mark(r, [stub |-> target[r], variant |-> variantName(target[r], v),
                       status |-> Response[target[r]][v].status, matched |-> TRUE])
    BY <1>10 DEF Matched
  <2>2. target[r] \in Mappings
    BY <1>10 DEF Matched
  <2>3. v \in Variants(target[r]) /\ v \in Nat
    BY <2>1, <2>2, SelectableVariants DEF Variants, IInv
  <2>4. Response[target[r]][v].status \in 100 .. 599 /\ variantName(target[r], v) \in Names
    <3>1. Response[target[r]][v] \in Responses
      BY <2>2, <2>3, HandlerAssumption
    <3> QED
      BY <3>1, HandlerAssumption DEF Responses, variantName
  <2>5. state' \in [Requests -> Labels]
    BY <2>1, <2>2, <2>4, ZenonT(40) DEF Mark, Labels
  <2>6. next' \in [Mappings -> Nat] /\ \A m \in Mappings : next'[m] \in Variants(m)
    BY <1>10, <2>2, CursorWraps DEF Matched, Variants
  <2> QED
    BY <1>10, <2>1, <2>3, <2>5, <2>6 DEF Matched, Move, metrics
<1>11. ASSUME NEW r \in Requests, RenderFails(r) PROVE TypeOK'
  <2>1. [state[r] EXCEPT !.status = 500] \in Labels
    <3>1. 500 \in 100 .. 599 /\ state[r] \in Labels
      BY <1>a
    <3> QED
      BY <3>1, StatusRevised, ZenonT(30)
  <2>2. state' = [state EXCEPT ![r] = [state[r] EXCEPT !.status = 500]]
    BY <1>11 DEF RenderFails, Mark
  <2>3. state' \in [Requests -> Labels]
    BY <2>1, <2>2
  <2>4. /\ pc' = [pc EXCEPT ![r] = "count"]
        /\ wire' = [wire EXCEPT ![r] = 500]
        /\ UNCHANGED <<target, chosen, next, gone, inFlight, total, latency>>
    BY <1>11 DEF RenderFails, Move, Mark, Send, selection, metrics
  <2> QED
    BY <2>3, <2>4
<1>12. ASSUME NEW r \in Requests, RenderNoDelay(r) PROVE TypeOK'
  BY <1>12 DEF RenderNoDelay, Move, selection, metrics
<1>13. ASSUME NEW r \in Requests, RenderDelay(r) PROVE TypeOK'
  BY <1>13 DEF RenderDelay, Move, selection, metrics
<1>14. ASSUME NEW r \in Requests, DelayPanics(r) PROVE TypeOK'
  BY <1>14 DEF DelayPanics, Move, selection, metrics
<1>22. ASSUME NEW r \in Requests, RenderPanics(r) PROVE TypeOK'
  BY <1>22 DEF RenderPanics, Move, selection, metrics
<1>15. ASSUME NEW r \in Requests, TimerFires(r) PROVE TypeOK'
  BY <1>15 DEF TimerFires, Move, selection, metrics
<1>16. ASSUME NEW r \in Requests, DelayCancelled(r) PROVE TypeOK'
  BY <1>16 DEF DelayCancelled, Move, selection, metrics
<1>17. ASSUME NEW r \in Requests, WriteResponse(r) PROVE TypeOK'
  <2>1. Response[target[r]][chosen[r]] \in Responses
    BY <1>17 DEF WriteResponse, Move, InService, IInv
  <2>2. Final(Chosen(r).status) \in Nat
    BY <2>1, FinalType DEF Chosen, Responses
  <2> QED
    BY <1>17, <2>2 DEF WriteResponse, Move, Send, selection, metrics
<1>18. ASSUME NEW r \in Requests, CountRequest(r) PROVE TypeOK'
  <2>1. DOMAIN total' \subseteq Labels /\ Range(total') \subseteq Nat
    <3>1. total' = Inc(total, state[r])
      BY <1>18 DEF CountRequest
    <3> QED
      BY <3>1, <1>0, CountType
  <2> QED
    BY <1>18, <2>1 DEF CountRequest, Move, selection
<1>19. ASSUME NEW r \in Requests, ObserveLatency(r) PROVE TypeOK'
  <2>1. DOMAIN latency' \subseteq Labels /\ Range(latency') \subseteq Nat
    <3>1. latency' = Inc(latency, state[r])
      BY <1>19 DEF ObserveLatency
    <3> QED
      BY <3>1, <1>0, CountType
  <2> QED
    BY <1>19, <2>1 DEF ObserveLatency, Move, selection
<1>20. ASSUME NEW r \in Requests, LeaveFlight(r) PROVE TypeOK'
  BY <1>20 DEF LeaveFlight, Move, selection
<1>21. CASE UNCHANGED vars
  BY <1>21 DEF vars
<1> QED
  BY <1>1, <1>2, <1>3, <1>4, <1>5, <1>6, <1>7, <1>8, <1>9, <1>10,
     <1>11, <1>12, <1>13, <1>14, <1>15, <1>16, <1>17, <1>18, <1>19, <1>20, <1>21, <1>22
  DEF Next, Arrive, Dispatch, Serve, Finish

LEMMA StepInService == IInv /\ [Next]_vars => InService'
<1> SUFFICES ASSUME IInv, [Next]_vars PROVE InService'
  OBVIOUS
<1>0. /\ pc \in [Requests -> Outside \cup Handling \cup {"done"}]
      /\ target \in [Requests -> Mappings \cup {NoMapping}]
      /\ chosen \in [Requests -> Nat \cup {-1}]
      /\ state \in [Requests -> Labels]
      /\ wire \in [Requests -> Nat]
      /\ InService /\ Unsent /\ TruthfulStatus
  BY DEF IInv, TypeOK
<1> USE <1>0 DEF InService, Chosen
<1>1. ASSUME NEW r \in Requests, ServeProbe(r) PROVE InService'
  BY <1>1 DEF ServeProbe, Move, Send, selection, metrics
<1>2. ASSUME NEW r \in Requests, ServeMetrics(r) PROVE InService'
  BY <1>2 DEF ServeMetrics, Move, Send, selection, metrics
<1>3. ASSUME NEW r \in Requests, handleStub(r) PROVE InService'
  BY <1>3 DEF handleStub, Move, Mark
<1>4. ASSUME NEW r \in Requests, ClientLeaves(r) PROVE InService'
  BY <1>4 DEF ClientLeaves, selection, metrics
<1>5. ASSUME NEW r \in Requests, ReadBody(r) PROVE InService'
  BY <1>5 DEF ReadBody, Move, selection, metrics
<1>6. ASSUME NEW r \in Requests, ReadBodyFails(r) PROVE InService'
  BY <1>6 DEF ReadBodyFails, Move, Send, selection, metrics
<1>7. ASSUME NEW r \in Requests, Unmatched(r) PROVE InService'
  BY <1>7 DEF Unmatched, Move, Mark, Send, selection, metrics
<1>8. ASSUME NEW r \in Requests, SelectFails(r) PROVE InService'
  BY <1>8 DEF SelectFails, Move, Mark, Send, selection, metrics
<1>9. ASSUME NEW r \in Requests, SelectPanics(r) PROVE InService'
  BY <1>9 DEF SelectPanics, Move, selection, metrics
<1>10. ASSUME NEW r \in Requests, Matched(r) PROVE InService'
  <2>1. PICK v \in Selectable(target[r]) :
           /\ chosen' = [chosen EXCEPT ![r] = v]
           /\ Mark(r, [stub |-> target[r], variant |-> variantName(target[r], v),
                       status |-> Response[target[r]][v].status, matched |-> TRUE])
    BY <1>10 DEF Matched
  <2>2. target[r] \in Mappings
    BY <1>10 DEF Matched
  <2>3. v \in Variants(target[r])
    BY <2>1, <2>2, SelectableVariants DEF IInv
  <2> QED
    BY <1>10, <2>1, <2>2, <2>3 DEF Matched, Move, Mark
<1>11. ASSUME NEW r \in Requests, RenderFails(r) PROVE InService'
  BY <1>11 DEF RenderFails, Move, Mark, Send, selection, metrics
<1>12. ASSUME NEW r \in Requests, RenderNoDelay(r) PROVE InService'
  BY <1>12 DEF RenderNoDelay, Move, selection, metrics
<1>13. ASSUME NEW r \in Requests, RenderDelay(r) PROVE InService'
  BY <1>13 DEF RenderDelay, Move, selection, metrics
<1>14. ASSUME NEW r \in Requests, DelayPanics(r) PROVE InService'
  BY <1>14 DEF DelayPanics, Move, selection, metrics
<1>22. ASSUME NEW r \in Requests, RenderPanics(r) PROVE InService'
  BY <1>22 DEF RenderPanics, Move, selection, metrics
<1>15. ASSUME NEW r \in Requests, TimerFires(r) PROVE InService'
  BY <1>15 DEF TimerFires, Move, selection, metrics
<1>16. ASSUME NEW r \in Requests, DelayCancelled(r) PROVE InService'
  BY <1>16 DEF DelayCancelled, Move, selection, metrics
<1>17. ASSUME NEW r \in Requests, WriteResponse(r) PROVE InService'
  BY <1>17 DEF WriteResponse, Move, Send, selection, metrics
<1>18. ASSUME NEW r \in Requests, CountRequest(r) PROVE InService'
  BY <1>18 DEF CountRequest, Move, selection
<1>19. ASSUME NEW r \in Requests, ObserveLatency(r) PROVE InService'
  BY <1>19 DEF ObserveLatency, Move, selection
<1>20. ASSUME NEW r \in Requests, LeaveFlight(r) PROVE InService'
  BY <1>20 DEF LeaveFlight, Move, selection
<1>21. CASE UNCHANGED vars
  BY <1>21 DEF vars
<1> QED
  BY <1>1, <1>2, <1>3, <1>4, <1>5, <1>6, <1>7, <1>8, <1>9, <1>10,
     <1>11, <1>12, <1>13, <1>14, <1>15, <1>16, <1>17, <1>18, <1>19, <1>20, <1>21, <1>22
  DEF Next, Arrive, Dispatch, Serve, Finish

LEMMA StepUnsent == IInv /\ [Next]_vars => Unsent'
<1> SUFFICES ASSUME IInv, [Next]_vars PROVE Unsent'
  OBVIOUS
<1>0. /\ pc \in [Requests -> Outside \cup Handling \cup {"done"}]
      /\ target \in [Requests -> Mappings \cup {NoMapping}]
      /\ chosen \in [Requests -> Nat \cup {-1}]
      /\ state \in [Requests -> Labels]
      /\ wire \in [Requests -> Nat]
      /\ InService /\ Unsent /\ TruthfulStatus
  BY DEF IInv, TypeOK
<1> USE <1>0 DEF Unsent
<1>1. ASSUME NEW r \in Requests, ServeProbe(r) PROVE Unsent'
  BY <1>1 DEF ServeProbe, Move, Send, selection, metrics
<1>2. ASSUME NEW r \in Requests, ServeMetrics(r) PROVE Unsent'
  BY <1>2 DEF ServeMetrics, Move, Send, selection, metrics
<1>3. ASSUME NEW r \in Requests, handleStub(r) PROVE Unsent'
  BY <1>3 DEF handleStub, Move, Mark
<1>4. ASSUME NEW r \in Requests, ClientLeaves(r) PROVE Unsent'
  BY <1>4 DEF ClientLeaves, selection, metrics
<1>5. ASSUME NEW r \in Requests, ReadBody(r) PROVE Unsent'
  BY <1>5 DEF ReadBody, Move, selection, metrics
<1>6. ASSUME NEW r \in Requests, ReadBodyFails(r) PROVE Unsent'
  BY <1>6 DEF ReadBodyFails, Move, Send, selection, metrics
<1>7. ASSUME NEW r \in Requests, Unmatched(r) PROVE Unsent'
  BY <1>7 DEF Unmatched, Move, Mark, Send, selection, metrics
<1>8. ASSUME NEW r \in Requests, SelectFails(r) PROVE Unsent'
  BY <1>8 DEF SelectFails, Move, Mark, Send, selection, metrics
<1>9. ASSUME NEW r \in Requests, SelectPanics(r) PROVE Unsent'
  BY <1>9 DEF SelectPanics, Move, selection, metrics
<1>10. ASSUME NEW r \in Requests, Matched(r) PROVE Unsent'
  BY <1>10 DEF Matched, Move, Mark, metrics
<1>11. ASSUME NEW r \in Requests, RenderFails(r) PROVE Unsent'
  BY <1>11 DEF RenderFails, Move, Mark, Send, selection, metrics
<1>12. ASSUME NEW r \in Requests, RenderNoDelay(r) PROVE Unsent'
  BY <1>12 DEF RenderNoDelay, Move, selection, metrics
<1>13. ASSUME NEW r \in Requests, RenderDelay(r) PROVE Unsent'
  BY <1>13 DEF RenderDelay, Move, selection, metrics
<1>14. ASSUME NEW r \in Requests, DelayPanics(r) PROVE Unsent'
  BY <1>14 DEF DelayPanics, Move, selection, metrics
<1>22. ASSUME NEW r \in Requests, RenderPanics(r) PROVE Unsent'
  BY <1>22 DEF RenderPanics, Move, selection, metrics
<1>15. ASSUME NEW r \in Requests, TimerFires(r) PROVE Unsent'
  BY <1>15 DEF TimerFires, Move, selection, metrics
<1>16. ASSUME NEW r \in Requests, DelayCancelled(r) PROVE Unsent'
  BY <1>16 DEF DelayCancelled, Move, selection, metrics
<1>17. ASSUME NEW r \in Requests, WriteResponse(r) PROVE Unsent'
  BY <1>17 DEF WriteResponse, Move, Send, selection, metrics
<1>18. ASSUME NEW r \in Requests, CountRequest(r) PROVE Unsent'
  BY <1>18 DEF CountRequest, Move, selection
<1>19. ASSUME NEW r \in Requests, ObserveLatency(r) PROVE Unsent'
  BY <1>19 DEF ObserveLatency, Move, selection
<1>20. ASSUME NEW r \in Requests, LeaveFlight(r) PROVE Unsent'
  BY <1>20 DEF LeaveFlight, Move, selection
<1>21. CASE UNCHANGED vars
  BY <1>21 DEF vars
<1> QED
  BY <1>1, <1>2, <1>3, <1>4, <1>5, <1>6, <1>7, <1>8, <1>9, <1>10,
     <1>11, <1>12, <1>13, <1>14, <1>15, <1>16, <1>17, <1>18, <1>19, <1>20, <1>21, <1>22
  DEF Next, Arrive, Dispatch, Serve, Finish

LEMMA StepTruthful == IInv /\ [Next]_vars => TruthfulStatus'
<1> SUFFICES ASSUME IInv, [Next]_vars PROVE TruthfulStatus'
  OBVIOUS
<1>0. /\ pc \in [Requests -> Outside \cup Handling \cup {"done"}]
      /\ target \in [Requests -> Mappings \cup {NoMapping}]
      /\ chosen \in [Requests -> Nat \cup {-1}]
      /\ state \in [Requests -> Labels]
      /\ wire \in [Requests -> Nat]
      /\ InService /\ Unsent /\ TruthfulStatus
  BY DEF IInv, TypeOK
<1> USE <1>0 DEF TruthfulStatus, Unsent, Accounting, Final
<1>1. ASSUME NEW r \in Requests, ServeProbe(r) PROVE TruthfulStatus'
  BY <1>1 DEF ServeProbe, Move, Send, selection, metrics
<1>2. ASSUME NEW r \in Requests, ServeMetrics(r) PROVE TruthfulStatus'
  BY <1>2 DEF ServeMetrics, Move, Send, selection, metrics
<1>3. ASSUME NEW r \in Requests, handleStub(r) PROVE TruthfulStatus'
  BY <1>3 DEF handleStub, Move, Mark
<1>4. ASSUME NEW r \in Requests, ClientLeaves(r) PROVE TruthfulStatus'
  BY <1>4 DEF ClientLeaves, selection, metrics
<1>5. ASSUME NEW r \in Requests, ReadBody(r) PROVE TruthfulStatus'
  BY <1>5 DEF ReadBody, Move, selection, metrics
<1>6. ASSUME NEW r \in Requests, ReadBodyFails(r) PROVE TruthfulStatus'
  <2>1. state[r].status = 500
    BY <1>6 DEF ReadBodyFails, Move, InService, newRequestMetricState
  <2> QED
    BY <1>6, <2>1 DEF ReadBodyFails, Move, Send, selection, metrics
<1>7. ASSUME NEW r \in Requests, Unmatched(r) PROVE TruthfulStatus'
  BY <1>7 DEF Unmatched, Move, Mark, Send, selection, metrics
<1>8. ASSUME NEW r \in Requests, SelectFails(r) PROVE TruthfulStatus'
  <2>1. state[r].status = 500
    BY <1>8 DEF SelectFails, Move, InService, newRequestMetricState
  <2>2. state'[r].status = 500
    BY <1>8, <2>1 DEF SelectFails, Mark
  <2>3. \A q \in Requests \ {r} : state'[q] = state[q]
    BY <1>8 DEF SelectFails, Mark
  <2>4. /\ pc' = [pc EXCEPT ![r] = "count"]
        /\ wire' = [wire EXCEPT ![r] = 500]
    BY <1>8 DEF SelectFails, Move, Send
  <2> QED
    BY <2>2, <2>3, <2>4
<1>9. ASSUME NEW r \in Requests, SelectPanics(r) PROVE TruthfulStatus'
  BY <1>9 DEF SelectPanics, Move, selection, metrics
<1>10. ASSUME NEW r \in Requests, Matched(r) PROVE TruthfulStatus'
  BY <1>10 DEF Matched, Move, Mark, metrics
<1>11. ASSUME NEW r \in Requests, RenderFails(r) PROVE TruthfulStatus'
  BY <1>11 DEF RenderFails, Move, Mark, Send, selection, metrics
<1>12. ASSUME NEW r \in Requests, RenderNoDelay(r) PROVE TruthfulStatus'
  BY <1>12 DEF RenderNoDelay, Move, selection, metrics
<1>13. ASSUME NEW r \in Requests, RenderDelay(r) PROVE TruthfulStatus'
  BY <1>13 DEF RenderDelay, Move, selection, metrics
<1>14. ASSUME NEW r \in Requests, DelayPanics(r) PROVE TruthfulStatus'
  BY <1>14 DEF DelayPanics, Move, selection, metrics
<1>22. ASSUME NEW r \in Requests, RenderPanics(r) PROVE TruthfulStatus'
  BY <1>22 DEF RenderPanics, Move, selection, metrics
<1>15. ASSUME NEW r \in Requests, TimerFires(r) PROVE TruthfulStatus'
  BY <1>15 DEF TimerFires, Move, selection, metrics
<1>16. ASSUME NEW r \in Requests, DelayCancelled(r) PROVE TruthfulStatus'
  BY <1>16 DEF DelayCancelled, Move, selection, metrics
<1>17. ASSUME NEW r \in Requests, WriteResponse(r) PROVE TruthfulStatus'
  <2>1. state[r].status = Chosen(r).status
    BY <1>17 DEF WriteResponse, Move, InService
  <2> QED
    BY <1>17, <2>1 DEF WriteResponse, Move, Send, selection, metrics
<1>18. ASSUME NEW r \in Requests, CountRequest(r) PROVE TruthfulStatus'
  BY <1>18 DEF CountRequest, Move, selection
<1>19. ASSUME NEW r \in Requests, ObserveLatency(r) PROVE TruthfulStatus'
  BY <1>19 DEF ObserveLatency, Move, selection
<1>20. ASSUME NEW r \in Requests, LeaveFlight(r) PROVE TruthfulStatus'
  BY <1>20 DEF LeaveFlight, Move, selection
<1>21. CASE UNCHANGED vars
  BY <1>21 DEF vars
<1> QED
  BY <1>1, <1>2, <1>3, <1>4, <1>5, <1>6, <1>7, <1>8, <1>9, <1>10,
     <1>11, <1>12, <1>13, <1>14, <1>15, <1>16, <1>17, <1>18, <1>19, <1>20, <1>21, <1>22
  DEF Next, Arrive, Dispatch, Serve, Finish

(***************************************************************************)
(* The handler implements the ledger                                       *)
(***************************************************************************)
\* Moving one request moves its phase and no other.
LEMMA PhaseMoves ==
    ASSUME pc \in [Requests -> Outside \cup Handling \cup {"done"}],
           NEW r \in Requests, NEW b, pc' = [pc EXCEPT ![r] = b]
    PROVE  /\ Phases' = [Phases EXCEPT ![r] = PhaseOf(b)]
           /\ Phases[r] = PhaseOf(pc[r])
  BY DEF Phases

LEMMA PhaseValues ==
    /\ PhaseOf("idle") = "out" /\ PhaseOf("probed") = "out"
    /\ \A p \in {"body", "match", "render", "sleep", "write", "count"} : PhaseOf(p) = "open"
    /\ PhaseOf("observe") = "counted"
    /\ PhaseOf("leave") = "observed"
    /\ PhaseOf("done") = "released"
  BY DEF PhaseOf, Outside

\* Every step of the handler is a step of the ledger or none.
LEMMA StepLedger == IInv /\ [Next]_vars => [L!LNext]_(L!lvars)
<1> SUFFICES ASSUME IInv, [Next]_vars PROVE [L!LNext]_(L!lvars)
  OBVIOUS
<1>0. /\ pc \in [Requests -> Outside \cup Handling \cup {"done"}]
      /\ state \in [Requests -> Labels]
      /\ \A r \in Requests : state'[r] \in Labels
  BY StepTypeOK DEF IInv, TypeOK
<1> USE <1>0
<1>1. ASSUME NEW r \in Requests, ServeProbe(r) PROVE [L!LNext]_(L!lvars)
  <2>1. pc[r] = "idle" /\ pc' = [pc EXCEPT ![r] = "probed"]
    BY <1>1 DEF ServeProbe, Move
  <2>2. Phases[r] = PhaseOf("idle") /\ Phases' = [Phases EXCEPT ![r] = PhaseOf("probed")]
    BY <2>1, PhaseMoves
  <2>3. Phases' = Phases
    BY <2>2, PhaseValues, ZenonT(40) DEF Phases
  <2> QED
    BY <1>1, <2>3 DEF ServeProbe, L!lvars, metrics
<1>2. ASSUME NEW r \in Requests, ServeMetrics(r) PROVE [L!LNext]_(L!lvars)
  <2>1. pc[r] = "idle" /\ pc' = [pc EXCEPT ![r] = "probed"]
    BY <1>2 DEF ServeMetrics, Move
  <2>2. Phases[r] = PhaseOf("idle") /\ Phases' = [Phases EXCEPT ![r] = PhaseOf("probed")]
    BY <2>1, PhaseMoves
  <2>3. Phases' = Phases
    BY <2>2, PhaseValues DEF Phases
  <2> QED
    BY <1>2, <2>3 DEF ServeMetrics, L!lvars, metrics
<1>3. ASSUME NEW r \in Requests, handleStub(r) PROVE [L!LNext]_(L!lvars)
  <2>1. pc[r] = "idle" /\ pc' = [pc EXCEPT ![r] = "body"]
    BY <1>3 DEF handleStub, Move
  <2>2. Phases[r] = PhaseOf("idle") /\ Phases' = [Phases EXCEPT ![r] = PhaseOf("body")]
    BY <2>1, PhaseMoves
  <2>3. state' = [state EXCEPT ![r] = state'[r]]
    BY <1>3 DEF handleStub, Mark
  <2>4. inFlight' = inFlight + 1 /\ UNCHANGED <<total, latency>>
    BY <1>3 DEF handleStub
  <2>5. L!Enter(r)
    BY <2>2, <2>3, <2>4, PhaseValues DEF L!Enter, L!Relabel, L!Turn
  <2> QED
    BY <2>5 DEF L!LNext
<1>4. ASSUME NEW r \in Requests, ClientLeaves(r) PROVE [L!LNext]_(L!lvars)
  BY <1>4 DEF ClientLeaves, selection, metrics, L!lvars, Phases
<1>5. ASSUME NEW r \in Requests, ReadBody(r) PROVE [L!LNext]_(L!lvars)
  <2>1. pc[r] = "body" /\ pc' = [pc EXCEPT ![r] = "match"]
    BY <1>5 DEF ReadBody, Move
  <2>2. Phases[r] = PhaseOf("body") /\ Phases' = [Phases EXCEPT ![r] = PhaseOf("match")]
    BY <2>1, PhaseMoves
  <2>3. Phases' = Phases
    BY <2>2, PhaseValues DEF Phases
  <2> QED
    BY <1>5, <2>3 DEF ReadBody, L!lvars, metrics
<1>6. ASSUME NEW r \in Requests, ReadBodyFails(r) PROVE [L!LNext]_(L!lvars)
  <2>1. pc[r] = "body" /\ pc' = [pc EXCEPT ![r] = "count"]
    BY <1>6 DEF ReadBodyFails, Move
  <2>2. Phases[r] = PhaseOf("body") /\ Phases' = [Phases EXCEPT ![r] = PhaseOf("count")]
    BY <2>1, PhaseMoves
  <2>3. Phases' = Phases
    BY <2>2, PhaseValues DEF Phases
  <2> QED
    BY <1>6, <2>3 DEF ReadBodyFails, L!lvars, metrics
<1>7. ASSUME NEW r \in Requests, Unmatched(r) PROVE [L!LNext]_(L!lvars)
  <2>1. pc[r] = "match" /\ pc' = [pc EXCEPT ![r] = "count"]
    BY <1>7 DEF Unmatched, Move
  <2>2. Phases[r] = PhaseOf("match") /\ Phases' = [Phases EXCEPT ![r] = PhaseOf("count")]
    BY <2>1, PhaseMoves
  <2>3. Phases[r] = "open" /\ Phases' = Phases
    <3>1. Phases[r] = "open"
      BY <2>2, PhaseValues
    <3>2. Phases' = Phases
      BY <2>2, PhaseValues DEF Phases
    <3> QED
      BY <3>1, <3>2
  <2>4. state' = [state EXCEPT ![r] = state'[r]]
    BY <1>7 DEF Unmatched, Mark
  <2>5. UNCHANGED <<inFlight, total, latency>>
    BY <1>7 DEF Unmatched, metrics
  <2>6. L!Decide(r)
    BY <2>3, <2>4, <2>5 DEF L!Decide, L!Relabel
  <2> QED
    BY <2>6 DEF L!LNext
<1>8. ASSUME NEW r \in Requests, SelectFails(r) PROVE [L!LNext]_(L!lvars)
  <2>1. pc[r] = "match" /\ pc' = [pc EXCEPT ![r] = "count"]
    BY <1>8 DEF SelectFails, Move
  <2>2. Phases[r] = PhaseOf("match") /\ Phases' = [Phases EXCEPT ![r] = PhaseOf("count")]
    BY <2>1, PhaseMoves
  <2>3. Phases[r] = "open" /\ Phases' = Phases
    <3>1. Phases[r] = "open"
      BY <2>2, PhaseValues
    <3>2. Phases' = Phases
      BY <2>2, PhaseValues DEF Phases
    <3> QED
      BY <3>1, <3>2
  <2>4. state' = [state EXCEPT ![r] = state'[r]]
    BY <1>8 DEF SelectFails, Mark
  <2>5. UNCHANGED <<inFlight, total, latency>>
    BY <1>8 DEF SelectFails, metrics
  <2>6. L!Decide(r)
    BY <2>3, <2>4, <2>5 DEF L!Decide, L!Relabel
  <2> QED
    BY <2>6 DEF L!LNext
<1>9. ASSUME NEW r \in Requests, SelectPanics(r) PROVE [L!LNext]_(L!lvars)
  <2>1. pc[r] = "match" /\ pc' = [pc EXCEPT ![r] = "count"]
    BY <1>9 DEF SelectPanics, Move
  <2>2. Phases[r] = PhaseOf("match") /\ Phases' = [Phases EXCEPT ![r] = PhaseOf("count")]
    BY <2>1, PhaseMoves
  <2>3. Phases' = Phases
    BY <2>2, PhaseValues DEF Phases
  <2> QED
    BY <1>9, <2>3 DEF SelectPanics, L!lvars, metrics
<1>10. ASSUME NEW r \in Requests, Matched(r) PROVE [L!LNext]_(L!lvars)
  <2>1. pc[r] = "match" /\ pc' = [pc EXCEPT ![r] = "render"]
    BY <1>10 DEF Matched, Move
  <2>2. Phases[r] = PhaseOf("match") /\ Phases' = [Phases EXCEPT ![r] = PhaseOf("render")]
    BY <2>1, PhaseMoves
  <2>3. Phases[r] = "open" /\ Phases' = Phases
    <3>1. Phases[r] = "open"
      BY <2>2, PhaseValues
    <3>2. Phases' = Phases
      BY <2>2, PhaseValues DEF Phases
    <3> QED
      BY <3>1, <3>2
  <2>4. state' = [state EXCEPT ![r] = state'[r]]
    BY <1>10 DEF Matched, Mark
  <2>5. UNCHANGED <<inFlight, total, latency>>
    BY <1>10 DEF Matched, metrics
  <2>6. L!Decide(r)
    BY <2>3, <2>4, <2>5 DEF L!Decide, L!Relabel
  <2> QED
    BY <2>6 DEF L!LNext
<1>11. ASSUME NEW r \in Requests, RenderFails(r) PROVE [L!LNext]_(L!lvars)
  <2>1. pc[r] = "render" /\ pc' = [pc EXCEPT ![r] = "count"]
    BY <1>11 DEF RenderFails, Move
  <2>2. Phases[r] = PhaseOf("render") /\ Phases' = [Phases EXCEPT ![r] = PhaseOf("count")]
    BY <2>1, PhaseMoves
  <2>3. Phases[r] = "open" /\ Phases' = Phases
    <3>1. Phases[r] = "open"
      BY <2>2, PhaseValues
    <3>2. Phases' = Phases
      BY <2>2, PhaseValues DEF Phases
    <3> QED
      BY <3>1, <3>2
  <2>4. state' = [state EXCEPT ![r] = state'[r]]
    BY <1>11 DEF RenderFails, Mark
  <2>5. UNCHANGED <<inFlight, total, latency>>
    BY <1>11 DEF RenderFails, metrics
  <2>6. L!Decide(r)
    BY <2>3, <2>4, <2>5 DEF L!Decide, L!Relabel
  <2> QED
    BY <2>6 DEF L!LNext
<1>12. ASSUME NEW r \in Requests, RenderNoDelay(r) PROVE [L!LNext]_(L!lvars)
  <2>1. pc[r] = "render" /\ pc' = [pc EXCEPT ![r] = "write"]
    BY <1>12 DEF RenderNoDelay, Move
  <2>2. Phases[r] = PhaseOf("render") /\ Phases' = [Phases EXCEPT ![r] = PhaseOf("write")]
    BY <2>1, PhaseMoves
  <2>3. Phases' = Phases
    BY <2>2, PhaseValues DEF Phases
  <2> QED
    BY <1>12, <2>3 DEF RenderNoDelay, L!lvars, metrics
<1>13. ASSUME NEW r \in Requests, RenderDelay(r) PROVE [L!LNext]_(L!lvars)
  <2>1. pc[r] = "render" /\ pc' = [pc EXCEPT ![r] = "sleep"]
    BY <1>13 DEF RenderDelay, Move
  <2>2. Phases[r] = PhaseOf("render") /\ Phases' = [Phases EXCEPT ![r] = PhaseOf("sleep")]
    BY <2>1, PhaseMoves
  <2>3. Phases' = Phases
    BY <2>2, PhaseValues DEF Phases
  <2> QED
    BY <1>13, <2>3 DEF RenderDelay, L!lvars, metrics
<1>14. ASSUME NEW r \in Requests, DelayPanics(r) PROVE [L!LNext]_(L!lvars)
  <2>1. pc[r] = "render" /\ pc' = [pc EXCEPT ![r] = "count"]
    BY <1>14 DEF DelayPanics, Move
  <2>2. Phases[r] = PhaseOf("render") /\ Phases' = [Phases EXCEPT ![r] = PhaseOf("count")]
    BY <2>1, PhaseMoves
  <2>3. Phases' = Phases
    BY <2>2, PhaseValues DEF Phases
  <2> QED
    BY <1>14, <2>3 DEF DelayPanics, L!lvars, metrics
<1>22. ASSUME NEW r \in Requests, RenderPanics(r) PROVE [L!LNext]_(L!lvars)
  <2>1. pc[r] = "render" /\ pc' = [pc EXCEPT ![r] = "count"]
    BY <1>22 DEF RenderPanics, Move
  <2>2. Phases[r] = PhaseOf("render") /\ Phases' = [Phases EXCEPT ![r] = PhaseOf("count")]
    BY <2>1, PhaseMoves
  <2>3. Phases' = Phases
    BY <2>2, PhaseValues DEF Phases
  <2> QED
    BY <1>22, <2>3 DEF RenderPanics, L!lvars, metrics
<1>15. ASSUME NEW r \in Requests, TimerFires(r) PROVE [L!LNext]_(L!lvars)
  <2>1. pc[r] = "sleep" /\ pc' = [pc EXCEPT ![r] = "write"]
    BY <1>15 DEF TimerFires, Move
  <2>2. Phases[r] = PhaseOf("sleep") /\ Phases' = [Phases EXCEPT ![r] = PhaseOf("write")]
    BY <2>1, PhaseMoves
  <2>3. Phases' = Phases
    BY <2>2, PhaseValues DEF Phases
  <2> QED
    BY <1>15, <2>3 DEF TimerFires, L!lvars, metrics
<1>16. ASSUME NEW r \in Requests, DelayCancelled(r) PROVE [L!LNext]_(L!lvars)
  <2>1. pc[r] = "sleep" /\ pc' = [pc EXCEPT ![r] = "count"]
    BY <1>16 DEF DelayCancelled, Move
  <2>2. Phases[r] = PhaseOf("sleep") /\ Phases' = [Phases EXCEPT ![r] = PhaseOf("count")]
    BY <2>1, PhaseMoves
  <2>3. Phases' = Phases
    BY <2>2, PhaseValues DEF Phases
  <2> QED
    BY <1>16, <2>3 DEF DelayCancelled, L!lvars, metrics
<1>17. ASSUME NEW r \in Requests, WriteResponse(r) PROVE [L!LNext]_(L!lvars)
  <2>1. pc[r] = "write" /\ pc' = [pc EXCEPT ![r] = "count"]
    BY <1>17 DEF WriteResponse, Move
  <2>2. Phases[r] = PhaseOf("write") /\ Phases' = [Phases EXCEPT ![r] = PhaseOf("count")]
    BY <2>1, PhaseMoves
  <2>3. Phases' = Phases
    BY <2>2, PhaseValues DEF Phases
  <2> QED
    BY <1>17, <2>3 DEF WriteResponse, L!lvars, metrics
<1>18. ASSUME NEW r \in Requests, CountRequest(r) PROVE [L!LNext]_(L!lvars)
  <2>1. pc[r] = "count" /\ pc' = [pc EXCEPT ![r] = "observe"]
    BY <1>18 DEF CountRequest, Move
  <2>2. Phases[r] = PhaseOf("count") /\ Phases' = [Phases EXCEPT ![r] = PhaseOf("observe")]
    BY <2>1, PhaseMoves
  <2>3. L!CountOne(r)
    BY <1>18, <2>2, PhaseValues DEF CountRequest, L!CountOne, L!Turn, L!Inc, L!Count, Inc, Count, selection
  <2> QED
    BY <2>3 DEF L!LNext
<1>19. ASSUME NEW r \in Requests, ObserveLatency(r) PROVE [L!LNext]_(L!lvars)
  <2>1. pc[r] = "observe" /\ pc' = [pc EXCEPT ![r] = "leave"]
    BY <1>19 DEF ObserveLatency, Move
  <2>2. Phases[r] = PhaseOf("observe") /\ Phases' = [Phases EXCEPT ![r] = PhaseOf("leave")]
    BY <2>1, PhaseMoves
  <2>3. L!ObserveOne(r)
    BY <1>19, <2>2, PhaseValues DEF ObserveLatency, L!ObserveOne, L!Turn, L!Inc, L!Count, Inc, Count, selection
  <2> QED
    BY <2>3 DEF L!LNext
<1>20. ASSUME NEW r \in Requests, LeaveFlight(r) PROVE [L!LNext]_(L!lvars)
  <2>1. pc[r] = "leave" /\ pc' = [pc EXCEPT ![r] = "done"]
    BY <1>20 DEF LeaveFlight, Move
  <2>2. Phases[r] = PhaseOf("leave") /\ Phases' = [Phases EXCEPT ![r] = PhaseOf("done")]
    BY <2>1, PhaseMoves
  <2>3. L!Release(r)
    BY <1>20, <2>2, PhaseValues DEF LeaveFlight, L!Release, L!Turn, L!Inc, L!Count, Inc, Count, selection
  <2> QED
    BY <2>3 DEF L!LNext
<1>21. CASE UNCHANGED vars
  BY <1>21 DEF vars, L!lvars, Phases
<1> QED
  BY <1>1, <1>2, <1>3, <1>4, <1>5, <1>6, <1>7, <1>8, <1>9, <1>10,
     <1>11, <1>12, <1>13, <1>14, <1>15, <1>16, <1>17, <1>18, <1>19, <1>20, <1>21, <1>22
  DEF Next, Arrive, Dispatch, Serve, Finish

(***************************************************************************)
(* Answers                                                                 *)
(***************************************************************************)
\* Only these three leave a request without an answer.  NoSilentDrop is not
\* inductive: a request is dropped before it is over.
Excuse(r) ==
    \/ r \in gone
    \/ target[r] # NoMapping /\ Mode[target[r]] = "overflow"
    \/ chosen[r] >= 0 /\ "overflow" \in {Chosen(r).template, Chosen(r).delay}

Excused == \A r \in Requests :
    pc[r] \in Accounting \cup {"done"} /\ wire[r] = 0 => Excuse(r)

LEMMA StepExcused == IInv /\ Excused /\ [Next]_vars => Excused'
<1> SUFFICES ASSUME IInv, Excused, [Next]_vars PROVE Excused'
  OBVIOUS
<1>0. /\ pc \in [Requests -> Outside \cup Handling \cup {"done"}]
      /\ target \in [Requests -> Mappings \cup {NoMapping}]
      /\ chosen \in [Requests -> Nat \cup {-1}]
      /\ wire \in [Requests -> Nat]
      /\ InService /\ Unsent
  BY DEF IInv, TypeOK
<1> USE <1>0 DEF Excused, Excuse, Accounting, Chosen
<1>1. ASSUME NEW r \in Requests, ServeProbe(r) PROVE Excused'
  BY <1>1 DEF ServeProbe, Move, Send, selection, metrics
<1>2. ASSUME NEW r \in Requests, ServeMetrics(r) PROVE Excused'
  BY <1>2 DEF ServeMetrics, Move, Send, selection, metrics
<1>3. ASSUME NEW r \in Requests, handleStub(r) PROVE Excused'
  BY <1>3 DEF handleStub, Move, Mark
<1>4. ASSUME NEW r \in Requests, ClientLeaves(r) PROVE Excused'
  BY <1>4 DEF ClientLeaves, selection, metrics
<1>5. ASSUME NEW r \in Requests, ReadBody(r) PROVE Excused'
  BY <1>5 DEF ReadBody, Move, selection, metrics
<1>6. ASSUME NEW r \in Requests, ReadBodyFails(r) PROVE Excused'
  BY <1>6 DEF ReadBodyFails, Move, Send, selection, metrics
<1>7. ASSUME NEW r \in Requests, Unmatched(r) PROVE Excused'
  BY <1>7 DEF Unmatched, Move, Mark, Send, selection, metrics
<1>8. ASSUME NEW r \in Requests, SelectFails(r) PROVE Excused'
  BY <1>8 DEF SelectFails, Move, Mark, Send, selection, metrics
<1>9. ASSUME NEW r \in Requests, SelectPanics(r) PROVE Excused'
  BY <1>9 DEF SelectPanics, Move, selection, metrics
<1>10. ASSUME NEW r \in Requests, Matched(r) PROVE Excused'
  BY <1>10 DEF Matched, Move, Mark, metrics
<1>11. ASSUME NEW r \in Requests, RenderFails(r) PROVE Excused'
  BY <1>11 DEF RenderFails, Move, Mark, Send, selection, metrics
<1>12. ASSUME NEW r \in Requests, RenderNoDelay(r) PROVE Excused'
  BY <1>12 DEF RenderNoDelay, Move, selection, metrics
<1>13. ASSUME NEW r \in Requests, RenderDelay(r) PROVE Excused'
  BY <1>13 DEF RenderDelay, Move, selection, metrics
<1>14. ASSUME NEW r \in Requests, DelayPanics(r) PROVE Excused'
  <2>1. chosen[r] \in Variants(target[r]) /\ chosen[r] >= 0
    BY <1>14, HandlerAssumption DEF DelayPanics, Move, InService, Variants
  <2>2. Chosen(r).delay = "overflow"
    BY <1>14 DEF DelayPanics
  <2>3. Excuse(r)
    BY <2>1, <2>2
  <2>4. /\ \A q \in Requests \ {r} : pc'[q] = pc[q]
        /\ UNCHANGED <<target, chosen, wire, gone>>
    BY <1>14 DEF DelayPanics, Move, selection
  <2> QED
    BY <2>3, <2>4
<1>22. ASSUME NEW r \in Requests, RenderPanics(r) PROVE Excused'
  <2>1. chosen[r] \in Variants(target[r]) /\ chosen[r] >= 0
    BY <1>22, HandlerAssumption DEF RenderPanics, Move, InService, Variants
  <2>2. Chosen(r).template = "overflow"
    BY <1>22 DEF RenderPanics
  <2>3. Excuse(r)
    BY <2>1, <2>2
  <2>4. /\ \A q \in Requests \ {r} : pc'[q] = pc[q]
        /\ UNCHANGED <<target, chosen, wire, gone>>
    BY <1>22 DEF RenderPanics, Move, selection
  <2> QED
    BY <2>3, <2>4
<1>15. ASSUME NEW r \in Requests, TimerFires(r) PROVE Excused'
  BY <1>15 DEF TimerFires, Move, selection, metrics
<1>16. ASSUME NEW r \in Requests, DelayCancelled(r) PROVE Excused'
  BY <1>16 DEF DelayCancelled, Move, selection, metrics
<1>17. ASSUME NEW r \in Requests, WriteResponse(r) PROVE Excused'
  <2>1. Chosen(r) \in Responses
    BY <1>17, HandlerAssumption DEF WriteResponse, Move, InService
  <2>a. Chosen(r).status \in 100 .. 599
    BY <2>1 DEF Responses
  <2>b. Final(Chosen(r).status) # 0
    BY <2>a, FinalType, Zenon
  <2>2. wire'[r] # 0
    BY <1>17, <2>b DEF WriteResponse, Send
  <2>3. \A q \in Requests \ {r} : wire'[q] = wire[q] /\ pc'[q] = pc[q]
    BY <1>17 DEF WriteResponse, Move, Send
  <2>4. UNCHANGED <<target, chosen, gone>>
    BY <1>17 DEF WriteResponse, selection
  <2> QED
    BY <2>2, <2>3, <2>4
<1>18. ASSUME NEW r \in Requests, CountRequest(r) PROVE Excused'
  BY <1>18 DEF CountRequest, Move, selection
<1>19. ASSUME NEW r \in Requests, ObserveLatency(r) PROVE Excused'
  BY <1>19 DEF ObserveLatency, Move, selection
<1>20. ASSUME NEW r \in Requests, LeaveFlight(r) PROVE Excused'
  BY <1>20 DEF LeaveFlight, Move, selection
<1>21. CASE UNCHANGED vars
  BY <1>21 DEF vars
<1> QED
  BY <1>1, <1>2, <1>3, <1>4, <1>5, <1>6, <1>7, <1>8, <1>9, <1>10,
     <1>11, <1>12, <1>13, <1>14, <1>15, <1>16, <1>17, <1>18, <1>19, <1>20, <1>21, <1>22
  DEF Next, Arrive, Dispatch, Serve, Finish

Answering ==
    \A r \in Requests : wire'[r] # wire[r] =>
        wire[r] = 0 /\ pc[r] \notin Accounting \cup {"done"}

LEMMA StepAnswering == IInv /\ [Next]_vars => Answering
<1> SUFFICES ASSUME IInv, [Next]_vars PROVE Answering
  OBVIOUS
<1>0. /\ pc \in [Requests -> Outside \cup Handling \cup {"done"}]
      /\ target \in [Requests -> Mappings \cup {NoMapping}]
      /\ chosen \in [Requests -> Nat \cup {-1}]
      /\ wire \in [Requests -> Nat]
      /\ InService /\ Unsent
  BY DEF IInv, TypeOK
<1> USE <1>0 DEF Answering, Accounting, Unsent
<1>1. ASSUME NEW r \in Requests, ServeProbe(r) PROVE Answering
  BY <1>1 DEF ServeProbe, Move, Send, selection, metrics
<1>2. ASSUME NEW r \in Requests, ServeMetrics(r) PROVE Answering
  BY <1>2 DEF ServeMetrics, Move, Send, selection, metrics
<1>3. ASSUME NEW r \in Requests, handleStub(r) PROVE Answering
  BY <1>3 DEF handleStub, Move, Mark
<1>4. ASSUME NEW r \in Requests, ClientLeaves(r) PROVE Answering
  BY <1>4 DEF ClientLeaves, selection, metrics
<1>5. ASSUME NEW r \in Requests, ReadBody(r) PROVE Answering
  BY <1>5 DEF ReadBody, Move, selection, metrics
<1>6. ASSUME NEW r \in Requests, ReadBodyFails(r) PROVE Answering
  BY <1>6 DEF ReadBodyFails, Move, Send, selection, metrics
<1>7. ASSUME NEW r \in Requests, Unmatched(r) PROVE Answering
  BY <1>7 DEF Unmatched, Move, Mark, Send, selection, metrics
<1>8. ASSUME NEW r \in Requests, SelectFails(r) PROVE Answering
  BY <1>8 DEF SelectFails, Move, Mark, Send, selection, metrics
<1>9. ASSUME NEW r \in Requests, SelectPanics(r) PROVE Answering
  BY <1>9 DEF SelectPanics, Move, selection, metrics
<1>10. ASSUME NEW r \in Requests, Matched(r) PROVE Answering
  BY <1>10 DEF Matched, Move, Mark, metrics
<1>11. ASSUME NEW r \in Requests, RenderFails(r) PROVE Answering
  BY <1>11 DEF RenderFails, Move, Mark, Send, selection, metrics
<1>12. ASSUME NEW r \in Requests, RenderNoDelay(r) PROVE Answering
  BY <1>12 DEF RenderNoDelay, Move, selection, metrics
<1>13. ASSUME NEW r \in Requests, RenderDelay(r) PROVE Answering
  BY <1>13 DEF RenderDelay, Move, selection, metrics
<1>14. ASSUME NEW r \in Requests, DelayPanics(r) PROVE Answering
  BY <1>14 DEF DelayPanics, Move, selection, metrics
<1>22. ASSUME NEW r \in Requests, RenderPanics(r) PROVE Answering
  BY <1>22 DEF RenderPanics, Move, selection, metrics
<1>15. ASSUME NEW r \in Requests, TimerFires(r) PROVE Answering
  BY <1>15 DEF TimerFires, Move, selection, metrics
<1>16. ASSUME NEW r \in Requests, DelayCancelled(r) PROVE Answering
  BY <1>16 DEF DelayCancelled, Move, selection, metrics
<1>17. ASSUME NEW r \in Requests, WriteResponse(r) PROVE Answering
  BY <1>17 DEF WriteResponse, Move, Send, selection, metrics
<1>18. ASSUME NEW r \in Requests, CountRequest(r) PROVE Answering
  BY <1>18 DEF CountRequest, Move, selection
<1>19. ASSUME NEW r \in Requests, ObserveLatency(r) PROVE Answering
  BY <1>19 DEF ObserveLatency, Move, selection
<1>20. ASSUME NEW r \in Requests, LeaveFlight(r) PROVE Answering
  BY <1>20 DEF LeaveFlight, Move, selection
<1>21. CASE UNCHANGED vars
  BY <1>21 DEF vars
<1> QED
  BY <1>1, <1>2, <1>3, <1>4, <1>5, <1>6, <1>7, <1>8, <1>9, <1>10,
     <1>11, <1>12, <1>13, <1>14, <1>15, <1>16, <1>17, <1>18, <1>19, <1>20, <1>21, <1>22
  DEF Next, Arrive, Dispatch, Serve, Finish

(***************************************************************************)
(* The theorems                                                            *)
(***************************************************************************)
LEMMA InitIInv == Init => IInv
<1> SUFFICES ASSUME Init PROVE IInv
  OBVIOUS
<1>1. InService /\ Unsent /\ TruthfulStatus
  BY DEF Init, InService, Unsent, TruthfulStatus, Accounting
<1> QED
  BY <1>1, InitTypeOK DEF IInv

LEMMA Invariance == Spec => []IInv
<1>1. IInv /\ [Next]_vars => IInv'
  BY StepTypeOK, StepInService, StepUnsent, StepTruthful DEF IInv
<1> QED
  BY InitIInv, <1>1, PTL DEF Spec

\* Every variable of the handler keeps its type: the cursor of a mapping
\* stays on a variant, and no label outside the known ones is ever created.
THEOREM TypeCorrect == Spec => []TypeOK
  BY Invariance, PTL DEF IInv

\* The status under which a request is counted is the one its client was
\* sent, on every path on which something was sent.
THEOREM StatusAlwaysTruthful == Spec => []TruthfulStatus
  BY Invariance, PTL DEF IInv

\* A client that stays connected is answered, on every path on which no draw
\* overflows.
THEOREM NothingIsDropped == Spec => []NoSilentDrop
<1>1. Init => Excused
  BY DEF Init, Excused, Accounting
<1>2. Excused => NoSilentDrop
  BY DEF Excused, Excuse, NoSilentDrop
<1> QED
  BY Invariance, StepExcused, <1>1, <1>2, PTL DEF Spec

\* No path through the handler sends a second response, and none is sent once
\* the request is being accounted for.
THEOREM AnsweredOnce == Spec => SentOnce
<1>1. Answering => (\A r \in Requests : wire'[r] # wire[r] =>
                      wire[r] = 0 /\ pc[r] \notin Accounting \cup {"done"})
  BY DEF Answering
<1> QED
  BY Invariance, StepAnswering, <1>1, PTL DEF Spec, SentOnce

\* Seen through its metrics the handler is the ledger of RequestLedger.
THEOREM ImplementsLedger == Spec => LedgerSpec
<1>1. Init => L!LInit
  <2> SUFFICES ASSUME Init PROVE L!LInit
    OBVIOUS
  <2>1. Phases = [r \in Requests |-> "out"]
    BY PhaseValues DEF Init, Phases
  <2>2. state \in [Requests -> Labels]
    BY InitTypeOK DEF TypeOK
  <2> QED
    BY <2>1, <2>2 DEF Init, L!LInit, L!NoVector, NoVector
<1> QED
  BY Invariance, StepLedger, <1>1, PTL DEF Spec, LedgerSpec, L!LSpec

(***************************************************************************)
(* The ledger of request metrics, whoever keeps it, is exact.  These steps *)
(* use nothing of the handler: only that what it does is a ledger's.       *)
(***************************************************************************)
\* One more member under its label keeps a ledger exact.
LEMMA LedgerGrows ==
    ASSUME NEW vec, NEW done, IsFiniteSet(done), NEW labelOf,
           Ledger(vec, done, labelOf), NEW r, r \notin done
    PROVE  Ledger(Inc(vec, labelOf[r]), done \cup {r}, labelOf)
<1> DEFINE new == Inc(vec, labelOf[r])
           Under(l, S) == {q \in S : labelOf[q] = l}
<1>1. DOMAIN new = {labelOf[q] : q \in done \cup {r}}
  BY DEF Inc, Ledger
<1>2. ASSUME NEW l \in DOMAIN new
      PROVE  new[l] = Cardinality(Under(l, done \cup {r}))
  <2>1. /\ IsFiniteSet(Under(l, done))
        /\ Cardinality(Under(l, done)) \in Nat
    BY FS_Subset, FS_CardinalityType, Under(l, done) \subseteq done
  <2>2. Count(vec, l) = Cardinality(Under(l, done))
    <3>1. CASE l \in DOMAIN vec
      BY <3>1 DEF Count, Ledger
    <3>2. CASE l \notin DOMAIN vec
      <4>1. Under(l, done) = {}
        BY <3>2 DEF Ledger
      <4> QED
        BY <3>2, <4>1, FS_EmptySet DEF Count
    <3> QED
      BY <3>1, <3>2
  <2>3. new[l] = Count(vec, l) + (IF l = labelOf[r] THEN 1 ELSE 0)
    BY <1>2 DEF Inc
  <2>4. CASE l = labelOf[r]
    <3>1. Under(l, done \cup {r}) = Under(l, done) \cup {r} /\ r \notin Under(l, done)
      BY <2>4
    <3>2. Cardinality(Under(l, done) \cup {r}) = Cardinality(Under(l, done)) + 1
      BY <2>1, <3>1, FS_AddElement
    <3> HIDE DEF Under, new
    <3> QED
      BY <2>1, <2>2, <2>3, <2>4, <3>1, <3>2
  <2>5. CASE l # labelOf[r]
    <3>1. Under(l, done \cup {r}) = Under(l, done)
      BY <2>5
    <3> HIDE DEF Under, new
    <3> QED
      BY <2>1, <2>2, <2>3, <2>5, <3>1
  <2> QED
    BY <2>4, <2>5
<1> QED
  BY <1>1, <1>2 DEF Ledger

\* A ledger only depends on the labels of its members.
LEMMA LedgerKept ==
    ASSUME NEW vec, NEW done, NEW f, NEW g, \A r \in done : f[r] = g[r],
           Ledger(vec, done, f)
    PROVE  Ledger(vec, done, g)
<1>1. {f[r] : r \in done} = {g[r] : r \in done}
  OBVIOUS
<1>2. \A l : {r \in done : f[r] = l} = {r \in done : g[r] = l}
  OBVIOUS
<1> QED
  BY <1>1, <1>2 DEF Ledger

\* The vectors and sets of the ledger are those of the handler.
LEMMA SameMetrics ==
    /\ \A S : L!Cardinality(S) = Cardinality(S)
    /\ \A vec, l : L!Inc(vec, l) = Inc(vec, l)
    /\ \A vec, done, f : L!Ledger(vec, done, f) = Ledger(vec, done, f)
<1>1. \A S : L!Cardinality(S) = Cardinality(S)
  BY DEF Cardinality, L!Cardinality, L!IsFiniteSet, IsFiniteSet
<1>2. \A vec, l : L!Inc(vec, l) = Inc(vec, l)
  BY DEF L!Inc, Inc, L!Count, Count
<1>3. \A vec, done, f : L!Ledger(vec, done, f) = Ledger(vec, done, f)
  BY <1>1 DEF L!Ledger, Ledger
<1> QED
  BY <1>1, <1>2, <1>3

LTypeOK == Phases \in [Requests -> {"out", "open", "counted", "observed", "released"}]
             /\ state \in [Requests -> Labels]

LedgerSoFar ==
    /\ inFlight = Cardinality(L!Open)
    /\ Ledger(total, L!CountedSet, state)
    /\ Ledger(latency, L!ObservedSet, state)

LInv == LTypeOK /\ LedgerSoFar

LEMMA InitLInv == L!LInit => LInv
<1> SUFFICES ASSUME L!LInit PROVE LInv
  OBVIOUS
<1>1. L!Open = {} /\ L!CountedSet = {} /\ L!ObservedSet = {}
  BY DEF L!LInit, L!Open, L!CountedSet, L!ObservedSet
<1>2. Ledger(NoVector, {}, state)
  BY DEF Ledger, NoVector
<1> QED
  BY <1>1, <1>2, FS_EmptySet DEF L!LInit, LInv, LTypeOK, LedgerSoFar, L!NoVector, NoVector

LEMMA FiniteParts ==
    ASSUME IsFiniteSet(Requests)
    PROVE  /\ IsFiniteSet(L!Open) /\ IsFiniteSet(L!CountedSet) /\ IsFiniteSet(L!ObservedSet)
           /\ Cardinality(L!Open) \in Nat
  BY FS_Subset, FS_CardinalityType, L!Open \subseteq Requests,
     L!CountedSet \subseteq Requests, L!ObservedSet \subseteq Requests
  DEF L!Open, L!CountedSet, L!ObservedSet

LEMMA StepLInv == IsFiniteSet(Requests) /\ LInv /\ [L!LNext]_(L!lvars) => LInv'
<1> SUFFICES ASSUME IsFiniteSet(Requests), LInv, [L!LNext]_(L!lvars) PROVE LInv'
  OBVIOUS
<1> USE DEF LInv, LTypeOK, L!Turn, L!Open, L!CountedSet, L!ObservedSet
<1>1. ASSUME NEW r \in Requests, L!Enter(r) PROVE LInv'
  <2>1. LTypeOK'
    BY <1>1 DEF L!Enter, L!Relabel
  <2>2. /\ L!Open' = L!Open \cup {r} /\ r \notin L!Open
        /\ L!CountedSet' = L!CountedSet /\ L!ObservedSet' = L!ObservedSet
        /\ \A q \in L!CountedSet \cup L!ObservedSet : state'[q] = state[q]
    BY <1>1 DEF L!Enter, L!Relabel
  <2>3. inFlight' = Cardinality(L!Open')
    BY <1>1, <2>2, FiniteParts, FS_AddElement DEF L!Enter, LedgerSoFar
  <2>4. Ledger(total', L!CountedSet', state') /\ Ledger(latency', L!ObservedSet', state')
    <3>1. /\ total' = total /\ latency' = latency
          /\ Ledger(total, L!CountedSet, state) /\ Ledger(latency, L!ObservedSet, state)
      BY <1>1, SameMetrics DEF L!Enter, LedgerSoFar
    <3> HIDE DEF L!CountedSet, L!ObservedSet
    <3>2. Ledger(total, L!CountedSet, state') /\ Ledger(latency, L!ObservedSet, state')
      BY <2>2, <3>1, LedgerKept
    <3> QED
      BY <2>2, <3>1, <3>2
  <2> QED
    BY <2>1, <2>3, <2>4 DEF LedgerSoFar
<1>2. ASSUME NEW r \in Requests, L!Decide(r) PROVE LInv'
  <2>1. LTypeOK'
    BY <1>2 DEF L!Decide, L!Relabel
  <2>2. /\ L!Open' = L!Open /\ L!CountedSet' = L!CountedSet /\ L!ObservedSet' = L!ObservedSet
        /\ \A q \in L!CountedSet \cup L!ObservedSet : state'[q] = state[q]
    BY <1>2 DEF L!Decide, L!Relabel
  <2>3. Ledger(total', L!CountedSet', state') /\ Ledger(latency', L!ObservedSet', state')
    <3>1. /\ total' = total /\ latency' = latency
          /\ Ledger(total, L!CountedSet, state) /\ Ledger(latency, L!ObservedSet, state)
      BY <1>2, SameMetrics DEF L!Decide, LedgerSoFar
    <3> HIDE DEF L!CountedSet, L!ObservedSet
    <3>2. Ledger(total, L!CountedSet, state') /\ Ledger(latency, L!ObservedSet, state')
      BY <2>2, <3>1, LedgerKept
    <3> QED
      BY <2>2, <3>1, <3>2
  <2> QED
    BY <1>2, <2>1, <2>2, <2>3 DEF L!Decide, LedgerSoFar
<1>3. ASSUME NEW r \in Requests, L!CountOne(r) PROVE LInv'
  <2>1. LTypeOK'
    BY <1>3 DEF L!CountOne
  <2>2. /\ L!Open' = L!Open /\ L!ObservedSet' = L!ObservedSet
        /\ L!CountedSet' = L!CountedSet \cup {r} /\ r \notin L!CountedSet
    BY <1>3 DEF L!CountOne
  <2>3. Ledger(total', L!CountedSet', state')
    <3>1. /\ total' = Inc(total, state[r]) /\ state' = state
          /\ Ledger(total, L!CountedSet, state)
      BY <1>3, SameMetrics DEF L!CountOne, LedgerSoFar
    <3> HIDE DEF L!CountedSet
    <3>2. Ledger(Inc(total, state[r]), L!CountedSet \cup {r}, state)
      BY <2>2, <3>1, FiniteParts, LedgerGrows
    <3> QED
      BY <2>2, <3>1, <3>2
  <2> QED
    BY <1>3, <2>1, <2>2, <2>3 DEF L!CountOne, LedgerSoFar
<1>4. ASSUME NEW r \in Requests, L!ObserveOne(r) PROVE LInv'
  <2>1. LTypeOK'
    BY <1>4 DEF L!ObserveOne
  <2>2. /\ L!Open' = L!Open /\ L!CountedSet' = L!CountedSet
        /\ L!ObservedSet' = L!ObservedSet \cup {r} /\ r \notin L!ObservedSet
    BY <1>4 DEF L!ObserveOne
  <2>3. Ledger(latency', L!ObservedSet', state')
    <3>1. /\ latency' = Inc(latency, state[r]) /\ state' = state
          /\ Ledger(latency, L!ObservedSet, state)
      BY <1>4, SameMetrics DEF L!ObserveOne, LedgerSoFar
    <3> HIDE DEF L!ObservedSet
    <3>2. Ledger(Inc(latency, state[r]), L!ObservedSet \cup {r}, state)
      BY <2>2, <3>1, FiniteParts, LedgerGrows
    <3> QED
      BY <2>2, <3>1, <3>2
  <2> QED
    BY <1>4, <2>1, <2>2, <2>3 DEF L!ObserveOne, LedgerSoFar
<1>5. ASSUME NEW r \in Requests, L!Release(r) PROVE LInv'
  <2>1. LTypeOK'
    BY <1>5 DEF L!Release
  <2>2. /\ L!Open' = L!Open \ {r} /\ r \in L!Open
        /\ L!CountedSet' = L!CountedSet /\ L!ObservedSet' = L!ObservedSet
    BY <1>5 DEF L!Release
  <2>3. inFlight' = Cardinality(L!Open')
    BY <1>5, <2>2, FiniteParts, FS_RemoveElement DEF L!Release, LedgerSoFar
  <2> QED
    BY <1>5, <2>1, <2>2, <2>3 DEF L!Release, LedgerSoFar
<1>6. CASE UNCHANGED L!lvars
  BY <1>6 DEF L!lvars, LedgerSoFar
<1> QED
  BY <1>1, <1>2, <1>3, <1>4, <1>5, <1>6 DEF L!LNext

\* Whatever the requests do, the gauge and the two vectors stay exact.
THEOREM LedgerAlwaysExact == Spec => []L!LedgerExact
<1>1. LInv /\ [L!LNext]_(L!lvars) => LInv'
  BY StepLInv, HandlerAssumption
<1>2. LInv => L!LedgerExact
  BY SameMetrics DEF LInv, LedgerSoFar, L!LedgerExact
<1> QED
  BY ImplementsLedger, InitLInv, <1>1, <1>2, PTL DEF LedgerSpec, L!LSpec

\* The ledger's sets of requests are the handler's.
LEMMA SameParts ==
    ASSUME TypeOK
    PROVE  /\ L!Open = {r \in Requests : pc[r] \in Handling}
           /\ L!CountedSet = Counted
           /\ L!ObservedSet = Observed
<1>1. \A r \in Requests :
         /\ Phases[r] \in {"open", "counted", "observed"} <=> pc[r] \in Handling
         /\ Phases[r] \in {"counted", "observed", "released"}
               <=> pc[r] \in {"observe", "leave", "done"}
         /\ Phases[r] \in {"observed", "released"} <=> pc[r] \in {"leave", "done"}
  BY DEF TypeOK, Phases, PhaseOf, Outside, Handling, Accounting
<1> QED
  BY <1>1 DEF L!Open, L!CountedSet, L!ObservedSet, Counted, Observed

\* The in-flight gauge is exact, and every finished request is counted and
\* observed once under its final label, after any interleaving of requests,
\* panics and cancellations.
THEOREM AccountingExact == Spec => []InFlightExact /\ []CountedOnce
<1>1. ASSUME TypeOK, L!LedgerExact PROVE InFlightExact /\ CountedOnce
  <2>1. InFlightExact
    BY <1>1, SameMetrics, SameParts DEF L!LedgerExact, InFlightExact
  <2>2. Ledger(total, Counted, state) /\ Ledger(latency, Observed, state)
    BY <1>1, SameMetrics, SameParts DEF L!LedgerExact, L!Ledger, Ledger
  <2> QED
    BY <2>1, <2>2 DEF CountedOnce
<1> QED
  BY <1>1, TypeCorrect, LedgerAlwaysExact, PTL

(***************************************************************************)
(* The rotation in the metrics.  A sequential mapping has given each of    *)
(* its variants as many turns, and one more to those before its cursor;    *)
(* and a turn that was taken is in the label of its request to the end.    *)
(***************************************************************************)
Unchosen == Outside \cup {"body", "match"}

Labelled ==
    \A r \in Requests :
        /\ pc[r] \in Unchosen => chosen[r] = -1
        /\ chosen[r] # -1 =>
              /\ target[r] \in Mappings
              /\ chosen[r] \in Variants(target[r])
              /\ state[r].stub = target[r]
              /\ state[r].variant = variantName(target[r], chosen[r])
        /\ chosen[r] = -1 =>
              (state[r].stub \in Mappings => Mode[state[r].stub] # "sequential")

Taken(m, v) == {r \in Requests : target[r] = m /\ chosen[r] = v}

Turns(m, k) ==
    \A v \in Variants(m) :
        Cardinality(Taken(m, v)) = IF v < next[m] THEN k + 1 ELSE k

TurnsTaken == \A m \in Mappings : Mode[m] = "sequential" => \E k \in Nat : Turns(m, k)

RotationInv == Labelled /\ TurnsTaken

LEMMA StepLabelled == IInv /\ Labelled /\ [Next]_vars => Labelled'
<1> SUFFICES ASSUME IInv, Labelled, [Next]_vars PROVE Labelled'
  OBVIOUS
<1>0. /\ pc \in [Requests -> Outside \cup Handling \cup {"done"}]
      /\ target \in [Requests -> Mappings \cup {NoMapping}]
      /\ chosen \in [Requests -> Nat \cup {-1}]
      /\ state \in [Requests -> Labels]
  BY DEF IInv, TypeOK
<1> DEFINE Told(q) ==
             /\ pc[q] \in Unchosen => chosen[q] = -1
             /\ chosen[q] # -1 =>
                   /\ target[q] \in Mappings
                   /\ chosen[q] \in Variants(target[q])
                   /\ state[q].stub = target[q]
                   /\ state[q].variant = variantName(target[q], chosen[q])
             /\ chosen[q] = -1 =>
                   (state[q].stub \in Mappings => Mode[state[q].stub] # "sequential")
<1>a. /\ \A q \in Requests : Told(q)
      /\ (\A q \in Requests : Told(q)') => Labelled'
  BY DEF Labelled
<1> DEFINE Same(q) == /\ chosen'[q] = chosen[q] /\ target'[q] = target[q]
                      /\ state'[q].stub = state[q].stub
                      /\ state'[q].variant = state[q].variant
                      /\ pc'[q] \in Unchosen => pc[q] \in Unchosen
<1>b. ASSUME NEW q \in Requests, Same(q) PROVE Told(q)'
  BY <1>a, <1>b
\* All but the steps that choose leave what the label says of the choice.
<1>c. ASSUME NEW r \in Requests, Next, ~handleStub(r), ~SelectFails(r), ~Matched(r),
             \A q \in Requests \ {r} : ~handleStub(q) /\ ~SelectFails(q) /\ ~Matched(q)
      PROVE  Labelled'
  <2> USE <1>0 DEF Unchosen, Outside, Handling, Accounting
  <2>0. ASSUME NEW q \in Requests, NEW s \in 100 .. 599
        PROVE  /\ [state[q] EXCEPT !.status = s].stub = state[q].stub
               /\ [state[q] EXCEPT !.status = s].variant = state[q].variant
    BY DEF Labels
  <2>1. PICK q \in Requests :
           \/ ServeProbe(q) \/ ServeMetrics(q) \/ ClientLeaves(q) \/ ReadBody(q)
           \/ ReadBodyFails(q) \/ Unmatched(q) \/ SelectPanics(q) \/ Serve(q) \/ Finish(q)
    BY <1>c, Zenon DEF Next, Arrive, Dispatch
  <2>2. CASE ServeProbe(q) \/ ServeMetrics(q) \/ ClientLeaves(q) \/ ReadBody(q)
             \/ ReadBodyFails(q) \/ SelectPanics(q)
    <3>1. \A p \in Requests : Same(p)
      BY <2>2 DEF ServeProbe, ServeMetrics, ClientLeaves, ReadBody, ReadBodyFails,
                  SelectPanics, Move, Send, selection, metrics
    <3> QED
      BY <1>a, <1>b, <3>1
  <2>3. CASE Unmatched(q)
    <3>1. \A p \in Requests : Same(p)
      BY <2>0, <2>3 DEF Unmatched, Move, Mark, Send, selection, metrics
    <3> QED
      BY <1>a, <1>b, <3>1
  <2>4. CASE RenderFails(q)
    <3>1. \A p \in Requests : Same(p)
      BY <2>0, <2>4 DEF RenderFails, Move, Mark, Send, selection, metrics
    <3> QED
      BY <1>a, <1>b, <3>1
  <2>5. CASE Serve(q) /\ ~RenderFails(q)
    <3>1. \A p \in Requests : Same(p)
      BY <2>5 DEF Serve, RenderPanics, RenderNoDelay, RenderDelay, DelayPanics, TimerFires,
                  DelayCancelled, WriteResponse, Move, Send, selection, metrics
    <3> QED
      BY <1>a, <1>b, <3>1
  <2>6. CASE Finish(q)
    <3>1. \A p \in Requests : Same(p)
      BY <2>6 DEF Finish, CountRequest, ObserveLatency, LeaveFlight, Move, selection
    <3> QED
      BY <1>a, <1>b, <3>1
  <2> QED
    BY <2>1, <2>2, <2>3, <2>4, <2>5, <2>6
<1>1. ASSUME NEW r \in Requests, handleStub(r) PROVE Labelled'
  <2>1. \A q \in Requests \ {r} : Same(q)
    BY <1>0, <1>1 DEF handleStub, Move, Mark
  <2>2. /\ chosen'[r] = -1 /\ state'[r] = newRequestMetricState
    BY <1>0, <1>1, <1>a DEF handleStub, Move, Mark, Unchosen, Outside
  <2>3. newRequestMetricState.stub \notin Mappings
    BY HandlerAssumption DEF newRequestMetricState
  <2>4. Told(r)'
    BY <2>2, <2>3
  <2> QED
    BY <1>a, <1>b, <2>1, <2>4
<1>2. ASSUME NEW r \in Requests, SelectFails(r) PROVE Labelled'
  <2>1. \A q \in Requests \ {r} : Same(q)
    BY <1>0, <1>2 DEF SelectFails, Move, Mark, Send, selection, metrics
  <2>2. /\ chosen'[r] = -1
        /\ state'[r] = [state[r] EXCEPT !.stub = target[r], !.matched = TRUE]
    BY <1>0, <1>2, <1>a DEF SelectFails, Move, Mark, selection, Unchosen
  <2>3. state'[r].stub = target[r] /\ Mode[target[r]] = "broken"
    BY <1>0, <1>2, <2>2 DEF SelectFails, Labels
  <2>4. Told(r)'
    BY <2>2, <2>3
  <2> QED
    BY <1>a, <1>b, <2>1, <2>4
<1>3. ASSUME NEW r \in Requests, Matched(r) PROVE Labelled'
  <2>1. PICK v \in Selectable(target[r]) :
           /\ chosen' = [chosen EXCEPT ![r] = v]
           /\ Mark(r, [stub |-> target[r], variant |-> variantName(target[r], v),
                       status |-> Response[target[r]][v].status, matched |-> TRUE])
    BY <1>3 DEF Matched
  <2>2. target[r] \in Mappings /\ target' = target
    BY <1>0, <1>3 DEF Matched
  <2>3. v \in Variants(target[r]) /\ v # -1
    BY <2>1, <2>2, SelectableVariants, HandlerAssumption DEF IInv, Variants
  <2>4. \A q \in Requests \ {r} : Same(q)
    BY <1>0, <1>3, <2>1, <2>2 DEF Matched, Move, Mark
  <2>5. pc'[r] = "render" /\ chosen'[r] = v
    BY <1>0, <1>3, <2>1 DEF Matched, Move
  <2>6. state'[r].stub = target[r] /\ state'[r].variant = variantName(target[r], v)
    BY <1>0, <2>1 DEF Mark
  <2>7. Told(r)'
    BY <2>2, <2>3, <2>5, <2>6 DEF Unchosen, Outside
  <2> QED
    BY <1>a, <1>b, <2>4, <2>7
<1>4. CASE UNCHANGED vars
  BY <1>a, <1>b, <1>4 DEF vars
<1> QED
  BY <1>1, <1>2, <1>3, <1>4, <1>c DEF Next

LEMMA StepTurns == IInv /\ Labelled /\ TurnsTaken /\ [Next]_vars => TurnsTaken'
<1> SUFFICES ASSUME IInv, Labelled, TurnsTaken, [Next]_vars,
                    NEW m \in Mappings, Mode[m] = "sequential"
             PROVE  \E k \in Nat : Turns(m, k)'
  BY DEF TurnsTaken
<1>0. /\ target \in [Requests -> Mappings \cup {NoMapping}]
      /\ chosen \in [Requests -> Nat \cup {-1}]
      /\ next \in [Mappings -> Nat] /\ next[m] \in Variants(m)
      /\ Size[m] \in Nat /\ Size[m] > 0
  BY HandlerAssumption DEF IInv, TypeOK
<1>1. PICK k \in Nat : Turns(m, k)
  BY DEF TurnsTaken
<1>2. Variants(m) \subseteq Nat
  BY <1>0 DEF Variants
<1>3. ASSUME next'[m] = next[m], \A v \in Variants(m) : Taken(m, v)' = Taken(m, v)
      PROVE  Turns(m, k)'
  BY <1>1, <1>3 DEF Turns
<1>4. CASE UNCHANGED selection
  <2>1. \A v \in Variants(m) : Taken(m, v)' = Taken(m, v)
    BY <1>4 DEF Taken, selection
  <2> QED
    BY <1>3, <1>4, <2>1 DEF selection
<1>5. ASSUME NEW r \in Requests, handleStub(r) PROVE Turns(m, k)'
  <2>1. /\ chosen[r] = -1 /\ UNCHANGED <<chosen, next>>
        /\ \A q \in Requests \ {r} : target'[q] = target[q]
    BY <1>0, <1>5 DEF handleStub, Move, Labelled, Unchosen, Outside
  <2>2. ASSUME NEW v \in Variants(m) PROVE Taken(m, v)' = Taken(m, v)
    <3>1. v # -1
      BY <1>2
    <3> QED
      BY <2>1, <3>1 DEF Taken
  <2> QED
    BY <1>3, <2>1, <2>2
<1>6. ASSUME NEW r \in Requests, Matched(r) PROVE \E j \in Nat : Turns(m, j)'
  <2>1. PICK u \in Selectable(target[r]) : chosen' = [chosen EXCEPT ![r] = u]
    BY <1>6 DEF Matched
  <2>2. /\ target[r] \in Mappings /\ target' = target
        /\ next' = [next EXCEPT ![target[r]] = IF Mode[target[r]] = "sequential"
                                               THEN (@ + 1) % Size[target[r]] ELSE @]
        /\ chosen[r] = -1
    BY <1>0, <1>6 DEF Matched, Move, Labelled, Unchosen
  <2>3. /\ chosen'[r] = u
        /\ \A q \in Requests \ {r} : chosen'[q] = chosen[q]
    BY <1>0, <2>1
  <2>4. CASE target[r] # m
    <3>1. ASSUME NEW v \in Variants(m) PROVE Taken(m, v)' = Taken(m, v)
      BY <2>2, <2>3, <2>4 DEF Taken
    <3>2. next'[m] = next[m]
      BY <1>0, <2>2, <2>4
    <3> QED
      BY <1>3, <3>1, <3>2
  <2>5. CASE target[r] = m
    <3>1. u = next[m] /\ u \in Variants(m) /\ next'[m] = (u + 1) % Size[m]
      BY <1>0, <2>1, <2>2, <2>5 DEF Selectable
    <3>2. /\ Taken(m, u)' = Taken(m, u) \cup {r} /\ r \notin Taken(m, u)
          /\ \A v \in Variants(m) \ {u} : Taken(m, v)' = Taken(m, v)
      <4>1. \A v \in Variants(m) : v # -1
        BY <1>2
      <4> QED
        BY <2>2, <2>3, <2>5, <3>1, <4>1 DEF Taken
    <3>3. IsFiniteSet(Taken(m, u))
      BY HandlerAssumption, FS_Subset DEF Taken
    <3>4. Cardinality(Taken(m, u)') = Cardinality(Taken(m, u)) + 1
      BY <3>2, <3>3, FS_AddElement
    <3>5. \A v \in Variants(m) :
             Cardinality(Taken(m, v)) = IF v < next[m] THEN k + 1 ELSE k
      BY <1>1 DEF Turns
    <3>6. Cardinality(Taken(m, u)') = k + 1
      BY <1>0, <3>1, <3>4, <3>5
    <3>7. ASSUME NEW v \in Variants(m)
          PROVE  Cardinality(Taken(m, v)') = IF v <= u THEN k + 1 ELSE k
      <4>1. v \in Nat /\ u \in Nat
        BY <1>2, <3>1
      <4>2. CASE v = u
        BY <3>6, <4>1, <4>2
      <4>3. CASE v # u
        BY <3>1, <3>2, <3>5, <4>1, <4>3
      <4> QED
        BY <4>2, <4>3
    <3>8. CASE u + 1 < Size[m]
      <4>1. next'[m] = u + 1 /\ u \in Nat
        BY <1>0, <1>2, <3>1, <3>8
      <4>2. \A v \in Variants(m) : v <= u <=> v < u + 1
        BY <1>2, <4>1
      <4>3. Turns(m, k)'
        BY <3>7, <4>1, <4>2 DEF Turns
      <4> QED
        BY <4>3
    <3>9. CASE ~(u + 1 < Size[m])
      <4>1. u + 1 = Size[m] /\ u \in Nat
        BY <1>0, <1>2, <3>1, <3>9 DEF Variants
      <4>2. next'[m] = 0
        BY <1>0, <3>1, <4>1
      <4>3. \A v \in Variants(m) : v <= u /\ ~(v < 0)
        BY <1>0, <4>1 DEF Variants
      <4>4. Turns(m, k + 1)'
        BY <3>7, <4>2, <4>3 DEF Turns
      <4> QED
        BY <4>4
    <3> QED
      BY <3>8, <3>9
  <2> QED
    BY <2>4, <2>5
<1>7. CASE UNCHANGED vars
  BY <1>4, <1>7, <1>1 DEF vars, selection
<1>8. \/ UNCHANGED selection \/ UNCHANGED vars
      \/ \E r \in Requests : handleStub(r) \/ Matched(r)
  BY ZenonT(40) DEF Next, Arrive, Dispatch, Serve, Finish, ServeProbe, ServeMetrics, ClientLeaves,
         ReadBody, ReadBodyFails, Unmatched, SelectFails, SelectPanics, RenderFails,
         RenderPanics, RenderNoDelay, RenderDelay, DelayPanics, TimerFires,
         DelayCancelled, WriteResponse, CountRequest, ObserveLatency, LeaveFlight
<1> QED
  BY <1>1, <1>4, <1>5, <1>6, <1>7, <1>8

LEMMA RotationInvariance == Spec => []RotationInv
<1>1. Init => RotationInv
  <2> SUFFICES ASSUME Init PROVE RotationInv
    OBVIOUS
  <2>1. Labelled
    BY HandlerAssumption DEF Init, Labelled, newRequestMetricState
  <2>2. ASSUME NEW m \in Mappings PROVE Turns(m, 0)
    <3>1. \A v \in Variants(m) : v \in Nat /\ ~(v < 0)
      BY HandlerAssumption DEF Variants
    <3>2. \A v \in Variants(m) : Taken(m, v) = {}
      BY <3>1 DEF Init, Taken
    <3>3. next[m] = 0
      BY DEF Init
    <3> QED
      BY <3>1, <3>2, <3>3, FS_EmptySet DEF Turns
  <2> QED
    BY <2>1, <2>2 DEF RotationInv, TurnsTaken
<1>2. IInv /\ RotationInv /\ [Next]_vars => RotationInv'
  BY StepLabelled, StepTurns DEF RotationInv
<1> QED
  BY <1>1, <1>2, Invariance, PTL DEF Spec

\* When nothing is in flight the metrics of a variant count its turns.
LEMMA TurnsCounted ==
    ASSUME TypeOK, InFlightExact, CountedOnce, Labelled, inFlight = 0,
           NEW m \in Mappings, Mode[m] = "sequential", Distinct(m),
           NEW v \in Variants(m)
    PROVE  VariantCount(m, v) = Cardinality(Taken(m, v))
<1> DEFINE S == {l \in DOMAIN total : l.stub = m /\ l.variant = variantName(m, v)}
<1>1. \A r \in Requests : pc[r] \notin Handling
  <2>1. IsFiniteSet({r \in Requests : pc[r] \in Handling})
    BY HandlerAssumption, FS_Subset
  <2>2. {r \in Requests : pc[r] \in Handling} = {}
    BY <2>1, FS_EmptySet DEF InFlightExact
  <2> QED
    BY <2>2
<1>2. \A r \in Requests : chosen[r] # -1 => r \in Counted
  BY <1>1 DEF Labelled, Unchosen, Counted, TypeOK
<1>3. IsFiniteSet(Counted)
  BY HandlerAssumption, FS_Subset DEF Counted
<1>4. /\ DOMAIN total = {state[r] : r \in Counted}
      /\ \A l \in DOMAIN total : total[l] = Cardinality({r \in Counted : state[r] = l})
  BY DEF CountedOnce, Ledger
<1>5. IsFiniteSet(S)
  <2>1. /\ \A r \in Counted : state[r] \in DOMAIN total
        /\ \A l \in DOMAIN total : \E r \in Counted : state[r] = l
    BY <1>4
  <2>2. IsFiniteSet(DOMAIN total)
    BY <1>3, <2>1, FiniteImage
  <2> QED
    BY <2>2, FS_Subset
<1>6. SumFunctionOnSet(total, S) = Cardinality(PartOf(Counted, state, S))
  <2>1. \A l \in S : total[l] = Cardinality(PartOf(Counted, state, {l}))
    <3> TAKE l \in S
    <3>1. {r \in Counted : state[r] = l} = PartOf(Counted, state, {l})
      BY DEF PartOf
    <3> QED
      BY <1>4, <3>1
  <2> HIDE DEF S
  <2> QED
    BY <1>3, <1>5, <2>1, SumOfParts
<1>7. PartOf(Counted, state, S) = Taken(m, v)
  <2>1. v # -1
    BY HandlerAssumption DEF Variants
  <2>2. ASSUME NEW r \in Counted, state[r] \in S PROVE r \in Taken(m, v)
    <3>1. r \in Requests /\ state[r].stub = m /\ state[r].variant = variantName(m, v)
      BY <2>2 DEF Counted
    <3>2. chosen[r] # -1
      BY <3>1 DEF Labelled
    <3>3. /\ target[r] = m /\ chosen[r] \in Variants(m)
          /\ variantName(m, chosen[r]) = variantName(m, v)
      BY <3>1, <3>2 DEF Labelled
    <3>4. chosen[r] = v
      BY <3>3 DEF Distinct
    <3> QED
      BY <3>1, <3>3, <3>4 DEF Taken
  <2>3. ASSUME NEW r \in Taken(m, v) PROVE r \in Counted /\ state[r] \in S
    <3>1. r \in Requests /\ target[r] = m /\ chosen[r] = v
      BY DEF Taken
    <3>2. r \in Counted /\ state[r].stub = m /\ state[r].variant = variantName(m, v)
      BY <1>2, <2>1, <3>1 DEF Labelled
    <3> QED
      BY <1>4, <3>2
  <2> QED
    BY <2>2, <2>3 DEF PartOf
<1> QED
  BY <1>6, <1>7 DEF VariantCount

\* Whatever other requests fail, panic or are cancelled in between, a
\* sequential mapping goes round its variants, and the metrics show it.
THEOREM RotationAlwaysInMetrics == Spec => []RotationInMetrics
<1>1. ASSUME TypeOK, InFlightExact, CountedOnce, RotationInv PROVE RotationInMetrics
  <2> SUFFICES ASSUME inFlight = 0, NEW m \in Mappings, Mode[m] = "sequential", Distinct(m),
                      NEW v \in Variants(m), NEW w \in Variants(m), v < w
               PROVE  VariantCount(m, v) - VariantCount(m, w) \in {0, 1}
    BY DEF RotationInMetrics
  <2>1. PICK k \in Nat : Turns(m, k)
    BY <1>1 DEF RotationInv, TurnsTaken
  <2>2. /\ VariantCount(m, v) = Cardinality(Taken(m, v))
        /\ VariantCount(m, w) = Cardinality(Taken(m, w))
    BY <1>1, TurnsCounted DEF RotationInv
  <2>3. /\ VariantCount(m, v) = IF v < next[m] THEN k + 1 ELSE k
        /\ VariantCount(m, w) = IF w < next[m] THEN k + 1 ELSE k
    BY <2>1, <2>2 DEF Turns
  <2>4. v \in Nat /\ w \in Nat /\ next[m] \in Nat
    BY <1>1, HandlerAssumption DEF TypeOK, Variants
  <2> QED
    BY <2>3, <2>4
<1> QED
  BY <1>1, TypeCorrect, AccountingExact, RotationInvariance, PTL

(***************************************************************************)
(* Traffic implements Handler                                              *)
(***************************************************************************)
LEMMA StepIsHandlers ==
    ASSUME NEW r \in Requests, Step(r)
    PROVE  Next
<1>1. CASE Begin(r)
  BY <1>1 DEF Begin, Next, Arrive
<1>2. CASE KeepBody(r)
  BY <1>2 DEF KeepBody, Next
<1>3. CASE Answer(r)
  BY <1>3 DEF Answer, Next, Dispatch, Serve
<1>4. CASE Unseen(r)
  BY <1>4 DEF Unseen, Next, Arrive, Dispatch, Serve
<1> QED
  BY <1>1, <1>2, <1>3, <1>4 DEF Step

LEMMA TNextIsHandlers == [TNext]_tvars => [Next]_vars
<1> SUFFICES ASSUME [TNext]_tvars PROVE [Next]_vars
  OBVIOUS
<1>1. ASSUME NEW r \in Requests, Step(r) PROVE [Next]_vars
  BY <1>1, StepIsHandlers
<1>2. ASSUME NEW r \in Requests, Log(r) PROVE [Next]_vars
  BY <1>2 DEF Log
<1>3. CASE UNCHANGED tvars
  BY <1>3 DEF tvars
<1> QED
  BY <1>1, <1>2, <1>3 DEF TNext

\* With the log around it the handler does what it does without: recorder,
\* state of the log and records change none of its steps.
THEOREM ImplementsHandler == TSpec => Spec
<1>1. TInit => Init
  BY DEF TInit
<1> QED
  BY <1>1, TNextIsHandlers, PTL DEF TSpec, Spec

(***************************************************************************)
(* The inductive invariant of the log.  What a record says was decided     *)
(* when the response was written, long before the record: it must be known *)
(* that a label does not change any more once a request is accounted for,  *)
(* and that the recorder's status is that of the label from then on.       *)
(***************************************************************************)
Over(r) == pc[r] \in Accounting \cup {"done"}

Recorded ==
    /\ DOMAIN recorder = Requests
    /\ \A r \in Requests : recorder[r].status # 0 =>
           Over(r) /\ recorder[r].status = state[r].status

Entries(r) == {i \in DOMAIN log : log[i].of = r}

Logged ==
    /\ log \in Seq(Range(log))
    /\ \A i \in DOMAIN log :
          /\ log[i].of \in Requests /\ log[i].of \in returned
          /\ log[i].label = state[log[i].of]
          /\ log[i].status = log[i].label.status

LoggedOnce ==
    /\ returned \subseteq {r \in Requests : pc[r] = "done"}
    /\ \A r \in Requests :
          Entries(r) = {} \/ \E i \in DOMAIN log : Entries(r) = {i}
    /\ \A r \in Requests :
          Entries(r) # {} <=> r \in returned /\ verbose # "off" /\ r \notin probe

TInv == Recorded /\ Logged /\ LoggedOnce

\* The label of a request that is being accounted for is final.
OverStays ==
    \A q \in Requests : Over(q) =>
        /\ Over(q)' /\ state'[q] = state[q]
        /\ pc[q] = "done" => pc'[q] = "done"

LEMMA StepOverStays == IInv /\ [Next]_vars => OverStays
<1> SUFFICES ASSUME IInv, [Next]_vars PROVE OverStays
  OBVIOUS
<1>0. /\ pc \in [Requests -> Outside \cup Handling \cup {"done"}]
      /\ state \in [Requests -> Labels]
  BY DEF IInv, TypeOK
<1> USE <1>0 DEF OverStays, Over, Accounting
<1>1. ASSUME NEW r \in Requests, ServeProbe(r) PROVE OverStays
  BY <1>1 DEF ServeProbe, Move, Send, selection, metrics
<1>2. ASSUME NEW r \in Requests, ServeMetrics(r) PROVE OverStays
  BY <1>2 DEF ServeMetrics, Move, Send, selection, metrics
<1>3. ASSUME NEW r \in Requests, handleStub(r) PROVE OverStays
  BY <1>3 DEF handleStub, Move, Mark
<1>4. ASSUME NEW r \in Requests, ClientLeaves(r) PROVE OverStays
  BY <1>4 DEF ClientLeaves, selection, metrics
<1>5. ASSUME NEW r \in Requests, ReadBody(r) PROVE OverStays
  BY <1>5 DEF ReadBody, Move, selection, metrics
<1>6. ASSUME NEW r \in Requests, ReadBodyFails(r) PROVE OverStays
  BY <1>6 DEF ReadBodyFails, Move, Send, selection, metrics
<1>7. ASSUME NEW r \in Requests, Unmatched(r) PROVE OverStays
  BY <1>7 DEF Unmatched, Move, Mark, Send, selection, metrics
<1>8. ASSUME NEW r \in Requests, SelectFails(r) PROVE OverStays
  BY <1>8 DEF SelectFails, Move, Mark, Send, selection, metrics
<1>9. ASSUME NEW r \in Requests, SelectPanics(r) PROVE OverStays
  BY <1>9 DEF SelectPanics, Move, selection, metrics
<1>10. ASSUME NEW r \in Requests, Matched(r) PROVE OverStays
  BY <1>10 DEF Matched, Move, Mark, metrics
<1>11. ASSUME NEW r \in Requests, RenderFails(r) PROVE OverStays
  BY <1>11 DEF RenderFails, Move, Mark, Send, selection, metrics
<1>12. ASSUME NEW r \in Requests, RenderNoDelay(r) PROVE OverStays
  BY <1>12 DEF RenderNoDelay, Move, selection, metrics
<1>13. ASSUME NEW r \in Requests, RenderDelay(r) PROVE OverStays
  BY <1>13 DEF RenderDelay, Move, selection, metrics
<1>14. ASSUME NEW r \in Requests, DelayPanics(r) PROVE OverStays
  BY <1>14 DEF DelayPanics, Move, selection, metrics
<1>22. ASSUME NEW r \in Requests, RenderPanics(r) PROVE OverStays
  BY <1>22 DEF RenderPanics, Move, selection, metrics
<1>15. ASSUME NEW r \in Requests, TimerFires(r) PROVE OverStays
  BY <1>15 DEF TimerFires, Move, selection, metrics
<1>16. ASSUME NEW r \in Requests, DelayCancelled(r) PROVE OverStays
  BY <1>16 DEF DelayCancelled, Move, selection, metrics
<1>17. ASSUME NEW r \in Requests, WriteResponse(r) PROVE OverStays
  BY <1>17 DEF WriteResponse, Move, Send, selection, metrics
<1>18. ASSUME NEW r \in Requests, CountRequest(r) PROVE OverStays
  BY <1>18 DEF CountRequest, Move, selection
<1>19. ASSUME NEW r \in Requests, ObserveLatency(r) PROVE OverStays
  BY <1>19 DEF ObserveLatency, Move, selection
<1>20. ASSUME NEW r \in Requests, LeaveFlight(r) PROVE OverStays
  BY <1>20 DEF LeaveFlight, Move, selection
<1>21. CASE UNCHANGED vars
  BY <1>21 DEF vars
<1> QED
  BY <1>1, <1>2, <1>3, <1>4, <1>5, <1>6, <1>7, <1>8, <1>9, <1>10,
     <1>11, <1>12, <1>13, <1>14, <1>15, <1>16, <1>17, <1>18, <1>19, <1>20, <1>21, <1>22
  DEF Next, Arrive, Dispatch, Serve, Finish

\* A response is recorded with the status its request is then labelled with.
LEMMA AnswerRecorded ==
    ASSUME IInv, Recorded, OverStays, NEW r \in Requests, Answer(r)
    PROVE  Recorded'
<1> DEFINE Now(status) == state'[r].status = status /\ pc'[r] = "count"
<1>0. /\ pc \in [Requests -> Outside \cup Handling \cup {"done"}]
      /\ state \in [Requests -> Labels]
      /\ InService
  BY DEF IInv, TypeOK
<1>1. ASSUME NEW status, NEW body, Respond(r, status, body), Now(status) PROVE Recorded'
  <2>1. DOMAIN recorder' = Requests
    BY <1>1 DEF Respond, Recorded
  <2>2. \A q \in Requests \ {r} : recorder'[q] = recorder[q]
    BY <1>1 DEF Respond, Recorded
  <2>3. recorder'[r] = recorder[r] \/ recorder'[r].status = status
    BY <1>1 DEF Respond, Recorded, written
  <2>4. recorder'[r].status # 0 => Over(r)' /\ recorder'[r].status = state'[r].status
    BY <1>1, <2>3 DEF Recorded, OverStays, Over, Accounting
  <2> QED
    BY <2>1, <2>2, <2>4 DEF Recorded, OverStays
<1>2. CASE ReadBodyFails(r) /\ Respond(r, 500, ErrorBody)
  <2>1. Now(500)
    BY <1>0, <1>2 DEF ReadBodyFails, Move, InService, newRequestMetricState
  <2> QED
    BY <1>1, <1>2, <2>1
<1>3. CASE SelectFails(r) /\ Respond(r, 500, ErrorBody)
  <2>1. state[r].status = 500
    BY <1>3 DEF SelectFails, Move, InService, newRequestMetricState, IInv
  <2>2. Now(500)
    BY <1>0, <1>3, <2>1 DEF SelectFails, Mark, Move
  <2> QED
    BY <1>1, <1>3, <2>2
<1>4. CASE RenderFails(r) /\ Respond(r, 500, ErrorBody)
  <2>1. Now(500)
    BY <1>0, <1>4 DEF RenderFails, Mark, Move, Labels
  <2> QED
    BY <1>1, <1>4, <2>1
<1>5. CASE Unmatched(r) /\ Respond(r, 404, ErrorBody)
  <2>1. Now(404)
    BY <1>0, <1>5 DEF Unmatched, Mark, Move, Labels
  <2> QED
    BY <1>1, <1>5, <2>1
<1>6. CASE WriteResponse(r) /\ Respond(r, Chosen(r).status, ServedBody[target[r]])
  <2>1. Now(Chosen(r).status)
    BY <1>0, <1>6 DEF WriteResponse, Move, InService
  <2> QED
    BY <1>1, <1>6, <2>1
<1> QED
  BY <1>2, <1>3, <1>4, <1>5, <1>6 DEF Answer

LEMMA StepRecorded == IInv /\ TInv /\ [TNext]_tvars => Recorded'
<1> SUFFICES ASSUME IInv, TInv, [TNext]_tvars PROVE Recorded'
  OBVIOUS
<1>1. OverStays
  BY StepOverStays, TNextIsHandlers
<1>2. ASSUME recorder' = recorder PROVE Recorded'
  BY <1>1, <1>2 DEF TInv, Recorded, OverStays
<1>3. ASSUME NEW r \in Requests, Step(r) PROVE Recorded'
  <2>1. CASE Answer(r)
    BY <1>1, <2>1, AnswerRecorded DEF TInv
  <2>2. CASE Begin(r) \/ KeepBody(r) \/ Unseen(r)
    BY <1>2, <2>2 DEF Begin, KeepBody, Unseen
  <2> QED
    BY <1>3, <2>1, <2>2 DEF Step
<1>4. ASSUME NEW r \in Requests, Log(r) PROVE Recorded'
  BY <1>2, <1>4 DEF Log
<1>5. CASE UNCHANGED tvars
  BY <1>2, <1>5 DEF tvars
<1> QED
  BY <1>3, <1>4, <1>5 DEF TNext

(***************************************************************************)
(* Records                                                                 *)
(***************************************************************************)
LEMMA OneMoreRecord ==
    ASSUME NEW s, s \in Seq(Range(s)), NEW e
    PROVE  /\ Append(s, e) \in Seq(Range(Append(s, e)))
           /\ Len(s) \in Nat
           /\ DOMAIN s = 1 .. Len(s)
           /\ DOMAIN Append(s, e) = DOMAIN s \cup {Len(s) + 1}
           /\ \A i \in DOMAIN s : Append(s, e)[i] = s[i]
           /\ Append(s, e)[Len(s) + 1] = e
<1> DEFINE S == Range(s) \cup {e}
<1>1. s \in Seq(S) /\ e \in S
  BY Zenon, SeqMonotonic
<1> HIDE DEF S
<1>2. /\ Append(s, e) \in Seq(S)
      /\ Len(Append(s, e)) = Len(s) + 1
      /\ \A i \in 1 .. Len(s) : Append(s, e)[i] = s[i]
      /\ Append(s, e)[Len(s) + 1] = e
  BY <1>1, AppendProperties
<1>3. Len(s) \in Nat /\ DOMAIN s = 1 .. Len(s) /\ DOMAIN Append(s, e) = 1 .. Len(s) + 1
  BY <1>1, <1>2
<1>4. \A i \in 1 .. Len(s) + 1 : Append(s, e)[i] \in Range(Append(s, e))
  BY <1>3 DEF Range
<1>5. Append(s, e) \in [1 .. Len(s) + 1 -> S]
  BY <1>2, LenProperties
<1>6. Append(s, e) \in [1 .. Len(s) + 1 -> Range(Append(s, e))]
  BY <1>4, <1>5
<1>7. Append(s, e) \in Seq(Range(Append(s, e)))
  <2> DEFINE t == Append(s, e)
  <2>1. \E n \in Nat : t \in [1 .. n -> Range(t)]
    BY <1>3, <1>6
  <2> HIDE DEF t
  <2>2. t \in Seq(Range(t))
    BY <2>1, SeqDef, ZenonT(30)
  <2> QED
    BY <2>2 DEF t
<1> QED
  BY <1>2, <1>3, <1>7

\* A step of the handler leaves the requests that are over as they are.
LEMMA StepKeepsProbes ==
    ASSUME NEW r \in Requests, Step(r), NEW q \in Requests, pc[q] = "done"
    PROVE  q \in probe' <=> q \in probe
<1>1. CASE Begin(r)
  BY <1>1 DEF Begin, handleStub, Move
<1>2. CASE KeepBody(r) \/ Answer(r) \/ Unseen(r)
  BY <1>2 DEF KeepBody, Answer, Unseen
<1> QED
  BY <1>1, <1>2 DEF Step

LEMMA StepLogged == IInv /\ TInv /\ [TNext]_tvars => Logged'
<1> SUFFICES ASSUME IInv, TInv, [TNext]_tvars PROVE Logged'
  OBVIOUS
<1>1. OverStays /\ Logged /\ LoggedOnce /\ Recorded
  BY StepOverStays, TNextIsHandlers DEF TInv
<1>2. ASSUME returned' = returned, log' = log PROVE Logged'
  <2>1. \A i \in DOMAIN log : state'[log[i].of] = state[log[i].of]
    BY <1>1 DEF Logged, LoggedOnce, OverStays, Over
  <2> QED
    BY <1>1, <1>2, <2>1 DEF Logged, Range
<1>3. ASSUME NEW r \in Requests, Log(r) PROVE Logged'
  <2>1. state' = state /\ returned' = returned \cup {r}
    BY <1>3 DEF Log, vars
  <2>2. CASE log' = log
    BY <1>1, <2>1, <2>2 DEF Logged, Range
  <2>3. CASE log' = Append(log, Record(r))
    <3>1. Record(r).of = r /\ Record(r).label = state[r] /\ Record(r).status = responseStatus(r)
      BY DEF Record
    <3>2. responseStatus(r) = state[r].status
      BY <1>1 DEF Recorded, responseStatus
    <3>3. log \in Seq(Range(log))
      BY <1>1 DEF Logged
    <3>4. /\ log' \in Seq(Range(log'))
          /\ DOMAIN log' = DOMAIN log \cup {Len(log) + 1}
          /\ \A i \in DOMAIN log : log'[i] = log[i]
          /\ log'[Len(log) + 1] = Record(r)
      BY <2>3, <3>3, OneMoreRecord
    <3> QED
      BY <1>1, <2>1, <3>1, <3>2, <3>4 DEF Logged, Range
  <2> QED
    BY <1>3, <2>2, <2>3 DEF Log
<1>4. CASE UNCHANGED tvars
  BY <1>2, <1>4 DEF tvars
<1> QED
  BY <1>2, <1>3, <1>4 DEF TNext

LEMMA StepLoggedOnce == IInv /\ TInv /\ [TNext]_tvars => LoggedOnce'
<1> SUFFICES ASSUME IInv, TInv, [TNext]_tvars PROVE LoggedOnce'
  OBVIOUS
<1>1. OverStays /\ Logged /\ LoggedOnce
  BY StepOverStays, TNextIsHandlers DEF TInv
<1>2. ASSUME verbose' = verbose, returned' = returned, log' = log,
             \A q \in Requests : pc[q] = "done" => (q \in probe' <=> q \in probe)
      PROVE  LoggedOnce'
  <2>1. returned' \subseteq {r \in Requests : pc'[r] = "done"}
    BY <1>1, <1>2 DEF LoggedOnce, OverStays, Over
  <2>2. \A r \in Requests : Entries(r)' = Entries(r)
    BY <1>2 DEF Entries
  <2>3. \A r \in Requests :
           Entries(r)' # {} <=> r \in returned' /\ verbose' # "off" /\ r \notin probe'
    BY <1>1, <1>2, <2>2 DEF LoggedOnce
  <2> QED
    BY <1>1, <1>2, <2>1, <2>2, <2>3 DEF LoggedOnce
<1>3. ASSUME NEW r \in Requests, Step(r), UNCHANGED <<verbose, returned, log>>
      PROVE  LoggedOnce'
  BY <1>2, <1>3, StepKeepsProbes
<1>4. ASSUME NEW r \in Requests, Log(r) PROVE LoggedOnce'
  <2>1. /\ pc' = pc /\ probe' = probe /\ verbose' = verbose
        /\ returned' = returned \cup {r} /\ r \notin returned /\ pc[r] = "done"
    BY <1>4 DEF Log, vars
  <2>2. returned' \subseteq {q \in Requests : pc'[q] = "done"}
    BY <1>1, <2>1 DEF LoggedOnce
  <2>3. Entries(r) = {}
    BY <1>1, <2>1 DEF LoggedOnce
  <2>4. CASE log' = log /\ ~(verbose # "off" /\ r \notin probe)
    <3>1. \A q \in Requests : Entries(q)' = Entries(q)
      BY <2>4 DEF Entries
    <3> QED
      BY <1>1, <2>1, <2>2, <2>3, <2>4, <3>1 DEF LoggedOnce
  <2>5. CASE log' = Append(log, Record(r)) /\ verbose # "off" /\ r \notin probe
    <3>1. /\ Len(log) \in Nat /\ DOMAIN log = 1 .. Len(log)
          /\ DOMAIN log' = DOMAIN log \cup {Len(log) + 1}
          /\ \A i \in DOMAIN log : log'[i] = log[i]
          /\ log'[Len(log) + 1].of = r
      <4>1. log \in Seq(Range(log))
        BY <1>1 DEF Logged
      <4>2. Record(r).of = r
        BY DEF Record
      <4> QED
        BY <2>5, <4>1, <4>2, OneMoreRecord
    <3>2. Entries(r)' = {Len(log) + 1}
      BY <2>3, <3>1 DEF Entries
    <3>3. \A q \in Requests \ {r} : Entries(q)' = Entries(q)
      BY <3>1 DEF Entries
    <3>4. \A q \in Requests : Entries(q)' = {} \/ \E i \in DOMAIN log' : Entries(q)' = {i}
      BY <1>1, <3>1, <3>2, <3>3 DEF LoggedOnce
    <3>5. \A q \in Requests :
             Entries(q)' # {} <=> q \in returned' /\ verbose' # "off" /\ q \notin probe'
      BY <1>1, <2>1, <2>5, <3>2, <3>3 DEF LoggedOnce
    <3> QED
      BY <2>2, <3>4, <3>5 DEF LoggedOnce
  <2> QED
    BY <1>4, <2>4, <2>5 DEF Log
<1>5. CASE UNCHANGED tvars
  BY <1>2, <1>5 DEF tvars
<1> QED
  BY <1>3, <1>4, <1>5 DEF TNext

(***************************************************************************)
(* The theorems                                                            *)
(***************************************************************************)
LEMMA InitTInv == TInit => TInv
<1> SUFFICES ASSUME TInit PROVE TInv
  OBVIOUS
<1>1. Recorded
  BY DEF TInit, Recorded, newResponseLogRecorder
<1>2. log = <<>> /\ DOMAIN log = {} /\ returned = {}
  BY DEF TInit
<1>3. Logged
  BY <1>2 DEF Logged
<1>4. LoggedOnce
  BY <1>2 DEF LoggedOnce, Entries
<1> QED
  BY <1>1, <1>3, <1>4 DEF TInv

LEMMA TInvariance == TSpec => []TInv
<1>1. IInv /\ TInv /\ [TNext]_tvars => TInv'
  BY StepRecorded, StepLogged, StepLoggedOnce DEF TInv
<1>2. TSpec => []IInv
  BY ImplementsHandler, Invariance, PTL
<1> QED
  BY InitTInv, <1>1, <1>2, PTL DEF TSpec

\* Every request that is over has one record if it is to have any, and its
\* status, wherever it was taken from, is the one that was counted and, if
\* anything was sent, the one that was sent.
THEOREM TheLogAgrees == TSpec => []LoggedAsCounted
<1>1. ASSUME TInv, TypeOK, TruthfulStatus, CountedOnce PROVE LoggedAsCounted
  <2>1. ASSUME NEW r \in Requests
        PROVE  Cardinality(Entries(r))
                 = IF r \in returned /\ verbose # "off" /\ r \notin probe THEN 1 ELSE 0
    <3>1. Cardinality({}) = 0 /\ \A i : Cardinality({i}) = 1
      BY FS_EmptySet, FS_Singleton
    <3> QED
      BY <1>1, <2>1, <3>1 DEF TInv, LoggedOnce
  <2>2. ASSUME NEW i \in DOMAIN log
        PROVE  /\ log[i].label \in DOMAIN total
               /\ log[i].status = log[i].label.status
               /\ wire[log[i].of] \in {0, Final(log[i].status)}
    <3>1. /\ log[i].of \in Requests /\ pc[log[i].of] = "done"
          /\ log[i].label = state[log[i].of]
          /\ log[i].status = log[i].label.status
      BY <1>1, <2>2 DEF TInv, Logged, LoggedOnce
    <3>2. log[i].label \in DOMAIN total
      BY <1>1, <3>1 DEF CountedOnce, Ledger, Counted
    <3>3. wire[log[i].of] \in {0, Final(log[i].status)}
      BY <1>1, <3>1 DEF TruthfulStatus, Accounting
    <3> QED
      BY <3>1, <3>2, <3>3
  <2> QED
    BY <2>1, <2>2 DEF LoggedAsCounted, Entries
<1> QED
  BY <1>1, TInvariance, ImplementsHandler, TypeCorrect, StatusAlwaysTruthful,
     AccountingExact, PTL

(***************************************************************************)
(* What the records show of the bodies.  The recorder of a response holds  *)
(* a prefix of its one Write, and nothing before it; and a record shows    *)
(* what the log state and the recorder still hold of the request.          *)
(***************************************************************************)
LEMMA MinOfTwo ==
    ASSUME NEW a \in Nat, NEW b \in Nat
    PROVE  Min({a, b}) = IF a <= b THEN a ELSE b
<1>1. Min({a, b}) \in {a, b} /\ Min({a, b}) <= a /\ Min({a, b}) <= b
  BY MinIsLeast, {a, b} \subseteq Nat, {a, b} # {}
<1> QED
  BY <1>1

\* A text has at least as many bytes as runes.
LEMMA RunesHaveBytes ==
    ASSUME NEW runes \in Seq(1 .. 4)
    PROVE  /\ Bytes(runes) \in Nat /\ Len(runes) \in Nat
           /\ Len(runes) <= Bytes(runes)
<1>1. Len(runes) \in Nat /\ DOMAIN runes = 1 .. Len(runes)
  OBVIOUS
<1>2. IsFiniteSet(DOMAIN runes) /\ Cardinality(DOMAIN runes) = Len(runes)
  BY <1>1, CountTo
<1>3. \A i \in DOMAIN runes : runes[i] \in 1 .. 4
  BY <1>1
<1>4. \A i \in DOMAIN runes : runes[i] \in Nat /\ runes[i] > 0
  BY <1>3
<1>5. /\ SumFunctionOnSet(runes, DOMAIN runes) \in Nat
      /\ Cardinality(DOMAIN runes) <= SumFunctionOnSet(runes, DOMAIN runes)
  BY <1>2, <1>4, SumNat, SumAtLeast
<1> QED
  BY <1>1, <1>2, <1>5 DEF Bytes, SumFunction

LEMMA NothingHasNoBytes == Bytes(<<>>) = 0
  BY SumEmpty, EmptySeq DEF Bytes, SumFunction

\* A text whose bytes are within the limit is shown as it is.
LEMMA ShownWhole ==
    ASSUME NEW runes \in Seq(1 .. 4), Bytes(runes) <= Limit
    PROVE  SubSeq(runes, 1, Min({Len(runes), Limit})) = runes
<1>1. Len(runes) \in Nat /\ Len(runes) <= Limit /\ Limit \in Nat
  BY RunesHaveBytes, TrafficAssumption
<1>2. Min({Len(runes), Limit}) = Len(runes)
  BY <1>1, MinOfTwo
<1>3. SubSeq(runes, 1, Len(runes)) = runes
  BY <1>1
<1> QED
  BY <1>2, <1>3

Captured(rec) ==
    /\ rec.body \in Bodies
    /\ rec.seen = Bytes(rec.body.runes)
    /\ rec.held = Min({rec.seen, Limit})

\* A recorder sees nothing until the request is being accounted for.
RecorderInv ==
    /\ DOMAIN recorder = Requests
    /\ \A r \in Requests :
          /\ Captured(recorder[r])
          /\ ~Over(r) => recorder[r] = newResponseLogRecorder

EntryInv ==
    \A i \in DOMAIN log : \A r \in Requests : log[i].of = r =>
        log[i].request = requestDetails(r) /\ log[i].response = responseDetails(r)

BodyInv == RecorderInv /\ EntryInv

LEMMA NewCaptures == Captured(newResponseLogRecorder)
<1>1. <<>> \in Seq(1 .. 4)
  BY EmptySeq
<1>2. [runes |-> <<>>, nameEnds |-> 0] \in Bodies
  BY <1>1, NothingHasNoBytes DEF Bodies
<1>3. Min({0, Limit}) = 0
  BY MinOfTwo, TrafficAssumption
<1> QED
  BY <1>2, <1>3, NothingHasNoBytes DEF Captured, newResponseLogRecorder

LEMMA WrittenCaptures ==
    ASSUME NEW status, NEW body \in Bodies
    PROVE  Captured(written(newResponseLogRecorder, status, body))
<1>1. body.runes \in Seq(1 .. 4)
  BY DEF Bodies
<1>2. Bytes(body.runes) \in Nat
  BY <1>1, RunesHaveBytes
<1>3. 0 + Bytes(body.runes) = Bytes(body.runes)
  BY <1>2
<1>4. written(newResponseLogRecorder, status, body)
        = [status |-> status, held |-> Min({Bytes(body.runes), Limit}),
           seen |-> Bytes(body.runes), body |-> body]
  BY <1>3 DEF written, newResponseLogRecorder
<1> QED
  BY <1>4 DEF Captured

\* The step that answers is the one the request is over by.
LEMMA AnswerEnds ==
    ASSUME IInv, NEW r \in Requests, Answer(r)
    PROVE  /\ ~Over(r) /\ Over(r)'
           /\ \E status, body : body \in Bodies /\ Respond(r, status, body)
<1>0. /\ pc \in [Requests -> Outside \cup Handling \cup {"done"}]
      /\ ErrorBody \in Bodies /\ ServedBody \in [Mappings -> Bodies]
      /\ InService
  BY TrafficAssumption DEF IInv, TypeOK
<1>1. CASE (ReadBodyFails(r) \/ SelectFails(r) \/ RenderFails(r)) /\ Respond(r, 500, ErrorBody)
  BY <1>0, <1>1 DEF ReadBodyFails, SelectFails, RenderFails, Move, Over, Accounting
<1>2. CASE Unmatched(r) /\ Respond(r, 404, ErrorBody)
  BY <1>0, <1>2 DEF Unmatched, Move, Over, Accounting
<1>3. CASE WriteResponse(r) /\ Respond(r, Chosen(r).status, ServedBody[target[r]])
  <2>1. target[r] \in Mappings
    BY <1>0, <1>3 DEF WriteResponse, Move, InService
  <2>2. ServedBody[target[r]] \in Bodies
    BY <1>0, <2>1
  <2> QED
    BY <1>0, <1>3, <2>2 DEF WriteResponse, Move, Over, Accounting
<1> QED
  BY <1>1, <1>2, <1>3 DEF Answer

\* Nothing of what a record is made from changes once its request is done.
Settled ==
    \A q \in Requests : pc[q] = "done" =>
        recorder'[q] = recorder[q] /\ (q \in read' <=> q \in read)

LEMMA StepRecorders == IInv /\ RecorderInv /\ [TNext]_tvars => RecorderInv' /\ Settled
<1> SUFFICES ASSUME IInv, RecorderInv, [TNext]_tvars PROVE RecorderInv' /\ Settled
  OBVIOUS
<1>1. OverStays
  BY StepOverStays, TNextIsHandlers
<1>2. ASSUME recorder' = recorder, read' = read PROVE RecorderInv' /\ Settled
  BY <1>1, <1>2 DEF RecorderInv, OverStays, Settled, Captured
<1>3. ASSUME NEW r \in Requests, KeepBody(r) PROVE RecorderInv' /\ Settled
  BY <1>1, <1>3 DEF KeepBody, ReadBody, Move, RecorderInv, OverStays, Settled, Captured
<1>4. ASSUME NEW r \in Requests, Answer(r) PROVE RecorderInv' /\ Settled
  <2>1. PICK status, body : body \in Bodies /\ Respond(r, status, body)
    BY <1>4, AnswerEnds
  <2>2. ~Over(r) /\ Over(r)' /\ read' = read
    BY <1>4, AnswerEnds DEF Answer
  <2>3. recorder[r] = newResponseLogRecorder
    BY <2>2 DEF RecorderInv
  <2>4. DOMAIN recorder' = Requests /\ \A q \in Requests \ {r} : recorder'[q] = recorder[q]
    BY <2>1 DEF Respond, RecorderInv
  <2>5. recorder'[r] \in {recorder[r], written(newResponseLogRecorder, status, body)}
    BY <2>1, <2>3 DEF Respond, RecorderInv
  <2>6. Captured(recorder'[r])
    BY <2>1, <2>3, <2>5, NewCaptures, WrittenCaptures
  <2>7. \A q \in Requests : Captured(recorder'[q])
    BY <2>4, <2>6 DEF RecorderInv
  <2>8. RecorderInv'
    BY <1>1, <2>2, <2>4, <2>7 DEF RecorderInv, OverStays, Captured
  <2>9. Settled
    BY <2>2, <2>4 DEF Settled, Over
  <2> QED
    BY <2>8, <2>9
<1>5. ASSUME NEW r \in Requests, Step(r) PROVE RecorderInv' /\ Settled
  BY <1>2, <1>3, <1>4, <1>5 DEF Step, Begin, Unseen
<1>6. ASSUME NEW r \in Requests, Log(r) PROVE RecorderInv' /\ Settled
  BY <1>2, <1>6 DEF Log
<1>7. CASE UNCHANGED tvars
  BY <1>2, <1>7 DEF tvars
<1> QED
  BY <1>5, <1>6, <1>7 DEF TNext

LEMMA StepEntries == IInv /\ TInv /\ EntryInv /\ Settled /\ [TNext]_tvars => EntryInv'
<1> SUFFICES ASSUME IInv, TInv, EntryInv, Settled, [TNext]_tvars PROVE EntryInv'
  OBVIOUS
<1>1. Logged /\ LoggedOnce
  BY DEF TInv
<1>2. \A q \in Requests : pc[q] = "done" =>
          requestDetails(q)' = requestDetails(q) /\ responseDetails(q)' = responseDetails(q)
  BY DEF Settled, requestDetails, responseDetails, bodyValue
<1>3. \A i \in DOMAIN log : log[i].of \in Requests /\ pc[log[i].of] = "done"
  BY <1>1 DEF Logged, LoggedOnce
<1>4. ASSUME log' = log PROVE EntryInv'
  BY <1>2, <1>3, <1>4 DEF EntryInv
<1>5. ASSUME NEW r \in Requests, Log(r), log' = Append(log, Record(r)) PROVE EntryInv'
  <2>1. /\ DOMAIN log' = DOMAIN log \cup {Len(log) + 1}
        /\ \A i \in DOMAIN log : log'[i] = log[i]
        /\ log'[Len(log) + 1] = Record(r)
    <3>1. log \in Seq(Range(log))
      BY <1>1 DEF Logged
    <3> QED
      BY <1>5, <3>1, OneMoreRecord
  <2>2. pc[r] = "done"
    BY <1>5 DEF Log
  <2>3. /\ Record(r).of = r /\ Record(r).request = requestDetails(r)
        /\ Record(r).response = responseDetails(r)
    BY DEF Record
  <2>5. /\ Record(r).request = requestDetails(r)'
        /\ Record(r).response = responseDetails(r)'
    BY <1>2, <2>2, <2>3
  <2>6. ASSUME NEW i \in DOMAIN log', NEW q \in Requests, log'[i].of = q
        PROVE  log'[i].request = requestDetails(q)' /\ log'[i].response = responseDetails(q)'
    <3>1. CASE i \in DOMAIN log
      <4>1. log'[i] = log[i] /\ log[i].of = q
        BY <2>1, <2>6, <3>1
      <4>2. requestDetails(q)' = requestDetails(q) /\ responseDetails(q)' = responseDetails(q)
        BY <1>2, <1>3, <3>1, <4>1
      <4>3. log[i].request = requestDetails(q) /\ log[i].response = responseDetails(q)
        BY <3>1, <4>1 DEF EntryInv
      <4> QED
        BY <4>1, <4>2, <4>3
    <3>2. CASE i = Len(log) + 1
      <4>1. log'[i] = Record(r) /\ q = r
        BY <2>1, <2>3, <2>6, <3>2
      <4> QED
        BY <2>5, <4>1
    <3> QED
      BY <2>1, <2>6, <3>1, <3>2
  <2> QED
    BY <2>6 DEF EntryInv
<1>6. ASSUME NEW r \in Requests, Log(r) PROVE EntryInv'
  BY <1>4, <1>5, <1>6 DEF Log
<1>7. CASE UNCHANGED tvars
  BY <1>4, <1>7 DEF tvars
<1> QED
  BY <1>4, <1>6, <1>7 DEF TNext

LEMMA BodyInvariance == TSpec => []BodyInv
<1>1. TInit => BodyInv
  <2> SUFFICES ASSUME TInit PROVE BodyInv
    OBVIOUS
  <2>1. recorder = [r \in Requests |-> newResponseLogRecorder] /\ DOMAIN log = {}
    BY DEF TInit
  <2> QED
    BY <2>1, NewCaptures DEF BodyInv, RecorderInv, EntryInv
<1>2. IInv /\ TInv /\ BodyInv /\ [TNext]_tvars => BodyInv'
  BY StepRecorders, StepEntries DEF BodyInv
<1>3. TSpec => []IInv
  BY ImplementsHandler, Invariance, PTL
<1> QED
  BY <1>1, <1>2, <1>3, TInvariance, PTL DEF TSpec

\* What a full record shows of a body is all of it, or it says that it was cut,
\* and nothing is shown of a captured body that has a sensitive name in it,
\* whatever the limit and the widths of the runes are.
THEOREM BodiesLoggedTruly == TSpec => []BodyLogged
<1>1. ASSUME BodyInv, TInv, NEW i \in DOMAIN log, log[i].of \in read
      PROVE  Shown(log[i].request, RequestBody[log[i].of], Bytes(RequestBody[log[i].of].runes))
  <2> DEFINE r == log[i].of
             body == RequestBody[r]
             size == Bytes(body.runes)
             first == Bytes(SubSeq(body.runes, 1, Min({Len(body.runes), Limit})))
             named == body.nameEnds > 0
  <2>1. r \in Requests /\ body \in Bodies
    BY <1>1, TrafficAssumption DEF TInv, Logged
  <2>2. body.runes \in Seq(1 .. 4) /\ size \in Nat /\ Limit \in Nat
    BY <2>1, RunesHaveBytes, TrafficAssumption DEF Bodies
  <2>3. log[i].request = bodyValue(size, first, named)
    <3>1. log[i].request = requestDetails(r) /\ r \in read
      BY <1>1, <2>1 DEF BodyInv, EntryInv
    <3> QED
      BY <3>1 DEF requestDetails
  <2>4. size <= Limit => first = size
    BY <2>2, ShownWhole
  <2>5. 10 <= Limit => Min({10, Limit}) = 10
    BY <2>2, MinOfTwo
  <2>6. body.nameEnds \in 1 .. size => named
    BY <2>2
  <2> HIDE DEF r, body, size, first, named
  <2>7. CASE Redact /\ named
    <3>1. log[i].request.redacted /\ log[i].request.bytes = Min({10, Limit})
          /\ log[i].request.cut = (10 > Limit)
      BY <2>3, <2>7 DEF bodyValue
    <3>2. ~(10 > Limit) => 10 <= Limit
      BY <2>2
    <3>3. Shown(log[i].request, body, size)
      BY <2>5, <3>1, <3>2 DEF Shown
    <3> QED
      BY <3>3 DEF r, body, size
  <2>8. CASE ~(Redact /\ named)
    <3>1. ~log[i].request.redacted /\ log[i].request.bytes = first
          /\ log[i].request.cut = (size > Limit)
      BY <2>3, <2>8 DEF bodyValue
    <3>2. ~(size > Limit) => size <= Limit
      BY <2>2
    <3>3. Shown(log[i].request, body, size)
      BY <2>4, <2>6, <2>8, <3>1, <3>2 DEF Shown, size
    <3> QED
      BY <3>3 DEF r, body, size
  <2> QED
    BY <2>7, <2>8
<1>2. ASSUME BodyInv, TInv, NEW i \in DOMAIN log
      PROVE  Shown(log[i].response, recorder[log[i].of].body, Limit)
  <2> DEFINE rec == recorder[log[i].of]
             size == Bytes(rec.body.runes)
             named == rec.body.nameEnds \in 1 .. rec.held
  <2>1. log[i].of \in Requests /\ Captured(rec)
    BY <1>2 DEF BodyInv, RecorderInv, TInv, Logged
  <2>2. /\ rec.body.runes \in Seq(1 .. 4) /\ rec.body.nameEnds \in Nat
        /\ rec.body.nameEnds <= size /\ rec.seen = size /\ rec.held = Min({size, Limit})
    BY <2>1 DEF Captured, Bodies
  <2>3. size \in Nat /\ Limit \in Nat
    BY <2>2, RunesHaveBytes, TrafficAssumption
  <2>4. rec.held = IF size <= Limit THEN size ELSE Limit
    BY <2>2, <2>3, MinOfTwo
  <2>5. log[i].response = [bodyValue(rec.held, rec.held, named) EXCEPT !.cut = @ \/ rec.seen > Limit]
    <3>1. log[i].response = responseDetails(log[i].of)
      BY <1>2, <2>1 DEF BodyInv, EntryInv
    <3> QED
      BY <3>1 DEF responseDetails
  <2>6. 10 <= Limit => Min({10, Limit}) = 10
    BY <2>3, MinOfTwo
  <2>7. rec.body.nameEnds \in 1 .. Limit => named
    BY <2>2, <2>3, <2>4
  <2>8. ~(size > Limit) => rec.held = size
    BY <2>3, <2>4
  <2>9. rec.held \in Nat /\ rec.held <= Limit
    BY <2>3, <2>4
  <2> HIDE DEF rec, size, named
  <2>10. CASE Redact /\ named
    <3>1. log[i].response.redacted /\ log[i].response.bytes = Min({10, Limit})
          /\ (log[i].response.cut <=> 10 > Limit \/ rec.seen > Limit)
      BY <2>5, <2>10, Zenon DEF bodyValue
    <3>2. ~(10 > Limit) => 10 <= Limit
      BY <2>3
    <3>3. Shown(log[i].response, rec.body, Limit)
      BY <2>6, <3>1, <3>2 DEF Shown
    <3> QED
      BY <3>3 DEF rec
  <2>11. CASE ~(Redact /\ named)
    <3>1. ~log[i].response.redacted /\ log[i].response.bytes = rec.held
          /\ (log[i].response.cut <=> rec.held > Limit \/ rec.seen > Limit)
      BY <2>5, <2>11, Zenon DEF bodyValue
    <3>2. Shown(log[i].response, rec.body, Limit)
      BY <2>2, <2>7, <2>8, <2>11, <3>1 DEF Shown, size
    <3> QED
      BY <3>2 DEF rec
  <2> QED
    BY <2>10, <2>11
<1>3. BodyInv /\ TInv => BodyLogged
  BY <1>1, <1>2 DEF BodyLogged
<1> QED
  BY <1>3, BodyInvariance, TInvariance, PTL
=============================================================================
