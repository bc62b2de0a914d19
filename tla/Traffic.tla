------------------------------ MODULE Traffic ------------------------------
(***************************************************************************)
(* The traffic log (internal/server/verbose.go) around the handler.  In    *)
(* full mode the handler writes through a responseLogRecorder, which keeps *)
(* the status and a bounded prefix of the body; the record is written by   *)
(* the deferred finishRequest, after the metrics.  Every step of Handler   *)
(* is a step here, with what the recorder and the log state see of it.     *)
(*                                                                         *)
(* A body is the widths of its runes and where in it a sensitive name ends *)
(* ("token", "password"); the rest of a text makes no difference here.     *)
(***************************************************************************)
EXTENDS Handler, Sequences, FiniteSetsExt

CONSTANTS
    Verbosities,    \* the values of -verbose to consider
    Redact,         \* -verbose-redact
    Limit,          \* -verbose-body-limit
    RequestBody,    \* RequestBody[r]: the body r carries
    ServedBody,     \* ServedBody[m]: the body of the responses of mapping m
    ErrorBody       \* the JSON of writeJSON

Bytes(runes) == SumFunction(runes)

\* nameEnds is the number of bytes up to the end of the first sensitive name,
\* and 0 when there is none.
Bodies == {body \in [runes : Seq(1 .. 4), nameEnds : Nat] : body.nameEnds <= Bytes(body.runes)}

ASSUME TrafficAssumption ==
    /\ Verbosities \subseteq {"off", "summary", "full"}
    /\ Redact \in BOOLEAN
    /\ Limit \in Nat \ {0}
    /\ RequestBody \in [Requests -> Bodies]
    /\ ServedBody \in [Mappings -> Bodies]
    /\ ErrorBody \in Bodies

VARIABLES
    verbose,    \* config.Mode
    probe,      \* the stub requests for /metrics, which are not logged
    read,       \* the requests whose body is in their requestLogState
    recorder,   \* recorder[r]: the responseLogRecorder of r
    returned,   \* the requests whose deferred finishRequest is over
    log         \* the traffic records, in the order they were written

tvars == <<vars, verbose, probe, read, recorder, returned, log>>

\* A prefix of held bytes of the body is kept.
newResponseLogRecorder ==
    [status |-> 0, held |-> 0, seen |-> 0, body |-> [runes |-> <<>>, nameEnds |-> 0]]

TInit ==
    /\ Init
    /\ verbose \in Verbosities
    /\ probe = {}
    /\ read = {}
    /\ recorder = [r \in Requests |-> newResponseLogRecorder]
    /\ returned = {}
    /\ log = <<>>

(***************************************************************************)
(* What is seen of a step of the handler                                   *)
(***************************************************************************)
\* verboseLogger.wrap: the others write to the connection itself.
Wrapped(r) == verbose = "full" /\ r \notin probe

\* Fault: the bytes are counted that fitted, not those that were seen.
writtenSeenHeld(rec, status, body) ==
    LET held == Min({rec.held + Bytes(body.runes), Limit})
    IN  [status |-> status, held |-> held, seen |-> held, body |-> body]

\* WriteHeader and the one Write of a response, through the recorder.
written(rec, status, body) ==
    LET size == Bytes(body.runes)
    IN  [status |-> status, held |-> Min({rec.held + size, Limit}),
         seen |-> rec.seen + size, body |-> body]

Respond(r, status, body) ==
    recorder' = IF Wrapped(r)
                THEN [recorder EXCEPT ![r] = written(@, status, body)]
                ELSE recorder

\* The path of a stub request may be /metrics, where that is not mounted.
Begin(r) ==
    /\ handleStub(r)
    /\ probe' \in {probe, probe \cup {r}}
    /\ UNCHANGED <<read, recorder>>

\* logState.request = model
KeepBody(r) ==
    /\ ReadBody(r)
    /\ read' = read \cup {r}
    /\ UNCHANGED <<probe, recorder>>

\* The steps that write a response.
Answer(r) ==
    /\ \/ (ReadBodyFails(r) \/ SelectFails(r) \/ RenderFails(r)) /\ Respond(r, 500, ErrorBody)
       \/ Unmatched(r) /\ Respond(r, 404, ErrorBody)
       \/ WriteResponse(r) /\ Respond(r, Chosen(r).status, ServedBody[target[r]])
    /\ UNCHANGED <<probe, read>>

\* The steps the log has no part in.
Unseen(r) ==
    /\ \/ ServeProbe(r) \/ ServeMetrics(r) \/ ClientLeaves(r)
       \/ SelectPanics(r) \/ Matched(r)
       \/ RenderPanics(r) \/ RenderNoDelay(r) \/ RenderDelay(r) \/ DelayPanics(r)
       \/ TimerFires(r) \/ DelayCancelled(r)
       \/ Finish(r)
    /\ UNCHANGED <<probe, read, recorder>>

(***************************************************************************)
(* verboseLogger.log                                                       *)
(***************************************************************************)
\* bodyValue: a body that holds a sensitive name is replaced by a mark of ten
\* bytes, and the text is cut after Limit runes; whether it was cut is told
\* from its bytes.
bodyValue(size, firstRunes, named) ==
    IF Redact /\ named
    THEN [redacted |-> TRUE, bytes |-> Min({10, Limit}), cut |-> 10 > Limit]
    ELSE [redacted |-> FALSE, bytes |-> firstRunes, cut |-> size > Limit]

requestDetails(r) ==
    LET runes == IF r \in read THEN RequestBody[r].runes ELSE <<>>
    IN  bodyValue(Bytes(runes), Bytes(SubSeq(runes, 1, Min({Len(runes), Limit}))),
                  r \in read /\ RequestBody[r].nameEnds > 0)

\* The held bytes are Limit at most, so the runes in them are not cut again.
responseDetails(r) ==
    LET rec == recorder[r]
        body == bodyValue(rec.held, rec.held, rec.body.nameEnds \in 1 .. rec.held)
    IN  [body EXCEPT !.cut = @ \/ rec.seen > Limit]

\* Fault: the status of a response that was never begun is left at 0.
responseStatusZero(r) == recorder[r].status

\* responseStatus: the recorder's, or the metric state's when no header was
\* written.
responseStatus(r) == IF recorder[r].status # 0 THEN recorder[r].status ELSE state[r].status

Record(r) == [of |-> r, label |-> state[r], status |-> responseStatus(r),
              request |-> requestDetails(r), response |-> responseDetails(r)]

\* The end of finishRequest: one record, unless the mode is off or the path
\* is that of a probe.  In summary mode the two bodies are not written out.
Log(r) ==
    /\ pc[r] = "done" /\ r \notin returned
    /\ returned' = returned \cup {r}
    /\ log' = IF verbose # "off" /\ r \notin probe THEN Append(log, Record(r)) ELSE log
    /\ UNCHANGED <<vars, verbose, probe, read, recorder>>

Step(r) == Begin(r) \/ KeepBody(r) \/ Answer(r) \/ Unseen(r)

TNext == \E r \in Requests :
            \/ Step(r) /\ UNCHANGED <<verbose, returned, log>>
            \/ Log(r)

TSpec == TInit /\ [][TNext]_tvars

\* The goroutine of a request goes on to the end of its deferred call.
TFairSpec == TSpec /\ Fairness /\ \A r \in Requests : WF_tvars(Log(r))

(***************************************************************************)
(* Properties                                                              *)
(***************************************************************************)
\* Every stub request that is over has one record, written after it was
\* counted, if the mode and its path allow; and the status of the response in
\* it, which the recorder saw, is the one in its summary, which is the label
\* it was counted under and what the client was sent.
LoggedAsCounted ==
    /\ \A r \in Requests :
          Cardinality({i \in DOMAIN log : log[i].of = r})
            = IF r \in returned /\ verbose # "off" /\ r \notin probe THEN 1 ELSE 0
    /\ \A i \in DOMAIN log :
          /\ log[i].label \in DOMAIN total
          /\ log[i].status = log[i].label.status
          /\ wire[log[i].of] \in {0, Final(log[i].status)}

\* What a record shows of a body is the whole of it (or the whole mark), or
\* it is marked as truncated; and nothing of a body is shown in whose captured
\* part a sensitive name ends, where redaction is on.
Shown(entry, body, captured) ==
    /\ ~entry.cut => entry.bytes = IF entry.redacted THEN 10 ELSE Bytes(body.runes)
    /\ Redact /\ body.nameEnds \in 1 .. captured => entry.redacted

BodyLogged ==
    verbose = "full" => \A i \in DOMAIN log :
        LET r == log[i].of IN
        /\ r \in read => Shown(log[i].request, RequestBody[r], Bytes(RequestBody[r].runes))
        /\ Shown(log[i].response, recorder[r].body, Limit)

\* "max body bytes captured in full logs" (README.md:99).
LoggedBytesWithinLimit ==
    verbose = "full" => \A i \in DOMAIN log :
        log[i].request.bytes <= Limit /\ log[i].response.bytes <= Limit
=============================================================================
