---------------------------- MODULE WorkerRequest ----------------------------
(***************************************************************************)
(* A request to the public worker, from src/worker.ts and                  *)
(* worker-request.ts: authentication, admission, the reading of the body,  *)
(* the call of a tool, the response, and the telemetry recorded of it.     *)
(* The body is a stream that its client feeds as it likes: a chunk may be  *)
(* empty, late, or never come.                                             *)
(***************************************************************************)
EXTENDS Verification

CONSTANTS
    MaxBody,      \* MAX_MCP_REQUEST_BODY_BYTES
    MaxIdBytes,   \* MAX_REQUEST_ID_BYTES
    MaxIdChunks   \* MAX_REQUEST_ID_CHUNKS

ASSUME WorkerAssumption ==
    /\ {MaxBody, MaxIdBytes, MaxIdChunks} \subseteq Nat
    /\ Null \notin ExecutionFacts

VARIABLES
    request,    \* how far the request is, and what the worker knows of it
    body,       \* what has been read of its body
    response,   \* the response, Null before
    event,      \* the telemetry event, Null before
    sinks       \* what became of it in the log, the trace service and the metrics

pipeline == <<request, body, response, event, sinks>>
vars == <<callVars, pipeline>>

Stage == {"arrived", "authenticating", "admitting", "recovering", "checking", "reading",
          "serving", "calling", "summarizing", "logging", "tracing", "measuring", "done"}
Boundary == {"unauthorized", "authentication_unavailable", "admission_unavailable",
             "admission_exhausted", "protocol_rejected", "payload_too_large"}

\* "charged" is history: whether the limiter counted the request.  "facts" is the
\* snapshot that the completion carries.
RequestInit ==
    /\ request = [stage |-> "arrived", keyed |-> FALSE, charged |-> FALSE,
                  boundary |-> Null, facts |-> Null]
    /\ body = [bytes |-> 0, chunks |-> 0, whole |-> FALSE]
    /\ response = Null
    /\ event = Null
    /\ sinks = [log |-> "untried", trace |-> "untried", metric |-> "untried"]

At(stage) == request.stage = stage
Goes(stage) == request' = [request EXCEPT !.stage = stage]

Bare(status) == [status |-> status, id |-> FALSE, tool |-> "mcp", answer |-> Null]

\* The request ends without telemetry.
Ends(status) ==
    /\ Goes("done")
    /\ response' = Bare(status)
    /\ UNCHANGED <<body, event, sinks>>

\* completed: telemetry follows on the side, where the worker has what it needs.
Completes(r, outcome, facts) ==
    /\ \E stage \in {"summarizing", "done"} :
           request' = [r EXCEPT !.stage = stage, !.boundary = outcome, !.facts = facts]
    /\ UNCHANGED <<event, sinks>>

Rejects(status, outcome, facts) ==
    /\ Completes(request, outcome, facts)
    /\ response' = Bare(status)
    /\ UNCHANGED body

-----------------------------------------------------------------------------
(* Before the body is read                                                 *)

\* The health check, an unknown path, or a method that is not POST.
Arrive ==
    /\ At("arrived")
    /\ \/ \E status \in {200, 404, 405} : Ends(status)
       \/ Goes("authenticating") /\ UNCHANGED <<body, response, event, sinks>>
    /\ UNCHANGED callVars

\* What authenticateRequest finds is in KeyLifecycle; D1 may fail.
Authenticate ==
    /\ At("authenticating")
    /\ \/ Rejects(401, "unauthorized", Null)
       \/ Rejects(503, "authentication_unavailable", Null)
       \/ /\ request' = [request EXCEPT !.stage = "admitting", !.keyed = TRUE]
          /\ UNCHANGED <<body, response, event, sinks>>
    /\ UNCHANGED callVars

\* The limiter's answer, ApiKeyLimiter, may be lost after it has counted the request.
LimiterAnswer == [kind : {"allowed"}, counted : {TRUE}]
                 \cup [kind : {"exhausted"}, counted : {FALSE}]
                 \cup [kind : {"lost"}, counted : BOOLEAN]

\* Variant: a request is let through if the limiter does not answer.
AdmittedUnlessExhausted(answer) == answer.kind # "exhausted"

Admitted(answer) == answer.kind = "allowed"

Admit ==
    /\ At("admitting")
    /\ \E answer \in LimiterAnswer :
           LET counted == [request EXCEPT !.charged = answer.counted] IN
           CASE Admitted(answer) ->
                   /\ request' = [counted EXCEPT !.stage = "checking"]
                   /\ UNCHANGED <<body, response, event, sinks>>
             [] ~Admitted(answer) /\ answer.kind = "lost" ->
                   /\ Completes(counted, "admission_unavailable", Null)
                   /\ response' = Bare(503)
                   /\ UNCHANGED body
             [] answer.kind = "exhausted" ->
                   /\ Goes("recovering")
                   /\ UNCHANGED <<body, response, event, sinks>>
    /\ UNCHANGED callVars

\* protocolBoundaryRejection; then a body is read unless it says that it is too large.
Check ==
    /\ At("checking")
    /\ \/ Rejects(400, "protocol_rejected", InitialFacts)
       \/ Rejects(413, "payload_too_large", InitialFacts)
       \/ Goes("reading") /\ UNCHANGED <<body, response, event, sinks>>
       \/ Goes("serving") /\ body' = [body EXCEPT !.whole = TRUE]
          /\ UNCHANGED <<response, event, sinks>>
    /\ UNCHANGED callVars

-----------------------------------------------------------------------------
(* The two readers of the body                                             *)

Counts(size) == [body EXCEPT !.bytes = @ + size, !.chunks = @ + 1]

\* Variant: what was read before the chunk is held against the limits.
TooMuchBefore(counted) == body.chunks > MaxIdChunks \/ body.bytes > MaxIdBytes

TooMuch(counted) == counted.chunks > MaxIdChunks \/ counted.bytes > MaxIdBytes

\* recoverRequestId: the id of an exhausted request is answered if it is found in a
\* body that is small, whole and in time.
Exhausted(id) ==
    /\ Completes(request, "admission_exhausted", Null)
    /\ response' = [Bare(429) EXCEPT !.id = id]

RecoverChunk(size) ==
    LET counted == Counts(size) IN
    /\ At("recovering")
    /\ body' = counted
    /\ IF TooMuch(counted)
       THEN Exhausted(FALSE)
       ELSE UNCHANGED <<request, response, event, sinks>>
    /\ UNCHANGED callVars

RecoverEnd ==
    /\ At("recovering")
    /\ body' = [body EXCEPT !.whole = TRUE]
    /\ \E id \in BOOLEAN : Exhausted(id)
    /\ UNCHANGED callVars

\* There is no body, it breaks off, or the deadline passes while the next chunk is
\* awaited.  A chunk that is there wins the race, however late.
RecoverNothing ==
    /\ At("recovering")
    /\ Exhausted(FALSE)
    /\ UNCHANGED <<body, callVars>>

Recover == (\E size \in {0, 1} : RecoverChunk(size)) \/ RecoverEnd \/ RecoverNothing

\* boundedMcpRequest counts neither chunks nor time.
ReadChunk(size) ==
    /\ At("reading")
    /\ IF body.bytes + size <= MaxBody
       THEN /\ body' = [body EXCEPT !.bytes = @ + size]
            /\ UNCHANGED <<request, response, event, sinks>>
       ELSE Rejects(413, "payload_too_large", InitialFacts)
    /\ UNCHANGED callVars

ReadBreaks ==
    /\ At("reading")
    /\ Rejects(413, "payload_too_large", InitialFacts)
    /\ UNCHANGED callVars

ReadEnd ==
    /\ At("reading")
    /\ Goes("serving")
    /\ body' = [body EXCEPT !.whole = TRUE]
    /\ UNCHANGED <<response, event, sinks, callVars>>

-----------------------------------------------------------------------------
(* The call                                                                *)

\* The SDK has the body now.  It answers whatever is no call of a verification tool.
Serve(tool, outcome, status) ==
    /\ At("serving")
    /\ Completes(request, Null, InitialFacts)
    /\ response' = [Bare(status) EXCEPT !.tool = tool,
                        !.answer = IF outcome = Null THEN Null
                                   ELSE [outcome |-> outcome, reason |-> Null]]
    /\ UNCHANGED <<body, callVars>>

ServeOthers ==
    \/ \E status \in {200, 400, 500} : Serve("mcp", Null, status)
    \/ \E outcome \in {"parsed", "unrecognized"} : Serve("parse_citation", outcome, 200)

Call(tool) ==
    /\ At("serving")
    /\ Begin(tool)
    /\ Goes("calling")
    /\ body' = [bytes |-> 0, chunks |-> 0, whole |-> FALSE]
    /\ UNCHANGED <<response, event, sinks>>

Verify ==
    /\ At("calling")
    /\ Steps
    /\ UNCHANGED pipeline

\* The facts are told when the SDK has answered.  The history ends with the call.
Finish ==
    /\ At("calling") /\ call.at = "answered"
    /\ Completes(request, Null, call.facts)
    /\ response' = [Bare(200) EXCEPT !.tool = call.tool, !.answer = call.answer]
    /\ call' = Idle
    /\ was' = {}
    /\ UNCHANGED <<body, clock, source, changes, bound, records>>

\* The caches and CourtListener matter to the call alone.
Elsewhere ==
    /\ request.stage \in {"serving", "calling"}
    /\ Around
    /\ UNCHANGED pipeline

-----------------------------------------------------------------------------
(* Telemetry                                                               *)

OutcomeForStatus(status, tool) ==
    CASE status = 401 -> "unauthorized"
      [] status = 413 -> "payload_too_large"
      [] status = 429 -> "admission_exhausted"
      [] status = 503 -> "admission_unavailable"
      [] status \in (400 .. 499) \ {401, 413, 429} -> "protocol_rejected"
      [] status \in (500 .. 599) \ {503} -> "internal_error"
      [] OTHER -> IF tool = "parse_citation" THEN "parsed" ELSE "verified"

UpstreamReason == {"rate_limited", "quota_unknown", "quota_limited", "timeout",
                   "upstream_unavailable", "circuit_open"}

\* dimensionsFor, of which the facts of a call leave only the category.
ErrorCategory(reason, outcome) ==
    CASE reason = "source_changed" -> "cache"
      [] reason \in UpstreamReason -> "upstream"
      [] outcome \in {"unauthorized", "authentication_unavailable"} -> "authentication"
      [] outcome \in {"admission_exhausted", "admission_unavailable"} -> "admission"
      [] outcome = "protocol_rejected" -> "protocol"
      [] outcome = "payload_too_large" -> "payload"
      [] outcome = "internal_error" -> "internal"
      [] OTHER -> "none"

\* The body of the response is read once more, up to a size and for a time: an answer
\* that is not read tells by its status alone.
Summarize ==
    /\ At("summarizing")
    /\ \E read \in BOOLEAN :
           LET answer == IF read /\ response.answer # Null THEN response.answer
                         ELSE [outcome |-> Null, reason |-> Null]
               outcome == IF request.boundary # Null THEN request.boundary
                          ELSE IF answer.outcome # Null THEN answer.outcome
                          ELSE OutcomeForStatus(response.status, response.tool)
           IN event' = [outcome |-> outcome,
                        errorCategory |-> ErrorCategory(answer.reason, outcome),
                        facts |-> IF request.facts = Null THEN InitialFacts ELSE request.facts]
    /\ Goes("logging")
    /\ UNCHANGED <<body, response, sinks, callVars>>

Log ==
    /\ At("logging")
    /\ Goes("tracing")
    /\ sinks' = [sinks EXCEPT !.log = "took"]
    /\ UNCHANGED <<body, response, event, callVars>>

\* Variant: the metric is only written after the trace.
TraceOrGiveUp ==
    /\ At("tracing")
    /\ \E result \in {"took", "failed"} :
           /\ sinks' = [sinks EXCEPT !.trace = result]
           /\ Goes(IF result = "took" THEN "measuring" ELSE "done")
    /\ UNCHANGED <<body, response, event, callVars>>

\* A trace that fails is no reason not to measure.
Trace ==
    /\ At("tracing")
    /\ \E result \in {"took", "failed"} : sinks' = [sinks EXCEPT !.trace = result]
    /\ Goes("measuring")
    /\ UNCHANGED <<body, response, event, callVars>>

Measure ==
    /\ At("measuring")
    /\ \E result \in {"took", "failed"} : sinks' = [sinks EXCEPT !.metric = result]
    /\ Goes("done")
    /\ UNCHANGED <<body, response, event, callVars>>

-----------------------------------------------------------------------------
(* The worker reads what its client sends, and the client need not send.   *)
Read == (\E size \in {0, 1} : ReadChunk(size)) \/ ReadEnd \/ ReadBreaks

Worker ==
    \/ Arrive \/ Authenticate \/ Admit \/ Check \/ Recover
    \/ ServeOthers \/ (\E tool \in {"verify_citation", "verify_quote"} : Call(tool))
    \/ Verify \/ Finish
    \/ Summarize \/ Log \/ Trace \/ Measure

WorkerInit == Init /\ RequestInit
Next == Worker \/ Read \/ Elsewhere
Spec == WorkerInit /\ [][Next]_vars

\* The call wants the lease of what must be refreshed.  It may be another's again and
\* again: the loop of an opinion ends only with the lease or the refresh, and
\* acquireLease of a citation calls itself when the lease it was refused has vanished.
\* Once somebody has refreshed it, whichever read comes next answers.
AwaitsLease ==
    /\ call.at = "leasing"
    /\ Cache!RequiresRevalidation(records[call.subject], clock)

\* Nothing bounds the wait for the service that takes traces.
AwaitsTrace == At("tracing")

\* Every other await of the worker settles.
FairSpec == Spec /\ WF_vars(Worker /\ ~AwaitsLease /\ ~AwaitsTrace)
-----------------------------------------------------------------------------
(* What is promised of a request                                           *)

Answers == AnswerType \cup [outcome : {"parsed", "unrecognized"}, reason : {Null}]

TypeOK ==
    /\ CallTypeOK
    /\ request \in [stage : Stage, keyed : BOOLEAN, charged : BOOLEAN,
                    boundary : Boundary \cup {Null}, facts : ExecutionFacts \cup {Null}]
    /\ body \in [bytes : Nat, chunks : Nat, whole : BOOLEAN]
    /\ response # Null =>
           response \in [status : 200 .. 503, id : BOOLEAN,
                         tool : {"mcp", "parse_citation", "verify_citation", "verify_quote"},
                         answer : Answers \cup {Null}]
    /\ event # Null => event.facts \in ExecutionFacts
    /\ LET Fate == {"untried", "took", "failed"} IN
       sinks \in [log : Fate, trace : Fate, metric : Fate]

\* A tool is only called for a request that has a key, that the limiter counted, and
\* whose body arrived whole and within the limit: not for one whose admission was lost,
\* and not for the part of a body that came before the client broke off.
OnlyAdmittedCalled ==
    [][ call.at = "idle" /\ call'.at # "idle" =>
            /\ request.keyed /\ request.charged
            /\ body.whole /\ body.bytes <= MaxBody ]_vars

\* The id in the answer to an exhausted request is that of its whole body, within both
\* limits of what is read to find it.
IdIsWhole ==
    response # Null /\ response.id =>
        body.whole /\ body.bytes <= MaxIdBytes /\ body.chunks <= MaxIdChunks

\* The event of an answer that blames CourtListener shows what it is blamed for.
FailuresAreExplained ==
    event # Null /\ response.answer # Null => Explains(event.facts, response.answer.reason)

\* Whenever the event says that CourtListener answered, failed or ran out of time, it
\* has the latency.
LatencyOfAttempts == event # Null => Timed(event.facts)

Accounted ==
    /\ response # Null
    /\ event # Null => \A sink \in DOMAIN sinks : sinks[sink] # "untried"

\* Every request is answered and its event offered to every sink, whichever of them
\* fail.  Only three others can keep it for ever: its client, that sends the body of an
\* admitted request; lookups that hold the lease of what nobody refreshes; and the
\* service that takes traces, and it only when the request is answered and logged.
RequestsAreAnswered ==
    \/ <>(At("done") /\ Accounted)
    \/ <>[]At("reading")
    \/ <>[](At("calling") /\ AwaitsLease)
    \/ <>[](AwaitsTrace /\ response # Null /\ sinks.log = "took")
-----------------------------------------------------------------------------
(* The inductive invariant                                                 *)

Early == {"arrived", "authenticating", "admitting", "recovering", "checking", "reading",
          "serving", "calling"}

\* A request is admitted before its body is read, nothing of which was read before, and
\* its body is read, within the limits, before it is served.
AdmissionOK ==
    /\ request.stage \in {"admitting", "checking", "reading", "serving"} => request.keyed
    /\ request.stage \in {"checking", "reading", "serving"} => request.charged
    /\ request.stage \in {"arrived", "authenticating", "admitting", "checking"} =>
           body.bytes = 0 /\ body.chunks = 0
    /\ request.stage = "recovering" => body.bytes <= MaxIdBytes /\ body.chunks <= MaxIdChunks
    /\ request.stage = "reading" => body.bytes <= MaxBody
    /\ request.stage = "serving" => body.whole /\ body.bytes <= MaxBody

\* What a completion carries.
CompletionOK ==
    /\ request.stage \in Early => response = Null /\ event = Null
    /\ request.stage = "summarizing" => event = Null
    /\ request.facts # Null => Timed(request.facts)
    /\ request.stage \notin Early /\ response.answer # Null =>
           request.facts # Null /\ Explains(request.facts, response.answer.reason)

IInv ==
    /\ TypeOK
    /\ AdmissionOK
    /\ CompletionOK
    /\ IdIsWhole
    /\ FailuresAreExplained
    /\ LatencyOfAttempts
    /\ request.stage \in Early => CallInv
    /\ OutageInv
    /\ request.stage # "calling" => call = Idle
=============================================================================
