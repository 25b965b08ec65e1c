------------------------------- MODULE RawDriver -------------------------------
(***************************************************************************)
(* One attempt of the raw HTTP driver (internal/rawdriver), against the    *)
(* synthetic upstream of Exchange.  The registry is asked for the          *)
(* scenario; the request is recorded as evidence, sent, and its response   *)
(* recorded, first the metadata and then the body record by record; the    *)
(* response is evaluated; and the attempt ends with a verdict or with an   *)
(* error of some class.  Every step can fail: the store, the transport,    *)
(* the context.                                                            *)
(***************************************************************************)
EXTENDS Evaluator

CONSTANTS
  Scenarios,          \* the scenarios with their mutation and registrations
  MaxPersistedEvents  \* maxPersistedSSEEvents

ASSUME RawConstants ==
  \A s \in Scenarios : /\ s.protocol \in Protocols /\ s.streaming \in BOOLEAN
                       /\ s.mutation \in DOMAIN Catalog \union {"none"}

VARIABLES
  job,      \* the scenario, the registry it is looked up in and the upstream's mutation
  step,     \* where Run is
  answer,   \* the response of the upstream
  fault,    \* how the upstream departs from the reference server
  stored,   \* the kinds of the evidence records in the store
  facts,    \* the facts of the response, as far as it is parsed
  parsed,   \* how many events of the stream are parsed
  result    \* what Run returned

rawVars == <<job, step, answer, fault, stored, facts, parsed, result>>

NoResponse == [status |-> 0, media |-> "", unsupported |-> FALSE, shape |-> "broken",
               document |-> NoDocument, events |-> <<>>, tail |-> FALSE, over |-> FALSE]

Nothing == [kind |-> "none", class |-> "", verdict |-> "", refs |-> <<>>, requests |-> 0,
            known |-> FALSE]

RawInit ==
  /\ job \in Scenarios
  /\ step = "new" /\ answer = NoResponse /\ fault = "none" /\ stored = <<>>
  /\ facts = NewFacts /\ parsed = 0 /\ result = Nothing

----------------------------------------------------------------------------
(* The registry.  registered is a set of plan and driver pairs under which   *)
(* the scenario's ID is filed; the invocation asks for plan p and driver d.  *)

validateAssertionApplicability(s) ==
  /\ s.check \in StreamChecks => s.streaming
  /\ s.check = "output_indexes" => s.protocol = "responses"
  /\ s.check = "closed_reasoning" => s.protocol # "chat"
  /\ s.check = "required_response_envelope" => ~s.streaming

\* MemoryRegistry.Register files one scenario per plan.
Registrations ==
  {r \in SUBSET [plan : {"p", "q"}, driver : {"d", "e"}] :
     \A a, b \in r : a.plan = b.plan => a = b}

\* MemoryRegistry.Estimate: by scenario and driver only, and only when that is unambiguous.
EstimateKnown(registered) ==
  \E r \in registered : r.driver = "d" /\ \A o \in registered : o.driver = "d" => o = r

\* MemoryRegistry.Lookup: under the approved plan, with the driver that was registered.
Lookup(registered) == [plan |-> "p", driver |-> "d"] \in registered

----------------------------------------------------------------------------
(* The upstream: the reference or mutant server, or another target that      *)
(* cuts the stream short, hits its output limit, refuses the request or      *)
(* sends JSON of another shape.                                              *)

\* What writeExchange puts on the wire.
writeExchange(x) ==
  [NoResponse EXCEPT !.status = x.status, !.media = IF x.streaming THEN "sse" ELSE "json",
                     !.shape = "json", !.document = x.document, !.events = x.events]

Served == writeExchange(ServeHTTP(job.protocol, job.scenario, job.streaming, job.mutation))

CutAt(n, t) == [Served EXCEPT !.events = SubSeq(@, 1, n), !.tail = t]
Cut == {CutAt(n, t) : n \in 0 .. Len(Served.events) - 1, t \in BOOLEAN}

LimitReason == CASE job.protocol = "chat" -> "length"
                 [] job.protocol = "responses" -> "incomplete"
                 [] job.protocol = "anthropic" -> "max_tokens"

LimitEvent(e) ==
  IF e.reason = "" THEN e
  ELSE [e EXCEPT !.reason = LimitReason, !.kind = "max_output_tokens",
                 !.type = IF @ = "response.completed" THEN "response.incomplete" ELSE @]

Limited ==
  IF job.streaming THEN [Served EXCEPT !.events = [i \in DOMAIN @ |-> LimitEvent(@[i])]]
  ELSE [Served EXCEPT !.document.reason = LimitReason]

\* An error body is a JSON object, or one unfinished field line to a stream reader.
Refused(status, unsupported) ==
  [NoResponse EXCEPT !.status = status, !.media = "json", !.unsupported = unsupported,
                     !.shape = "json", !.tail = job.streaming]

Reshaped(shape) ==
  IF job.streaming THEN [Served EXCEPT !.events[1].data = shape]
  ELSE [Served EXCEPT !.shape = shape]

Answers ==
  {<<IF ServeHTTP(job.protocol, job.scenario, job.streaming, job.mutation).mutation = "none"
       THEN "none" ELSE "mutation", Served>>}
  \union (IF job.mutation # "none" THEN {}
          ELSE {<<"cut", a>> : a \in Cut} \union {<<"limited", Limited>>}
               \union {<<"refused", Refused(status, u)>> :
                         status \in {400, 401, 403, 429, 503}, u \in BOOLEAN}
               \union {<<"reshaped", Reshaped(shape)>> : shape \in {"array", "ambiguous",
                                                                    "broken"}}
               \union {<<"oversized", [Served EXCEPT !.over = TRUE]>>})

----------------------------------------------------------------------------
(* Runner.Run                                                               *)

Goto(next) == step' = next
Return(r) == step' = "returned" /\ result' = r

\* runError: before the request, nothing is known of what was spent.
runError(class) == Return([Nothing EXCEPT !.kind = "error", !.class = class])

\* Faulty variant: an error after the request forgets the evidence recorded before it.
RunErrorBare(class) ==
  Return([Nothing EXCEPT !.kind = "error", !.class = class, !.requests = 1, !.known = TRUE])

runErrorWithEvidence(class) ==
  Return([Nothing EXCEPT !.kind = "error", !.class = class, !.refs = stored,
                         !.requests = 1, !.known = TRUE])

\* Runner.Estimate, before the budget is reserved: without it Run is not called.
Estimate ==
  /\ step = "new"
  /\ \/ EstimateKnown(job.registered) /\ Goto("estimated") /\ UNCHANGED result
     \/ ~EstimateKnown(job.registered) /\ runError("unestimated")
  /\ UNCHANGED <<job, answer, fault, stored, facts, parsed>>

\* Run up to the recorded request.
BeginRun ==
  /\ step = "estimated"
  /\ \/ Lookup(job.registered) /\ stored' = <<"request">> /\ Goto("recorded")
        /\ UNCHANGED result
     \/ UNCHANGED stored /\ runError("harness")
  /\ UNCHANGED <<job, answer, fault, facts, parsed>>

\* Why transport.Do fails: the context, a body over the client's limit in either
\* direction, or the request, the connection or the read of the response.
DoFailures == {"context", "body limit", "network"}

\* How Run classifies the failure.
FailureClass(cause) == IF cause = "network" THEN "driver" ELSE "harness"

\* transport.Do, and the response metadata recorded.
Send ==
  /\ step = "recorded"
  /\ \/ \E a \in Answers :
          /\ fault' = a[1] /\ answer' = a[2]
          /\ \/ stored' = Append(stored, "metadata")
                /\ Goto("metadata") /\ UNCHANGED result
             \/ UNCHANGED stored /\ runErrorWithEvidence("harness")
     \/ \E cause \in DoFailures :
          UNCHANGED <<answer, fault, stored>> /\ runErrorWithEvidence(FailureClass(cause))
  /\ UNCHANGED <<job, facts, parsed>>

\* The records recordResponseBody makes of a body.
BodyRecords(a) ==
  IF ~job.streaming THEN <<IF a.shape = "broken" THEN "omitted" ELSE "body">>
  ELSE IF a.events = <<>> THEN (IF a.tail THEN <<"invalid_wire">> ELSE <<>>)
  ELSE IF Len(a.events) > MaxPersistedEvents THEN <<"event_limit_fallback">>
  ELSE [i \in DOMAIN a.events |-> IF a.events[i].data = "broken"
                                    THEN "non_json_omitted" ELSE "event"]
       \o (IF a.tail THEN <<"incomplete_wire">> ELSE <<>>)

\* One record of recordResponseBody, after the check of the scenario's response budget.
\* The records made before a failure stay.
RecordResponseBody ==
  /\ step = "metadata"
  /\ LET todo == BodyRecords(answer)
         made == Len(stored) - 2
     IN  \/ answer.over /\ UNCHANGED stored /\ runErrorWithEvidence("harness")
         \/ /\ ~answer.over /\ made < Len(todo)
            /\ \/ stored' = Append(stored, todo[made + 1]) /\ UNCHANGED <<step, result>>
               \/ UNCHANGED stored /\ runErrorWithEvidence("harness")
         \/ /\ ~answer.over /\ made = Len(todo)
            /\ Goto("kept") /\ UNCHANGED <<stored, result>>
  /\ UNCHANGED <<job, answer, fault, facts, parsed>>

classifyHTTPStatus(status) ==
  CASE status = 401 -> "authentication"
    [] status = 403 -> "permission"
    [] status \in {408, 425, 429} \/ status >= 500 -> "transient"
    [] OTHER -> ""

\* artifactBytes reads the evidence back, then the status is classified.
Classify ==
  /\ step = "kept"
  /\ \/ runErrorWithEvidence("harness") /\ UNCHANGED facts
     \/ /\ classifyHTTPStatus(answer.status) # ""
        /\ runErrorWithEvidence(classifyHTTPStatus(answer.status)) /\ UNCHANGED facts
     \/ /\ classifyHTTPStatus(answer.status) = ""
        /\ facts' = IF job.streaming THEN parseStream(answer)
                    ELSE parseJSONResponse(job.protocol, answer)
        /\ Goto("parsing") /\ UNCHANGED result
  /\ UNCHANGED <<job, answer, fault, stored, parsed>>

\* One event of the stream through parseStream.
ParseEvent ==
  /\ step = "parsing" /\ ~facts.error /\ parsed < Len(answer.events)
  /\ facts' = parseEvent(job.protocol, facts, answer.events[parsed + 1])
  /\ parsed' = parsed + 1
  /\ UNCHANGED <<job, step, answer, fault, stored, result>>

\* The evaluated outcome, sanitized and turned into an assertion result, with a finding
\* when the target failed; creating their IDs can fail.
Conclude ==
  /\ step = "parsing" /\ (facts.error \/ parsed = Len(answer.events))
  /\ \/ runErrorWithEvidence("harness")
     \/ /\ ~facts.error
        /\ Return([kind |-> "verdict", class |-> "",
                   verdict |-> evaluate(job, answer, facts),
                   refs |-> stored, requests |-> 1, known |-> TRUE])
  /\ UNCHANGED <<job, answer, fault, stored, facts, parsed>>

RawNext == \/ Estimate \/ BeginRun \/ Send \/ RecordResponseBody \/ Classify
           \/ ParseEvent \/ Conclude

RawSpec == RawInit /\ [][RawNext]_rawVars

----------------------------------------------------------------------------
(* Properties                                                               *)

\* The check each mutation is aimed at, as the driver's end-to-end test pairs them.
Target == [arguments_object |-> "arguments_string", missing_index |-> "output_indexes",
           duplicate_index |-> "output_indexes", dropped_tool_call |-> "streaming_tool_call",
           invalid_reason |-> "finish_reason", missing_terminal |-> "terminal_event",
           duplicate_terminal |-> "terminal_event",
           call_id_changed |-> "stable_tool_call_id", unknown_event |-> "no_unknown_event",
           unclosed_reasoning |-> "closed_reasoning",
           usage_inconsistent |-> "usage_consistent", truncated_utf8 |-> "valid_utf8",
           null_output |-> "none"]

\* A check of tool calls needs a scenario with one; the arguments of an Anthropic answer
\* that is not streamed are no string.
Meaningful(s) ==
  /\ s.check \in {"arguments_string", "streaming_tool_call"} => s.scenario = "tool"
  /\ s.check = "arguments_string" => s.streaming \/ s.protocol # "anthropic"

Verdict == result.verdict

\* Every protocol, both scenarios, streamed or not: the reference server passes every
\* check that means something for it, and a mutation fails the check it is aimed at
\* wherever the catalog says it applies.  Nothing but the target's own exchange makes a
\* verdict fail, whatever else goes wrong during the run.
MutantsAreKilled == result.kind = "verdict" =>
  /\ fault = "none" /\ Meaningful(job) => Verdict = "pass"
  /\ (fault = "mutation" /\ job.check = Target[job.mutation]
        /\ job.protocol \in Catalog[job.mutation]) => Verdict = "fail"

\* A stream that stopped before its terminal event never passes, except for the check of
\* its media type; a Chat or Responses answer cut off by the requested output limit is
\* never held against its finish reason.
LostEndNeverPasses == result.kind = "verdict" =>
  /\ fault = "cut" /\ job.check # "stream_media_type" => Verdict # "pass"
  /\ fault = "limited" /\ job.limit /\ job.check = "finish_reason"
       /\ job.protocol # "anthropic" => Verdict = "inconclusive"

\* Whatever step fails, Run reports the evidence that is in the store, nothing else, and
\* the request it may have spent; it sends only what is registered under the approved
\* plan and driver.
ErrorsKeepEvidence ==
  /\ step = "returned" => /\ result.refs = stored
                          /\ (result.requests = 1 /\ result.known) <=> stored # <<>>
                          /\ result.kind = "verdict" =>
                               stored = <<"request", "metadata">> \o BodyRecords(answer)
  /\ stored # <<>> => Lookup(job.registered) /\ EstimateKnown(job.registered)
=============================================================================
