------------------------------- MODULE Evaluator -------------------------------
(***************************************************************************)
(* internal/rawdriver/evaluate.go: how the raw driver reads one response   *)
(* and what it concludes.  The body is parsed into facts, a stream one     *)
(* event after another; the scenario's check looks at the facts; a         *)
(* streaming exchange also runs through the response machine; and the      *)
(* outcomes are combined into one verdict.                                 *)
(*                                                                         *)
(* The data of an event, or a document, is "json" (an object), "array"     *)
(* (JSON that is no object), "ambiguous" (an object with a repeated key),  *)
(* "broken" (no JSON at all) or the "done" marker.                         *)
(***************************************************************************)
EXTENDS Exchange, ResponseMachine, TLC

\* The loop of oracle.EvaluateStateMachine over complete evidence: the machines
\* left after a run of events.
RunEvents(machines, events) ==
  LET after[k \in 0 .. Len(events)] ==
        IF k = 0 THEN machines ELSE UNION {ApplyEvent(m, events[k]) : m \in after[k - 1]}
  IN  after[Len(events)]

EvaluateStateMachine(events) ==
  IF \E m \in RunEvents({NewMachine}, events) : FinishMachine(m) THEN "pass" ELSE "fail"

StreamChecks == {"output_indexes", "streaming_tool_call", "terminal_event",
                 "stable_tool_call_id", "no_unknown_event", "closed_reasoning", "valid_utf8",
                 "stream_media_type", "no_post_terminal_data"}
Checks == StreamChecks \union {"arguments_string", "finish_reason", "usage_consistent",
                               "required_response_envelope"}

\* exchangeFacts and the streamDecoder; error is an evaluation that cannot go on.
NewFacts == [validUTF8 |-> TRUE, framingComplete |-> TRUE, parse |-> {}, items |-> 0,
             argumentTypes |-> {}, toolCalls |-> 0, reasons |-> {}, limitHit |-> FALSE,
             terminals |-> 0, terminalSeen |-> FALSE, postTerminal |-> 0, unknown |-> 0,
             usage |-> NoUsage, envelope |-> FALSE, stateEvents |-> <<>>,
             chatCreated |-> FALSE, tools |-> <<>>, error |-> FALSE]

Push(f, event) == [f EXCEPT !.stateEvents = Append(@, event)]
Typed(type) == [Semantic EXCEPT !.type = type]

readUsage(f, usage) ==
  [f EXCEPT !.usage = [n \in DOMAIN @ |-> IF usage[n] >= 0 THEN usage[n] ELSE @[n]]]

Reason(f, reason) == IF reason = "" THEN f ELSE [f EXCEPT !.reasons = @ \union {reason}]

ensureChatCreated(f) ==
  IF f.chatCreated THEN f
  ELSE [Push(f, Typed("response.created")) EXCEPT !.chatCreated = TRUE]

\* status incomplete because of max_output_tokens
responsesOutputLimitReached(e) == e.reason = "incomplete" /\ e.kind = "max_output_tokens"

consumeResponses(f, e) ==
  LET text == IF e.arguments.type = "string" THEN e.arguments.text ELSE <<>>
      Types(g) == [g EXCEPT !.argumentTypes = @ \union {e.arguments.type}]
      OfItem(type) == [Typed(type) EXCEPT !.item = e.item, !.call = e.call]
  IN  CASE e.type \in {"response.created", "response.in_progress", "response.failed"} ->
             Push(f, Typed(e.type))
        [] e.type = "response.output_item.added" ->
             LET g == Push(f, [OfItem("output_item.added") EXCEPT !.kind = e.kind,
                                                                  !.index = e.index])
                 h == [g EXCEPT !.toolCalls = @ + 1]
             IN  IF e.kind # "function_call" THEN g
                 ELSE IF e.arguments.type = "absent" THEN h ELSE Types(h)
        [] e.type = "response.function_call_arguments.delta" ->
             Push(f, [OfItem("arguments.delta") EXCEPT !.delta = text])
        [] e.type = "response.function_call_arguments.done" ->
             Push(Types(f), [OfItem("arguments.done") EXCEPT !.arguments = text])
        [] e.type = "response.output_item.done" -> Push(f, OfItem("output_item.done"))
        [] e.type = "response.completed" ->
             Push(readUsage(Reason(f, e.reason), e.usage), Typed(e.type))
        [] e.type = "response.incomplete" ->
             LET g == IF responsesOutputLimitReached(e)
                        THEN [f EXCEPT !.limitHit = TRUE] ELSE f
             IN  Push(readUsage(Reason(g, e.reason), e.usage), Typed(e.type))
        [] OTHER -> f

\* The item a Chat call or an Anthropic block is filed under.
ItemOf(index) == CASE index = -1 -> "tool-" [] index = 0 -> "tool0" [] index = 1 -> "tool1"

consumeChat(f, e) ==
  LET g == readUsage(ensureChatCreated(f), e.usage)
      item == ItemOf(e.index)
      Called(h) ==
        IF e.kind # "tool_call" \/ e.index \in DOMAIN h.tools THEN h
        ELSE [Push(h, [Typed("output_item.added") EXCEPT
                         !.item = item, !.kind = "function_call", !.index = e.index,
                         !.call = e.call])
              EXCEPT !.tools = (e.index :> [call |-> e.call, text |-> <<>>]) @@ @,
                     !.toolCalls = @ + 1]
      Argued(h) ==
        IF e.kind # "tool_call" \/ e.arguments.type = "absent" THEN h
        ELSE LET i == [h EXCEPT !.argumentTypes = @ \union {e.arguments.type}]
             IN  IF e.arguments.type # "string" \/ e.arguments.text = <<>> THEN i
                 ELSE [Push(i, [Typed("arguments.delta") EXCEPT
                                  !.item = item, !.call = e.call,
                                  !.delta = e.arguments.text])
                       EXCEPT !.tools[e.index].text = @ \o e.arguments.text]
      Closing(h, index) ==
        Push(Push(h, [Typed("arguments.done") EXCEPT
                        !.item = ItemOf(index), !.call = h.tools[index].call,
                        !.arguments = h.tools[index].text]),
             [Typed("output_item.done") EXCEPT !.item = ItemOf(index),
                                               !.call = h.tools[index].call])
      Finished(h) ==
        IF e.reason = "" THEN h
        ELSE LET closed[indexes \in SUBSET DOMAIN h.tools] ==
                   IF indexes = {}
                     THEN [Reason(h, e.reason) EXCEPT !.limitHit = @ \/ e.reason = "length"]
                     ELSE Closing(closed[indexes \ {Max(indexes)}], Max(indexes))
             IN  closed[DOMAIN h.tools]
  IN  Finished(Argued(Called(g)))

consumeAnthropic(f, e) ==
  LET item == ItemOf(e.index)
      known == e.index \in DOMAIN f.tools
      call == IF known THEN f.tools[e.index].call ELSE ""
  IN  CASE e.event = "message_start" ->
             readUsage(Push(f, Typed("response.created")), Usage(e.usage.input, -1, -1))
        [] e.event = "content_block_start" ->
             [Push(f, [Typed("output_item.added") EXCEPT
                         !.item = item, !.index = e.index, !.call = e.call,
                         !.kind = IF e.kind = "tool_use" THEN "function_call" ELSE e.kind])
              EXCEPT !.tools = (e.index :> [call |-> e.call, text |-> <<>>]) @@ @,
                     !.toolCalls = IF e.kind = "tool_use" THEN @ + 1 ELSE @]
        [] e.event = "content_block_delta" ->
             IF ~known \/ e.kind # "input_json_delta" THEN f
             ELSE [Push(f, [Typed("arguments.delta") EXCEPT
                              !.item = item, !.call = call, !.delta = e.arguments.text])
                   EXCEPT !.tools[e.index].text = @ \o e.arguments.text,
                          !.argumentTypes = @ \union {"string"}]
        [] e.event = "content_block_stop" ->
             IF ~known THEN f
             ELSE Push(IF call = "" THEN f
                       ELSE Push(f, [Typed("arguments.done") EXCEPT
                                       !.item = item, !.call = call,
                                       !.arguments = f.tools[e.index].text]),
                       [Typed("output_item.done") EXCEPT !.item = item, !.call = call])
        [] e.event = "message_delta" ->
             readUsage(Reason(f, e.reason), Usage(-1, e.usage.output, -1))
        [] e.event = "message_stop" -> Push(f, Typed("response.completed"))
        [] OTHER -> f

consume(protocol, f, e) ==
  IF e.data = "done" THEN Push(ensureChatCreated(f), Typed("response.completed"))
  ELSE IF e.data \notin {"json", "ambiguous"} THEN f
  ELSE LET g == IF "fixture.unknown" \in {e.event, e.type}
                  THEN [f EXCEPT !.unknown = @ + 1] ELSE f
       IN  CASE protocol = "responses" -> consumeResponses(g, e)
             [] protocol = "chat"      -> consumeChat(g, e)
             [] protocol = "anthropic" -> consumeAnthropic(g, e)

TypedTerminal(e) == e.data \in {"json", "ambiguous"} /\ e.type \in Terminals

isTerminalEvent(protocol, e) ==
  CASE protocol = "chat"      -> e.data = "done"
    [] protocol = "anthropic" -> e.event = "message_stop"
    [] protocol = "responses" -> TypedTerminal(e)

\* A Responses stream that ends with the Chat sentinel counts both markers.
countedTerminalMarker(protocol, e) ==
  \/ e.data = "done"
  \/ protocol = "anthropic" /\ e.event = "message_stop" /\ e.data \in {"json", "ambiguous"}
  \/ protocol = "responses" /\ TypedTerminal(e)

\* oracle.EvaluateSchema of an object schema: repeated keys are ambiguous JSON.
EvaluateSchema(data) == IF data = "json" THEN "pass" ELSE "fail"

\* normalizer.Normalize of one JSON value: an identity item, or an error when the value
\* is JSON but has no canonical form; no item for what is not JSON.
Normalize(f, data) ==
  CASE data \in {"json", "array"} -> [f EXCEPT !.items = @ + 1]
    [] data = "ambiguous"         -> [f EXCEPT !.error = TRUE]
    [] data = "broken"            -> f

\* The loop body of parseStream.
parseEvent(protocol, f, e) ==
  LET counted == [f EXCEPT !.postTerminal = IF f.terminalSeen THEN @ + 1 ELSE @,
                           !.terminals = IF countedTerminalMarker(protocol, e)
                                           THEN @ + 1 ELSE @]
      read == [consume(protocol, counted, e) EXCEPT
                 !.terminalSeen = @ \/ isTerminalEvent(protocol, e)]
  IN  IF e.data = "done" THEN read
      ELSE Normalize([read EXCEPT !.parse = @ \union {EvaluateSchema(e.data)}], e.data)

\* The facts of a stream before its first event: what the assembler says of the body.
parseStream(response) ==
  [NewFacts EXCEPT
     !.validUTF8 = \A i \in DOMAIN response.events : response.events[i].data # "broken",
     !.framingComplete = ~response.tail /\ response.events # <<>>,
     !.parse = IF response.tail THEN {"fail"} ELSE {}]

inspectNonStream(protocol, f, document) ==
  readUsage([Reason(f, document.reason) EXCEPT
               !.toolCalls = Len(document.calls),
               !.argumentTypes = IF protocol = "anthropic" THEN {} ELSE Range(document.calls),
               !.limitHit = \/ protocol = "chat" /\ document.reason = "length"
                            \/ protocol = "responses" /\ document.reason = "incomplete",
               !.envelope = document.envelope],
            document.usage)

\* A document that is JSON but no object ends the evaluation with an error.
parseJSONResponse(protocol, response) ==
  LET f == Normalize([NewFacts EXCEPT !.parse = {EvaluateSchema(response.shape)}],
                     response.shape)
  IN  CASE response.shape = "array" -> [f EXCEPT !.error = TRUE]
        [] response.shape = "json"  -> inspectNonStream(protocol, f, response.document)
        [] OTHER -> f

----------------------------------------------------------------------------
(* The checks.  A scenario s names its protocol, whether it streams, its     *)
(* check and whether its request asks for an output limit.                   *)

checkContentType(s, response) ==
  IF response.media = IF s.streaming THEN "sse" ELSE "json" THEN "pass" ELSE "fail"

\* Faulty variant: the total is not compared with its components.
CheckUsageTotal(s, usage) ==
  IF usage.input = 4 /\ usage.output = 2 THEN "pass" ELSE "fail"

\* ExpectedUsage is the fixture's; an Anthropic expectation has no total.
checkUsage(s, usage) ==
  IF /\ usage.input = 4 /\ usage.output = 2
     /\ s.protocol = "anthropic" \/ usage.total = 6
  THEN "pass" ELSE "fail"

checkRequiredEnvelope(f) == IF f.envelope THEN "pass" ELSE "fail"

Passes(holds) == IF holds THEN "pass" ELSE "fail"

\* AllowedValues of a finish-reason scenario is the fixture's reason.
checkScenario(s, f) ==
  CASE s.check = "arguments_string"    -> Passes(f.argumentTypes = {"string"})
    [] s.check = "streaming_tool_call" -> Passes(f.toolCalls > 0)
    [] s.check = "finish_reason"       ->
         IF s.limit /\ f.limitHit THEN "inconclusive"
         ELSE Passes(f.reasons = {FinishReason(s.protocol, s.scenario)})
    [] s.check = "terminal_event"      -> Passes(f.terminals = 1 /\ f.framingComplete)
    [] s.check = "no_unknown_event"    -> Passes(f.unknown = 0)
    [] s.check = "usage_consistent"    -> checkUsage(s, f.usage)
    [] s.check = "valid_utf8"          -> Passes(f.validUTF8)
    [] s.check = "required_response_envelope" -> checkRequiredEnvelope(f)
    [] s.check = "no_post_terminal_data" ->
         IF f.terminals = 0 THEN "inconclusive" ELSE Passes(f.postTerminal = 0)
    [] OTHER -> "pass"

\* oracle.EvaluateRelations over the items of one response: identity items of one
\* interaction with distinct IDs and no calls, so the relation holds when there is one.
EvaluateRelations(f) == Passes(f.items > 0)

\* Faulty variant: what could not be concluded is taken for a pass.
CombineFailures(outcomes) == IF "fail" \in outcomes THEN "fail" ELSE "pass"

combineOutcomes(outcomes) ==
  IF "fail" \in outcomes THEN "fail"
  ELSE IF "inconclusive" \in outcomes THEN "inconclusive" ELSE "pass"

\* Chat and Responses requests with an output limit the provider says it does not know.
unsupportedOutputLimitField(s, response) ==
  /\ s.limit /\ s.protocol # "anthropic"
  /\ response.status \in {400, 422} /\ response.unsupported

evaluate(s, response, f) ==
  LET base == {Passes(response.status = 200), checkContentType(s, response),
               checkScenario(s, f)}
      state == EvaluateStateMachine(f.stateEvents)
  IN  IF unsupportedOutputLimitField(s, response) THEN "inconclusive"
      ELSE combineOutcomes(
             CASE s.check \in {"stream_media_type", "no_post_terminal_data"} -> base
               [] s.check = "required_response_envelope" -> base \union f.parse
               [] s.check = "terminal_event" -> base \union f.parse \union {state}
               [] OTHER -> base \union f.parse \union {EvaluateRelations(f)}
                           \union (IF s.streaming THEN {state} ELSE {}))
=============================================================================
