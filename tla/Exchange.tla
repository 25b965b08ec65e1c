-------------------------------- MODULE Exchange -------------------------------
(***************************************************************************)
(* The synthetic upstream of the repository: the reference server of       *)
(* reference/server, which answers a request of each of the three          *)
(* protocols with a fixed exchange, and the mutant server of               *)
(* reference/mutant-server, which damages that exchange in one catalogued  *)
(* way.                                                                    *)
(*                                                                         *)
(* An event of a stream keeps what a reader of it can tell apart: its SSE  *)
(* name, whether its data is JSON, the "[DONE]" marker or broken bytes,    *)
(* and the fields of the JSON that the decoders look at.  A document is    *)
(* the same for an answer that is not streamed.                            *)
(***************************************************************************)
EXTENDS Integers, Sequences, FiniteSets, FiniteSetsExt

Protocols == {"chat", "responses", "anthropic"}

\* An arguments value: its JSON type ("absent" when the field is not there) and its text.
Arguments(type, text) == [type |-> type, text |-> text]
ArgumentsJSON == Arguments("string", <<"args">>)
Missing == Arguments("absent", <<>>)

\* A usage object; -1 is a field that is not there.
Usage(input, output, total) == [input |-> input, output |-> output, total |-> total]
NoUsage == Usage(-1, -1, -1)
FixtureUsage == Usage(4, 2, 6)

\* An event whose data is a JSON object with none of the fields that are read.
Bare == [event |-> "", data |-> "json", type |-> "", index |-> -1, item |-> "", kind |-> "",
         call |-> "", arguments |-> Missing, reason |-> "", usage |-> NoUsage,
         output |-> "absent", terminal |-> FALSE]

Named(name) == [Bare EXCEPT !.event = name, !.type = name]

FinishReason(protocol, scenario) ==
  CASE protocol = "responses" -> "completed"
    [] protocol = "chat"      -> IF scenario = "tool" THEN "tool_calls" ELSE "stop"
    [] protocol = "anthropic" -> IF scenario = "tool" THEN "tool_use" ELSE "end_turn"

----------------------------------------------------------------------------
(* reference/server: the three documents and the three streams.             *)

\* A chunk of a Chat stream has no event name.
chatChunk == Bare

chatStream(scenario) ==
  LET tool == [chatChunk EXCEPT !.kind = "tool_call", !.index = 0] IN
  <<chatChunk>>
  \o (IF scenario = "text" THEN <<chatChunk>>
      ELSE <<[tool EXCEPT !.call = "call_ref", !.arguments = Arguments("string", <<>>)],
             [tool EXCEPT !.arguments = ArgumentsJSON]>>)
  \o <<[chatChunk EXCEPT !.reason = FinishReason("chat", scenario)],
       [chatChunk EXCEPT !.usage = FixtureUsage],
       [chatChunk EXCEPT !.data = "done", !.terminal = TRUE]>>

responsesStream(scenario) ==
  LET kind == IF scenario = "text" THEN "message" ELSE "function_call"
      call == IF scenario = "text" THEN "" ELSE "call_ref"
      Of(name) == [Named(name) EXCEPT !.item = "item_ref", !.index = 0]
      Whole(name) == [Of(name) EXCEPT !.kind = kind, !.call = call]
  IN  <<Named("response.created"),
        [Whole("response.output_item.added") EXCEPT
           !.arguments = IF scenario = "text" THEN Missing ELSE Arguments("string", <<>>)]>>
      \o (IF scenario = "text"
            THEN <<Of("response.content_part.added"), Of("response.output_text.delta"),
                   Of("response.output_text.done"), Of("response.content_part.done")>>
            ELSE <<[Of("response.function_call_arguments.delta") EXCEPT
                      !.arguments = ArgumentsJSON],
                   [Of("response.function_call_arguments.done") EXCEPT
                      !.arguments = ArgumentsJSON]>>)
      \o <<Whole("response.output_item.done"),
           [Named("response.completed") EXCEPT
              !.reason = "completed", !.usage = FixtureUsage, !.output = "array",
              !.terminal = TRUE]>>

anthropicStream(scenario) ==
  LET Block(name) == [Named(name) EXCEPT !.index = 0] IN
  <<[Named("message_start") EXCEPT !.usage = Usage(4, 0, -1)],
    [Block("content_block_start") EXCEPT
       !.kind = IF scenario = "text" THEN "text" ELSE "tool_use",
       !.call = IF scenario = "text" THEN "" ELSE "call_ref"],
    [Block("content_block_delta") EXCEPT
       !.kind = IF scenario = "text" THEN "text_delta" ELSE "input_json_delta",
       !.arguments = IF scenario = "text" THEN Missing ELSE ArgumentsJSON],
    Block("content_block_stop"),
    [Named("message_delta") EXCEPT !.reason = FinishReason("anthropic", scenario),
                                   !.usage = Usage(-1, 2, -1)],
    [Named("message_stop") EXCEPT !.terminal = TRUE]>>

\* An answer that is not streamed: its calls by the type of their arguments, its reason
\* and usage, and whether the envelope is whole.
Document(calls, reason, usage) == [calls |-> calls, reason |-> reason, usage |-> usage,
                                   envelope |-> TRUE]

chatResponse(scenario) ==
  Document(IF scenario = "tool" THEN <<"string">> ELSE <<>>,
           FinishReason("chat", scenario), FixtureUsage)

responsesResponse(scenario) ==
  Document(IF scenario = "tool" THEN <<"string">> ELSE <<>>, "completed", FixtureUsage)

anthropicResponse(scenario) ==
  Document(IF scenario = "tool" THEN <<"object">> ELSE <<>>,
           FinishReason("anthropic", scenario), Usage(4, 2, -1))

NoDocument == [calls |-> <<>>, reason |-> "", usage |-> NoUsage, envelope |-> FALSE]

Reference(protocol, scenario, streaming, document, events) ==
  [protocol |-> protocol, scenario |-> scenario, streaming |-> streaming, status |-> 200,
   document |-> IF streaming THEN NoDocument ELSE document,
   events |-> IF streaming THEN events ELSE <<>>, mutation |-> "none"]

\* For requests that decode.
buildChat(scenario, streaming) ==
  Reference("chat", scenario, streaming, chatResponse(scenario), chatStream(scenario))
buildResponses(scenario, streaming) ==
  Reference("responses", scenario, streaming, responsesResponse(scenario),
            responsesStream(scenario))
buildAnthropic(scenario, streaming) ==
  Reference("anthropic", scenario, streaming, anthropicResponse(scenario),
            anthropicStream(scenario))

----------------------------------------------------------------------------
(* reference/mutant-server.  A mutation is the set of exchanges it leads to: *)
(* none when it does not apply.  The events they look for are always there.  *)

Where(x, P(_)) == {i \in DOMAIN x.events : P(x.events[i])}
Streamed(x) == x.streaming
StreamedTool(x) == x.streaming /\ x.scenario = "tool"
StreamedResponses(x) == x.streaming /\ x.protocol = "responses"
Unless(applies, x) == IF applies THEN {x} ELSE {}

\* The exchange with the events at these places only.
keepEvents(x, kept) ==
  [x EXCEPT !.events = [i \in 1 .. Cardinality(kept) |->
      @[CHOOSE k \in kept : Cardinality({j \in kept : j < k}) = i - 1]]]

firstTerminalIndex(x) == Min(Where(x, LAMBDA e : e.terminal))

\* insertEvents: before the event at index; the renumbering of sequence_number is left out.
insertEvents(x, index, inserted) ==
  [x EXCEPT !.events = SubSeq(@, 1, index - 1) \o inserted \o SubSeq(@, index, Len(@))]

argumentsObject(x) ==
  LET carrier == Where(x, LAMBDA e : /\ e.arguments.text # <<>>
                                     /\ x.protocol = "responses" =>
                                          e.type = "response.function_call_arguments.done")
  IN  IF x.scenario # "tool" \/ x.protocol = "anthropic" THEN {}
      ELSE IF x.streaming
             THEN {[x EXCEPT !.events[Min(carrier)].arguments = Arguments("object", <<>>)]}
             ELSE {[x EXCEPT !.document.calls = <<"object">>]}

missingOutputIndex(x) ==
  IF ~StreamedResponses(x) THEN {}
  ELSE {[x EXCEPT !.events[Min(Where(x, LAMBDA e : e.index >= 0))].index = -1]}

duplicateOutputIndex(x) ==
  IF ~StreamedResponses(x) THEN {}
  ELSE LET at == Min(Where(x, LAMBDA e : e.type = "response.output_item.added"))
       IN  {insertEvents(x, at + 1, <<[x.events[at] EXCEPT !.item = "item_duplicate"]>>)}

isToolEvent(protocol, e) ==
  CASE protocol = "chat"      -> e.kind = "tool_call"
    [] protocol = "responses" ->
         \/ e.type \in {"response.function_call_arguments.delta",
                        "response.function_call_arguments.done"}
         \/ e.type \in {"response.output_item.added", "response.output_item.done"}
            /\ e.kind = "function_call"
    [] protocol = "anthropic" -> e.event \in {"content_block_start", "content_block_delta",
                                              "content_block_stop"}

dropStreamingToolCall(x) ==
  Unless(StreamedTool(x),
         keepEvents(x, Where(x, LAMBDA e : ~isToolEvent(x.protocol, e))))

invalidFinishReason(x) ==
  IF ~x.streaming THEN {[x EXCEPT !.document.reason = "fixture_invalid"]}
  ELSE {[x EXCEPT !.events[Min(Where(x, LAMBDA e : e.reason # ""))].reason =
           "fixture_invalid"]}

missingTerminal(x) ==
  Unless(Streamed(x), keepEvents(x, Where(x, LAMBDA e : ~e.terminal)))

duplicateTerminal(x) ==
  IF ~x.streaming THEN {}
  ELSE {[x EXCEPT !.events = Append(@, @[Max(Where(x, LAMBDA e : e.terminal))])]}

\* The content_block_stop of Anthropic gets an "id" that nothing reads.
changeToolCallID(x) ==
  IF ~StreamedTool(x) THEN {}
  ELSE CASE x.protocol = "chat" ->
              {[x EXCEPT !.events[Max(Where(x, LAMBDA e : e.kind = "tool_call"))].call =
                  "call_mutated"]}
         [] x.protocol = "responses" ->
              {[x EXCEPT !.events[Max(Where(x, LAMBDA e :
                                            e.type = "response.output_item.done"))].call =
                  "call_mutated"]}
         [] x.protocol = "anthropic" -> {x}

injectUnknownEvent(x) ==
  IF ~x.streaming THEN {}
  ELSE {insertEvents(x, firstTerminalIndex(x), <<Named("fixture.unknown")>>)}

unclosedReasoning(x) ==
  IF ~x.streaming \/ x.protocol = "chat" THEN {}
  ELSE {insertEvents(x, firstTerminalIndex(x),
          IF x.protocol = "responses"
            THEN <<[Named("response.output_item.added") EXCEPT
                      !.item = "item_reasoning", !.kind = "reasoning", !.index = 1]>>
            ELSE <<[Named("content_block_start") EXCEPT !.index = 1, !.kind = "thinking"],
                   [Named("content_block_delta") EXCEPT !.index = 1,
                                                        !.kind = "thinking_delta"]>>)}

inconsistentUsage(x) ==
  LET Damaged(u) == IF x.protocol = "anthropic" THEN [u EXCEPT !.output = 999]
                    ELSE [u EXCEPT !.total = 1]
      at == Max({0} \union Where(x, LAMBDA e : /\ e.usage # NoUsage
                                               /\ e.event # "message_start"))
  IN  IF x.streaming THEN {[x EXCEPT !.events[at].usage = Damaged(@)]}
      ELSE {[x EXCEPT !.document.usage = Damaged(@)]}

truncatedUTF8(x) ==
  IF ~x.streaming THEN {}
  ELSE {insertEvents(x, firstTerminalIndex(x),
                     <<[Bare EXCEPT !.event = "fixture.truncated", !.data = "broken"]>>)}

nullCompletedOutput(x) ==
  IF ~StreamedResponses(x) THEN {}
  ELSE {[x EXCEPT !.events[Min(Where(x, LAMBDA e : e.type = "response.completed"))].output =
           "null"]}

\* The catalog and the protocols each mutation is made for.
Catalog == [arguments_object   |-> {"chat", "responses"},
            missing_index      |-> {"responses"},
            duplicate_index    |-> {"responses"},
            dropped_tool_call  |-> Protocols,
            invalid_reason     |-> Protocols,
            missing_terminal   |-> Protocols,
            duplicate_terminal |-> Protocols,
            call_id_changed    |-> {"chat", "responses"},
            unknown_event      |-> Protocols,
            unclosed_reasoning |-> {"responses", "anthropic"},
            usage_inconsistent |-> Protocols,
            truncated_utf8     |-> Protocols,
            null_output        |-> {"responses"}]

applyMutation(id, x) ==
  CASE id = "arguments_object"   -> argumentsObject(x)
    [] id = "missing_index"      -> missingOutputIndex(x)
    [] id = "duplicate_index"    -> duplicateOutputIndex(x)
    [] id = "dropped_tool_call"  -> dropStreamingToolCall(x)
    [] id = "invalid_reason"     -> invalidFinishReason(x)
    [] id = "missing_terminal"   -> missingTerminal(x)
    [] id = "duplicate_terminal" -> duplicateTerminal(x)
    [] id = "call_id_changed"    -> changeToolCallID(x)
    [] id = "unknown_event"      -> injectUnknownEvent(x)
    [] id = "unclosed_reasoning" -> unclosedReasoning(x)
    [] id = "usage_inconsistent" -> inconsistentUsage(x)
    [] id = "truncated_utf8"     -> truncatedUTF8(x)
    [] id = "null_output"        -> nullCompletedOutput(x)

\* Handler.ServeHTTP for a request to one of the three paths: the transformer works on a
\* clone, and an exchange it does not apply to is sent as it was, without the mutation's
\* name.
ServeHTTP(protocol, scenario, streaming, id) ==
  LET x == CASE protocol = "chat"      -> buildChat(scenario, streaming)
             [] protocol = "responses" -> buildResponses(scenario, streaming)
             [] protocol = "anthropic" -> buildAnthropic(scenario, streaming)
  IN  IF id = "none" \/ applyMutation(id, x) = {} THEN x
      ELSE [(CHOOSE y \in applyMutation(id, x) : TRUE) EXCEPT !.mutation = id]
=============================================================================
