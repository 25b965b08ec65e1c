------------------------------- MODULE Lifecycle -------------------------------
(***************************************************************************)
(* The response machine of ResponseMachine fed with any sequence of        *)
(* semantic events, as oracle.EvaluateStateMachine feeds it: the first     *)
(* violation ends the evaluation.                                          *)
(***************************************************************************)
EXTENDS ResponseMachine

CONSTANTS
  ItemIDs,     \* the item identifiers of the events
  CallIDs,     \* the call identifiers, "" excluded
  Fragments,   \* the argument fragments
  MaxArguments,\* a bound on the fragments of one item
  MaxResults   \* a bound on the tool results

VARIABLES life   \* the machines left: {} once an event was a violation

LifecycleInit == life = {NewMachine}

\* Machine.Apply with the next event.
Observe(e) ==
  /\ life # {}
  /\ life' = UNION {ApplyEvent(m, e) : m \in life}
  /\ \A m \in life' : /\ Cardinality(m.results) <= MaxResults
                      /\ \A i \in DOMAIN m.items :
                           Len(m.items[i].arguments) <= MaxArguments

\* Any event that a decoder can append.
LifecycleNext ==
  \/ \E t \in Terminals \union {"response.created", "response.in_progress"} :
       Observe([Semantic EXCEPT !.type = t])
  \/ \E i \in ItemIDs, c \in CallIDs \union {""} :
       \/ \E k \in {"message", "function_call"}, n \in {-1, 0, 1} :
            Observe([Semantic EXCEPT !.type = "output_item.added", !.item = i, !.kind = k,
                                     !.index = n, !.call = c])
       \/ \E f \in Fragments :
            Observe([Semantic EXCEPT !.type = "arguments.delta", !.item = i, !.call = c,
                                     !.delta = <<f>>])
       \/ \E n \in 0..MaxArguments : \E a \in [1..n -> Fragments] :
            Observe([Semantic EXCEPT !.type = "arguments.done", !.item = i, !.call = c,
                                     !.arguments = a])
       \/ \E t \in {"output_item.done", "tool.result"} :
            Observe([Semantic EXCEPT !.type = t, !.item = i, !.call = c])

LifecycleSpec == LifecycleInit /\ [][LifecycleNext]_life

----------------------------------------------------------------------------
(* Properties                                                               *)

\* However the items of a response interleave, a machine that reports
\* response.completed holds no open item, no function call without its arguments, no
\* two items with one index or one call, and took a result only for a call it knows
\* (Machine.finishResponse and the checks of addItem, finishItem, acceptToolResult).
CompletedIsClosed == \A m \in life :
  /\ m.terminal = "response.completed" =>
       \A i \in DOMAIN m.items :
         m.items[i].done /\ (i \in FunctionItems(m) => m.items[i].argumentsDone)
  /\ \A i, j \in DOMAIN m.items : m.items[i].index = m.items[j].index => i = j
  /\ \A i, j \in FunctionItems(m) : m.items[i].call = m.items[j].call => i = j
  /\ m.results \subseteq {m.items[i].call : i \in {j \in FunctionItems(m) : m.items[j].done}}
=============================================================================
