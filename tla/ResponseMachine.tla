---------------------------- MODULE ResponseMachine ----------------------------
(***************************************************************************)
(* The response lifecycle of internal/statemachine and the oracle that     *)
(* runs it (internal/oracle/state_machine.go).  The state machine takes    *)
(* one semantic event after another: the response is created, output items *)
(* are added, function-call items collect argument fragments, items and    *)
(* then the response are closed.  An event out of place is a violation and *)
(* ends the evaluation.                                                    *)
(*                                                                         *)
(* A handler is the set of machines it may lead to: one machine when it    *)
(* accepts the event, none when it reports a violation.  An argument text  *)
(* is the sequence of its fragments, an absent identifier is "".           *)
(***************************************************************************)
EXTENDS Integers, Sequences, FiniteSets, Functions

Terminals == {"response.completed", "response.failed", "response.incomplete"}

\* An event with the fields its type does not use left empty.
Semantic == [type |-> "", item |-> "", kind |-> "", index |-> 0, call |-> "",
             delta |-> <<>>, arguments |-> <<>>]

\* statemachine.New.  An item keeps its index and its call identifier, which the
\* code also files under indexes and calls.
NewMachine == [created |-> FALSE, inProgress |-> FALSE, terminal |-> "",
               items |-> <<>>, results |-> {}]

FunctionItems(m) == {i \in DOMAIN m.items : m.items[i].kind = "function_call"}

create(m) == IF m.created THEN {} ELSE {[m EXCEPT !.created = TRUE]}

markInProgress(m) == IF m.created /\ ~m.inProgress /\ DOMAIN m.items = {}
                       THEN {[m EXCEPT !.inProgress = TRUE]} ELSE {}

addItem(m, e) ==
  IF /\ m.created
     /\ e.item # "" /\ e.kind # "" /\ e.index >= 0
     /\ e.item \notin DOMAIN m.items
     /\ \A i \in DOMAIN m.items : m.items[i].index # e.index
     /\ IF e.kind = "function_call"
          THEN e.call # "" /\ \A i \in FunctionItems(m) : m.items[i].call # e.call
          ELSE e.call = ""
  THEN {[m EXCEPT !.items = [i \in DOMAIN m.items \union {e.item} |->
                               IF i \in DOMAIN m.items THEN m.items[i]
                               ELSE [kind |-> e.kind, index |-> e.index, call |-> e.call,
                                     arguments |-> <<>>, argumentsDone |-> FALSE,
                                     done |-> FALSE]]]}
  ELSE {}

\* The open function-call item an arguments event names.
openFunctionCall(m, e) ==
  {i \in FunctionItems(m) : /\ m.created /\ i = e.item /\ ~m.items[i].done
                            /\ e.call \in {"", m.items[i].call}}

addArguments(m, e) ==
  {[m EXCEPT !.items[i].arguments = @ \o e.delta] :
     i \in {j \in openFunctionCall(m, e) : ~m.items[j].argumentsDone}}

finishArguments(m, e) ==
  {[m EXCEPT !.items[i].argumentsDone = TRUE] :
     i \in {j \in openFunctionCall(m, e) :
              ~m.items[j].argumentsDone /\ m.items[j].arguments = e.arguments}}

finishItem(m, e) ==
  {[m EXCEPT !.items[i].done = TRUE] :
     i \in {j \in DOMAIN m.items :
              /\ m.created /\ j = e.item /\ ~m.items[j].done
              /\ m.items[j].kind = "function_call" => m.items[j].argumentsDone
              /\ e.call \in {"", m.items[j].call}}}

acceptToolResult(m, e) ==
  {[m EXCEPT !.results = @ \union {e.call}] :
     i \in {j \in FunctionItems(m) :
              /\ m.created /\ m.items[j].call = e.call /\ m.items[j].done
              /\ e.call \notin m.results}}

\* Faulty variant: a completed response is not asked about its open items.
CompleteOpen(m, terminal) ==
  IF m.created THEN {[m EXCEPT !.terminal = terminal]} ELSE {}

finishResponse(m, terminal) ==
  IF m.created /\ (terminal = "response.completed" =>
                     \A i \in DOMAIN m.items : m.items[i].done)
    THEN {[m EXCEPT !.terminal = terminal]} ELSE {}

\* Machine.Apply.  Sequence numbers are left out: the decoders number the events
\* they append one after another.
ApplyEvent(m, e) ==
  IF m.terminal # "" THEN {}
  ELSE CASE e.type = "response.created"     -> create(m)
         [] e.type = "response.in_progress" -> markInProgress(m)
         [] e.type = "output_item.added"    -> addItem(m, e)
         [] e.type = "arguments.delta"      -> addArguments(m, e)
         [] e.type = "arguments.done"       -> finishArguments(m, e)
         [] e.type = "output_item.done"     -> finishItem(m, e)
         [] e.type = "tool.result"          -> acceptToolResult(m, e)
         [] e.type \in Terminals            -> finishResponse(m, e.type)
         [] OTHER                           -> {}

\* Machine.Finish: the evidence may not end before a terminal event.
FinishMachine(m) == m.terminal # ""
=============================================================================
