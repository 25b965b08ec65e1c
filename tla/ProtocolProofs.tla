---------------------------- MODULE ProtocolProofs --------------------------
(* Proofs about the protocol machines: the response state machine, for any   *)
(* set of items, calls and events in any order (Lifecycle); the driver       *)
(* protocol's session, for lines of any length, any frame and buffer size    *)
(* and a driver that may be ahead of, or behind, what the machine has been   *)
(* told (DriverProtocol); and one attempt of the raw driver, for every       *)
(* registry, every mutation of the upstream and every answer it may give     *)
(* (RawDriver).                                                              *)
EXTENDS Lifecycle, DriverProtocol, RawDriver, SequenceTheorems, FiniteSetTheorems,
        WellFoundedInduction, TLAPS

\* A non-empty set of numbers has a least one: the induction that the provers
\* can use, since it has no operator for a parameter.
LEMMA LeastNat ==
    ASSUME NEW T \in SUBSET Nat, T # {}
    PROVE  \E m \in T : \A k \in T : m <= k
<1>1. PICK n \in T : TRUE
  BY Zenon
<1> DEFINE R == {0 .. k : k \in {j \in T : j <= n}}
<1>2. IsFiniteSet(0 .. n)
  BY FS_Interval
<1>3. IsWellFoundedOn(StrictSubsetOrdering(0 .. n), SUBSET (0 .. n))
  BY <1>2, FS_StrictSubsetOrderingWellFounded, FS_FiniteSubsetsOfFinite, Zenon
<1>4. R \subseteq SUBSET (0 .. n) /\ R # {}
  BY <1>1
<1>5. PICK r \in R : \A q \in R : <<q, r>> \notin StrictSubsetOrdering(0 .. n)
  <2> HIDE DEF R
  <2> QED BY <1>3, <1>4, WFMin, Zenon
<1>6. PICK m \in T : m <= n /\ r = 0 .. m
  BY <1>5
<1>7. ASSUME NEW k \in T, k < m PROVE FALSE
  <2>1. (0 .. k) \in R /\ (0 .. k) \subseteq r /\ (0 .. k) # r
    BY <1>6, <1>7
  <2>2. <<0 .. k, r>> \in StrictSubsetOrdering(0 .. n)
    BY <2>1, <1>4, <1>5 DEF StrictSubsetOrdering
  <2> QED BY <2>1, <2>2, <1>5, Zenon
<1> QED BY <1>6, <1>7

-----------------------------------------------------------------------------
(* The response state machine.                                              *)

ItemRecords == [kind : {"message", "function_call"}, index : Int, call : CallIDs \union {""},
                arguments : Seq(Fragments), argumentsDone : BOOLEAN, done : BOOLEAN]

MachineRecords == [created : BOOLEAN, inProgress : BOOLEAN, terminal : Terminals \union {""},
                   items : UNION {[D -> ItemRecords] : D \in SUBSET ItemIDs},
                   results : SUBSET (CallIDs \union {""})]

\* The items as CompletedIsClosed wants them, one by one and two by two; the calls
\* that may have a result.
Finished(it) == it.done => (it.kind = "function_call" => it.argumentsDone)
Distinct(its) ==
    \A i, j \in DOMAIN its :
        /\ its[i].index = its[j].index => i = j
        /\ (/\ its[i].kind = "function_call" /\ its[j].kind = "function_call"
            /\ its[i].call = its[j].call) => i = j
Answered(its, c) ==
    \E i \in DOMAIN its : its[i].kind = "function_call" /\ its[i].done /\ its[i].call = c

MachineOK(m) ==
    /\ m \in MachineRecords
    /\ \A i \in DOMAIN m.items : Finished(m.items[i])
    /\ Distinct(m.items)
    /\ \A c \in m.results : Answered(m.items, c)
    /\ m.terminal = "response.completed" => \A i \in DOMAIN m.items : m.items[i].done

LifeInv == \A m \in life : MachineOK(m)

\* What an event holds.
EventOK(e) ==
    /\ e.delta \in Seq(Fragments) /\ e.index \in Int /\ e.call \in CallIDs \union {""}
    /\ e.type = "output_item.added" => e.item \in ItemIDs /\ e.kind \in {"message", "function_call"}

\* The machine begins without items.
LEMMA NoItems == DOMAIN <<>> = {}
OBVIOUS

\* The fields of a machine.
LEMMA MachineFields ==
    ASSUME NEW m \in MachineRecords
    PROVE  /\ m.items \in [DOMAIN m.items -> ItemRecords] /\ DOMAIN m.items \in SUBSET ItemIDs
           /\ m.results \in SUBSET (CallIDs \union {""})
<1>1. PICK D \in SUBSET ItemIDs : m.items \in [D -> ItemRecords]
  BY Zenon DEF MachineRecords
<1> QED BY <1>1, Zenon DEF MachineRecords

\* One item changes, and keeps its place, its call and its kind; when it was done it
\* stays so.
LEMMA ItemChanges ==
    ASSUME NEW m, MachineOK(m), m.terminal = "", NEW i \in DOMAIN m.items, NEW it \in ItemRecords,
           it.kind = m.items[i].kind, it.index = m.items[i].index, it.call = m.items[i].call,
           m.items[i].done => it.done, Finished(it)
    PROVE  MachineOK([m EXCEPT !.items = [m.items EXCEPT ![i] = it]])
<1> DEFINE its == [m.items EXCEPT ![i] = it]
           n == [m EXCEPT !.items = its]
           D == DOMAIN m.items
<1>1. m \in MachineRecords /\ m.items \in [D -> ItemRecords] /\ D \in SUBSET ItemIDs
  BY MachineFields, Zenon DEF MachineOK
<1>2. its \in [D -> ItemRecords] /\ DOMAIN its = D
      /\ \A j \in D : its[j] = IF j = i THEN it ELSE m.items[j]
  BY <1>1, Zenon
<1> HIDE DEF its
<1>3. /\ n \in MachineRecords /\ n.items = its /\ n.results = m.results /\ n.terminal = ""
  <2>1. its \in UNION {[E -> ItemRecords] : E \in SUBSET ItemIDs}
    BY <1>1, <1>2, Zenon
  <2> QED BY <1>1, <2>1, Zenon DEF MachineRecords
<1> HIDE DEF n
<1>4. \A j \in D : Finished(its[j])
  BY <1>2, Zenon DEF MachineOK
<1>5. \A j \in D : its[j].kind = m.items[j].kind /\ its[j].index = m.items[j].index
                   /\ its[j].call = m.items[j].call /\ (m.items[j].done => its[j].done)
  BY <1>2, Zenon
<1>6. Distinct(its)
  <2> SUFFICES ASSUME NEW a \in D, NEW b \in D
               PROVE  /\ its[a].index = its[b].index => a = b
                      /\ (/\ its[a].kind = "function_call" /\ its[b].kind = "function_call"
                          /\ its[a].call = its[b].call) => a = b
    BY <1>2, Zenon DEF Distinct
  <2>1. /\ m.items[a].index = m.items[b].index => a = b
        /\ (/\ m.items[a].kind = "function_call" /\ m.items[b].kind = "function_call"
            /\ m.items[a].call = m.items[b].call) => a = b
    BY Zenon DEF MachineOK, Distinct
  <2> QED BY <1>5, <2>1, Zenon
<1>7. \A c \in m.results : Answered(its, c)
  <2> SUFFICES ASSUME NEW c \in m.results PROVE Answered(its, c)
    BY Zenon
  <2>1. PICK j \in D : m.items[j].kind = "function_call" /\ m.items[j].done /\ m.items[j].call = c
    BY Zenon DEF MachineOK, Answered
  <2> QED BY <1>2, <1>5, <2>1, Zenon DEF Answered
<1>8. n.terminal # "response.completed"
  BY <1>3, Zenon
<1>9. MachineOK(n)
  BY <1>2, <1>3, <1>4, <1>6, <1>7, <1>8, Zenon DEF MachineOK
<1> QED BY <1>9, Zenon DEF n, its

\* A flag of the machine changes.
LEMMA FlagsChange ==
    ASSUME NEW m, MachineOK(m), NEW b \in BOOLEAN
    PROVE  MachineOK([m EXCEPT !.created = b]) /\ MachineOK([m EXCEPT !.inProgress = b])
<1>1. ASSUME NEW n, n \in {[m EXCEPT !.created = b], [m EXCEPT !.inProgress = b]} PROVE MachineOK(n)
  <2>1. n \in MachineRecords /\ n.items = m.items /\ n.results = m.results /\ n.terminal = m.terminal
    BY <1>1, Zenon DEF MachineOK, MachineRecords
  <2> QED BY <2>1, Zenon DEF MachineOK
<1> QED BY <1>1, Zenon

\* addItem.
LEMMA ItemAdded ==
    ASSUME NEW m, MachineOK(m), m.terminal = "", NEW e, EventOK(e), e.type = "output_item.added",
           NEW n \in addItem(m, e)
    PROVE  MachineOK(n)
<1> DEFINE it == [kind |-> e.kind, index |-> e.index, call |-> e.call, arguments |-> <<>>,
                  argumentsDone |-> FALSE, done |-> FALSE]
           D == DOMAIN m.items
           x == e.item
           its == [i \in D \union {x} |-> IF i \in D THEN m.items[i] ELSE it]
<1>1. /\ n = [m EXCEPT !.items = its] /\ x \notin D
      /\ \A i \in D : m.items[i].index # e.index
      /\ \A i \in D : m.items[i].kind = "function_call" /\ e.kind = "function_call"
                        => m.items[i].call # e.call
  BY Zenon DEF addItem, FunctionItems
<1>2. m \in MachineRecords /\ m.items \in [D -> ItemRecords] /\ D \in SUBSET ItemIDs
  BY MachineFields, Zenon DEF MachineOK
<1>3. it \in ItemRecords
  <2>1. <<>> \in Seq(Fragments)
    BY EmptySeq, Zenon
  <2> QED BY <2>1, Zenon DEF EventOK, ItemRecords
<1>4. it.kind = e.kind /\ it.index = e.index /\ it.call = e.call /\ it.done = FALSE
  BY Zenon
<1>5. /\ its \in [D \union {x} -> ItemRecords] /\ DOMAIN its = D \union {x}
      /\ its[x] = it /\ \A i \in D : its[i] = m.items[i]
  <2> HIDE DEF it
  <2> QED BY <1>1, <1>2, <1>3, Zenon
<1> HIDE DEF its, it
<1>6. n \in MachineRecords /\ n.items = its /\ n.results = m.results /\ n.terminal = ""
  <2>1. D \union {x} \in SUBSET ItemIDs
    BY <1>2, Zenon DEF EventOK
  <2>2. its \in UNION {[E -> ItemRecords] : E \in SUBSET ItemIDs}
    <3> DEFINE E == D \union {x}
    <3>1. its \in [E -> ItemRecords]
      BY <1>5, Zenon
    <3>2. E \in SUBSET ItemIDs
      BY <2>1, Zenon
    <3> HIDE DEF E
    <3> QED BY <3>1, <3>2, Zenon
  <2> QED BY <1>1, <1>2, <2>2, Zenon DEF MachineRecords
<1>7. \A i \in DOMAIN its : Finished(its[i])
  BY <1>4, <1>5, Zenon DEF MachineOK, Finished
<1>8. Distinct(its)
  <2> SUFFICES ASSUME NEW a \in D \union {x}, NEW b \in D \union {x}
               PROVE  /\ its[a].index = its[b].index => a = b
                      /\ (/\ its[a].kind = "function_call" /\ its[b].kind = "function_call"
                          /\ its[a].call = its[b].call) => a = b
    BY <1>5, Zenon DEF Distinct
  <2>1. CASE a \in D /\ b \in D
    <3>1. /\ m.items[a].index = m.items[b].index => a = b
          /\ (/\ m.items[a].kind = "function_call" /\ m.items[b].kind = "function_call"
              /\ m.items[a].call = m.items[b].call) => a = b
      BY <2>1, Zenon DEF MachineOK, Distinct
    <3> QED BY <1>5, <2>1, <3>1, Zenon
  <2>2. CASE a \in D /\ b = x
    BY <1>1, <1>4, <1>5, <2>2, Zenon
  <2>3. CASE a = x /\ b \in D
    BY <1>1, <1>4, <1>5, <2>3, Zenon
  <2> QED BY <2>1, <2>2, <2>3, Zenon
<1>9. ASSUME NEW c \in m.results PROVE Answered(its, c)
  <2>1. PICK j \in D : m.items[j].kind = "function_call" /\ m.items[j].done /\ m.items[j].call = c
    BY Zenon DEF MachineOK, Answered
  <2> QED BY <1>5, <2>1, Zenon DEF Answered
<1>10. n.terminal # "response.completed"
  BY <1>6, Zenon
<1> QED BY <1>6, <1>7, <1>8, <1>9, <1>10, Zenon DEF MachineOK

\* The handlers that change one item.
LEMMA ArgumentsAdded ==
    ASSUME NEW m, MachineOK(m), m.terminal = "", NEW e, EventOK(e), NEW n \in addArguments(m, e)
    PROVE  MachineOK(n)
<1>1. PICK i \in FunctionItems(m) : /\ n = [m EXCEPT !.items[i].arguments = @ \o e.delta]
                                    /\ ~m.items[i].done
  BY Zenon DEF addArguments, openFunctionCall
<1> DEFINE it == [m.items[i] EXCEPT !.arguments = m.items[i].arguments \o e.delta]
<1>2. i \in DOMAIN m.items /\ m.items[i] \in ItemRecords /\ Finished(m.items[i])
  BY MachineFields, Zenon DEF FunctionItems, MachineOK
<1>3. m.items[i].arguments \o e.delta \in Seq(Fragments)
  <2>1. m.items[i].arguments \in Seq(Fragments)
    BY <1>2, Zenon DEF ItemRecords
  <2> QED BY <2>1, ConcatProperties, Zenon DEF EventOK
<1>4. /\ it \in ItemRecords /\ it.kind = m.items[i].kind /\ it.index = m.items[i].index
      /\ it.call = m.items[i].call /\ it.done = m.items[i].done
      /\ it.argumentsDone = m.items[i].argumentsDone
  BY <1>2, <1>3, Zenon DEF ItemRecords
<1>5. n = [m EXCEPT !.items = [m.items EXCEPT ![i] = it]]
  BY <1>1, Zenon
<1> HIDE DEF it
<1>6. Finished(it)
  BY <1>2, <1>4, Zenon DEF Finished
<1> QED BY <1>2, <1>4, <1>5, <1>6, ItemChanges, Zenon

\* finishArguments.
LEMMA ArgumentsFinished ==
    ASSUME NEW m, MachineOK(m), m.terminal = "", NEW e, NEW n \in finishArguments(m, e)
    PROVE  MachineOK(n)
<1>1. PICK i \in FunctionItems(m) : /\ n = [m EXCEPT !.items[i].argumentsDone = TRUE]
                                    /\ ~m.items[i].done
  BY Zenon DEF finishArguments, openFunctionCall
<1> DEFINE it == [m.items[i] EXCEPT !.argumentsDone = TRUE]
<1>2. i \in DOMAIN m.items /\ m.items[i] \in ItemRecords
  BY MachineFields, Zenon DEF FunctionItems, MachineOK
<1>3. /\ it \in ItemRecords /\ it.kind = m.items[i].kind /\ it.index = m.items[i].index
      /\ it.call = m.items[i].call /\ it.done = m.items[i].done /\ it.argumentsDone = TRUE
  BY <1>2, Zenon DEF ItemRecords
<1>4. n = [m EXCEPT !.items = [m.items EXCEPT ![i] = it]]
  BY <1>1, Zenon
<1> HIDE DEF it
<1>5. Finished(it)
  BY <1>3, Zenon DEF Finished
<1> QED BY <1>2, <1>3, <1>4, <1>5, ItemChanges, Zenon

\* finishItem.
LEMMA ItemFinished ==
    ASSUME NEW m, MachineOK(m), m.terminal = "", NEW e, NEW n \in finishItem(m, e)
    PROVE  MachineOK(n)
<1>1. PICK i \in DOMAIN m.items :
          /\ n = [m EXCEPT !.items[i].done = TRUE]
          /\ m.items[i].kind = "function_call" => m.items[i].argumentsDone
  BY Zenon DEF finishItem
<1> DEFINE it == [m.items[i] EXCEPT !.done = TRUE]
<1>2. m.items[i] \in ItemRecords
  BY MachineFields, Zenon DEF MachineOK
<1>3. /\ it \in ItemRecords /\ it.kind = m.items[i].kind /\ it.index = m.items[i].index
      /\ it.call = m.items[i].call /\ it.done = TRUE
      /\ it.argumentsDone = m.items[i].argumentsDone
  BY <1>2, Zenon DEF ItemRecords
<1>4. n = [m EXCEPT !.items = [m.items EXCEPT ![i] = it]]
  BY <1>1, Zenon
<1> HIDE DEF it
<1>5. Finished(it)
  BY <1>1, <1>3, Zenon DEF Finished
<1> QED BY <1>3, <1>4, <1>5, ItemChanges, Zenon

\* The handlers that leave the items alone.
LEMMA ResultAccepted ==
    ASSUME NEW m, MachineOK(m), NEW e, EventOK(e), NEW n \in acceptToolResult(m, e)
    PROVE  MachineOK(n)
<1> DEFINE rs == m.results \union {e.call}
<1>1. n = [m EXCEPT !.results = rs] /\ Answered(m.items, e.call)
  BY Zenon DEF acceptToolResult, FunctionItems, Answered
<1>2. m \in MachineRecords /\ m.results \in SUBSET (CallIDs \union {""})
  BY MachineFields, Zenon DEF MachineOK
<1>4. rs \in SUBSET (CallIDs \union {""})
  BY <1>2, Zenon DEF EventOK
<1> HIDE DEF rs
<1>5. n \in MachineRecords /\ n.items = m.items /\ n.results = rs /\ n.terminal = m.terminal
  BY <1>1, <1>2, <1>4, Zenon DEF MachineRecords
<1>6. \A c \in rs : Answered(m.items, c)
  BY <1>1, Zenon DEF MachineOK, rs
<1> QED BY <1>5, <1>6, Zenon DEF MachineOK

\* finishResponse.
LEMMA ResponseFinished ==
    ASSUME NEW m, MachineOK(m), NEW t \in Terminals, NEW n \in finishResponse(m, t)
    PROVE  MachineOK(n)
<1>1. /\ n = [m EXCEPT !.terminal = t]
      /\ t = "response.completed" => \A i \in DOMAIN m.items : m.items[i].done
  BY Zenon DEF finishResponse
<1>2. n \in MachineRecords /\ n.items = m.items /\ n.results = m.results /\ n.terminal = t
  BY <1>1, Zenon DEF MachineOK, MachineRecords
<1> QED BY <1>1, <1>2, Zenon DEF MachineOK

\* Machine.Apply keeps what is known of a machine.
LEMMA ApplyKeeps ==
    ASSUME NEW m, MachineOK(m), NEW e, EventOK(e), NEW n \in ApplyEvent(m, e)
    PROVE  MachineOK(n)
<1>1. m.terminal = ""
  BY Zenon DEF ApplyEvent
<1>2. CASE e.type = "response.created"
  <2>1. n = [m EXCEPT !.created = TRUE]
    BY <1>1, <1>2, Zenon DEF ApplyEvent, create, Terminals
  <2> QED BY <2>1, FlagsChange, Zenon
<1>3. CASE e.type = "response.in_progress"
  <2>1. n = [m EXCEPT !.inProgress = TRUE]
    BY <1>1, <1>3, Zenon DEF ApplyEvent, markInProgress, Terminals
  <2> QED BY <2>1, FlagsChange, Zenon
<1>4. CASE e.type = "output_item.added"
  <2>1. n \in addItem(m, e)
    BY <1>1, <1>4, Zenon DEF ApplyEvent, Terminals
  <2> QED BY <1>1, <1>4, <2>1, ItemAdded, Zenon
<1>5. CASE e.type = "arguments.delta"
  <2>1. n \in addArguments(m, e)
    BY <1>1, <1>5, Zenon DEF ApplyEvent, Terminals
  <2> QED BY <1>1, <2>1, ArgumentsAdded, Zenon
<1>6. CASE e.type = "arguments.done"
  <2>1. n \in finishArguments(m, e)
    BY <1>1, <1>6, Zenon DEF ApplyEvent, Terminals
  <2> QED BY <1>1, <2>1, ArgumentsFinished, Zenon
<1>7. CASE e.type = "output_item.done"
  <2>1. n \in finishItem(m, e)
    BY <1>1, <1>7, Zenon DEF ApplyEvent, Terminals
  <2> QED BY <1>1, <2>1, ItemFinished, Zenon
<1>8. CASE e.type = "tool.result"
  <2>1. n \in acceptToolResult(m, e)
    BY <1>1, <1>8, Zenon DEF ApplyEvent, Terminals
  <2> QED BY <2>1, ResultAccepted, Zenon
<1>9. CASE e.type \in Terminals
  <2>1. n \in finishResponse(m, e.type)
    BY <1>1, <1>9, Zenon DEF ApplyEvent, Terminals
  <2> QED BY <1>9, <2>1, ResponseFinished, Zenon
<1>10. e.type \in {"response.created", "response.in_progress", "output_item.added", "arguments.delta",
                   "arguments.done", "output_item.done", "tool.result"} \union Terminals
  BY <1>1, Zenon DEF ApplyEvent, Terminals
<1> QED BY <1>2, <1>3, <1>4, <1>5, <1>6, <1>7, <1>8, <1>9, <1>10, Zenon

\* Observing an event keeps it for every machine.
LEMMA ObserveKeeps ==
    ASSUME LifeInv, NEW e, EventOK(e), Observe(e)
    PROVE  LifeInv'
<1>1. \A n \in life' : \E m \in life : n \in ApplyEvent(m, e)
  BY Zenon DEF Observe
<1>2. \A n \in life' : MachineOK(n)
  BY <1>1, ApplyKeeps, Zenon DEF LifeInv
<1> QED BY <1>2, Zenon DEF LifeInv

\* Every step keeps the invariant.
LEMMA LifeStep == LifeInv /\ [LifecycleNext]_life => LifeInv'
<1> SUFFICES ASSUME LifeInv, [LifecycleNext]_life PROVE LifeInv'
  OBVIOUS
<1>1. /\ <<>> \in Seq(Fragments) /\ \A f \in Fragments : <<f>> \in Seq(Fragments)
      /\ \A n \in {-1, 0, 1} : n \in Int
  OBVIOUS
<1>2. ASSUME NEW t \in Terminals \union {"response.created", "response.in_progress"},
             Observe([Semantic EXCEPT !.type = t])
      PROVE  LifeInv'
  <2>1. EventOK([Semantic EXCEPT !.type = t])
    BY <1>1, Zenon DEF EventOK, Semantic, Terminals
  <2> QED BY <1>2, <2>1, ObserveKeeps, Zenon
<1>3. ASSUME NEW i \in ItemIDs, NEW c \in CallIDs \union {""},
             NEW k \in {"message", "function_call"}, NEW j \in {-1, 0, 1},
             Observe([Semantic EXCEPT !.type = "output_item.added", !.item = i, !.kind = k,
                                      !.index = j, !.call = c])
      PROVE  LifeInv'
  <2> DEFINE e == [Semantic EXCEPT !.type = "output_item.added", !.item = i, !.kind = k,
                                   !.index = j, !.call = c]
  <2>1. EventOK(e)
    BY <1>1, Zenon DEF EventOK, Semantic
  <2> QED BY <1>3, <2>1, ObserveKeeps, Zenon
<1>4. ASSUME NEW i \in ItemIDs, NEW c \in CallIDs \union {""}, NEW f \in Fragments,
             Observe([Semantic EXCEPT !.type = "arguments.delta", !.item = i, !.call = c,
                                      !.delta = <<f>>])
      PROVE  LifeInv'
  <2> DEFINE e == [Semantic EXCEPT !.type = "arguments.delta", !.item = i, !.call = c,
                                   !.delta = <<f>>]
  <2>1. EventOK(e)
    BY <1>1, Zenon DEF EventOK, Semantic
  <2> QED BY <1>4, <2>1, ObserveKeeps, Zenon
<1>5. ASSUME NEW i \in ItemIDs, NEW c \in CallIDs \union {""}, NEW a,
             Observe([Semantic EXCEPT !.type = "arguments.done", !.item = i, !.call = c,
                                      !.arguments = a])
      PROVE  LifeInv'
  <2> DEFINE e == [Semantic EXCEPT !.type = "arguments.done", !.item = i, !.call = c,
                                   !.arguments = a]
  <2>1. EventOK(e)
    BY <1>1, Zenon DEF EventOK, Semantic
  <2> QED BY <1>5, <2>1, ObserveKeeps, Zenon
<1>6. ASSUME NEW i \in ItemIDs, NEW c \in CallIDs \union {""},
             NEW t \in {"output_item.done", "tool.result"},
             Observe([Semantic EXCEPT !.type = t, !.item = i, !.call = c])
      PROVE  LifeInv'
  <2> DEFINE e == [Semantic EXCEPT !.type = t, !.item = i, !.call = c]
  <2>1. EventOK(e)
    BY <1>1, Zenon DEF EventOK, Semantic
  <2> QED BY <1>6, <2>1, ObserveKeeps, Zenon
<1>7. CASE UNCHANGED life
  BY <1>7, Zenon DEF LifeInv
<1> QED BY <1>2, <1>3, <1>4, <1>5, <1>6, <1>7, ZenonT(40) DEF LifecycleNext

\* Whatever events arrive, in whatever order and with whatever identifiers, a
\* machine that reports response.completed has no open item and no call without
\* its arguments, its indexes and calls are unique, and every result answers one of
\* its finished calls.
THEOREM CompletedMeansClosed == LifecycleSpec => []CompletedIsClosed
<1>1. LifecycleInit => LifeInv
  <2>1. NewMachine \in MachineRecords
    <3>1. <<>> \in [{} -> ItemRecords] /\ {} \in SUBSET ItemIDs
      OBVIOUS
    <3>2. <<>> \in UNION {[D -> ItemRecords] : D \in SUBSET ItemIDs}
      BY <3>1, Zenon
    <3> QED BY <3>2, Zenon DEF NewMachine, MachineRecords
  <2>2. NewMachine.items = <<>> /\ NewMachine.results = {} /\ NewMachine.terminal = ""
    BY Zenon DEF NewMachine
  <2>3. DOMAIN NewMachine.items = {}
    BY <2>2, NoItems, Zenon
  <2>4. MachineOK(NewMachine)
    BY <2>1, <2>2, <2>3, Zenon DEF MachineOK, Distinct
  <2> QED BY <2>4, Zenon DEF LifecycleInit, LifeInv
<1>2. LifeInv => CompletedIsClosed
  <2> SUFFICES ASSUME LifeInv, NEW m \in life
               PROVE  /\ m.terminal = "response.completed" =>
                           \A i \in DOMAIN m.items :
                             m.items[i].done /\ (i \in FunctionItems(m) => m.items[i].argumentsDone)
                      /\ \A i, j \in DOMAIN m.items : m.items[i].index = m.items[j].index => i = j
                      /\ \A i, j \in FunctionItems(m) : m.items[i].call = m.items[j].call => i = j
                      /\ m.results \subseteq
                           {m.items[i].call : i \in {j \in FunctionItems(m) : m.items[j].done}}
    BY Zenon DEF CompletedIsClosed
  <2>1. MachineOK(m)
    BY Zenon DEF LifeInv
  <2>2. m.terminal = "response.completed" =>
          \A i \in DOMAIN m.items :
            m.items[i].done /\ (i \in FunctionItems(m) => m.items[i].argumentsDone)
    BY <2>1, Zenon DEF MachineOK, Finished, FunctionItems
  <2>3. /\ \A i, j \in DOMAIN m.items : m.items[i].index = m.items[j].index => i = j
        /\ \A i, j \in FunctionItems(m) : m.items[i].call = m.items[j].call => i = j
    BY <2>1, Zenon DEF MachineOK, Distinct, FunctionItems
  <2>4. m.results \subseteq {m.items[i].call : i \in {j \in FunctionItems(m) : m.items[j].done}}
    BY <2>1, Zenon DEF MachineOK, Answered, FunctionItems
  <2> QED BY <2>2, <2>3, <2>4, Zenon
<1> QED BY <1>1, <1>2, LifeStep, PTL DEF LifecycleSpec

-----------------------------------------------------------------------------
(* The driver protocol.                                                     *)

\* The smaller of two numbers.
LEMMA MinOfTwo ==
    ASSUME NEW a \in Nat, NEW b \in Nat
    PROVE  Min({a, b}) = IF a <= b THEN a ELSE b
<1>1. \E x \in {a, b} : \A y \in {a, b} : x <= y
  OBVIOUS
<1>2. Min({a, b}) \in {a, b} /\ \A y \in {a, b} : Min({a, b}) <= y
  BY <1>1, Zenon DEF Min
<1> QED BY <1>2

\* One round of Decode's loop, and the function that it is.
Round(size, f, left) ==
    LET fragment == Min({left, ReadBuffer})
    IN  IF size - left + fragment > MaxControlFrame + 2
        THEN [refused |-> TRUE, rest |-> 0]
        ELSE IF fragment = left THEN [refused |-> FALSE, rest |-> 0]
        ELSE f[left - fragment]

Outcome(size) == [refused |-> size > MaxControlFrame + 2, rest |-> 0]

\* A round either ends with the outcome or goes on with fewer bytes.
LEMMA RoundEnds ==
    ASSUME NEW size \in Nat, NEW left \in 0..size, NEW f
    PROVE  \/ Round(size, f, left) = Outcome(size)
           \/ \E rest \in 0..size : rest < left /\ Round(size, f, left) = f[rest]
<1> DEFINE fragment == Min({left, ReadBuffer})
<1>1. left \in Nat /\ ReadBuffer \in Nat /\ ReadBuffer # 0 /\ MaxControlFrame \in Nat
  BY DriverConstants
<1>2. fragment = IF left <= ReadBuffer THEN left ELSE ReadBuffer
  BY <1>1, MinOfTwo, Zenon
<1>3. Round(size, f, left) = IF size - left + fragment > MaxControlFrame + 2
                             THEN [refused |-> TRUE, rest |-> 0]
                             ELSE IF fragment = left THEN [refused |-> FALSE, rest |-> 0]
                             ELSE f[left - fragment]
  BY Zenon DEF Round
<1> HIDE DEF fragment
<1>4. fragment \in Nat /\ fragment <= left /\ (fragment = left \/ left - fragment < left)
      /\ left - fragment \in 0..size
  BY <1>1, <1>2
<1>5. CASE size - left + fragment > MaxControlFrame + 2
  <2>1. (size > MaxControlFrame + 2) = TRUE
    BY <1>1, <1>4, <1>5
  <2> QED BY <1>3, <1>5, <2>1, Zenon DEF Outcome
<1>6. CASE ~(size - left + fragment > MaxControlFrame + 2) /\ fragment = left
  <2>1. (size > MaxControlFrame + 2) = FALSE
    BY <1>1, <1>4, <1>6
  <2> QED BY <1>3, <1>6, <2>1, Zenon DEF Outcome
<1>7. CASE ~(size - left + fragment > MaxControlFrame + 2) /\ fragment # left
  BY <1>3, <1>4, <1>7, Zenon
<1> QED BY <1>5, <1>6, <1>7, Zenon

\* So every function with that recursion has the outcome everywhere.
LEMMA LoopEnds ==
    ASSUME NEW size \in Nat, NEW f, f = [left \in 0..size |-> Round(size, f, left)]
    PROVE  \A left \in 0..size : f[left] = Outcome(size)
<1> DEFINE B == {left \in 0..size : f[left] # Outcome(size)}
<1> SUFFICES ASSUME B # {} PROVE FALSE
  BY Zenon
<1>1. B \in SUBSET Nat
  OBVIOUS
<1>2. PICK n \in B : \A k \in B : n <= k
  <2> HIDE DEF B
  <2> QED BY <1>1, LeastNat, Zenon
<1>3. n \in 0..size /\ f[n] = Round(size, f, n) /\ f[n] # Outcome(size)
  BY Zenon
<1>4. PICK rest \in 0..size : rest < n /\ Round(size, f, n) = f[rest]
  BY <1>3, RoundEnds, ZenonT(30)
<1>5. rest \in B
  BY <1>3, <1>4, Zenon
<1>6. n <= rest
  BY <1>2, <1>5, Zenon
<1> QED BY <1>3, <1>4, <1>6

\* Decode refuses a line exactly when it is longer than the largest frame and its
\* line ending, and leaves nothing of it to be read as another line.
THEOREM LinesAreRead ==
    ASSUME NEW size \in 1..MaxLine
    PROVE  ReadLine[size] = Outcome(size)
<1> DEFINE Loop(f) == f = [left \in 0..size |-> Round(size, f, left)]
           f0 == [left \in 0..size |-> Outcome(size)]
           g == CHOOSE f : Loop(f)
<1>1. size \in Nat /\ size \in 0..size
  BY DriverConstants
<1>2. \A left \in 0..size : Round(size, f0, left) = Outcome(size)
  <2> SUFFICES ASSUME NEW left \in 0..size PROVE Round(size, f0, left) = Outcome(size)
    OBVIOUS
  <2>1. \A rest \in 0..size : f0[rest] = Outcome(size)
    BY Zenon
  <2> HIDE DEF f0
  <2> QED BY <1>1, <2>1, RoundEnds, ZenonT(30)
<1>3. Loop(f0)
  BY <1>2, Zenon
<1>4. Loop(g)
  BY <1>3, Zenon
<1>5. ReadLine[size] = g[size]
  BY Zenon DEF ReadLine, Round
<1> HIDE DEF g
<1> QED BY <1>1, <1>4, <1>5, LoopEnds, Zenon

\* What is a message, whatever its fields hold.
Shaped(g) ==
    /\ g \in [jsonrpc : {g.jsonrpc}, id : {g.id}, method : {g.method}, params : {g.params},
              hasParams : {g.hasParams}, result : {g.result}, error : {g.error}]
    /\ g.params \in [bad : {g.params.bad}, invocation : {g.params.invocation},
                     attempt : {g.params.attempt}, sequence : {g.params.sequence}]

\* A message in terms of its fields.
LEMMA MessageFields ==
    ASSUME NEW id, NEW method, NEW i, NEW a, NEW n
    PROVE  LET g == Message(id, method, Params(i, a, n))
           IN  /\ Shaped(g) /\ g.method = method /\ g.id = id
               /\ g.params.invocation = i /\ g.params.attempt = a /\ g.params.sequence = n
<1> DEFINE p == Params(i, a, n)
           g == Message(id, method, p)
<1>1. p.bad = {} /\ p.invocation = i /\ p.attempt = a /\ p.sequence = n
  BY Zenon DEF Params
<1>2. p \in [bad : {p.bad}, invocation : {p.invocation}, attempt : {p.attempt},
             sequence : {p.sequence}]
  BY Zenon DEF Params
<1> HIDE DEF p
<1>3. /\ g.params = p /\ g.method = method /\ g.id = id
      /\ g.jsonrpc = "2.0" /\ g.hasParams = TRUE /\ g.result = FALSE /\ g.error = "absent"
  BY Zenon DEF Message
<1>4. g \in [jsonrpc : {g.jsonrpc}, id : {g.id}, method : {g.method}, params : {g.params},
             hasParams : {g.hasParams}, result : {g.result}, error : {g.error}]
  BY Zenon DEF Message
<1> HIDE DEF g
<1>5. Shaped(g)
  BY <1>2, <1>3, <1>4, Zenon DEF Shaped
<1>6. /\ Shaped(g) /\ g.method = method /\ g.id = id
      /\ g.params.invocation = i /\ g.params.attempt = a /\ g.params.sequence = n
  BY <1>1, <1>3, <1>5, Zenon
<1> QED BY <1>6, Zenon DEF g, p

\* A request is a message with a request's method.
LEMMA RequestsShaped == \A g \in Requests : Shaped(g) /\ g.method \in requestMethods
<1> SUFFICES ASSUME NEW g \in Requests PROVE Shaped(g) /\ g.method \in requestMethods
  OBVIOUS
<1>1. "invoke" \in requestMethods /\ "cancel" \in requestMethods
  BY Zenon DEF requestMethods
<1>2. \E method \in requestMethods : \E i, a : g = Request(method, i, a)
  <2>1. CASE g \in {Request(method, "none", "none") : method \in requestMethods \ {"invoke", "cancel"}}
    BY <2>1, Zenon
  <2>2. CASE g \in UNION {{Request("invoke", i, a) : a \in Attempts} : i \in Invocations}
    <3>1. PICK i \in Invocations : g \in {Request("invoke", i, a) : a \in Attempts}
      BY <2>2, Zenon
    <3> QED BY <1>1, <3>1, Zenon
  <2>3. CASE g \in {Request("cancel", i, "none") : i \in Invocations}
    BY <1>1, <2>3, Zenon
  <2> QED BY <2>1, <2>2, <2>3, Zenon DEF Requests
<1>3. PICK method \in requestMethods : \E i, a : g = Request(method, i, a)
  BY <1>2, Zenon
<1>3a. PICK i, a : g = Request(method, i, a)
  BY <1>3, Zenon
<1>4. g = Message("integer", method, Params(i, a, Unsequenced))
  BY <1>3a, Zenon DEF Request
<1> DEFINE r == Message("integer", method, Params(i, a, Unsequenced))
<1>5. Shaped(r) /\ r.method = method
  <2>1. Shaped(Message("integer", method, Params(i, a, Unsequenced)))
    BY ONLY MessageFields, Zenon
  <2>2. Message("integer", method, Params(i, a, Unsequenced)).method = method
    BY Zenon DEF Message
  <2> QED BY <2>1, <2>2
<1> HIDE DEF r
<1> QED BY <1>4, <1>5, Zenon DEF r

\* A malformed notification does not decode.
LEMMA MalformedRefused ==
    ASSUME NEW g, Shaped(g), g.method \in notificationMethods => g.id = "absent",
           NEW m \in Malformed(g), m # g, m.method \in notificationMethods,
           Kind(m) # "invalid", validateMethodPayload(m)
    PROVE  FALSE
<1>0. notificationMethods = {"observation", "completed"}
  BY DEF notificationMethods
<1>1. /\ m.jsonrpc = "2.0" /\ ~m.result /\ m.id = "absent" /\ m.hasParams
      /\ m.params.bad \intersect Fields(m.method) = {}
  <2>1. m.method # ""
    BY <1>0, Zenon
  <2>2. m.jsonrpc = "2.0" /\ ~m.result /\ m.id = "absent"
    BY <2>1, Zenon DEF Kind
  <2>3. DecodeParamsStrict(m) /\ m.params.bad \intersect Fields(m.method) = {}
    BY <2>1, Zenon DEF validateMethodPayload
  <2>4. m.hasParams
    BY <1>0, <2>3, Zenon DEF DecodeParamsStrict
  <2> QED BY <2>2, <2>3, <2>4, Zenon
<1>2. CASE m = [g EXCEPT !.jsonrpc = "1.0"]
  BY <1>1, <1>2, Zenon DEF Shaped
<1>3. CASE m = [g EXCEPT !.method = "unknown"]
  BY <1>0, <1>3, Zenon DEF Shaped
<1>4. CASE m \in {[g EXCEPT !.method = "", !.hasParams = FALSE, !.result = TRUE],
                  [g EXCEPT !.method = "", !.hasParams = FALSE, !.error = "unclassified"]}
  BY <1>1, <1>4, Zenon DEF Shaped
<1>5. CASE m = [g EXCEPT !.result = TRUE]
  BY <1>1, <1>5, Zenon DEF Shaped
<1>6. CASE m = [g EXCEPT !.hasParams = FALSE]
  BY <1>1, <1>6, Zenon DEF Shaped
<1>7. CASE m \in {[g EXCEPT !.id = id] : id \in {"absent", "null", "fraction", "integer"}}
  <2>1. PICK id : m = [g EXCEPT !.id = id]
    BY <1>7, Zenon
  <2>2. m.id = id /\ m.method = g.method
    BY <2>1, Zenon DEF Shaped
  <2>3. g.id = id
    BY <1>1, <2>2, Zenon
  <2>4. m = g
    BY <2>1, <2>3, Zenon DEF Shaped
  <2> QED BY <2>4
<1>8. CASE m \in {[g EXCEPT !.params.bad = {field}] : field \in Fields(g.method)}
  <2>1. PICK field \in Fields(g.method) : m = [g EXCEPT !.params.bad = {field}]
    BY <1>8, Zenon
  <2>2. m.method = g.method /\ m.params = [g.params EXCEPT !.bad = {field}]
    BY <2>1, Zenon DEF Shaped
  <2>3. m.params.bad = {field}
    BY <2>2, Zenon DEF Shaped
  <2> QED BY <1>1, <2>2, <2>3, Zenon
<1> QED BY <1>2, <1>3, <1>4, <1>5, <1>6, <1>7, <1>8, Zenon DEF Malformed

\* The first j entries of an account are observations in increasing order, and the
\* number of the last of them.
Observations(acc, j) ==
    /\ \A k \in 1..j : acc[k].method = "observation"
    /\ \A k \in 1..(j - 1) : acc[k].params.sequence < acc[k + 1].params.sequence
LastOf(acc, j) == IF j > 0 THEN acc[j].params.sequence ELSE Unsequenced

\* What the driver runs, and what it has sent of that.
DriverShape(dr) ==
    \A i \in DOMAIN dr : dr[i] \in [attempt : {dr[i].attempt}, last : Int, done : BOOLEAN]

SentOK(g, dr) ==
    /\ Shaped(g) /\ g.id = "absent" /\ g.method \in notificationMethods
    /\ g.params.invocation \in Invocations /\ g.params.invocation \in DOMAIN dr
    /\ g.params.sequence \in Int
    /\ g.method = "completed" => /\ dr[g.params.invocation].done
                                 /\ g.params.sequence = dr[g.params.invocation].last

\* The session: the invocation that runs, if one does, is not yet completed.
States == {"NEW", "HELLO", "PREPARED", "INVOKING", "SHUTDOWN"}
Active(a) == a \in [invocation : {a.invocation}, attempt : {a.attempt}, last : Int,
                    cancelRequested : BOOLEAN]
Running(s) == IF s.state = "INVOKING" THEN {s.active.invocation} ELSE {}
SessionShape(s) ==
    /\ s \in [state : States, active : {s.active}, completed : {s.completed}]
    /\ s.state = "INVOKING" => Active(s.active) /\ s.active.invocation \notin s.completed

\* The account of an invocation that has not begun, that runs, that is completed.
Account(acc, i, s) ==
    /\ i \notin s.completed \union Running(s) => Len(acc) = 0
    /\ i \in Running(s) => Observations(acc, Len(acc)) /\ s.active.last = LastOf(acc, Len(acc))
    /\ i \in s.completed =>
         /\ Len(acc) > 0 /\ acc[Len(acc)].method = "completed"
         /\ Observations(acc, Len(acc) - 1)
         /\ acc[Len(acc)].params.sequence = LastOf(acc, Len(acc) - 1)

\* It holds what was sent for the invocation.
Holds(acc, i, msgs) ==
    /\ acc \in Seq(msgs)
    /\ \A k \in 1..Len(acc) : acc[k].params.invocation = i

DriverInv ==
    /\ remainder = 0
    /\ DriverShape(driver) /\ SessionShape(session)
    /\ DOMAIN driver = session.completed \union Running(session)
    /\ \A g \in sent : SentOK(g, driver)
    /\ DOMAIN transcript = Invocations /\ transcript = [i \in Invocations |-> transcript[i]]
    /\ \A i \in Invocations : Account(transcript[i], i, session) /\ Holds(transcript[i], i, sent)

\* One more entry in an account of observations.
LEMMA EntryAdded ==
    ASSUME NEW acc \in Seq(sent), NEW g \in sent, Observations(acc, Len(acc))
    PROVE  LET new == Append(acc, g)
               n   == Len(acc)
           IN  /\ new \in Seq(sent) /\ Len(new) = n + 1 /\ new[n + 1] = g
               /\ \A k \in 1..n : new[k] = acc[k]
               /\ Observations(new, n) /\ LastOf(new, n) = LastOf(acc, n)
<1> DEFINE n == Len(acc)
           new == Append(acc, g)
<1>1. n \in Nat
  BY LenProperties, Zenon
<1>2. new \in Seq(sent) /\ Len(new) = n + 1 /\ new[n + 1] = g /\ \A k \in 1..n : new[k] = acc[k]
  BY AppendProperties
<1> HIDE DEF n, new
<1>3. \A k \in 1..(n - 1) : k \in 1..n /\ k + 1 \in 1..n
  BY <1>1
<1>4. Observations(new, n)
  BY <1>2, <1>3, Zenon DEF Observations, n
<1>5. LastOf(new, n) = LastOf(acc, n)
  <2>1. n > 0 => n \in 1..n
    BY <1>1
  <2> QED BY <1>2, <2>1, Zenon DEF LastOf
<1> QED BY <1>2, <1>4, <1>5, Zenon DEF n, new

\* It continues the observations when it is a later one.
LEMMA ObservationAdded ==
    ASSUME NEW acc, NEW n \in Nat, Observations(acc, n), acc[n + 1].method = "observation",
           LastOf(acc, n) < acc[n + 1].params.sequence
    PROVE  Observations(acc, n + 1) /\ LastOf(acc, n + 1) = acc[n + 1].params.sequence
<1>1. \A k \in 1..(n + 1) : k \in 1..n \/ k = n + 1
  OBVIOUS
<1>2. \A k \in 1..((n + 1) - 1) : k \in 1..(n - 1) \/ (k = n /\ n > 0)
  OBVIOUS
<1>3. n + 1 > 0
  OBVIOUS
<1>4. Observations(acc, n + 1)
  <2>1. \A k \in 1..(n + 1) : acc[k].method = "observation"
    BY <1>1, Zenon DEF Observations
  <2>2. n > 0 => acc[n].params.sequence < acc[n + 1].params.sequence
    BY Zenon DEF LastOf
  <2>3. \A k \in 1..((n + 1) - 1) : acc[k].params.sequence < acc[k + 1].params.sequence
    BY <1>2, <2>2, Zenon DEF Observations
  <2> QED BY <2>1, <2>3, Zenon DEF Observations
<1> QED BY <1>3, <1>4, Zenon DEF LastOf

\* A line that decodes to a notification is one that the driver has sent.
LEMMA NotificationsGenuine ==
    ASSUME DriverInv, NEW line \in Lines, NEW m \in DecodeLine(line),
           m.method \in notificationMethods
    PROVE  m \in sent
<1> DEFINE genuine == Requests \union sent
<1>1. /\ m = line.message /\ line.strict /\ Kind(m) # "invalid" /\ validateMethodPayload(m)
  BY Zenon DEF DecodeLine, DecodeControlFrame
<1>2. requestMethods \intersect notificationMethods = {}
  BY DEF requestMethods, notificationMethods
<1>3. \A g \in genuine : Shaped(g) /\ (g.method \in notificationMethods => g \in sent /\ g.id = "absent")
  BY <1>2, RequestsShaped, Zenon DEF DriverInv, SentOK
<1>4. ~(remainder > 0)
  BY DEF DriverInv
<1>5. \/ line \in [size : 2..MaxLine, crlf : BOOLEAN, strict : {TRUE}, message : genuine]
      \/ line \in {[size |-> 2, crlf |-> FALSE, strict |-> x \notin genuine, message |-> x] :
                        x \in genuine \union UNION {Malformed(g) : g \in genuine}}
  BY <1>4, Zenon DEF Lines
<1> HIDE DEF genuine
<1>6. CASE line \in [size : 2..MaxLine, crlf : BOOLEAN, strict : {TRUE}, message : genuine]
  BY <1>1, <1>3, <1>6, Zenon
<1>7. CASE line \in {[size |-> 2, crlf |-> FALSE, strict |-> x \notin genuine, message |-> x] :
                        x \in genuine \union UNION {Malformed(g) : g \in genuine}}
  <2>1. PICK x \in genuine \union UNION {Malformed(g) : g \in genuine} :
            line = [size |-> 2, crlf |-> FALSE, strict |-> x \notin genuine, message |-> x]
    BY <1>7, Zenon
  <2>2. line.message = x /\ line.strict = (x \notin genuine)
    BY <2>1
  <2>3. m \notin genuine
    BY <1>1, <2>2, Zenon
  <2>4. PICK g \in genuine : m \in Malformed(g)
    BY <1>1, <2>2, <2>3, Zenon
  <2>5. m # g
    BY <2>3, Zenon
  <2> QED BY <1>1, <1>3, <2>4, <2>5, MalformedRefused, Zenon
<1> QED BY <1>5, <1>6, <1>7, Zenon

\* A request other than invoke changes nothing that the accounts are about.
Quiet(s, t) ==
    /\ SessionShape(t) /\ t.completed = s.completed /\ Running(t) = Running(s)
    /\ t.state = "INVOKING" => t.active.last = s.active.last

\* A change of state outside an invocation.
LEMMA StateSet ==
    ASSUME NEW s, SessionShape(s), s.state # "INVOKING", NEW to \in States, to # "INVOKING"
    PROVE  Quiet(s, [s EXCEPT !.state = to])
<1> DEFINE t == [s EXCEPT !.state = to]
<1>1. /\ t \in [state : States, active : {s.active}, completed : {s.completed}]
      /\ t.state = to /\ t.active = s.active /\ t.completed = s.completed
  BY Zenon DEF SessionShape
<1> HIDE DEF t
<1>2. Quiet(s, t)
  BY <1>1, Zenon DEF Quiet, SessionShape, Running
<1> QED BY <1>2, Zenon DEF t

\* A request other than invoke adds nothing to an account.
LEMMA QuietRequests ==
    ASSUME NEW s, SessionShape(s), NEW m, m.method \in requestMethods, m.method # "invoke",
           NEW t \in ApplyMessage(s, m)
    PROVE  Quiet(s, t)
<1>0. {"NEW", "HELLO", "PREPARED", "SHUTDOWN"} \subseteq States
  BY Zenon DEF States
<1>1. ASSUME NEW from, NEW to, from \in {"NEW", "HELLO", "PREPARED"},
             to \in {"HELLO", "PREPARED", "SHUTDOWN"}, t \in Advance(s, from, to)
      PROVE  Quiet(s, t)
  <2>1. t = [s EXCEPT !.state = to] /\ s.state = from
    BY <1>1, Zenon DEF Advance
  <2>2. s.state # "INVOKING" /\ to # "INVOKING" /\ to \in States
    BY <1>0, <1>1, <2>1, Zenon
  <2> QED BY <2>1, <2>2, StateSet, Zenon
<1>2. Kind(m) \in {"request", "notification"}
  BY Zenon DEF ApplyMessage
<1>3. CASE m.method = "hello"
  <2>1. t \in AcceptHello(s)
    BY <1>2, <1>3, Zenon DEF ApplyMessage
  <2> QED BY <1>1, <2>1, Zenon DEF AcceptHello
<1>4. CASE m.method = "prepare"
  <2>1. t \in AcceptPrepare(s)
    BY <1>2, <1>4, Zenon DEF ApplyMessage
  <2> QED BY <1>1, <2>1, Zenon DEF AcceptPrepare
<1>5. CASE m.method = "capabilities"
  <2>1. t \in CheckCapabilities(s)
    BY <1>2, <1>5, Zenon DEF ApplyMessage
  <2>2. t = s
    BY <2>1, Zenon DEF CheckCapabilities
  <2> QED BY <2>2, Zenon DEF Quiet
<1>6. CASE m.method = "reset"
  <2>1. t \in ResetSession(s)
    BY <1>2, <1>6, Zenon DEF ApplyMessage
  <2> QED BY <1>1, <2>1, Zenon DEF ResetSession
<1>7. CASE m.method = "shutdown"
  <2>1. t \in Shutdown(s)
    BY <1>2, <1>7, Zenon DEF ApplyMessage
  <2>2. t \in Advance(s, "PREPARED", "SHUTDOWN")
    BY <2>1, Zenon DEF Shutdown
  <2>3. "PREPARED" \in {"NEW", "HELLO", "PREPARED"} /\ "SHUTDOWN" \in {"HELLO", "PREPARED", "SHUTDOWN"}
    BY Zenon
  <2> QED BY ONLY <1>1, <2>2, <2>3
<1>8. CASE m.method = "cancel"
  <2>1. t \in RequestCancel(s, m.params)
    BY <1>2, <1>8, Zenon DEF ApplyMessage
  <2>2. s.state = "INVOKING" /\ t = [s EXCEPT !.active.cancelRequested = TRUE]
    BY <2>1, Zenon DEF RequestCancel
  <2> DEFINE a == [s.active EXCEPT !.cancelRequested = TRUE]
  <2>3. Active(s.active) /\ s.active.invocation \notin s.completed
    BY <2>2, Zenon DEF SessionShape
  <2>4. a.invocation = s.active.invocation /\ a.last = s.active.last /\ Active(a)
    <3>1. a.invocation = s.active.invocation /\ a.last = s.active.last
          /\ a.attempt = s.active.attempt
          /\ a \in [invocation : {s.active.invocation}, attempt : {s.active.attempt}, last : Int,
                    cancelRequested : BOOLEAN]
      BY <2>3, Zenon DEF Active
    <3> QED BY <3>1, Zenon DEF Active
  <2>5. /\ t.state = "INVOKING" /\ t.active = a /\ t.completed = s.completed
        /\ t \in [state : States, active : {a}, completed : {s.completed}]
    BY <2>2, Zenon DEF SessionShape
  <2> HIDE DEF a
  <2>6. SessionShape(t)
    BY <2>3, <2>4, <2>5, Zenon DEF SessionShape
  <2> QED BY <2>2, <2>4, <2>5, <2>6, Zenon DEF Quiet, Running
<1> QED BY <1>3, <1>4, <1>5, <1>6, <1>7, <1>8, Zenon DEF requestMethods

\* The accounts stay right when what they are about stays.
LEMMA AccountStays ==
    ASSUME NEW acc, NEW i, NEW s, NEW t, t.completed = s.completed, Running(t) = Running(s),
           i \in Running(s) => t.active.last = s.active.last, Account(acc, i, s)
    PROVE  Account(acc, i, t)
BY Zenon DEF Account

\* A session that runs what the driver knows starts nothing.
LEMMA NothingStarted ==
    ASSUME NEW t, Running(t) \subseteq DOMAIN driver
    PROVE  Started(t) = driver
BY Zenon DEF Started, Running

\* A line that changes nothing the accounts are about.
LEMMA QuietKeeps ==
    ASSUME DriverInv, Quiet(session, session'), remainder' = 0, driver' = driver,
           transcript' = transcript, sent' = sent
    PROVE  DriverInv'
<1>1. ASSUME NEW i \in Invocations PROVE Account(transcript[i], i, session')
  <2>1. i \in Running(session) => session'.active.last = session.active.last
    <3>1. Running(session') = Running(session)
      BY Zenon DEF Quiet
    <3>2. i \in Running(session') => session'.state = "INVOKING"
      BY Zenon DEF Running
    <3> QED BY <3>1, <3>2, Zenon DEF Quiet
  <2> QED BY <2>1, AccountStays, Zenon DEF DriverInv, Quiet
<1>2. DOMAIN driver = session'.completed \union Running(session')
  BY Zenon DEF DriverInv, Quiet
<1> QED BY <1>1, <1>2, Zenon DEF DriverInv, Quiet

\* An invocation begins: the driver starts it, and its account is empty.
LEMMA InvokeKeeps ==
    ASSUME DriverInv, NEW p, session' \in BeginInvocation(session, p), remainder' = 0,
           driver' = Started(session'), transcript' = transcript, sent' = sent
    PROVE  DriverInv'
<1> DEFINE s == session
           t == session'
           i == p.invocation
           a == [invocation |-> i, attempt |-> p.attempt, last |-> Unsequenced,
                 cancelRequested |-> FALSE]
           d == [attempt |-> t.active.attempt, last |-> Unsequenced, done |-> FALSE]
<1>1. /\ s.state = "PREPARED" /\ i \notin s.completed
      /\ t = [s EXCEPT !.state = "INVOKING", !.active = a]
  BY Zenon DEF BeginInvocation
<1>2. SessionShape(s) /\ Running(s) = {} /\ DOMAIN driver = s.completed /\ DriverShape(driver)
  <2>1. Running(s) = {}
    BY <1>1, Zenon DEF Running
  <2> QED BY <2>1, Zenon DEF DriverInv
<1>3. Unsequenced \in Int
  BY DEF Unsequenced
<1>4. Active(a) /\ a.invocation = i /\ a.last = Unsequenced
  BY <1>3, Zenon DEF Active
<1>5. /\ t.state = "INVOKING" /\ t.active = a /\ t.completed = s.completed
      /\ t \in [state : States, active : {a}, completed : {s.completed}]
  <2>1. "INVOKING" \in States
    BY Zenon DEF States
  <2> HIDE DEF a
  <2> QED BY <1>1, <1>2, <2>1, Zenon DEF SessionShape
<1> HIDE DEF a
<1>6. SessionShape(t) /\ Running(t) = {i}
  BY <1>1, <1>4, <1>5, Zenon DEF SessionShape, Running
<1>7. driver' = [j \in DOMAIN driver \union {i} |-> IF j \in DOMAIN driver THEN driver[j] ELSE d]
  BY <1>1, <1>2, <1>4, <1>5, Zenon DEF Started
<1>8. /\ DOMAIN driver' = t.completed \union {i}
      /\ \A j \in DOMAIN driver : driver'[j] = driver[j]
      /\ driver'[i] = d
  BY <1>1, <1>2, <1>5, <1>7, Zenon
<1>9. DriverShape(driver')
  <2>1. d \in [attempt : {d.attempt}, last : Int, done : BOOLEAN]
    BY <1>3, Zenon
  <2> HIDE DEF d
  <2>2. ASSUME NEW j \in DOMAIN driver'
        PROVE  driver'[j] \in [attempt : {driver'[j].attempt}, last : Int, done : BOOLEAN]
    <3>1. CASE j \in DOMAIN driver
      BY <1>2, <1>8, <3>1, Zenon DEF DriverShape
    <3>2. CASE j = i
      BY <1>8, <2>1, <3>2, Zenon
    <3> QED BY <1>2, <1>5, <1>8, <3>1, <3>2, Zenon
  <2> QED BY <2>2, Zenon DEF DriverShape
<1> HIDE DEF d
<1>10. \A g \in sent : SentOK(g, driver')
  <2> SUFFICES ASSUME NEW g \in sent PROVE SentOK(g, driver')
    OBVIOUS
  <2>1. SentOK(g, driver)
    BY Zenon DEF DriverInv
  <2>2. driver'[g.params.invocation] = driver[g.params.invocation]
        /\ g.params.invocation \in DOMAIN driver'
    BY <1>2, <1>5, <1>8, <2>1, Zenon DEF SentOK
  <2> QED BY <2>1, <2>2, Zenon DEF SentOK
<1>11. ASSUME NEW j \in Invocations PROVE Account(transcript[j], j, t)
  <2> DEFINE acc == transcript[j]
  <2> SUFFICES Account(acc, j, t)
    OBVIOUS
  <2>1. Account(acc, j, s)
    BY Zenon DEF DriverInv
  <2> HIDE DEF acc
  <2>2. CASE j # i
    <3>1. j \notin Running(t) /\ j \notin Running(s)
      BY <1>2, <1>6, <2>2, Zenon
    <3> QED BY <1>5, <2>1, <3>1, Zenon DEF Account
  <2>3. CASE j = i
    <3>1. Len(acc) = 0
      BY <1>1, <1>2, <2>1, <2>3, Zenon DEF Account
    <3>2. Observations(acc, Len(acc)) /\ LastOf(acc, Len(acc)) = Unsequenced
      BY <3>1 DEF Observations, LastOf
    <3>3. j \in Running(t) /\ j \notin t.completed /\ t.active.last = LastOf(acc, Len(acc))
      BY <1>1, <1>4, <1>5, <1>6, <2>3, <3>2, Zenon
    <3> QED BY <3>2, <3>3, Zenon DEF Account
  <2> QED BY <2>2, <2>3, Zenon
<1> QED BY <1>6, <1>8, <1>9, <1>10, <1>11, Zenon DEF DriverInv

\* A notification is entered in the account of its invocation.
Entered(g, t) ==
    /\ remainder' = 0 /\ session' = t /\ driver' = driver /\ sent' = sent
    /\ transcript' = [transcript EXCEPT ![g.params.invocation] =
                          Append(transcript[g.params.invocation], g)]

\* A notification that enters its account, which it continues.
LEMMA EntryKeeps ==
    ASSUME DriverInv, NEW g \in sent, NEW t, SessionShape(t), Entered(g, t),
           DOMAIN driver = t.completed \union Running(t),
           Account(Append(transcript[g.params.invocation], g), g.params.invocation, t),
           \A j \in Invocations \ {g.params.invocation} : Account(transcript[j], j, t)
    PROVE  DriverInv'
<1> DEFINE i == g.params.invocation
           acc == transcript[i]
<1>1. i \in Invocations /\ acc \in Seq(sent) /\ \A k \in 1..Len(acc) : acc[k].params.invocation = i
  <2>1. i \in Invocations
    BY Zenon DEF DriverInv, SentOK
  <2>2. Holds(acc, i, sent)
    BY <2>1, Zenon DEF DriverInv
  <2> QED BY <2>1, <2>2, Zenon DEF Holds
<1>2. Holds(Append(acc, g), i, sent)
  <2> DEFINE new == Append(acc, g)
             n == Len(acc)
  <2>1. n \in Nat
    BY <1>1, LenProperties, Zenon
  <2>2. new \in Seq(sent) /\ Len(new) = n + 1 /\ new[n + 1] = g /\ \A k \in 1..n : new[k] = acc[k]
    BY <1>1, AppendProperties
  <2> HIDE DEF n, new
  <2>3. \A k \in 1..(n + 1) : k \in 1..n \/ k = n + 1
    BY <2>1
  <2>4. \A k \in 1..(n + 1) : new[k].params.invocation = i
    BY <1>1, <2>2, <2>3, Zenon DEF n
  <2> QED BY <2>2, <2>4, Zenon DEF Holds, new
<1>3. /\ DOMAIN transcript' = Invocations /\ transcript' = [j \in Invocations |-> transcript'[j]]
      /\ \A j \in Invocations : transcript'[j] = IF j = i THEN Append(acc, g) ELSE transcript[j]
  BY <1>1, Zenon DEF Entered, DriverInv
<1>4. ASSUME NEW j \in Invocations PROVE Account(transcript'[j], j, t) /\ Holds(transcript'[j], j, sent)
  <2>1. CASE j = i
    BY <1>2, <1>3, <2>1, Zenon
  <2>2. CASE j # i
    BY <1>3, <2>2, Zenon DEF DriverInv
  <2> QED BY <2>1, <2>2
<1> QED BY <1>3, <1>4, Zenon DEF DriverInv, Entered

\* An observation is entered.
LEMMA ObservationKeeps ==
    ASSUME DriverInv, NEW g \in sent, g.method = "observation",
           NEW t \in ObserveNotification(session, g.params), Entered(g, t)
    PROVE  DriverInv'
<1> DEFINE s == session
           i == g.params.invocation
           q == g.params.sequence
           a == [s.active EXCEPT !.last = q]
           acc == transcript[i]
           n == Len(acc)
           new == Append(acc, g)
<1>1. /\ s.state = "INVOKING" /\ s.active.invocation = i /\ ~(q <= s.active.last)
      /\ t = [s EXCEPT !.active.last = q]
  BY Zenon DEF ObserveNotification, Identified
<1>2. /\ SessionShape(s) /\ Active(s.active) /\ i \notin s.completed /\ i \in Running(s)
      /\ q \in Int /\ i \in Invocations
  BY <1>1, Zenon DEF DriverInv, SessionShape, Running, SentOK
<1>3. a.invocation = s.active.invocation /\ a.last = q /\ Active(a)
  <2>1. /\ a.invocation = s.active.invocation /\ a.last = q /\ a.attempt = s.active.attempt
        /\ a \in [invocation : {s.active.invocation}, attempt : {s.active.attempt}, last : Int,
                  cancelRequested : BOOLEAN]
    BY <1>2, Zenon DEF Active
  <2> QED BY <2>1, Zenon DEF Active
<1>4. /\ t.state = "INVOKING" /\ t.active = a /\ t.completed = s.completed
      /\ t \in [state : States, active : {a}, completed : {s.completed}]
  BY <1>1, <1>2, Zenon DEF SessionShape
<1> HIDE DEF a
<1>5. SessionShape(t) /\ Running(t) = Running(s)
  BY <1>1, <1>2, <1>3, <1>4, Zenon DEF SessionShape, Running
<1>6. Account(acc, i, s) /\ acc \in Seq(sent)
  BY <1>2, Zenon DEF DriverInv, Holds
<1>7. Observations(acc, n) /\ s.active.last = LastOf(acc, n)
  BY <1>2, <1>6, Zenon DEF Account
<1>8. /\ Len(new) = n + 1 /\ new[n + 1] = g /\ Observations(new, n) /\ LastOf(new, n) = LastOf(acc, n)
  <2> HIDE DEF acc
  <2> QED BY <1>6, <1>7, EntryAdded
<1>9. n \in Nat
  BY <1>6, LenProperties, Zenon
<1> HIDE DEF acc, n, new
<1>10. Observations(new, n + 1) /\ LastOf(new, n + 1) = q
  <2>1. LastOf(new, n) < new[n + 1].params.sequence
    <3> DEFINE l == s.active.last
    <3>1. l \in Int /\ ~(q <= l)
      BY <1>1, <1>2, Zenon DEF Active
    <3> HIDE DEF l, q
    <3>2. l < q
      BY <1>2, <3>1
    <3> QED BY <1>7, <1>8, <3>2, Zenon DEF l, q
  <2> QED BY <1>8, <1>9, <2>1, ObservationAdded, Zenon
<1>11. Account(new, i, t)
  BY <1>2, <1>3, <1>4, <1>5, <1>8, <1>10, Zenon DEF Account
<1>12. ASSUME NEW j \in Invocations \ {i} PROVE Account(transcript[j], j, t)
  <2>1. j \notin Running(s)
    BY <1>1, Zenon DEF Running
  <2> QED BY <1>4, <1>5, <2>1, AccountStays, Zenon DEF DriverInv
<1>13. DOMAIN driver = t.completed \union Running(t)
  BY <1>4, <1>5, Zenon DEF DriverInv
<1> QED BY <1>5, <1>11, <1>12, <1>13, EntryKeeps, Zenon DEF new, acc

\* A completion is entered, and ends the account.
LEMMA CompletionKeeps ==
    ASSUME DriverInv, NEW g \in sent, g.method = "completed",
           NEW t \in Complete(session, g.params), Entered(g, t)
    PROVE  DriverInv'
<1> DEFINE s == session
           i == g.params.invocation
           q == g.params.sequence
           done == s.completed \union {i}
           acc == transcript[i]
           n == Len(acc)
           new == Append(acc, g)
<1>1. /\ s.state = "INVOKING" /\ s.active.invocation = i /\ q = s.active.last
      /\ t = [s EXCEPT !.completed = done, !.active = Inactive, !.state = "PREPARED"]
  BY Zenon DEF Complete, Identified
<1>2. /\ SessionShape(s) /\ i \notin s.completed /\ i \in Running(s) /\ i \in Invocations
      /\ Running(s) = {i}
  BY <1>1, Zenon DEF DriverInv, SessionShape, Running, SentOK
<1>3. /\ t.state = "PREPARED" /\ t.completed = done
      /\ t \in [state : States, active : {Inactive}, completed : {done}] /\ t.active = Inactive
  <2>1. "PREPARED" \in States
    BY Zenon DEF States
  <2> HIDE DEF done
  <2> QED BY <1>1, <1>2, <2>1, Zenon DEF SessionShape
<1>4. SessionShape(t) /\ Running(t) = {}
  BY <1>3, Zenon DEF SessionShape, Running
<1>5. Account(acc, i, s) /\ acc \in Seq(sent)
  BY <1>2, Zenon DEF DriverInv, Holds
<1>6. Observations(acc, n) /\ s.active.last = LastOf(acc, n)
  BY <1>2, <1>5, Zenon DEF Account
<1>7. /\ Len(new) = n + 1 /\ new[n + 1] = g /\ Observations(new, n) /\ LastOf(new, n) = LastOf(acc, n)
  <2> HIDE DEF acc
  <2> QED BY <1>5, <1>6, EntryAdded
<1>8. n \in Nat
  BY <1>5, LenProperties, Zenon
<1> HIDE DEF acc, n, new
<1>9. Len(new) > 0 /\ Len(new) - 1 = n
  BY <1>7, <1>8
<1>10. /\ new[Len(new)].method = "completed" /\ Observations(new, Len(new) - 1)
       /\ new[Len(new)].params.sequence = LastOf(new, Len(new) - 1)
  BY <1>1, <1>6, <1>7, <1>9, Zenon
<1>11. Account(new, i, t)
  <2>1. i \in t.completed /\ i \notin Running(t)
    BY <1>3, <1>4, Zenon
  <2> QED BY <1>9, <1>10, <2>1, Zenon DEF Account
<1>12. ASSUME NEW j \in Invocations \ {i} PROVE Account(transcript[j], j, t)
  <2> DEFINE other == transcript[j]
  <2> SUFFICES Account(other, j, t)
    OBVIOUS
  <2>1. Account(other, j, s)
    BY Zenon DEF DriverInv
  <2> HIDE DEF other
  <2>2. j \notin Running(s) /\ j \notin Running(t) /\ (j \in t.completed <=> j \in s.completed)
    BY <1>2, <1>3, <1>4, Zenon
  <2> QED BY <2>1, <2>2, Zenon DEF Account
<1>13. DOMAIN driver = t.completed \union Running(t)
  BY <1>2, <1>3, <1>4, Zenon DEF DriverInv
<1> QED BY <1>4, <1>11, <1>12, <1>13, EntryKeeps, Zenon DEF new, acc

\* An observation leaves the invocation running.
LEMMA ObservationRuns ==
    ASSUME NEW s, SessionShape(s), NEW p, NEW t \in ObserveNotification(s, p)
    PROVE  t.state = "INVOKING" /\ t.active.invocation \in Running(s)
<1> DEFINE a == [s.active EXCEPT !.last = p.sequence]
<1>1. s.state = "INVOKING" /\ t = [s EXCEPT !.active.last = p.sequence]
  BY Zenon DEF ObserveNotification, Identified
<1>2. a.invocation = s.active.invocation
  BY <1>1, Zenon DEF SessionShape, Active
<1>3. t.state = "INVOKING" /\ t.active = a
  BY <1>1, Zenon DEF SessionShape
<1> HIDE DEF a
<1>4. Running(s) = {s.active.invocation}
  BY <1>1, Zenon DEF Running
<1> QED BY <1>2, <1>3, <1>4, Zenon

\* A notification in terms of its fields.
Notifies(g, method, i, n) ==
    /\ Shaped(g) /\ g.method = method /\ g.id = "absent"
    /\ g.params.invocation = i /\ g.params.sequence = n

\* The fields of a notification, as it is built.
LEMMA NotificationFields ==
    ASSUME NEW method, NEW i, NEW a, NEW n
    PROVE  Notifies(Notification(method, i, a, n), method, i, n)
<1> DEFINE g == Notification(method, i, a, n)
<1>1. g = Message("absent", method, Params(i, a, n))
  BY Zenon DEF Notification
<1> DEFINE p == Params(i, a, n)
           h == Message("absent", method, p)
<1>2. Shaped(h)
  BY ONLY MessageFields, Zenon
<1>3. p.invocation = i /\ p.sequence = n
  BY Zenon DEF Params
<1>4. h.method = method /\ h.id = "absent" /\ h.params = p
  BY Zenon DEF Message
<1> HIDE DEF h, p
<1>5. Notifies(h, method, i, n)
  BY <1>2, <1>3, <1>4, Zenon DEF Notifies
<1> QED BY <1>1, <1>5, Zenon DEF h, p

\* The driver's own steps: an invocation i changes from d to e, and one more
\* notification is sent.
LEMMA NotifyKeeps ==
    ASSUME DriverInv, NEW i \in Invocations, Notify(i)
    PROVE  DriverInv'
<1>1. /\ i \in DOMAIN driver /\ driver[i].done = FALSE /\ driver[i].last \in Int
      /\ driver[i] \in [attempt : {driver[i].attempt}, last : Int, done : BOOLEAN]
  BY Zenon DEF Notify, DriverInv, DriverShape
<1>2. session' = session /\ remainder' = remainder /\ transcript' = transcript
  BY Zenon DEF Notify
<1>3. ASSUME NEW g, SentOK(g, driver'), sent' = sent \union {g}, NEW e, driver' = [driver EXCEPT ![i] = e],
             e \in [attempt : {e.attempt}, last : Int, done : BOOLEAN]
      PROVE  DriverInv'
  <2>1. DOMAIN driver' = DOMAIN driver /\ driver'[i] = e /\ \A j \in DOMAIN driver : j # i => driver'[j] = driver[j]
    BY <1>1, <1>3, Zenon
  <2>2. DriverShape(driver')
    BY <1>3, <2>1, Zenon DEF DriverShape, DriverInv
  <2>3. ASSUME NEW h \in sent PROVE SentOK(h, driver')
    <3>1. SentOK(h, driver)
      BY Zenon DEF DriverInv
    <3>2. CASE h.params.invocation = i
      <4>1. h.method # "completed"
        BY <1>1, <3>1, <3>2, Zenon DEF SentOK
      <4> QED BY <2>1, <3>1, <4>1, Zenon DEF SentOK
    <3>3. CASE h.params.invocation # i
      <4>1. driver'[h.params.invocation] = driver[h.params.invocation]
        BY <2>1, <3>1, <3>3, Zenon DEF SentOK
      <4> QED BY <2>1, <3>1, <4>1, Zenon DEF SentOK
    <3> QED BY <3>2, <3>3
  <2>4. \A h \in sent' : SentOK(h, driver')
    BY <1>3, <2>3, Zenon
  <2>5. ASSUME NEW j \in Invocations PROVE Holds(transcript[j], j, sent')
    <3>1. Holds(transcript[j], j, sent)
      BY Zenon DEF DriverInv
    <3>2. sent \subseteq sent'
      BY <1>3, Zenon
    <3> QED BY <3>1, <3>2, SeqMonotonic, Zenon DEF Holds
  <2> QED BY <1>2, <2>1, <2>2, <2>4, <2>5, Zenon DEF DriverInv
<1>4. ASSUME NEW k \in (driver[i].last + 1)..MaxObservation,
             sent' = sent \union {Notification("observation", i, driver[i].attempt, k)},
             driver' = [driver EXCEPT ![i].last = k]
      PROVE  DriverInv'
  <2> DEFINE g == Notification("observation", i, driver[i].attempt, k)
             e == [driver[i] EXCEPT !.last = k]
  <2>1. k \in Int
    BY <1>1, DriverConstants
  <2>2. e \in [attempt : {driver[i].attempt}, last : Int, done : BOOLEAN] /\ e.attempt = driver[i].attempt
    BY <1>1, <2>1, Zenon
  <2>3. driver' = [driver EXCEPT ![i] = e]
    BY <1>4, Zenon
  <2>4a. Notifies(g, "observation", i, k)
    BY ONLY NotificationFields, Zenon
  <2> HIDE DEF g, e
  <2>4. /\ Shaped(g) /\ g.method = "observation" /\ g.id = "absent"
        /\ g.params.invocation = i /\ g.params.sequence = k
    BY <2>4a, Zenon DEF Notifies
  <2>5. "observation" \in notificationMethods /\ "observation" # "completed"
    BY Zenon DEF notificationMethods
  <2>6. DOMAIN driver' = DOMAIN driver
    BY <2>3, Zenon
  <2>7. SentOK(g, driver')
    BY <1>1, <2>1, <2>4, <2>5, <2>6, Zenon DEF SentOK
  <2>8. e \in [attempt : {e.attempt}, last : Int, done : BOOLEAN]
    BY <2>2, Zenon
  <2>9. sent' = sent \union {g}
    BY <1>4, Zenon DEF g
  <2> QED BY <1>3, <2>3, <2>7, <2>8, <2>9, Zenon
<1>5. ASSUME sent' = sent \union {Notification("completed", i, driver[i].attempt, driver[i].last)},
             driver' = [driver EXCEPT ![i].done = TRUE]
      PROVE  DriverInv'
  <2> DEFINE g == Notification("completed", i, driver[i].attempt, driver[i].last)
             e == [driver[i] EXCEPT !.done = TRUE]
  <2>2. /\ e \in [attempt : {driver[i].attempt}, last : Int, done : BOOLEAN]
        /\ e.attempt = driver[i].attempt /\ e.last = driver[i].last /\ e.done = TRUE
    BY <1>1, Zenon
  <2>3. driver' = [driver EXCEPT ![i] = e]
    BY <1>5, Zenon
  <2>4a. Notifies(g, "completed", i, driver[i].last)
    BY ONLY NotificationFields, Zenon
  <2> HIDE DEF g, e
  <2>4. /\ Shaped(g) /\ g.method = "completed" /\ g.id = "absent"
        /\ g.params.invocation = i /\ g.params.sequence = driver[i].last
    BY <2>4a, Zenon DEF Notifies
  <2>5. "completed" \in notificationMethods
    BY Zenon DEF notificationMethods
  <2>6. DOMAIN driver' = DOMAIN driver /\ driver'[i] = e
    BY <1>1, <2>3, Zenon
  <2>7. SentOK(g, driver')
    BY <1>1, <2>2, <2>4, <2>5, <2>6, Zenon DEF SentOK
  <2>8. e \in [attempt : {e.attempt}, last : Int, done : BOOLEAN]
    BY <2>2, Zenon
  <2>9. sent' = sent \union {g}
    BY <1>5, Zenon DEF g
  <2> QED BY <1>3, <2>3, <2>7, <2>8, <2>9, Zenon
<1> QED BY <1>4, <1>5, Zenon DEF Notify

\* Every line that may be on the stream leaves no remainder.
LEMMA LinesWhole ==
    ASSUME DriverInv, NEW line \in Lines
    PROVE  ReadLine[line.size].rest = 0
<1> DEFINE genuine == Requests \union sent
<1>1. ~(remainder > 0)
  BY DEF DriverInv
<1>2. \A k \in 2..MaxLine : k \in 1..MaxLine
  BY DriverConstants
<1>3. 2 \in 1..MaxLine
  BY DriverConstants
<1>4. \/ line \in [size : 2..MaxLine, crlf : BOOLEAN, strict : {TRUE}, message : genuine]
      \/ \E g \in genuine \union UNION {Malformed(h) : h \in genuine} :
            line = [size |-> 2, crlf |-> FALSE, strict |-> g \notin genuine, message |-> g]
  BY <1>1, Zenon DEF Lines
<1> HIDE DEF genuine
<1>5. line.size \in 1..MaxLine
  <2>1. CASE line \in [size : 2..MaxLine, crlf : BOOLEAN, strict : {TRUE}, message : genuine]
    BY <1>2, <2>1, Zenon
  <2>2. ASSUME NEW g, line = [size |-> 2, crlf |-> FALSE, strict |-> g \notin genuine, message |-> g]
        PROVE  line.size = 2
    BY ONLY <2>2
  <2> QED BY <1>3, <1>4, <2>1, <2>2, Zenon
<1>6. ReadLine[line.size] = Outcome(line.size)
  BY <1>5, LinesAreRead, Zenon
<1> QED BY <1>6 DEF Outcome

\* A line is received.
LEMMA ReceiveKeeps ==
    ASSUME DriverInv, NEW line \in Lines, Receive(line)
    PROVE  DriverInv'
<1> DEFINE m == line.message
           applied == UNION {ApplyMessage(session, x) : x \in DecodeLine(line)}
<1>1. remainder' = 0 /\ sent' = sent
  BY LinesWhole, Zenon DEF Receive
<1>2. CASE applied = {}
  <2>1. session' = session /\ driver' = driver /\ transcript' = transcript
    BY <1>2, Zenon DEF Receive
  <2>2. Quiet(session, session')
    BY <2>1, Zenon DEF Quiet, DriverInv
  <2> QED BY <1>1, <2>1, <2>2, QuietKeeps, Zenon
<1>3. CASE applied # {}
  <2>1. /\ session' \in applied /\ driver' = Started(session')
        /\ transcript' = IF m.method \in notificationMethods
                         THEN [transcript EXCEPT ![m.params.invocation] =
                                   Append(transcript[m.params.invocation], m)]
                         ELSE transcript
    BY <1>3, Zenon DEF Receive
  <2>2. m \in DecodeLine(line) /\ session' \in ApplyMessage(session, m)
    <3>1. PICK x \in DecodeLine(line) : session' \in ApplyMessage(session, x)
      BY <2>1, Zenon
    <3>2. x = m
      BY Zenon DEF DecodeLine, DecodeControlFrame
    <3> QED BY <3>1, <3>2, Zenon
  <2> HIDE DEF applied
  <2>3. Kind(m) \in {"request", "notification"}
    BY <2>2, Zenon DEF ApplyMessage
  <2>4. m.method \in requestMethods \/ m.method \in notificationMethods
    BY <2>3, Zenon DEF Kind
  <2>5. requestMethods \intersect notificationMethods = {}
    BY DEF requestMethods, notificationMethods
  <2>6. DOMAIN driver = session.completed \union Running(session) /\ SessionShape(session)
    BY Zenon DEF DriverInv
  <2>7. CASE m.method \in requestMethods /\ m.method # "invoke"
    <3>1. Quiet(session, session')
      BY <2>2, <2>6, <2>7, QuietRequests, Zenon
    <3>2. driver' = driver
      BY <2>1, <2>6, <3>1, NothingStarted, Zenon DEF Quiet
    <3>3. transcript' = transcript
      BY <2>1, <2>5, <2>7, Zenon
    <3> QED BY <1>1, <3>1, <3>2, <3>3, QuietKeeps, Zenon
  <2>8. CASE m.method = "invoke"
    <3>1. session' \in BeginInvocation(session, m.params)
      BY <2>2, <2>3, <2>8, Zenon DEF ApplyMessage
    <3>2. transcript' = transcript
      BY <2>1, <2>8, Zenon DEF notificationMethods
    <3> QED BY <1>1, <2>1, <3>1, <3>2, InvokeKeeps, Zenon
  <2>9. CASE m.method \in notificationMethods
    <3>1. m \in sent
      BY <2>2, <2>9, NotificationsGenuine, Zenon
    <3>2. CASE m.method = "observation"
      <4>1. session' \in ObserveNotification(session, m.params)
        BY <2>2, <2>3, <3>2, Zenon DEF ApplyMessage
      <4>2. session'.state = "INVOKING" /\ session'.active.invocation \in Running(session)
        BY <2>6, <4>1, ObservationRuns, Zenon
      <4>3. driver' = driver
        BY <2>1, <2>6, <4>2, NothingStarted, Zenon DEF Running
      <4>4. Entered(m, session')
        BY <1>1, <2>1, <2>9, <4>3, Zenon DEF Entered
      <4> QED BY <3>1, <3>2, <4>1, <4>4, ObservationKeeps, Zenon
    <3>3. CASE m.method = "completed"
      <4>1. session' \in Complete(session, m.params)
        BY <2>2, <2>3, <3>3, Zenon DEF ApplyMessage
      <4>2. session'.state # "INVOKING"
        BY <2>6, <4>1, Zenon DEF Complete, SessionShape
      <4>3. driver' = driver
        BY <2>1, <4>2, Zenon DEF Started
      <4>4. Entered(m, session')
        BY <1>1, <2>1, <2>9, <4>3, Zenon DEF Entered
      <4> QED BY <3>1, <3>3, <4>1, <4>4, CompletionKeeps, Zenon
    <3> QED BY <2>9, <3>2, <3>3, Zenon DEF notificationMethods
  <2> QED BY <2>4, <2>7, <2>8, <2>9, Zenon
<1> QED BY <1>2, <1>3, Zenon

\* The invariant holds of a new session.
LEMMA DriverInitially == DriverInit => DriverInv
<1> SUFFICES ASSUME DriverInit PROVE DriverInv
  OBVIOUS
<1>1. /\ session = NewSession /\ remainder = 0 /\ sent = {} /\ driver = [i \in {} |-> 0]
      /\ transcript = [i \in Invocations |-> <<>>]
  BY Zenon DEF DriverInit
<1>2. /\ session.state = "NEW" /\ session.completed = {} /\ "NEW" \in States
      /\ session \in [state : {"NEW"}, active : {session.active}, completed : {session.completed}]
  BY <1>1, Zenon DEF NewSession, States
<1>3. "NEW" # "INVOKING"
  OBVIOUS
<1>4. Running(session) = {}
  BY <1>2, <1>3, Zenon DEF Running
<1>5. SessionShape(session)
  BY <1>2, <1>3, Zenon DEF SessionShape
<1>6. DOMAIN driver = {}
  BY <1>1, Zenon
<1>7. DOMAIN driver = session.completed \union Running(session)
  BY <1>2, <1>4, <1>6, Zenon
<1>8. DriverShape(driver)
  BY <1>6, Zenon DEF DriverShape
<1>9. ASSUME NEW i \in Invocations
      PROVE  Account(transcript[i], i, session) /\ Holds(transcript[i], i, sent)
  <2>1. transcript[i] = <<>>
    BY <1>1, Zenon
  <2>2. <<>> \in Seq(sent) /\ Len(<<>>) = 0 /\ \A k \in 1..0 : FALSE
    OBVIOUS
  <2>3. Account(<<>>, i, session)
    BY <1>2, <1>4, <2>2, Zenon DEF Account
  <2>4. Holds(<<>>, i, sent)
    BY <2>2, Zenon DEF Holds
  <2> QED BY <2>1, <2>3, <2>4, Zenon
<1>10. DOMAIN transcript = Invocations /\ transcript = [i \in Invocations |-> transcript[i]]
  BY <1>1, Zenon
<1>11. \A g \in sent : SentOK(g, driver)
  BY <1>1, Zenon
<1> QED BY <1>1, <1>5, <1>7, <1>8, <1>9, <1>10, <1>11, Zenon DEF DriverInv

\* A step that changes nothing preserves it.
LEMMA DriverStutters == DriverInv /\ UNCHANGED driverVars => DriverInv'
<1> SUFFICES ASSUME DriverInv, UNCHANGED driverVars PROVE DriverInv'
  OBVIOUS
<1>1. /\ session' = session /\ remainder' = remainder /\ sent' = sent /\ driver' = driver
      /\ transcript' = transcript
  BY Zenon DEF driverVars
<1> QED BY <1>1, Zenon DEF DriverInv

\* What the invariant says of an account is what the property states.
LEMMA AccountsAreExact == DriverInv => TranscriptExact
<1> SUFFICES ASSUME DriverInv, NEW i \in Invocations
             PROVE  LET account == transcript[i]
                        n       == Len(account)
                        sequenceOf(k) == account[k].params.sequence
                    IN  /\ \A k \in 1..n : account[k] \in sent
                        /\ \A k \in 1..(n - 1) : account[k].method = "observation"
                        /\ \A k \in 1..(n - 1) : account[k + 1].method = "observation" =>
                                                    sequenceOf(k) < sequenceOf(k + 1)
                        /\ (n > 0 /\ account[n].method = "completed") <=> i \in session.completed
                        /\ i \in session.completed =>
                              /\ driver[i].done
                              /\ driver[i].last = IF n > 1 THEN sequenceOf(n - 1) ELSE Unsequenced
  BY Zenon DEF TranscriptExact
<1> DEFINE acc == transcript[i]
           n == Len(acc)
<1>1. Account(acc, i, session) /\ Holds(acc, i, sent)
  BY Zenon DEF DriverInv
<1>2. acc \in Seq(sent) /\ n \in Nat
  BY <1>1 DEF Holds
<1>3. \A k \in 1..n : acc[k] \in sent
  BY <1>2
<1> HIDE DEF n, acc
<1> SUFFICES /\ \A k \in 1..(n - 1) : acc[k].method = "observation"
             /\ \A k \in 1..(n - 1) : acc[k + 1].method = "observation" =>
                                        acc[k].params.sequence < acc[k + 1].params.sequence
             /\ (n > 0 /\ acc[n].method = "completed") <=> i \in session.completed
             /\ i \in session.completed =>
                   /\ driver[i].done
                   /\ driver[i].last = IF n > 1 THEN acc[n - 1].params.sequence ELSE Unsequenced
  BY <1>3, Zenon DEF n, acc
<1>4. CASE i \in session.completed
  <2>1. /\ n > 0 /\ acc[n].method = "completed" /\ Observations(acc, n - 1)
        /\ acc[n].params.sequence = LastOf(acc, n - 1)
    BY <1>1, <1>4, Zenon DEF Account, n
  <2>2. n \in 1..n /\ (n - 1 > 0) = (n > 1)
    BY <1>2, <2>1
  <2>3. SentOK(acc[n], driver) /\ acc[n].params.invocation = i
    BY <1>1, <1>3, <2>2, Zenon DEF DriverInv, Holds, n
  <2>4. driver[i].done /\ driver[i].last = acc[n].params.sequence
    BY <2>1, <2>3, Zenon DEF SentOK
  <2>5. driver[i].last = IF n > 1 THEN acc[n - 1].params.sequence ELSE Unsequenced
    BY <2>1, <2>2, <2>4, Zenon DEF LastOf
  <2>6. \A k \in 1..(n - 1) : k = n - 1 \/ k \in 1..((n - 1) - 1)
    BY <1>2
  <2>7. (n - 1) + 1 = n
    BY <1>2
  <2>8. "completed" # "observation"
    OBVIOUS
  <2>9. \A k \in 1..(n - 1) : acc[k + 1].method = "observation" =>
                                 acc[k].params.sequence < acc[k + 1].params.sequence
    BY <2>1, <2>6, <2>7, <2>8, Zenon DEF Observations
  <2> QED BY <1>4, <2>1, <2>4, <2>5, <2>9, Zenon DEF Observations
<1>5. CASE i \in Running(session) /\ i \notin session.completed
  <2>1. Observations(acc, n)
    BY <1>1, <1>5, Zenon DEF Account, n
  <2>2. \A k \in 1..(n - 1) : k \in 1..n
    BY <1>2
  <2>3. n > 0 => n \in 1..n
    BY <1>2
  <2>4. "completed" # "observation"
    OBVIOUS
  <2> QED BY <1>5, <2>1, <2>2, <2>3, <2>4, Zenon DEF Observations
<1>6. CASE i \notin session.completed \union Running(session)
  <2>1. n = 0
    BY <1>1, <1>6, Zenon DEF Account, n
  <2>2. (\A k \in 1..(n - 1) : FALSE) /\ ~(n > 0)
    BY <2>1
  <2> QED BY <1>6, <2>2, Zenon
<1> QED BY <1>4, <1>5, <1>6, Zenon

\* Under every interleaving of what the driver sends with what Core sends and what
\* the stream delivers, Machine.Apply's account of each invocation is exact.
THEOREM TranscriptsAreExact == DriverSpec => []TranscriptExact
<1>1. DriverInit => DriverInv
  BY DriverInitially
<1>2. DriverInv /\ [DriverNext]_driverVars => DriverInv'
  <2> SUFFICES ASSUME DriverInv, [DriverNext]_driverVars PROVE DriverInv'
    OBVIOUS
  <2>1. CASE DriverNext
    BY <2>1, ReceiveKeeps, NotifyKeeps, Zenon DEF DriverNext
  <2>2. CASE UNCHANGED driverVars
    BY <2>2, DriverStutters, Zenon
  <2> QED BY <2>1, <2>2, Zenon
<1>3. DriverInv => TranscriptExact
  BY AccountsAreExact
<1> QED BY <1>1, <1>2, <1>3, PTL DEF DriverSpec

-----------------------------------------------------------------------------
(* One attempt of the raw driver.                                          *)

\* A sequence, of whatever elements.
IsSeq(s) == \E S : s \in Seq(S)

\* The length and the domain of a sequence.
LEMMA SeqFacts ==
    ASSUME NEW s, IsSeq(s)
    PROVE  /\ Len(s) \in Nat /\ DOMAIN s = 1 .. Len(s)
           /\ s = <<>> <=> Len(s) = 0
<1>1. PICK S : s \in Seq(S)
  BY Zenon DEF IsSeq
<1> QED BY <1>1, LenProperties, EmptySeq

\* A function on 1..n is a sequence.
LEMMA SeqIs ==
    ASSUME NEW n \in Nat, NEW s, s = [i \in 1 .. n |-> s[i]]
    PROVE  IsSeq(s) /\ Len(s) = n
<1> DEFINE S == {s[i] : i \in 1 .. n}
<1>1. s \in [1 .. n -> S]
  BY Zenon
<1>2. s \in Seq(S) /\ Len(s) = n
  <2> HIDE DEF S
  <2> QED BY <1>1
<1> QED BY <1>2, Zenon DEF IsSeq

\* The other way round.
LEMMA SeqMap ==
    ASSUME NEW s, IsSeq(s)
    PROVE  s = [i \in 1 .. Len(s) |-> s[i]]
<1>1. PICK S : s \in Seq(S)
  BY Zenon DEF IsSeq
<1> QED BY <1>1

\* Tuples.
LEMMA Tuples ==
    /\ IsSeq(<<>>) /\ Len(<<>>) = 0
    /\ \A a : IsSeq(<<a>>) /\ Len(<<a>>) = 1 /\ <<a>>[1] = a
    /\ \A a, b : IsSeq(<<a, b>>) /\ Len(<<a, b>>) = 2 /\ <<a, b>>[1] = a /\ <<a, b>>[2] = b
<1>1. <<>> \in Seq({}) /\ Len(<<>>) = 0
  BY EmptySeq, Zenon
<1>2. ASSUME NEW a PROVE <<a>> \in Seq({a}) /\ Len(<<a>>) = 1 /\ <<a>>[1] = a
  OBVIOUS
<1>3. ASSUME NEW a, NEW b
      PROVE  <<a, b>> \in Seq({a, b}) /\ Len(<<a, b>>) = 2 /\ <<a, b>>[1] = a /\ <<a, b>>[2] = b
  OBVIOUS
<1>4. IsSeq(<<>>)
  BY <1>1, Zenon DEF IsSeq
<1>5. \A a : IsSeq(<<a>>)
  BY <1>2, Zenon DEF IsSeq
<1>6. \A a, b : IsSeq(<<a, b>>)
  BY <1>3, Zenon DEF IsSeq
<1> QED BY <1>1, <1>2, <1>3, <1>4, <1>5, <1>6, Zenon

Grown(s, e, t) == /\ IsSeq(t) /\ Len(t) = Len(s) + 1
                  /\ \A i \in 1 .. Len(s) : t[i] = s[i]
                  /\ t[Len(s) + 1] = e

\* What Append does.
LEMMA AppendGrows ==
    ASSUME NEW s, IsSeq(s), NEW e
    PROVE  Grown(s, e, Append(s, e))
<1>1. PICK S : s \in Seq(S)
  BY Zenon DEF IsSeq
<1> DEFINE T == S \union {e}
<1>2. s \in Seq(T) /\ e \in T
  BY <1>1, SeqMonotonic, Zenon
<1>3. /\ Append(s, e) \in Seq(T) /\ Len(Append(s, e)) = Len(s) + 1
      /\ \A i \in 1 .. Len(s) : Append(s, e)[i] = s[i]
      /\ Append(s, e)[Len(s) + 1] = e
  <2> HIDE DEF T
  <2> QED BY ONLY <1>2, AppendProperties
<1> QED BY <1>3, Zenon DEF IsSeq, Grown

JoinOf(s, t, u) == /\ IsSeq(u) /\ Len(u) = Len(s) + Len(t)
                   /\ \A i \in 1 .. Len(s) : u[i] = s[i]
                   /\ \A i \in 1 .. Len(t) : u[Len(s) + i] = t[i]

\* What a concatenation holds.
LEMMA Joined ==
    ASSUME NEW s, IsSeq(s), NEW t, IsSeq(t)
    PROVE  JoinOf(s, t, s \o t)
<1>1. PICK S : s \in Seq(S)
  BY Zenon DEF IsSeq
<1>2. PICK T : t \in Seq(T)
  BY Zenon DEF IsSeq
<1> DEFINE U == S \union T
<1>3. s \in Seq(U) /\ t \in Seq(U)
  BY <1>1, <1>2, SeqMonotonic, Zenon
<1> HIDE DEF U
<1>4. /\ s \o t \in Seq(U) /\ Len(s \o t) = Len(s) + Len(t)
      /\ \A i \in 1 .. Len(s) + Len(t) : (s \o t)[i] = IF i <= Len(s) THEN s[i] ELSE t[i - Len(s)]
  BY <1>3, ConcatProperties, Zenon
<1>5. Len(s) \in Nat /\ Len(t) \in Nat
  BY SeqFacts, Zenon
<1>6. ASSUME NEW i \in 1 .. Len(s) PROVE (s \o t)[i] = s[i]
  <2>1. i \in 1 .. Len(s) + Len(t) /\ i <= Len(s)
    BY ONLY <1>5, i \in 1 .. Len(s), SMTT(30)
  <2> QED BY <1>4, <2>1, Zenon
<1>7. ASSUME NEW i \in 1 .. Len(t) PROVE (s \o t)[Len(s) + i] = t[i]
  <2>1. Len(s) + i \in 1 .. Len(s) + Len(t) /\ ~(Len(s) + i <= Len(s)) /\ Len(s) + i - Len(s) = i
    BY ONLY <1>5, i \in 1 .. Len(t), SMT
  <2>2. (s \o t)[Len(s) + i] = IF Len(s) + i <= Len(s) THEN s[Len(s) + i] ELSE t[Len(s) + i - Len(s)]
    BY ONLY <1>4, <2>1
  <2> QED BY ONLY <2>1, <2>2
<1> QED BY <1>4, <1>6, <1>7, Zenon DEF IsSeq, JoinOf

\* A piece of a sequence.
LEMMA PieceIsSeq ==
    ASSUME NEW s, IsSeq(s), NEW m \in Nat, NEW n \in Nat, 1 <= m, n <= Len(s)
    PROVE  IsSeq(SubSeq(s, m, n))
<1>1. PICK S : s \in Seq(S)
  BY Zenon DEF IsSeq
<1>2. \A i \in m .. n : s[i] \in S
  BY <1>1
<1>3. m \in Int /\ n \in Int
  OBVIOUS
<1>4. SubSeq(s, m, n) \in Seq(S)
  BY ONLY <1>2, <1>3, SubSeqProperties, SMTT(30)
<1> QED BY <1>4, Zenon DEF IsSeq

\* A sequence with one element replaced.
LEMMA ExceptIsSeq ==
    ASSUME NEW s, IsSeq(s), NEW i, NEW e
    PROVE  IsSeq([s EXCEPT ![i] = e])
<1> DEFINE t == [s EXCEPT ![i] = e]
<1>1. Len(s) \in Nat /\ s = [j \in 1 .. Len(s) |-> s[j]]
  BY SeqFacts, SeqMap, Zenon
<1>2. t = [j \in 1 .. Len(s) |-> t[j]]
  BY <1>1, Zenon
<1> HIDE DEF t
<1>3. IsSeq(t)
  BY <1>1, <1>2, SeqIs, Zenon
<1> QED BY <1>3, Zenon DEF t

\* Two sequences that agree element by element.
LEMMA SameSeq ==
    ASSUME NEW s, IsSeq(s), NEW t, IsSeq(t), Len(s) = Len(t),
           \A i \in 1 .. Len(s) : s[i] = t[i]
    PROVE  s = t
<1>1. s = [i \in 1 .. Len(s) |-> s[i]] /\ t = [i \in 1 .. Len(t) |-> t[i]]
  BY SeqMap, Zenon
<1> QED BY <1>1, Zenon

\* A record with a sequence of events: an exchange, or a response.
Carries(x) == /\ x = [f \in DOMAIN x |-> x[f]]
              /\ "events" \in DOMAIN x /\ IsSeq(x.events)

\* Other events.
LEMMA EventsReplaced ==
    ASSUME NEW x, Carries(x), NEW s, IsSeq(s)
    PROVE  Carries([x EXCEPT !.events = s])
BY Zenon DEF Carries

\* Another field.
LEMMA EventsKeptBy ==
    ASSUME NEW x, Carries(x), NEW f, f # "events", NEW v
    PROVE  Carries([x EXCEPT ![f] = v])
<1> DEFINE y == [x EXCEPT ![f] = v]
<1>1. /\ x = [g \in DOMAIN x |-> x[g]] /\ "events" \in DOMAIN x /\ IsSeq(x["events"])
  BY Zenon DEF Carries
<1>2. DOMAIN y = DOMAIN x /\ y = [g \in DOMAIN y |-> y[g]] /\ y["events"] = x["events"]
  BY <1>1, Zenon
<1> HIDE DEF y
<1>3. Carries(y)
  BY <1>1, <1>2, Zenon DEF Carries
<1> QED BY <1>3, Zenon DEF y

\* Events kept at some places.
LEMMA KeepCarries ==
    ASSUME NEW x, Carries(x), NEW kept \in SUBSET DOMAIN x.events
    PROVE  Carries(keepEvents(x, kept))
<1> DEFINE s == [i \in 1 .. Cardinality(kept) |->
                   x.events[CHOOSE k \in kept : Cardinality({j \in kept : j < k}) = i - 1]]
<1>1. Len(x.events) \in Nat /\ DOMAIN x.events = 1 .. Len(x.events)
  BY SeqFacts, Zenon DEF Carries
<1>2. IsFiniteSet(kept)
  <2>1. IsFiniteSet(1 .. Len(x.events))
    BY ONLY <1>1, FS_Interval
  <2> QED BY <1>1, <2>1, FS_Subset, Zenon
<1>3. Cardinality(kept) \in Nat
  BY <1>2, FS_CardinalityType, Zenon
<1>4. s = [i \in 1 .. Cardinality(kept) |-> s[i]]
  OBVIOUS
<1>5. keepEvents(x, kept) = [x EXCEPT !.events = s]
  BY Zenon DEF keepEvents
<1> HIDE DEF s
<1>6. IsSeq(s)
  BY <1>3, <1>4, SeqIs, Zenon
<1>7. Carries([x EXCEPT !.events = s])
  BY <1>6, EventsReplaced, Zenon
<1> QED BY <1>5, <1>7, Zenon

\* Events added before one of them.
LEMMA InsertCarries ==
    ASSUME NEW x, Carries(x), NEW s, IsSeq(s), NEW i \in 1 .. Len(x.events) + 1
    PROVE  Carries(insertEvents(x, i, s))
<1> DEFINE n == Len(x.events)
           a == SubSeq(x.events, 1, i - 1)
           b == SubSeq(x.events, i, n)
<1>1. IsSeq(x.events) /\ n \in Nat
  BY SeqFacts, Zenon DEF Carries
<1>2. i - 1 \in Nat /\ i \in Nat /\ 1 \in Nat /\ 1 <= 1 /\ 1 <= i /\ i - 1 <= n /\ n <= n
  BY <1>1
<1>3. IsSeq(a) /\ IsSeq(b)
  <2> HIDE DEF n
  <2>1. n = Len(x.events)
    BY DEF n
  <2>2. IsSeq(a)
    BY <1>1, <1>2, <2>1, PieceIsSeq, Zenon
  <2>3. IsSeq(b)
    BY <1>1, <1>2, <2>1, PieceIsSeq, Zenon
  <2> QED BY <2>2, <2>3, Zenon
<1>4. insertEvents(x, i, s) = [x EXCEPT !.events = a \o s \o b]
  BY Zenon DEF insertEvents
<1> HIDE DEF a, b, n
<1>5. IsSeq(a \o s)
  BY <1>3, Joined, Zenon DEF JoinOf
<1>6. IsSeq(a \o s \o b)
  BY <1>3, <1>5, Joined, Zenon DEF JoinOf
<1>7. Carries([x EXCEPT !.events = a \o s \o b])
  BY <1>6, EventsReplaced, Zenon
<1> QED BY <1>4, <1>7, Zenon

\* A sequence with an event somewhere.
HasEvent(s, e) == IsSeq(s) /\ \E i \in 1 .. Len(s) : s[i] = e

\* Where the last event of a tuple is.
LEMMA LastOfTuple ==
    /\ \A a, b : HasEvent(<<a, b>>, a) /\ HasEvent(<<a, b>>, b)
    /\ \A a, b, c : HasEvent(<<a, b, c>>, c)
    /\ \A a, b, c, d, e, f : HasEvent(<<a, b, c, d, e, f>>, f)
<1>1. ASSUME NEW a, NEW b PROVE HasEvent(<<a, b>>, a) /\ HasEvent(<<a, b>>, b)
  <2>1. IsSeq(<<a, b>>) /\ Len(<<a, b>>) = 2 /\ <<a, b>>[1] = a /\ <<a, b>>[2] = b
    BY Tuples, Zenon
  <2>2. 1 \in 1 .. 2 /\ 2 \in 1 .. 2
    OBVIOUS
  <2> QED BY <2>1, <2>2, Zenon DEF HasEvent
<1>2. ASSUME NEW a, NEW b, NEW c PROVE HasEvent(<<a, b, c>>, c)
  <2>1. <<a, b, c>> \in Seq({a, b, c}) /\ Len(<<a, b, c>>) = 3 /\ <<a, b, c>>[3] = c
    OBVIOUS
  <2>2. 3 \in 1 .. 3
    OBVIOUS
  <2> QED BY <2>1, <2>2, Zenon DEF HasEvent, IsSeq
<1>3. ASSUME NEW a, NEW b, NEW c, NEW d, NEW e, NEW f PROVE HasEvent(<<a, b, c, d, e, f>>, f)
  <2>1. /\ <<a, b, c, d, e, f>> \in Seq({a, b, c, d, e, f}) /\ Len(<<a, b, c, d, e, f>>) = 6
        /\ <<a, b, c, d, e, f>>[6] = f
    OBVIOUS
  <2>2. 6 \in 1 .. 6
    OBVIOUS
  <2> QED BY <2>1, <2>2, Zenon DEF HasEvent, IsSeq
<1> QED BY <1>1, <1>2, <1>3, Zenon

\* What a part holds the whole holds.
LEMMA HasEventJoined ==
    ASSUME NEW s, NEW t, NEW e, IsSeq(s), IsSeq(t), HasEvent(s, e) \/ HasEvent(t, e)
    PROVE  HasEvent(s \o t, e)
<1>1. /\ IsSeq(s \o t) /\ Len(s \o t) = Len(s) + Len(t)
      /\ \A i \in 1 .. Len(s) : (s \o t)[i] = s[i]
      /\ \A i \in 1 .. Len(t) : (s \o t)[Len(s) + i] = t[i]
  <2>1. JoinOf(s, t, s \o t)
    BY Joined, Zenon
  <2> QED BY <2>1, Zenon DEF JoinOf
<1>2. Len(s) \in Nat /\ Len(t) \in Nat
  BY SeqFacts, Zenon
<1>3. CASE HasEvent(s, e)
  <2>1. PICK i \in 1 .. Len(s) : s[i] = e
    BY <1>3, Zenon DEF HasEvent
  <2>2. i \in 1 .. Len(s) + Len(t)
    BY ONLY <1>2, i \in 1 .. Len(s), SMTT(30)
  <2> QED BY <1>1, <2>1, <2>2, Zenon DEF HasEvent
<1>4. CASE HasEvent(t, e)
  <2>1. PICK i \in 1 .. Len(t) : t[i] = e
    BY <1>4, Zenon DEF HasEvent
  <2>2. Len(s) + i \in 1 .. Len(s) + Len(t)
    BY ONLY <1>2, i \in 1 .. Len(t), SMTT(30)
  <2> QED BY <1>1, <2>1, <2>2, Zenon DEF HasEvent
<1> QED BY <1>3, <1>4, Zenon

\* The middle and the ends of a stream.
LEMMA ThreeParts ==
    ASSUME NEW a, NEW b, NEW c, NEW e, IsSeq(a), IsSeq(b), IsSeq(c),
           HasEvent(a, e) \/ HasEvent(c, e)
    PROVE  HasEvent(a \o b \o c, e)
<1>1. IsSeq(a \o b)
  BY Joined, Zenon DEF JoinOf
<1>2. HasEvent(a, e) => HasEvent(a \o b, e)
  BY HasEventJoined, Zenon
<1> QED BY <1>1, <1>2, HasEventJoined, Zenon

Terminal(s) == \E e : HasEvent(s, e) /\ e.terminal
Added(s) == \E e : HasEvent(s, e) /\ e.type = "response.output_item.added"

\* The Chat stream has its end marker.
LEMMA ChatStream ==
    ASSUME NEW scenario PROVE Terminal(chatStream(scenario))
<1> DEFINE end == [chatChunk EXCEPT !.data = "done", !.terminal = TRUE]
<1>1. end.terminal
  BY DEF chatChunk, Bare
<1>2. \E a, b, c, d, f, g : chatStream(scenario) =
        <<a>> \o (IF scenario = "text" THEN <<b>> ELSE <<c, d>>) \o <<f, g, end>>
  BY Zenon DEF chatStream
<1> HIDE DEF end
<1>3. PICK a, b, c, d, f, g : chatStream(scenario) =
        <<a>> \o (IF scenario = "text" THEN <<b>> ELSE <<c, d>>) \o <<f, g, end>>
  BY <1>2, Zenon
<1>4. HasEvent(<<f, g, end>>, end)
  BY LastOfTuple, Zenon
<1>5. IsSeq(<<a>>) /\ IsSeq(IF scenario = "text" THEN <<b>> ELSE <<c, d>>) /\ IsSeq(<<f, g, end>>)
  BY <1>4, Tuples, Zenon DEF HasEvent
<1>6. HasEvent(<<a>> \o (IF scenario = "text" THEN <<b>> ELSE <<c, d>>) \o <<f, g, end>>, end)
  BY <1>4, <1>5, ThreeParts, Zenon
<1>7. HasEvent(chatStream(scenario), end)
  BY <1>3, <1>6, Zenon
<1> QED BY <1>1, <1>7, Zenon DEF Terminal

\* The Responses stream has an item and its end.
LEMMA ResponsesStream ==
    ASSUME NEW scenario
    PROVE  Terminal(responsesStream(scenario)) /\ Added(responsesStream(scenario))
<1> DEFINE end == [Named("response.completed") EXCEPT
                     !.reason = "completed", !.usage = FixtureUsage, !.output = "array",
                     !.terminal = TRUE]
           item == [[[Named("response.output_item.added") EXCEPT !.item = "item_ref", !.index = 0]
                      EXCEPT !.kind = IF scenario = "text" THEN "message" ELSE "function_call",
                             !.call = IF scenario = "text" THEN "" ELSE "call_ref"]
                      EXCEPT !.arguments = IF scenario = "text" THEN Missing
                                           ELSE Arguments("string", <<>>)]
<1>1. end.terminal
  BY DEF Named, Bare
<1>2. item.type = "response.output_item.added"
  BY DEF Named, Bare
<1>3. \E a, b1, b2, b3, b4, c, d, f : responsesStream(scenario) =
        <<a, item>> \o (IF scenario = "text" THEN <<b1, b2, b3, b4>> ELSE <<c, d>>) \o <<f, end>>
  BY ZenonT(40) DEF responsesStream
<1> HIDE DEF end, item
<1>4. PICK a, b1, b2, b3, b4, c, d, f : responsesStream(scenario) =
        <<a, item>> \o (IF scenario = "text" THEN <<b1, b2, b3, b4>> ELSE <<c, d>>) \o <<f, end>>
  BY <1>3, Zenon
<1> DEFINE middle == IF scenario = "text" THEN <<b1, b2, b3, b4>> ELSE <<c, d>>
<1>5. HasEvent(<<f, end>>, end) /\ HasEvent(<<a, item>>, item)
  BY LastOfTuple, Zenon
<1>6. IsSeq(<<a, item>>) /\ IsSeq(<<f, end>>) /\ IsSeq(middle)
  <2>1. <<b1, b2, b3, b4>> \in Seq({b1, b2, b3, b4})
    OBVIOUS
  <2>2. IsSeq(<<b1, b2, b3, b4>>)
    BY <2>1, Zenon DEF IsSeq
  <2> QED BY <2>2, Tuples, Zenon
<1>7. responsesStream(scenario) = <<a, item>> \o middle \o <<f, end>>
  BY <1>4, Zenon
<1> HIDE DEF middle
<1>8. HasEvent(<<a, item>> \o middle \o <<f, end>>, end)
  BY <1>5, <1>6, ThreeParts, Zenon
<1>9. HasEvent(<<a, item>> \o middle \o <<f, end>>, item)
  BY <1>5, <1>6, ThreeParts, Zenon
<1>10. HasEvent(responsesStream(scenario), end) /\ HasEvent(responsesStream(scenario), item)
  BY <1>7, <1>8, <1>9, Zenon
<1> QED BY <1>1, <1>2, <1>10, Zenon DEF Terminal, Added

\* The Anthropic stream has its end.
LEMMA AnthropicStream ==
    ASSUME NEW scenario PROVE Terminal(anthropicStream(scenario))
<1> DEFINE end == [Named("message_stop") EXCEPT !.terminal = TRUE]
<1>1. end.terminal
  BY DEF Named, Bare
<1>2. \E a, b, c, d, f : anthropicStream(scenario) = <<a, b, c, d, f, end>>
  BY Zenon DEF anthropicStream
<1> HIDE DEF end
<1>3. PICK a, b, c, d, f : anthropicStream(scenario) = <<a, b, c, d, f, end>>
  BY <1>2, Zenon
<1>4. HasEvent(<<a, b, c, d, f, end>>, end)
  BY LastOfTuple, Zenon
<1>5. HasEvent(anthropicStream(scenario), end)
  BY <1>3, <1>4, Zenon
<1> QED BY <1>1, <1>5, Zenon DEF Terminal

\* An exchange: a streamed one has a terminal event, a streamed Responses one an item.
Entire(x) == /\ Carries(x)
             /\ x.streaming => Terminal(x.events)
             /\ x.streaming /\ x.protocol = "responses" => Added(x.events)

\* The three reference exchanges.
LEMMA References ==
    ASSUME NEW protocol, NEW scenario, NEW streaming \in BOOLEAN, NEW document, NEW events,
           Terminal(events), protocol = "responses" => Added(events)
    PROVE  Entire(Reference(protocol, scenario, streaming, document, events))
<1> DEFINE x == Reference(protocol, scenario, streaming, document, events)
<1>1. /\ x = [f \in DOMAIN x |-> x[f]] /\ "events" \in DOMAIN x
      /\ x.events = (IF streaming THEN events ELSE <<>>)
      /\ x.streaming = streaming /\ x.protocol = protocol
  BY DEF Reference
<1> HIDE DEF x
<1>2. IsSeq(events)
  BY Zenon DEF Terminal, HasEvent
<1>3. IsSeq(x.events)
  BY <1>1, <1>2, Tuples, Zenon
<1>4. Carries(x)
  BY <1>1, <1>3, Zenon DEF Carries
<1>5. Entire(x)
  BY <1>1, <1>4, Zenon DEF Entire
<1> QED BY <1>5, Zenon DEF x

\* What the reference server answers.
LEMMA Built ==
    ASSUME NEW scenario, NEW streaming \in BOOLEAN
    PROVE  /\ Entire(buildChat(scenario, streaming))
           /\ Entire(buildResponses(scenario, streaming))
           /\ Entire(buildAnthropic(scenario, streaming))
<1>1. "chat" # "responses" /\ "anthropic" # "responses"
  OBVIOUS
<1>2. Entire(buildChat(scenario, streaming))
  <2>1. Entire(Reference("chat", scenario, streaming, chatResponse(scenario),
                         chatStream(scenario)))
    BY <1>1, ChatStream, References, Zenon
  <2> QED BY <2>1, Zenon DEF buildChat
<1>3. Entire(buildResponses(scenario, streaming))
  <2>1. Entire(Reference("responses", scenario, streaming, responsesResponse(scenario),
                         responsesStream(scenario)))
    BY ResponsesStream, References, Zenon
  <2> QED BY <2>1, Zenon DEF buildResponses
<1>4. Entire(buildAnthropic(scenario, streaming))
  <2>1. Entire(Reference("anthropic", scenario, streaming, anthropicResponse(scenario),
                         anthropicStream(scenario)))
    BY <1>1, AnthropicStream, References, Zenon
  <2> QED BY <2>1, Zenon DEF buildAnthropic
<1> QED BY <1>2, <1>3, <1>4, Zenon

\* The first of some places is one of them.
LEMMA FirstPlace ==
    ASSUME NEW x, Carries(x), NEW S \in SUBSET DOMAIN x.events, S # {}
    PROVE  Min(S) \in 1 .. Len(x.events)
<1>1. DOMAIN x.events = 1 .. Len(x.events) /\ Len(x.events) \in Nat
  BY SeqFacts, Zenon DEF Carries
<1>2. S \in SUBSET Nat
  BY <1>1
<1>3. PICK m \in S : \A k \in S : m <= k
  BY <1>2, LeastNat, Zenon
<1>4. Min(S) \in S
  BY <1>3, Zenon DEF Min
<1> QED BY <1>1, <1>4, Zenon

\* Where a streamed exchange ends.
LEMMA TerminalPlace ==
    ASSUME NEW x, Entire(x), x.streaming
    PROVE  firstTerminalIndex(x) \in 1 .. Len(x.events)
<1> DEFINE S == {i \in DOMAIN x.events : x.events[i].terminal}
<1>1. PICK e : HasEvent(x.events, e) /\ e.terminal
  BY Zenon DEF Entire, Terminal
<1>2. PICK i \in 1 .. Len(x.events) : x.events[i] = e
  BY <1>1, Zenon DEF HasEvent
<1>3. DOMAIN x.events = 1 .. Len(x.events)
  BY SeqFacts, Zenon DEF Entire, Carries
<1>4. i \in S /\ S \in SUBSET DOMAIN x.events
  BY <1>1, <1>2, <1>3, Zenon
<1>5. firstTerminalIndex(x) = Min(S)
  BY Zenon DEF firstTerminalIndex, Where
<1> HIDE DEF S
<1>6. Min(S) \in 1 .. Len(x.events)
  BY <1>4, FirstPlace, Zenon DEF Entire
<1> QED BY <1>5, <1>6, Zenon

\* Events before the end of a streamed exchange.
LEMMA BeforeTheEnd ==
    ASSUME NEW x, Entire(x), x.streaming, NEW s, IsSeq(s)
    PROVE  Carries(insertEvents(x, firstTerminalIndex(x), s))
<1>1. Carries(x)
  BY Zenon DEF Entire
<1>2. Len(x.events) \in Nat
  BY <1>1, SeqFacts, Zenon DEF Carries
<1>3. firstTerminalIndex(x) \in 1 .. Len(x.events)
  BY TerminalPlace, Zenon
<1>4. firstTerminalIndex(x) \in 1 .. Len(x.events) + 1
  BY ONLY <1>2, <1>3
<1> QED BY <1>1, <1>4, InsertCarries, Zenon

\* An exchange with another field of one event, or of the document.
EventChanged(x, f, y) == \E i, v : y = [x EXCEPT !.events[i][f] = v]
DocumentChanged(x, f, y) == \E v : y = [x EXCEPT !.document[f] = v]

\* Another field of the event at one place.
LEMMA FieldReplaced ==
    ASSUME NEW x, Carries(x), NEW f, NEW y, EventChanged(x, f, y)
    PROVE  Carries(y)
<1>1. PICK i, v : y = [x EXCEPT !.events[i][f] = v]
  BY Zenon DEF EventChanged
<1> DEFINE e == [x.events[i] EXCEPT ![f] = v]
           s == [x.events EXCEPT ![i] = e]
<1>2. [x EXCEPT !.events[i][f] = v] = [x EXCEPT !.events = s]
  BY Zenon
<1>3. IsSeq(x.events)
  BY Zenon DEF Carries
<1> HIDE DEF e
<1>4. IsSeq(s)
  BY <1>3, ExceptIsSeq, Zenon
<1> HIDE DEF s
<1>5. Carries([x EXCEPT !.events = s])
  BY <1>4, EventsReplaced, Zenon
<1>6. y = [x EXCEPT !.events = s]
  BY <1>1, <1>2
<1> QED BY <1>5, <1>6, Zenon

\* Another field of the document.
LEMMA DocumentReplaced ==
    ASSUME NEW x, Carries(x), NEW f, NEW y, DocumentChanged(x, f, y)
    PROVE  Carries(y)
<1>1. PICK v : y = [x EXCEPT !.document[f] = v]
  BY Zenon DEF DocumentChanged
<1> DEFINE d == [x.document EXCEPT ![f] = v]
<1>2. [x EXCEPT !.document[f] = v] = [x EXCEPT !.document = d]
  BY Zenon
<1>3. "document" # "events"
  OBVIOUS
<1> HIDE DEF d
<1>4. Carries([x EXCEPT !["document"] = d])
  BY <1>3, EventsKeptBy, Zenon
<1>5. y = [x EXCEPT !["document"] = d]
  BY <1>1, <1>2
<1> QED BY <1>4, <1>5, Zenon

\* Mutations that change a field of one event or of the document.
LEMMA FieldMutations ==
    ASSUME NEW x, Carries(x), x.protocol \in Protocols
    PROVE  /\ \A y \in argumentsObject(x) : Carries(y)
           /\ \A y \in missingOutputIndex(x) : Carries(y)
           /\ \A y \in invalidFinishReason(x) : Carries(y)
           /\ \A y \in changeToolCallID(x) : Carries(y)
           /\ \A y \in nullCompletedOutput(x) : Carries(y)
           /\ \A y \in inconsistentUsage(x) : Carries(y)
<1>1. \A y \in argumentsObject(x) : EventChanged(x, "arguments", y) \/ DocumentChanged(x, "calls", y)
  BY Zenon DEF argumentsObject, EventChanged, DocumentChanged
<1>2. \A y \in missingOutputIndex(x) : EventChanged(x, "index", y)
  BY Zenon DEF missingOutputIndex, EventChanged
<1>3. \A y \in invalidFinishReason(x) : EventChanged(x, "reason", y) \/ DocumentChanged(x, "reason", y)
  BY Zenon DEF invalidFinishReason, EventChanged, DocumentChanged
<1>4. \A y \in changeToolCallID(x) : y = x \/ EventChanged(x, "call", y)
  BY Zenon DEF changeToolCallID, Protocols, EventChanged
<1>5. \A y \in nullCompletedOutput(x) : EventChanged(x, "output", y)
  BY Zenon DEF nullCompletedOutput, EventChanged
<1>6. \A y \in inconsistentUsage(x) : EventChanged(x, "usage", y) \/ DocumentChanged(x, "usage", y)
  <2> DEFINE Damaged(u) == IF x.protocol = "anthropic" THEN [u EXCEPT !.output = 999]
                           ELSE [u EXCEPT !.total = 1]
             at == Max({0} \union Where(x, LAMBDA e : /\ e.usage # NoUsage
                                                      /\ e.event # "message_start"))
  <2>1. inconsistentUsage(x) = IF x.streaming
          THEN {[x EXCEPT !.events[at].usage = Damaged(x.events[at].usage)]}
          ELSE {[x EXCEPT !.document.usage = Damaged(x.document.usage)]}
    BY Zenon DEF inconsistentUsage
  <2> HIDE DEF Damaged, at
  <2> QED BY <2>1, Zenon DEF EventChanged, DocumentChanged
<1>7. \A y, f : DocumentChanged(x, f, y) => Carries(y)
  BY DocumentReplaced, Zenon
<1>8. \A y, f : EventChanged(x, f, y) => Carries(y)
  BY FieldReplaced, Zenon
<1> QED BY <1>1, <1>2, <1>3, <1>4, <1>5, <1>6, <1>7, <1>8, Zenon

\* Mutations that add events, or leave some out.
LEMMA ListMutations ==
    ASSUME NEW x, Entire(x), x.protocol \in Protocols
    PROVE  /\ \A y \in duplicateOutputIndex(x) : Carries(y)
           /\ \A y \in dropStreamingToolCall(x) : Carries(y)
           /\ \A y \in missingTerminal(x) : Carries(y)
           /\ \A y \in duplicateTerminal(x) : Carries(y)
           /\ \A y \in injectUnknownEvent(x) : Carries(y)
           /\ \A y \in unclosedReasoning(x) : Carries(y)
           /\ \A y \in truncatedUTF8(x) : Carries(y)
<1>0. Carries(x) /\ IsSeq(x.events)
  BY Zenon DEF Entire, Carries
<1>f. Len(x.events) \in Nat /\ DOMAIN x.events = 1 .. Len(x.events)
  BY <1>0, SeqFacts, Zenon
<1>1. ASSUME NEW y \in duplicateOutputIndex(x) PROVE Carries(y)
  <2> DEFINE S == {i \in DOMAIN x.events : x.events[i].type = "response.output_item.added"}
             at == Min(S)
             copy == [x.events[at] EXCEPT !.item = "item_duplicate"]
  <2>1. x.streaming /\ x.protocol = "responses" /\ y = insertEvents(x, at + 1, <<copy>>)
    BY <1>1, Zenon DEF duplicateOutputIndex, StreamedResponses, Where
  <2>2. PICK e : HasEvent(x.events, e) /\ e.type = "response.output_item.added"
    BY <2>1, Zenon DEF Entire, Added
  <2>3. PICK i \in 1 .. Len(x.events) : x.events[i] = e
    BY <2>2, Zenon DEF HasEvent
  <2>4. i \in S /\ S \in SUBSET DOMAIN x.events
    BY <1>f, <2>2, <2>3, Zenon
  <2> HIDE DEF S
  <2>5. at \in 1 .. Len(x.events)
    BY <1>0, <2>4, FirstPlace, Zenon
  <2> HIDE DEF at
  <2>6. at + 1 \in 1 .. Len(x.events) + 1
    BY ONLY <1>f, <2>5
  <2> HIDE DEF copy
  <2>7. IsSeq(<<copy>>)
    BY Tuples, Zenon
  <2> QED BY <1>0, <2>1, <2>6, <2>7, InsertCarries, Zenon
<1>2. ASSUME NEW y \in dropStreamingToolCall(x) PROVE Carries(y)
  <2> DEFINE S == {i \in DOMAIN x.events : ~isToolEvent(x.protocol, x.events[i])}
  <2>1. y = keepEvents(x, S)
    BY <1>2, Zenon DEF dropStreamingToolCall, Unless, Where
  <2>2. S \in SUBSET DOMAIN x.events
    BY Zenon
  <2> HIDE DEF S
  <2> QED BY <1>0, <2>1, <2>2, KeepCarries, Zenon
<1>3. ASSUME NEW y \in missingTerminal(x) PROVE Carries(y)
  <2> DEFINE S == {i \in DOMAIN x.events : ~x.events[i].terminal}
  <2>1. y = keepEvents(x, S)
    BY <1>3, Zenon DEF missingTerminal, Unless, Where
  <2>2. S \in SUBSET DOMAIN x.events
    BY Zenon
  <2> HIDE DEF S
  <2> QED BY <1>0, <2>1, <2>2, KeepCarries, Zenon
<1>4. ASSUME NEW y \in duplicateTerminal(x) PROVE Carries(y)
  <2>1. PICK e : y = [x EXCEPT !.events = Append(x.events, e)]
    BY <1>4, Zenon DEF duplicateTerminal
  <2>2. IsSeq(Append(x.events, e))
    BY <1>0, AppendGrows, Zenon DEF Grown
  <2>3. Carries([x EXCEPT !.events = Append(x.events, e)])
    BY <1>0, <2>2, EventsReplaced, Zenon
  <2> QED BY <2>1, <2>3, Zenon
<1>5. ASSUME NEW y \in injectUnknownEvent(x) PROVE Carries(y)
  <2>1. PICK e : x.streaming /\ y = insertEvents(x, firstTerminalIndex(x), <<e>>)
    BY <1>5, Zenon DEF injectUnknownEvent
  <2>2. IsSeq(<<e>>)
    BY Tuples, Zenon
  <2> QED BY <2>1, <2>2, BeforeTheEnd, Zenon
<1>6. ASSUME NEW y \in unclosedReasoning(x) PROVE Carries(y)
  <2>1. x.streaming /\ \/ \E e : y = insertEvents(x, firstTerminalIndex(x), <<e>>)
                       \/ \E e, f : y = insertEvents(x, firstTerminalIndex(x), <<e, f>>)
    BY <1>6, Zenon DEF unclosedReasoning
  <2>2. \A e, f : IsSeq(<<e>>) /\ IsSeq(<<e, f>>)
    BY Tuples, Zenon
  <2> QED BY <2>1, <2>2, BeforeTheEnd, Zenon
<1>7. ASSUME NEW y \in truncatedUTF8(x) PROVE Carries(y)
  <2>1. PICK e : x.streaming /\ y = insertEvents(x, firstTerminalIndex(x), <<e>>)
    BY <1>7, Zenon DEF truncatedUTF8
  <2>2. IsSeq(<<e>>)
    BY Tuples, Zenon
  <2> QED BY <2>1, <2>2, BeforeTheEnd, Zenon
<1> QED BY <1>1, <1>2, <1>3, <1>4, <1>5, <1>6, <1>7, Zenon

\* Every mutation of the catalog.
LEMMA MutationsCarry ==
    ASSUME NEW x, Entire(x), x.protocol \in Protocols, NEW id \in DOMAIN Catalog
    PROVE  \A y \in applyMutation(id, x) : Carries(y)
<1>1. DOMAIN Catalog =
        {"arguments_object", "missing_index", "duplicate_index", "dropped_tool_call",
         "invalid_reason", "missing_terminal", "duplicate_terminal", "call_id_changed",
         "unknown_event", "unclosed_reasoning", "usage_inconsistent", "truncated_utf8",
         "null_output"}
  BY DEF Catalog
<1>2. Carries(x)
  BY Zenon DEF Entire
<1>3. applyMutation(id, x) \in
        {argumentsObject(x), missingOutputIndex(x), duplicateOutputIndex(x),
         dropStreamingToolCall(x), invalidFinishReason(x), missingTerminal(x),
         duplicateTerminal(x), changeToolCallID(x), injectUnknownEvent(x),
         unclosedReasoning(x), inconsistentUsage(x), truncatedUTF8(x), nullCompletedOutput(x)}
  BY <1>1 DEF applyMutation
<1> QED BY <1>2, <1>3, FieldMutations, ListMutations, Zenon

\* The answer of the reference or the mutant server.
LEMMA ServedCarries ==
    ASSUME NEW protocol \in Protocols, NEW scenario, NEW streaming \in BOOLEAN,
           NEW id \in DOMAIN Catalog \union {"none"}
    PROVE  Carries(ServeHTTP(protocol, scenario, streaming, id))
<1> DEFINE x == CASE protocol = "chat"      -> buildChat(scenario, streaming)
                  [] protocol = "responses" -> buildResponses(scenario, streaming)
                  [] protocol = "anthropic" -> buildAnthropic(scenario, streaming)
           y == CHOOSE z \in applyMutation(id, x) : TRUE
<1>1. \/ x = buildChat(scenario, streaming) \/ x = buildResponses(scenario, streaming)
      \/ x = buildAnthropic(scenario, streaming)
  BY DEF Protocols
<1>2. ServeHTTP(protocol, scenario, streaming, id) =
        IF id = "none" \/ applyMutation(id, x) = {} THEN x ELSE [y EXCEPT !.mutation = id]
  BY Zenon DEF ServeHTTP
<1> HIDE DEF x
<1>3. Entire(x)
  BY <1>1, Built, Zenon
<1>4. x.protocol \in Protocols
  BY <1>1 DEF buildChat, buildResponses, buildAnthropic, Reference, Protocols
<1>5. Carries(x)
  BY <1>3, Zenon DEF Entire
<1>6. ASSUME id # "none", applyMutation(id, x) # {} PROVE Carries([y EXCEPT !.mutation = id])
  <2>1. y \in applyMutation(id, x)
    BY <1>6, Zenon
  <2> HIDE DEF y
  <2>2. Carries(y)
    BY <1>3, <1>4, <1>6, <2>1, MutationsCarry, Zenon
  <2>3. "mutation" # "events"
    OBVIOUS
  <2>4. Carries([y EXCEPT !["mutation"] = id])
    BY <2>2, <2>3, EventsKeptBy, Zenon
  <2> QED BY <2>4, Zenon
<1> HIDE DEF y
<1>7. CASE id = "none" \/ applyMutation(id, x) = {}
  BY <1>2, <1>5, <1>7, Zenon
<1>8. CASE ~(id = "none" \/ applyMutation(id, x) = {})
  BY <1>2, <1>6, <1>8, Zenon
<1> QED BY <1>7, <1>8, Zenon

\* Every answer the driver may get has a sequence of events.
LEMMA AnswersCarry ==
    ASSUME job \in Scenarios, NEW a \in Answers
    PROVE  Carries(a[2])
<1> DEFINE x == ServeHTTP(job.protocol, job.scenario, job.streaming, job.mutation)
<1>0. /\ job.protocol \in Protocols /\ job.streaming \in BOOLEAN
      /\ job.mutation \in DOMAIN Catalog \union {"none"}
  BY RawConstants, Zenon
<1>1. Carries(x)
  BY <1>0, ServedCarries, Zenon
<1> HIDE DEF x
<1>s. /\ "tail" # "events" /\ "over" # "events" /\ "shape" # "events" /\ "document" # "events"
      /\ "status" # "events" /\ "media" # "events" /\ "unsupported" # "events"
  OBVIOUS
<1>2. Carries(NoResponse)
  <2>1. /\ NoResponse = [f \in DOMAIN NoResponse |-> NoResponse[f]]
        /\ "events" \in DOMAIN NoResponse /\ NoResponse.events = <<>>
    BY Zenon DEF NoResponse
  <2> QED BY <2>1, Tuples, Zenon DEF Carries
<1>3. Carries(Served)
  <2> DEFINE a1 == [NoResponse EXCEPT !["status"] = x.status]
             a2 == [a1 EXCEPT !["media"] = IF x.streaming THEN "sse" ELSE "json"]
             a3 == [a2 EXCEPT !["shape"] = "json"]
             a4 == [a3 EXCEPT !["document"] = x.document]
             a5 == [a4 EXCEPT !.events = x.events]
  <2>1. Served = a5
    BY Zenon DEF Served, writeExchange, x
  <2>2. IsSeq(x.events)
    BY <1>1, Zenon DEF Carries
  <2> HIDE DEF a5
  <2>3. Carries(a1)
    BY <1>2, <1>s, EventsKeptBy, Zenon
  <2> HIDE DEF a1
  <2>4. Carries(a2)
    BY <2>3, <1>s, EventsKeptBy, Zenon
  <2> HIDE DEF a2
  <2>5. Carries(a3)
    BY <2>4, <1>s, EventsKeptBy, Zenon
  <2> HIDE DEF a3
  <2>6. Carries(a4)
    BY <2>5, <1>s, EventsKeptBy, Zenon
  <2> HIDE DEF a4
  <2>7. Carries([a4 EXCEPT !.events = x.events])
    BY <2>2, <2>6, EventsReplaced, Zenon
  <2>8. Carries(a5)
    BY <2>7, Zenon DEF a5
  <2> QED BY <2>1, <2>8, Zenon
<1>4. IsSeq(Served.events) /\ Len(Served.events) \in Nat
  BY <1>3, SeqFacts, Zenon DEF Carries
<1>5. ASSUME NEW c \in Cut PROVE Carries(c)
  <2> DEFINE Piece(n) == SubSeq(Served.events, 1, n)
  <2>1. PICK n \in 0 .. Len(Served.events) - 1, t \in BOOLEAN : c = CutAt(n, t)
    BY <1>5 DEF Cut
  <2>2. CutAt(n, t) = [[Served EXCEPT !.events = Piece(n)] EXCEPT !["tail"] = t]
    BY Zenon DEF CutAt
  <2>3. n \in Nat /\ 1 \in Nat /\ 1 <= 1 /\ n <= Len(Served.events)
    BY ONLY <1>4, n \in 0 .. Len(Served.events) - 1, SMTT(30)
  <2>4. IsSeq(Piece(n))
    BY <1>4, <2>3, PieceIsSeq, Zenon
  <2> HIDE DEF Piece
  <2>5. Carries([Served EXCEPT !.events = Piece(n)])
    BY <1>3, <2>4, EventsReplaced, Zenon
  <2>6. Carries([[Served EXCEPT !.events = Piece(n)] EXCEPT !["tail"] = t])
    BY <1>s, <2>5, EventsKeptBy, Zenon
  <2> QED BY <2>1, <2>2, <2>6, Zenon
<1>6. Carries(Limited)
  <2>1. CASE job.streaming
    <3> DEFINE s == [i \in DOMAIN Served.events |-> LimitEvent(Served.events[i])]
    <3>1. DOMAIN Served.events = 1 .. Len(Served.events)
      BY <1>4, SeqFacts, Zenon
    <3>2. Limited = [Served EXCEPT !.events = s]
      BY <2>1, Zenon DEF Limited
    <3>3. s = [i \in 1 .. Len(Served.events) |-> s[i]]
      BY <3>1, Zenon
    <3> HIDE DEF s
    <3>4. IsSeq(s)
      BY <1>4, <3>3, SeqIs, Zenon
    <3>5. Carries([Served EXCEPT !.events = s])
      BY <1>3, <3>4, EventsReplaced, Zenon
    <3> QED BY <3>2, <3>5, Zenon
  <2>2. CASE ~job.streaming
    <3>1. DocumentChanged(Served, "reason", Limited)
      BY <2>2, Zenon DEF Limited, DocumentChanged
    <3> QED BY <1>3, <3>1, DocumentReplaced, Zenon
  <2> QED BY <2>1, <2>2, Zenon
<1>7. ASSUME NEW status, NEW u PROVE Carries(Refused(status, u))
  <2> DEFINE a1 == [NoResponse EXCEPT !["status"] = status]
             a2 == [a1 EXCEPT !["media"] = "json"]
             a3 == [a2 EXCEPT !["unsupported"] = u]
             a4 == [a3 EXCEPT !["shape"] = "json"]
             a5 == [a4 EXCEPT !["tail"] = job.streaming]
  <2>1. Refused(status, u) = a5
    BY Zenon DEF Refused
  <2> HIDE DEF a5
  <2>2. Carries(a1)
    BY <1>2, <1>s, EventsKeptBy, Zenon
  <2> HIDE DEF a1
  <2>3. Carries(a2)
    BY <2>2, <1>s, EventsKeptBy, Zenon
  <2> HIDE DEF a2
  <2>4. Carries(a3)
    BY <2>3, <1>s, EventsKeptBy, Zenon
  <2> HIDE DEF a3
  <2>5. Carries(a4)
    BY <2>4, <1>s, EventsKeptBy, Zenon
  <2> HIDE DEF a4
  <2>6. Carries(a5)
    BY <2>5, <1>s, EventsKeptBy, Zenon DEF a5
  <2> QED BY <2>1, <2>6, Zenon
<1>8. ASSUME NEW shape PROVE Carries(Reshaped(shape))
  <2>1. CASE job.streaming
    <3>1. EventChanged(Served, "data", Reshaped(shape))
      BY <2>1, Zenon DEF Reshaped, EventChanged
    <3> QED BY <1>3, <3>1, FieldReplaced, Zenon
  <2>2. CASE ~job.streaming
    <3>1. Carries([Served EXCEPT !["shape"] = shape])
      BY <1>3, <1>s, EventsKeptBy, Zenon
    <3> QED BY <2>2, <3>1, Zenon DEF Reshaped
  <2> QED BY <2>1, <2>2, Zenon
<1>9. Carries([Served EXCEPT !.over = TRUE])
  <2>1. Carries([Served EXCEPT !["over"] = TRUE])
    BY <1>3, <1>s, EventsKeptBy, Zenon
  <2> QED BY <2>1, Zenon
<1>10. \/ a[2] = Served \/ a[2] \in Cut \/ a[2] = Limited
       \/ \E status, u : a[2] = Refused(status, u)
       \/ \E shape : a[2] = Reshaped(shape)
       \/ a[2] = [Served EXCEPT !.over = TRUE]
  <2>1. \E k, b : a = <<k, b>> /\ (\/ b = Served \/ b \in Cut \/ b = Limited
                                   \/ \E status, u : b = Refused(status, u)
                                   \/ \E shape : b = Reshaped(shape)
                                   \/ b = [Served EXCEPT !.over = TRUE])
    BY DEF Answers
  <2>2. PICK k, b : a = <<k, b>> /\ (\/ b = Served \/ b \in Cut \/ b = Limited
                                     \/ \E status, u : b = Refused(status, u)
                                     \/ \E shape : b = Reshaped(shape)
                                     \/ b = [Served EXCEPT !.over = TRUE])
    BY <2>1, Zenon
  <2>3. a[2] = b
    BY ONLY <2>2
  <2> QED BY <2>2, <2>3, Zenon
<1> QED BY <1>3, <1>5, <1>6, <1>7, <1>8, <1>9, <1>10, Zenon

\* The records of a body are a sequence.
LEMMA RecordsAreSeq ==
    ASSUME NEW a, Carries(a) PROVE IsSeq(BodyRecords(a))
<1> DEFINE s == [i \in DOMAIN a.events |-> IF a.events[i].data = "broken"
                                             THEN "non_json_omitted" ELSE "event"]
           t == IF a.tail THEN <<"incomplete_wire">> ELSE <<>>
<1>1. Len(a.events) \in Nat /\ DOMAIN a.events = 1 .. Len(a.events)
  BY SeqFacts, Zenon DEF Carries
<1>2. s = [i \in 1 .. Len(a.events) |-> s[i]]
  BY <1>1
<1>3. \/ \E r : BodyRecords(a) = <<r>> \/ BodyRecords(a) = <<>>
      \/ BodyRecords(a) = s \o t
  BY Zenon DEF BodyRecords
<1> HIDE DEF s
<1>4. IsSeq(s) /\ IsSeq(t)
  BY <1>1, <1>2, SeqIs, Tuples, Zenon
<1> HIDE DEF t
<1>5. IsSeq(s \o t)
  BY <1>4, Joined, Zenon DEF JoinOf
<1> QED BY <1>3, <1>5, Tuples, Zenon

\* All the records of an attempt that got answer a, and the first of them.
AllRecords(a) == <<"request", "metadata">> \o BodyRecords(a)
SomeRecords(s, a) == /\ IsSeq(s) /\ 2 <= Len(s) /\ Len(s) <= Len(AllRecords(a))
                     /\ \A i \in 1 .. Len(s) : s[i] = AllRecords(a)[i]

\* What the position of Run says of the store.
StoredOK(k, s, a) ==
    /\ k \in {"new", "estimated"} => s = <<>>
    /\ k = "recorded" => s = <<"request">>
    /\ k = "metadata" => SomeRecords(s, a)
    /\ k \in {"kept", "parsing"} => s = AllRecords(a)

\* What a result says of the records.
ReturnedOK(r, s, a) ==
    /\ r.refs = s
    /\ (r.requests = 1 /\ r.known) <=> s # <<>>
    /\ r.kind = "verdict" => s = AllRecords(a)

Known == Lookup(job.registered) /\ EstimateKnown(job.registered)

AttemptOK(k, s, r, a) ==
    /\ Carries(a)
    /\ k \in {"new", "estimated", "recorded", "metadata", "kept", "parsing", "returned"}
    /\ StoredOK(k, s, a)
    /\ k = "estimated" => EstimateKnown(job.registered)
    /\ k = "returned" => ReturnedOK(r, s, a)
    /\ s # <<>> => Known

RawInv == job \in Scenarios /\ AttemptOK(step, stored, result, answer)

\* All the records, one by one.
LEMMA RecordsInOrder ==
    ASSUME NEW a, Carries(a)
    PROVE  /\ IsSeq(AllRecords(a)) /\ IsSeq(BodyRecords(a))
           /\ Len(BodyRecords(a)) \in Nat /\ Len(AllRecords(a)) = 2 + Len(BodyRecords(a))
           /\ AllRecords(a)[1] = "request" /\ AllRecords(a)[2] = "metadata"
           /\ \A i \in 1 .. Len(BodyRecords(a)) : AllRecords(a)[2 + i] = BodyRecords(a)[i]
<1> DEFINE s == <<"request", "metadata">>
           t == BodyRecords(a)
<1>1. IsSeq(s) /\ Len(s) = 2 /\ s[1] = "request" /\ s[2] = "metadata"
  BY Tuples, Zenon
<1>2. IsSeq(t) /\ Len(t) \in Nat
  BY RecordsAreSeq, SeqFacts, Zenon
<1>3. AllRecords(a) = s \o t
  BY Zenon DEF AllRecords
<1> HIDE DEF s, t
<1>4. /\ IsSeq(s \o t) /\ Len(s \o t) = Len(s) + Len(t)
      /\ \A i \in 1 .. Len(s) : (s \o t)[i] = s[i]
      /\ \A i \in 1 .. Len(t) : (s \o t)[Len(s) + i] = t[i]
  <2>1. JoinOf(s, t, s \o t)
    BY <1>1, <1>2, Joined, Zenon
  <2> QED BY <2>1, Zenon DEF JoinOf
<1>5. 1 \in 1 .. 2 /\ 2 \in 1 .. 2
  OBVIOUS
<1>6. /\ IsSeq(AllRecords(a)) /\ Len(AllRecords(a)) = 2 + Len(t)
      /\ AllRecords(a)[1] = "request" /\ AllRecords(a)[2] = "metadata"
      /\ \A i \in 1 .. Len(t) : AllRecords(a)[2 + i] = t[i]
  BY <1>1, <1>3, <1>4, <1>5, Zenon
<1> QED BY <1>2, <1>6, Zenon DEF t

\* The metadata are the second record.
LEMMA MetadataRecorded ==
    ASSUME NEW a, Carries(a)
    PROVE  SomeRecords(Append(<<"request">>, "metadata"), a)
<1> DEFINE s == Append(<<"request">>, "metadata")
<1>1. IsSeq(<<"request">>) /\ Len(<<"request">>) = 1 /\ <<"request">>[1] = "request"
  BY Tuples, Zenon
<1>2. IsSeq(s) /\ Len(s) = 2 /\ s[1] = "request" /\ s[2] = "metadata"
  <2>1. Grown(<<"request">>, "metadata", s)
    BY <1>1, AppendGrows, Zenon
  <2>2. 1 + 1 = 2 /\ 1 \in 1 .. 1
    OBVIOUS
  <2> HIDE DEF s
  <2> QED BY <1>1, <2>1, <2>2, Zenon DEF Grown
<1> HIDE DEF s
<1>3. /\ Len(BodyRecords(a)) \in Nat /\ Len(AllRecords(a)) = 2 + Len(BodyRecords(a))
      /\ AllRecords(a)[1] = "request" /\ AllRecords(a)[2] = "metadata"
  BY RecordsInOrder, Zenon
<1>4. 2 <= Len(s) /\ Len(s) <= Len(AllRecords(a))
  BY ONLY <1>2, <1>3, SMTT(30)
<1>5. \A i \in 1 .. Len(s) : i = 1 \/ i = 2
  BY ONLY <1>2
<1>6. \A i \in 1 .. Len(s) : s[i] = AllRecords(a)[i]
  BY <1>2, <1>3, <1>5, Zenon
<1>7. SomeRecords(s, a)
  BY <1>2, <1>4, <1>6, Zenon DEF SomeRecords
<1> QED BY <1>7, Zenon DEF s

\* One record more.
LEMMA RecordMade ==
    ASSUME NEW a, Carries(a), NEW s, SomeRecords(s, a), Len(s) - 2 < Len(BodyRecords(a))
    PROVE  SomeRecords(Append(s, BodyRecords(a)[Len(s) - 2 + 1]), a)
<1> DEFINE n == Len(s)
           e == BodyRecords(a)[n - 2 + 1]
           t == Append(s, e)
<1>1. /\ IsSeq(s) /\ 2 <= n /\ n <= Len(AllRecords(a))
      /\ \A i \in 1 .. n : s[i] = AllRecords(a)[i]
  BY Zenon DEF SomeRecords
<1>2. /\ Len(BodyRecords(a)) \in Nat /\ Len(AllRecords(a)) = 2 + Len(BodyRecords(a))
      /\ \A i \in 1 .. Len(BodyRecords(a)) : AllRecords(a)[2 + i] = BodyRecords(a)[i]
  BY RecordsInOrder, Zenon
<1>3. n \in Nat
  BY <1>1, SeqFacts, Zenon
<1>4. IsSeq(t) /\ Len(t) = n + 1 /\ (\A i \in 1 .. n : t[i] = s[i]) /\ t[n + 1] = e
  <2>1. Grown(s, e, t)
    BY <1>1, AppendGrows, Zenon
  <2> QED BY <2>1, Zenon DEF Grown
<1>5. n - 2 < Len(BodyRecords(a))
  OBVIOUS
<1> HIDE DEF n
<1>6. n - 2 + 1 \in 1 .. Len(BodyRecords(a)) /\ 2 + (n - 2 + 1) = n + 1
  BY ONLY <1>1, <1>2, <1>3, <1>5, SMTT(30)
<1>7. AllRecords(a)[n + 1] = e
  <2>1. AllRecords(a)[2 + (n - 2 + 1)] = BodyRecords(a)[n - 2 + 1]
    BY <1>2, <1>6, Zenon
  <2> QED BY <1>6, <2>1, Zenon
<1> HIDE DEF e, t
<1>8. 2 <= Len(t) /\ Len(t) <= Len(AllRecords(a))
  BY ONLY <1>1, <1>2, <1>3, <1>4, <1>5, SMTT(30)
<1>9. \A i \in 1 .. Len(t) : i \in 1 .. n \/ i = n + 1
  BY ONLY <1>3, <1>4, SMTT(30)
<1>10. \A i \in 1 .. Len(t) : t[i] = AllRecords(a)[i]
  BY <1>1, <1>4, <1>7, <1>9, Zenon
<1>11. SomeRecords(t, a)
  BY <1>4, <1>8, <1>10, Zenon DEF SomeRecords
<1> QED BY <1>11, Zenon DEF t, e, n

\* When none is left all are there.
LEMMA AllMade ==
    ASSUME NEW a, Carries(a), NEW s, SomeRecords(s, a), Len(s) - 2 = Len(BodyRecords(a))
    PROVE  s = AllRecords(a)
<1>1. IsSeq(s) /\ \A i \in 1 .. Len(s) : s[i] = AllRecords(a)[i]
  BY Zenon DEF SomeRecords
<1>2. IsSeq(AllRecords(a)) /\ Len(AllRecords(a)) = 2 + Len(BodyRecords(a))
  BY RecordsInOrder, Zenon
<1>3. Len(s) \in Nat
  BY <1>1, SeqFacts, Zenon
<1>4. Len(s) = Len(AllRecords(a))
  BY <1>2, <1>3, SMTT(30)
<1> QED BY <1>1, <1>2, <1>4, SameSeq, Zenon

\* Something is recorded once the request is.
LEMMA RecordedIsSome ==
    ASSUME NEW s, NEW a, Carries(a), s = <<"request">> \/ SomeRecords(s, a) \/ s = AllRecords(a)
    PROVE  s # <<>>
<1>1. Len(<<>>) = 0 /\ Len(<<"request">>) = 1
  BY Tuples, Zenon
<1>2. SomeRecords(s, a) => 2 <= Len(s)
  BY Zenon DEF SomeRecords
<1>3. Len(BodyRecords(a)) \in Nat /\ Len(AllRecords(a)) = 2 + Len(BodyRecords(a))
  BY RecordsInOrder, Zenon
<1> QED BY <1>1, <1>2, <1>3, SMTT(30)

\* An error before the request reports nothing.
LEMMA EarlyError ==
    ASSUME NEW class, NEW a, runError(class), stored' = <<>>
    PROVE  step' = "returned" /\ ReturnedOK(result', stored', a)
<1>1. step' = "returned" /\ result' = [Nothing EXCEPT !.kind = "error", !.class = class]
  BY Zenon DEF runError, Return
<1>2. result'.refs = <<>> /\ result'.requests = 0 /\ result'.kind = "error"
  BY <1>1, SMT DEF Nothing
<1>3. 0 # 1 /\ "error" # "verdict"
  OBVIOUS
<1> QED BY <1>1, <1>2, <1>3, Zenon DEF ReturnedOK

\* An error after it reports what is stored, when it was stored before.
LEMMA LateError ==
    ASSUME NEW class, NEW a, runErrorWithEvidence(class), stored' = stored, stored # <<>>
    PROVE  step' = "returned" /\ ReturnedOK(result', stored', a)
<1>1. /\ step' = "returned"
      /\ result' = [Nothing EXCEPT !.kind = "error", !.class = class, !.refs = stored,
                                   !.requests = 1, !.known = TRUE]
  BY Zenon DEF runErrorWithEvidence, Return
<1>2. /\ result'.refs = stored /\ result'.requests = 1 /\ result'.kind = "error"
      /\ result'.known = TRUE
  BY <1>1, SMT DEF Nothing
<1>3. "error" # "verdict"
  OBVIOUS
<1> QED BY <1>1, <1>2, <1>3, Zenon DEF ReturnedOK

\* An attempt that returned what it stored.
LEMMA Ended ==
    ASSUME NEW r, NEW s, NEW a, Carries(a), ReturnedOK(r, s, a), s # <<>> => Known
    PROVE  AttemptOK("returned", s, r, a)
BY Zenon DEF AttemptOK, StoredOK

\* The estimate.
LEMMA EstimateKeeps ==
    ASSUME RawInv, Estimate
    PROVE  AttemptOK(step', stored', result', answer')
<1>1. step = "new" /\ stored' = stored /\ answer' = answer
  BY Zenon DEF Estimate
<1>2. stored = <<>> /\ Carries(answer)
  BY <1>1, Zenon DEF RawInv, AttemptOK, StoredOK
<1>3. CASE EstimateKnown(job.registered) /\ step' = "estimated"
  BY <1>1, <1>2, <1>3, Zenon DEF AttemptOK, StoredOK
<1>4. CASE runError("unestimated")
  <2>1. step' = "returned" /\ ReturnedOK(result', stored', answer')
    BY <1>1, <1>2, <1>4, EarlyError, Zenon
  <2> QED BY <1>1, <1>2, <2>1, Ended, Zenon
<1> QED BY <1>3, <1>4, Zenon DEF Estimate, Goto

\* The request is recorded.
LEMMA BeginRunKeeps ==
    ASSUME RawInv, BeginRun
    PROVE  AttemptOK(step', stored', result', answer')
<1>1. step = "estimated" /\ answer' = answer
  BY Zenon DEF BeginRun
<1>2. stored = <<>> /\ Carries(answer) /\ EstimateKnown(job.registered)
  BY <1>1, Zenon DEF RawInv, AttemptOK, StoredOK
<1>3. CASE Lookup(job.registered) /\ stored' = <<"request">> /\ step' = "recorded"
  BY <1>1, <1>2, <1>3, Zenon DEF AttemptOK, StoredOK, Known
<1>4. CASE stored' = stored /\ runError("harness")
  <2>1. step' = "returned" /\ ReturnedOK(result', stored', answer')
    BY <1>2, <1>4, EarlyError, Zenon
  <2> QED BY <1>1, <1>2, <1>4, <2>1, Ended, Zenon
<1> QED BY <1>3, <1>4, Zenon DEF BeginRun, Goto

\* From the recorded request on something is stored.
LEMMA SomethingStored ==
    ASSUME RawInv, step \in {"recorded", "metadata", "kept", "parsing"}
    PROVE  stored # <<>> /\ Known /\ Carries(answer)
<1>1. Carries(answer) /\ (stored # <<>> => Known)
  BY Zenon DEF RawInv, AttemptOK
<1>2. stored = <<"request">> \/ SomeRecords(stored, answer) \/ stored = AllRecords(answer)
  BY Zenon DEF RawInv, AttemptOK, StoredOK
<1> QED BY <1>1, <1>2, RecordedIsSome, Zenon

\* A failure with what was stored.
LEMMA FailureKeeps ==
    ASSUME RawInv, step \in {"recorded", "metadata", "kept", "parsing"},
           stored' = stored, Carries(answer'), NEW class, runErrorWithEvidence(class)
    PROVE  AttemptOK(step', stored', result', answer')
<1>1. stored # <<>> /\ Known
  BY SomethingStored, Zenon
<1>2. step' = "returned" /\ ReturnedOK(result', stored', answer')
  BY <1>1, LateError, Zenon
<1> QED BY <1>1, <1>2, Ended, Zenon

\* The request is sent.
LEMMA SendKeeps ==
    ASSUME RawInv, Send
    PROVE  AttemptOK(step', stored', result', answer')
<1>1. step = "recorded" /\ job \in Scenarios /\ stored = <<"request">>
  BY Zenon DEF Send, RawInv, AttemptOK, StoredOK
<1>2. stored # <<>> /\ Known /\ Carries(answer)
  BY <1>1, SomethingStored, Zenon
<1>3. ASSUME NEW a \in Answers, answer' = a[2],
             stored' = Append(stored, "metadata"), step' = "metadata"
      PROVE  AttemptOK(step', stored', result', answer')
  <2>1. Carries(answer')
    BY <1>1, <1>3, AnswersCarry, Zenon
  <2>2. SomeRecords(stored', answer')
    BY <1>1, <1>3, <2>1, MetadataRecorded, Zenon
  <2> QED BY <1>2, <1>3, <2>1, <2>2, Zenon DEF AttemptOK, StoredOK
<1>4. ASSUME NEW a \in Answers, answer' = a[2], stored' = stored,
             runErrorWithEvidence("harness")
      PROVE  AttemptOK(step', stored', result', answer')
  <2>1. Carries(answer')
    BY <1>1, <1>4, AnswersCarry, Zenon
  <2> QED BY <1>1, <1>4, <2>1, FailureKeeps, Zenon
<1>5. ASSUME NEW cause \in DoFailures, answer' = answer, stored' = stored,
             runErrorWithEvidence(FailureClass(cause))
      PROVE  AttemptOK(step', stored', result', answer')
  BY <1>1, <1>2, <1>5, FailureKeeps, Zenon
<1> QED BY <1>3, <1>4, <1>5, Zenon DEF Send, Goto

\* A record of the body is made, or all are.
LEMMA RecordResponseBodyKeeps ==
    ASSUME RawInv, RecordResponseBody
    PROVE  AttemptOK(step', stored', result', answer')
<1>1. step = "metadata" /\ SomeRecords(stored, answer) /\ answer' = answer
  BY Zenon DEF RecordResponseBody, RawInv, AttemptOK, StoredOK
<1>2. stored # <<>> /\ Known /\ Carries(answer)
  BY <1>1, SomethingStored, Zenon
<1>3. CASE stored' = stored /\ runErrorWithEvidence("harness")
  BY <1>1, <1>2, <1>3, FailureKeeps, Zenon
<1>4. CASE /\ Len(stored) - 2 < Len(BodyRecords(answer)) /\ step' = step
           /\ stored' = Append(stored, BodyRecords(answer)[Len(stored) - 2 + 1])
  <2>1. SomeRecords(stored', answer')
    BY <1>1, <1>2, <1>4, RecordMade, Zenon
  <2> QED BY <1>1, <1>2, <1>4, <2>1, Zenon DEF AttemptOK, StoredOK
<1>5. CASE /\ Len(stored) - 2 = Len(BodyRecords(answer)) /\ step' = "kept"
           /\ stored' = stored
  <2>1. stored' = AllRecords(answer')
    BY <1>1, <1>2, <1>5, AllMade, Zenon
  <2> QED BY <1>1, <1>2, <1>5, <2>1, Zenon DEF AttemptOK, StoredOK
<1> QED BY <1>3, <1>4, <1>5, Zenon DEF RecordResponseBody, Goto

\* The status is classified.
LEMMA ClassifyKeeps ==
    ASSUME RawInv, Classify
    PROVE  AttemptOK(step', stored', result', answer')
<1>1. step = "kept" /\ stored = AllRecords(answer) /\ answer' = answer /\ stored' = stored
  BY Zenon DEF Classify, RawInv, AttemptOK, StoredOK
<1>2. stored # <<>> /\ Known /\ Carries(answer)
  BY <1>1, SomethingStored, Zenon
<1>3. ASSUME NEW class, runErrorWithEvidence(class)
      PROVE  AttemptOK(step', stored', result', answer')
  BY <1>1, <1>2, <1>3, FailureKeeps, Zenon
<1>4. CASE step' = "parsing"
  BY <1>1, <1>2, <1>4, Zenon DEF AttemptOK, StoredOK
<1> QED BY <1>3, <1>4, Zenon DEF Classify, Goto

\* The outcome is evaluated.
LEMMA ConcludeKeeps ==
    ASSUME RawInv, Conclude
    PROVE  AttemptOK(step', stored', result', answer')
<1>1. /\ step = "parsing" /\ stored = AllRecords(answer)
      /\ answer' = answer /\ stored' = stored
  BY Zenon DEF Conclude, RawInv, AttemptOK, StoredOK
<1>2. stored # <<>> /\ Known /\ Carries(answer)
  BY <1>1, SomethingStored, Zenon
<1>3. CASE runErrorWithEvidence("harness")
  BY <1>1, <1>2, <1>3, FailureKeeps, Zenon
<1>4. ASSUME NEW v, Return([kind |-> "verdict", class |-> "", verdict |-> v,
                            refs |-> stored, requests |-> 1, known |-> TRUE])
      PROVE  AttemptOK(step', stored', result', answer')
  <2>1. /\ step' = "returned"
        /\ result' = [kind |-> "verdict", class |-> "", verdict |-> v,
                      refs |-> stored, requests |-> 1, known |-> TRUE]
    BY <1>4, Zenon DEF Return
  <2>2. result'.refs = stored /\ result'.requests = 1 /\ result'.known = TRUE
    BY <2>1, Zenon
  <2>3. ReturnedOK(result', stored', answer')
    BY <1>1, <1>2, <2>2, Zenon DEF ReturnedOK
  <2> QED BY <1>1, <1>2, <2>1, <2>3, Ended, Zenon
<1> QED BY <1>3, <1>4, Zenon DEF Conclude

\* A step that leaves position, store, result and answer alone.
LEMMA UntouchedKeeps ==
    ASSUME RawInv, UNCHANGED <<step, answer, stored, result>>
    PROVE  AttemptOK(step', stored', result', answer')
<1>1. step' = step /\ answer' = answer /\ stored' = stored /\ result' = result
  OBVIOUS
<1> QED BY <1>1, Zenon DEF RawInv

\* The invariant holds when the attempt is about to start.
LEMMA RawInitInv == ASSUME RawInit PROVE RawInv
<1>1. /\ job \in Scenarios /\ step = "new" /\ answer = NoResponse /\ stored = <<>>
  BY Zenon DEF RawInit
<1>2. Carries(NoResponse)
  <2>1. IsSeq(<<>>)
    BY Tuples, Zenon
  <2> DEFINE r == NoResponse
  <2>2. r = [f \in DOMAIN r |-> r[f]]
    BY Zenon DEF NoResponse
  <2>3. "events" \in DOMAIN r /\ r.events = <<>>
    BY Zenon DEF NoResponse
  <2> QED BY <2>1, <2>2, <2>3, Zenon DEF Carries
<1> QED BY <1>1, <1>2, Zenon DEF RawInv, AttemptOK, StoredOK

\* Every step of the attempt keeps it.
LEMMA RawStepInv == ASSUME RawInv, [RawNext]_rawVars PROVE RawInv'
<1>1. job' = job
  BY Zenon DEF RawNext, rawVars, Estimate, BeginRun, Send, RecordResponseBody, Classify,
               ParseEvent, Conclude
<1>2. AttemptOK(step', stored', result', answer')
  <2>1. CASE Estimate BY <2>1, EstimateKeeps, Zenon
  <2>2. CASE BeginRun BY <2>2, BeginRunKeeps, Zenon
  <2>3. CASE Send BY <2>3, SendKeeps, Zenon
  <2>4. CASE RecordResponseBody BY <2>4, RecordResponseBodyKeeps, Zenon
  <2>5. CASE Classify BY <2>5, ClassifyKeeps, Zenon
  <2>6. CASE ParseEvent BY <2>6, UntouchedKeeps, Zenon DEF ParseEvent
  <2>7. CASE Conclude BY <2>7, ConcludeKeeps, Zenon
  <2>8. CASE UNCHANGED rawVars BY <2>8, UntouchedKeeps, Zenon DEF rawVars
  <2> QED BY <2>1, <2>2, <2>3, <2>4, <2>5, <2>6, <2>7, <2>8, Zenon DEF RawNext
<1>3. job' \in Scenarios
  BY <1>1, Zenon DEF RawInv
<1> QED BY <1>1, <1>2, <1>3, ZenonT(40) DEF RawInv, AttemptOK, StoredOK, ReturnedOK, SomeRecords,
                                 AllRecords, BodyRecords, Known

\* What the invariant says of the report.
LEMMA RawInvReports == ASSUME RawInv PROVE ErrorsKeepEvidence
BY Zenon DEF RawInv, AttemptOK, ReturnedOK, AllRecords, Known, ErrorsKeepEvidence

\* For every registry, every mutation of the catalogue and every answer of the upstream,
\* wherever Run stops: it reports the evidence that is in the store and no other, and a
\* verdict only when every record the body calls for is there, in order.
THEOREM EvidenceIsReported == RawSpec => []ErrorsKeepEvidence
<1>1. RawInit => RawInv
  BY RawInitInv
<1>2. RawInv /\ [RawNext]_rawVars => RawInv'
  BY RawStepInv
<1>3. RawInv => ErrorsKeepEvidence
  BY RawInvReports
<1> QED BY <1>1, <1>2, <1>3, PTL DEF RawSpec
=============================================================================
