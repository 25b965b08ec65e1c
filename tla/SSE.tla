---------------------------------- MODULE SSE ----------------------------------
(***************************************************************************)
(* The Server-Sent-Events assembler of internal/recorder/sse.go.  A body   *)
(* arrives in read chunks whose boundaries mean nothing; the assembler     *)
(* cuts it into lines, collects the field lines of an event and emits the  *)
(* event at the blank line that ends it, together with the sequence        *)
(* numbers of the chunks it came from.                                     *)
(*                                                                         *)
(* A byte is a newline, a carriage return, a colon, or a letter.  A caller *)
(* stops at the first error.                                               *)
(***************************************************************************)
EXTENDS Integers, Sequences, FiniteSets, FiniteSetsExt, Functions

CONSTANTS
  Letters,          \* the bytes that are none of "\n", "\r", ":"
  MaxWire,          \* a bound on the bytes of a body
  MaxSSEBuffer,     \* maxBufferBytes
  MaxSSEFields      \* maxSSEFieldsPerEvent

ASSUME SSEConstants == MaxWire \in Nat

VARIABLES
  wire,   \* the bytes fed so far
  cuts,   \* where each chunk ended in wire
  asm     \* the assembler

sseVars == <<wire, cuts, asm>>

Bytes == Letters \union {"\n", "\r", ":"}

Prefixed(line, byte) == line # <<>> /\ Head(line) = byte

\* A line without the carriage return that ends it.
TrimCR(line) ==
  IF line # <<>> /\ line[Len(line)] = "\r" THEN SubSeq(line, 1, Len(line) - 1) ELSE line

\* NewSSEAssembler
NewSSEAssembler == [buffer |-> <<>>, processed |-> 0, offset |-> 0, bytes |-> 0,
                    fields |-> <<>>, chunks |-> <<>>, events |-> <<>>, status |-> "open"]

SSEInit == wire = <<>> /\ cuts = <<>> /\ asm = NewSSEAssembler

\* strings.Cut(line, ":"): the field's name and its value; the optional space after
\* the colon is left out.
CutField(line) ==
  LET colons == {i \in DOMAIN line : line[i] = ":"}
      at == IF colons = {} THEN Len(line) + 1 ELSE Min(colons)
  IN  [name |-> SubSeq(line, 1, at - 1), value |-> SubSeq(line, at + 1, Len(line))]

\* An event keeps every field; Event, Data, ID and RetryMillis are read off them.
dispatch(a) ==
  IF a.fields = <<>> THEN [a EXCEPT !.bytes = 0, !.chunks = <<>>]
  ELSE [a EXCEPT !.events = Append(@, [offset |-> a.offset, fields |-> a.fields,
                                       chunks |-> a.chunks]),
                 !.bytes = 0, !.fields = <<>>, !.chunks = <<>>]

consumeLine(a, line, start) ==
  IF line = <<>> THEN dispatch(a)
  ELSE IF Prefixed(line, ":") THEN a
  ELSE [a EXCEPT !.offset = IF a.fields = <<>> THEN start ELSE @,
                 !.fields = Append(@, CutField(line))]

addCurrentChunk(a, n) ==
  [a EXCEPT !.chunks = IF @ = <<>> \/ @[Len(@)] # n THEN Append(@, n) ELSE @]

\* One turn of Feed's loop: the first complete line of the buffer, in chunk n.
drainLine(a, n) ==
  LET newlines == {i \in DOMAIN a.buffer : a.buffer[i] = "\n"}
      newline == Min(newlines)
      line == TrimCR(SubSeq(a.buffer, 1, newline - 1))
      cut == [addCurrentChunk(a, n) EXCEPT
                !.buffer = SubSeq(@, newline + 1, Len(@)),
                !.processed = @ + newline,
                !.bytes = IF line = <<>> THEN @ ELSE @ + Len(line) + 1]
  IN  IF a.status # "open" \/ newlines = {} THEN a
      ELSE IF line # <<>> /\ \/ cut.bytes > MaxSSEBuffer
                             \/ ~Prefixed(line, ":") /\ Len(a.fields) >= MaxSSEFields
      THEN [a EXCEPT !.status = "failed"]
      ELSE consumeLine(cut, line, a.processed)

\* The loop: a line takes at least one byte, so that Len(a.buffer) turns are enough.
drain(a, n) ==
  LET turn[k \in 0 .. Len(a.buffer)] == IF k = 0 THEN a ELSE drainLine(turn[k - 1], n)
      rest == turn[Len(a.buffer)]
  IN  IF rest.status # "open" THEN rest
      ELSE IF rest.bytes + Len(rest.buffer) > MaxSSEBuffer
      THEN [rest EXCEPT !.status = "failed"]
      ELSE addCurrentChunk(rest, n)

\* Faulty variant: a chunk's end is taken for the end of its last line.
FeedLines(data) ==
  /\ asm.status = "open"
  /\ wire' = wire \o data
  /\ cuts' = Append(cuts, Len(wire'))
  /\ asm' = drain([asm EXCEPT !.buffer = @ \o Append(data, "\n")], Len(cuts'))

\* Feed of the next chunk.  A chunk that does not fit is refused as a whole; after
\* another error the events of this call are not returned.
Feed(data) ==
  /\ asm.status = "open"
  /\ wire' = wire \o data
  /\ cuts' = Append(cuts, Len(wire'))
  /\ asm' = IF Len(asm.buffer) + Len(data) > MaxSSEBuffer
              THEN [asm EXCEPT !.status = "failed"]
              ELSE LET fed == drain([asm EXCEPT !.buffer = @ \o data], Len(cuts'))
                   IN  IF fed.status = "open" THEN fed
                       ELSE [fed EXCEPT !.events = asm.events]

\* Feed of a chunk that was lost, repeated or moved: its sequence number or its byte
\* offset is not the expected one, and nothing is taken from it.
FeedMisplaced ==
  /\ asm.status = "open" /\ wire # <<>>
  /\ asm' = [asm EXCEPT !.status = "failed"]
  /\ UNCHANGED <<wire, cuts>>

\* Finish: the body ends inside an event.
Finish(a) == a.buffer # <<>> \/ a.fields # <<>>

SSENext ==
  \/ \E n \in 1 .. MaxWire - Len(wire) : \E data \in [1 .. n -> Bytes] : Feed(data)
  \/ FeedMisplaced

SSESpec == SSEInit /\ [][SSENext]_sseVars

----------------------------------------------------------------------------
(* What the events of a body are, however it was cut into chunks.           *)

LineEnds(w) == {i \in DOMAIN w : w[i] = "\n"}

StartOf(w, end) == Max({0} \union {e \in LineEnds(w) : e < end})

LineAt(w, end) == TrimCR(SubSeq(w, StartOf(w, end) + 1, end - 1))

BlankEnds(w) == {e \in LineEnds(w) : LineAt(w, e) = <<>>}

\* The end of the blank line before the event that ends at `end`.
Before(w, end) == Max({0} \union {e \in BlankEnds(w) : e < end})

FieldEnds(w, end) == {e \in LineEnds(w) : /\ Before(w, end) < e /\ e < end
                                          /\ ~Prefixed(LineAt(w, e), ":")}

\* The numbers of a set in increasing order: each at the place its rank says.
InOrder(S) ==
  [i \in 1 .. Cardinality(S) |->
     CHOOSE e \in {x \in S : Cardinality({y \in S : y < x}) = i - 1} : TRUE]

\* The blank lines of w that end an event, and the event each of them ends.
EventEnds(w) == InOrder({e \in BlankEnds(w) : FieldEnds(w, e) # {}})

EventAt(w, end) ==
  LET ends == InOrder(FieldEnds(w, end))
  IN  [offset |-> StartOf(w, ends[1]),
       fields |-> [i \in DOMAIN ends |-> CutField(LineAt(w, ends[i]))]]

\* The chunks that hold a byte of the event that ends at `end`.
Contributors(end) ==
  {k \in DOMAIN cuts : /\ cuts[k] > Before(wire, end)
                       /\ (IF k = 1 THEN 0 ELSE cuts[k - 1]) < end}

----------------------------------------------------------------------------
(* Properties                                                               *)

\* "Arbitrary rechunking produces the same event fields" (SSEAssembler.Feed): as long
\* as no chunk was refused, the emitted events are those of the bytes, every chunk
\* that holds a byte of an event is among its SourceChunkSequences, and Finish
\* reports a tail exactly when bytes after the last blank line remain.
RechunkingAgrees == asm.status = "open" =>
  LET ends == EventEnds(wire) IN
  /\ [i \in DOMAIN asm.events |-> [offset |-> asm.events[i].offset,
                                   fields |-> asm.events[i].fields]]
       = [i \in DOMAIN ends |-> EventAt(wire, ends[i])]
  /\ \A i \in DOMAIN ends : Contributors(ends[i]) \subseteq Range(asm.events[i].chunks)
  /\ Finish(asm) <=> \/ wire # <<>> /\ wire[Len(wire)] # "\n"
                     \/ \E e \in LineEnds(wire) :
                          /\ e > Max({0} \union BlankEnds(wire))
                          /\ ~Prefixed(LineAt(wire, e), ":")

\* An event "retains the read chunks that contributed bytes" (SSELogicalEvent) and no
\* other: a chunk listed as its source holds one of its bytes.
SourcesContributed ==
  LET ends == EventEnds(wire) IN
  asm.status = "open" => \A i \in DOMAIN asm.events :
                           Range(asm.events[i].chunks) \subseteq Contributors(ends[i])
=============================================================================
