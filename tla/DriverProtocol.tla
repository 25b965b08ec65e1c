--------------------------- MODULE DriverProtocol ---------------------------
(***************************************************************************)
(* The driver RPC (pkg/driverprotocol): control frames, one JSON object to *)
(* a line, are read from a stream, checked and applied to the machine that *)
(* follows one driver session.  The driver is external: it runs what it is *)
(* asked to and notifies.  Its notifications may be lost, repeated or      *)
(* overtake each other before they reach the stream.                       *)
(*                                                                         *)
(* Of a message the model keeps what Kind and the machine look at; params  *)
(* are the identities and sequence numbers plus `bad`, the fields whose    *)
(* value their Validate may refuse.                                        *)
(***************************************************************************)
EXTENDS Integers, FiniteSets, FiniteSetsExt, Sequences

CONSTANTS Invocations, Attempts,
          MaxObservation,   \* bound on sequence numbers
          MaxControlFrame,  \* MaxControlFrameBytes
          ReadBuffer,       \* the reader's buffer
          MaxLine           \* bound on the bytes of a line, its line feed included

ASSUME DriverConstants == /\ MaxControlFrame \in Nat /\ MaxObservation \in Nat
                          /\ ReadBuffer \in Nat \ {0} /\ MaxLine \in Nat \ {0, 1}

VARIABLES session,    \* the Machine
          driver,     \* what the driver is running: last sequence number, done
          sent,       \* the notifications it has sent
          remainder,  \* bytes of a refused line that are still in the reader
          transcript  \* the notifications the machine has accepted, by invocation

driverVars == <<session, driver, sent, remainder, transcript>>

Inactive == [invocation |-> "none"]
Unsequenced == -1

\* NewMachine.
NewSession == [state |-> "NEW", active |-> Inactive, completed |-> {}]

DriverInit == /\ session = NewSession
              /\ driver = [i \in {} |-> 0]
              /\ sent = {}
              /\ remainder = 0
              /\ transcript = [i \in Invocations |-> <<>>]

-----------------------------------------------------------------------------
(* Messages.                                                               *)

requestMethods == {"hello", "prepare", "capabilities", "invoke", "cancel", "reset", "shutdown"}
notificationMethods == {"observation", "completed"}

Params(invocation, attempt, sequence) ==
    [bad |-> {}, invocation |-> invocation, attempt |-> attempt, sequence |-> sequence]

Message(id, method, params) ==
    [jsonrpc |-> "2.0", id |-> id, method |-> method, params |-> params,
     hasParams |-> TRUE, result |-> FALSE, error |-> "absent"]

validateRequestID(id) == id \in {"string", "integer"}

\* The checks on an error object: a message, and data with a stable class.
ValidError(error) == error = "classified"

Kind(message) ==
    IF message.jsonrpc # "2.0" THEN "invalid"
    ELSE IF message.method # ""
    THEN IF \/ message.method \notin requestMethods \union notificationMethods
            \/ message.result \/ message.error # "absent"
         THEN "invalid"
         ELSE IF message.method \in notificationMethods
         THEN IF message.id # "absent" THEN "invalid" ELSE "notification"
         ELSE IF validateRequestID(message.id) THEN "request" ELSE "invalid"
    ELSE IF /\ ~message.hasParams
            /\ message.result # (message.error # "absent")
            /\ validateRequestID(message.id)
            /\ message.error # "absent" => ValidError(message.error)
    THEN "response" ELSE "invalid"

\* What each Validate looks at.
HelloFields == {"minimum", "maximum"}
PrepareFields == {"resolved_plan_digest", "capability_token", "fixture_refs"}
InvokeFields == {"invocation_id", "attempt_id", "operation", "handle kind", "handle value"}
CancelFields == {"invocation_id", "reason", "deadline_millis"}
ObservationFields == {"invocation_id", "attempt_id", "kind", "payload and data_stream", "payload",
                      "stream_id"}
CompletedFields == {"invocation_id", "attempt_id", "status", "summary_digest"}

Fields(method) == CASE method = "hello"       -> HelloFields
                    [] method = "prepare"     -> PrepareFields
                    [] method = "invoke"      -> InvokeFields
                    [] method = "cancel"      -> CancelFields
                    [] method = "observation" -> ObservationFields
                    [] method = "completed"   -> CompletedFields
                    [] OTHER                  -> {}

\* Absent params decode for the methods that take none.
DecodeParamsStrict(message) ==
    message.hasParams \/ message.method \in {"capabilities", "reset", "shutdown"}

validateMethodPayload(message) ==
    message.method # "" => /\ DecodeParamsStrict(message)
                           /\ message.params.bad \intersect Fields(message.method) = {}

-----------------------------------------------------------------------------
(* The machine.  Each method gives the sessions after it: none when it     *)
(* returns an error.                                                       *)

Advance(s, from, to) == {t \in {[s EXCEPT !.state = to]} : s.state = from}

AcceptHello(s) == Advance(s, "NEW", "HELLO")
AcceptPrepare(s) == Advance(s, "HELLO", "PREPARED")
CheckCapabilities(s) == {t \in {s} : s.state \in {"HELLO", "PREPARED"}}
ResetSession(s) == Advance(s, "PREPARED", "PREPARED")
Shutdown(s) == Advance(s, "PREPARED", "SHUTDOWN")

BeginInvocation(s, p) ==
    IF s.state # "PREPARED" \/ p.invocation \in s.completed THEN {}
    ELSE {[s EXCEPT !.state = "INVOKING",
                    !.active = [invocation |-> p.invocation, attempt |-> p.attempt,
                                last |-> Unsequenced, cancelRequested |-> FALSE]]}

RequestCancel(s, p) ==
    IF s.state # "INVOKING" \/ s.active.invocation # p.invocation THEN {}
    ELSE {[s EXCEPT !.active.cancelRequested = TRUE]}

Identified(s, p) == /\ s.state = "INVOKING" /\ s.active.invocation = p.invocation
                    /\ s.active.attempt = p.attempt

ObserveNotification(s, p) ==
    IF ~Identified(s, p) \/ p.sequence <= s.active.last THEN {}
    ELSE {[s EXCEPT !.active.last = p.sequence]}

\* Faulty variant: the completed invocation is not remembered.
CompleteForgetting(s, p) ==
    IF ~Identified(s, p) \/ p.sequence # s.active.last THEN {}
    ELSE {[s EXCEPT !.active = Inactive, !.state = "PREPARED"]}

\* last_sequence is there exactly when there was an observation, and names it.
Complete(s, p) ==
    IF ~Identified(s, p) \/ p.sequence # s.active.last THEN {}
    ELSE {[s EXCEPT !.completed = @ \union {p.invocation}, !.active = Inactive,
                    !.state = "PREPARED"]}

ApplyMessage(s, message) ==
    IF Kind(message) \notin {"request", "notification"} THEN {}
    ELSE CASE message.method = "hello"        -> AcceptHello(s)
           [] message.method = "prepare"      -> AcceptPrepare(s)
           [] message.method = "capabilities" -> CheckCapabilities(s)
           [] message.method = "invoke"       -> BeginInvocation(s, message.params)
           [] message.method = "cancel"       -> RequestCancel(s, message.params)
           [] message.method = "reset"        -> ResetSession(s)
           [] message.method = "shutdown"     -> Shutdown(s)
           [] message.method = "observation"  -> ObserveNotification(s, message.params)
           [] message.method = "completed"    -> Complete(s, message.params)

-----------------------------------------------------------------------------
(* The reader.                                                             *)

\* Decode's loop over a line: with `left` bytes to go, whether the line is refused,
\* and what stays unread.  An oversized line is drained.
ReadLine ==
    [size \in 1..MaxLine |->
        LET read[left \in 0..size] ==
                LET fragment == Min({left, ReadBuffer})
                IN  IF size - left + fragment > MaxControlFrame + 2
                    THEN [refused |-> TRUE, rest |-> 0]
                    ELSE IF fragment = left THEN [refused |-> FALSE, rest |-> 0]
                    ELSE read[left - fragment]
        IN  read[size]]

\* stripNDJSONLineEnding leaves the frame; a line is its frame and LF or CRLF.
stripNDJSONLineEnding(line) == line.size - (IF line.crlf THEN 2 ELSE 1)

ValidateControlFrameSize(frame) == frame <= MaxControlFrame

DecodeControlFrame(line) ==
    LET frame == stripNDJSONLineEnding(line)
    IN  {message \in {line.message} : /\ frame > 0 /\ ValidateControlFrameSize(frame)
                                      /\ line.strict
                                      /\ Kind(message) # "invalid"
                                      /\ validateMethodPayload(message)}

DecodeLine(line) == IF ReadLine[line.size].refused THEN {} ELSE DecodeControlFrame(line)

-----------------------------------------------------------------------------
(* The session.                                                            *)

Request(method, i, a) == Message("integer", method, Params(i, a, Unsequenced))
Notification(method, i, a, n) == Message("absent", method, Params(i, a, n))

\* The requests that Core makes.
Requests == {Request(method, "none", "none") : method \in requestMethods \ {"invoke", "cancel"}}
            \union {Request("cancel", i, "none") : i \in Invocations}
            \union UNION {{Request("invoke", i, a) : a \in Attempts} : i \in Invocations}

\* Frames that no conforming peer sends: one thing is wrong with each.
Malformed(message) ==
    {[message EXCEPT !.jsonrpc = "1.0"], [message EXCEPT !.method = "unknown"],
     [message EXCEPT !.method = "", !.hasParams = FALSE, !.result = TRUE],
     [message EXCEPT !.method = "", !.hasParams = FALSE, !.error = "unclassified"],
     [message EXCEPT !.result = TRUE], [message EXCEPT !.hasParams = FALSE]}
    \union {[message EXCEPT !.id = id] : id \in {"absent", "null", "fraction", "integer"}}
    \union {[message EXCEPT !.params.bad = {field}] : field \in Fields(message.method)}

Notifications == {Notification("observation", i, a, n) :
                      i \in Invocations, a \in Attempts, n \in 0..MaxObservation}
                 \union {Notification("completed", i, a, n) :
                      i \in Invocations, a \in Attempts, n \in Unsequenced..MaxObservation}

\* The lines that may be on the stream; what is left of a line reads as anything.
Lines ==
    IF remainder > 0
    THEN [size : {remainder}, crlf : {FALSE}, strict : {TRUE}, message : Notifications]
    ELSE LET genuine == Requests \union sent
         IN  [size : 2..MaxLine, crlf : BOOLEAN, strict : {TRUE}, message : genuine]
             \union {[size |-> 2, crlf |-> FALSE, strict |-> m \notin genuine, message |-> m] :
                        m \in genuine \union UNION {Malformed(g) : g \in genuine}}

\* The driver starts what the machine was told of.
Started(s) == IF s.state # "INVOKING" \/ s.active.invocation \in DOMAIN driver THEN driver
              ELSE [i \in DOMAIN driver \union {s.active.invocation} |->
                      IF i \in DOMAIN driver THEN driver[i]
                      ELSE [attempt |-> s.active.attempt, last |-> Unsequenced, done |-> FALSE]]

\* A line is decoded and its message applied.
Receive(line) ==
    LET applied == UNION {ApplyMessage(session, m) : m \in DecodeLine(line)}
        i       == line.message.params.invocation
    IN  /\ remainder' = ReadLine[line.size].rest
        /\ IF applied = {} THEN UNCHANGED <<session, driver, transcript>>
           ELSE /\ session' \in applied
                /\ driver' = Started(session')
                /\ transcript' = IF line.message.method \in notificationMethods
                                 THEN [transcript EXCEPT ![i] = Append(@, line.message)]
                                 ELSE transcript
        /\ UNCHANGED sent

\* The driver observes something or comes to an end.
Notify(i) ==
    /\ i \in DOMAIN driver /\ ~driver[i].done
    /\ \/ \E n \in (driver[i].last + 1)..MaxObservation :
             /\ sent' = sent \union {Notification("observation", i, driver[i].attempt, n)}
             /\ driver' = [driver EXCEPT ![i].last = n]
       \/ /\ sent' = sent \union {Notification("completed", i, driver[i].attempt, driver[i].last)}
          /\ driver' = [driver EXCEPT ![i].done = TRUE]
    /\ UNCHANGED <<session, remainder, transcript>>

DriverNext == \/ \E line \in Lines : Receive(line)
              \/ \E i \in Invocations : Notify(i)

DriverSpec == DriverInit /\ [][DriverNext]_driverVars

-----------------------------------------------------------------------------
\* Whatever is lost, repeated, overtaken or too long, the machine's account of an
\* invocation holds only what the driver sent for it, in increasing order; the
\* completion comes once and last, and an account with a completion ends with the
\* last observation the driver made.
TranscriptExact ==
    \A i \in Invocations :
        LET account == transcript[i]
            n       == Len(account)
            sequenceOf(k) == account[k].params.sequence
        IN  /\ \A k \in 1..n : account[k] \in sent
            /\ \A k \in 1..(n - 1) : account[k].method = "observation"
            /\ \A k \in 1..(n - 1) : account[k + 1].method = "observation" =>
                                        sequenceOf(k) < sequenceOf(k + 1)
            /\ (n > 0 /\ account[n].method = "completed") <=> i \in session.completed
            /\ i \in session.completed =>
                  /\ driver[i].done
                  /\ driver[i].last = IF n > 1 THEN sequenceOf(n - 1) ELSE Unsequenced
=============================================================================
