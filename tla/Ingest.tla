------------------------------- MODULE Ingest -------------------------------
(***************************************************************************)
(* The registry's upload sessions: the handlers prepare, stageUpload and   *)
(* commit of internal/registry/httpapi, the session of                     *)
(* internal/registry/ingest.go, and the two stores under them.  A handler  *)
(* is cut at each of its store calls, because other requests run between   *)
(* them; the time a handler works with is the one ServeHTTP read when the  *)
(* request arrived.                                                        *)
(*                                                                         *)
(* The stores differ in what GetIngest returns.  The memory store hands    *)
(* out the session itself, shared by all requests and locked for each      *)
(* transition; the SQLite store restores a copy of the row, and            *)
(* UpdateIngest writes the whole row back.                                 *)
(*                                                                         *)
(* An upload stands for a request body: its raw digest and size, the       *)
(* observation ID computed from it, and whether it leaves the fields alone *)
(* that the registry derives.  The verifier service is not in the          *)
(* repository; its calls of the session are modelled, under the            *)
(* at-least-once delivery that ingest.go expects.                          *)
(***************************************************************************)
EXTENDS Naturals, FiniteSets

CONSTANTS Sessions, Uploads, Requests, Principals,
          Scopes,     \* the scopes of each principal's bearer token
          Classes,    \* quarantine classes
          Backends,   \* the stores a behaviour may run with
          NoRow,      \* no such session, observation or class
          TTL,        \* SessionTTL
          TokenTTL,   \* lifetime of the configured bearer token
          MaxTime,    \* bound on the clock
          MaxFaults   \* bound on failed calls and crashes

ASSUME IngestConstants ==
    /\ \A u \in Uploads : DOMAIN u = {"raw", "id", "size", "clean"} /\ u.id # NoRow
    /\ Scopes \in [Principals -> SUBSET {"prepare", "commit"}]
    /\ Backends \subseteq {"memory", "sqlite"}
    /\ NoRow \notin Classes
    /\ TTL \in Nat \ {0} /\ TokenTTL \in Nat /\ MaxTime \in Nat /\ MaxFaults \in Nat

VARIABLES backend,     \* the store the server was started with
          clock,
          tokenUntil,  \* expiry of the bearer tokens
          rows,        \* the ingest records
          staged,      \* the staged observation of each session: its ID
          req,         \* the request each handler goroutine is working on
          acked,       \* sessions whose commit has been recorded
          faults

ingestVars == <<backend, clock, tokenUntil, rows, staged, req, acked, faults>>

Post == {"committed", "validating", "quarantined", "published"}

Idle == [pc |-> "idle"]

IngestInit == /\ backend \in Backends
              /\ clock = 0
              /\ tokenUntil = TokenTTL
              /\ rows = [s \in Sessions |-> NoRow]
              /\ staged = [s \in Sessions |-> NoRow]
              /\ req = [r \in Requests |-> Idle]
              /\ acked = {}
              /\ faults = 0

-----------------------------------------------------------------------------
(* The session.  Each operation gives the session after it, or NoRow when  *)
(* it returns an error and leaves the session alone.                       *)

expired(now, row) == now >= row.expires

PrepareIngest(p, u, expires, now) ==
    IF "prepare" \notin Scopes[p] \/ expires <= now THEN NoRow
    ELSE [owner |-> p, expected |-> u.id, upload |-> u.raw, size |-> u.size,
          staged |-> NoRow, expires |-> expires, status |-> "prepared", class |-> NoRow]

\* Faulty variant: the expiry is tested before the repeated upload is recognised.
StageExpiryFirst(row, p, u, now) ==
    IF "prepare" \notin Scopes[p] \/ p # row.owner \/ u.id # row.expected
       \/ expired(now, row)
    THEN NoRow
    ELSE IF row.status = "staged" THEN row
    ELSE IF row.status # "prepared" THEN NoRow
    ELSE [row EXCEPT !.status = "staged", !.staged = u.id]

\* Faulty variant: any session takes its upload again.
StageAgain(row, p, u, now) ==
    IF "prepare" \notin Scopes[p] \/ p # row.owner \/ u.id # row.expected
    THEN NoRow
    ELSE IF expired(now, row) THEN NoRow
    ELSE [row EXCEPT !.status = "staged", !.staged = u.id]

Stage(row, p, u, now) ==
    IF "prepare" \notin Scopes[p] \/ p # row.owner \/ u.id # row.expected
    THEN NoRow
    ELSE IF row.status = "staged" /\ row.staged = u.id THEN row
    ELSE IF row.status # "prepared" \/ expired(now, row) THEN NoRow
    ELSE [row EXCEPT !.status = "staged", !.staged = u.id]

Commit(row, p, u, now) ==
    IF \/ "commit" \notin Scopes[p] \/ p # row.owner \/ u.id # row.expected
       \/ row.staged \notin {NoRow, u.id}
    THEN NoRow
    ELSE IF row.status \in Post THEN row
    ELSE IF row.status # "staged" \/ expired(now, row) THEN NoRow
    ELSE [row EXCEPT !.status = "committed"]

BeginValidation(row) ==
    CASE row.status = "committed"  -> [row EXCEPT !.status = "validating"]
      [] row.status = "validating" -> row
      [] OTHER -> NoRow

Publish(row) ==
    CASE row.status = "validating" -> [row EXCEPT !.status = "published"]
      [] row.status = "published"  -> row
      [] OTHER -> NoRow

Quarantine(row, class) ==
    CASE row.status = "validating" -> [row EXCEPT !.status = "quarantined",
                                                  !.class = class]
      [] row.status = "quarantined" /\ row.class = class -> row
      [] OTHER -> NoRow

\* What RestoreIngest accepts.
Restorable(row) == /\ (row.status = "prepared") = (row.staged = NoRow)
                   /\ (row.status = "quarantined") = (row.class # NoRow)

-----------------------------------------------------------------------------
(* Handlers.                                                               *)

At(r, pc) == req[r].pc = pc
Goto(r, pc) == req' = [req EXCEPT ![r].pc = pc]
Reply(r) == req' = [req EXCEPT ![r] = Idle]

\* authenticate: the token is current at the request's time and has the scope.
Authenticated(p, scope) == clock < tokenUntil /\ scope \in Scopes[p]

\* INSERT ... ON CONFLICT DO NOTHING, or the same under the lock of the memory.
CreateIngest(s, row) == rows[s] = NoRow /\ rows' = [rows EXCEPT ![s] = row]

\* prepare: one store call, with a fresh session ID.
Prepare(p, s, u) ==
    /\ Authenticated(p, "prepare")
    /\ PrepareIngest(p, u, clock + TTL, clock) # NoRow
    /\ CreateIngest(s, PrepareIngest(p, u, clock + TTL, clock))
    /\ UNCHANGED <<backend, clock, tokenUntil, staged, req, acked, faults>>

\* ServeHTTP reads the clock and the handler authenticates; a request that fails
\* here changes nothing.
Arrive(r, kind, p, s, u) ==
    /\ At(r, "idle")
    /\ Authenticated(p, IF kind = "stage" THEN "prepare" ELSE "commit")
    /\ req' = [req EXCEPT ![r] = [pc |-> "arrived", kind |-> kind, p |-> p, s |-> s,
                                  up |-> u, now |-> clock, copy |-> NoRow]]
    /\ UNCHANGED <<backend, clock, tokenUntil, rows, staged, acked, faults>>

\* The verifier delivers a step for a session, possibly again.
Deliver(r, kind, s, class) ==
    /\ At(r, "idle")
    /\ req' = [req EXCEPT ![r] = [pc |-> "arrived", kind |-> kind, s |-> s,
                                  class |-> class, copy |-> NoRow]]
    /\ UNCHANGED <<backend, clock, tokenUntil, rows, staged, acked, faults>>

\* The checks between GetIngest and the session's transition.
StageAdmits(row, q) == /\ row.owner = q.p
                       /\ q.up.size = row.size
                       /\ q.up.raw = row.upload
                       /\ q.up.clean
                       /\ q.up.id = row.expected

CommitAdmits(row, q) == row.owner = q.p /\ q.up.raw = row.upload

GetIngest(r) ==
    /\ At(r, "arrived")
    /\ LET row == rows[req[r].s]
       IN  IF /\ row # NoRow /\ Restorable(row)
              /\ req[r].kind = "stage" => StageAdmits(row, req[r])
              /\ req[r].kind = "commit" => CommitAdmits(row, req[r])
           THEN req' = [req EXCEPT ![r].copy = IF backend = "sqlite" THEN row ELSE @,
                                   ![r].pc = IF req[r].kind = "commit"
                                             THEN "lookup" ELSE "apply"]
           ELSE Reply(r)
    /\ UNCHANGED <<backend, clock, tokenUntil, rows, staged, acked, faults>>

\* Faulty variant: commit does not ask for the staged observation.
LookupSkipped(r) ==
    /\ At(r, "lookup")
    /\ Goto(r, "apply")
    /\ UNCHANGED <<backend, clock, tokenUntil, rows, staged, acked, faults>>

\* commit: GetStagedObservation, and its ID is the one the client commits.
GetStagedObservation(r) ==
    /\ At(r, "lookup")
    /\ IF staged[req[r].s] = req[r].up.id THEN Goto(r, "apply") ELSE Reply(r)
    /\ UNCHANGED <<backend, clock, tokenUntil, rows, staged, acked, faults>>

Transition(row, q) ==
    CASE q.kind = "stage"      -> Stage(row, q.p, q.up, q.now)
      [] q.kind = "commit"     -> Commit(row, q.p, q.up, q.now)
      [] q.kind = "validate"   -> BeginValidation(row)
      [] q.kind = "publish"    -> Publish(row)
      [] q.kind = "quarantine" -> Quarantine(row, q.class)

\* The session's transition: on the shared session, or on this request's copy.
Apply(r) ==
    /\ At(r, "apply")
    /\ LET s    == req[r].s
           next == Transition(IF backend = "memory" THEN rows[s] ELSE req[r].copy, req[r])
       IN  IF next = NoRow
           THEN Reply(r) /\ UNCHANGED rows
           ELSE IF backend = "memory"
           THEN Goto(r, "update") /\ rows' = [rows EXCEPT ![s] = next]
           ELSE req' = [req EXCEPT ![r].copy = next, ![r].pc = "update"] /\ UNCHANGED rows
    /\ UNCHANGED <<backend, clock, tokenUntil, staged, acked, faults>>

\* UpdateIngest.  commit then calls EnqueueVerification, which neither store
\* implements, and replies 501 with the commit recorded.
UpdateIngest(r) ==
    /\ At(r, "update")
    /\ rows' = IF backend = "memory" THEN rows
               ELSE [rows EXCEPT ![req[r].s] = req[r].copy]
    /\ acked' = IF req[r].kind = "commit" THEN acked \union {req[r].s} ELSE acked
    /\ IF req[r].kind = "stage" THEN Goto(r, "put") ELSE Reply(r)
    /\ UNCHANGED <<backend, clock, tokenUntil, staged, faults>>

\* PutStagedObservation: one critical section in memory; in SQLite a SELECT, and
\* for a session without an observation an INSERT.
PutStagedObservation(r) ==
    /\ At(r, "put")
    /\ LET s == req[r].s
       IN  IF staged[s] # NoRow THEN Reply(r) /\ UNCHANGED staged
           ELSE IF backend = "memory"
           THEN staged' = [staged EXCEPT ![s] = req[r].up.id] /\ Reply(r)
           ELSE Goto(r, "insert") /\ UNCHANGED staged
    /\ UNCHANGED <<backend, clock, tokenUntil, rows, acked, faults>>

\* INSERT ... ON CONFLICT DO NOTHING; a conflict is replied as ErrAlreadyExists.
InsertStaged(r) ==
    /\ At(r, "insert")
    /\ staged' = [staged EXCEPT ![req[r].s] = IF @ = NoRow THEN req[r].up.id ELSE @]
    /\ Reply(r)
    /\ UNCHANGED <<backend, clock, tokenUntil, rows, acked, faults>>

\* A store call fails or its context is cancelled; or the upload's body, read
\* between GetIngest and Stage, does not arrive.
Abandon(r) ==
    /\ ~At(r, "idle")
    /\ backend = "sqlite" \/ (At(r, "apply") /\ req[r].kind = "stage")
    /\ faults < MaxFaults
    /\ faults' = faults + 1
    /\ Reply(r)
    /\ UNCHANGED <<backend, clock, tokenUntil, rows, staged, acked>>

\* The process ends and is started again: serve opens the store, which migrates
\* nothing that is already there, and configures the token anew.
Restart ==
    /\ faults < MaxFaults
    /\ faults' = faults + 1
    /\ req' = [r \in Requests |-> Idle]
    /\ tokenUntil' = clock + TokenTTL
    /\ IF backend = "sqlite" THEN UNCHANGED <<rows, staged, acked>>
       ELSE /\ rows' = [s \in Sessions |-> NoRow]
            /\ staged' = [s \in Sessions |-> NoRow]
            /\ acked' = {}
    /\ UNCHANGED <<backend, clock>>

Tick == /\ clock < MaxTime
        /\ clock' = clock + 1
        /\ UNCHANGED <<backend, tokenUntil, rows, staged, req, acked, faults>>

-----------------------------------------------------------------------------
Handles(r, kinds) == ~At(r, "idle") /\ req[r].kind \in kinds

stageUpload(r) ==
    /\ Handles(r, {"stage"})
    /\ \/ GetIngest(r) \/ Apply(r) \/ UpdateIngest(r)
       \/ PutStagedObservation(r) \/ InsertStaged(r)

commit(r) ==
    /\ Handles(r, {"commit"})
    /\ GetIngest(r) \/ GetStagedObservation(r) \/ Apply(r) \/ UpdateIngest(r)

VerifierStep(r) ==
    /\ Handles(r, {"validate", "publish", "quarantine"})
    /\ GetIngest(r) \/ Apply(r) \/ UpdateIngest(r)

Step(r) == stageUpload(r) \/ commit(r) \/ VerifierStep(r)

Submit(r) == \E p \in Principals, s \in Sessions, u \in Uploads :
                \E kind \in {"stage", "commit"} : Arrive(r, kind, p, s, u)

Verifier(r) == \E s \in Sessions :
                  \/ \E kind \in {"validate", "publish"} : Deliver(r, kind, s, NoRow)
                  \/ \E class \in Classes : Deliver(r, "quarantine", s, class)

IngestNext ==
    \/ \E p \in Principals, s \in Sessions, u \in Uploads : Prepare(p, s, u)
    \/ \E r \in Requests : Submit(r) \/ Verifier(r) \/ Step(r) \/ Abandon(r)
    \/ Restart \/ Tick

IngestSpec == IngestInit /\ [][IngestNext]_ingestVars

\* The owner uploads again what was prepared for s.
Retry(s) ==
    \E r \in Requests, u \in Uploads :
        /\ rows[s] # NoRow /\ StageAdmits(rows[s], [p |-> rows[s].owner, up |-> u])
        /\ Arrive(r, "stage", rows[s].owner, s, u)

\* Handler goroutines run, and owners repeat an upload until it is answered.
IngestFairSpec ==
    /\ IngestSpec
    /\ \A r \in Requests : WF_ingestVars(Step(r))
    /\ \A s \in Sessions : SF_ingestVars(Retry(s))

-----------------------------------------------------------------------------
(* Properties.                                                             *)

\* A recorded commit never lacks its observation, whatever requests, failed
\* calls and restarts came between stageUpload's UpdateIngest and its
\* PutStagedObservation: commit looks the observation up before the transition.
CommittedHasObservation ==
    \A s \in Sessions : rows[s] # NoRow =>
        (rows[s].status \in Post => staged[s] = rows[s].expected)

\* A session left without its observation after UpdateIngest is not stuck: while
\* the token is valid an owner that repeats the upload gets it stored, even
\* after the session has expired.
UploadCompletes ==
    \A s \in Sessions :
        (rows[s] # NoRow /\ rows[s].status = "staged" /\ staged[s] = NoRow)
        ~> (staged[s] # NoRow \/ rows[s] = NoRow \/ clock >= tokenUntil)

\* The sessions in the promise's terms.  It is claimed of the memory store only; in
\* the other behaviours the sessions count as absent.
Stages == [s \in Sessions |-> IF backend # "memory" \/ rows[s] = NoRow THEN "absent"
                              ELSE rows[s].status]

Promise == INSTANCE IngestAbstract WITH stage <- Stages

\* With the memory store a session only moves forward and a verifier's decision
\* is final, under repeated requests and repeated verifier deliveries.
MemoryKeepsPromise == Promise!AbsSpec

\* ingest.go:155, "Once a commit has succeeded, replaying it remains successful
\* even if the upload session subsequently expires or validation advances."
CommitReplaySucceeds ==
    \A s \in acked, u \in Uploads :
        u.id = rows[s].expected => Commit(rows[s], rows[s].owner, u, clock) # NoRow

=============================================================================
