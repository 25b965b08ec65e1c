---------------------------- MODULE IngestProofs ----------------------------
(***************************************************************************)
(* What the registry takes in and shows.  The upload sessions, for any     *)
(* number of sessions, requests, uploads, failures and restarts: a         *)
(* recorded commit has its observation, with both stores, and with the     *)
(* memory store a session keeps the promise of IngestAbstract.  The        *)
(* catalogue, for any number of observations and clients: one that pages   *)
(* to the end misses nothing that was there when it began.                 *)
(***************************************************************************)
EXTENDS Ingest, Catalogue, SequenceTheorems, FiniteSetTheorems, WellFoundedInduction, TLAPS

Ids == {u.id : u \in Uploads}

Rows == [owner : Principals, expected : Ids, upload : {u.raw : u \in Uploads},
         size : {u.size : u \in Uploads}, staged : Ids \union {NoRow}, expires : Nat,
         status : {"prepared", "staged"} \union Post, class : Classes \union {NoRow}]

Busy == {"arrived", "lookup", "apply", "update", "put", "insert"}

UserJobs == [pc : Busy, kind : {"stage", "commit"}, p : Principals, s : Sessions,
             up : Uploads, now : Nat, copy : Rows \union {NoRow}]

VerifierJobs == [pc : Busy, kind : {"validate", "publish", "quarantine"}, s : Sessions,
                 class : Classes \union {NoRow}, copy : Rows \union {NoRow}]

IngestTypeOK == /\ backend \in {"memory", "sqlite"}
                /\ clock \in Nat
                /\ rows \in [Sessions -> Rows \union {NoRow}]
                /\ staged \in [Sessions -> Ids \union {NoRow}]
                /\ req \in [Requests -> UserJobs \union VerifierJobs \union {Idle}]

\* The session a request works on: the shared one, or the request's copy.
WorksOn(q, b, rw) == IF b = "memory" THEN rw[q.s] ELSE q.copy

\* A request between its reads and its write works on a session that is there and
\* never on one further than the stored observation allows; and what commit found
\* in GetStagedObservation is still there at its transition.
JobOK(q, b, rw, st) ==
    /\ q.pc \in {"lookup", "apply", "update"} =>
          /\ WorksOn(q, b, rw) \in Rows \ {NoRow}
          /\ WorksOn(q, b, rw).status \in Post => st[q.s] = WorksOn(q, b, rw).expected
    /\ q.pc = "apply" /\ q.kind = "commit" => st[q.s] = q.up.id

JobsInv == \A r \in Requests : JobOK(req[r], backend, rows, staged)

IngestInv == IngestTypeOK /\ CommittedHasObservation /\ JobsInv

-----------------------------------------------------------------------------
\* A prepared session is a row of its type, and not committed.
LEMMA PreparedRow ==
  ASSUME NEW p \in Principals, NEW u \in Uploads, NEW expires \in Nat, NEW now \in Nat,
         PrepareIngest(p, u, expires, now) # NoRow
  PROVE  /\ PrepareIngest(p, u, expires, now) \in Rows
         /\ PrepareIngest(p, u, expires, now).status = "prepared"
  BY DEF PrepareIngest, Rows, Ids

\* The transition of a client's request keeps the session's observation ID, moves
\* it at most one stage, and commits only the ID the client names.
LEMMA UserTransition ==
  ASSUME NEW row \in Rows, NEW q \in UserJobs, Transition(row, q) # NoRow
  PROVE  /\ Transition(row, q) \in Rows
         /\ Transition(row, q).expected = row.expected
         /\ \/ Transition(row, q) = row
            \/ row.status = "prepared" /\ Transition(row, q).status = "staged"
            \/ row.status = "staged" /\ Transition(row, q).status = "committed"
         /\ q.kind = "stage" => Transition(row, q).status = "staged"
         /\ q.kind = "commit" => row.expected = q.up.id
<1>1. CASE q.kind = "stage"
  <2>1. Transition(row, q) = Stage(row, q.p, q.up, q.now)
    BY <1>1 DEF Transition
  <2>2. q.up.id \in Ids
    BY DEF UserJobs, Ids
  <2>3. CASE Transition(row, q) = row
    <3>1. row.status = "staged"
      BY <2>1, <2>3, Zenon DEF Stage, Rows
    <3> QED BY <1>1, <2>3, <3>1
  <2>4. CASE Transition(row, q) # row
    <3>1. /\ row.status = "prepared"
          /\ Transition(row, q) = [row EXCEPT !.status = "staged", !.staged = q.up.id]
      BY <2>1, <2>4 DEF Stage
    <3> QED BY <1>1, <2>2, <3>1, Zenon DEF Rows
  <2> QED BY <2>3, <2>4
<1>2. CASE q.kind = "commit"
  <2>1. Transition(row, q) = Commit(row, q.p, q.up, q.now)
    BY <1>2 DEF Transition
  <2> QED BY <1>2, <2>1 DEF Commit, Rows, Post
<1> QED BY <1>1, <1>2 DEF UserJobs

\* The verifier only touches committed sessions, and moves them one stage.
LEMMA VerifierTransition ==
  ASSUME NEW row \in Rows, NEW q \in VerifierJobs, Transition(row, q) # NoRow
  PROVE  /\ Transition(row, q) \in Rows
         /\ Transition(row, q).expected = row.expected
         /\ row.status \in Post
         /\ \/ Transition(row, q) = row
            \/ row.status = "committed" /\ Transition(row, q).status = "validating"
            \/ /\ row.status = "validating"
               /\ Transition(row, q).status \in {"published", "quarantined"}
<1>1. CASE q.kind = "validate"
  <2>1. Transition(row, q) = BeginValidation(row)
    BY <1>1 DEF Transition
  <2> QED BY <2>1 DEF BeginValidation, Rows, Post
<1>2. CASE q.kind = "publish"
  <2>1. Transition(row, q) = Publish(row)
    BY <1>2 DEF Transition
  <2> QED BY <2>1 DEF Publish, Rows, Post
<1>3. CASE q.kind = "quarantine"
  <2>1. Transition(row, q) = Quarantine(row, q.class)
    BY <1>3 DEF Transition
  <2>2. q.class \in Classes \union {NoRow}
    BY DEF VerifierJobs
  <2>3. CASE row.status = "validating"
    <3>1. Transition(row, q) = [row EXCEPT !.status = "quarantined", !.class = q.class]
      BY <2>1, <2>3 DEF Quarantine
    <3> QED BY <2>2, <2>3, <3>1, Zenon DEF Rows, Post
  <2>4. CASE row.status # "validating"
    <3>1. Transition(row, q) = row /\ row.status = "quarantined"
      BY <2>1, <2>4 DEF Quarantine
    <3> QED BY <3>1 DEF Post
  <2> QED BY <2>3, <2>4
<1> QED BY <1>1, <1>2, <1>3 DEF VerifierJobs

\* No observation has the ID that stands for none.
LEMMA IdsPresent == NoRow \notin Ids
  BY IngestConstants DEF Ids

\* The invariant stays while one request moves on and nothing else changes.
LEMMA OneRequestMoves ==
  ASSUME IngestInv, NEW r \in Requests,
         NEW job \in UserJobs \union VerifierJobs \union {Idle},
         JobOK(job, backend, rows, staged),
         req' = [req EXCEPT ![r] = job],
         UNCHANGED <<backend, clock, rows, staged>>
  PROVE  IngestInv'
<1>1. IngestTypeOK'
  BY DEF IngestInv, IngestTypeOK
<1>2. CommittedHasObservation'
  BY DEF IngestInv, CommittedHasObservation
<1>3. JobsInv'
  BY DEF IngestInv, IngestTypeOK, JobsInv
<1> QED BY <1>1, <1>2, <1>3 DEF IngestInv

\* A request that has been answered.
LEMMA IdleOK == \A b, rw, st : JobOK(Idle, b, rw, st)
  BY DEF JobOK, Idle

\* A busy request is a client's or the verifier's.
LEMMA BusyJob ==
  ASSUME IngestTypeOK, NEW r \in Requests, req[r].pc # "idle"
  PROVE  req[r] \in UserJobs \union VerifierJobs
  BY DEF IngestTypeOK, Idle

\* Observations are only ever added: what rests on one keeps it.
LEMMA ObservationStays ==
  ASSUME IngestInv, NEW s \in Sessions, NEW id \in Ids, staged[s] = NoRow,
         staged' = [staged EXCEPT ![s] = id],
         NEW r \in Requests, req' = [req EXCEPT ![r] = Idle],
         UNCHANGED <<backend, clock, rows>>
  PROVE  IngestInv'
<1>1. IngestTypeOK'
  BY DEF IngestInv, IngestTypeOK
<1>2. CommittedHasObservation'
  BY IdsPresent DEF IngestInv, IngestTypeOK, CommittedHasObservation, Rows
<1>3. JobsInv'
  <2> SUFFICES ASSUME NEW x \in Requests
               PROVE  JobOK(req'[x], backend, rows, staged')
    BY Zenon DEF JobsInv
  <2>1. CASE x = r
    BY <2>1, IdleOK DEF IngestInv, IngestTypeOK
  <2>2. CASE x # r /\ req[x].pc \in {"lookup", "apply", "update"}
    <3>1. req'[x] = req[x] /\ JobOK(req[x], backend, rows, staged)
      BY <2>2 DEF IngestInv, IngestTypeOK, JobsInv
    <3>2. req[x].s \in Sessions
      BY <2>2, BusyJob DEF IngestInv, UserJobs, VerifierJobs
    <3>3. req[x].kind = "commit" => req[x].up.id \in Ids
      BY <2>2, BusyJob DEF IngestInv, UserJobs, VerifierJobs, Ids
    <3>4. \A row \in Rows : row.expected \in Ids
      BY DEF Rows
    <3> QED BY <2>2, <3>1, <3>2, <3>3, <3>4, IdsPresent DEF JobOK, IngestInv, IngestTypeOK
  <2>3. CASE x # r /\ req[x].pc \notin {"lookup", "apply", "update"}
    BY <2>3 DEF IngestInv, IngestTypeOK, JobOK
  <2> QED BY <2>1, <2>2, <2>3
<1> QED BY <1>1, <1>2, <1>3 DEF IngestInv

-----------------------------------------------------------------------------
(* One lemma per action that changes a session or an observation.          *)

\* A prepared session has nothing to be backed by.
LEMMA PreparePreserves ==
  ASSUME IngestInv, NEW p \in Principals, NEW s \in Sessions, NEW u \in Uploads,
         Prepare(p, s, u)
  PROVE  IngestInv'
<1> DEFINE row == PrepareIngest(p, u, clock + TTL, clock)
<1>1. row \in Rows \ {NoRow} /\ row.status = "prepared"
  BY PreparedRow, IngestConstants DEF Prepare, IngestInv, IngestTypeOK
<1>2. rows[s] = NoRow /\ rows' = [rows EXCEPT ![s] = row]
  BY DEF Prepare, CreateIngest
<1>3. UNCHANGED <<backend, clock, staged, req>>
  BY DEF Prepare
<1> HIDE DEF row
<1>4. IngestTypeOK'
  BY <1>1, <1>2, <1>3 DEF IngestInv, IngestTypeOK
<1>5. CommittedHasObservation'
  BY <1>1, <1>2, <1>3 DEF IngestInv, IngestTypeOK, CommittedHasObservation, Post
<1>6. JobsInv'
  <2> SUFFICES ASSUME NEW x \in Requests
               PROVE  JobOK(req[x], backend, rows', staged)
    BY <1>3 DEF JobsInv
  <2>1. JobOK(req[x], backend, rows, staged)
    BY DEF IngestInv, JobsInv
  <2>2. req[x].pc # "idle" => req[x].s \in Sessions
    BY BusyJob DEF IngestInv, UserJobs, VerifierJobs
  <2> QED BY <1>1, <1>2, <2>1, <2>2 DEF JobOK, WorksOn, IngestInv, IngestTypeOK, Post
<1> QED BY <1>4, <1>5, <1>6 DEF IngestInv

\* A request begins.
LEMMA ArrivePreserves ==
  ASSUME IngestInv, NEW r \in Requests, Submit(r) \/ Verifier(r)
  PROVE  IngestInv'
<1>1. \E job \in UserJobs \union VerifierJobs :
         job.pc = "arrived" /\ req' = [req EXCEPT ![r] = job]
  <2>1. CASE Submit(r)
    <3>1. PICK p \in Principals, s \in Sessions, u \in Uploads, kind \in {"stage", "commit"} :
            Arrive(r, kind, p, s, u)
      BY <2>1 DEF Submit
    <3> DEFINE job == [pc |-> "arrived", kind |-> kind, p |-> p, s |-> s,
                       up |-> u, now |-> clock, copy |-> NoRow]
    <3>2. job \in UserJobs
      BY DEF UserJobs, Busy, IngestInv, IngestTypeOK
    <3>3. job.pc = "arrived" /\ req' = [req EXCEPT ![r] = job]
      BY <3>1 DEF Arrive
    <3> QED BY <3>2, <3>3, Zenon
  <2>2. CASE Verifier(r)
    <3>1. PICK s \in Sessions, kind \in {"validate", "publish", "quarantine"},
               class \in Classes \union {NoRow} : Deliver(r, kind, s, class)
      BY <2>2 DEF Verifier
    <3> DEFINE job == [pc |-> "arrived", kind |-> kind, s |-> s,
                       class |-> class, copy |-> NoRow]
    <3>2. job \in VerifierJobs
      BY DEF VerifierJobs, Busy
    <3>3. job.pc = "arrived" /\ req' = [req EXCEPT ![r] = job]
      BY <3>1 DEF Deliver
    <3> QED BY <3>2, <3>3, Zenon
  <2> QED BY <2>1, <2>2
<1>2. UNCHANGED <<backend, clock, rows, staged>>
  BY DEF Submit, Arrive, Verifier, Deliver
<1>3. PICK job \in UserJobs \union VerifierJobs :
        job.pc = "arrived" /\ req' = [req EXCEPT ![r] = job]
  BY <1>1, Zenon
<1>4. JobOK(job, backend, rows, staged)
  BY <1>3 DEF JobOK
<1> QED BY <1>2, <1>3, <1>4, OneRequestMoves, Zenon

\* A request is answered and nothing else changes.
LEMMA ReplyPreserves ==
  ASSUME IngestInv, NEW r \in Requests, Reply(r), UNCHANGED <<backend, clock, rows, staged>>
  PROVE  IngestInv'
  BY IdleOK, OneRequestMoves, Zenon DEF Reply

\* GetIngest: a copy of a row is backed as the row is.
LEMMA GetIngestPreserves ==
  ASSUME IngestInv, NEW r \in Requests, GetIngest(r)
  PROVE  IngestInv'
<1>1. UNCHANGED <<backend, clock, rows, staged>>
  BY DEF GetIngest
<1>2. CASE Reply(r)
  BY <1>1, <1>2, ReplyPreserves
<1>3. CASE ~Reply(r)
  <2> DEFINE s == req[r].s
             job == [req[r] EXCEPT !.copy = IF backend = "sqlite" THEN rows[s] ELSE @,
                                   !.pc = IF req[r].kind = "commit" THEN "lookup" ELSE "apply"]
  <2>1. req[r] \in UserJobs \union VerifierJobs
    BY BusyJob DEF GetIngest, At, IngestInv
  <2>2. s \in Sessions /\ rows[s] # NoRow
    BY <1>3, <2>1 DEF GetIngest, UserJobs, VerifierJobs
  <2>3. rows[s] \in Rows \ {NoRow} /\ (rows[s].status \in Post => staged[s] = rows[s].expected)
    BY <2>2 DEF IngestInv, IngestTypeOK, CommittedHasObservation
  <2>4. req' = [req EXCEPT ![r] = job]
    BY <1>3, <2>1, Zenon DEF GetIngest, IngestInv, IngestTypeOK
  <2>5. CASE req[r] \in UserJobs
    <3>1. job \in UserJobs /\ job.s = s /\ job.kind = req[r].kind
          /\ job.pc = (IF req[r].kind = "commit" THEN "lookup" ELSE "apply")
          /\ (backend = "sqlite" => job.copy = rows[s])
      BY <2>3, <2>5, Zenon DEF UserJobs, Busy
    <3> HIDE DEF job, s
    <3>2. JobOK(job, backend, rows, staged)
      BY <2>3, <3>1 DEF JobOK, WorksOn, IngestInv, IngestTypeOK
    <3> QED BY <1>1, <2>4, <3>1, <3>2, OneRequestMoves, Zenon
  <2>6. CASE req[r] \in VerifierJobs
    <3>1. job \in VerifierJobs /\ job.s = s /\ job.kind = req[r].kind
          /\ job.kind # "commit"
          /\ (backend = "sqlite" => job.copy = rows[s])
      BY <2>3, <2>6, Zenon DEF VerifierJobs, Busy
    <3> HIDE DEF job, s
    <3>2. JobOK(job, backend, rows, staged)
      BY <2>3, <3>1 DEF JobOK, WorksOn, IngestInv, IngestTypeOK
    <3> QED BY <1>1, <2>4, <3>1, <3>2, OneRequestMoves, Zenon
  <2> QED BY <2>1, <2>5, <2>6
<1> QED BY <1>2, <1>3

\* GetStagedObservation lets a commit go on only with its observation stored.
LEMMA LookupPreserves ==
  ASSUME IngestInv, NEW r \in Requests, GetStagedObservation(r), req[r].kind = "commit"
  PROVE  IngestInv'
<1>1. UNCHANGED <<backend, clock, rows, staged>>
  BY DEF GetStagedObservation
<1>2. CASE Reply(r)
  BY <1>1, <1>2, ReplyPreserves
<1>3. CASE ~Reply(r)
  <2> DEFINE job == [req[r] EXCEPT !.pc = "apply"]
  <2>1. req[r] \in UserJobs /\ req[r].pc = "lookup"
    BY BusyJob DEF GetStagedObservation, At, IngestInv, VerifierJobs
  <2>2. req' = [req EXCEPT ![r] = job] /\ staged[req[r].s] = req[r].up.id
    BY <1>3 DEF GetStagedObservation, Goto, IngestInv, IngestTypeOK
  <2>3. /\ job \in UserJobs /\ job.pc = "apply" /\ job.s = req[r].s
        /\ job.up = req[r].up /\ job.copy = req[r].copy
    BY <2>1 DEF UserJobs, Busy
  <2>4. JobOK(req[r], backend, rows, staged)
    BY DEF IngestInv, JobsInv
  <2> HIDE DEF job
  <2>5. JobOK(job, backend, rows, staged)
    BY <2>1, <2>2, <2>3, <2>4 DEF JobOK, WorksOn
  <2> QED BY <1>1, <2>2, <2>3, <2>5, OneRequestMoves, Zenon
<1> QED BY <1>2, <1>3

\* The transition of a request that has come to it gives a session that the stored
\* observation backs.
LEMMA TransitionBacked ==
  ASSUME IngestInv, NEW r \in Requests, req[r].pc = "apply",
         NEW row, row = WorksOn(req[r], backend, rows),
         Transition(row, req[r]) # NoRow
  PROVE  /\ Transition(row, req[r]) \in Rows
         /\ Transition(row, req[r]).status \in Post =>
               staged[req[r].s] = Transition(row, req[r]).expected
<1>1. /\ row \in Rows /\ (row.status \in Post => staged[req[r].s] = row.expected)
      /\ req[r].kind = "commit" => staged[req[r].s] = req[r].up.id
  BY DEF IngestInv, JobsInv, JobOK
<1>2. CASE req[r] \in UserJobs
  <2>1. req[r].kind \in {"stage", "commit"}
    BY <1>2 DEF UserJobs
  <2> DEFINE next == Transition(row, req[r])
  <2>2. /\ next \in Rows /\ next.expected = row.expected
        /\ \/ next = row
           \/ row.status = "prepared" /\ next.status = "staged"
           \/ row.status = "staged" /\ next.status = "committed"
        /\ req[r].kind = "stage" => next.status = "staged"
        /\ req[r].kind = "commit" => row.expected = req[r].up.id
    BY <1>1, <1>2, UserTransition
  <2> HIDE DEF next
  <2>3. next \in Rows /\ (next.status \in Post => staged[req[r].s] = next.expected)
    BY <1>1, <2>1, <2>2 DEF Post
  <2> QED BY <2>3 DEF next
<1>3. CASE req[r] \in VerifierJobs
  <2> DEFINE next == Transition(row, req[r])
  <2>1. next \in Rows /\ next.expected = row.expected /\ row.status \in Post
    BY <1>1, <1>3, VerifierTransition
  <2> QED BY <1>1, <2>1
<1> QED BY <1>2, <1>3, BusyJob DEF IngestInv

\* The transition, on the shared session or on the request's copy.
LEMMA ApplyPreserves ==
  ASSUME IngestInv, NEW r \in Requests, Apply(r)
  PROVE  IngestInv'
<1> DEFINE row == WorksOn(req[r], backend, rows)
           next == Transition(row, req[r])
<1>1. req[r].pc = "apply" /\ UNCHANGED <<backend, clock, staged>>
  BY DEF Apply, At
<1>2. /\ next = NoRow => Reply(r) /\ UNCHANGED rows
      /\ next # NoRow /\ backend = "memory" =>
            Goto(r, "update") /\ rows' = [rows EXCEPT ![req[r].s] = next]
      /\ next # NoRow /\ backend # "memory" =>
            /\ req' = [req EXCEPT ![r].copy = next, ![r].pc = "update"]
            /\ UNCHANGED rows
  BY DEF Apply, WorksOn
<1>3. req[r] \in UserJobs \union VerifierJobs
  BY <1>1, BusyJob DEF IngestInv
<1>4. next # NoRow =>
        /\ next \in Rows
        /\ next.status \in Post => staged[req[r].s] = next.expected
  BY <1>1, TransitionBacked
<1>5. req[r].s \in Sessions
  BY <1>3 DEF UserJobs, VerifierJobs
<1> HIDE DEF next
<1>6. CASE next = NoRow
  BY <1>1, <1>2, <1>6, ReplyPreserves
<1>7. CASE next # NoRow /\ backend = "memory"
  <2> DEFINE job == [req[r] EXCEPT !.pc = "update"]
  <2>1. req' = [req EXCEPT ![r] = job]
    BY <1>2, <1>7 DEF Goto, IngestInv, IngestTypeOK
  <2>2. job \in UserJobs \union VerifierJobs /\ job.s = req[r].s /\ job.pc = "update"
    BY <1>3 DEF UserJobs, VerifierJobs, Busy
  <2> HIDE DEF job
  <2>3. IngestTypeOK'
    BY <1>1, <1>2, <1>4, <1>7, <2>1, <2>2 DEF IngestInv, IngestTypeOK
  <2>4. CommittedHasObservation'
    BY <1>1, <1>2, <1>4, <1>5, <1>7 DEF IngestInv, IngestTypeOK, CommittedHasObservation
  <2>5. JobsInv'
    <3> SUFFICES ASSUME NEW x \in Requests
                 PROVE  JobOK(req'[x], backend, rows', staged)
      BY <1>1 DEF JobsInv
    <3>1. CASE x = r
      <4>1. req'[x] = job /\ rows'[job.s] = next
        BY <1>2, <1>5, <1>7, <2>1, <2>2, <3>1, SMTT(30) DEF IngestInv, IngestTypeOK
      <4> QED BY <1>4, <1>7, <2>2, <4>1 DEF JobOK, WorksOn
    <3>2. CASE x # r
      <4>1. req'[x] = req[x] /\ JobOK(req[x], backend, rows, staged)
        BY <2>1, <3>2 DEF IngestInv, IngestTypeOK, JobsInv
      <4>2. req[x].pc # "idle" => req[x].s \in Sessions
        BY BusyJob DEF IngestInv, UserJobs, VerifierJobs
      <4>3. req[x].pc # "idle" =>
              rows'[req[x].s] = IF req[x].s = req[r].s THEN next ELSE rows[req[x].s]
        BY <1>2, <1>7, <4>2 DEF IngestInv, IngestTypeOK
      <4> QED BY <1>4, <1>7, <4>1, <4>3 DEF JobOK, WorksOn
    <3> QED BY <3>1, <3>2
  <2> QED BY <2>3, <2>4, <2>5 DEF IngestInv
<1>8. CASE next # NoRow /\ backend # "memory"
  <2> DEFINE job == [req[r] EXCEPT !.copy = next, !.pc = "update"]
  <2>1. req' = [req EXCEPT ![r] = job]
    BY <1>2, <1>8, Zenon DEF IngestInv, IngestTypeOK
  <2>2. /\ job \in UserJobs \union VerifierJobs /\ job.s = req[r].s
        /\ job.pc = "update" /\ job.copy = next
    BY <1>3, <1>4, <1>8, Zenon DEF UserJobs, VerifierJobs, Busy
  <2> HIDE DEF job
  <2>3. JobOK(job, backend, rows, staged)
    BY <1>4, <1>8, <2>2 DEF JobOK, WorksOn
  <2> QED BY <1>1, <1>2, <1>8, <2>1, <2>2, <2>3, OneRequestMoves, Zenon
<1> QED BY <1>6, <1>7, <1>8

\* UpdateIngest writes a copy back that the stored observation backs.
LEMMA UpdatePreserves ==
  ASSUME IngestInv, NEW r \in Requests, UpdateIngest(r)
  PROVE  IngestInv'
<1> DEFINE s == req[r].s
           job == IF req[r].kind = "stage" THEN [req[r] EXCEPT !.pc = "put"] ELSE Idle
<1>1. req[r].pc = "update" /\ UNCHANGED <<backend, clock, staged>>
  BY DEF UpdateIngest, At
<1>2. req[r] \in UserJobs \union VerifierJobs
  BY <1>1, BusyJob DEF IngestInv
<1>3. s \in Sessions
  BY <1>2 DEF UserJobs, VerifierJobs
<1>4. req' = [req EXCEPT ![r] = job]
  BY DEF UpdateIngest, Goto, Reply, IngestInv, IngestTypeOK
<1>5. job \in UserJobs \union VerifierJobs \union {Idle} /\ job.pc \in {"put", "idle"}
  BY <1>2 DEF UserJobs, VerifierJobs, Busy, Idle
<1>6. JobOK(job, backend, rows', staged)
  BY <1>5 DEF JobOK
<1>7. backend # "memory" =>
        /\ req[r].copy \in Rows
        /\ req[r].copy.status \in Post => staged[s] = req[r].copy.expected
  BY <1>1 DEF IngestInv, JobsInv, JobOK, WorksOn
<1>8. rows' = IF backend = "memory" THEN rows ELSE [rows EXCEPT ![s] = req[r].copy]
  BY DEF UpdateIngest
<1> HIDE DEF job, s
<1>9. IngestTypeOK'
  BY <1>1, <1>4, <1>5, <1>7, <1>8, Zenon DEF IngestInv, IngestTypeOK
<1>10. CommittedHasObservation'
  BY <1>1, <1>3, <1>7, <1>8 DEF IngestInv, IngestTypeOK, CommittedHasObservation
<1>11. JobsInv'
  <2> SUFFICES ASSUME NEW x \in Requests
               PROVE  JobOK(req'[x], backend, rows', staged)
    BY <1>1 DEF JobsInv
  <2>1. CASE x = r
    BY <1>4, <1>6, <2>1 DEF IngestInv, IngestTypeOK
  <2>2. CASE x # r
    <3>1. req'[x] = req[x] /\ JobOK(req[x], backend, rows, staged)
      BY <1>4, <2>2 DEF IngestInv, IngestTypeOK, JobsInv
    <3> QED BY <1>8, <3>1 DEF JobOK, WorksOn
  <2> QED BY <2>1, <2>2
<1> QED BY <1>9, <1>10, <1>11 DEF IngestInv

\* PutStagedObservation never replaces an observation.
LEMMA PutPreserves ==
  ASSUME IngestInv, NEW r \in Requests, req[r].kind = "stage",
         PutStagedObservation(r) \/ InsertStaged(r)
  PROVE  IngestInv'
<1>1. req[r] \in UserJobs
  BY BusyJob DEF PutStagedObservation, InsertStaged, At, IngestInv, VerifierJobs
<1>2. req[r].s \in Sessions /\ req[r].up.id \in Ids
  BY <1>1 DEF UserJobs, Ids
<1>3. UNCHANGED <<backend, clock, rows>>
  BY DEF PutStagedObservation, InsertStaged
<1>4. CASE Reply(r) /\ UNCHANGED staged
  BY <1>3, <1>4, ReplyPreserves
<1>5. CASE Reply(r) /\ staged[req[r].s] = NoRow
           /\ staged' = [staged EXCEPT ![req[r].s] = req[r].up.id]
  BY <1>2, <1>3, <1>5, ObservationStays, Zenon DEF Reply
<1>6. CASE Goto(r, "insert") /\ UNCHANGED staged
  <2> DEFINE job == [req[r] EXCEPT !.pc = "insert"]
  <2>1. req' = [req EXCEPT ![r] = job]
    BY <1>6 DEF Goto, IngestInv, IngestTypeOK
  <2>2. job \in UserJobs /\ job.pc = "insert"
    BY <1>1 DEF UserJobs, Busy
  <2> HIDE DEF job
  <2>3. JobOK(job, backend, rows, staged)
    BY <2>2 DEF JobOK
  <2> QED BY <1>3, <1>6, <2>1, <2>2, <2>3, OneRequestMoves, Zenon
<1>7. CASE PutStagedObservation(r)
  BY <1>4, <1>5, <1>6, <1>7 DEF PutStagedObservation
<1>8. CASE InsertStaged(r)
  <2>1. CASE staged[req[r].s] = NoRow
    BY <1>2, <1>5, <1>8, <2>1, SMTT(30) DEF InsertStaged, IngestInv, IngestTypeOK
  <2>2. CASE staged[req[r].s] # NoRow
    <3>1. staged' = staged
      BY <1>2, <1>8, <2>2 DEF InsertStaged, IngestInv, IngestTypeOK
    <3> QED BY <1>4, <1>8, <3>1 DEF InsertStaged
  <2> QED BY <2>1, <2>2
<1> QED BY <1>7, <1>8

\* A restart leaves no request, and either every row or none.
LEMMA RestartPreserves ==
  ASSUME IngestInv, Restart
  PROVE  IngestInv'
<1>1. req' = [r \in Requests |-> Idle] /\ UNCHANGED <<backend, clock>>
  BY DEF Restart
<1>2. \/ UNCHANGED <<rows, staged>>
      \/ rows' = [s \in Sessions |-> NoRow] /\ staged' = [s \in Sessions |-> NoRow]
  BY DEF Restart
<1>3. IngestTypeOK'
  BY <1>1, <1>2 DEF IngestInv, IngestTypeOK
<1>4. CommittedHasObservation'
  BY <1>1, <1>2 DEF IngestInv, CommittedHasObservation
<1>5. JobsInv'
  BY <1>1, IdleOK DEF JobsInv
<1> QED BY <1>3, <1>4, <1>5 DEF IngestInv

\* Every step of a request preserves the invariant.
LEMMA StepPreserves ==
  ASSUME IngestInv, NEW r \in Requests, Step(r)
  PROVE  IngestInv'
<1>1. CASE GetIngest(r)
  BY <1>1, GetIngestPreserves
<1>2. CASE GetStagedObservation(r) /\ req[r].kind = "commit"
  BY <1>2, LookupPreserves
<1>3. CASE Apply(r)
  BY <1>3, ApplyPreserves
<1>4. CASE UpdateIngest(r)
  BY <1>4, UpdatePreserves
<1>5. CASE req[r].kind = "stage" /\ (PutStagedObservation(r) \/ InsertStaged(r))
  BY <1>5, PutPreserves
<1> QED BY <1>1, <1>2, <1>3, <1>4, <1>5
        DEF Step, stageUpload, commit, VerifierStep, Handles

\* It always holds.
LEMMA IngestInvariant == IngestSpec => []IngestInv
<1>1. IngestInit => IngestInv
  BY IngestConstants
     DEF IngestInit, IngestInv, IngestTypeOK, CommittedHasObservation, JobsInv, JobOK, Idle
<1>2. ASSUME IngestInv, [IngestNext]_ingestVars PROVE IngestInv'
  <2>1. ASSUME NEW p \in Principals, NEW s \in Sessions, NEW u \in Uploads,
               Prepare(p, s, u)
        PROVE  IngestInv'
    BY <1>2, <2>1, PreparePreserves
  <2>2. ASSUME NEW r \in Requests, Submit(r) \/ Verifier(r) PROVE IngestInv'
    BY <1>2, <2>2, ArrivePreserves
  <2>3. ASSUME NEW r \in Requests, Step(r) PROVE IngestInv'
    BY <1>2, <2>3, StepPreserves
  <2>4. ASSUME NEW r \in Requests, Abandon(r) PROVE IngestInv'
    <3>1. Reply(r) /\ UNCHANGED <<backend, clock, rows, staged>>
      BY <2>4 DEF Abandon
    <3> QED BY <1>2, <3>1, ReplyPreserves
  <2>5. CASE Restart
    BY <1>2, <2>5, RestartPreserves
  <2>6. CASE Tick \/ UNCHANGED ingestVars
    <3>1. UNCHANGED <<backend, rows, staged, req>> /\ clock' \in Nat
      BY <1>2, <2>6 DEF Tick, ingestVars, IngestInv, IngestTypeOK
    <3>2. IngestTypeOK'
      BY <1>2, <3>1 DEF IngestInv, IngestTypeOK
    <3>3. CommittedHasObservation' /\ JobsInv'
      BY <1>2, <3>1 DEF IngestInv, CommittedHasObservation, JobsInv
    <3> QED BY <3>2, <3>3 DEF IngestInv
  <2> QED BY <1>2, <2>1, <2>2, <2>3, <2>4, <2>5, <2>6 DEF IngestNext
<1> QED BY <1>1, <1>2, PTL DEF IngestSpec

\* With either store, a recorded commit has its observation, for any number of
\* concurrent requests, repeated deliveries, failed calls and restarts.
THEOREM CommitsAreBacked == IngestSpec => []CommittedHasObservation
<1>1. IngestInv => CommittedHasObservation
  BY DEF IngestInv
<1> QED BY <1>1, IngestInvariant, PTL

-----------------------------------------------------------------------------
(* The memory store keeps the promise of IngestAbstract.                   *)

\* How far a session has come, in the promise's terms.
Progress(row) == IF row = NoRow THEN "absent" ELSE row.status

\* A session of the memory store that moves to a stage after its own takes a step
\* of the promise.
LEMMA RowAdvances ==
  ASSUME IngestInv, NEW s \in Sessions, NEW row, row # NoRow, backend = "memory",
         row.status \in Promise!After[Progress(rows[s])],
         rows' = [rows EXCEPT ![s] = row], UNCHANGED backend
  PROVE  Promise!AbsNext
<1>1. rows \in [Sessions -> Rows \union {NoRow}]
  BY DEF IngestInv, IngestTypeOK
<1>2. Stages' = [Stages EXCEPT ![s] = row.status]
  BY <1>1, Zenon DEF Stages
<1>3. Stages[s] = Progress(rows[s])
  BY DEF Stages, Progress
<1>4. \E next \in Promise!After[Stages[s]] : Stages' = [Stages EXCEPT ![s] = next]
  BY <1>2, <1>3, Zenon
<1>5. Promise!Advance(s)
  BY <1>4, Zenon DEF Promise!Advance, Stages
<1> QED BY <1>5 DEF Promise!AbsNext

\* A transition of the shared session leaves it alone or moves it one stage.
LEMMA TransitionAdvances ==
  ASSUME IngestInv, NEW r \in Requests, req[r].pc = "apply",
         NEW row, row = WorksOn(req[r], backend, rows),
         row # NoRow, Transition(row, req[r]) # NoRow
  PROVE  \/ Transition(row, req[r]) = row
         \/ Transition(row, req[r]).status \in Promise!After[Progress(row)]
<1>1. row \in Rows
  BY DEF IngestInv, JobsInv, JobOK
<1> DEFINE next == Transition(row, req[r])
<1>2. CASE req[r] \in UserJobs
  <2>1. \/ next = row
        \/ row.status = "prepared" /\ next.status = "staged"
        \/ row.status = "staged" /\ next.status = "committed"
    BY <1>1, <1>2, UserTransition
  <2> HIDE DEF next
  <2>2. next = row \/ next.status \in Promise!After[Progress(row)]
    BY <2>1 DEF Progress, Promise!After
  <2> QED BY <2>2 DEF next
<1>3. CASE req[r] \in VerifierJobs
  <2>1. \/ next = row
        \/ row.status = "committed" /\ next.status = "validating"
        \/ row.status = "validating" /\ next.status \in {"published", "quarantined"}
    BY <1>1, <1>3, VerifierTransition, SMTT(30)
  <2> HIDE DEF next
  <2>2. next = row \/ next.status \in Promise!After[Progress(row)]
    BY <2>1 DEF Progress, Promise!After
  <2> QED BY <2>2 DEF next
<1> QED BY <1>2, <1>3, BusyJob DEF IngestInv

\* The memory store keeps the promise, for any number of concurrent requests and
\* of deliveries that are repeated or come late.
THEOREM MemoryRefinesPromise == IngestSpec => MemoryKeepsPromise
<1>1. IngestInit => Promise!AbsInit
  BY DEF IngestInit, Promise!AbsInit, Stages
<1>2. ASSUME IngestInv, [IngestNext]_ingestVars PROVE [Promise!AbsNext]_Stages
  <2>1. ASSUME UNCHANGED <<backend, rows>> PROVE Stages' = Stages
    BY <2>1 DEF Stages
  <2>2. ASSUME backend # "memory", UNCHANGED backend PROVE Stages' = Stages
    BY <2>2 DEF Stages
  <2>3. ASSUME NEW p \in Principals, NEW s \in Sessions, NEW u \in Uploads,
               Prepare(p, s, u), backend = "memory"
        PROVE  Promise!AbsNext
    <3> DEFINE row == PrepareIngest(p, u, clock + TTL, clock)
    <3>1. row # NoRow /\ rows[s] = NoRow /\ rows' = [rows EXCEPT ![s] = row]
          /\ UNCHANGED backend
      BY <2>3 DEF Prepare, CreateIngest
    <3>2. clock \in Nat /\ clock + TTL \in Nat
      BY <1>2, IngestConstants DEF IngestInv, IngestTypeOK
    <3>3. row.status = "prepared"
      BY <3>1, <3>2, PreparedRow
    <3> HIDE DEF row
    <3>4. row.status \in Promise!After[Progress(rows[s])]
      BY <3>1, <3>3 DEF Progress, Promise!After
    <3> QED BY <1>2, <2>3, <3>1, <3>4, RowAdvances, Zenon
  <2>4. ASSUME NEW r \in Requests, Step(r), backend = "memory"
        PROVE  Promise!AbsNext \/ Stages' = Stages
    <3>1. CASE ~Apply(r)
      BY <2>1, <2>4, <3>1 DEF Step, stageUpload, commit, VerifierStep, GetIngest,
         GetStagedObservation, UpdateIngest, PutStagedObservation, InsertStaged
    <3>2. CASE Apply(r)
      <4> DEFINE s == req[r].s
                 next == Transition(rows[s], req[r])
      <4>1. req[r].pc = "apply" /\ UNCHANGED backend
        BY <3>2 DEF Apply, At
      <4>2. s \in Sessions /\ rows[s] = WorksOn(req[r], backend, rows)
        BY <1>2, <2>4, <4>1, BusyJob DEF WorksOn, IngestInv, UserJobs, VerifierJobs
      <4>3. CASE next = NoRow
        BY <2>1, <2>4, <3>2, <4>3 DEF Apply
      <4>4. CASE next # NoRow /\ rows[s] # NoRow
        <5>1. rows' = [rows EXCEPT ![s] = next]
          BY <2>4, <3>2, <4>4, SMTT(30) DEF Apply
        <5>2. next = rows[s] \/ next.status \in Promise!After[Progress(rows[s])]
          BY <1>2, <4>1, <4>2, <4>4, TransitionAdvances
        <5> HIDE DEF next, s
        <5>3. CASE next = rows[s]
          <6>1. rows' = rows
            BY <1>2, <4>2, <5>1, <5>3, SMTT(30) DEF IngestInv, IngestTypeOK
          <6> QED BY <2>1, <4>1, <6>1
        <5> QED BY <1>2, <2>4, <4>1, <4>2, <4>4, <5>1, <5>2, <5>3, RowAdvances, Zenon
      <4>5. rows[s] # NoRow
        BY <1>2, <4>1, <4>2 DEF IngestInv, JobsInv, JobOK
      <4> QED BY <4>3, <4>4, <4>5
    <3> QED BY <3>1, <3>2, SMTT(30)
  <2>5. CASE Restart /\ backend = "memory"
    <3>1. Stages' = [s \in Sessions |-> "absent"]
      BY <2>5 DEF Restart, Stages
    <3> QED BY <3>1 DEF Promise!AbsNext, Promise!Forget, Stages
  <2>6. UNCHANGED backend
    <3>1. ASSUME NEW r \in Requests, Step(r) PROVE UNCHANGED backend
      BY <3>1, Zenon DEF Step, stageUpload, commit, VerifierStep, GetIngest, GetStagedObservation,
         Apply, UpdateIngest, PutStagedObservation, InsertStaged
    <3>2. ASSUME NEW r \in Requests, Submit(r) \/ Verifier(r) \/ Abandon(r)
          PROVE  UNCHANGED backend
      BY <3>2 DEF Submit, Arrive, Verifier, Deliver, Abandon
    <3>3. CASE \E p \in Principals, s \in Sessions, u \in Uploads : Prepare(p, s, u)
      BY <3>3 DEF Prepare
    <3>4. CASE Restart \/ Tick \/ UNCHANGED ingestVars
      BY <3>4, SMTT(30) DEF Restart, Tick, ingestVars
    <3> QED BY <1>2, <3>1, <3>2, <3>3, <3>4, Zenon DEF IngestNext
  <2>7. ASSUME NEW r \in Requests, Submit(r) \/ Verifier(r) \/ Abandon(r)
        PROVE  Stages' = Stages
    BY <2>1, <2>7 DEF Submit, Arrive, Verifier, Deliver, Abandon
  <2>8. CASE Tick \/ UNCHANGED ingestVars
    BY <2>1, <2>8 DEF Tick, ingestVars
  <2> QED BY <1>2, <2>2, <2>3, <2>4, <2>5, <2>6, <2>7, <2>8 DEF IngestNext
<1> QED BY <1>1, <1>2, IngestInvariant, PTL
        DEF IngestSpec, MemoryKeepsPromise, Promise!AbsSpec

-----------------------------------------------------------------------------
(* The catalogue.                                                          *)

\* A non-empty set of numbers has a least one: the induction that the provers
\* can use, since it has no operator for a parameter.
LEMMA LeastNat ==
    ASSUME NEW T \in SUBSET Nat, T # {}
    PROVE  \E m \in T : \A k \in T : m <= k
<1>1. PICK n \in T : TRUE
  BY Zenon
<1> DEFINE R == {0 .. k : k \in {j \in T : j <= n}}
<1>2. IsFiniteSet(0 .. n)
  BY FS_Interval
<1>3. IsWellFoundedOn(StrictSubsetOrdering(0 .. n), SUBSET (0 .. n))
  BY <1>2, FS_StrictSubsetOrderingWellFounded, FS_FiniteSubsetsOfFinite, Zenon
<1>4. R \subseteq SUBSET (0 .. n) /\ R # {}
  BY <1>1
<1>5. PICK r \in R : \A q \in R : <<q, r>> \notin StrictSubsetOrdering(0 .. n)
  <2> HIDE DEF R
  <2> QED BY <1>3, <1>4, WFMin, Zenon
<1>6. PICK m \in T : m <= n /\ r = 0 .. m
  BY <1>5
<1>7. ASSUME NEW k \in T, k < m PROVE FALSE
  <2>1. (0 .. k) \in R /\ (0 .. k) \subseteq r /\ (0 .. k) # r
    BY <1>6, <1>7
  <2>2. <<0 .. k, r>> \in StrictSubsetOrdering(0 .. n)
    BY <2>1, <1>4, <1>5 DEF StrictSubsetOrdering
  <2> QED BY <2>1, <2>2, <1>5, Zenon
<1> QED BY <1>6, <1>7

\* The elements of a set in their order.
InOrder(f, S) == /\ f \in [1..Cardinality(S) -> S]
                 /\ \A i, j \in 1..Cardinality(S) : i < j => f[i] < f[j]
                 /\ \A x \in S : \E i \in 1..Cardinality(S) : f[i] = x

\* A least element in front of the others, sorted, sorts them all.
LEMMA SortStep ==
    ASSUME NEW S \in SUBSET Nat, IsFiniteSet(S), NEW x \in S, \A y \in S : x <= y,
           NEW f, InOrder(f, S \ {x})
    PROVE  \E g : InOrder(g, S)
<1> DEFINE R == S \ {x}
           m == Cardinality(R)
           g == [i \in 1..(m + 1) |-> IF i = 1 THEN x ELSE f[i - 1]]
<1>1. /\ IsFiniteSet(R) /\ m \in Nat
  <2>1. IsFiniteSet(R)
    BY FS_Subset, Zenon
  <2> QED BY <2>1, FS_CardinalityType, Zenon
<1>2. Cardinality(S) = m + 1
  <2>1. R \union {x} = S /\ x \notin R
    BY Zenon
  <2> QED BY <1>1, <2>1, FS_AddElement, Zenon
<1>3. /\ f \in [1..m -> R] /\ \A i, j \in 1..m : i < j => f[i] < f[j]
      /\ \A y \in R : \E i \in 1..m : f[i] = y
  BY Zenon DEF InOrder
<1> HIDE DEF m
<1>4. 1 \in 1..(m + 1) /\ \A i \in 1..(m + 1) : i = 1 \/ (i # 1 /\ i - 1 \in 1..m)
  BY <1>1
<1>5. \A i \in 1..m : f[i] \in S /\ f[i] \in Nat /\ x < f[i]
  <2>1. \A y \in R : y \in S /\ y \in Nat /\ x < y
    OBVIOUS
  <2> HIDE DEF R
  <2> QED BY <1>3, <2>1, Zenon
<1>6. g \in [1..(m + 1) -> S] /\ g[1] = x /\ \A i \in 1..(m + 1) : i # 1 => g[i] = f[i - 1]
  BY <1>4, <1>5, Zenon
<1> HIDE DEF g
<1>7. ASSUME NEW i \in 1..(m + 1), NEW j \in 1..(m + 1), i < j PROVE g[i] < g[j]
  <2>1. j # 1 /\ j - 1 \in 1..m
    BY <1>1, <1>7
  <2>2. CASE i = 1
    BY <1>5, <1>6, <2>1, <2>2, Zenon
  <2>3. CASE i # 1
    <3>1. i - 1 \in 1..m /\ i - 1 < j - 1
      BY <1>1, <1>7, <2>3
    <3> QED BY <1>3, <1>6, <2>1, <2>3, <3>1, Zenon
  <2> QED BY <2>2, <2>3
<1>8. ASSUME NEW y \in S PROVE \E i \in 1..(m + 1) : g[i] = y
  <2>1. CASE y = x
    BY <1>4, <1>6, <2>1, Zenon
  <2>2. CASE y # x
    <3>1. PICK i \in 1..m : f[i] = y
      BY <1>3, <2>2, Zenon
    <3>2. i + 1 \in 1..(m + 1) /\ i + 1 # 1 /\ (i + 1) - 1 = i
      BY <1>1
    <3> QED BY <1>6, <3>1, <3>2
  <2> QED BY <2>1, <2>2
<1>9. InOrder(g, S)
  BY <1>2, <1>6, <1>7, <1>8, Zenon DEF InOrder
<1> QED BY <1>9, Zenon

\* Every finite set of numbers can be sorted, by a smallest set that could not.
LEMMA SortExists ==
    ASSUME NEW S \in SUBSET Nat, IsFiniteSet(S)
    PROVE  \E f : InOrder(f, S)
<1> DEFINE Bad == {Q \in SUBSET S : ~ \E f : InOrder(f, Q)}
           T == {Cardinality(Q) : Q \in Bad}
<1>1. ASSUME NEW Q \in SUBSET S PROVE IsFiniteSet(Q) /\ Cardinality(Q) \in Nat /\ Q \in SUBSET Nat
  <2>1. IsFiniteSet(Q)
    BY FS_Subset, Zenon
  <2> QED BY <2>1, FS_CardinalityType, Zenon
<1>2. SUFFICES ASSUME S \in Bad PROVE FALSE
  BY Zenon
<1>3. T \in SUBSET Nat /\ T # {}
  <2>1. \A Q \in Bad : Cardinality(Q) \in Nat
    BY <1>1, Zenon
  <2> HIDE DEF Bad
  <2>2. T \in SUBSET Nat
    BY <2>1
  <2>3. Cardinality(S) \in T
    BY <1>2
  <2> QED BY <2>2, <2>3
<1>4. PICK n \in T : \A k \in T : n <= k
  <2> HIDE DEF T
  <2> QED BY <1>3, LeastNat, Zenon
<1>5. PICK Q \in Bad : n = Cardinality(Q)
  BY <1>4, Zenon
<1>6. Q \in SUBSET S /\ IsFiniteSet(Q) /\ Q \in SUBSET Nat /\ n \in Nat
  BY <1>1, <1>5, Zenon
<1>7. CASE Q = {}
  <2>1. Cardinality(Q) = 0
    BY <1>7, FS_EmptySet, Zenon
  <2>2. 1..Cardinality(Q) = {}
    BY <2>1
  <2>3. InOrder([i \in {} |-> i], Q)
    BY <1>7, <2>2, Zenon DEF InOrder
  <2> QED BY <1>5, <2>3, Zenon
<1>8. CASE Q # {}
  <2>1. PICK x \in Q : \A y \in Q : x <= y
    BY <1>6, <1>8, LeastNat, Zenon
  <2> DEFINE R == Q \ {x}
  <2>2. R \in SUBSET S /\ IsFiniteSet(R) /\ Cardinality(R) \in Nat
    <3>1. R \in SUBSET S
      BY <1>6, Zenon
    <3> HIDE DEF R
    <3> QED BY <1>1, <3>1, Zenon
  <2>3. Cardinality(Q) = Cardinality(R) + 1
    <3>1. R \union {x} = Q /\ x \notin R
      BY Zenon
    <3> HIDE DEF R
    <3> QED BY <2>2, <3>1, FS_AddElement, Zenon
  <2>4. R \notin Bad
    <3> SUFFICES ASSUME R \in Bad PROVE FALSE
      OBVIOUS
    <3>1. n <= Cardinality(R)
      BY <1>4, Zenon
    <3> DEFINE a == Cardinality(R)
    <3>2. n <= a /\ n = a + 1 /\ a \in Nat
      BY <1>5, <2>2, <2>3, <3>1, Zenon
    <3> HIDE DEF a
    <3> QED BY <3>2
  <2>5. PICK f : InOrder(f, R)
    BY <2>2, <2>4, Zenon
  <2>6. \E g : InOrder(g, Q)
    BY <1>6, <2>1, <2>5, SortStep, Zenon
  <2> QED BY <1>5, <2>6, Zenon
<1> QED BY <1>7, <1>8

\* The sequence of a set's elements that has each of them, in their order.
Increasing(s) == \A i, j \in DOMAIN s : i < j => s[i] < s[j]

\* An increasing enumeration of a finite set of numbers leaves none out: it is an
\* injection between sets of one size.
LEMMA SortedIsSorted ==
    ASSUME NEW S \in SUBSET Nat, IsFiniteSet(S)
    PROVE  /\ Sorted(S) \in Seq(S) /\ Len(Sorted(S)) = Cardinality(S) /\ Cardinality(S) \in Nat
           /\ Increasing(Sorted(S)) /\ \A x \in S : \E i \in 1..Len(Sorted(S)) : Sorted(S)[i] = x
<1> DEFINE n == Cardinality(S)
           f == Sorted(S)
<1>1. PICK h : InOrder(h, S)
  BY SortExists, Zenon
<1>2. \E list \in [1..n -> S] : \A i, j \in 1..n : i < j => list[i] < list[j]
  BY <1>1, Zenon DEF InOrder
<1>3. f \in [1..n -> S] /\ \A i, j \in 1..n : i < j => f[i] < f[j]
  BY <1>2, Zenon DEF Sorted
<1>4. n \in Nat
  BY FS_CardinalityType, Zenon
<1> HIDE DEF f
<1>5. f \in Injection(1..n, S)
  <2>1. ASSUME NEW i \in 1..n, NEW j \in 1..n, f[i] = f[j] PROVE i = j
    <3>1. f[i] \in Nat /\ f[j] \in Nat
      BY <1>3, Zenon
    <3>2. i < j \/ j < i \/ i = j
      BY <1>4
    <3>3. ~(f[i] < f[j]) /\ ~(f[j] < f[i])
      BY <2>1, <3>1
    <3> QED BY <1>3, <3>2, <3>3, Zenon
  <2> QED BY <1>3, <2>1, Zenon DEF Injection, IsInjective
<1>6. Cardinality(1..n) = n
  <2> HIDE DEF n
  <2>1. 1 \in Int /\ n \in Int /\ (1 > n => n = 0) /\ n - 1 + 1 = n
    BY <1>4
  <2> QED BY <2>1, FS_Interval, Zenon
<1>7. f \in Surjection(1..n, S)
  BY <1>5, <1>6, FS_Injection, Zenon
<1>8. f \in Seq(S) /\ Len(f) = n /\ DOMAIN f = 1..n
  <2> HIDE DEF n
  <2> QED BY <1>3, <1>4
<1>9. \A x \in S : \E i \in 1..n : f[i] = x
  BY <1>7, Zenon DEF Surjection
<1>10. Increasing(f)
  BY <1>3, <1>8, Zenon DEF Increasing
<1> QED BY <1>4, <1>8, <1>9, <1>10, Zenon DEF f

\* What a page holds: matches in their order, and either all of them and no cursor,
\* or those up to the cursor, which is one of them.
PageOf(p, M) ==
    /\ p.items \in Seq(M) /\ Increasing(p.items)
    /\ \/ p.next = 0 /\ \A d \in M : d \in Range(p.items)
       \/ /\ p.next \in M
          /\ \A d \in Range(p.items) : d <= p.next
          /\ \A d \in M : d <= p.next => d \in Range(p.items)

\* A prefix of an increasing sequence.
LEMMA Prefix ==
    ASSUME NEW M \in SUBSET Nat, NEW s \in Seq(M), Increasing(s), NEW k \in Nat \ {0}, k <= Len(s)
    PROVE  /\ SubSeq(s, 1, k) \in Seq(M) /\ Len(SubSeq(s, 1, k)) = k
           /\ Increasing(SubSeq(s, 1, k)) /\ \A i \in 1..k : SubSeq(s, 1, k)[i] = s[i]
<1>1. Len(s) \in Nat /\ DOMAIN s = 1..Len(s) /\ s \in [1..Len(s) -> M]
  BY LenProperties, Zenon
<1>2. \A i \in 1..k : i \in 1..Len(s) /\ i \in DOMAIN s /\ s[i] \in M
  BY <1>1
<1>3. 1 \in Int /\ k \in Int /\ 1 <= k /\ k - 1 + 1 = k /\ \A i \in 1..k : 1 + i - 1 = i
  OBVIOUS
<1> DEFINE p == SubSeq(s, 1, k)
<1>4. p \in Seq(M) /\ Len(p) = k /\ \A i \in 1..k : p[i] = s[i]
  <2>0. 1 \in Int /\ k \in Int /\ \A i \in 1 .. k : s[i] \in M
    BY <1>2, <1>3, Zenon
  <2>1. SubSeq(s, 1, k) \in Seq(M)
    BY ONLY <2>0, SubSeqProperties, Zenon
  <2>2. Len(SubSeq(s, 1, k)) = k
    OBVIOUS
  <2>3. \A i \in 1..k : SubSeq(s, 1, k)[i] = s[i]
    OBVIOUS
  <2> QED BY <2>1, <2>2, <2>3
<1> HIDE DEF p
<1>5. DOMAIN p = 1..k
  BY <1>4, LenProperties, Zenon
<1>6. Increasing(p)
  BY <1>2, <1>4, <1>5, Zenon DEF Increasing
<1> QED BY <1>4, <1>6, Zenon DEF p

\* The place of a larger number in an increasing sequence is no earlier.
LEMMA Placed ==
    ASSUME NEW M \in SUBSET Nat, NEW s \in Seq(M), Increasing(s),
           NEW i \in 1..Len(s), NEW j \in 1..Len(s), s[i] <= s[j]
    PROVE  i <= j
<1>1. Len(s) \in Nat /\ DOMAIN s = 1..Len(s) /\ s[i] \in Nat /\ s[j] \in Nat
  BY LenProperties, ElementOfSeq, Zenon
<1>2. i \in Int /\ j \in Int
  BY <1>1
<1>3. j < i => s[j] < s[i]
  BY <1>1, Zenon DEF Increasing
<1> QED BY <1>1, <1>2, <1>3

\* ListObservations returns such a page of the matches after the cursor.
LEMMA PageIsPage ==
    ASSUME NEW filter, NEW after \in Nat, NEW limit \in Nat \ {0},
           observed \in SUBSET Nat, IsFiniteSet(observed)
    PROVE  PageOf(ListObservations(filter, after, limit),
                  {d \in observed : d > after /\ Matches(filter, d)})
<1> DEFINE M == {d \in observed : d > after /\ Matches(filter, d)}
           s == Sorted(M)
           p == ListObservations(filter, after, limit)
<1>1. M \in SUBSET Nat /\ IsFiniteSet(M)
  BY FS_Subset, Zenon
<1>2. p = IF Len(s) > limit
          THEN [items |-> SubSeq(s, 1, limit), next |-> s[limit]]
          ELSE [items |-> s, next |-> 0]
  BY Zenon DEF ListObservations, SelectAfter
<1> HIDE DEF M, p
<1>3. s \in Seq(M) /\ Increasing(s) /\ \A x \in M : \E i \in 1..Len(s) : s[i] = x
  BY <1>1, SortedIsSorted, Zenon
<1> HIDE DEF s
<1>4. Len(s) \in Nat /\ DOMAIN s = 1..Len(s)
  BY <1>3, LenProperties, Zenon
<1>5. CASE ~(Len(s) > limit)
  <2>1. p.items = s /\ p.next = 0
    BY <1>2, <1>5, Zenon
  <2>2. \A d \in M : d \in Range(s)
    BY <1>3, <1>4, Zenon DEF Range
  <2>3. PageOf(p, M)
    BY <1>3, <2>1, <2>2, Zenon DEF PageOf
  <2> QED BY <2>3 DEF M, p
<1>6. CASE Len(s) > limit
  <2> DEFINE t == SubSeq(s, 1, limit)
  <2>1. p.items = t /\ p.next = s[limit]
    BY <1>2, <1>6, Zenon
  <2>2. limit <= Len(s) /\ limit \in 1..Len(s) /\ \A i \in 1..limit : i \in 1..Len(s)
    BY <1>4, <1>6
  <2>3. t \in Seq(M) /\ Len(t) = limit /\ Increasing(t) /\ \A i \in 1..limit : t[i] = s[i]
    BY <1>1, <1>3, <2>2, Prefix, Zenon
  <2> HIDE DEF t
  <2>4. DOMAIN t = 1..limit
    BY <2>3, LenProperties, Zenon
  <2>5. s[limit] \in M
    BY <1>3, <2>2, ElementOfSeq, Zenon
  <2>6. ASSUME NEW d \in Range(t) PROVE d <= s[limit]
    <3>1. PICK i \in 1..limit : d = s[i]
      BY <2>3, <2>4, Zenon DEF Range
    <3>2. i < limit \/ i = limit
      OBVIOUS
    <3>3. s[i] \in Nat /\ s[limit] \in Nat
      BY <1>1, <1>3, <2>2, ElementOfSeq, Zenon
    <3>4. i < limit => s[i] < s[limit]
      BY <1>3, <1>4, <2>2, Zenon DEF Increasing
    <3> QED BY <3>1, <3>2, <3>3, <3>4
  <2>7. ASSUME NEW d \in M, d <= s[limit] PROVE d \in Range(t)
    <3>1. PICK i \in 1..Len(s) : s[i] = d
      BY <1>3, Zenon
    <3>2. i <= limit
      BY <1>1, <1>3, <2>2, <2>7, <3>1, Placed, Zenon
    <3>3. i \in 1..limit
      BY <1>4, <3>2
    <3> QED BY <2>3, <2>4, <3>1, <3>3, Zenon DEF Range
  <2>8. PageOf(p, M)
    BY <2>1, <2>3, <2>5, <2>6, <2>7, Zenon DEF PageOf
  <2> QED BY <2>8 DEF M, p
<1> QED BY <1>5, <1>6

\* What two sequences hold together.
LEMMA Joined ==
    ASSUME NEW M, NEW s \in Seq(M), NEW t \in Seq(M)
    PROVE  /\ s \o t \in Seq(M)
           /\ \A d \in Range(s \o t) : d \in Range(s) \/ d \in Range(t)
           /\ \A d : (d \in Range(s) \/ d \in Range(t)) => d \in Range(s \o t)
<1> DEFINE m == Len(s)
           n == Len(t)
           u == s \o t
<1>1. /\ u \in Seq(M) /\ Len(u) = m + n
      /\ \A i \in 1 .. m + n : u[i] = IF i <= m THEN s[i] ELSE t[i - m]
  BY ConcatProperties, Zenon
<1>2. /\ m \in Nat /\ n \in Nat /\ DOMAIN s = 1..m /\ DOMAIN t = 1..n
      /\ DOMAIN u = 1..Len(u)
  BY <1>1, LenProperties, Zenon
<1> HIDE DEF m, n, u
<1>3. \A i \in 1 .. m + n : (i <= m /\ i \in 1..m) \/ (~(i <= m) /\ i - m \in 1..n)
  BY <1>2
<1>4. ASSUME NEW d \in Range(u) PROVE d \in Range(s) \/ d \in Range(t)
  <2>1. PICK i \in 1 .. m + n : d = u[i]
    BY <1>1, <1>2, Zenon DEF Range
  <2>2. (i \in 1..m /\ d = s[i]) \/ (i - m \in 1..n /\ d = t[i - m])
    BY <1>1, <1>3, <2>1, Zenon
  <2> QED BY <1>2, <2>2, Zenon DEF Range
<1>5. ASSUME NEW d, d \in Range(s) PROVE d \in Range(u)
  <2>1. PICK i \in 1..m : d = s[i]
    BY <1>2, <1>5, Zenon DEF Range
  <2>2. i \in 1 .. m + n /\ i <= m
    BY <1>2
  <2> QED BY <1>1, <1>2, <2>1, <2>2, Zenon DEF Range
<1>6. ASSUME NEW d, d \in Range(t) PROVE d \in Range(u)
  <2>1. PICK i \in 1..n : d = t[i]
    BY <1>2, <1>6, Zenon DEF Range
  <2> DEFINE q == m + i
  <2>2. q \in 1 .. m + n /\ ~(q <= m) /\ q - m = i
    BY <1>2
  <2> HIDE DEF q
  <2>3. u[q] = t[q - m]
    BY <1>1, <2>2, Zenon
  <2> QED BY <1>1, <1>2, <2>1, <2>2, <2>3, Zenon DEF Range
<1> QED BY <1>1, <1>4, <1>5, <1>6, Zenon DEF u

\* Joining a sequence of larger numbers keeps the order.
LEMMA JoinedIncreasing ==
    ASSUME NEW M, NEW s \in Seq(M), NEW t \in Seq(M), Increasing(s), Increasing(t),
           \A a \in Range(s), b \in Range(t) : a < b
    PROVE  Increasing(s \o t)
<1> DEFINE m == Len(s)
           n == Len(t)
           u == s \o t
<1>1. /\ u \in Seq(M) /\ Len(u) = m + n
      /\ \A i \in 1 .. m + n : u[i] = IF i <= m THEN s[i] ELSE t[i - m]
  BY ConcatProperties, Zenon
<1>2. /\ m \in Nat /\ n \in Nat /\ DOMAIN s = 1..m /\ DOMAIN t = 1..n
      /\ DOMAIN u = 1..Len(u)
  BY <1>1, LenProperties, Zenon
<1> HIDE DEF m, n, u
<1>3. \A i \in 1 .. m + n : (i <= m /\ i \in 1..m) \/ (~(i <= m) /\ i - m \in 1..n)
  BY <1>2
<1>4. ASSUME NEW i \in 1 .. m + n, NEW j \in 1 .. m + n, i < j PROVE u[i] < u[j]
  <2>1. CASE j <= m
    <3>1. i <= m
      BY <1>2, <1>4, <2>1
    <3>2. u[i] = s[i] /\ u[j] = s[j] /\ i \in 1..m /\ j \in 1..m
      BY <1>1, <1>3, <2>1, <3>1, Zenon
    <3>3. s[i] < s[j]
      BY <1>2, <1>4, <3>2, Zenon DEF Increasing
    <3> QED BY <3>2, <3>3, Zenon
  <2>2. CASE ~(j <= m) /\ i <= m
    <3>1. u[i] = s[i] /\ u[j] = t[j - m] /\ i \in 1..m /\ j - m \in 1..n
      BY <1>1, <1>3, <2>2, Zenon
    <3>2. s[i] \in Range(s) /\ t[j - m] \in Range(t)
      BY <1>2, <3>1, Zenon DEF Range
    <3> QED BY <3>1, <3>2, Zenon
  <2>3. CASE ~(j <= m) /\ ~(i <= m)
    <3>1. u[i] = t[i - m] /\ u[j] = t[j - m] /\ i - m \in 1..n /\ j - m \in 1..n
      BY <1>1, <1>3, <2>3, Zenon
    <3>2. i - m < j - m
      BY <1>2, <1>4
    <3>3. t[i - m] < t[j - m]
      BY <1>2, <3>1, <3>2, Zenon DEF Increasing
    <3> QED BY <3>1, <3>3, Zenon
  <2> QED BY <2>1, <2>2, <2>3, Zenon
<1> QED BY <1>1, <1>2, <1>4, Zenon DEF Increasing, u

\* What is known of a walk that has begun, and of one that pages or is done.
WalkRecords == [pc : {"paging", "done"}, filter : Subjects, after : Nat,
                seen : Seq(Digests), there : SUBSET Digests]
IdleWalk == [pc |-> "idle"]

Begun(k, obs) ==
    /\ k.there \in SUBSET obs /\ Increasing(k.seen)
    /\ \A d \in Range(k.seen) : d \in obs /\ Matches(k.filter, d)
UpTo(k) ==
    /\ \A d \in Range(k.seen) : d <= k.after
    /\ \A d \in k.there : Matches(k.filter, d) /\ d <= k.after => d \in Range(k.seen)
SeenAll(k) == \A d \in k.there : Matches(k.filter, d) => d \in Range(k.seen)

WalkOK(k, obs) ==
    \/ k = IdleWalk
    \/ /\ k \in WalkRecords /\ Begun(k, obs)
       /\ k.pc = "paging" => UpTo(k)
       /\ k.pc = "done" => SeenAll(k)

CatalogueInv ==
    /\ observed \in SUBSET Digests /\ IsFiniteSet(observed)
    /\ walk \in [Walks -> {walk[w] : w \in Walks}]
    /\ \A w \in Walks : WalkOK(walk[w], observed)

\* One page leaves the walk as it should be.
LEMMA PageKeeps ==
    ASSUME CatalogueInv, NEW k \in WalkRecords, k.pc = "paging", WalkOK(k, observed),
           NEW limit \in Limits
    PROVE  LET page == ListObservations(k.filter, k.after, limit)
           IN  WalkOK([k EXCEPT !.seen = k.seen \o page.items, !.after = page.next,
                                !.pc = IF page.next = 0 THEN "done" ELSE "paging"], observed)
<1> DEFINE p == ListObservations(k.filter, k.after, limit)
           M == {d \in observed : d > k.after /\ Matches(k.filter, d)}
           q == IF p.next = 0 THEN "done" ELSE "paging"
           s == k.seen \o p.items
           r == [k EXCEPT !.seen = s, !.after = p.next, !.pc = q]
<1>1. /\ k.after \in Nat /\ k.seen \in Seq(Digests) /\ Begun(k, observed) /\ UpTo(k)
      /\ k.there \in SUBSET observed
  <2>1. k # IdleWalk
    <3>1. IdleWalk.pc = "idle"
      BY DEF IdleWalk
    <3> QED BY <3>1
  <2> QED BY <2>1, Zenon DEF WalkOK, WalkRecords, Begun
<1>2. /\ observed \in SUBSET Digests /\ IsFiniteSet(observed) /\ observed \in SUBSET Nat
      /\ limit \in Nat \ {0} /\ \A d \in observed : d \in Nat /\ d # 0
  BY CatalogueConstants, Zenon DEF CatalogueInv
<1>3. PageOf(p, M)
  BY <1>1, <1>2, PageIsPage, Zenon
<1>4. \A d \in M : d \in observed /\ d > k.after /\ Matches(k.filter, d) /\ d \in Digests
  BY <1>2, Zenon
<1>4a. ASSUME NEW d \in observed, Matches(k.filter, d), ~(d \in M) PROVE d <= k.after
  <2>1. ~(d > k.after)
    BY <1>4a, Zenon
  <2> QED BY <1>1, <1>2, <2>1
<1>4b. M \in SUBSET Digests
  BY <1>4, Zenon
<1> HIDE DEF M, p
<1>5. p.items \in Seq(M) /\ p.items \in Seq(Digests) /\ Increasing(p.items)
  BY <1>3, <1>4b, SeqMonotonic, Zenon DEF PageOf
<1>6. p.next \in Nat
  <2>1. p.next = 0 \/ p.next \in M
    BY <1>3, Zenon DEF PageOf
  <2>2. \A d \in M : d \in Nat
    BY <1>2, <1>4, Zenon
  <2>3. 0 \in Nat
    OBVIOUS
  <2> QED BY <2>1, <2>2, <2>3, Zenon
<1>7. \A d \in Range(p.items) : d \in M
  <2>1. DOMAIN p.items = 1..Len(p.items)
    BY <1>5, LenProperties, Zenon
  <2> QED BY <1>5, <2>1, ElementOfSeq, Zenon DEF Range
<1>8. /\ s \in Seq(Digests)
      /\ \A d \in Range(s) : d \in Range(k.seen) \/ d \in Range(p.items)
      /\ \A d : (d \in Range(k.seen) \/ d \in Range(p.items)) => d \in Range(s)
  BY <1>1, <1>5, Joined, Zenon
<1>9. Increasing(s)
  <2>1. ASSUME NEW a \in Range(k.seen), NEW b \in Range(p.items) PROVE a < b
    <3>1. a \in Nat /\ b \in Nat /\ a <= k.after /\ b > k.after
      BY <1>1, <1>2, <1>4, <1>7, Zenon DEF Begun, UpTo
    <3> QED BY <1>1, <3>1
  <2> QED BY <1>1, <1>5, <2>1, JoinedIncreasing, Zenon DEF Begun
<1> HIDE DEF s
<1>10. q \in {"paging", "done"}
  BY Zenon
<1>11. /\ r \in WalkRecords /\ r.seen = s /\ r.after = p.next /\ r.pc = q
       /\ r.filter = k.filter /\ r.there = k.there
  <2> DEFINE n == p.next
  <2>1. s \in Seq(Digests) /\ n \in Nat /\ q \in {"paging", "done"}
    BY <1>6, <1>8, <1>10, Zenon
  <2> HIDE DEF q, n
  <2>2. LET e == [k EXCEPT !.seen = s, !.after = n, !.pc = q]
        IN  /\ e \in WalkRecords /\ e.seen = s /\ e.after = n /\ e.pc = q
            /\ e.filter = k.filter /\ e.there = k.there
    BY <2>1, Zenon DEF WalkRecords
  <2> QED BY <2>2 DEF n
<1> HIDE DEF r
<1>12. Begun(r, observed)
  BY <1>1, <1>4, <1>7, <1>8, <1>9, <1>11, Zenon DEF Begun
<1>13. ASSUME r.pc = "paging" PROVE UpTo(r)
  <2>1. /\ p.next \in M /\ \A d \in Range(p.items) : d <= p.next
        /\ \A d \in M : d <= p.next => d \in Range(p.items)
    BY <1>3, <1>11, <1>13, Zenon DEF PageOf
  <2>2. k.after < p.next
    <3>1. p.next > k.after
      BY <1>4, <2>1, Zenon
    <3> QED BY <1>1, <1>6, <3>1
  <2>3. ASSUME NEW d \in Range(s) PROVE d <= p.next
    <3>1. CASE d \in Range(k.seen)
      <4>1. d \in Nat /\ d <= k.after
        BY <1>1, <1>2, <3>1, Zenon DEF Begun, UpTo
      <4> QED BY <1>1, <1>6, <2>2, <4>1
    <3>2. CASE d \in Range(p.items)
      BY <2>1, <3>2, Zenon
    <3> QED BY <1>8, <3>1, <3>2, Zenon
  <2>4. ASSUME NEW d \in k.there, Matches(k.filter, d), d <= p.next PROVE d \in Range(s)
    <3>1. CASE d \in M
      BY <1>8, <2>1, <2>4, <3>1, Zenon
    <3>2. CASE ~(d \in M)
      <4>1. d \in observed
        BY <1>1, Zenon
      <4>2. d <= k.after
        BY <1>4a, <2>4, <3>2, <4>1, Zenon
      <4> QED BY <1>1, <1>8, <2>4, <4>2, Zenon DEF UpTo
    <3> QED BY <3>1, <3>2, Zenon
  <2> QED BY <1>11, <2>3, <2>4, Zenon DEF UpTo
<1>14. ASSUME r.pc = "done" PROVE SeenAll(r)
  <2>1. \A d \in M : d \in Range(p.items)
    <3>1. p.next = 0
      BY <1>11, <1>14, Zenon
    <3>2. ~(p.next \in M)
      BY <1>2, <1>4, <3>1, Zenon
    <3> QED BY <1>3, <3>2, Zenon DEF PageOf
  <2>2. ASSUME NEW d \in k.there, Matches(k.filter, d) PROVE d \in Range(s)
    <3>1. CASE d \in M
      BY <1>8, <2>1, <3>1, Zenon
    <3>2. CASE ~(d \in M)
      <4>1. d \in observed
        BY <1>1, Zenon
      <4>2. d <= k.after
        BY <1>4a, <2>2, <3>2, <4>1, Zenon
      <4> QED BY <1>1, <1>8, <2>2, <4>2, Zenon DEF UpTo
    <3> QED BY <3>1, <3>2, Zenon
  <2> QED BY <1>11, <2>2, Zenon DEF SeenAll
<1>15. WalkOK(r, observed)
  BY <1>11, <1>12, <1>13, <1>14, Zenon DEF WalkOK
<1> QED BY <1>15, Zenon DEF r, s, p

\* A walk that is right stays so when more is published.
LEMMA MorePublished ==
    ASSUME NEW k, NEW obs, NEW more, obs \in SUBSET more, WalkOK(k, obs)
    PROVE  WalkOK(k, more)
<1>1. Begun(k, obs) => Begun(k, more)
  BY Zenon DEF Begun
<1> QED BY <1>1, Zenon DEF WalkOK

\* Every step keeps the invariant.
LEMMA CatalogueStep == CatalogueInv /\ [CatalogueNext]_catalogueVars => CatalogueInv'
<1> SUFFICES ASSUME CatalogueInv, [CatalogueNext]_catalogueVars PROVE CatalogueInv'
  OBVIOUS
<1>0. /\ observed \in SUBSET Digests /\ IsFiniteSet(observed) /\ DOMAIN walk = Walks
      /\ walk = [w \in Walks |-> walk[w]] /\ \A w \in Walks : WalkOK(walk[w], observed)
  BY Zenon DEF CatalogueInv
<1>1. ASSUME NEW w \in Walks, NEW k, walk' = [walk EXCEPT ![w] = k], UNCHANGED observed,
             WalkOK(k, observed)
      PROVE  CatalogueInv'
  <2>1. DOMAIN walk' = Walks /\ walk' = [v \in Walks |-> walk'[v]]
    BY <1>0, <1>1, Zenon
  <2>2. \A v \in Walks : walk'[v] = IF v = w THEN k ELSE walk[v]
    BY <1>0, <1>1, Zenon
  <2>3. \A v \in Walks : WalkOK(walk'[v], observed')
    BY <1>0, <1>1, <2>2, Zenon
  <2> QED BY <1>0, <1>1, <2>1, <2>3, Zenon DEF CatalogueInv
<1>2. ASSUME NEW d \in Digests, PutPublishedObservation(d) PROVE CatalogueInv'
  <2>1. observed' = observed \union {d} /\ walk' = walk
    BY <1>2, Zenon DEF PutPublishedObservation
  <2>2. observed' \in SUBSET Digests /\ observed \in SUBSET observed'
    BY <1>0, <2>1, Zenon
  <2>3. IsFiniteSet(observed')
    BY <1>0, <2>1, FS_AddElement, Zenon
  <2>4. \A w \in Walks : WalkOK(walk[w], observed')
    BY <1>0, <2>2, MorePublished, Zenon
  <2> QED BY <1>0, <2>1, <2>2, <2>3, <2>4, Zenon DEF CatalogueInv
<1>3. ASSUME NEW w \in Walks, NEW filter \in Subjects, BeginWalk(w, filter) PROVE CatalogueInv'
  <2> DEFINE k == [pc |-> "paging", filter |-> filter, after |-> 0,
                   seen |-> <<>>, there |-> observed]
  <2>1. walk' = [walk EXCEPT ![w] = k] /\ UNCHANGED observed
    BY <1>3, Zenon DEF BeginWalk
  <2>2. /\ k.pc = "paging" /\ k.filter = filter /\ k.after = 0 /\ k.seen = <<>>
        /\ k.there = observed
    BY Zenon
  <2>3. k \in WalkRecords
    <3>1. <<>> \in Seq(Digests) /\ 0 \in Nat
      OBVIOUS
    <3> QED BY <1>0, <3>1, Zenon DEF WalkRecords
  <2> HIDE DEF k
  <2>4. Range(k.seen) = {} /\ Increasing(k.seen)
    <3>1. DOMAIN k.seen = {}
      BY <2>2
    <3> QED BY <3>1, Zenon DEF Range, Increasing
  <2>5. \A d \in k.there : ~(d <= k.after)
    BY <1>0, <2>2, CatalogueConstants, SMTT(30)
  <2>6. WalkOK(k, observed)
    BY <2>2, <2>3, <2>4, <2>5 DEF WalkOK, Begun, UpTo
  <2> QED BY <1>1, <2>1, <2>6, Zenon
<1>4. ASSUME NEW w \in Walks, NEW limit \in Limits, NextPage(w, limit) PROVE CatalogueInv'
  <2> DEFINE page == ListObservations(walk[w].filter, walk[w].after, limit)
             k == [walk[w] EXCEPT !.seen = walk[w].seen \o page.items, !.after = page.next,
                                  !.pc = IF page.next = 0 THEN "done" ELSE "paging"]
  <2>1. walk' = [walk EXCEPT ![w] = k] /\ UNCHANGED observed /\ walk[w].pc = "paging"
    BY <1>4, Zenon DEF NextPage
  <2>2. walk[w] \in WalkRecords
    <3>1. IdleWalk.pc = "idle"
      BY DEF IdleWalk
    <3>2. walk[w] # IdleWalk
      BY <2>1, <3>1
    <3> QED BY <1>0, <3>2, Zenon DEF WalkOK
  <2>3. WalkOK(k, observed)
    BY <1>0, <2>1, <2>2, PageKeeps, Zenon
  <2> HIDE DEF k
  <2> QED BY <1>1, <2>1, <2>3, Zenon
<1>5. ASSUME NEW w \in Walks, EndWalk(w) PROVE CatalogueInv'
  <2>1. walk' = [walk EXCEPT ![w] = IdleWalk] /\ UNCHANGED observed
    BY <1>5, Zenon DEF EndWalk, IdleWalk
  <2>2. WalkOK(IdleWalk, observed)
    BY Zenon DEF WalkOK
  <2> QED BY <1>1, <2>1, <2>2, Zenon
<1>6. CASE UNCHANGED catalogueVars
  BY <1>6, Zenon DEF catalogueVars, CatalogueInv
<1> QED BY <1>2, <1>3, <1>4, <1>5, <1>6, Zenon DEF CatalogueNext

\* The first number of an increasing sequence is the least one in it.
LEMMA FirstIsLeast ==
    ASSUME NEW M \in SUBSET Nat, NEW s \in Seq(M), Increasing(s), s # <<>>
    PROVE  s[1] \in M /\ \A d \in Range(s) : s[1] <= d
<1>1. Len(s) \in Nat /\ DOMAIN s = 1..Len(s) /\ Len(s) # 0
  BY LenProperties, EmptySeq
<1>2. 1 \in 1..Len(s) /\ \A i \in 1..Len(s) : i = 1 \/ 1 < i
  BY <1>1
<1>3. \A i \in 1..Len(s) : s[i] \in M
  BY ElementOfSeq, Zenon
<1>4. ASSUME NEW d \in Range(s) PROVE s[1] <= d
  <2>1. PICK i \in 1..Len(s) : d = s[i]
    BY <1>1, Zenon DEF Range
  <2>2. i = 1 \/ s[1] < s[i]
    BY <1>1, <1>2, Zenon DEF Increasing
  <2>3. s[1] \in Nat /\ d \in Nat
    BY <1>2, <1>3, <2>1, Zenon
  <2> QED BY <2>1, <2>2, <2>3
<1> QED BY <1>2, <1>3, <1>4, Zenon

\* The badge is the least match, whatever the matches are.
LEMMA BadgeIsLeast ==
    ASSUME observed \in SUBSET (Nat \ {0}), IsFiniteSet(observed), NEW filter,
           NEW x \in observed, Matches(filter, x),
           \A d \in observed : Matches(filter, d) => x <= d
    PROVE  Badge(filter) = <<x>>
<1> DEFINE M == {d \in observed : d > 0 /\ Matches(filter, d)}
           s == Sorted(M)
<1>1. M \in SUBSET Nat /\ IsFiniteSet(M) /\ x \in M /\ \A d \in M : x <= d
  <2>1. x > 0
    OBVIOUS
  <2> QED BY <2>1, FS_Subset, Zenon
<1>2. Badge(filter) = (IF Len(s) > 1 THEN [items |-> SubSeq(s, 1, 1), next |-> s[1]]
                                     ELSE [items |-> s, next |-> 0]).items
  BY Zenon DEF Badge, ListObservations, SelectAfter
<1> HIDE DEF M
<1>3. s \in Seq(M) /\ Increasing(s) /\ \A d \in M : \E i \in 1..Len(s) : s[i] = d
  BY <1>1, SortedIsSorted, Zenon
<1> HIDE DEF s
<1>4. Len(s) \in Nat /\ DOMAIN s = 1..Len(s)
  BY <1>3, LenProperties, Zenon
<1>5. PICK i \in 1..Len(s) : s[i] = x
  BY <1>1, <1>3, Zenon
<1>6. Len(s) >= 1 /\ 1 \in 1..Len(s)
  BY <1>4, <1>5
<1>7. s[1] = x
  <2>1. s[1] \in M /\ s[1] \in Nat /\ x \in Nat
    BY <1>1, <1>3, <1>6, ElementOfSeq, Zenon
  <2>2. x <= s[1]
    BY <1>1, <2>1, Zenon
  <2>3. i = 1 \/ 1 < i
    BY <1>4
  <2>4. 1 < i => s[1] < x
    BY <1>3, <1>4, <1>5, <1>6, Zenon DEF Increasing
  <2> QED BY <1>5, <2>1, <2>2, <2>3, <2>4
<1>8. CASE Len(s) > 1
  <2>1. Badge(filter) = SubSeq(s, 1, 1)
    BY <1>2, <1>8, Zenon
  <2> DEFINE t == SubSeq(s, 1, 1)
  <2>2. t = <<s[1]>>
    <3>1. 1 \in Nat \ {0} /\ 1 <= Len(s) /\ 1 \in 1..1
      BY <1>6
    <3>2. /\ SubSeq(s, 1, 1) \in Seq(M) /\ Len(SubSeq(s, 1, 1)) = 1
          /\ Increasing(SubSeq(s, 1, 1)) /\ \A j \in 1..1 : SubSeq(s, 1, 1)[j] = s[j]
      BY ONLY <1>1, <1>3, <3>1, Prefix
    <3>3. t \in Seq(M) /\ Len(t) = 1 /\ t[1] = s[1]
      BY <3>1, <3>2
    <3> HIDE DEF t
    <3> QED BY <3>3
  <2> QED BY <1>7, <2>1, <2>2, Zenon
<1>9. CASE ~(Len(s) > 1)
  <2>1. Badge(filter) = s
    BY <1>2, <1>9, Zenon
  <2>2. Len(s) = 1
    BY <1>4, <1>6, <1>9
  <2>3. s = <<s[1]>>
    BY <1>3, <2>2
  <2> QED BY <1>7, <2>1, <2>3, Zenon
<1> QED BY <1>8, <1>9

\* The invariant implies the property.
LEMMA CatalogueMeans == CatalogueInv => WalkIsComplete
<1> SUFFICES ASSUME CatalogueInv, NEW w \in Walks, walk[w].pc = "done"
             PROVE  /\ {d \in walk[w].there : Matches(walk[w].filter, d)} \subseteq Range(walk[w].seen)
                    /\ \A i, j \in DOMAIN walk[w].seen : i < j => walk[w].seen[i] < walk[w].seen[j]
                    /\ walk[w].there = observed /\ walk[w].seen # <<>> =>
                          Badge(walk[w].filter) = <<Head(walk[w].seen)>>
  BY Zenon DEF WalkIsComplete
<1> DEFINE k == walk[w]
<1>1. k \in WalkRecords /\ Begun(k, observed) /\ SeenAll(k)
  <2>1. IdleWalk.pc = "idle"
    BY DEF IdleWalk
  <2>2. k # IdleWalk
    BY <2>1
  <2>3. WalkOK(k, observed)
    BY Zenon DEF CatalogueInv
  <2> QED BY <2>2, <2>3, Zenon DEF WalkOK
<1>2. k.seen \in Seq(Digests) /\ Increasing(k.seen)
  BY <1>1, Zenon DEF WalkRecords, Begun
<1>3. /\ observed \in SUBSET (Nat \ {0}) /\ IsFiniteSet(observed) /\ Digests \in SUBSET Nat
  BY CatalogueConstants, Zenon DEF CatalogueInv
<1>4. ASSUME k.there = observed, k.seen # <<>> PROVE Badge(k.filter) = <<Head(k.seen)>>
  <2> DEFINE s == k.seen
             x == s[1]
  <2>1. s \in Seq(Digests) /\ Increasing(s) /\ s # <<>>
    BY <1>2, <1>4
  <2>2. Head(s) = x /\ x \in Range(s)
    <3> HIDE DEF s
    <3>1. Len(s) \in Nat /\ DOMAIN s = 1..Len(s) /\ Len(s) # 0
      BY <2>1, LenProperties, EmptySeq
    <3>2. 1 \in DOMAIN s
      BY <3>1
    <3>3. Head(s) = s[1]
      BY <2>1
    <3> QED BY <3>2, <3>3, Zenon DEF Range
  <2>3. \A d \in Range(s) : x <= d
    <3> HIDE DEF s
    <3> QED BY <1>3, <2>1, FirstIsLeast, Zenon
  <2>4. x \in observed /\ Matches(k.filter, x)
    BY <1>1, <2>2, Zenon DEF Begun
  <2>5. \A d \in observed : Matches(k.filter, d) => x <= d
    BY <1>1, <1>4, <2>3, Zenon DEF SeenAll
  <2>6. Badge(k.filter) = <<x>>
    <3> HIDE DEF x
    <3> QED BY <1>3, <2>4, <2>5, BadgeIsLeast, Zenon
  <2> QED BY <2>2, <2>6, Zenon
<1> QED BY <1>1, <1>2, <1>4, Zenon DEF SeenAll, Increasing

\* A client that follows the cursors to the end, with any page sizes and however
\* many observations are published meanwhile, has seen every match that was there
\* when it began, in order and none twice, and the badge is its first item.
THEOREM WalksAreComplete == CatalogueSpec => []WalkIsComplete
<1>1. CatalogueInit => CatalogueInv
  <2> SUFFICES ASSUME CatalogueInit PROVE CatalogueInv
    OBVIOUS
  <2>1. \A w \in Walks : WalkOK(walk[w], observed)
    BY Zenon DEF CatalogueInit, WalkOK, IdleWalk
  <2>2. observed = {} /\ DOMAIN walk = Walks /\ walk = [w \in Walks |-> walk[w]]
    BY Zenon DEF CatalogueInit
  <2> QED BY <2>1, <2>2, FS_EmptySet, Zenon DEF CatalogueInv
<1>2. CatalogueInv /\ [CatalogueNext]_catalogueVars => CatalogueInv'
  BY CatalogueStep
<1> QED BY <1>1, <1>2, CatalogueMeans, PTL DEF CatalogueSpec
=============================================================================
