------------------------------ MODULE RunStore ------------------------------
(***************************************************************************)
(* The local run store of internal/runstore/store.go, shared by several    *)
(* processes through the file system.  Every writer is a Store value of    *)
(* its own (a doctor process), so the mutex inside a Store orders nothing  *)
(* here.  Put is cut at every system call another process or a crash can   *)
(* come between; Get is cut between the system calls of readRegular.       *)
(*                                                                         *)
(* The file system (external): rename is atomic and does not replace a     *)
(* directory that has an entry; a directory entry survives a crash for     *)
(* certain only once its directory has been synced, and file bytes only    *)
(* once the file has been.  A record's digest stands for its bytes.        *)
(***************************************************************************)
EXTENDS Naturals, FiniteSets

CONSTANTS Runs, Contents, Writers, Readers,
          NoRecord,  \* the run directory does not exist
          Damaged,   \* record bytes that did not survive a crash
          NoPointer, \* latest.json does not exist
          MaxPuts    \* bound on the number of Put calls

\* latest.json: the pointer's fields, and the inode that holds them.
Pointers == [run: Runs, digest: Contents, inode: 1..MaxPuts]

ASSUME StoreConstants == /\ MaxPuts \in Nat
                         /\ NoRecord \notin Contents \union Runs
                         /\ Damaged \notin Contents
                         /\ NoPointer \notin Pointers

VARIABLES published,  \* run directories in the root: their record
          durable,    \* runs whose directory entry has been synced
          solid,      \* runs whose record bytes were synced before the rename
          latest,     \* latest.json
          mayLatest,  \* what latest.json may be after a crash
          puts,       \* number of Put calls so far; the next inode
          put,        \* the Put call of each writer
          acked,      \* <<writer, run, record>> of every Put that returned a digest
          get         \* the Get("latest") call of each reader

fsVars    == <<published, durable, solid, latest, mayLatest>>
storeVars == <<published, durable, solid, latest, mayLatest, puts, put, acked, get>>

IdlePut == [pc |-> "idle", run |-> NoRecord, content |-> NoRecord,
            inode |-> 0, synced |-> FALSE]
IdleGet == [pc |-> "idle"]

StoreInit == /\ published = [r \in Runs |-> NoRecord]
             /\ durable = {}
             /\ solid = {}
             /\ latest = NoPointer
             /\ mayLatest = {NoPointer}
             /\ puts = 0
             /\ put = [w \in Writers |-> IdlePut]
             /\ acked = {}
             /\ get = [g \in Readers |-> IdleGet]

Stored == {r \in Runs : published[r] # NoRecord}

-----------------------------------------------------------------------------
(* Put.                                                                    *)

At(w, pc) == put[w].pc = pc

Goto(w, pc) == put' = [put EXCEPT ![w].pc = pc]

Return(w) == put' = [put EXCEPT ![w] = IdlePut]

\* The checks on the payload and MkdirTemp.
BeginPut(w, r, c) ==
    /\ At(w, "idle")
    /\ puts < MaxPuts
    /\ puts' = puts + 1
    /\ put' = [put EXCEPT ![w] = [pc |-> "temporary", run |-> r, content |-> c,
                                  inode |-> puts + 1, synced |-> FALSE]]
    /\ UNCHANGED <<published, durable, solid, latest, mayLatest, acked, get>>

\* Faulty variant: nothing is synced before the rename.
WriteRecordUnsynced(w) ==
    /\ At(w, "temporary")
    /\ Goto(w, "written")
    /\ UNCHANGED <<published, durable, solid, latest, mayLatest, puts, acked, get>>

\* writeExclusive, the read-back, and the sync of the temporary directory: its
\* record.json is on disk before it has a name.
WriteRecord(w) ==
    /\ At(w, "temporary")
    /\ put' = [put EXCEPT ![w] = [@ EXCEPT !.pc = "written", !.synced = TRUE]]
    /\ UNCHANGED <<published, durable, solid, latest, mayLatest, puts, acked, get>>

\* Lstat finds the run: ErrExists, and the temporary directory is removed.
FindExisting(w) ==
    /\ At(w, "written")
    /\ put[w].run \in Stored
    /\ Return(w)
    /\ UNCHANGED <<published, durable, solid, latest, mayLatest, puts, acked, get>>

FindAbsent(w) ==
    /\ At(w, "written")
    /\ put[w].run \notin Stored
    /\ Goto(w, "absent")
    /\ UNCHANGED <<published, durable, solid, latest, mayLatest, puts, acked, get>>

\* Faulty variant: a rename that replaces what is there.
RenameRunReplacing(w) ==
    /\ At(w, "absent")
    /\ published' = [published EXCEPT ![put[w].run] = put[w].content]
    /\ solid' = IF put[w].synced THEN solid \union {put[w].run} ELSE solid
    /\ Goto(w, "renamed")
    /\ UNCHANGED <<durable, latest, mayLatest, puts, acked, get>>

\* Rename of the temporary directory to the run ID.
RenameRun(w) ==
    /\ At(w, "absent")
    /\ put[w].run \notin Stored
    /\ published' = [published EXCEPT ![put[w].run] = put[w].content]
    /\ solid' = IF put[w].synced THEN solid \union {put[w].run} ELSE solid
    /\ Goto(w, "renamed")
    /\ UNCHANGED <<durable, latest, mayLatest, puts, acked, get>>

\* Faulty variant: an existing run directory counts as success.
RenameLosesUnnoticed(w) ==
    /\ At(w, "absent")
    /\ put[w].run \in Stored
    /\ Goto(w, "renamed")
    /\ UNCHANGED <<published, durable, solid, latest, mayLatest, puts, acked, get>>

\* Another writer was faster since Lstat: the rename fails, ErrExists.
RenameLoses(w) ==
    /\ At(w, "absent")
    /\ put[w].run \in Stored
    /\ Return(w)
    /\ UNCHANGED <<published, durable, solid, latest, mayLatest, puts, acked, get>>

\* A sync of the root makes every entry of it durable, whoever wrote it.
SyncRoot == durable' = Stored /\ mayLatest' = {latest}

\* Faulty variant: only the pointer's rename is followed by a sync.
SyncRunLater(w) ==
    /\ At(w, "renamed")
    /\ Goto(w, "synced")
    /\ UNCHANGED <<published, durable, solid, latest, mayLatest, puts, acked, get>>

SyncRun(w) ==
    /\ At(w, "renamed")
    /\ SyncRoot
    /\ Goto(w, "synced")
    /\ UNCHANGED <<published, solid, latest, puts, acked, get>>

\* The published record is read back and compared; replaceLatest writes and
\* syncs its temporary file.
Verify(w) ==
    /\ At(w, "synced")
    /\ Goto(w, IF published[put[w].run] = put[w].content THEN "verified" ELSE "corrupt")
    /\ UNCHANGED <<published, durable, solid, latest, mayLatest, puts, acked, get>>

RenameLatest(w) ==
    /\ At(w, "verified")
    /\ latest' = [run |-> put[w].run, digest |-> put[w].content,
                  inode |-> put[w].inode]
    /\ mayLatest' = mayLatest \union {latest'}
    /\ Goto(w, "pointed")
    /\ UNCHANGED <<published, durable, solid, puts, acked, get>>

SyncLatest(w) ==
    /\ At(w, "pointed")
    /\ SyncRoot
    /\ acked' = acked \union {<<w, put[w].run, put[w].content>>}
    /\ Return(w)
    /\ UNCHANGED <<published, solid, latest, puts, get>>

\* A system call fails, or the process is killed.  What has been renamed
\* stays; a temporary directory or file is removed or ignored by readers.
Abort(w) ==
    /\ ~At(w, "idle")
    /\ Return(w)
    /\ UNCHANGED <<published, durable, solid, latest, mayLatest, puts, acked, get>>

\* The machine stops.  Entries that were not synced may be lost, each for
\* itself; bytes that were not synced are damaged; every process is gone.
MachineCrash ==
    /\ \E left \in SUBSET Stored :
         /\ durable \subseteq left
         /\ published' = [r \in Runs |-> IF r \notin left THEN NoRecord
                                        ELSE IF r \in solid THEN published[r]
                                        ELSE Damaged]
         /\ durable' = left
         /\ solid' = solid \intersect left
    /\ \E pointer \in mayLatest : latest' = pointer /\ mayLatest' = {pointer}
    /\ put' = [w \in Writers |-> IdlePut]
    /\ get' = [g \in Readers |-> IdleGet]
    /\ UNCHANGED <<puts, acked>>

-----------------------------------------------------------------------------
(* Get("latest", true); Resolve reads the same way.                        *)

InodeOf(pointer) == IF pointer = NoPointer THEN 0 ELSE pointer.inode

\* readRegular fails: the file it read is not the one it looked up.
Corrupt(g, what) == get' = [get EXCEPT ![g] = [pc |-> "corrupt", what |-> what]]

LookUpLatest(g) ==
    /\ get[g].pc = "idle"
    /\ latest # NoPointer
    /\ get' = [get EXCEPT ![g] = [pc |-> "found", inode |-> latest.inode]]
    /\ UNCHANGED <<fsVars, puts, put, acked>>

ReadLatest(g) ==
    /\ get[g].pc = "found"
    /\ IF InodeOf(latest) = get[g].inode
       THEN get' = [get EXCEPT ![g] = [pc |-> "read", pointer |-> latest]]
       ELSE Corrupt(g, "pointer")
    /\ UNCHANGED <<fsVars, puts, put, acked>>

RecheckLatest(g) ==
    /\ get[g].pc = "read"
    /\ IF InodeOf(latest) = get[g].pointer.inode
       THEN get' = [get EXCEPT ![g].pc = "pointer"]
       ELSE Corrupt(g, "pointer")
    /\ UNCHANGED <<fsVars, puts, put, acked>>

\* readRunRecord and the digest test; a record never changes once renamed.
ReadRecord(g) ==
    /\ get[g].pc = "pointer"
    /\ LET p == get[g].pointer
       IN  IF published[p.run] = p.digest
           THEN get' = [get EXCEPT ![g] = [pc |-> "ok", run |-> p.run,
                                           content |-> published[p.run]]]
           ELSE Corrupt(g, "record")
    /\ UNCHANGED <<fsVars, puts, put, acked>>

GetReturns(g) ==
    /\ get[g].pc \in {"ok", "corrupt"}
    /\ get' = [get EXCEPT ![g] = IdleGet]
    /\ UNCHANGED <<fsVars, puts, put, acked>>

-----------------------------------------------------------------------------
PutStep(w) ==
    \/ \E r \in Runs, c \in Contents : BeginPut(w, r, c)
    \/ WriteRecord(w) \/ FindExisting(w) \/ FindAbsent(w) \/ RenameRun(w)
    \/ RenameLoses(w) \/ SyncRun(w) \/ Verify(w) \/ RenameLatest(w)
    \/ SyncLatest(w) \/ Abort(w)

GetStep(g) == LookUpLatest(g) \/ ReadLatest(g) \/ RecheckLatest(g)
              \/ ReadRecord(g) \/ GetReturns(g)

StoreNext == \/ \E w \in Writers : PutStep(w)
             \/ \E g \in Readers : GetStep(g)
             \/ MachineCrash

StoreSpec == StoreInit /\ [][StoreNext]_storeVars

-----------------------------------------------------------------------------
(* Properties.                                                             *)

Jobs == [pc: {"idle", "temporary", "written", "absent", "renamed", "synced",
              "verified", "pointed", "corrupt"},
         run: Runs \union {NoRecord}, content: Contents \union {NoRecord},
         inode: 0..MaxPuts, synced: BOOLEAN]

\* The file system and the calls in progress have their types; in particular no
\* record is ever visible whose bytes a crash damaged.
StoreTypeOK ==
    /\ published \in [Runs -> Contents \union {NoRecord}]
    /\ durable \subseteq Runs
    /\ solid \subseteq Runs
    /\ latest \in Pointers \union {NoPointer}
    /\ mayLatest \subseteq Pointers \union {NoPointer}
    /\ puts \in 0..MaxPuts
    /\ put \in [Writers -> Jobs]
    /\ acked \subseteq Writers \X Runs \X Contents

\* latest.json, as it is and as any crash may leave it, names a record that is
\* on disk with the digest the pointer carries: Put syncs the run's directory
\* entry before it renames the pointer.
LatestNeverDangles ==
    \A p \in mayLatest \union {latest} : p # NoPointer =>
        /\ published[p.run] = p.digest
        /\ p.run \in durable \intersect solid

\* A record whose digest Put returned is still there, unchanged, after any
\* number of crashes and later Puts of the same or other runs.
AckedIsDurable ==
    \A a \in acked : /\ published[a[2]] = a[3]
                     /\ a[2] \in durable \intersect solid

\* Of all Puts of one run ID, in however many processes, at most one returns a
\* digest (TestConcurrentStoresSameRunOnlyOneCommit).
OneWinnerPerRun ==
    \A a, b \in acked : a[2] = b[2] => a = b

\* A Get that returns a record returns the bytes stored under that run ID, and
\* neither Put's read-back nor Get ever finds a record that is corrupt.
RecordsReadBack ==
    /\ \A w \in Writers : ~At(w, "corrupt")
    /\ \A g \in Readers :
          /\ get[g].pc = "ok" => published[get[g].run] = get[g].content
          /\ get[g].pc = "corrupt" => get[g].what = "pointer"

\* store.go:27, "local run record is corrupt": Get says so of a store that
\* nothing but Put has written to.
NoFalseCorruption == \A g \in Readers : get[g].pc # "corrupt"

\* The store implements the map its callers see.
Promise == INSTANCE RunStoreAbstract
             WITH records <- published,
                  kept    <- {a[2] : a \in acked},
                  newest  <- IF latest = NoPointer THEN NoRecord ELSE latest.run

\* Records are write-once, acknowledged ones are kept, and latest names a
\* stored record, through every interleaving and crash.
ImplementsPromise == Promise!AbsSpec

=============================================================================
