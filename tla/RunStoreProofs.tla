--------------------------- MODULE RunStoreProofs ---------------------------
(* Proofs about the run store, for any number of runs, records, writers,   *)
(* readers and Put calls, and for any number of crashes.                   *)
EXTENDS RunStore, TLAPS

\* Writers past the rename of their run directory.
Renamed(w) == put[w].pc \in {"renamed", "synced", "verified", "pointed"}

\* A call in progress carries a run, a record and an inode, and it is synced
\* before it is renamed.
JobsInv ==
    \A w \in Writers :
        /\ put[w].pc # "idle" => /\ put[w].run \in Runs
                                 /\ put[w].content \in Contents
                                 /\ put[w].inode \in 1..MaxPuts
        /\ put[w].pc \notin {"idle", "temporary"} => put[w].synced
        /\ put[w].pc # "corrupt"

\* Stored records have synced bytes, and durable entries are stored.
DiskInv == /\ solid = Stored
           /\ durable \subseteq Stored
           /\ latest \in mayLatest

\* A writer past the rename owns its record, durably once it has synced.
OwnerInv ==
    \A w \in Writers : Renamed(w) =>
        /\ published[put[w].run] = put[w].content
        /\ put[w].pc # "renamed" => put[w].run \in durable
        /\ \A v \in Writers : Renamed(v) /\ put[v].run = put[w].run => v = w
        /\ \A a \in acked : a[2] # put[w].run

\* The inductive invariant.
StoreInv == /\ StoreTypeOK
            /\ JobsInv
            /\ DiskInv
            /\ OwnerInv
            /\ LatestNeverDangles
            /\ AckedIsDurable
            /\ OneWinnerPerRun

-----------------------------------------------------------------------------
(* The empty store that Open creates satisfies the invariant. *)
LEMMA InitStoreInv == StoreInit => StoreInv
<1> SUFFICES ASSUME StoreInit PROVE StoreInv
  OBVIOUS
<1> USE DEF StoreInit
<1>1. StoreTypeOK
  <2>1. IdlePut \in Jobs
    BY StoreConstants DEF IdlePut, Jobs
  <2>2. put \in [Writers -> Jobs]
    BY <2>1
  <2> QED BY <2>2, StoreConstants DEF StoreTypeOK
<1>2. JobsInv
  BY DEF JobsInv, IdlePut
<1>3. DiskInv
  BY DEF DiskInv, Stored
<1>4. OwnerInv
  BY DEF OwnerInv, Renamed, IdlePut
<1>5. LatestNeverDangles /\ AckedIsDurable /\ OneWinnerPerRun
  BY DEF LatestNeverDangles, AckedIsDurable, OneWinnerPerRun
<1> QED BY <1>1, <1>2, <1>3, <1>4, <1>5 DEF StoreInv

\* The part of the invariant that does not mention calls in progress is kept by
\* every step that leaves the file system and the acknowledgements alone.
LEMMA QuietFiles ==
    ASSUME StoreInv, UNCHANGED <<published, durable, solid, latest, mayLatest, acked>>
    PROVE  /\ DiskInv'
           /\ LatestNeverDangles'
           /\ AckedIsDurable'
           /\ OneWinnerPerRun'
BY DEF StoreInv, DiskInv, Stored, LatestNeverDangles, AckedIsDurable,
       OneWinnerPerRun

\* Put returns, with ErrExists or any other error, or its process is killed.
LEMMA ReturnStoreInv ==
    ASSUME StoreInv, NEW w \in Writers, Return(w),
           UNCHANGED <<published, durable, solid, latest, mayLatest, puts, acked>>
    PROVE  StoreInv'
<1> USE DEF StoreInv, Return
<1>0. IdlePut \in Jobs /\ put \in [Writers -> Jobs]
  BY StoreConstants DEF IdlePut, Jobs, StoreTypeOK
<1>1. \A v \in Writers : put'[v] = IF v = w THEN IdlePut ELSE put[v]
  BY <1>0
<1>2. StoreTypeOK'
  BY <1>0 DEF StoreTypeOK
<1>3. JobsInv'
  BY <1>1 DEF JobsInv, IdlePut
<1>4. OwnerInv'
  BY <1>1 DEF OwnerInv, Renamed, IdlePut
<1> QED BY <1>2, <1>3, <1>4, QuietFiles

\* Put before its rename: the payload checks, the temporary directory, the
\* write and its syncs, the look-up of the run ID.
LEMMA PrepareStoreInv ==
    ASSUME StoreInv, NEW w \in Writers,
           \/ \E r \in Runs, c \in Contents : BeginPut(w, r, c)
           \/ WriteRecord(w)
           \/ FindAbsent(w)
    PROVE  StoreInv'
<1> USE DEF StoreInv
<1>0. put \in [Writers -> Jobs] /\ puts \in 0..MaxPuts /\ MaxPuts \in Nat
  BY StoreConstants DEF StoreTypeOK
<1> DEFINE job == put'[w]
<1>1. /\ put' = [put EXCEPT ![w] = job]
      /\ job \in Jobs
      /\ job.pc \in {"temporary", "written", "absent"}
      /\ job.run \in Runs /\ job.content \in Contents /\ job.inode \in 1..MaxPuts
      /\ job.pc # "temporary" => job.synced
      /\ puts' \in 0..MaxPuts
      /\ UNCHANGED <<published, durable, solid, latest, mayLatest, acked>>
  <2>1. ASSUME NEW r \in Runs, NEW c \in Contents, BeginPut(w, r, c)
        PROVE  <1>1!:
    <3>1. job = [pc |-> "temporary", run |-> r, content |-> c,
                 inode |-> puts + 1, synced |-> FALSE]
      BY <2>1, <1>0 DEF BeginPut
    <3>2. puts + 1 \in 1..MaxPuts
      BY <2>1, <1>0 DEF BeginPut
    <3> QED BY <2>1, <3>1, <3>2, <1>0 DEF BeginPut, Jobs
  <2>2. CASE WriteRecord(w)
    <3>1. job = [put[w] EXCEPT !.pc = "written", !.synced = TRUE]
      BY <2>2, <1>0 DEF WriteRecord
    <3>2. put[w].pc = "temporary"
      BY <2>2 DEF WriteRecord, At
    <3> QED BY <2>2, <3>1, <3>2, <1>0, Zenon DEF WriteRecord, Jobs, JobsInv
  <2>3. CASE FindAbsent(w)
    <3>1. job = [put[w] EXCEPT !.pc = "absent"]
      BY <2>3, <1>0 DEF FindAbsent, Goto
    <3>2. put[w].pc = "written"
      BY <2>3 DEF FindAbsent, At
    <3> QED BY <2>3, <3>1, <3>2, <1>0 DEF FindAbsent, Goto, Jobs, JobsInv
  <2> QED BY <2>1, <2>2, <2>3
<1> HIDE DEF job
<1>2. \A v \in Writers : put'[v] = IF v = w THEN job ELSE put[v]
  BY <1>1, <1>0
<1>3. StoreTypeOK'
  BY <1>0, <1>1 DEF StoreTypeOK
<1>4. JobsInv'
  BY <1>1, <1>2 DEF JobsInv
<1>5. OwnerInv'
  BY <1>1, <1>2 DEF OwnerInv, Renamed
<1> QED BY <1>1, <1>3, <1>4, <1>5, QuietFiles

\* A step that only moves the program counter of one call.
LEMMA GotoJob ==
    ASSUME StoreInv, NEW w \in Writers, NEW pc, Goto(w, pc),
           pc \in {"renamed", "synced", "verified", "pointed"}
    PROVE  /\ put' \in [Writers -> Jobs]
           /\ \A v \in Writers :
                /\ put'[v].pc = IF v = w THEN pc ELSE put[v].pc
                /\ put'[v].run = put[v].run
                /\ put'[v].content = put[v].content
                /\ put'[v].inode = put[v].inode
                /\ put'[v].synced = put[v].synced
<1>1. put \in [Writers -> Jobs]
  BY DEF StoreInv, StoreTypeOK
<1>2. [put[w] EXCEPT !.pc = pc] \in Jobs
  BY <1>1 DEF Jobs
<1> QED BY <1>1, <1>2 DEF Goto, Jobs

\* Rename: the run ID was free, so nobody owns it and nothing names it.
LEMMA RenameStoreInv ==
    ASSUME StoreInv, NEW w \in Writers, RenameRun(w)
    PROVE  StoreInv'
<1> USE DEF StoreInv
<1> DEFINE run == put[w].run
           content == put[w].content
<1>g. Goto(w, "renamed")
  BY DEF RenameRun
<1>j. /\ put' \in [Writers -> Jobs]
      /\ \A v \in Writers :
           /\ put'[v].pc = IF v = w THEN "renamed" ELSE put[v].pc
           /\ put'[v].run = put[v].run
           /\ put'[v].content = put[v].content
           /\ put'[v].inode = put[v].inode
           /\ put'[v].synced = put[v].synced
  BY <1>g, GotoJob
<1>0. /\ put[w].pc = "absent" /\ put[w].synced
      /\ run \in Runs /\ content \in Contents
      /\ published \in [Runs -> Contents \union {NoRecord}]
      /\ published[run] = NoRecord
      /\ NoRecord \notin Contents
  BY StoreConstants DEF RenameRun, At, JobsInv, StoreTypeOK, Stored
<1>p. \A r \in Runs : published'[r] = IF r = run THEN content ELSE published[r]
  BY <1>0 DEF RenameRun
<1> HIDE DEF run, content
<1>1. StoreTypeOK'
  <2>1. published' \in [Runs -> Contents \union {NoRecord}]
    BY <1>0 DEF RenameRun, run, content
  <2>2. solid' \subseteq Runs
    BY <1>0 DEF RenameRun, run, StoreTypeOK
  <2> QED BY <2>1, <2>2, <1>j DEF StoreTypeOK, RenameRun
<1>2. JobsInv'
  BY <1>j, <1>0 DEF JobsInv
<1>3. DiskInv'
  BY <1>0, <1>p DEF DiskInv, Stored, RenameRun, run
<1>4. OwnerInv'
  <2>1. \A v \in Writers : Renamed(v) => put[v].run # run /\ put[v].run \in Runs
    BY <1>0 DEF OwnerInv, JobsInv, Renamed
  <2>2. \A a \in acked : a[2] # run
    BY <1>0 DEF AckedIsDurable, StoreTypeOK
  <2>3. \A v \in Writers : Renamed(v)' <=> (v = w \/ Renamed(v))
    BY <1>j DEF Renamed
  <2>4. UNCHANGED <<durable, acked>>
    BY DEF RenameRun
  <2>5. ASSUME NEW v \in Writers, Renamed(v)'
        PROVE  /\ published'[put'[v].run] = put'[v].content
               /\ put'[v].pc # "renamed" => put'[v].run \in durable'
               /\ \A u \in Writers : Renamed(u)' /\ put'[u].run = put'[v].run => u = v
               /\ \A a \in acked' : a[2] # put'[v].run
    <3>1. CASE v = w
      BY <3>1, <2>1, <2>2, <2>3, <2>4, <1>j, <1>p, <1>0 DEF run, content
    <3>2. CASE v # w
      <4>1. Renamed(v) /\ put[v].run # run /\ put[v].run \in Runs
        BY <3>2, <2>1, <2>3, <2>5
      <4>2. published'[put'[v].run] = put'[v].content
        BY <4>1, <1>j, <1>p DEF OwnerInv
      <4>3. put'[v].pc # "renamed" => put'[v].run \in durable'
        BY <4>1, <3>2, <1>j, <2>4 DEF OwnerInv
      <4>4. ASSUME NEW u \in Writers, Renamed(u)', put'[u].run = put'[v].run
            PROVE  u = v
        BY <4>1, <4>4, <2>3, <1>j DEF OwnerInv, run
      <4>5. \A a \in acked' : a[2] # put'[v].run
        BY <4>1, <2>4, <1>j DEF OwnerInv
      <4> QED BY <4>2, <4>3, <4>4, <4>5
    <3> QED BY <3>1, <3>2
  <2> QED BY <2>5 DEF OwnerInv
<1>5. LatestNeverDangles'
  <2>1. UNCHANGED <<durable, latest, mayLatest>> /\ solid \subseteq solid'
    BY DEF RenameRun
  <2>2. ASSUME NEW p \in mayLatest \union {latest}, p # NoPointer
        PROVE  published'[p.run] = p.digest /\ p.run \in durable \intersect solid'
    <3>1. published[p.run] = p.digest /\ p.run \in durable \intersect solid
      BY <2>2 DEF LatestNeverDangles
    <3>2. p.run \in Runs /\ p.run # run
      BY <3>1, <1>0 DEF DiskInv, Stored
    <3> QED BY <3>1, <3>2, <2>1, <1>p
  <2> QED BY <2>1, <2>2 DEF LatestNeverDangles
<1>6. AckedIsDurable'
  <2>1. UNCHANGED <<durable, acked>> /\ solid \subseteq solid'
    BY DEF RenameRun
  <2>2. ASSUME NEW a \in acked
        PROVE  published'[a[2]] = a[3] /\ a[2] \in durable \intersect solid'
    <3>1. published[a[2]] = a[3] /\ a[2] \in durable \intersect solid
      BY DEF AckedIsDurable
    <3>2. a[2] \in Runs /\ a[2] # run
      BY <3>1, <1>0 DEF DiskInv, Stored
    <3> QED BY <3>1, <3>2, <2>1, <1>p
  <2> QED BY <2>1, <2>2 DEF AckedIsDurable
<1>7. OneWinnerPerRun'
  BY DEF OneWinnerPerRun, RenameRun
<1> QED BY <1>1, <1>2, <1>3, <1>4, <1>5, <1>6, <1>7

\* The syncs of the root, the read-back, and the rename of latest.json.
LEMMA SyncRunStoreInv ==
    ASSUME StoreInv, NEW w \in Writers, SyncRun(w)
    PROVE  StoreInv'
<1> USE DEF StoreInv
<1>g. Goto(w, "synced") /\ put[w].pc = "renamed"
  BY DEF SyncRun, At
<1>j. /\ put' \in [Writers -> Jobs]
      /\ \A v \in Writers :
           /\ put'[v].pc = IF v = w THEN "synced" ELSE put[v].pc
           /\ put'[v].run = put[v].run
           /\ put'[v].content = put[v].content
           /\ put'[v].inode = put[v].inode
           /\ put'[v].synced = put[v].synced
  BY <1>g, GotoJob
<1>d. /\ durable' = Stored /\ mayLatest' = {latest}
      /\ UNCHANGED <<published, solid, latest, puts, acked>>
  BY DEF SyncRun, SyncRoot
<1>1. StoreTypeOK'
  BY <1>d, <1>j DEF StoreTypeOK, Stored
<1>2. JobsInv'
  BY <1>g, <1>j DEF JobsInv
<1>3. DiskInv'
  BY <1>d DEF DiskInv, Stored
<1>4. OwnerInv'
  <2>1. \A v \in Writers : Renamed(v)' <=> Renamed(v)
    BY <1>g, <1>j DEF Renamed
  <2>2. \A v \in Writers : Renamed(v) => put[v].run \in Stored
    BY StoreConstants DEF OwnerInv, JobsInv, Renamed, Stored
  <2> QED BY <2>1, <2>2, <1>d, <1>j DEF OwnerInv
<1>5. LatestNeverDangles' /\ AckedIsDurable' /\ OneWinnerPerRun'
  BY <1>d DEF LatestNeverDangles, AckedIsDurable, OneWinnerPerRun, DiskInv
<1> QED BY <1>1, <1>2, <1>3, <1>4, <1>5

(* A step that moves a writer on among the stages past its rename, and leaves
   the records alone, changes nothing about who owns which record. *)
LEMMA OwnersKept ==
    ASSUME OwnerInv, UNCHANGED <<published, durable, acked>>,
           \A v \in Writers : /\ Renamed(v)' <=> Renamed(v)
                              /\ put'[v].run = put[v].run
                              /\ put'[v].content = put[v].content
                              /\ put'[v].pc # "renamed" => put[v].pc # "renamed"
    PROVE  OwnerInv'
<1>1. ASSUME NEW w \in Writers, Renamed(w)'
      PROVE  /\ published'[put'[w].run] = put'[w].content
             /\ put'[w].pc # "renamed" => put'[w].run \in durable'
             /\ \A v \in Writers : Renamed(v)' /\ put'[v].run = put'[w].run => v = w
             /\ \A a \in acked' : a[2] # put'[w].run
  <2>1. Renamed(w)
    BY <1>1
  <2> QED BY <2>1 DEF OwnerInv
<1> QED BY <1>1 DEF OwnerInv

(* Put reading back the record it published preserves the invariant. *)
LEMMA VerifyStoreInv ==
    ASSUME StoreInv, NEW w \in Writers, Verify(w)
    PROVE  StoreInv'
<1> USE DEF StoreInv
<1>g. Goto(w, "verified") /\ put[w].pc = "synced"
  BY DEF Verify, At, OwnerInv, Renamed
<1>j. /\ put' \in [Writers -> Jobs]
      /\ \A v \in Writers :
           /\ put'[v].pc = IF v = w THEN "verified" ELSE put[v].pc
           /\ put'[v].run = put[v].run
           /\ put'[v].content = put[v].content
           /\ put'[v].inode = put[v].inode
           /\ put'[v].synced = put[v].synced
  BY <1>g, GotoJob
<1>d. UNCHANGED <<published, durable, solid, latest, mayLatest, puts, acked>>
  BY DEF Verify
<1>1. StoreTypeOK'
  BY <1>d, <1>j DEF StoreTypeOK
<1>2. JobsInv'
  BY <1>g, <1>j DEF JobsInv
<1>3. OwnerInv'
  <2>1. \A v \in Writers : Renamed(v)' <=> Renamed(v)
    BY <1>g, <1>j DEF Renamed
  <2>2. \A v \in Writers : put'[v].pc # "renamed" => put[v].pc # "renamed"
    BY <1>g, <1>j
  <2> QED BY <2>1, <2>2, <1>d, <1>j, OwnersKept
<1> QED BY <1>1, <1>2, <1>3, <1>d, QuietFiles

(* Replacing latest.json preserves the invariant: the run it names has been
   synced by then. *)
LEMMA RenameLatestStoreInv ==
    ASSUME StoreInv, NEW w \in Writers, RenameLatest(w)
    PROVE  StoreInv'
<1> USE DEF StoreInv
<1>g. Goto(w, "pointed") /\ put[w].pc = "verified"
  BY DEF RenameLatest, At
<1>j. /\ put' \in [Writers -> Jobs]
      /\ \A v \in Writers :
           /\ put'[v].pc = IF v = w THEN "pointed" ELSE put[v].pc
           /\ put'[v].run = put[v].run
           /\ put'[v].content = put[v].content
           /\ put'[v].inode = put[v].inode
           /\ put'[v].synced = put[v].synced
  BY <1>g, GotoJob
<1> DEFINE pointer == [run |-> put[w].run, digest |-> put[w].content,
                       inode |-> put[w].inode]
<1>d. /\ latest' = pointer /\ mayLatest' = mayLatest \union {pointer}
      /\ UNCHANGED <<published, durable, solid, puts, acked>>
  BY DEF RenameLatest
<1>p. pointer \in Pointers
  BY <1>g DEF Pointers, JobsInv
<1>n. /\ published[pointer.run] = pointer.digest
      /\ pointer.run \in durable \intersect solid
  BY <1>g DEF OwnerInv, Renamed, DiskInv
<1> HIDE DEF pointer
<1>1. StoreTypeOK'
  BY <1>d, <1>j, <1>p DEF StoreTypeOK
<1>2. JobsInv'
  BY <1>g, <1>j DEF JobsInv
<1>3. DiskInv'
  BY <1>d DEF DiskInv, Stored
<1>4. OwnerInv'
  <2>1. \A v \in Writers : Renamed(v)' <=> Renamed(v)
    BY <1>g, <1>j DEF Renamed
  <2>2. \A v \in Writers : put'[v].pc # "renamed" => put[v].pc # "renamed"
    BY <1>g, <1>j
  <2> QED BY <2>1, <2>2, <1>d, <1>j, OwnersKept
<1>5. LatestNeverDangles' /\ AckedIsDurable' /\ OneWinnerPerRun'
  BY <1>d, <1>n DEF LatestNeverDangles, AckedIsDurable, OneWinnerPerRun
<1> QED BY <1>1, <1>2, <1>3, <1>4, <1>5

\* Put returns a digest: the record it owns is durable, and nobody else owned
\* or acknowledged that run.
LEMMA SyncLatestStoreInv ==
    ASSUME StoreInv, NEW w \in Writers, SyncLatest(w)
    PROVE  StoreInv'
<1> USE DEF StoreInv
<1> DEFINE done == <<w, put[w].run, put[w].content>>
<1>g. Return(w) /\ put[w].pc = "pointed" /\ Renamed(w)
  BY DEF SyncLatest, At, Renamed
<1>t. IdlePut \in Jobs /\ put \in [Writers -> Jobs]
  BY StoreConstants DEF IdlePut, Jobs, StoreTypeOK
<1>j. \A v \in Writers : put'[v] = IF v = w THEN IdlePut ELSE put[v]
  BY <1>g, <1>t DEF Return
<1>d. /\ durable' = Stored /\ mayLatest' = {latest} /\ acked' = acked \union {done}
      /\ UNCHANGED <<published, solid, latest, puts>>
  BY DEF SyncLatest, SyncRoot
<1>o. /\ done \in Writers \X Runs \X Contents
      /\ published[done[2]] = done[3] /\ done[2] \in durable
      /\ \A a \in acked : a[2] # done[2]
  BY <1>g DEF OwnerInv, JobsInv
<1>1. StoreTypeOK'
  <2>1. put' \in [Writers -> Jobs]
    BY <1>g, <1>t DEF Return
  <2>2. durable' \subseteq Runs
    BY <1>d DEF Stored
  <2> QED BY <2>1, <2>2, <1>d, <1>o DEF StoreTypeOK
<1>2. JobsInv'
  BY <1>j DEF JobsInv, IdlePut
<1>3. DiskInv'
  BY <1>d DEF DiskInv, Stored
<1>4. OwnerInv'
  <2>1. \A v \in Writers : Renamed(v)' => v # w /\ Renamed(v) /\ put'[v] = put[v]
    BY <1>j DEF Renamed, IdlePut
  <2>2. \A v \in Writers : Renamed(v) => put[v].run \in Stored
    BY StoreConstants DEF OwnerInv, JobsInv, Renamed, Stored
  <2>3. \A v \in Writers : v # w /\ Renamed(v) => done[2] # put[v].run
    BY <1>g DEF OwnerInv
  <2> QED BY <2>1, <2>2, <2>3, <1>d, SMTT(60) DEF OwnerInv
<1> HIDE DEF done
<1>5. LatestNeverDangles'
  BY <1>d DEF LatestNeverDangles, DiskInv
<1>6. AckedIsDurable'
  BY <1>d, <1>o DEF AckedIsDurable, DiskInv
<1>7. OneWinnerPerRun'
  BY <1>d, <1>o DEF OneWinnerPerRun
<1> QED BY <1>1, <1>2, <1>3, <1>4, <1>5, <1>6, <1>7

\* A crash: what it may lose was neither acknowledged nor pointed to.
LEMMA CrashStoreInv ==
    ASSUME StoreInv, MachineCrash
    PROVE  StoreInv'
<1> USE DEF StoreInv
<1> PICK left \in SUBSET Stored :
         /\ durable \subseteq left
         /\ published' = [r \in Runs |-> IF r \notin left THEN NoRecord
                                        ELSE IF r \in solid THEN published[r]
                                        ELSE Damaged]
         /\ durable' = left
         /\ solid' = solid \intersect left
  BY DEF MachineCrash
<1> PICK pointer \in mayLatest : latest' = pointer /\ mayLatest' = {pointer}
  BY DEF MachineCrash
<1>j. /\ put' = [w \in Writers |-> IdlePut]
      /\ UNCHANGED <<puts, acked>>
  BY DEF MachineCrash
<1>p. \A r \in Runs : published'[r] = IF r \in left THEN published[r] ELSE NoRecord
  BY DEF DiskInv
<1>1. StoreTypeOK'
  <2>1. IdlePut \in Jobs
    BY StoreConstants DEF IdlePut, Jobs
  <2>2. published' \in [Runs -> Contents \union {NoRecord}]
    BY DEF StoreTypeOK, DiskInv, Stored
  <2>3. durable' \subseteq Runs /\ solid' \subseteq Runs
    BY DEF Stored
  <2> QED BY <2>1, <2>2, <2>3, <1>j DEF StoreTypeOK
<1>2. JobsInv' /\ OwnerInv'
  BY <1>j DEF JobsInv, OwnerInv, Renamed, IdlePut
<1>3. DiskInv'
  BY <1>p DEF DiskInv, Stored
<1>4. LatestNeverDangles'
  BY <1>p DEF LatestNeverDangles, DiskInv, Stored
<1>5. AckedIsDurable'
  BY <1>p, <1>j DEF AckedIsDurable, DiskInv, Stored
<1>6. OneWinnerPerRun'
  BY <1>j DEF OneWinnerPerRun
<1> QED BY <1>1, <1>2, <1>3, <1>4, <1>5, <1>6

\* Readers and stuttering steps change nothing the invariant is about.
LEMMA QuietStoreInv ==
    ASSUME StoreInv, UNCHANGED <<fsVars, puts, put, acked>>
    PROVE  StoreInv'
<1> USE DEF StoreInv, fsVars
<1>1. StoreTypeOK'
  BY DEF StoreTypeOK
<1>2. JobsInv' /\ OwnerInv'
  BY DEF JobsInv, OwnerInv, Renamed
<1> QED BY <1>1, <1>2, QuietFiles

(* Every step of the store, a crash included, preserves the invariant. *)
LEMMA NextStoreInv == StoreInv /\ [StoreNext]_storeVars => StoreInv'
<1> SUFFICES ASSUME StoreInv, [StoreNext]_storeVars PROVE StoreInv'
  OBVIOUS
<1>1. ASSUME NEW w \in Writers, PutStep(w) PROVE StoreInv'
  <2>1. CASE FindExisting(w) \/ RenameLoses(w) \/ Abort(w)
    BY <2>1, ReturnStoreInv DEF FindExisting, RenameLoses, Abort
  <2> QED BY <1>1, <2>1, PrepareStoreInv, RenameStoreInv, SyncRunStoreInv,
             VerifyStoreInv, RenameLatestStoreInv, SyncLatestStoreInv DEF PutStep
<1>2. ASSUME NEW g \in Readers, GetStep(g) PROVE StoreInv'
  BY <1>2, QuietStoreInv DEF GetStep, LookUpLatest, ReadLatest, RecheckLatest,
     ReadRecord, GetReturns
<1>3. CASE MachineCrash
  BY <1>3, CrashStoreInv
<1>4. CASE UNCHANGED storeVars
  BY <1>4, QuietStoreInv DEF storeVars, fsVars
<1> QED BY <1>1, <1>2, <1>3, <1>4 DEF StoreNext

\* The inductive invariant holds of every behaviour of the store.
THEOREM StoreInvariant == StoreSpec => []StoreInv
BY InitStoreInv, NextStoreInv, PTL DEF StoreSpec

\* No crash and no race leaves latest.json naming a record that is not there.
THEOREM PointerSafety == StoreSpec => []LatestNeverDangles
BY StoreInvariant, PTL DEF StoreInv

\* A record whose digest Put returned is never lost or changed.
THEOREM Durability == StoreSpec => []AckedIsDurable
BY StoreInvariant, PTL DEF StoreInv

\* At most one Put of a run ID ever returns a digest.
THEOREM SingleCommit == StoreSpec => []OneWinnerPerRun
BY StoreInvariant, PTL DEF StoreInv

-----------------------------------------------------------------------------
(* The refinement of RunStoreAbstract.                                     *)

Kept == {a[2] : a \in acked}

Newest == IF latest = NoPointer THEN NoRecord ELSE latest.run

\* A step that leaves the records, the pointer and the acknowledgements alone
\* is a stutter of the abstract store.
LEMMA StutterStep ==
    ASSUME UNCHANGED <<published, latest, acked>>
    PROVE  UNCHANGED Promise!absVars
BY DEF Promise!absVars

\* Every step of a Put is a step of the abstract store, or a stutter.
LEMMA PutStepRefines ==
    ASSUME StoreInv, NEW w \in Writers, PutStep(w)
    PROVE  [Promise!AbsNext]_(Promise!absVars)
<1> USE DEF StoreInv
<1>1. CASE RenameRun(w)
  <2>1. put[w].run \in Runs /\ put[w].content \in Contents
    BY <1>1 DEF RenameRun, At, JobsInv
  <2>2. Promise!Publish(put[w].run, put[w].content)
    BY <1>1, <2>1 DEF RenameRun, Stored, Promise!Publish
  <2> QED BY <2>1, <2>2 DEF Promise!AbsNext
<1>2. CASE RenameLatest(w)
  <2>1. put[w].pc = "verified" /\ Renamed(w)
    BY <1>2 DEF RenameLatest, At, Renamed
  <2>2. /\ put[w].run \in Runs /\ put[w].content \in Contents
        /\ put[w].inode \in 1..MaxPuts
        /\ published[put[w].run] = put[w].content
    BY <2>1 DEF JobsInv, OwnerInv
  <2>3. latest' \in Pointers /\ latest'.run = put[w].run
    BY <1>2, <2>2 DEF RenameLatest, Pointers
  <2>4. Newest' = put[w].run
    BY <2>3, StoreConstants DEF Newest
  <2>5. put[w].run \in Promise!Stored
    BY <2>2, StoreConstants DEF Promise!Stored
  <2>6. Promise!Point(put[w].run)
    BY <1>2, <2>4, <2>5 DEF RenameLatest, Newest, Promise!Point
  <2> QED BY <2>2, <2>6 DEF Promise!AbsNext
<1>3. CASE SyncLatest(w)
  <2>1. put[w].pc = "pointed" /\ Renamed(w)
    BY <1>3 DEF SyncLatest, At, Renamed
  <2>2. /\ put[w].run \in Runs /\ put[w].content \in Contents
        /\ published[put[w].run] = put[w].content
    BY <2>1 DEF JobsInv, OwnerInv
  <2>3. Kept' = Kept \union {put[w].run}
    <3> DEFINE done == <<w, put[w].run, put[w].content>>
    <3>1. acked' = acked \union {done}
      BY <1>3 DEF SyncLatest
    <3>2. done[2] = put[w].run
      OBVIOUS
    <3> HIDE DEF done
    <3> QED BY <3>1, <3>2 DEF Kept
  <2>4. put[w].run \in Promise!Stored
    BY <2>2, StoreConstants DEF Promise!Stored
  <2>5. Promise!Acknowledge(put[w].run)
    BY <1>3, <2>3, <2>4 DEF SyncLatest, Kept, Promise!Acknowledge
  <2>6. \E r \in Runs : Promise!Point(r) \/ Promise!Acknowledge(r)
    BY <2>2, <2>5 DEF Promise!Acknowledge
  <2> QED BY <2>6 DEF Promise!AbsNext
<1>4. CASE ~(RenameRun(w) \/ RenameLatest(w) \/ SyncLatest(w))
  <2>1. UNCHANGED <<published, latest, acked>>
    BY <1>4, PutStep(w) DEF PutStep, BeginPut, WriteRecord, FindExisting,
       FindAbsent, RenameLoses, SyncRun, SyncRoot, Verify, Abort
  <2> QED BY <2>1, StutterStep
<1> QED BY <1>1, <1>2, <1>3, <1>4

\* A machine crash is a crash of the abstract store: it loses no record that
\* was acknowledged, and the pointer it leaves names a record that is left.
LEMMA CrashRefines ==
    ASSUME StoreInv, MachineCrash
    PROVE  Promise!Crash
<1> USE DEF StoreInv
<1> PICK left \in SUBSET Stored :
         /\ durable \subseteq left
         /\ published' = [r \in Runs |-> IF r \notin left THEN NoRecord
                                        ELSE IF r \in solid THEN published[r]
                                        ELSE Damaged]
  BY DEF MachineCrash
<1> PICK pointer \in mayLatest : latest' = pointer
  BY DEF MachineCrash
<1> DEFINE lost == Stored \ left
<1>1. UNCHANGED acked
  BY DEF MachineCrash
<1>2. Stored = Promise!Stored
  BY DEF Stored, Promise!Stored
<1>3. lost \in SUBSET (Promise!Stored \ Kept)
  BY <1>2 DEF AckedIsDurable, Kept
<1>4. published' = [r \in Runs |-> IF r \in lost THEN NoRecord ELSE published[r]]
  BY DEF DiskInv, Stored
<1>5. Newest' \in {NoRecord} \union (Promise!Stored \ lost)
  BY <1>2 DEF Newest, LatestNeverDangles
<1> HIDE DEF lost
<1> QED BY <1>1, <1>3, <1>4, <1>5 DEF Promise!Crash, Kept, Newest

\* The run store implements the write-once map its callers rely on: every
\* step of Put, Get or a crash is a step of RunStoreAbstract, or a stutter.
THEOREM StoreRefinesPromise == StoreSpec => ImplementsPromise
<1>1. StoreInit => Promise!AbsInit
  BY DEF StoreInit, Promise!AbsInit
<1>2. ASSUME StoreInv, [StoreNext]_storeVars
      PROVE  [Promise!AbsNext]_(Promise!absVars)
  <2>1. ASSUME NEW g \in Readers, GetStep(g) PROVE UNCHANGED Promise!absVars
    <3>1. UNCHANGED <<published, latest, acked>>
      BY <2>1 DEF GetStep, LookUpLatest, ReadLatest, RecheckLatest, ReadRecord,
         GetReturns, fsVars
    <3> QED BY <3>1, StutterStep
  <2>2. CASE MachineCrash
    BY <1>2, <2>2, CrashRefines DEF Promise!AbsNext
  <2>3. CASE UNCHANGED storeVars
    BY <2>3, StutterStep DEF storeVars
  <2>4. ASSUME NEW w \in Writers, PutStep(w)
        PROVE  [Promise!AbsNext]_(Promise!absVars)
    BY <1>2, <2>4, PutStepRefines
  <2> QED BY <1>2, <2>1, <2>2, <2>3, <2>4 DEF StoreNext
<1> QED BY <1>1, <1>2, StoreInvariant, PTL DEF StoreSpec, ImplementsPromise, Promise!AbsSpec

-----------------------------------------------------------------------------
(* What Get returns.                                                       *)

\* A Get in progress holds a pointer whose record is stored: the inode it
\* looked up is a file's, the pointer it read named a stored record then, and
\* a stored record does not change.
GetInv ==
    /\ get = [g \in Readers |-> get[g]]
    /\ \A g \in Readers :
          /\ get[g].pc = "found" => get[g].inode # 0
          /\ get[g].pc \in {"read", "pointer"} =>
                /\ get[g] = [pc |-> get[g].pc, pointer |-> get[g].pointer]
                /\ get[g].pointer.run \in Runs
                /\ get[g].pointer.digest \in Contents
                /\ published[get[g].pointer.run] = get[g].pointer.digest
          /\ get[g].pc = "ok" =>
                /\ get[g].run \in Runs
                /\ get[g].content \in Contents
                /\ published[get[g].run] = get[g].content
          /\ get[g].pc = "corrupt" => get[g].what = "pointer"

\* Put never changes or removes a record that is there.
LEMMA PutKeepsRecords ==
    ASSUME StoreInv, NEW w \in Writers, PutStep(w)
    PROVE  /\ \A r \in Runs : published[r] \in Contents => published'[r] = published[r]
           /\ UNCHANGED get
<1>1. CASE RenameRun(w)
  <2>1. put[w].run \in Runs /\ published[put[w].run] = NoRecord
    BY <1>1 DEF StoreInv, JobsInv, RenameRun, At, Stored
  <2>2. published' = [published EXCEPT ![put[w].run] = put[w].content] /\ UNCHANGED get
    BY <1>1 DEF RenameRun
  <2>3. published \in [Runs -> Contents \union {NoRecord}] /\ NoRecord \notin Contents
    BY StoreConstants DEF StoreInv, StoreTypeOK
  <2> QED BY <2>1, <2>2, <2>3
<1>2. CASE UNCHANGED <<published, get>>
  BY <1>2
<1> QED
  BY <1>1, <1>2 DEF PutStep, BeginPut, WriteRecord, FindExisting, FindAbsent,
     RenameLoses, SyncRun, Verify, RenameLatest, SyncLatest, Abort

\* A step of Get that leaves the others alone and its own call in order.
LEMMA GetMoves ==
    ASSUME GetInv, NEW g \in Readers, NEW job,
           get' = [get EXCEPT ![g] = job], UNCHANGED published,
           job.pc = "found" => job.inode # 0,
           job.pc \in {"read", "pointer"} =>
                /\ job = [pc |-> job.pc, pointer |-> job.pointer]
                /\ job.pointer.run \in Runs
                /\ job.pointer.digest \in Contents
                /\ published[job.pointer.run] = job.pointer.digest,
           job.pc = "ok" => /\ job.run \in Runs
                            /\ job.content \in Contents
                            /\ published[job.run] = job.content,
           job.pc = "corrupt" => job.what = "pointer"
    PROVE  GetInv'
<1>1. get' = [h \in Readers |-> IF h = g THEN job ELSE get[h]]
  BY Zenon DEF GetInv
<1>2. get' = [h \in Readers |-> get'[h]]
  BY <1>1, Zenon
<1>3. \A h \in Readers : get'[h] = IF h = g THEN job ELSE get[h]
  BY <1>1, Zenon
<1> QED BY <1>2, <1>3 DEF GetInv

\* The reads of Get.
LEMMA GetStepGetInv ==
    ASSUME StoreInv, GetInv, NEW g \in Readers, GetStep(g)
    PROVE  GetInv'
<1>0. UNCHANGED published
  BY DEF GetStep, LookUpLatest, ReadLatest, RecheckLatest, ReadRecord, GetReturns, fsVars
<1>1. ASSUME NEW what, Corrupt(g, what), what = "pointer" PROVE GetInv'
  <2> DEFINE job == [pc |-> "corrupt", what |-> what]
  <2>1. get' = [get EXCEPT ![g] = job]
    BY <1>1 DEF Corrupt
  <2>2. job.pc = "corrupt" /\ job.what = "pointer"
    BY <1>1
  <2> HIDE DEF job
  <2> QED BY <1>0, <2>1, <2>2, GetMoves, Zenon
<1>2. CASE LookUpLatest(g)
  <2> DEFINE job == [pc |-> "found", inode |-> latest.inode]
  <2>1. get' = [get EXCEPT ![g] = job]
    BY <1>2 DEF LookUpLatest
  <2>2. latest \in Pointers
    BY <1>2 DEF LookUpLatest, StoreInv, StoreTypeOK
  <2>3. job.pc = "found" /\ job.inode # 0
    BY <2>2, StoreConstants DEF Pointers
  <2> HIDE DEF job
  <2> QED BY <1>0, <2>1, <2>3, GetMoves, Zenon
<1>3. CASE ReadLatest(g) /\ InodeOf(latest) = get[g].inode
  <2> DEFINE job == [pc |-> "read", pointer |-> latest]
  <2>1. get' = [get EXCEPT ![g] = job]
    BY <1>3 DEF ReadLatest
  <2>2. latest # NoPointer
    BY <1>3 DEF ReadLatest, InodeOf, GetInv
  <2>3. latest \in Pointers /\ published[latest.run] = latest.digest
    BY <2>2 DEF StoreInv, StoreTypeOK, LatestNeverDangles
  <2>4. job.pc = "read" /\ job.pointer = latest
    OBVIOUS
  <2>5. job = [pc |-> job.pc, pointer |-> job.pointer]
    OBVIOUS
  <2>6. latest.run \in Runs /\ latest.digest \in Contents
    BY <2>3 DEF Pointers
  <2> HIDE DEF job
  <2> QED BY <1>0, <2>1, <2>3, <2>4, <2>5, <2>6, GetMoves, Zenon
<1>4. CASE RecheckLatest(g) /\ InodeOf(latest) = get[g].pointer.inode
  <2> DEFINE job == [pc |-> "pointer", pointer |-> get[g].pointer]
  <2>1. /\ get[g].pc = "read"
        /\ get' = [get EXCEPT ![g].pc = "pointer"]
    BY <1>4 DEF RecheckLatest
  <2>2. get[g] = [pc |-> get[g].pc, pointer |-> get[g].pointer]
    BY <2>1 DEF GetInv
  <2>3. get' = [get EXCEPT ![g] = job]
    <3>1. ASSUME NEW q PROVE [[pc |-> "read", pointer |-> q] EXCEPT !.pc = "pointer"]
                               = [pc |-> "pointer", pointer |-> q]
      OBVIOUS
    <3>2. get[g] = [pc |-> "read", pointer |-> get[g].pointer]
      BY <2>1, <2>2, Zenon
    <3>3. [get[g] EXCEPT !.pc = "pointer"] = job
      BY <3>1, <3>2, Zenon
    <3> HIDE DEF job
    <3> QED BY <2>1, <3>3, Zenon
  <2>4. job.pc = "pointer" /\ job.pointer = get[g].pointer
    OBVIOUS
  <2>5. job = [pc |-> job.pc, pointer |-> job.pointer]
    OBVIOUS
  <2>6. /\ get[g].pointer.run \in Runs
        /\ get[g].pointer.digest \in Contents
        /\ published[get[g].pointer.run] = get[g].pointer.digest
    BY <2>1 DEF GetInv
  <2> HIDE DEF job
  <2> QED BY <1>0, <2>3, <2>4, <2>5, <2>6, GetMoves, Zenon
<1>5. CASE ReadRecord(g)
  <2> DEFINE p == get[g].pointer
             job == [pc |-> "ok", run |-> p.run, content |-> published[p.run]]
  <2>1. p.run \in Runs /\ p.digest \in Contents /\ published[p.run] = p.digest
    BY <1>5 DEF ReadRecord, GetInv
  <2>2. get' = [get EXCEPT ![g] = job]
    BY <1>5, <2>1 DEF ReadRecord
  <2>3. /\ job.pc = "ok" /\ job.run \in Runs
        /\ job.content \in Contents /\ published[job.run] = job.content
    BY <2>1
  <2> HIDE DEF job
  <2> QED BY <1>0, <2>2, <2>3, GetMoves, Zenon
<1>6. CASE GetReturns(g)
  <2>1. get' = [get EXCEPT ![g] = IdleGet]
    BY <1>6 DEF GetReturns
  <2>2. IdleGet.pc = "idle"
    BY DEF IdleGet
  <2> QED BY <1>0, <2>1, <2>2, GetMoves, Zenon
<1> QED
  BY <1>1, <1>2, <1>3, <1>4, <1>5, <1>6 DEF GetStep, ReadLatest, RecheckLatest

\* Every step of the store keeps the calls of Get in order.
LEMMA GetInvNext == StoreInv /\ GetInv /\ [StoreNext]_storeVars => GetInv'
<1> SUFFICES ASSUME StoreInv, GetInv, [StoreNext]_storeVars PROVE GetInv'
  OBVIOUS
<1>1. ASSUME NEW w \in Writers, PutStep(w) PROVE GetInv'
  <2>1. /\ \A r \in Runs : published[r] \in Contents => published'[r] = published[r]
        /\ UNCHANGED get
    BY <1>1, PutKeepsRecords
  <2> QED BY <2>1 DEF GetInv
<1>2. CASE MachineCrash
  <2>1. get' = [g \in Readers |-> IdleGet] /\ IdleGet.pc = "idle"
    BY <1>2 DEF MachineCrash, IdleGet
  <2>2. get' = [g \in Readers |-> get'[g]]
    BY <2>1, Zenon
  <2>3. \A g \in Readers : get'[g].pc = "idle"
    BY <2>1
  <2> QED BY <2>2, <2>3 DEF GetInv
<1>3. CASE UNCHANGED storeVars
  BY <1>3 DEF storeVars, GetInv
<1> QED BY <1>1, <1>2, <1>3, GetStepGetInv DEF StoreNext

\* A Get that returns a record returns the bytes stored under its run ID, and
\* no record, the one Put reads back or the one Get reads, is found corrupt,
\* though Puts, Gets and crashes interleave in every way.
THEOREM ReadsReturnWhatWasPut == StoreSpec => []RecordsReadBack
<1>1. StoreInit => GetInv
  <2> SUFFICES ASSUME StoreInit PROVE GetInv
    OBVIOUS
  <2>1. get = [g \in Readers |-> IdleGet] /\ IdleGet.pc = "idle"
    BY DEF StoreInit, IdleGet
  <2>2. get = [g \in Readers |-> get[g]]
    BY <2>1, Zenon
  <2> QED BY <2>1, <2>2 DEF GetInv
<1>2. StoreInv /\ GetInv => RecordsReadBack
  BY DEF StoreInv, JobsInv, GetInv, RecordsReadBack, At
<1> QED BY <1>1, <1>2, GetInvNext, StoreInvariant, PTL DEF StoreSpec

=============================================================================
