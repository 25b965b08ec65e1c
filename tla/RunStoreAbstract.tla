-------------------------- MODULE RunStoreAbstract --------------------------
(***************************************************************************)
(* What internal/runstore promises its callers: a map from run IDs to      *)
(* records that are never changed, a record that was acknowledged is never *)
(* lost, and a latest pointer that, when there is one, names a record that *)
(* is there.                                                               *)
(***************************************************************************)
CONSTANTS Runs, Contents, NoRecord

VARIABLES records,  \* the record of each run
          kept,     \* the runs whose Put has returned their digest
          newest    \* the run latest.json names, or NoRecord

absVars == <<records, kept, newest>>

Stored == {r \in Runs : records[r] # NoRecord}

AbsInit == /\ records = [r \in Runs |-> NoRecord]
           /\ kept = {}
           /\ newest = NoRecord

Publish(r, c) == /\ records[r] = NoRecord
                 /\ records' = [records EXCEPT ![r] = c]
                 /\ UNCHANGED <<kept, newest>>

Point(r) == /\ r \in Stored
            /\ newest' = r
            /\ UNCHANGED <<records, kept>>

Acknowledge(r) == /\ r \in Stored
                  /\ kept' = kept \union {r}
                  /\ UNCHANGED <<records, newest>>

\* A crash may lose records nobody was promised, and step the pointer back.
Crash == /\ \E lost \in SUBSET (Stored \ kept) :
              /\ records' = [r \in Runs |-> IF r \in lost THEN NoRecord
                                            ELSE records[r]]
              /\ newest' \in {NoRecord} \union (Stored \ lost)
         /\ UNCHANGED kept

AbsNext == \/ \E r \in Runs, c \in Contents : Publish(r, c)
           \/ \E r \in Runs : Point(r) \/ Acknowledge(r)
           \/ Crash

AbsSpec == AbsInit /\ [][AbsNext]_absVars

=============================================================================
