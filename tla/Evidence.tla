------------------------------ MODULE Evidence ------------------------------
(***************************************************************************)
(* The content-addressed evidence store (internal/cas) under the recorder  *)
(* (internal/recorder).  Record stores a sanitized payload, then an        *)
(* envelope with all that is known of it, then a reference to the envelope *)
(* that readers follow; each is a file linked into place and made durable  *)
(* by a sync of its directory.  Several processes share one store.  A      *)
(* process may fail between any two system calls, and the machine may      *)
(* crash: durable names survive, of the other names any subset does.       *)
(*                                                                         *)
(* A file's name stands for its bytes, which were synced before it was     *)
(* linked.  An envelope is named by its place in sealed, the sequence of   *)
(* all envelopes so far.  Relations name evidence that Record returned.    *)
(***************************************************************************)
EXTENDS Integers, FiniteSets, Sequences

CONSTANTS Recorders,         \* recorders, each in a process of its own
          Payloads,          \* sanitized payloads
          MaxRelationDepth,  \* maxEvidenceRelationDepth
          MaxSequence,       \* bound on observations per recorder
          MaxSealed,         \* bound on envelopes
          MaxCrashes         \* bound on machine crashes

ASSUME EvidenceConstants == /\ MaxRelationDepth \in Nat /\ MaxSequence \in Nat
                            /\ MaxSealed \in Nat /\ MaxCrashes \in Nat

VARIABLES linked,    \* the names that are there
          durable,   \* those whose directory was synced since
          sealed,    \* all envelopes, in the order they were sealed
          rec,       \* each recorder: next sequence, place in Record
          acked,     \* evidence that Record returned
          boots      \* crashes of the machine so far

evidenceVars == <<linked, durable, sealed, rec, acked, boots>>

PayloadName(p) == <<"payload", p>>
EnvelopeName(i) == <<"envelope", i>>
RefName(i) == <<"ref", i>>

Resting(n) == [pc |-> "idle", next |-> n]

EvidenceInit == /\ linked = {} /\ durable = {} /\ sealed = <<>> /\ acked = {} /\ boots = 0
                /\ rec = [r \in Recorders |-> Resting(1)]

-----------------------------------------------------------------------------
(* Reading.                                                                *)

\* readVerified finds the name; its bytes are what the name says.
readVerified(name) == name \in linked

\* getEvidence of every envelope at once, at every depth: with its reference, its
\* bytes, its payload and, to a limited depth, all that it is related to.
getEvidence ==
    LET get[depth \in 0..(MaxRelationDepth + 1)] ==
            [i \in 0..Len(sealed) |->
                \/ i = 0
                \/ /\ depth <= MaxRelationDepth
                   /\ readVerified(RefName(i)) /\ readVerified(EnvelopeName(i))
                   /\ readVerified(PayloadName(sealed[i].payload))
                   /\ get[depth + 1][sealed[i].relation]]
    IN  get

GetEvidence(i) == getEvidence[0][i]

\* resolveEvidenceRelations for an envelope that is not there yet.
resolveEvidenceRelations(i) == getEvidence[1][sealed[i].relation]

-----------------------------------------------------------------------------
(* Where an observation is made.                                           *)

Layers == {"upstream_application", "proxy_forwarded", "client_sdk", "sanitized_persisted"}
Modes == {"direct", "proxy", "fixture", "client"}
Directions == {"core_to_target", "target_to_core", "proxy_to_client", "client_to_proxy",
               "driver_to_core"}

\* New takes only source layers, with a mode that can observe them.
sourceCaptureLayer(layer) == layer \in {"upstream_application", "proxy_forwarded", "client_sdk"}

validLayerMode(layer, mode) ==
    mode \in CASE layer = "upstream_application" -> {"direct", "fixture"}
             [] layer = "proxy_forwarded"      -> {"proxy"}
             [] layer = "client_sdk"           -> {"client", "fixture"}
             [] OTHER                          -> {}

\* validateObservation's condition on the direction.
validDirection(layer, direction) ==
    direction \in CASE layer = "upstream_application" -> {"core_to_target", "target_to_core"}
                  [] layer = "proxy_forwarded"      -> {"proxy_to_client", "client_to_proxy"}
                  [] layer = "client_sdk"           -> {"driver_to_core"}
                  [] OTHER                          -> {}

\* The envelope's own condition, in the schema package.
validEvidenceObservationPoint(layer, mode, direction) ==
    \/ layer = "sanitized_persisted"
    \/ /\ layer = "upstream_application" /\ mode \in {"direct", "fixture"}
       /\ direction \in {"core_to_target", "target_to_core"}
    \/ /\ layer = "proxy_forwarded" /\ mode = "proxy"
       /\ direction \in {"proxy_to_client", "client_to_proxy"}
    \/ layer = "client_sdk" /\ mode \in {"client", "fixture"} /\ direction = "driver_to_core"

\* What the envelope's validation says of the observations that recorders accept,
\* over all their configurations.
Verdicts ==
    LET points == [layer: Layers, mode: Modes, direction: Directions]
    IN  {validEvidenceObservationPoint(point.layer, point.mode, point.direction) :
            point \in {point \in points : /\ sourceCaptureLayer(point.layer)
                                         /\ validLayerMode(point.layer, point.mode)
                                         /\ validDirection(point.layer, point.direction)}}

-----------------------------------------------------------------------------
(* Record.                                                                 *)

Moved(r, pc) == [rec EXCEPT ![r].pc = pc]

\* validateObservation wants the next sequence number and a possible point of
\* observation; Put begins.
Record(r, payload, relation, valid) ==
    /\ rec[r].pc = "idle" /\ rec[r].next <= MaxSequence
    /\ rec' = [rec EXCEPT ![r] = [pc |-> "put payload", next |-> rec[r].next,
                                  payload |-> payload, relation |-> relation, id |-> 0,
                                  valid |-> valid]]
    /\ UNCHANGED <<linked, durable, sealed, acked, boots>>

\* The file that Record is about to put in place.
Staged(r) ==
    CASE rec[r].pc \in {"put payload", "link payload", "sync payload"} -> PayloadName(rec[r].payload)
      [] rec[r].pc \in {"put envelope", "link envelope", "sync envelope"} -> EnvelopeName(rec[r].id)
      [] OTHER -> RefName(rec[r].id)

\* Where Record is once that file is durable.
After(what) == CASE what = "payload"  -> "seal"
                 [] what = "envelope" -> "link ref"
                 [] what = "ref"      -> "check"

\* The three system calls that put a file in place.
Putting(what) == [payload |-> "put payload", envelope |-> "put envelope"][what]
Linking(what) == [payload |-> "link payload", envelope |-> "link envelope",
                  ref |-> "link ref"][what]
Syncing(what) == [payload |-> "sync payload", envelope |-> "sync envelope",
                  ref |-> "sync ref"][what]

\* Faulty variant: what exists already is taken to be durable.
PutTrusting(r, what) ==
    /\ rec[r].pc = Putting(what)
    /\ rec' = Moved(r, IF readVerified(Staged(r)) THEN After(what) ELSE Linking(what))
    /\ UNCHANGED <<linked, durable, sealed, acked, boots>>

\* putDigestBytes: an object that exists has its directory synced; otherwise a
\* temporary file is written and synced.
putDigestBytes(r, what) ==
    /\ rec[r].pc = Putting(what)
    /\ rec' = Moved(r, IF readVerified(Staged(r)) THEN Syncing(what) ELSE Linking(what))
    /\ UNCHANGED <<linked, durable, sealed, acked, boots>>

\* os.Link: another process may have been first.
LinkObject(r, what) ==
    /\ rec[r].pc = Linking(what)
    /\ linked' = linked \union {Staged(r)}
    /\ rec' = Moved(r, Syncing(what))
    /\ UNCHANGED <<durable, sealed, acked, boots>>

syncDirectory(r, what) ==
    /\ rec[r].pc = Syncing(what)
    /\ durable' = durable \union {Staged(r)}
    /\ rec' = Moved(r, After(what))
    /\ UNCHANGED <<linked, sealed, acked, boots>>

\* SealEvidenceMeta, for a valid envelope; the envelope of an observation that is
\* recorded again is the same one only if the clock reads the same.
SealEvidenceMeta(r) ==
    LET envelope == [by |-> r, boot |-> boots, sequence |-> rec[r].next,
                     payload |-> rec[r].payload, relation |-> rec[r].relation]
    IN  /\ rec[r].pc = "seal" /\ rec[r].valid
        /\ \/ /\ Len(sealed) < MaxSealed
              /\ sealed' = Append(sealed, envelope)
              /\ rec' = [rec EXCEPT ![r].id = Len(sealed) + 1, ![r].pc = "put evidence"]
           \/ \E i \in DOMAIN sealed :
              /\ sealed[i] = envelope
              /\ rec' = [rec EXCEPT ![r].id = i, ![r].pc = "put evidence"]
              /\ UNCHANGED sealed
        /\ UNCHANGED <<linked, durable, acked, boots>>

\* PutEvidence up to its first write.
PutEvidence(r) ==
    /\ rec[r].pc = "put evidence"
    /\ rec' = IF /\ readVerified(PayloadName(rec[r].payload))
                 /\ resolveEvidenceRelations(rec[r].id)
              THEN Moved(r, IF RefName(rec[r].id) \in linked THEN "sync ref" ELSE "put envelope")
              ELSE [rec EXCEPT ![r] = Resting(rec[r].next)]
    /\ UNCHANGED <<linked, durable, sealed, acked, boots>>

\* The last check of PutEvidence (compareExistingEvidence for a reference that
\* was there before), and the end of Record.
CommitRecord(r) ==
    /\ rec[r].pc = "check"
    /\ rec' = [rec EXCEPT ![r] = Resting(rec[r].next + IF GetEvidence(rec[r].id) THEN 1 ELSE 0)]
    /\ acked' = IF GetEvidence(rec[r].id) THEN acked \union {rec[r].id} ELSE acked
    /\ UNCHANGED <<linked, durable, sealed, boots>>

\* Faulty variant: the sequence advances even when Record fails.
FailAdvancing(r) ==
    /\ rec[r].pc # "idle"
    /\ rec' = [rec EXCEPT ![r] = Resting(rec[r].next + 1)]
    /\ UNCHANGED <<linked, durable, sealed, acked, boots>>

\* A system call fails or the context is cancelled: Record returns an error.
FailRecord(r) ==
    /\ rec[r].pc # "idle"
    /\ rec' = [rec EXCEPT ![r] = Resting(rec[r].next)]
    /\ UNCHANGED <<linked, durable, sealed, acked, boots>>

\* The machine crashes; every process starts afresh, with a new attempt.
CrashMachine ==
    /\ boots < MaxCrashes
    /\ boots' = boots + 1
    /\ \E lost \in SUBSET (linked \ durable) : linked' = linked \ lost
    /\ durable' = linked'
    /\ rec' = [r \in Recorders |-> Resting(1)]
    /\ UNCHANGED <<sealed, acked>>

EvidenceNext ==
    \/ \E r \in Recorders :
          \/ \E payload \in Payloads, relation \in acked \union {0}, valid \in Verdicts :
                Record(r, payload, relation, valid)
          \/ \E what \in {"payload", "envelope"} : putDigestBytes(r, what)
          \/ \E what \in {"payload", "envelope", "ref"} : LinkObject(r, what) \/ syncDirectory(r, what)
          \/ SealEvidenceMeta(r) \/ PutEvidence(r) \/ CommitRecord(r) \/ FailRecord(r)
    \/ CrashMachine

EvidenceSpec == EvidenceInit /\ [][EvidenceNext]_evidenceVars

-----------------------------------------------------------------------------
\* Whatever processes fail and whenever the machine crashes, a reference that can
\* be seen leads to an envelope, a payload and relations that can be read, as deep
\* as they go: a report never cites evidence that GetEvidence cannot resolve.
VisibleEvidenceResolves ==
    \A i \in DOMAIN sealed : RefName(i) \in linked => GetEvidence(i)

\* The evidence that Record returned is there for good, and in every attempt its
\* sequence numbers run from 1 without a gap or a repetition, failures in
\* between or not.  No observation the recorder accepted is one that its envelope
\* must not describe: that would show only after the payload was stored.
AckedEvidenceComplete ==
    /\ \A i \in acked : RefName(i) \in durable
    /\ \A i, j \in acked : i # j =>
          <<sealed[i].by, sealed[i].boot, sealed[i].sequence>> #
          <<sealed[j].by, sealed[j].boot, sealed[j].sequence>>
    /\ \A r \in Recorders : rec[r].pc # "idle" => rec[r].valid
    /\ \A r \in Recorders : \A n \in 1..(rec[r].next - 1) :
          \E i \in acked : sealed[i].by = r /\ sealed[i].boot = boots /\ sealed[i].sequence = n

=============================================================================
