----------------------------- MODULE Workspace -----------------------------
(***************************************************************************)
(* The files that the command line keeps in a working directory: the       *)
(* configuration (internal/config/load.go) and the named baselines         *)
(* (internal/cli/baseline.go, internal/report/baseline.go).  Every command *)
(* is a process of its own; several run at once, any of them may be killed *)
(* and the machine may crash.  A file is written under a temporary name,   *)
(* synced, and then linked or renamed into place; its directory is not     *)
(* synced, so that a crash of the machine may bring back what was there    *)
(* before.                                                                 *)
(*                                                                         *)
(* A configuration is the set of its targets.  The bundle of a run, read   *)
(* and validated from the run store, is its test identity (the digests of  *)
(* profile, pack, support lock and denominator), its number of protocol    *)
(* packs, and the state of each scenario.                                  *)
(***************************************************************************)
EXTENDS Integers, FiniteSets

CONSTANTS Commands,       \* processes
          BaselineNames,
          RunBundles,     \* bundles of the runs in the run store
          OldBaselines,   \* baseline files of earlier versions
          NewTargets,     \* targets that are added
          DefaultTarget,  \* the target of config.Default
          NoFile, Torn,   \* nothing there; something incomplete there
          MaxPowerCuts    \* bound on crashes of the machine

ASSUME WorkspaceConstants == /\ MaxPowerCuts \in Nat
                             /\ DefaultTarget \notin NewTargets

VARIABLES files,      \* what is under each name
          survivors,  \* what a crash of the machine may leave under each name
          command,    \* where each process is
          accepted,   \* baselines that were accepted under each name
          powerCuts

workspaceVars == <<files, survivors, command, accepted, powerCuts>>

Paths == BaselineNames \union {"config"}

-----------------------------------------------------------------------------
(* Baselines and their comparison.                                         *)

CaseStateValid(state) ==
    /\ state.disposition \in {"EXECUTE", "SKIP", "NOT_APPLICABLE"}
    /\ state.verdict # "" => state.execution = "COMPLETED"

BaselineValid(baseline) ==
    /\ baseline.version = "v1"
    /\ baseline.name \in BaselineNames \union {"comparison"}
    /\ \A id \in DOMAIN baseline.cases : CaseStateValid(baseline.cases[id])

\* The result of NewBaseline, none when the bundle has no single protocol pack.
NewBaseline(name, bundle) ==
    {baseline \in {[version |-> "v1", name |-> name, identity |-> bundle.identity,
                    cases |-> bundle.cases]} :
        bundle.packs = 1 /\ BaselineValid(baseline)}

\* A baseline without a version was written by a release candidate.
DecodeBaseline(content) ==
    {baseline \in {[content EXCEPT !.version = IF @ = "" THEN "v1" ELSE @]} :
        BaselineValid(baseline)}

loadBaseline(name) ==
    IF files[name] \in {NoFile, Torn} THEN {}
    ELSE {baseline \in DecodeBaseline(files[name]) : baseline.name = name}

isFailure(state) == state.verdict = "FAIL"

\* How one scenario changed between two baselines, at least one of which has it.
ChangeOf(before, after, id) ==
    IF id \notin DOMAIN before
    THEN IF isFailure(after[id]) THEN "NEW_FAILURE" ELSE "NEW_CAPABILITY"
    ELSE IF id \notin DOMAIN after THEN "NO_LONGER_TESTED"
    ELSE IF ~isFailure(before[id]) /\ isFailure(after[id]) THEN "REGRESSION"
    ELSE IF /\ isFailure(before[id]) /\ ~isFailure(after[id])
            /\ after[id].disposition = "EXECUTE" THEN "FIXED"
    ELSE IF before[id].disposition # "EXECUTE" /\ after[id].disposition = "EXECUTE"
    THEN "NEW_CAPABILITY"
    ELSE "UNCHANGED"

\* Compare, for baselines with one test identity.
Compare(before, after) ==
    [id \in DOMAIN before.cases \union DOMAIN after.cases |->
        ChangeOf(before.cases, after.cases, id)]

\* Faulty variant: only the scenarios of the baseline are looked at.
EmitKnown(before, after) ==
    IF before.identity # after.identity THEN 2
    ELSE IF \E id \in DOMAIN before.cases : Compare(before, after)[id] = "REGRESSION" THEN 6
    ELSE 0

\* The exit code of a comparison.
emitComparison(before, after) ==
    IF before.identity # after.identity THEN 2
    ELSE IF \E id \in DOMAIN Compare(before, after) :
               Compare(before, after)[id] \in {"REGRESSION", "NEW_FAILURE"}
    THEN 6
    ELSE 0

\* The markers for no file and for an incomplete one are no contents of a file,
\* and no baseline's file is the configuration.
ASSUME FileMarkers ==
    /\ NoFile # Torn
    /\ "config" \notin BaselineNames
    /\ \A content \in OldBaselines : content \notin {NoFile, Torn}
    /\ \A content \in SUBSET (NewTargets \union {DefaultTarget}) : content \notin {NoFile, Torn}
    /\ \A name \in BaselineNames, bundle \in RunBundles :
          \A content \in NewBaseline(name, bundle) : content \notin {NoFile, Torn}

-----------------------------------------------------------------------------
(* Writing a file.                                                         *)

Waiting == [pc |-> "idle"]

WorkspaceInit ==
    /\ \E old \in [BaselineNames -> OldBaselines \union {NoFile}] :
          /\ files = [path \in Paths |-> IF path = "config" THEN NoFile ELSE old[path]]
          /\ accepted = [name \in BaselineNames |->
                            IF old[name] = NoFile THEN {} ELSE loadBaseline(name)]
    /\ survivors = [path \in Paths |-> {files[path]}]
    /\ command = [p \in Commands |-> Waiting]
    /\ powerCuts = 0

Exits(p) == command' = [command EXCEPT ![p] = Waiting]

\* A process that has something to write.
Writes(p, path, content, overwrite) ==
    /\ command' = [command EXCEPT ![p] = [pc |-> "check", path |-> path, content |-> content,
                                          overwrite |-> overwrite, synced |-> FALSE]]
    /\ UNCHANGED <<files, survivors, accepted, powerCuts>>

\* init: SaveFile of the default configuration, without overwriting.
runInit(p) ==
    command[p].pc = "idle" /\ Writes(p, "config", {DefaultTarget}, FALSE)

\* target add: LoadFile, and SaveFile of all its targets with one more.
runTargetAdd(p, target) ==
    /\ command[p].pc = "idle"
    /\ files["config"] \notin {NoFile, Torn}
    /\ target \notin files["config"]
    /\ Writes(p, "config", files["config"] \union {target}, TRUE)

\* baseline accept.
baselineAccept(p, name, bundle) ==
    /\ command[p].pc = "idle"
    /\ \E baseline \in NewBaseline(name, bundle) : Writes(p, name, baseline, FALSE)

\* Lstat of the destination, in validateNewFilePath, writeNewFile and SaveFile.
validateNewFilePath(p) ==
    /\ command[p].pc = "check"
    /\ IF files[command[p].path] = NoFile \/ command[p].overwrite
       THEN command' = [command EXCEPT ![p].pc = "write"]
       ELSE Exits(p)
    /\ UNCHANGED <<files, survivors, accepted, powerCuts>>

\* Faulty variant: the temporary file is not synced.
WriteUnsynced(p) ==
    /\ command[p].pc = "write"
    /\ command' = [command EXCEPT ![p].pc = "commit"]
    /\ UNCHANGED <<files, survivors, accepted, powerCuts>>

\* CreateTemp, Write, Sync, Close.
WriteTemporary(p) ==
    /\ command[p].pc = "write"
    /\ command' = [command EXCEPT ![p].pc = "commit", ![p].synced = TRUE]
    /\ UNCHANGED <<files, survivors, accepted, powerCuts>>

\* The temporary file becomes the file: by os.Rename, or by os.Link, which fails
\* when another process was first.
writeNewFile(p) ==
    LET c == command[p]
    IN  /\ c.pc = "commit"
        /\ IF c.overwrite \/ files[c.path] = NoFile
           THEN /\ files' = [files EXCEPT ![c.path] = c.content]
                /\ survivors' = [survivors EXCEPT ![c.path] =
                      @ \union {c.content} \union IF c.synced THEN {} ELSE {Torn}]
                /\ command' = [command EXCEPT ![p].pc = "reply"]
           ELSE Exits(p) /\ UNCHANGED <<files, survivors>>
        /\ UNCHANGED <<accepted, powerCuts>>

\* The temporary name is removed and the command reports success.
ReplyWritten(p) ==
    /\ command[p].pc = "reply"
    /\ accepted' = IF command[p].path = "config" THEN accepted
                   ELSE [accepted EXCEPT ![command[p].path] = @ \union {command[p].content}]
    /\ Exits(p)
    /\ UNCHANGED <<files, survivors, powerCuts>>

Compared(p, against, before, after) ==
    /\ command' = [command EXCEPT ![p] = [pc |-> "compared", against |-> against, after |-> after,
                                          before |-> before,
                                          exit |-> emitComparison(before, after)]]
    /\ UNCHANGED <<files, survivors, accepted, powerCuts>>

\* baseline compare: a run with a named baseline.
baselineCompare(p, name, bundle) ==
    /\ command[p].pc = "idle"
    /\ \E before \in loadBaseline(name), after \in NewBaseline(name, bundle) :
          Compared(p, {name}, before, after)

\* compare: two runs.
runCompare(p, left, right) ==
    /\ command[p].pc = "idle"
    /\ \E before \in NewBaseline("comparison", left), after \in NewBaseline("comparison", right) :
          Compared(p, {}, before, after)

\* A command ends with its exit code, fails or is killed; what it linked stays.
EndCommand(p) ==
    /\ command[p].pc # "idle"
    /\ Exits(p)
    /\ UNCHANGED <<files, survivors, accepted, powerCuts>>

\* The machine crashes.  A baseline whose name is lost can be accepted anew.
CutPower ==
    /\ powerCuts < MaxPowerCuts
    /\ powerCuts' = powerCuts + 1
    /\ \E config \in survivors["config"],
          left \in [BaselineNames -> UNION {survivors[name] : name \in BaselineNames}] :
          /\ \A name \in BaselineNames : left[name] \in survivors[name]
          /\ files' = [path \in Paths |-> IF path = "config" THEN config ELSE left[path]]
    /\ survivors' = [path \in Paths |-> {files'[path]}]
    /\ accepted' = [name \in BaselineNames |-> IF files'[name] = NoFile THEN {} ELSE accepted[name]]
    /\ command' = [p \in Commands |-> Waiting]

WorkspaceNext ==
    \/ \E p \in Commands :
          \/ runInit(p)
          \/ \E target \in NewTargets : runTargetAdd(p, target)
          \/ \E name \in BaselineNames, bundle \in RunBundles :
                baselineAccept(p, name, bundle) \/ baselineCompare(p, name, bundle)
          \/ \E left, right \in RunBundles : runCompare(p, left, right)
          \/ validateNewFilePath(p) \/ WriteTemporary(p) \/ writeNewFile(p)
          \/ ReplyWritten(p) \/ EndCommand(p)
    \/ CutPower

WorkspaceSpec == WorkspaceInit /\ [][WorkspaceNext]_workspaceVars

-----------------------------------------------------------------------------
\* A command never finds half a configuration or half a baseline, whatever was
\* killed and whenever the machine crashed: SaveFile and writeNewFile sync the
\* bytes before they give them the name.
FilesAreWhole == \A path \in Paths : files[path] # Torn

\* A comparison that exits 0 means that no scenario of the run fails that did not
\* fail in the baseline accepted under that name, though accepts of other bundles
\* raced for it; one that exits 6 means that some scenario does.
GateHolds ==
    \A p \in Commands : command[p].pc = "compared" =>
        LET failing(b) == {id \in DOMAIN b.cases : isFailure(b.cases[id])}
            known == {command[p].before} \union UNION {accepted[name] : name \in command[p].against}
        IN  /\ command[p].exit = 0 =>
                  \A b \in known : failing(command[p].after) \subseteq failing(b)
            /\ command[p].exit = 6 =>
                  \A b \in known : ~(failing(command[p].after) \subseteq failing(b))

=============================================================================
