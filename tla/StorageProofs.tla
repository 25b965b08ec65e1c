---------------------------- MODULE StorageProofs ----------------------------
(* Proofs about the files that several processes share: the configuration  *)
(* and the baselines of a working directory, for any number of commands,   *)
(* names, bundles, targets and crashes; and the evidence store, for any    *)
(* number of recorders, payloads, envelopes and crashes.                   *)
EXTENDS Workspace, Evidence, FiniteSetTheorems, WellFoundedInduction, TLAPS

-----------------------------------------------------------------------------
(* The working directory.                                                  *)

Configs == SUBSET (NewTargets \union {DefaultTarget})

\* What loadBaseline reads from a file.
Loaded(name, content) ==
    IF content \in {NoFile, Torn} THEN {}
    ELSE {baseline \in DecodeBaseline(content) : baseline.name = name}

\* The record of a command that writes.
Writer(k, a, b, d, e) == [pc |-> k, path |-> a, content |-> b, overwrite |-> d, synced |-> e]
IsWriter(c) == \E a, b, d, e : c = Writer(c.pc, a, b, d, e)

\* A command that writes, with f the files: it has whole contents, synced before
\* the commit; only the configuration is ever overwritten, and what was linked
\* under a baseline's name is still there when the command replies.
WriterOK(c, f) ==
    c.pc \in {"check", "write", "commit", "reply"} =>
        /\ IsWriter(c)
        /\ c.path \in Paths
        /\ c.content \notin {NoFile, Torn}
        /\ c.pc \in {"commit", "reply"} => c.synced = TRUE
        /\ c.path = "config" => c.content \in Configs
        /\ c.path # "config" =>
              /\ c.overwrite = FALSE
              /\ \E bundle \in RunBundles : c.content \in NewBaseline(c.path, bundle)
              /\ c.pc = "reply" => f[c.path] = c.content

\* A comparison reports what it found, and the baseline it read is still there.
ComparisonOK(c, f) ==
    c.pc = "compared" =>
        /\ c.exit = emitComparison(c.before, c.after)
        /\ \/ c.against = {}
           \/ \E name \in BaselineNames :
                 c.against = {name} /\ c.before \in Loaded(name, f[name])

\* The inductive invariant: a crash leaves a baseline's name with what it has now
\* or with nothing, and every accepted baseline is the one on file.
WorkspaceInv ==
    /\ files = [path \in Paths |-> files[path]]
    /\ survivors = [path \in Paths |-> survivors[path]]
    /\ accepted = [name \in BaselineNames |-> accepted[name]]
    /\ command = [p \in Commands |-> command[p]]
    /\ \A path \in Paths : files[path] \in survivors[path] /\ Torn \notin survivors[path]
    /\ survivors["config"] \subseteq {NoFile} \union Configs
    /\ \A name \in BaselineNames : /\ survivors[name] \subseteq {NoFile, files[name]}
                                   /\ accepted[name] \subseteq Loaded(name, files[name])
    /\ \A p \in Commands : WriterOK(command[p], files) /\ ComparisonOK(command[p], files)

\* There is a file at every path of a baseline and at that of the configuration.
LEMMA PathFacts ==
    /\ "config" \in Paths
    /\ \A name \in BaselineNames : name \in Paths /\ name # "config"
    /\ \A path \in Paths : path # "config" => path \in BaselineNames
BY FileMarkers DEF Paths

\* Nothing is found where there is no file, and otherwise at most one baseline.
LEMMA LoadOne ==
    ASSUME NEW name, NEW content
    PROVE  /\ content = NoFile => Loaded(name, content) = {}
           /\ \A a, b \in Loaded(name, content) : a = b
BY Zenon DEF Loaded, DecodeBaseline

\* What NewBaseline made, DecodeBaseline reads back.
LEMMA AcceptedLoads ==
    ASSUME NEW name \in BaselineNames, NEW bundle \in RunBundles,
           NEW content \in NewBaseline(name, bundle)
    PROVE  content \in Loaded(name, content)
<1> DEFINE b == [version |-> "v1", name |-> name, identity |-> bundle.identity,
                 cases |-> bundle.cases]
<1>1. content = b /\ BaselineValid(b)
  BY DEF NewBaseline
<1>2. [b EXCEPT !.version = IF @ = "" THEN "v1" ELSE @] = b /\ b.name = name
  OBVIOUS
<1>3. content \notin {NoFile, Torn}
  BY FileMarkers
<1> HIDE DEF b
<1>4. b \in DecodeBaseline(b)
  BY <1>1, <1>2, Zenon DEF DecodeBaseline
<1> QED BY <1>1, <1>2, <1>3, <1>4, Zenon DEF Loaded

\* A command in order stays so while the baselines it knows of stay on file.
LEMMA CommandStays ==
    ASSUME NEW c, NEW f, NEW g, WriterOK(c, f), ComparisonOK(c, f),
           \A name \in BaselineNames : f[name] # NoFile => g[name] = f[name]
    PROVE  WriterOK(c, g) /\ ComparisonOK(c, g)
<1>1. WriterOK(c, g)
  BY PathFacts, FileMarkers DEF WriterOK
<1>2. ASSUME NEW name \in BaselineNames, c.before \in Loaded(name, f[name])
      PROVE  c.before \in Loaded(name, g[name])
  <2>1. f[name] # NoFile
    BY <1>2, LoadOne, Zenon
  <2> QED BY <1>2, <2>1
<1>3. ComparisonOK(c, g)
  BY <1>2, Zenon DEF ComparisonOK
<1> QED BY <1>1, <1>3

\* A command that is over is in order.
LEMMA WaitingOK == \A f : WriterOK(Waiting, f) /\ ComparisonOK(Waiting, f)
BY DEF WriterOK, ComparisonOK, Waiting

\* The commands after one of them has moved.
LEMMA CommandMoves ==
    ASSUME command = [q \in Commands |-> command[q]], NEW p \in Commands, NEW job,
           command' = [command EXCEPT ![p] = job]
    PROVE  /\ command' = [q \in Commands |-> command'[q]]
           /\ \A q \in Commands : command'[q] = IF q = p THEN job ELSE command[q]
<1>1. command' = [q \in Commands |-> IF q = p THEN job ELSE command[q]]
  BY Zenon
<1> QED BY <1>1, Zenon

\* A step of one command that leaves the files and the accepted baselines alone.
LEMMA QuietCommand ==
    ASSUME WorkspaceInv, UNCHANGED <<files, survivors, accepted>>,
           NEW p \in Commands, NEW job, command' = [command EXCEPT ![p] = job],
           WriterOK(job, files), ComparisonOK(job, files)
    PROVE  WorkspaceInv'
<1>1. /\ command' = [q \in Commands |-> command'[q]]
      /\ \A q \in Commands : command'[q] = IF q = p THEN job ELSE command[q]
  BY CommandMoves, Zenon DEF WorkspaceInv
<1>2. \A q \in Commands : WriterOK(command'[q], files) /\ ComparisonOK(command'[q], files)
  BY <1>1, Zenon DEF WorkspaceInv
<1> QED BY <1>1, <1>2, Zenon DEF WorkspaceInv

\* A command that fails, ends or is killed.
LEMMA CommandExits ==
    ASSUME WorkspaceInv, UNCHANGED <<files, survivors, accepted>>,
           NEW p \in Commands, Exits(p)
    PROVE  WorkspaceInv'
BY QuietCommand, WaitingOK, Zenon DEF Exits

\* A command begins to write whole contents.
LEMMA WritesInv ==
    ASSUME WorkspaceInv, NEW p \in Commands, NEW path \in Paths, NEW content,
           NEW overwrite, Writes(p, path, content, overwrite),
           content \notin {NoFile, Torn},
           path = "config" => content \in Configs,
           path # "config" => /\ overwrite = FALSE
                              /\ \E bundle \in RunBundles : content \in NewBaseline(path, bundle)
    PROVE  WorkspaceInv'
<1> DEFINE job == [pc |-> "check", path |-> path, content |-> content,
                   overwrite |-> overwrite, synced |-> FALSE]
<1>1. /\ command' = [command EXCEPT ![p] = job]
      /\ UNCHANGED <<files, survivors, accepted>>
  BY DEF Writes
<1>2. /\ job.pc = "check" /\ job.path = path /\ job.content = content
      /\ job.overwrite = overwrite
      /\ IsWriter(job)
  BY Zenon DEF IsWriter, Writer
<1> HIDE DEF job
<1>3. WriterOK(job, files) /\ ComparisonOK(job, files)
  BY <1>2 DEF WriterOK, ComparisonOK
<1> QED BY <1>1, <1>3, QuietCommand, Zenon

\* init and target add.
LEMMA ConfigCommands ==
    ASSUME WorkspaceInv, NEW p \in Commands,
           runInit(p) \/ \E target \in NewTargets : runTargetAdd(p, target)
    PROVE  WorkspaceInv'
<1>1. CASE runInit(p)
  <2>1. {DefaultTarget} \in Configs /\ {DefaultTarget} \notin {NoFile, Torn}
    BY FileMarkers DEF Configs
  <2>2. Writes(p, "config", {DefaultTarget}, FALSE)
    BY <1>1, Zenon DEF runInit
  <2> QED BY <2>1, <2>2, PathFacts, WritesInv, Zenon
<1>2. ASSUME NEW target \in NewTargets, runTargetAdd(p, target) PROVE WorkspaceInv'
  <2> DEFINE content == files["config"] \union {target}
  <2>1. files["config"] \in Configs
    BY <1>2, PathFacts DEF runTargetAdd, WorkspaceInv
  <2>2. content \in Configs
    BY <2>1 DEF Configs
  <2>3. Writes(p, "config", content, TRUE)
    BY <1>2, Zenon DEF runTargetAdd
  <2>4. content \notin {NoFile, Torn}
    BY <2>2, FileMarkers DEF Configs
  <2> HIDE DEF content
  <2> QED BY <2>2, <2>3, <2>4, PathFacts, WritesInv, Zenon
<1> QED BY <1>1, <1>2

\* baseline accept.
LEMMA AcceptInv ==
    ASSUME WorkspaceInv, NEW p \in Commands, NEW name \in BaselineNames,
           NEW bundle \in RunBundles, baselineAccept(p, name, bundle)
    PROVE  WorkspaceInv'
<1>1. PICK baseline \in NewBaseline(name, bundle) : Writes(p, name, baseline, FALSE)
  BY Zenon DEF baselineAccept
<1>2. baseline \notin {NoFile, Torn}
  BY FileMarkers, Zenon
<1> QED BY <1>1, <1>2, PathFacts, WritesInv, Zenon

\* baseline compare and compare.
LEMMA CompareInv ==
    ASSUME WorkspaceInv, NEW p \in Commands, NEW against, NEW before, NEW after,
           Compared(p, against, before, after),
           \/ against = {}
           \/ \E name \in BaselineNames : against = {name} /\ before \in loadBaseline(name)
    PROVE  WorkspaceInv'
<1> DEFINE job == [pc |-> "compared", against |-> against, after |-> after,
                   before |-> before, exit |-> emitComparison(before, after)]
<1>1. /\ command' = [command EXCEPT ![p] = job]
      /\ UNCHANGED <<files, survivors, accepted>>
  BY DEF Compared
<1>2. /\ job.pc = "compared" /\ job.against = against /\ job.before = before
      /\ job.after = after /\ job.exit = emitComparison(before, after)
  BY Zenon
<1> HIDE DEF job
<1>3. \A name \in BaselineNames : Loaded(name, files[name]) = loadBaseline(name)
  BY Zenon DEF Loaded, loadBaseline
<1>4. ComparisonOK(job, files)
  BY <1>2, <1>3, Zenon DEF ComparisonOK
<1>5. WriterOK(job, files)
  BY <1>2 DEF WriterOK
<1> QED BY <1>1, <1>4, <1>5, QuietCommand, Zenon

\* Such a record with its place changed, and with its synced field changed.
LEMMA WriterEdits ==
    ASSUME NEW c, IsWriter(c), NEW v
    PROVE  /\ [c EXCEPT !.pc = v] = Writer(v, c.path, c.content, c.overwrite, c.synced)
           /\ [c EXCEPT !.synced = v] = Writer(c.pc, c.path, c.content, c.overwrite, v)
<1>1. PICK a, b, d, e : c = Writer(c.pc, a, b, d, e)
  BY Zenon DEF IsWriter
<1> DEFINE at == c.pc
<1>2. c = Writer(at, a, b, d, e)
  BY <1>1, Zenon
<1> HIDE DEF at
<1>3. c.pc = at /\ c.path = a /\ c.content = b /\ c.overwrite = d /\ c.synced = e
  BY <1>2 DEF Writer
<1>4. [c EXCEPT !.pc = v] = Writer(v, a, b, d, e)
  BY <1>2 DEF Writer
<1>5. [c EXCEPT !.synced = v] = Writer(at, a, b, d, v)
  BY <1>2 DEF Writer
<1> QED BY <1>3, <1>4, <1>5, Zenon

\* The look-up of the destination, and the temporary file.
LEMMA PrepareInv ==
    ASSUME WorkspaceInv, NEW p \in Commands, validateNewFilePath(p) \/ WriteTemporary(p)
    PROVE  WorkspaceInv'
<1> DEFINE c == command[p]
<1>0. UNCHANGED <<files, survivors, accepted>>
  BY DEF validateNewFilePath, WriteTemporary
<1>1. CASE validateNewFilePath(p) /\ command' = [command EXCEPT ![p].pc = "write"]
  <2> DEFINE job == Writer("write", c.path, c.content, c.overwrite, c.synced)
  <2>1. c.pc = "check" /\ WriterOK(c, files)
    BY <1>1 DEF validateNewFilePath, WorkspaceInv
  <2>3. [c EXCEPT !.pc = "write"] = job
    BY <2>1, WriterEdits, Zenon DEF WriterOK
  <2>4. command' = [command EXCEPT ![p] = job]
    BY <1>1, <2>3, Zenon
  <2>5. /\ job.pc = "write" /\ job.path = c.path /\ job.content = c.content
        /\ job.overwrite = c.overwrite
        /\ IsWriter(job)
    BY Zenon DEF IsWriter, Writer
  <2> HIDE DEF job
  <2>6. WriterOK(job, files) /\ ComparisonOK(job, files)
    BY <2>1, <2>5 DEF WriterOK, ComparisonOK
  <2> QED BY <1>0, <2>4, <2>6, QuietCommand, Zenon
<1>2. CASE WriteTemporary(p)
  <2> DEFINE job == Writer("commit", c.path, c.content, c.overwrite, TRUE)
  <2>1. c.pc = "write" /\ WriterOK(c, files)
    BY <1>2 DEF WriteTemporary, WorkspaceInv
  <2>2. IsWriter(c)
    BY <2>1, Zenon DEF WriterOK
  <2>3. [[c EXCEPT !.pc = "commit"] EXCEPT !.synced = TRUE] = job
    <3> DEFINE d == [c EXCEPT !.pc = "commit"]
    <3>1. d = Writer("commit", c.path, c.content, c.overwrite, c.synced)
      BY <2>2, WriterEdits, Zenon
    <3> HIDE DEF d
    <3>2. /\ d.pc = "commit" /\ d.path = c.path /\ d.content = c.content
          /\ d.overwrite = c.overwrite
          /\ IsWriter(d)
      BY <3>1, Zenon DEF Writer, IsWriter
    <3>3. [d EXCEPT !.synced = TRUE] = Writer(d.pc, d.path, d.content, d.overwrite, TRUE)
      BY <3>2, WriterEdits, Zenon
    <3> QED BY <3>2, <3>3, Zenon DEF d
  <2>4. command' = [command EXCEPT ![p] = job]
    <3>1. command' = [command EXCEPT ![p].pc = "commit", ![p].synced = TRUE]
      BY <1>2 DEF WriteTemporary
    <3>2. command' = [command EXCEPT ![p] = [[c EXCEPT !.pc = "commit"] EXCEPT !.synced = TRUE]]
      BY <3>1, Zenon DEF WorkspaceInv
    <3> QED BY <2>3, <3>2, Zenon
  <2>5. /\ job.pc = "commit" /\ job.path = c.path /\ job.content = c.content
        /\ job.overwrite = c.overwrite /\ job.synced = TRUE
        /\ IsWriter(job)
    BY Zenon DEF IsWriter, Writer
  <2> HIDE DEF job
  <2>6. WriterOK(job, files) /\ ComparisonOK(job, files)
    BY <2>1, <2>5 DEF WriterOK, ComparisonOK
  <2> QED BY <1>0, <2>4, <2>6, QuietCommand, Zenon
<1> QED BY <1>0, <1>1, <1>2, CommandExits DEF validateNewFilePath

\* The file gets its name.  For a baseline nothing was there before, so nobody
\* has compared with it and nothing was accepted under its name.
LEMMA CommitInv ==
    ASSUME WorkspaceInv, NEW p \in Commands, writeNewFile(p)
    PROVE  WorkspaceInv'
<1> DEFINE c == command[p]
           path == c.path
           content == c.content
<1>1. c.pc = "commit" /\ WriterOK(c, files) /\ ComparisonOK(c, files)
  BY DEF writeNewFile, WorkspaceInv
<1>2. /\ IsWriter(c) /\ path \in Paths /\ content \notin {NoFile, Torn} /\ c.synced = TRUE
      /\ path = "config" => content \in Configs
      /\ path # "config" =>
            /\ c.overwrite = FALSE
            /\ \E bundle \in RunBundles : content \in NewBaseline(path, bundle)
  BY <1>1 DEF WriterOK
<1>3. CASE c.overwrite \/ files[path] = NoFile
  <2> DEFINE job == Writer("reply", c.path, c.content, c.overwrite, c.synced)
  <2>1. /\ files' = [files EXCEPT ![path] = content]
        /\ survivors' = [survivors EXCEPT ![path] = @ \union {content} \union {}]
        /\ command' = [command EXCEPT ![p].pc = "reply"]
        /\ UNCHANGED accepted
    BY <1>2, <1>3, Zenon DEF writeNewFile
  <2>2. command' = [command EXCEPT ![p] = job]
    BY <1>2, <2>1, WriterEdits, Zenon
  <2>3. /\ files' = [q \in Paths |-> files'[q]]
        /\ \A q \in Paths : files'[q] = IF q = path THEN content ELSE files[q]
    <3>1. files' = [q \in Paths |-> IF q = path THEN content ELSE files[q]]
      BY <1>2, <2>1, Zenon DEF WorkspaceInv
    <3> QED BY <3>1, Zenon
  <2>4. /\ survivors' = [q \in Paths |-> survivors'[q]]
        /\ \A q \in Paths : survivors'[q] =
              IF q = path THEN survivors[q] \union {content} ELSE survivors[q]
    <3>0. survivors[path] \union {content} \union {} = survivors[path] \union {content}
      OBVIOUS
    <3>1. survivors' = [q \in Paths |-> IF q = path THEN survivors[q] \union {content}
                                        ELSE survivors[q]]
      BY <1>2, <2>1, <3>0, Zenon DEF WorkspaceInv
    <3> QED BY <3>1, Zenon
  <2>5. /\ command' = [q \in Commands |-> command'[q]]
        /\ \A q \in Commands : command'[q] = IF q = p THEN job ELSE command[q]
    BY <2>2, CommandMoves, Zenon DEF WorkspaceInv
  <2>6. /\ job.pc = "reply" /\ job.path = path /\ job.content = content
        /\ job.overwrite = c.overwrite /\ job.synced = c.synced
        /\ IsWriter(job)
    BY Zenon DEF IsWriter, Writer
  <2> HIDE DEF job, c, path, content
  <2>7. files[path] = NoFile \/ path = "config"
    BY <1>2, <1>3
  <2>8. \A name \in BaselineNames : files[name] # NoFile => files'[name] = files[name]
    BY <2>3, <2>7, PathFacts
  <2>9. WriterOK(job, files') /\ ComparisonOK(job, files')
    <3>1. files'[path] = content
      BY <1>2, <2>3
    <3> QED BY <1>2, <2>6, <3>1 DEF WriterOK, ComparisonOK
  <2>10. \A q \in Commands : WriterOK(command'[q], files') /\ ComparisonOK(command'[q], files')
    <3>1. \A q \in Commands : WriterOK(command[q], files') /\ ComparisonOK(command[q], files')
      <4> SUFFICES ASSUME NEW q \in Commands
                   PROVE  WriterOK(command[q], files') /\ ComparisonOK(command[q], files')
        OBVIOUS
      <4>1. WriterOK(command[q], files) /\ ComparisonOK(command[q], files)
        BY Zenon DEF WorkspaceInv
      <4> QED BY <2>8, <4>1, CommandStays
    <3> QED BY <2>5, <2>9, <3>1, Zenon
  <2>11. \A q \in Paths : files'[q] \in survivors'[q] /\ Torn \notin survivors'[q]
    BY <1>2, <2>3, <2>4 DEF WorkspaceInv
  <2>12. survivors'["config"] \subseteq {NoFile} \union Configs
    BY <1>2, <2>4, PathFacts DEF WorkspaceInv
  <2>13. ASSUME NEW name \in BaselineNames
         PROVE  /\ survivors'[name] \subseteq {NoFile, files'[name]}
                /\ accepted'[name] \subseteq Loaded(name, files'[name])
    <3>1. CASE name = path
      <4>1. files[name] = NoFile
        BY <2>7, <3>1, PathFacts
      <4>2. survivors[name] \subseteq {NoFile} /\ accepted[name] = {}
        BY <4>1, LoadOne DEF WorkspaceInv
      <4> QED BY <2>1, <2>3, <2>4, <3>1, <4>2, PathFacts
    <3>2. CASE name # path
      <4>1. files'[name] = files[name] /\ survivors'[name] = survivors[name]
        BY <2>3, <2>4, <3>2, PathFacts
      <4> QED BY <2>1, <4>1, Zenon DEF WorkspaceInv
    <3> QED BY <3>1, <3>2
  <2>14. accepted' = [name \in BaselineNames |-> accepted'[name]]
    BY <2>1, Zenon DEF WorkspaceInv
  <2> QED BY <2>3, <2>4, <2>5, <2>10, <2>11, <2>12, <2>13, <2>14, Zenon DEF WorkspaceInv
<1>4. CASE ~(c.overwrite \/ files[path] = NoFile)
  BY <1>4, CommandExits, Zenon DEF writeNewFile
<1> QED BY <1>3, <1>4

\* The command reports success: the baseline it accepted is the one on file.
LEMMA ReplyInv ==
    ASSUME WorkspaceInv, NEW p \in Commands, ReplyWritten(p)
    PROVE  WorkspaceInv'
<1> DEFINE c == command[p]
<1>1. /\ c.pc = "reply" /\ Exits(p) /\ UNCHANGED <<files, survivors>>
      /\ WriterOK(c, files)
  BY DEF ReplyWritten, WorkspaceInv
<1>2. CASE c.path = "config"
  BY <1>1, <1>2, CommandExits, Zenon DEF ReplyWritten
<1>3. CASE c.path # "config"
  <2>1. accepted' = [accepted EXCEPT ![c.path] = @ \union {c.content}]
    BY <1>3, Zenon DEF ReplyWritten
  <2>2. /\ c.path \in BaselineNames
        /\ files[c.path] = c.content
        /\ \E bundle \in RunBundles : c.content \in NewBaseline(c.path, bundle)
    BY <1>1, <1>3, PathFacts DEF WriterOK
  <2>3. c.content \in Loaded(c.path, files[c.path])
    BY <2>2, AcceptedLoads, Zenon
  <2>4. /\ command' = [q \in Commands |-> command'[q]]
        /\ \A q \in Commands : command'[q] = IF q = p THEN Waiting ELSE command[q]
    BY <1>1, CommandMoves, Zenon DEF WorkspaceInv, Exits
  <2> HIDE DEF c
  <2>5. accepted' = [name \in BaselineNames |->
                        IF name = c.path THEN accepted[name] \union {c.content}
                        ELSE accepted[name]]
    BY <2>1, <2>2, Zenon DEF WorkspaceInv
  <2>6. accepted' = [name \in BaselineNames |-> accepted'[name]]
    BY <2>5, Zenon
  <2>7. \A name \in BaselineNames : accepted'[name] \subseteq Loaded(name, files[name])
    BY <2>3, <2>5 DEF WorkspaceInv
  <2>8. \A q \in Commands : WriterOK(command'[q], files) /\ ComparisonOK(command'[q], files)
    BY <2>4, WaitingOK, Zenon DEF WorkspaceInv
  <2> QED BY <1>1, <2>4, <2>6, <2>7, <2>8, Zenon DEF WorkspaceInv
<1> QED BY <1>2, <1>3

\* The machine crashes.
LEMMA CutPowerInv ==
    ASSUME WorkspaceInv, CutPower
    PROVE  WorkspaceInv'
<1>1. PICK config \in survivors["config"],
           left \in [BaselineNames -> UNION {survivors[name] : name \in BaselineNames}] :
           /\ \A name \in BaselineNames : left[name] \in survivors[name]
           /\ files' = [path \in Paths |-> IF path = "config" THEN config ELSE left[path]]
  BY Zenon DEF CutPower
<1>2. /\ survivors' = [path \in Paths |-> {files'[path]}]
      /\ accepted' = [name \in BaselineNames |->
                         IF files'[name] = NoFile THEN {} ELSE accepted[name]]
      /\ command' = [p \in Commands |-> Waiting]
  BY Zenon DEF CutPower
<1>3. files' = [path \in Paths |-> files'[path]]
  BY <1>1, Zenon
<1>4. survivors' = [path \in Paths |-> survivors'[path]]
  BY <1>2, Zenon
<1>5. accepted' = [name \in BaselineNames |-> accepted'[name]]
  BY <1>2, Zenon
<1>6. command' = [p \in Commands |-> command'[p]]
  BY <1>2, Zenon
<1>7. \A path \in Paths : files'[path] \in survivors[path]
  BY <1>1, PathFacts
<1>8. \A path \in Paths : survivors'[path] = {files'[path]}
  BY <1>2, Zenon
<1>9. \A path \in Paths : files'[path] \in survivors'[path] /\ Torn \notin survivors'[path]
  BY <1>7, <1>8, Zenon DEF WorkspaceInv
<1>10. survivors'["config"] \subseteq {NoFile} \union Configs
  BY <1>7, <1>8, PathFacts DEF WorkspaceInv
<1>11. ASSUME NEW name \in BaselineNames
       PROVE  /\ survivors'[name] \subseteq {NoFile, files'[name]}
              /\ accepted'[name] \subseteq Loaded(name, files'[name])
  <2>1. survivors'[name] \subseteq {NoFile, files'[name]}
    BY <1>8, PathFacts
  <2>2. files'[name] \in {NoFile, files[name]}
    BY <1>7, PathFacts, Zenon DEF WorkspaceInv
  <2>3. accepted'[name] = IF files'[name] = NoFile THEN {} ELSE accepted[name]
    BY <1>2, Zenon
  <2>4. accepted[name] \subseteq Loaded(name, files[name])
    BY Zenon DEF WorkspaceInv
  <2> QED BY <2>1, <2>2, <2>3, <2>4
<1>12. \A p \in Commands : WriterOK(command'[p], files') /\ ComparisonOK(command'[p], files')
  BY <1>2, WaitingOK, Zenon
<1> QED
  BY <1>3, <1>4, <1>5, <1>6, <1>9, <1>10, <1>11, <1>12, Zenon DEF WorkspaceInv

\* The working directory that the commands find.
LEMMA WorkspaceInvInit == WorkspaceInit => WorkspaceInv
<1> SUFFICES ASSUME WorkspaceInit PROVE WorkspaceInv
  OBVIOUS
<1>1. PICK old \in [BaselineNames -> OldBaselines \union {NoFile}] :
         /\ files = [path \in Paths |-> IF path = "config" THEN NoFile ELSE old[path]]
         /\ accepted = [name \in BaselineNames |->
                           IF old[name] = NoFile THEN {} ELSE loadBaseline(name)]
  BY Zenon DEF WorkspaceInit
<1>2. /\ survivors = [path \in Paths |-> {files[path]}]
      /\ command = [p \in Commands |-> Waiting]
  BY Zenon DEF WorkspaceInit
<1>3. files = [path \in Paths |-> files[path]]
  BY <1>1, Zenon
<1>4. survivors = [path \in Paths |-> survivors[path]]
  BY <1>2, Zenon
<1>5. accepted = [name \in BaselineNames |-> accepted[name]]
  BY <1>1, Zenon
<1>6. command = [p \in Commands |-> command[p]]
  BY <1>2, Zenon
<1>7. \A path \in Paths : survivors[path] = {files[path]}
  BY <1>2, Zenon
<1>8. \A path \in Paths : files[path] # Torn
  BY <1>1, PathFacts, FileMarkers
<1>9. survivors["config"] \subseteq {NoFile} \union Configs
  BY <1>1, <1>7, PathFacts
<1>10. ASSUME NEW name \in BaselineNames
       PROVE  /\ survivors[name] \subseteq {NoFile, files[name]}
              /\ accepted[name] \subseteq Loaded(name, files[name])
  <2>1. survivors[name] \subseteq {NoFile, files[name]}
    BY <1>7, PathFacts
  <2>2. accepted[name] = IF old[name] = NoFile THEN {} ELSE loadBaseline(name)
    BY <1>1, Zenon
  <2>3. loadBaseline(name) = Loaded(name, files[name])
    BY Zenon DEF loadBaseline, Loaded
  <2> QED BY <2>1, <2>2, <2>3
<1>11. \A p \in Commands : WriterOK(command[p], files) /\ ComparisonOK(command[p], files)
  BY <1>2, WaitingOK, Zenon
<1>12. \A path \in Paths : files[path] \in survivors[path] /\ Torn \notin survivors[path]
  BY <1>7, <1>8
<1> QED
  BY <1>3, <1>4, <1>5, <1>6, <1>9, <1>10, <1>11, <1>12, Zenon DEF WorkspaceInv

\* Every step of every command and every crash keeps the invariant.
LEMMA WorkspaceInvNext == WorkspaceInv /\ [WorkspaceNext]_workspaceVars => WorkspaceInv'
<1> SUFFICES ASSUME WorkspaceInv, [WorkspaceNext]_workspaceVars PROVE WorkspaceInv'
  OBVIOUS
<1>1. ASSUME NEW p \in Commands, NEW name \in BaselineNames, NEW bundle \in RunBundles,
             baselineCompare(p, name, bundle)
      PROVE  WorkspaceInv'
  BY <1>1, CompareInv, Zenon DEF baselineCompare
<1>2. ASSUME NEW p \in Commands, NEW left \in RunBundles, NEW right \in RunBundles,
             runCompare(p, left, right)
      PROVE  WorkspaceInv'
  BY <1>2, CompareInv, Zenon DEF runCompare
<1>3. ASSUME NEW p \in Commands, EndCommand(p) PROVE WorkspaceInv'
  BY <1>3, CommandExits, Zenon DEF EndCommand
<1>4. CASE UNCHANGED workspaceVars
  BY <1>4, Zenon DEF workspaceVars, WorkspaceInv
<1> QED
  BY <1>1, <1>2, <1>3, <1>4, ConfigCommands, AcceptInv, PrepareInv, CommitInv, ReplyInv,
     CutPowerInv, Zenon DEF WorkspaceNext

\* The working directory is always in order.
LEMMA WorkspaceInvariant == WorkspaceSpec => []WorkspaceInv
BY WorkspaceInvInit, WorkspaceInvNext, PTL DEF WorkspaceSpec

\* A comparison calls a scenario a regression or a new failure exactly when it
\* fails in the later bundle and not in the earlier one.
LEMMA ComparisonExact ==
    ASSUME NEW before, NEW after, NEW id \in DOMAIN before \union DOMAIN after
    PROVE  (ChangeOf(before, after, id) \in {"REGRESSION", "NEW_FAILURE"}) <=>
              /\ id \in DOMAIN after /\ isFailure(after[id])
              /\ ~(id \in DOMAIN before /\ isFailure(before[id]))
BY DEF ChangeOf

\* No command ever finds half a configuration or half a baseline, for any number
\* of processes, kills and crashes.
THEOREM NoTornFile == WorkspaceSpec => []FilesAreWhole
<1>1. WorkspaceInv => FilesAreWhole
  BY Zenon DEF WorkspaceInv, FilesAreWhole
<1> QED BY <1>1, WorkspaceInvariant, PTL

\* A comparison that exits 0 saw no failure that the baseline accepted under its
\* name does not have, and one that exits 6 saw one, for any bundles and baselines
\* and however accepts, comparisons, kills and crashes interleave.
THEOREM GateIsExact == WorkspaceSpec => []GateHolds
<1>1. ASSUME WorkspaceInv, NEW p \in Commands, command[p].pc = "compared"
      PROVE  LET failing(b) == {id \in DOMAIN b.cases : isFailure(b.cases[id])}
                 known == {command[p].before}
                            \union UNION {accepted[name] : name \in command[p].against}
             IN  /\ command[p].exit = 0 =>
                       \A b \in known : failing(command[p].after) \subseteq failing(b)
                 /\ command[p].exit = 6 =>
                       \A b \in known : ~(failing(command[p].after) \subseteq failing(b))
  <2> DEFINE before == command[p].before
             after == command[p].after
             failing(b) == {id \in DOMAIN b.cases : isFailure(b.cases[id])}
             known == {before} \union UNION {accepted[name] : name \in command[p].against}
  <2>1. ComparisonOK(command[p], files)
    BY <1>1, Zenon DEF WorkspaceInv
  <2>2. command[p].exit = emitComparison(before, after)
    BY <1>1, <2>1, Zenon DEF ComparisonOK
  <2>3. known = {before}
    <3>1. CASE command[p].against = {}
      BY <3>1
    <3>2. ASSUME NEW name \in BaselineNames, command[p].against = {name},
                 before \in Loaded(name, files[name])
          PROVE  known = {before}
      <4>1. accepted[name] \subseteq Loaded(name, files[name])
        BY <1>1, Zenon DEF WorkspaceInv
      <4>2. accepted[name] \subseteq {before}
        BY <3>2, <4>1, LoadOne, Zenon
      <4> QED BY <3>2, <4>2
    <3> QED BY <1>1, <2>1, <3>1, <3>2, Zenon DEF ComparisonOK
  <2> HIDE DEF before, after, known
  <2>4. command[p].exit = 0 => failing(after) \subseteq failing(before)
    BY <2>2, ComparisonExact DEF emitComparison, Compare
  <2>5. command[p].exit = 6 => ~(failing(after) \subseteq failing(before))
    <3> SUFFICES ASSUME command[p].exit = 6 PROVE ~(failing(after) \subseteq failing(before))
      OBVIOUS
    <3>1. \E id \in DOMAIN Compare(before, after) :
             Compare(before, after)[id] \in {"REGRESSION", "NEW_FAILURE"}
      BY <2>2 DEF emitComparison
    <3>2. PICK id \in DOMAIN before.cases \union DOMAIN after.cases :
             ChangeOf(before.cases, after.cases, id) \in {"REGRESSION", "NEW_FAILURE"}
      BY <3>1, Zenon DEF Compare
    <3>3. /\ id \in DOMAIN after.cases /\ isFailure(after.cases[id])
          /\ ~(id \in DOMAIN before.cases /\ isFailure(before.cases[id]))
      BY <3>2, ComparisonExact, Zenon
    <3> QED BY <3>3
  <2> QED BY <2>3, <2>4, <2>5, Zenon DEF before, after, known
<1>2. WorkspaceInv => GateHolds
  BY <1>1, Zenon DEF GateHolds
<1> QED BY <1>2, WorkspaceInvariant, PTL

-----------------------------------------------------------------------------
(* The evidence store.                                                     *)

\* A non-empty set of numbers has a least one: the induction that the provers
\* can use, since it has no operator for a parameter.
LEMMA LeastNat ==
    ASSUME NEW T \in SUBSET Nat, T # {}
    PROVE  \E m \in T : \A k \in T : m <= k
<1>1. PICK n \in T : TRUE
  BY Zenon
<1> DEFINE R == {0 .. k : k \in {j \in T : j <= n}}
<1>2. IsFiniteSet(0 .. n)
  BY FS_Interval
<1>3. IsWellFoundedOn(StrictSubsetOrdering(0 .. n), SUBSET (0 .. n))
  BY <1>2, FS_StrictSubsetOrderingWellFounded, FS_FiniteSubsetsOfFinite, Zenon
<1>4. R \subseteq SUBSET (0 .. n) /\ R # {}
  BY <1>1
<1>5. PICK r \in R : \A q \in R : <<q, r>> \notin StrictSubsetOrdering(0 .. n)
  <2> HIDE DEF R
  <2> QED BY <1>3, <1>4, WFMin, Zenon
<1>6. PICK m \in T : m <= n /\ r = 0 .. m
  BY <1>5
<1>7. ASSUME NEW k \in T, k < m PROVE FALSE
  <2>1. (0 .. k) \in R /\ (0 .. k) \subseteq r /\ (0 .. k) # r
    BY <1>6, <1>7
  <2>2. <<0 .. k, r>> \in StrictSubsetOrdering(0 .. n)
    BY <2>1, <1>4, <1>5 DEF StrictSubsetOrdering
  <2> QED BY <2>1, <2>2, <1>5, Zenon
<1> QED BY <1>6, <1>7

\* The recursion of getEvidence over n envelopes to depth m, where good are those
\* whose files can be read and rel leads from each to what it is related to.
Follows(g, n, m, good, rel) ==
    g = [d \in 0..(m + 1) |-> [i \in 0..n |->
            i = 0 \/ (d <= m /\ i \in good /\ g[d + 1][rel[i]])]]

\* One step of that recursion.
FollowsStep(g, m, good, rel, d, i) ==
    i = 0 \/ (d <= m /\ i \in good /\ g[d + 1][rel[i]])

Steps(g, n, m, good, rel) ==
    \A d \in 0..(m + 1), i \in 0..n : g[d][i] = FollowsStep(g, m, good, rel, d, i)

\* The chains of relations that start at i at depth d.
Chains(n, m, good, rel, d, i) ==
    {c \in [d..(m + 1) -> 0..n] :
        /\ c[d] = i
        /\ \A k \in d..(m + 1) :
              c[k] = 0 \/ (k <= m /\ c[k] \in good /\ c[k + 1] = rel[c[k]])}

Continues(n, m, good, rel, d, i) ==
    i = 0 \/ (d <= m /\ i \in good /\ Chains(n, m, good, rel, d + 1, rel[i]) # {})

\* A chain from i is one from what it is related to, with i before it.
LEMMA ChainStep ==
    ASSUME NEW n \in Nat, NEW m \in Nat, NEW good \in SUBSET (1..n),
           NEW rel \in [1..n -> 0..n], NEW d \in 0..(m + 1), NEW i \in 0..n
    PROVE  (Chains(n, m, good, rel, d, i) # {}) <=> Continues(n, m, good, rel, d, i)
<1>1. ASSUME i = 0 PROVE Chains(n, m, good, rel, d, i) # {}
  <2> DEFINE c == [k \in d..(m + 1) |-> 0]
  <2>1. c \in Chains(n, m, good, rel, d, i)
    BY <1>1 DEF Chains
  <2> QED BY <2>1
<1>2. ASSUME i # 0, NEW c \in Chains(n, m, good, rel, d, i)
      PROVE  d <= m /\ i \in good /\ Chains(n, m, good, rel, d + 1, rel[i]) # {}
  <2>1. d <= m /\ i \in good /\ c[d + 1] = rel[i]
    BY <1>2 DEF Chains
  <2> DEFINE e == [k \in (d + 1)..(m + 1) |-> c[k]]
  <2>2. e \in [(d + 1)..(m + 1) -> 0..n] /\ e[d + 1] = rel[i]
    BY <1>2, <2>1 DEF Chains
  <2>3. ASSUME NEW k \in (d + 1)..(m + 1)
        PROVE  e[k] = 0 \/ (k <= m /\ e[k] \in good /\ e[k + 1] = rel[e[k]])
    BY <1>2, <2>3 DEF Chains
  <2> HIDE DEF e
  <2>4. e \in Chains(n, m, good, rel, d + 1, rel[i])
    BY <2>2, <2>3 DEF Chains
  <2> QED BY <2>1, <2>4
<1>3. ASSUME i # 0, d <= m, i \in good, NEW c \in Chains(n, m, good, rel, d + 1, rel[i])
      PROVE  Chains(n, m, good, rel, d, i) # {}
  <2> DEFINE e == [k \in d..(m + 1) |-> IF k = d THEN i ELSE c[k]]
  <2>1. e \in [d..(m + 1) -> 0..n] /\ e[d] = i
    BY <1>3 DEF Chains
  <2>2. ASSUME NEW k \in d..(m + 1)
        PROVE  e[k] = 0 \/ (k <= m /\ e[k] \in good /\ e[k + 1] = rel[e[k]])
    <3>1. CASE k = d
      BY <1>3, <3>1 DEF Chains
    <3>2. CASE k # d
      <4>1. k \in (d + 1)..(m + 1) /\ e[k] = c[k] /\ (k <= m => e[k + 1] = c[k + 1])
        BY <3>2
      <4> QED BY <1>3, <4>1 DEF Chains
    <3> QED BY <3>1, <3>2
  <2> HIDE DEF e
  <2>3. e \in Chains(n, m, good, rel, d, i)
    BY <2>1, <2>2 DEF Chains
  <2> QED BY <2>3
<1> QED BY <1>1, <1>2, <1>3 DEF Continues

\* The recursion defines a function.
LEMMA FollowsExists ==
    ASSUME NEW n \in Nat, NEW m \in Nat, NEW good \in SUBSET (1..n),
           NEW rel \in [1..n -> 0..n]
    PROVE  \E g : Follows(g, n, m, good, rel)
<1>1. ASSUME NEW d \in 0..(m + 1), NEW i \in 0..n
      PROVE  (Chains(n, m, good, rel, d, i) # {}) <=> Continues(n, m, good, rel, d, i)
  BY ChainStep
<1> DEFINE some(d, i) == Chains(n, m, good, rel, d, i) # {}
           g == [d \in 0..(m + 1) |-> [i \in 0..n |-> some(d, i)]]
<1>2. ASSUME NEW d \in 0..(m + 1), NEW i \in 0..n
      PROVE  some(d, i) = (i = 0 \/ (d <= m /\ i \in good /\ g[d + 1][rel[i]]))
  <2>1. ASSUME d <= m, i \in good PROVE g[d + 1][rel[i]] = some(d + 1, rel[i])
    <3>1. d + 1 \in 0..(m + 1) /\ rel[i] \in 0..n
      BY <2>1
    <3> QED BY <3>1, Zenon
  <2> QED BY <1>1, <2>1, Zenon DEF Continues
<1>3. ASSUME NEW d \in 0..(m + 1)
      PROVE  [i \in 0..n |-> some(d, i)] =
             [i \in 0..n |-> i = 0 \/ (d <= m /\ i \in good /\ g[d + 1][rel[i]])]
  BY <1>2, Zenon
<1>4. g = [d \in 0..(m + 1) |-> [i \in 0..n |->
              i = 0 \/ (d <= m /\ i \in good /\ g[d + 1][rel[i]])]]
  BY <1>3, Zenon
<1> QED BY <1>4, Zenon DEF Follows

\* One step of the recursion.
LEMMA FollowsAt ==
    ASSUME NEW n, NEW m, NEW good, NEW rel, NEW g, Follows(g, n, m, good, rel)
    PROVE  Steps(g, n, m, good, rel)
<1> SUFFICES ASSUME NEW d \in 0..(m + 1), NEW i \in 0..n
             PROVE  g[d][i] = FollowsStep(g, m, good, rel, d, i)
  BY DEF Steps
<1>1. g[d] = [j \in 0..n |-> j = 0 \/ (d <= m /\ j \in good /\ g[d + 1][rel[j]])]
  BY Zenon DEF Follows
<1> QED BY <1>1, Zenon DEF FollowsStep

\* K are items that can be read in two stores and whose relations are in K too.
Shared(K, n, good, rel, nn, ggood, rrel) ==
    \A k \in K : /\ k <= n /\ k <= nn
                 /\ k # 0 => /\ k \in good /\ k \in ggood
                             /\ rrel[k] = rel[k] /\ rel[k] \in K /\ rel[k] < k

\* What resolves in one of the stores resolves in the other.
LEMMA FollowsAgree ==
    ASSUME NEW m \in Nat,
           NEW n \in Nat, NEW good, NEW rel, NEW g, Steps(g, n, m, good, rel),
           NEW nn \in Nat, NEW ggood, NEW rrel, NEW h, Steps(h, nn, m, ggood, rrel),
           NEW K \in SUBSET Nat, Shared(K, n, good, rel, nn, ggood, rrel)
    PROVE  \A k \in K : \A d \in 0..(m + 1) : g[d][k] => h[d][k]
<1> USE DEF Shared
<1> DEFINE T == {k \in K : \E d \in 0..(m + 1) : g[d][k] /\ ~h[d][k]}
<1>1. SUFFICES ASSUME T # {} PROVE FALSE
  OBVIOUS
<1>2. PICK k \in T : \A j \in T : k <= j
  <2>1. T \in SUBSET Nat
    BY Zenon
  <2> HIDE DEF T
  <2> QED BY <1>1, <2>1, LeastNat, Zenon
<1>3. PICK d \in 0..(m + 1) : g[d][k] /\ ~h[d][k]
  OBVIOUS
<1>4. k \in K /\ k \in 0..n /\ k \in 0..nn
  OBVIOUS
<1>5. g[d][k] <=> (k = 0 \/ (d <= m /\ k \in good /\ g[d + 1][rel[k]]))
  BY <1>4, Zenon DEF FollowsStep, Steps
<1>6. h[d][k] <=> (k = 0 \/ (d <= m /\ k \in ggood /\ h[d + 1][rrel[k]]))
  BY <1>4, Zenon DEF FollowsStep, Steps
<1>7. k # 0 /\ d <= m /\ g[d + 1][rel[k]] /\ ~h[d + 1][rel[k]]
  BY <1>3, <1>4, <1>5, <1>6
<1>8. rel[k] \in K /\ rel[k] < k /\ d + 1 \in 0..(m + 1)
  BY <1>4, <1>7
<1>9. rel[k] \in T
  BY <1>7, <1>8
<1> HIDE DEF T
<1>10. k <= rel[k] /\ k \in Nat /\ rel[k] \in Nat
  BY <1>2, <1>4, <1>8, <1>9, Zenon
<1> QED BY <1>8, <1>10

\* The definition of getEvidence, with the envelopes s and the names l for
\* parameters.
Gets(g, s, l) ==
    g = [depth \in 0..(MaxRelationDepth + 1) |->
            [i \in 0..Len(s) |->
                \/ i = 0
                \/ /\ depth <= MaxRelationDepth
                   /\ RefName(i) \in l /\ EnvelopeName(i) \in l
                   /\ PayloadName(s[i].payload) \in l
                   /\ g[depth + 1][s[i].relation]]]

Resolved(s, l) == CHOOSE g : Gets(g, s, l)

Readable(s, l) == {i \in 1..Len(s) : /\ RefName(i) \in l /\ EnvelopeName(i) \in l
                                     /\ PayloadName(s[i].payload) \in l}
Relations(s) == [i \in 1..Len(s) |-> s[i].relation]

\* getEvidence reads the envelopes and the names, before and after a step.
LEMMA EvidenceNow ==
    /\ getEvidence = Resolved(sealed, linked)
    /\ getEvidence' = Resolved(sealed', linked')
BY Zenon DEF getEvidence, Resolved, Gets, readVerified

\* It is the recursion over the readable envelopes and their relations.
LEMMA GetsFollows ==
    ASSUME NEW s, NEW l, NEW g, Len(s) \in Nat, MaxRelationDepth \in Nat
    PROVE  Gets(g, s, l) <=> Follows(g, Len(s), MaxRelationDepth, Readable(s, l), Relations(s))
<1> DEFINE n == Len(s)
           m == MaxRelationDepth
           left(d) == [i \in 0..n |->
                          \/ i = 0
                          \/ /\ d <= m
                             /\ RefName(i) \in l /\ EnvelopeName(i) \in l
                             /\ PayloadName(s[i].payload) \in l
                             /\ g[d + 1][s[i].relation]]
           right(d) == [i \in 0..n |->
                          i = 0 \/ (d <= m /\ i \in Readable(s, l) /\ g[d + 1][Relations(s)[i]])]
<1>1. ASSUME NEW i \in 0..n, i # 0
      PROVE  /\ i \in Readable(s, l) <=> /\ RefName(i) \in l /\ EnvelopeName(i) \in l
                                         /\ PayloadName(s[i].payload) \in l
             /\ Relations(s)[i] = s[i].relation
  <2>1. i \in 1..n
    BY <1>1
  <2> QED BY <2>1, Zenon DEF Readable, Relations
<1>2. ASSUME NEW d \in 0..(m + 1) PROVE left(d) = right(d)
  BY <1>1, Zenon
<1>3. [d \in 0..(m + 1) |-> left(d)] = [d \in 0..(m + 1) |-> right(d)]
  <2> HIDE DEF left, right
  <2> QED BY <1>2, Zenon
<1> QED BY <1>3, Zenon DEF Gets, Follows

\* What the envelope of a store can be, as far as getEvidence looks.
Backward(s) == /\ Len(s) \in Nat
               /\ \A i \in 1..Len(s) : s[i].relation \in 0..(i - 1)

\* One step of getEvidence.
LEMMA EvidenceAt ==
    ASSUME NEW s, NEW l, Backward(s)
    PROVE  Steps(Resolved(s, l), Len(s), MaxRelationDepth, Readable(s, l), Relations(s))
<1>1. Len(s) \in Nat /\ MaxRelationDepth \in Nat
  BY EvidenceConstants DEF Backward
<1>2. Relations(s) \in [1..Len(s) -> 0..Len(s)]
  BY <1>1 DEF Relations, Backward
<1>3. Readable(s, l) \in SUBSET (1..Len(s))
  BY Zenon DEF Readable
<1>4. PICK g : Follows(g, Len(s), MaxRelationDepth, Readable(s, l), Relations(s))
  BY <1>1, <1>2, <1>3, FollowsExists, Zenon
<1>5. Gets(g, s, l)
  BY <1>1, <1>4, GetsFollows
<1>6. Gets(Resolved(s, l), s, l)
  BY <1>5, Zenon DEF Resolved
<1>7. Follows(Resolved(s, l), Len(s), MaxRelationDepth, Readable(s, l), Relations(s))
  BY <1>1, <1>6, GetsFollows
<1> QED BY <1>7, FollowsAt

\* The envelopes t are those of s and more.
Extended(s, t) == Len(s) <= Len(t) /\ \A i \in 1..Len(s) : t[i] = s[i]

\* K can be read before and after, with all that it is related to.
Retained(K, s, l, t, k) ==
    \A i \in K : /\ i \in Readable(s, l) /\ i \in Readable(t, k)
                 /\ s[i].relation \in K \union {0}

\* Evidence that can be resolved stays so: with more envelopes, and with other
\* names as long as it can be read.
LEMMA EvidenceStays ==
    ASSUME NEW s, NEW l, Backward(s), NEW t, NEW k, Backward(t), Extended(s, t),
           NEW K \in SUBSET (1..Len(s)), Retained(K, s, l, t, k)
    PROVE  \A i \in K \union {0} : \A d \in 0..(MaxRelationDepth + 1) :
              Resolved(s, l)[d][i] => Resolved(t, k)[d][i]
<1>1. /\ Len(s) \in Nat /\ Len(t) \in Nat /\ MaxRelationDepth \in Nat
      /\ K \union {0} \in SUBSET Nat
      /\ \A i \in K \union {0} : i <= Len(s) /\ i <= Len(t)
  BY EvidenceConstants DEF Backward, Extended
<1>2. Shared(K \union {0}, Len(s), Readable(s, l), Relations(s),
             Len(t), Readable(t, k), Relations(t))
  BY <1>1 DEF Shared, Relations, Backward, Extended, Retained
<1>3. Steps(Resolved(s, l), Len(s), MaxRelationDepth, Readable(s, l), Relations(s))
  BY EvidenceAt
<1>4. Steps(Resolved(t, k), Len(t), MaxRelationDepth, Readable(t, k), Relations(t))
  BY EvidenceAt
<1> DEFINE n == Len(s)
           nn == Len(t)
           L == K \union {0}
           g == Resolved(s, l)
           h == Resolved(t, k)
<1>5. ASSUME NEW m \in Nat, Steps(g, n, m, Readable(s, l), Relations(s)),
             Steps(h, nn, m, Readable(t, k), Relations(t))
      PROVE  \A i \in L : \A d \in 0..(m + 1) : g[d][i] => h[d][i]
  <2>1. n \in Nat /\ nn \in Nat /\ L \in SUBSET Nat
    BY <1>1
  <2>2. Shared(L, n, Readable(s, l), Relations(s), nn, Readable(t, k), Relations(t))
    BY <1>2
  <2> HIDE DEF n, nn, L, g, h
  <2> QED BY <1>5, <2>1, <2>2, FollowsAgree
<1> QED BY <1>1, <1>3, <1>4, <1>5, Zenon

-----------------------------------------------------------------------------
(* The recorders.                                                          *)

Envelopes == [by: Recorders, boot: Nat, sequence: Nat \ {0}, payload: Payloads,
              relation: Nat]

\* Where a call of Record may be: at its payload, its seal, its relations, its
\* envelope, its reference, and its last check.
AtPayload == {"put payload", "link payload", "sync payload"}
AtEnvelope == {"put envelope", "link envelope", "sync envelope"}
AtRef == {"link ref", "sync ref", "check"}
HasSealed == {"put evidence"} \union AtEnvelope \union AtRef

Idles == [pc: {"idle"}, next: Nat \ {0}]
Recordings == [pc: AtPayload \union {"seal"} \union HasSealed, next: Nat \ {0},
               payload: Payloads, relation: Nat, id: Nat, valid: {TRUE}]

EvidenceTypes == /\ sealed \in Seq(Envelopes)
                 /\ rec \in [Recorders -> Idles \union Recordings]
                 /\ durable \subseteq linked
                 /\ acked \subseteq 1..Len(sealed)
                 /\ boots \in Nat

\* An envelope is related to evidence that was acknowledged before it was sealed.
RelationsKnown == \A i \in 1..Len(sealed) : /\ sealed[i].relation \in acked \union {0}
                                            /\ sealed[i].relation \in 0..(i - 1)
                                            /\ sealed[i].boot <= boots

\* A reference that can be seen leads to durable files, and its relations resolve.
Closed == \A i \in Nat : RefName(i) \in linked =>
             /\ i \in 1..Len(sealed)
             /\ EnvelopeName(i) \in durable
             /\ PayloadName(sealed[i].payload) \in durable
             /\ getEvidence[1][sealed[i].relation]

\* A call of Record has stored what comes before its place, for its own envelope.
RecordingOK(r) ==
    LET c == rec[r]
    IN  c.pc # "idle" =>
          /\ c.relation \in acked \union {0}
          /\ c.pc = "sync payload" => PayloadName(c.payload) \in linked
          /\ c.pc \in HasSealed \union {"seal"} => PayloadName(c.payload) \in durable
          /\ c.pc \in HasSealed =>
                /\ c.id \in 1..Len(sealed)
                /\ sealed[c.id] = [by |-> r, boot |-> boots, sequence |-> c.next,
                                   payload |-> c.payload, relation |-> c.relation]
          /\ c.pc \in AtEnvelope \union AtRef => getEvidence[1][c.relation]
          /\ c.pc = "sync envelope" => EnvelopeName(c.id) \in linked
          /\ c.pc \in AtRef => EnvelopeName(c.id) \in durable
          /\ c.pc = "sync ref" => RefName(c.id) \in linked
          /\ c.pc = "check" => RefName(c.id) \in durable

\* Acknowledged evidence is durable; in the current boot its sequence numbers are
\* those before the recorder's next one, each once.
AckedOK ==
    /\ \A i \in acked : RefName(i) \in durable
    /\ \A i \in acked : sealed[i].boot = boots => sealed[i].sequence < rec[sealed[i].by].next
    /\ \A i, j \in acked : i # j =>
          <<sealed[i].by, sealed[i].boot, sealed[i].sequence>> #
          <<sealed[j].by, sealed[j].boot, sealed[j].sequence>>
    /\ \A r \in Recorders : \A n \in 1..(rec[r].next - 1) :
          \E i \in acked : sealed[i].by = r /\ sealed[i].boot = boots /\ sealed[i].sequence = n

\* The inductive invariant.
EvidenceInv == /\ EvidenceTypes
               /\ RelationsKnown
               /\ Closed
               /\ AckedOK
               /\ \A r \in Recorders : RecordingOK(r)

\* Names of different kinds are different, and a name tells what it names.
LEMMA NameFacts ==
    /\ \A i, j : RefName(i) = RefName(j) => i = j
    /\ \A i, j : RefName(i) # EnvelopeName(j) /\ RefName(i) # PayloadName(j)
BY DEF RefName, EnvelopeName, PayloadName

\* What the invariant says of the sequence of envelopes, without sequences.
LEMMA SealedFacts ==
    ASSUME EvidenceTypes
    PROVE  /\ Len(sealed) \in Nat
           /\ DOMAIN sealed = 1..Len(sealed)
           /\ \A i \in 1..Len(sealed) : sealed[i] \in Envelopes
BY DEF EvidenceTypes

\* A sealed envelope appended.
LEMMA AppendFacts ==
    ASSUME NEW s \in Seq(Envelopes), NEW e \in Envelopes
    PROVE  /\ Append(s, e) \in Seq(Envelopes)
           /\ Len(Append(s, e)) = Len(s) + 1
           /\ \A i \in 1..Len(s) : Append(s, e)[i] = s[i]
           /\ Append(s, e)[Len(s) + 1] = e
BY SMT

\* The envelopes are only ever added to.
SealedGrows == /\ Len(sealed) \in Nat /\ Len(sealed') \in Nat
               /\ Len(sealed) <= Len(sealed')
               /\ \A i \in 1..Len(sealed) : sealed'[i] = sealed[i]

\* What is acknowledged, with all that it is related to, stays resolvable as long
\* as the durable names stay.
LEMMA ResolvesStill ==
    ASSUME EvidenceInv, SealedGrows, Backward(sealed'), durable \subseteq linked'
    PROVE  \A i \in acked \union {0} : \A d \in 0..(MaxRelationDepth + 1) :
              getEvidence[d][i] => getEvidence'[d][i]
<1>1. Backward(sealed)
  BY SealedFacts DEF EvidenceInv, RelationsKnown, Backward
<1>2. /\ acked \in SUBSET (1..Len(sealed)) /\ Len(sealed) <= Len(sealed')
      /\ \A i \in 1..Len(sealed) : sealed'[i] = sealed[i]
  BY DEF EvidenceInv, EvidenceTypes, SealedGrows
<1>3. ASSUME NEW i \in acked
      PROVE  /\ i \in Readable(sealed, linked) /\ i \in Readable(sealed', linked')
             /\ sealed[i].relation \in acked \union {0}
  <2>1. /\ i \in 1..Len(sealed) /\ i \in Nat /\ i \in 1..Len(sealed')
        /\ sealed'[i] = sealed[i]
    BY <1>2 DEF SealedGrows
  <2>2. RefName(i) \in durable /\ durable \subseteq linked
    BY DEF EvidenceInv, AckedOK, EvidenceTypes
  <2>3. EnvelopeName(i) \in durable /\ PayloadName(sealed[i].payload) \in durable
    BY <2>1, <2>2 DEF EvidenceInv, Closed
  <2>4. i \in Readable(sealed, linked)
    BY <2>1, <2>2, <2>3, Zenon DEF Readable
  <2>5. i \in Readable(sealed', linked')
    BY <2>1, <2>2, <2>3 DEF Readable
  <2> QED BY <2>1, <2>4, <2>5 DEF EvidenceInv, RelationsKnown
<1>4. Extended(sealed, sealed') /\ Retained(acked, sealed, linked, sealed', linked')
  BY <1>2, <1>3, Zenon DEF Extended, Retained
<1>5. \A i \in acked \union {0} : \A d \in 0..(MaxRelationDepth + 1) :
         Resolved(sealed, linked)[d][i] => Resolved(sealed', linked')[d][i]
  BY <1>1, <1>2, <1>4, EvidenceStays
<1> QED BY <1>5, EvidenceNow, Zenon

\* A step of one recorder that seals and acknowledges nothing: the names it adds
\* and its own place are all there is to check.
QuietStep(r, job) ==
    /\ rec' = [rec EXCEPT ![r] = job]
    /\ job \in Idles \union Recordings
    /\ job.next = rec[r].next
    /\ UNCHANGED <<sealed, acked, boots>>
    /\ linked \subseteq linked' /\ durable \subseteq durable' /\ durable' \subseteq linked'

\* What a new reference needs.
Referable(i) == /\ i \in 1..Len(sealed)
                /\ EnvelopeName(i) \in durable
                /\ PayloadName(sealed[i].payload) \in durable
                /\ getEvidence[1][sealed[i].relation]

\* In such a step what resolves goes on to do so.
LEMMA QuietResolves ==
    ASSUME EvidenceInv, NEW r \in Recorders, NEW job, QuietStep(r, job)
    PROVE  \A i \in acked \union {0} : getEvidence[1][i] => getEvidence'[1][i]
<1>1. Backward(sealed') /\ SealedGrows /\ durable \subseteq linked'
  BY SealedFacts DEF EvidenceInv, RelationsKnown, Backward, SealedGrows, QuietStep
<1>2. \A i \in acked \union {0} : \A d \in 0..(MaxRelationDepth + 1) :
              getEvidence[d][i] => getEvidence'[d][i]
  BY <1>1, ResolvesStill
<1>3. 1 \in 0..(MaxRelationDepth + 1)
  BY EvidenceConstants
<1> QED BY <1>2, <1>3

\* The recorders after it.
LEMMA RecMoves ==
    ASSUME EvidenceTypes, NEW r \in Recorders, NEW job \in Idles \union Recordings,
           rec' = [rec EXCEPT ![r] = job]
    PROVE  /\ rec' \in [Recorders -> Idles \union Recordings]
           /\ rec'[r] = job
           /\ \A q \in Recorders : q # r => rec'[q] = rec[q]
BY Zenon DEF EvidenceTypes

\* A recorder that does not move stays in order.
LEMMA OthersStay ==
    ASSUME EvidenceInv, NEW q \in Recorders, rec'[q] = rec[q], boots' = boots,
           linked \subseteq linked', durable \subseteq durable', acked \subseteq acked',
           SealedGrows,
           \A i \in acked \union {0} : getEvidence[1][i] => getEvidence'[1][i]
    PROVE  RecordingOK(q)'
<1>1. RecordingOK(q)
  BY DEF EvidenceInv
<1>2. \A i \in 1..Len(sealed) : i \in 1..Len(sealed') /\ sealed'[i] = sealed[i]
  BY DEF SealedGrows
<1> QED BY <1>1, <1>2, Zenon DEF RecordingOK

\* The step keeps the invariant.
LEMMA QuietInv ==
    ASSUME EvidenceInv, NEW r \in Recorders, NEW job, QuietStep(r, job),
           \A i \in Nat : RefName(i) \in linked' => RefName(i) \in linked \/ Referable(i),
           RecordingOK(r)'
    PROVE  EvidenceInv'
<1>0. \A i \in acked \union {0} : getEvidence[1][i] => getEvidence'[1][i]
  BY QuietResolves
<1>1. /\ rec' \in [Recorders -> Idles \union Recordings]
      /\ rec'[r] = job
      /\ \A q \in Recorders : q # r => rec'[q] = rec[q]
  BY RecMoves, Zenon DEF EvidenceInv, QuietStep
<1>2. EvidenceTypes'
  BY <1>1, Zenon DEF EvidenceInv, EvidenceTypes, QuietStep
<1>3. RelationsKnown'
  BY Zenon DEF EvidenceInv, RelationsKnown, QuietStep
<1>4. Closed'
  <2> SUFFICES ASSUME NEW i \in Nat, RefName(i) \in linked'
               PROVE  /\ i \in 1..Len(sealed)
                      /\ EnvelopeName(i) \in durable'
                      /\ PayloadName(sealed[i].payload) \in durable'
                      /\ getEvidence'[1][sealed[i].relation]
    BY Zenon DEF Closed, QuietStep
  <2>1. Referable(i)
    BY Zenon DEF EvidenceInv, Closed, Referable
  <2>2. sealed[i].relation \in acked \union {0}
    BY <2>1 DEF EvidenceInv, RelationsKnown, Referable
  <2> QED BY <1>0, <2>1, <2>2 DEF Referable, QuietStep
<1>5. \A q \in Recorders : rec'[q].next = rec[q].next
  BY <1>1 DEF QuietStep
<1>6. AckedOK'
  <2>1. \A i \in acked : sealed[i].by \in Recorders
    <3>1. \A i \in 1..Len(sealed) : sealed[i].by \in Recorders
      BY SealedFacts DEF EvidenceInv, Envelopes
    <3> QED BY <3>1 DEF EvidenceInv, EvidenceTypes
  <2>2. AckedOK /\ UNCHANGED <<sealed, acked, boots>> /\ durable \subseteq durable'
    BY DEF EvidenceInv, QuietStep
  <2> QED BY <1>5, <2>1, <2>2 DEF AckedOK
<1>7. SealedGrows
  BY SealedFacts DEF EvidenceInv, SealedGrows, QuietStep
<1>8. ASSUME NEW q \in Recorders, q # r PROVE RecordingOK(q)'
  <2>1. /\ rec'[q] = rec[q] /\ boots' = boots /\ linked \subseteq linked'
        /\ durable \subseteq durable' /\ acked \subseteq acked'
    BY <1>1, <1>8 DEF QuietStep
  <2> QED BY <1>0, <1>7, <2>1, OthersStay
<1>9. \A q \in Recorders : RecordingOK(q)'
  BY <1>8
<1> QED BY <1>2, <1>3, <1>4, <1>6, <1>9 DEF EvidenceInv

Places == AtPayload \union {"seal"} \union HasSealed

\* A call of Record with its place changed.
LEMMA PlaceEdits ==
    ASSUME NEW c \in Recordings, NEW k \in Places
    PROVE  LET d == [c EXCEPT !.pc = k]
           IN  /\ d \in Recordings
               /\ d.pc = k /\ d.next = c.next /\ d.payload = c.payload
               /\ d.relation = c.relation /\ d.id = c.id /\ d.valid = c.valid
BY Zenon DEF Recordings, Places

\* A recorder that is not idle is in a call of Record.
LEMMA InRecord ==
    ASSUME EvidenceInv, NEW r \in Recorders, rec[r].pc # "idle"
    PROVE  rec[r] \in Recordings
<1>1. rec[r] \in Idles \union Recordings
  BY Zenon DEF EvidenceInv, EvidenceTypes
<1> QED BY <1>1 DEF Idles

\* What a call of Record needs at its new place.
PlaceOK(c, k) ==
    /\ k = "sync payload" => PayloadName(c.payload) \in linked'
    /\ k \in HasSealed \union {"seal"} => PayloadName(c.payload) \in durable'
    /\ k \in HasSealed => c.pc \in HasSealed
    /\ k \in AtEnvelope \union AtRef => getEvidence[1][c.relation]
    /\ k = "sync envelope" => EnvelopeName(c.id) \in linked'
    /\ k \in AtRef => EnvelopeName(c.id) \in durable'
    /\ k = "sync ref" => RefName(c.id) \in linked'
    /\ k = "check" => RefName(c.id) \in durable'

\* A call of Record that moves on.
LEMMA MovedInv ==
    ASSUME EvidenceInv, NEW r \in Recorders, rec[r].pc # "idle", NEW k \in Places,
           rec' = Moved(r, k), UNCHANGED <<sealed, acked, boots>>,
           linked \subseteq linked', durable \subseteq durable', durable' \subseteq linked',
           \A i \in Nat : RefName(i) \in linked' => RefName(i) \in linked \/ Referable(i),
           PlaceOK(rec[r], k)
    PROVE  EvidenceInv'
<1> DEFINE c == rec[r]
           job == [c EXCEPT !.pc = k]
<1>1. c \in Recordings
  BY InRecord
<1>2. /\ job \in Recordings
      /\ job.pc = k /\ job.next = c.next /\ job.payload = c.payload
      /\ job.relation = c.relation /\ job.id = c.id
  BY <1>1, PlaceEdits
<1>3. rec' = [rec EXCEPT ![r] = job]
  BY Zenon DEF Moved
<1> HIDE DEF job
<1>4. QuietStep(r, job)
  BY <1>2, <1>3, Zenon DEF QuietStep
<1>5. \A i \in acked \union {0} : getEvidence[1][i] => getEvidence'[1][i]
  BY <1>4, QuietResolves
<1>6. rec'[r] = job
  BY <1>2, <1>3, RecMoves, Zenon DEF EvidenceInv
<1>7. RecordingOK(r) /\ k # "idle"
  BY Zenon DEF EvidenceInv, Places, AtPayload, HasSealed, AtEnvelope, AtRef
<1>8. RecordingOK(r)'
  <2>1. c.relation \in acked \union {0}
    BY <1>7, Zenon DEF RecordingOK
  <2>2. k \in AtEnvelope \union AtRef => getEvidence'[1][c.relation]
    BY <1>5, <2>1, Zenon DEF PlaceOK
  <2>3. k \in HasSealed =>
          /\ c.id \in 1..Len(sealed)
          /\ sealed[c.id] = [by |-> r, boot |-> boots, sequence |-> c.next,
                             payload |-> c.payload, relation |-> c.relation]
    BY <1>7, Zenon DEF RecordingOK, PlaceOK
  <2> HIDE DEF c
  <2> QED BY <1>2, <1>6, <2>1, <2>2, <2>3, Zenon DEF RecordingOK, PlaceOK, c
<1> QED BY <1>4, <1>8, QuietInv

\* Every observation that validateObservation accepts is one that its envelope
\* may describe.
LEMMA VerdictsTrue == \A valid \in Verdicts : valid = TRUE
<1>1. ASSUME NEW layer, NEW mode, NEW direction, sourceCaptureLayer(layer),
             validLayerMode(layer, mode), validDirection(layer, direction)
      PROVE  validEvidenceObservationPoint(layer, mode, direction) = TRUE
  <2>1. CASE layer = "upstream_application"
    BY <1>1, <2>1, Zenon DEF validLayerMode, validDirection, validEvidenceObservationPoint
  <2>2. CASE layer = "proxy_forwarded"
    BY <1>1, <2>2, Zenon DEF validLayerMode, validDirection, validEvidenceObservationPoint
  <2>3. CASE layer = "client_sdk"
    BY <1>1, <2>3, Zenon DEF validLayerMode, validDirection, validEvidenceObservationPoint
  <2> QED BY <1>1, <2>1, <2>2, <2>3, Zenon DEF sourceCaptureLayer
<1> QED BY <1>1, Zenon DEF Verdicts

\* A call of Record that begins.
LEMMA RecordInv ==
    ASSUME EvidenceInv, NEW r \in Recorders, NEW payload \in Payloads,
           NEW relation \in acked \union {0}, NEW valid \in Verdicts,
           Record(r, payload, relation, valid)
    PROVE  EvidenceInv'
<1> DEFINE job == [pc |-> "put payload", next |-> rec[r].next, payload |-> payload,
                   relation |-> relation, id |-> 0, valid |-> valid]
<1>1. valid = TRUE
  BY VerdictsTrue, Zenon
<1>2. relation \in Nat /\ rec[r].next \in Nat \ {0}
  <2>1. rec[r] \in Idles \union Recordings
    BY Zenon DEF EvidenceInv, EvidenceTypes
  <2>2. relation \in Nat
    BY SealedFacts DEF EvidenceInv, EvidenceTypes
  <2> QED BY <2>1, <2>2, Zenon DEF Idles, Recordings
<1>3. job \in Recordings /\ job.pc = "put payload" /\ job.relation = relation
      /\ job.next = rec[r].next
  BY <1>1, <1>2 DEF Recordings, AtPayload
<1>4. rec' = [rec EXCEPT ![r] = job] /\ UNCHANGED <<linked, durable, sealed, acked, boots>>
  BY Zenon DEF Record
<1> HIDE DEF job
<1>5. QuietStep(r, job)
  BY <1>3, <1>4, Zenon DEF QuietStep, EvidenceInv, EvidenceTypes
<1>6. rec'[r] = job
  BY <1>3, <1>4, RecMoves, Zenon DEF EvidenceInv
<1>7. RecordingOK(r)'
  BY <1>3, <1>4, <1>6, Zenon DEF RecordingOK, HasSealed, AtEnvelope, AtRef
<1> QED BY <1>4, <1>5, <1>7, QuietInv

\* A call of Record that fails.
LEMMA RestsInv ==
    ASSUME EvidenceInv, NEW r \in Recorders, rec' = [rec EXCEPT ![r] = Resting(rec[r].next)],
           UNCHANGED <<linked, durable, sealed, acked, boots>>
    PROVE  EvidenceInv'
<1> DEFINE job == Resting(rec[r].next)
<1>1. rec[r].next \in Nat \ {0}
  <2>1. rec[r] \in Idles \union Recordings
    BY Zenon DEF EvidenceInv, EvidenceTypes
  <2> QED BY <2>1, Zenon DEF Idles, Recordings
<1>2. job \in Idles /\ job.pc = "idle" /\ job.next = rec[r].next
  BY <1>1 DEF Idles, Resting
<1> HIDE DEF job
<1>3. QuietStep(r, job)
  BY <1>2 DEF QuietStep, EvidenceInv, EvidenceTypes, job
<1>4. rec'[r] = job
  BY <1>2, RecMoves, Zenon DEF EvidenceInv, job
<1>5. RecordingOK(r)'
  BY <1>2, <1>4, Zenon DEF RecordingOK
<1> QED BY <1>3, <1>5, QuietInv

\* The file that a call of Record is about to put in place.
LEMMA StagedAt ==
    ASSUME NEW r
    PROVE  /\ rec[r].pc \in AtPayload => Staged(r) = PayloadName(rec[r].payload)
           /\ rec[r].pc \in AtEnvelope => Staged(r) = EnvelopeName(rec[r].id)
           /\ rec[r].pc \in AtRef => Staged(r) = RefName(rec[r].id)
<1>1. rec[r].pc \in AtPayload => Staged(r) = PayloadName(rec[r].payload)
  BY Zenon DEF Staged, AtPayload
<1>2. rec[r].pc \in AtEnvelope => Staged(r) = EnvelopeName(rec[r].id)
  BY Zenon DEF Staged, AtEnvelope
<1>3. rec[r].pc \in AtRef => Staged(r) = RefName(rec[r].id)
  BY Zenon DEF Staged, AtRef
<1> QED BY <1>1, <1>2, <1>3

\* The places, by name.
LEMMA PlaceFacts ==
    /\ Putting("payload") = "put payload" /\ Putting("envelope") = "put envelope"
    /\ Linking("payload") = "link payload" /\ Linking("envelope") = "link envelope"
    /\ Linking("ref") = "link ref"
    /\ Syncing("payload") = "sync payload" /\ Syncing("envelope") = "sync envelope"
    /\ Syncing("ref") = "sync ref"
    /\ After("payload") = "seal" /\ After("envelope") = "link ref" /\ After("ref") = "check"
BY DEF Putting, Linking, Syncing, After

\* An object is found, or a temporary file is written for it.
LEMMA PutInv ==
    ASSUME EvidenceInv, NEW r \in Recorders, NEW what \in {"payload", "envelope"},
           putDigestBytes(r, what)
    PROVE  EvidenceInv'
<1> DEFINE c == rec[r]
           k == IF readVerified(Staged(r)) THEN Syncing(what) ELSE Linking(what)
<1>1. /\ c.pc = Putting(what) /\ rec' = Moved(r, k)
      /\ UNCHANGED <<linked, durable, sealed, acked, boots>>
  BY Zenon DEF putDigestBytes
<1>2. RecordingOK(r) /\ durable \subseteq linked
  BY Zenon DEF EvidenceInv, EvidenceTypes
<1>3. CASE what = "payload"
  <2>1. c.pc = "put payload" /\ k \in {"sync payload", "link payload"}
        /\ (k = "sync payload" => PayloadName(c.payload) \in linked)
    BY <1>1, <1>3, PlaceFacts, StagedAt, Zenon DEF readVerified, AtPayload
  <2> HIDE DEF k
  <2>2. k \in Places /\ PlaceOK(c, k)
    BY <1>1, <2>1, Zenon DEF Places, PlaceOK, AtPayload, HasSealed, AtEnvelope, AtRef
  <2> QED BY <1>1, <1>2, <2>1, <2>2, MovedInv, Zenon
<1>4. CASE what = "envelope"
  <2>1. c.pc = "put envelope" /\ k \in {"sync envelope", "link envelope"}
        /\ (k = "sync envelope" => EnvelopeName(c.id) \in linked)
    BY <1>1, <1>4, PlaceFacts, StagedAt, Zenon DEF readVerified, AtEnvelope
  <2> HIDE DEF k
  <2>2. PayloadName(c.payload) \in durable /\ getEvidence[1][c.relation]
    BY <1>2, <2>1, Zenon DEF RecordingOK, HasSealed, AtEnvelope
  <2>3. k \in Places /\ PlaceOK(c, k)
    BY <1>1, <2>1, <2>2, Zenon DEF Places, PlaceOK, HasSealed, AtEnvelope, AtRef
  <2> QED BY <1>1, <1>2, <2>1, <2>3, MovedInv, Zenon
<1> QED BY <1>3, <1>4, Zenon

\* An object or a reference gets its name.
LEMMA LinkInv ==
    ASSUME EvidenceInv, NEW r \in Recorders, NEW what \in {"payload", "envelope", "ref"},
           LinkObject(r, what)
    PROVE  EvidenceInv'
<1> DEFINE c == rec[r]
<1>1. /\ c.pc = Linking(what) /\ rec' = Moved(r, Syncing(what))
      /\ linked' = linked \union {Staged(r)}
      /\ UNCHANGED <<durable, sealed, acked, boots>>
  BY Zenon DEF LinkObject
<1>2. RecordingOK(r) /\ durable \subseteq linked
  BY Zenon DEF EvidenceInv, EvidenceTypes
<1>3. CASE what = "payload"
  <2>1. c.pc = "link payload" /\ Syncing(what) = "sync payload"
        /\ Staged(r) = PayloadName(c.payload)
    BY <1>1, <1>3, PlaceFacts, StagedAt, Zenon DEF AtPayload
  <2>2. "sync payload" \in Places /\ PlaceOK(c, "sync payload")
    BY <1>1, <2>1, Zenon DEF Places, PlaceOK, AtPayload, HasSealed, AtEnvelope, AtRef
  <2>3. \A i \in Nat : RefName(i) \in linked' => RefName(i) \in linked
    BY <1>1, <2>1, NameFacts, Zenon
  <2> QED BY <1>1, <1>2, <2>1, <2>2, <2>3, MovedInv, Zenon
<1>4. CASE what = "envelope"
  <2>1. c.pc = "link envelope" /\ Syncing(what) = "sync envelope"
        /\ Staged(r) = EnvelopeName(c.id)
    BY <1>1, <1>4, PlaceFacts, StagedAt, Zenon DEF AtEnvelope
  <2>2. PayloadName(c.payload) \in durable /\ getEvidence[1][c.relation]
    BY <1>2, <2>1, Zenon DEF RecordingOK, HasSealed, AtEnvelope
  <2>3. "sync envelope" \in Places /\ PlaceOK(c, "sync envelope")
    BY <1>1, <2>1, <2>2, Zenon DEF Places, PlaceOK, HasSealed, AtEnvelope, AtRef
  <2>4. \A i \in Nat : RefName(i) \in linked' => RefName(i) \in linked
    BY <1>1, <2>1, NameFacts, Zenon
  <2> QED BY <1>1, <1>2, <2>1, <2>3, <2>4, MovedInv, Zenon
<1>5. CASE what = "ref"
  <2>1. c.pc = "link ref" /\ Syncing(what) = "sync ref" /\ Staged(r) = RefName(c.id)
    BY <1>1, <1>5, PlaceFacts, StagedAt, Zenon DEF AtRef
  <2>2. /\ PayloadName(c.payload) \in durable /\ getEvidence[1][c.relation]
        /\ EnvelopeName(c.id) \in durable
        /\ c.id \in 1..Len(sealed)
        /\ sealed[c.id] = [by |-> r, boot |-> boots, sequence |-> c.next,
                           payload |-> c.payload, relation |-> c.relation]
    BY <1>2, <2>1, Zenon DEF RecordingOK, HasSealed, AtRef
  <2>3. "sync ref" \in Places /\ PlaceOK(c, "sync ref")
    BY <1>1, <2>1, <2>2, Zenon DEF Places, PlaceOK, HasSealed, AtEnvelope, AtRef
  <2>4. Referable(c.id)
    <3>1. sealed[c.id].payload = c.payload /\ sealed[c.id].relation = c.relation
      BY <2>2
    <3> QED BY <2>2, <3>1, Zenon DEF Referable
  <2>5. \A i \in Nat : RefName(i) \in linked' => RefName(i) \in linked \/ Referable(i)
    BY <1>1, <2>1, <2>4, NameFacts, Zenon
  <2> QED BY <1>1, <1>2, <2>1, <2>3, <2>5, MovedInv, Zenon
<1> QED BY <1>3, <1>4, <1>5, Zenon

\* The directory of an object or a reference is synced.
LEMMA SyncInv ==
    ASSUME EvidenceInv, NEW r \in Recorders, NEW what \in {"payload", "envelope", "ref"},
           syncDirectory(r, what)
    PROVE  EvidenceInv'
<1> DEFINE c == rec[r]
<1>1. /\ c.pc = Syncing(what) /\ rec' = Moved(r, After(what))
      /\ durable' = durable \union {Staged(r)}
      /\ UNCHANGED <<linked, sealed, acked, boots>>
  BY Zenon DEF syncDirectory
<1>2. RecordingOK(r) /\ durable \subseteq linked
  BY Zenon DEF EvidenceInv, EvidenceTypes
<1>3. CASE what = "payload"
  <2>1. c.pc = "sync payload" /\ After(what) = "seal" /\ Staged(r) = PayloadName(c.payload)
    BY <1>1, <1>3, PlaceFacts, StagedAt, Zenon DEF AtPayload
  <2>2. "seal" \in Places /\ PlaceOK(c, "seal")
    BY <1>1, <2>1, Zenon DEF Places, PlaceOK, HasSealed, AtEnvelope, AtRef
  <2>3. durable' \subseteq linked'
    BY <1>1, <1>2, <2>1, Zenon DEF RecordingOK
  <2> QED BY <1>1, <2>1, <2>2, <2>3, MovedInv, Zenon
<1>4. CASE what = "envelope"
  <2>1. c.pc = "sync envelope" /\ After(what) = "link ref" /\ Staged(r) = EnvelopeName(c.id)
    BY <1>1, <1>4, PlaceFacts, StagedAt, Zenon DEF AtEnvelope
  <2>2. PayloadName(c.payload) \in durable /\ getEvidence[1][c.relation]
        /\ EnvelopeName(c.id) \in linked
    BY <1>2, <2>1, Zenon DEF RecordingOK, HasSealed, AtEnvelope
  <2>3. "link ref" \in Places /\ PlaceOK(c, "link ref")
    BY <1>1, <2>1, <2>2, Zenon DEF Places, PlaceOK, HasSealed, AtEnvelope, AtRef
  <2>4. durable' \subseteq linked'
    BY <1>1, <1>2, <2>1, <2>2, Zenon
  <2> QED BY <1>1, <2>1, <2>3, <2>4, MovedInv, Zenon
<1>5. CASE what = "ref"
  <2>1. c.pc = "sync ref" /\ After(what) = "check" /\ Staged(r) = RefName(c.id)
    BY <1>1, <1>5, PlaceFacts, StagedAt, Zenon DEF AtRef
  <2>2. /\ PayloadName(c.payload) \in durable /\ getEvidence[1][c.relation]
        /\ EnvelopeName(c.id) \in durable /\ RefName(c.id) \in linked
    BY <1>2, <2>1, Zenon DEF RecordingOK, HasSealed, AtRef
  <2>3. "check" \in Places /\ PlaceOK(c, "check")
    BY <1>1, <2>1, <2>2, Zenon DEF Places, PlaceOK, HasSealed, AtEnvelope, AtRef
  <2>4. durable' \subseteq linked'
    BY <1>1, <1>2, <2>1, <2>2, Zenon
  <2> QED BY <1>1, <2>1, <2>3, <2>4, MovedInv, Zenon
<1> QED BY <1>3, <1>4, <1>5, Zenon

\* PutEvidence finds the payload and the relations, or Record fails.
LEMMA PutEvidenceInv ==
    ASSUME EvidenceInv, NEW r \in Recorders, PutEvidence(r)
    PROVE  EvidenceInv'
<1> DEFINE c == rec[r]
           k == IF RefName(c.id) \in linked THEN "sync ref" ELSE "put envelope"
<1>1. c.pc = "put evidence" /\ UNCHANGED <<linked, durable, sealed, acked, boots>>
  BY Zenon DEF PutEvidence
<1>2. RecordingOK(r) /\ durable \subseteq linked
  BY Zenon DEF EvidenceInv, EvidenceTypes
<1>3. /\ PayloadName(c.payload) \in durable
      /\ c.id \in 1..Len(sealed)
      /\ sealed[c.id] = [by |-> r, boot |-> boots, sequence |-> c.next,
                         payload |-> c.payload, relation |-> c.relation]
  BY <1>1, <1>2, Zenon DEF RecordingOK, HasSealed
<1>4. CASE resolveEvidenceRelations(c.id)
  <2>1. rec' = Moved(r, k)
    BY <1>2, <1>3, <1>4, Zenon DEF PutEvidence, readVerified
  <2>2. sealed[c.id].relation = c.relation
    BY <1>3
  <2>3. getEvidence[1][c.relation]
    BY <1>4, <2>2, Zenon DEF resolveEvidenceRelations
  <2>4. RefName(c.id) \in linked => EnvelopeName(c.id) \in durable
    <3>1. c.id \in Nat
      BY <1>3, SealedFacts DEF EvidenceInv
    <3> QED BY <3>1, Zenon DEF EvidenceInv, Closed
  <2>5. k \in {"sync ref", "put envelope"} /\ (k = "sync ref" => RefName(c.id) \in linked)
    BY Zenon
  <2> HIDE DEF k
  <2>6. k \in Places /\ PlaceOK(c, k)
    BY <1>1, <1>3, <2>3, <2>4, <2>5, Zenon
       DEF Places, PlaceOK, HasSealed, AtEnvelope, AtRef
  <2> QED BY <1>1, <1>2, <2>1, <2>6, MovedInv, Zenon
<1>5. CASE ~resolveEvidenceRelations(c.id)
  <2>1. rec' = [rec EXCEPT ![r] = Resting(c.next)]
    BY <1>5, Zenon DEF PutEvidence
  <2> QED BY <1>1, <2>1, RestsInv, Zenon
<1> QED BY <1>4, <1>5

\* The envelope is sealed: a new one, or one that is there already.
SealsAs(e, id) == /\ id \in 1..Len(sealed')
                  /\ sealed' \in Seq(Envelopes)
                  /\ SealedGrows
                  /\ sealed'[id] = e
                  /\ \A i \in 1..Len(sealed') :
                        i \in 1..Len(sealed) \/ (i = id /\ i = Len(sealed) + 1)

\* SealEvidenceMeta finds the envelope that was sealed before, or seals one more.
LEMMA SealFacts ==
    ASSUME EvidenceInv, NEW r \in Recorders, SealEvidenceMeta(r)
    PROVE  \E id \in Nat :
              /\ rec' = [rec EXCEPT ![r].id = id, ![r].pc = "put evidence"]
              /\ SealsAs([by |-> r, boot |-> boots, sequence |-> rec[r].next,
                          payload |-> rec[r].payload, relation |-> rec[r].relation], id)
<1> DEFINE e == [by |-> r, boot |-> boots, sequence |-> rec[r].next,
                 payload |-> rec[r].payload, relation |-> rec[r].relation]
<1>1. rec[r] \in Recordings /\ boots \in Nat /\ sealed \in Seq(Envelopes)
  <2>1. rec[r].pc # "idle"
    BY Zenon DEF SealEvidenceMeta
  <2> QED BY <2>1, InRecord, Zenon DEF EvidenceInv, EvidenceTypes
<1>2. e \in Envelopes
  BY <1>1, Zenon DEF Envelopes, Recordings
<1>3. Len(sealed) \in Nat /\ DOMAIN sealed = 1..Len(sealed)
  BY SealedFacts DEF EvidenceInv
<1> HIDE DEF e
<1>4. CASE /\ sealed' = Append(sealed, e)
           /\ rec' = [rec EXCEPT ![r].id = Len(sealed) + 1, ![r].pc = "put evidence"]
  <2>1. /\ Append(sealed, e) \in Seq(Envelopes)
        /\ Len(Append(sealed, e)) = Len(sealed) + 1
        /\ \A i \in 1..Len(sealed) : Append(sealed, e)[i] = sealed[i]
        /\ Append(sealed, e)[Len(sealed) + 1] = e
    BY <1>1, <1>2, AppendFacts
  <2>2. /\ sealed' \in Seq(Envelopes) /\ Len(sealed') = Len(sealed) + 1
        /\ \A i \in 1..Len(sealed) : sealed'[i] = sealed[i]
        /\ sealed'[Len(sealed) + 1] = e
    BY <1>4, <2>1, Zenon
  <2> DEFINE n == Len(sealed)
             nn == Len(sealed')
  <2>3. n \in Nat /\ nn = n + 1
    BY <1>3, <2>2
  <2> HIDE DEF n, nn
  <2>4. /\ nn \in Nat /\ n <= nn /\ n + 1 \in 1..nn
        /\ \A i \in 1..nn : i \in 1..n \/ i = n + 1
    BY <2>3
  <2>5. SealedGrows
    BY <2>2, <2>3, <2>4, Zenon DEF SealedGrows, n, nn
  <2>6. n + 1 \in Nat /\ sealed'[n + 1] = e
    BY <2>2, <2>3 DEF n
  <2>7. SealsAs(e, n + 1)
    <3>1. /\ n + 1 \in 1..Len(sealed')
          /\ \A i \in 1..Len(sealed') : i \in 1..Len(sealed) \/ (i = n + 1 /\ i = Len(sealed) + 1)
      BY <2>4 DEF n, nn
    <3>2. sealed' \in Seq(Envelopes)
      BY <2>2, Zenon
    <3> QED BY <2>5, <2>6, <3>1, <3>2, SMT DEF SealsAs
  <2> QED BY <1>4, <2>6, <2>7, Zenon DEF e, n
<1>5. ASSUME NEW i \in DOMAIN sealed, sealed[i] = e, UNCHANGED sealed,
             rec' = [rec EXCEPT ![r].id = i, ![r].pc = "put evidence"]
      PROVE  i \in Nat /\ SealsAs(e, i)
  <2>1. sealed' = sealed /\ i \in 1..Len(sealed)
    BY <1>3, <1>5, Zenon
  <2>2. i \in Nat /\ Len(sealed) <= Len(sealed)
    BY <1>3, <2>1
  <2>3. SealedGrows
    BY <1>3, <2>1, <2>2, Zenon DEF SealedGrows
  <2>4. sealed' \in Seq(Envelopes) /\ sealed'[i] = e /\ i \in 1..Len(sealed')
    BY <1>1, <1>5, <2>1, Zenon
  <2>5. \A j \in 1..Len(sealed') : j \in 1..Len(sealed) \/ (j = i /\ j = Len(sealed) + 1)
    BY <2>1, Zenon
  <2> QED BY <2>2, <2>3, <2>4, <2>5 DEF SealsAs
<1> QED BY <1>4, <1>5, Zenon DEF SealEvidenceMeta, e

\* A call of Record that has its envelope.
LEMMA SealEdits ==
    ASSUME NEW c \in Recordings, NEW id \in Nat
    PROVE  LET d == [c EXCEPT !.id = id, !.pc = "put evidence"]
           IN  /\ d \in Recordings
               /\ d.pc = "put evidence" /\ d.next = c.next /\ d.payload = c.payload
               /\ d.relation = c.relation /\ d.id = id
<1>1. "put evidence" \in Places
  BY Zenon DEF Places, HasSealed
<1> DEFINE e == [c EXCEPT !.id = id]
<1>2. /\ e \in Recordings
      /\ e.pc = c.pc /\ e.next = c.next /\ e.payload = c.payload
      /\ e.relation = c.relation /\ e.id = id
  BY Zenon DEF Recordings
<1> HIDE DEF e
<1> DEFINE d == [e EXCEPT !.pc = "put evidence"]
<1>3. /\ d \in Recordings
      /\ d.pc = "put evidence" /\ d.next = e.next /\ d.payload = e.payload
      /\ d.relation = e.relation /\ d.id = e.id
  BY <1>1, <1>2, PlaceEdits, Zenon
<1> QED BY <1>2, <1>3, Zenon DEF e

\* The envelope is sealed.
LEMMA SealInv ==
    ASSUME EvidenceInv, NEW r \in Recorders, SealEvidenceMeta(r)
    PROVE  EvidenceInv'
<1> DEFINE c == rec[r]
<1>1. c.pc = "seal" /\ UNCHANGED <<linked, durable, acked, boots>>
  BY Zenon DEF SealEvidenceMeta
<1> DEFINE e == [by |-> r, boot |-> boots, sequence |-> c.next,
                 payload |-> c.payload, relation |-> c.relation]
<1>0. PICK id \in Nat : /\ rec' = [rec EXCEPT ![r].id = id, ![r].pc = "put evidence"]
                        /\ SealsAs(e, id)
  BY SealFacts, Zenon
<1>2. /\ id \in 1..Len(sealed') /\ sealed' \in Seq(Envelopes) /\ SealedGrows /\ sealed'[id] = e
      /\ \A i \in 1..Len(sealed') : i \in 1..Len(sealed) \/ (i = id /\ i = Len(sealed) + 1)
  BY <1>0, Zenon DEF SealsAs
<1>3. c \in Recordings /\ RecordingOK(r) /\ durable \subseteq linked
  BY <1>1, InRecord, Zenon DEF EvidenceInv, EvidenceTypes
<1>4. c.relation \in acked \union {0} /\ PayloadName(c.payload) \in durable
  BY <1>1, <1>3, Zenon DEF RecordingOK
<1> DEFINE job == [c EXCEPT !.id = id, !.pc = "put evidence"]
<1>5. e.relation = c.relation /\ e.boot = boots
  BY Zenon
<1> HIDE DEF e
<1>6. /\ job \in Recordings
      /\ job.pc = "put evidence" /\ job.next = c.next /\ job.payload = c.payload
      /\ job.relation = c.relation /\ job.id = id
  BY <1>3, SealEdits, Zenon
<1>7. rec' = [rec EXCEPT ![r] = job]
  BY <1>0, Zenon DEF EvidenceInv, EvidenceTypes
<1> HIDE DEF job
<1>8. /\ rec' \in [Recorders -> Idles \union Recordings]
      /\ rec'[r] = job
      /\ \A q \in Recorders : q # r => rec'[q] = rec[q]
  BY <1>6, <1>7, RecMoves, Zenon DEF EvidenceInv
<1>9. \A i \in 1..Len(sealed) : i \in 1..Len(sealed') /\ sealed'[i] = sealed[i]
  <2>1. SealedGrows
    BY <1>2, Zenon
  <2> QED BY <2>1 DEF SealedGrows
<1>10. acked \subseteq 1..Len(sealed)
  BY Zenon DEF EvidenceInv, EvidenceTypes
<1>11. EvidenceTypes'
  BY <1>1, <1>2, <1>3, <1>8, <1>9, <1>10, Zenon DEF EvidenceInv, EvidenceTypes
<1>12. RelationsKnown'
  <2> SUFFICES ASSUME NEW i \in 1..Len(sealed')
               PROVE  /\ sealed'[i].relation \in acked \union {0}
                      /\ sealed'[i].relation \in 0..(i - 1)
                      /\ sealed'[i].boot <= boots
    BY <1>1, Zenon DEF RelationsKnown
  <2>1. CASE i \in 1..Len(sealed)
    BY <1>9, <2>1, Zenon DEF EvidenceInv, RelationsKnown
  <2>2. CASE i = id /\ i = Len(sealed) + 1
    <3>1. sealed'[i].relation = c.relation /\ sealed'[i].boot = boots
      BY <1>2, <1>5, <2>2, Zenon
    <3>2. c.relation \in 0..(i - 1)
      <4> DEFINE n == Len(sealed)
                 p == c.relation
      <4>1. n \in Nat /\ i = n + 1
        BY <1>2, <2>2, Zenon DEF SealedGrows
      <4>2. p \in 1..n \/ p = 0
        BY <1>4, <1>10, Zenon
      <4> HIDE DEF n, p
      <4>3. p \in 0..(i - 1)
        BY <4>1, <4>2
      <4> QED BY <4>3, Zenon DEF p
    <3>3. boots <= boots
      BY DEF EvidenceInv, EvidenceTypes
    <3> QED BY <1>4, <3>1, <3>2, <3>3, Zenon
  <2> QED BY <1>2, <2>1, <2>2, Zenon
<1>13. Backward(sealed')
  BY <1>2, <1>12, Zenon DEF Backward, RelationsKnown, SealedGrows
<1>14. \A i \in acked \union {0} : getEvidence[1][i] => getEvidence'[1][i]
  <2>1. durable \subseteq linked'
    BY <1>1, <1>3
  <2>2. \A i \in acked \union {0} : \A d \in 0..(MaxRelationDepth + 1) :
           getEvidence[d][i] => getEvidence'[d][i]
    BY <1>2, <1>13, <2>1, ResolvesStill, Zenon
  <2>3. 1 \in 0..(MaxRelationDepth + 1)
    BY EvidenceConstants
  <2> QED BY <2>2, <2>3
<1>15. Closed'
  <2> SUFFICES ASSUME NEW i \in Nat, RefName(i) \in linked
               PROVE  /\ i \in 1..Len(sealed')
                      /\ EnvelopeName(i) \in durable
                      /\ PayloadName(sealed'[i].payload) \in durable
                      /\ getEvidence'[1][sealed'[i].relation]
    BY <1>1, Zenon DEF Closed
  <2>1. Referable(i)
    BY Zenon DEF EvidenceInv, Closed, Referable
  <2>2. sealed[i].relation \in acked \union {0}
    BY <2>1, Zenon DEF EvidenceInv, RelationsKnown, Referable
  <2> QED BY <1>9, <1>14, <2>1, <2>2, Zenon DEF Referable
<1>16. \A q \in Recorders : rec'[q].next = rec[q].next
  BY <1>6, <1>8, Zenon
<1>17. AckedOK'
  <2>1. \A i \in acked : sealed'[i] = sealed[i] /\ sealed[i].by \in Recorders
    <3>1. \A i \in 1..Len(sealed) : sealed[i].by \in Recorders
      BY SealedFacts DEF EvidenceInv, Envelopes
    <3> QED BY <1>9, <1>10, <3>1, Zenon
  <2>2. AckedOK
    BY DEF EvidenceInv
  <2> QED BY <1>1, <1>16, <2>1, <2>2 DEF AckedOK
<1>18. RecordingOK(r)'
  <2>1. /\ job.pc # "sync payload" /\ job.pc \notin AtEnvelope \union AtRef
        /\ job.pc # "sync envelope" /\ job.pc \notin AtRef
        /\ job.pc # "sync ref" /\ job.pc # "check"
    BY <1>6, Zenon DEF AtEnvelope, AtRef
  <2>2. /\ id \in 1..Len(sealed')
        /\ sealed'[id] = [by |-> r, boot |-> boots', sequence |-> job.next,
                          payload |-> job.payload, relation |-> job.relation]
    BY <1>1, <1>2, <1>6, Zenon DEF e
  <2>3. job.relation \in acked' \union {0} /\ PayloadName(job.payload) \in durable'
    BY <1>1, <1>4, <1>6, Zenon
  <2> QED BY <1>6, <1>8, <2>1, <2>2, <2>3, Zenon DEF RecordingOK
<1>19. ASSUME NEW q \in Recorders, q # r PROVE RecordingOK(q)'
  <2>1. /\ rec'[q] = rec[q] /\ boots' = boots /\ linked \subseteq linked'
        /\ durable \subseteq durable' /\ acked \subseteq acked'
    BY <1>1, <1>8, <1>19, Zenon
  <2> QED BY <1>2, <1>14, <2>1, OthersStay, Zenon
<1> QED BY <1>11, <1>12, <1>15, <1>17, <1>18, <1>19, Zenon DEF EvidenceInv

\* Record ends: evidence that can be read is acknowledged, and the sequence goes on.
LEMMA AckedInv ==
    ASSUME EvidenceInv, NEW r \in Recorders, rec[r].pc = "check",
           rec' = [rec EXCEPT ![r] = Resting(rec[r].next + 1)],
           acked' = acked \union {rec[r].id}, UNCHANGED <<linked, durable, sealed, boots>>
    PROVE  EvidenceInv'
<1> DEFINE c == rec[r]
           id == c.id
           job == Resting(c.next + 1)
<1>1. c \in Recordings /\ RecordingOK(r)
  <2>1. c.pc # "idle"
    BY Zenon
  <2> QED BY <2>1, InRecord, Zenon DEF EvidenceInv
<1>2. c.next \in Nat \ {0}
  BY <1>1, Zenon DEF Recordings
<1>3. /\ id \in 1..Len(sealed) /\ RefName(id) \in durable
      /\ sealed[id].by = r /\ sealed[id].boot = boots /\ sealed[id].sequence = c.next
  <2>1. c.pc \in HasSealed
    BY Zenon DEF HasSealed, AtRef
  <2>2. /\ id \in 1..Len(sealed) /\ RefName(id) \in durable
        /\ sealed[id] = [by |-> r, boot |-> boots, sequence |-> c.next,
                         payload |-> c.payload, relation |-> c.relation]
    BY <1>1, <2>1, Zenon DEF RecordingOK
  <2> QED BY <2>2
<1>4. job.pc = "idle" /\ job.next = c.next + 1 /\ job \in Idles
  BY <1>2 DEF Resting, Idles
<1> HIDE DEF job
<1>5. /\ rec' \in [Recorders -> Idles \union Recordings]
      /\ rec'[r] = job
      /\ \A q \in Recorders : q # r => rec'[q] = rec[q]
  BY <1>4, RecMoves, Zenon DEF EvidenceInv, job
<1>6. EvidenceTypes'
  BY <1>3, <1>5, Zenon DEF EvidenceInv, EvidenceTypes
<1>7. RelationsKnown'
  BY Zenon DEF EvidenceInv, RelationsKnown
<1>8. getEvidence' = getEvidence
  BY EvidenceNow, Zenon
<1>9. Closed'
  BY <1>8, Zenon DEF EvidenceInv, Closed
<1>10. AckedOK'
  <2>1. \A i \in acked : /\ sealed[i].by \in Recorders
                         /\ sealed[i].sequence \in Nat
    <3>1. \A i \in 1..Len(sealed) : sealed[i].by \in Recorders /\ sealed[i].sequence \in Nat
      BY SealedFacts, Zenon DEF EvidenceInv, Envelopes
    <3> QED BY <3>1, Zenon DEF EvidenceInv, EvidenceTypes
  <2>2. AckedOK
    BY DEF EvidenceInv
  <2>3. \A q \in Recorders : rec[q].next \in Nat
    <3>1. \A q \in Recorders : rec[q] \in Idles \union Recordings
      BY Zenon DEF EvidenceInv, EvidenceTypes
    <3> QED BY <3>1, Zenon DEF Idles, Recordings
  <2>4. \A q \in Recorders : rec'[q].next = IF q = r THEN rec[q].next + 1 ELSE rec[q].next
    BY <1>4, <1>5, Zenon
  <2>5. \A i \in acked' : RefName(i) \in durable
    BY <1>3, <2>2, Zenon DEF AckedOK
  <2>6. ASSUME NEW i \in acked', sealed[i].boot = boots
        PROVE  sealed[i].sequence < rec'[sealed[i].by].next
    <3>1. CASE i \in acked
      <4>1. sealed[i].sequence < rec[sealed[i].by].next
        BY <2>2, <2>6, <3>1, Zenon DEF AckedOK
      <4>2. sealed[i].by \in Recorders /\ sealed[i].sequence \in Nat
        BY <2>1, <3>1
      <4> DEFINE q == sealed[i].by
                 n == sealed[i].sequence
      <4>3. q \in Recorders /\ n \in Nat /\ n < rec[q].next
        BY <4>1, <4>2
      <4> HIDE DEF q, n
      <4>4. n < rec'[q].next
        BY <2>3, <2>4, <4>3
      <4> QED BY <4>4 DEF q, n
    <3>2. CASE i = id
      <4>1. rec'[r].next = c.next + 1 /\ c.next < c.next + 1
        BY <1>2, <2>4
      <4> QED BY <1>3, <3>2, <4>1, Zenon
    <3> QED BY <3>1, <3>2, Zenon
  <2>7. \A i \in acked : <<sealed[i].by, sealed[i].boot, sealed[i].sequence>> # <<r, boots, c.next>>
    <3> SUFFICES ASSUME NEW i \in acked, sealed[i].by = r, sealed[i].boot = boots,
                        sealed[i].sequence = c.next
                 PROVE  FALSE
      BY SMT
    <3>1. c.next < c.next
      BY <2>2, Zenon DEF AckedOK
    <3> QED BY <1>2, <3>1
  <2>8. ASSUME NEW i \in acked', NEW j \in acked', i # j
        PROVE  <<sealed[i].by, sealed[i].boot, sealed[i].sequence>> #
               <<sealed[j].by, sealed[j].boot, sealed[j].sequence>>
    <3>1. i \in acked \/ j \in acked
      BY <2>8, Zenon
    <3> QED BY <1>3, <2>2, <2>7, <2>8, <3>1 DEF AckedOK
  <2>9. ASSUME NEW q \in Recorders, NEW n \in 1..(rec'[q].next - 1)
        PROVE  \E i \in acked' : sealed[i].by = q /\ sealed[i].boot = boots /\ sealed[i].sequence = n
    <3>1. n \in 1..(rec[q].next - 1) \/ (q = r /\ n = c.next)
      BY <1>2, <2>3, <2>4
    <3> QED BY <1>3, <2>2, <3>1 DEF AckedOK
  <2> QED BY <2>5, <2>6, <2>8, <2>9 DEF AckedOK
<1>11. SealedGrows
  BY SealedFacts DEF EvidenceInv, SealedGrows
<1>12. RecordingOK(r)'
  BY <1>4, <1>5, Zenon DEF RecordingOK
<1>13. ASSUME NEW q \in Recorders, q # r PROVE RecordingOK(q)'
  <2>1. /\ rec'[q] = rec[q] /\ boots' = boots /\ linked \subseteq linked'
        /\ durable \subseteq durable' /\ acked \subseteq acked'
        /\ \A i \in acked \union {0} : getEvidence[1][i] => getEvidence'[1][i]
    BY <1>5, <1>8, <1>13, Zenon
  <2> QED BY <1>11, <2>1, OthersStay, Zenon
<1> QED BY <1>6, <1>7, <1>9, <1>10, <1>12, <1>13, Zenon DEF EvidenceInv

\* Record returns, or fails because the evidence cannot be read back.
LEMMA CommitRecordInv ==
    ASSUME EvidenceInv, NEW r \in Recorders, CommitRecord(r)
    PROVE  EvidenceInv'
<1>1. CASE GetEvidence(rec[r].id)
  BY <1>1, AckedInv, Zenon DEF CommitRecord
<1>2. CASE ~ GetEvidence(rec[r].id)
  <2>1. rec[r].next + 0 = rec[r].next
    <3>1. rec[r] \in Idles \union Recordings
      BY Zenon DEF EvidenceInv, EvidenceTypes
    <3>2. rec[r].next \in Nat
      BY <3>1, Zenon DEF Idles, Recordings
    <3> QED BY <3>2
  <2>2. /\ rec' = [rec EXCEPT ![r] = Resting(rec[r].next + 0)]
        /\ UNCHANGED <<linked, durable, sealed, acked, boots>>
    BY <1>2, Zenon DEF CommitRecord
  <2> QED BY <2>1, <2>2, RestsInv, Zenon
<1> QED BY <1>1, <1>2

\* A crash leaves what is durable, and no recorder in a call.
LEMMA CrashInv ==
    ASSUME EvidenceInv, CrashMachine
    PROVE  EvidenceInv'
<1>1. /\ UNCHANGED <<sealed, acked>> /\ boots' = boots + 1 /\ durable' = linked'
      /\ linked' \subseteq linked /\ durable \subseteq linked'
      /\ rec' = [r \in Recorders |-> Resting(1)]
  BY Zenon DEF CrashMachine, EvidenceInv, EvidenceTypes
<1>2. Resting(1) \in Idles /\ Resting(1).pc = "idle" /\ Resting(1).next = 1
  BY DEF Resting, Idles
<1>3. \A r \in Recorders : rec'[r] = Resting(1)
  BY <1>1, Zenon
<1>4. boots \in Nat /\ boots' \in Nat /\ boots < boots'
  BY <1>1 DEF EvidenceInv, EvidenceTypes
<1>5. EvidenceTypes'
  BY <1>1, <1>2, <1>4 DEF EvidenceInv, EvidenceTypes
<1>6. RelationsKnown'
  <2>1. \A i \in 1..Len(sealed) : sealed[i].boot \in Nat
    BY SealedFacts, Zenon DEF EvidenceInv, Envelopes
  <2> QED BY <1>1, <1>4, <2>1 DEF EvidenceInv, RelationsKnown
<1>7. Backward(sealed') /\ SealedGrows
  BY <1>1, SealedFacts DEF EvidenceInv, RelationsKnown, Backward, SealedGrows
<1>8. \A i \in acked \union {0} : getEvidence[1][i] => getEvidence'[1][i]
  <2>1. \A i \in acked \union {0} : \A d \in 0..(MaxRelationDepth + 1) :
           getEvidence[d][i] => getEvidence'[d][i]
    BY <1>1, <1>7, ResolvesStill, Zenon
  <2>2. 1 \in 0..(MaxRelationDepth + 1)
    BY EvidenceConstants
  <2> QED BY <2>1, <2>2
<1>9. Closed'
  <2> SUFFICES ASSUME NEW i \in Nat, RefName(i) \in linked'
               PROVE  /\ i \in 1..Len(sealed)
                      /\ EnvelopeName(i) \in durable'
                      /\ PayloadName(sealed[i].payload) \in durable'
                      /\ getEvidence'[1][sealed[i].relation]
    BY <1>1, Zenon DEF Closed
  <2>1. Referable(i)
    BY <1>1, Zenon DEF EvidenceInv, Closed, Referable
  <2>2. sealed[i].relation \in acked \union {0}
    BY <2>1, Zenon DEF EvidenceInv, RelationsKnown, Referable
  <2> QED BY <1>1, <1>8, <2>1, <2>2, Zenon DEF Referable
<1>10. AckedOK'
  <2>1. AckedOK
    BY DEF EvidenceInv
  <2>2. \A i \in acked : sealed[i].boot # boots'
    <3>1. \A i \in 1..Len(sealed) : sealed[i].boot \in Nat /\ sealed[i].boot <= boots
      BY SealedFacts, Zenon DEF EvidenceInv, Envelopes, RelationsKnown
    <3>2. acked \subseteq 1..Len(sealed)
      BY Zenon DEF EvidenceInv, EvidenceTypes
    <3> QED BY <1>4, <3>1, <3>2
  <2>3. \A r \in Recorders : 1..(rec'[r].next - 1) = {}
    BY <1>2, <1>3
  <2> QED BY <1>1, <2>1, <2>2, <2>3 DEF AckedOK
<1>11. \A r \in Recorders : RecordingOK(r)'
  BY <1>2, <1>3, Zenon DEF RecordingOK
<1> QED BY <1>5, <1>6, <1>9, <1>10, <1>11, Zenon DEF EvidenceInv

\* The invariant holds of an empty store.
LEMMA EvidenceInvInit ==
    ASSUME EvidenceInit
    PROVE  EvidenceInv
<1>1. /\ linked = {} /\ durable = {} /\ acked = {} /\ boots = 0
      /\ rec = [r \in Recorders |-> Resting(1)]
  BY DEF EvidenceInit
<1>2. Resting(1) \in Idles /\ Resting(1).pc = "idle" /\ Resting(1).next = 1
  BY DEF Resting, Idles
<1>3. \A r \in Recorders : rec[r] = Resting(1)
  BY <1>1, Zenon
<1>4. sealed \in Seq(Envelopes) /\ Len(sealed) = 0
  BY DEF EvidenceInit
<1>5. EvidenceTypes
  BY <1>1, <1>2, <1>4 DEF EvidenceTypes
<1>6. RelationsKnown
  BY <1>4 DEF RelationsKnown
<1>7. Closed
  BY <1>1, Zenon DEF Closed
<1>8. AckedOK
  <2>1. \A r \in Recorders : 1..(rec[r].next - 1) = {}
    BY <1>2, <1>3
  <2> QED BY <1>1, <2>1, Zenon DEF AckedOK
<1>9. \A r \in Recorders : RecordingOK(r)
  BY <1>2, <1>3, Zenon DEF RecordingOK
<1> QED BY <1>5, <1>6, <1>7, <1>8, <1>9, Zenon DEF EvidenceInv

\* Every step preserves it.
LEMMA EvidenceInvNext ==
    ASSUME EvidenceInv, [EvidenceNext]_evidenceVars
    PROVE  EvidenceInv'
<1>1. CASE UNCHANGED evidenceVars
  <2>1. /\ linked' = linked /\ durable' = durable /\ sealed' = sealed /\ rec' = rec
        /\ acked' = acked /\ boots' = boots
    BY <1>1, Zenon DEF evidenceVars
  <2>2. getEvidence' = getEvidence
    BY <2>1, EvidenceNow, Zenon
  <2>3. EvidenceTypes' /\ RelationsKnown'
    BY <2>1, Zenon DEF EvidenceInv, EvidenceTypes, RelationsKnown
  <2>6. AckedOK'
    BY <2>1 DEF EvidenceInv, AckedOK
  <2>4. Closed'
    BY <2>1, <2>2, Zenon DEF EvidenceInv, Closed
  <2>5. \A r \in Recorders : RecordingOK(r)'
    BY <2>1, <2>2, Zenon DEF EvidenceInv, RecordingOK
  <2> QED BY <2>3, <2>4, <2>5, <2>6, Zenon DEF EvidenceInv
<1>2. ASSUME NEW r \in Recorders, FailRecord(r)
      PROVE  EvidenceInv'
  BY <1>2, RestsInv, Zenon DEF FailRecord
<1>3. CASE EvidenceNext
  BY <1>2, <1>3, RecordInv, PutInv, LinkInv, SyncInv, SealInv, PutEvidenceInv, CommitRecordInv,
     CrashInv, Zenon DEF EvidenceNext
<1> QED BY <1>1, <1>3, Zenon

\* So it always holds.
LEMMA EvidenceInvariant == EvidenceSpec => []EvidenceInv
BY EvidenceInvInit, EvidenceInvNext, PTL DEF EvidenceSpec

\* A reference that can be seen leads to an envelope, a payload and relations that
\* can be read, whatever processes fail and whenever the machine crashes, for any
\* number of recorders and of crashes: putDigestBytes, linkObject and the syncs
\* come in an order that never leaves a reference without what it leads to.
THEOREM ReferencesResolve == EvidenceSpec => []VisibleEvidenceResolves
<1>1. ASSUME EvidenceInv
      PROVE  VisibleEvidenceResolves
  <2> SUFFICES ASSUME NEW i \in DOMAIN sealed, RefName(i) \in linked
               PROVE  getEvidence[0][i]
    BY Zenon DEF VisibleEvidenceResolves, GetEvidence
  <2>1. i \in 1..Len(sealed) /\ i \in Nat /\ Len(sealed) \in Nat
    BY <1>1, SealedFacts DEF EvidenceInv
  <2>2. /\ EnvelopeName(i) \in linked /\ PayloadName(sealed[i].payload) \in linked
        /\ getEvidence[1][sealed[i].relation]
    BY <1>1, <2>1, Zenon DEF EvidenceInv, Closed, EvidenceTypes
  <2>3. i \in Readable(sealed, linked) /\ Relations(sealed)[i] = sealed[i].relation
    BY <2>1, <2>2, Zenon DEF Readable, Relations
  <2>4. Backward(sealed)
    BY <1>1, <2>1, Zenon DEF EvidenceInv, RelationsKnown, Backward
  <2>5. Steps(getEvidence, Len(sealed), MaxRelationDepth, Readable(sealed, linked), Relations(sealed))
    BY <2>4, EvidenceAt, EvidenceNow, Zenon
  <2>6. i \in 0..Len(sealed) /\ 0 \in 0..(MaxRelationDepth + 1) /\ 0 <= MaxRelationDepth /\ 0 + 1 = 1
    BY <2>1, EvidenceConstants
  <2> QED BY <2>2, <2>3, <2>5, <2>6, Zenon DEF Steps, FollowsStep
<1> QED BY <1>1, EvidenceInvariant, PTL

\* What Record returned is durable for good, no two pieces of it have the same
\* recorder, attempt and sequence number, and the sequence numbers of an attempt
\* have no gap below the next one, whatever failures came in between: Record counts
\* on only after PutEvidence returned, and a crash begins a new attempt.
THEOREM AcknowledgedStays == EvidenceSpec => []AckedEvidenceComplete
<1>1. ASSUME EvidenceInv
      PROVE  AckedEvidenceComplete
  <2>1. \A r \in Recorders : rec[r].pc # "idle" => rec[r].valid
    <3> SUFFICES ASSUME NEW r \in Recorders, rec[r].pc # "idle" PROVE rec[r].valid
      OBVIOUS
    <3>1. rec[r] \in Recordings
      BY <1>1, InRecord, Zenon
    <3>2. rec[r].valid \in {TRUE}
      BY <3>1, Zenon DEF Recordings
    <3> QED BY <3>2, Zenon
  <2> QED BY <1>1, <2>1, Zenon DEF EvidenceInv, AckedOK, AckedEvidenceComplete
<1> QED BY <1>1, EvidenceInvariant, PTL

=============================================================================
