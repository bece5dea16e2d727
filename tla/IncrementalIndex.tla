--------------------------- MODULE IncrementalIndex ---------------------------
(***************************************************************************)
(* `codebase index` and `codebase check` against a working tree that goes  *)
(* on changing: cli/main.py index and check, repository/scanner.py scan,    *)
(* analyzer/registry.py analyze_repository_incremental, query/drift.py.     *)
(*                                                                         *)
(*   index   list and fingerprint every file, load the last snapshot,      *)
(*           detect the source roots, analyse each file or reuse its       *)
(*           module from the snapshot, save                                *)
(*   check   load the last snapshot, list and fingerprint every file,      *)
(*           compare                                                       *)
(*                                                                         *)
(* A file is read up to three times in an index (stat, hash, parse), the   *)
(* editor writes in between, and several indexes may run at once.  Every   *)
(* file here is Python source in one directory.                            *)
(***************************************************************************)
EXTENDS Integers, FiniteSets, FiniteSetsExt

CONSTANTS
    Files,         \* paths, numbered in the order the walk visits them
    Contents,      \* what a file can hold: records [text, size]
    MaxFileSize,   \* SecurityConfig.max_file_size: larger files are not hashed
    SourceRoots,   \* values detect_source_roots can return
    Versions,      \* values of PYTHON_MODULE_SCHEMA_VERSION, in order of release
    Procs,         \* processes that run index or check
    MaxEdits,      \* bound: changes of the tree, its roots or the installed program
    MaxJobs        \* bound: commands started

ASSUME IncrementalAssumption ==
    /\ Files \subseteq Nat /\ IsFiniteSet(Files)
    /\ \A c \in Contents : c.size \in Nat
    /\ MaxFileSize \in Nat
    /\ Versions \subseteq Nat /\ 1 \in Versions
    /\ SourceRoots # {}
    /\ MaxEdits \in Nat /\ MaxJobs \in Nat

VARIABLES
    tree,      \* tree[f]: what f holds, or Absent
    mtime,     \* mtime[f]: the tick of f's last change
    now,       \* the tick of the file system's clock: coarse, so edits can share one
    config,    \* [roots, version]: the source roots in force and the installed analyzer
    versioned, \* the tree has a commit: a save replaces the last run whatever its time
    last,      \* the run latest_snapshot returns, or NoRun
    job,       \* job[p]: the command p runs
    edits, jobs, clock,   \* counted against the bounds; clock dates the scans
    past,      \* history: past[f], every [content, mtime] that f has had
    vanished   \* history: files a scan found gone between its stat and its read

treeVars == <<tree, mtime, now, edits, past>>
vars == <<treeVars, config, versioned, last, job, jobs, clock, vanished>>

Absent == [text |-> "absent", size |-> 0]
NoHash == [text |-> "no hash", size |-> 0]

ASSUME ContentsAssumption == Absent \notin Contents /\ NoHash \notin Contents

\* FileRecord: its hash strategy is METADATA_ONLY exactly when hash is NoHash.
\* seen is a history field: the content the record describes.
FileRecord == [size: Nat, mtime: Nat, hash: Contents \union {NoHash}, seen: Contents]

\* PythonModule: what was parsed, under which roots it was named, by which analyzer.
\* raced is a history field: f changed between the scan and the parse.
Module == [content: Contents \union {Absent}, roots: SourceRoots, version: Versions,
           raced: BOOLEAN]

Nothing == [f \in {} |-> f]
NoRun == [files |-> Nothing, modules |-> Nothing, version |-> 0, at |-> 0]

IsRun(r) ==
    /\ DOMAIN r.files \subseteq Files /\ DOMAIN r.modules \subseteq Files
    /\ \A f \in DOMAIN r.files : r.files[f] \in FileRecord
    /\ \A f \in DOMAIN r.modules : r.modules[f] \in Module

Idle == [pc |-> "idle", kind |-> "check", todo |-> {}, run |-> NoRun, prev |-> NoRun,
         roots |-> "undetected", touched |-> {}, quiet |-> TRUE]

IndexTypeOK ==
    /\ tree \in [Files -> Contents \union {Absent}]
    /\ mtime \in [Files -> 0..now] /\ now \in 0..MaxEdits
    /\ config \in [roots: SourceRoots, version: Versions]
    /\ versioned \in BOOLEAN
    /\ IsRun(last)
    /\ \A p \in Procs :
          /\ job[p].pc \in {"idle", "stat", "read", "load", "detect", "analyze", "checked"}
          /\ job[p].todo \subseteq Files
          /\ IsRun(job[p].run) /\ IsRun(job[p].prev)
    /\ vanished \subseteq Files
    /\ edits \in 0..MaxEdits /\ jobs \in 0..MaxJobs /\ clock \in Nat

Init ==
    /\ tree \in [Files -> Contents \union {Absent}]
    /\ mtime = [f \in Files |-> 0]
    /\ now = 0
    /\ config \in [roots: SourceRoots, version: {1}]
    /\ versioned \in BOOLEAN
    /\ last = NoRun
    /\ job = [p \in Procs |-> Idle]
    /\ edits = 0 /\ jobs = 0 /\ clock = 0
    /\ vanished = {}
    /\ past = [f \in Files |-> {[content |-> tree[f], mtime |-> 0]}]

-----------------------------------------------------------------------------
(* The tree, its configuration and the installed program.                  *)

Present == {f \in Files : tree[f] # Absent}

\* The next file in the order of the walk.
NextFile(S) == Min(S)

\* Someone writes, replaces or deletes a file, in this tick or a later one.
Edit(f) ==
    /\ edits < MaxEdits
    /\ edits' = edits + 1
    /\ \E c \in (Contents \union {Absent}) \ {tree[f]}, t \in {now, now + 1} :
          /\ tree' = [tree EXCEPT ![f] = c]
          /\ now' = t
          /\ mtime' = [mtime EXCEPT ![f] = t]
          /\ past' = [past EXCEPT ![f] = @ \union {[content |-> c, mtime |-> t]}]
    /\ job' = [p \in Procs |->
                 IF job[p].pc = "idle" THEN job[p]
                 ELSE [job[p] EXCEPT !.quiet = FALSE,
                                     !.touched = @ \union ({f} \intersect DOMAIN job[p].run.files)]]
    /\ UNCHANGED <<config, versioned, last, jobs, clock, vanished>>

\* pyproject.toml is edited, or src/ gets its first package.
ChangeRoots ==
    /\ edits < MaxEdits
    /\ edits' = edits + 1
    /\ \E r \in SourceRoots \ {config.roots} : config' = [config EXCEPT !.roots = r]
    /\ UNCHANGED <<tree, mtime, now, past, versioned, last, job, jobs, clock, vanished>>

\* A release with another fact shape is installed; running processes keep theirs.
Upgrade ==
    /\ edits < MaxEdits
    /\ edits' = edits + 1
    /\ config.version + 1 \in Versions
    /\ config' = [config EXCEPT !.version = @ + 1]
    /\ UNCHANGED <<tree, mtime, now, past, versioned, last, job, jobs, clock, vanished>>

-----------------------------------------------------------------------------
(* RepositoryScanner.scan                                                  *)

With(f, x, g) == [h \in DOMAIN g \union {f} |-> IF h = f THEN x ELSE g[h]]

\* os.walk lists the directory. check has loaded its snapshot by then (exiting if
\* there is none); index loads it after the scan.
Start(p) ==
    /\ job[p].pc \in {"idle", "checked"}
    /\ jobs < MaxJobs
    /\ jobs' = jobs + 1
    /\ \E kind \in {"index", "check"} :
          /\ kind = "check" => last # NoRun
          /\ job' = [job EXCEPT ![p] =
                [Idle EXCEPT !.pc = "stat", !.kind = kind, !.todo = Present,
                             !.run = [NoRun EXCEPT !.version = config.version],
                             !.prev = IF kind = "check" THEN last ELSE NoRun]]
    /\ UNCHANGED <<treeVars, config, versioned, last, clock, vanished>>

\* Fault: a file that is gone is recorded like one that is too large.
StatKeepsMissing(p) ==
    /\ job[p].pc = "stat"
    /\ job[p].todo # {}
    /\ LET f == NextFile(job[p].todo)
           rec == [size |-> tree[f].size, mtime |-> mtime[f], hash |-> NoHash, seen |-> tree[f]]
           hashed == tree[f].size <= MaxFileSize
       IN  job' = [job EXCEPT
               ![p].run.files = With(f, rec, @),
               ![p].todo = IF tree[f] # Absent /\ hashed THEN @ ELSE @ \ {f},
               ![p].pc = IF tree[f] # Absent /\ hashed THEN "read" ELSE "stat"]
    /\ UNCHANGED <<treeVars, config, versioned, last, jobs, clock, vanished>>

\* stat of the next listed file: one that is gone is skipped, one that is too large
\* gets a METADATA_ONLY record at once.
Stat(p) ==
    /\ job[p].pc = "stat"
    /\ job[p].todo # {}
    /\ LET f == NextFile(job[p].todo)
           rec == [size |-> tree[f].size, mtime |-> mtime[f], hash |-> NoHash, seen |-> tree[f]]
           hashed == tree[f].size <= MaxFileSize
       IN  job' = [job EXCEPT
               ![p].run.files = IF tree[f] = Absent THEN @ ELSE With(f, rec, @),
               ![p].todo = IF tree[f] # Absent /\ hashed THEN @ ELSE @ \ {f},
               ![p].pc = IF tree[f] # Absent /\ hashed THEN "read" ELSE "stat"]
    /\ UNCHANGED <<treeVars, config, versioned, last, jobs, clock, vanished>>

\* _fingerprint: the bytes are hashed as they are now; a file that is gone since its
\* stat keeps a METADATA_ONLY record.
Read(p) ==
    /\ job[p].pc = "read"
    /\ LET f == NextFile(job[p].todo) IN
       job' = [job EXCEPT
           ![p].run.files[f] = IF tree[f] = Absent THEN @
                               ELSE [@ EXCEPT !.hash = tree[f], !.seen = tree[f]],
           ![p].touched = IF tree[f] = Absent THEN @ ELSE @ \ {f},
           ![p].todo = @ \ {f},
           ![p].pc = "stat"]
    /\ vanished' = vanished \union {f \in {NextFile(job[p].todo)} : tree[f] = Absent}
    /\ UNCHANGED <<treeVars, config, versioned, last, jobs, clock>>

\* The scan is dated when the walk is over.
FinishScan(p) ==
    /\ job[p].pc = "stat"
    /\ job[p].todo = {}
    /\ clock' = clock + 1
    /\ job' = [job EXCEPT ![p].run.at = clock + 1,
                          ![p].pc = IF job[p].kind = "index" THEN "load" ELSE "checked"]
    /\ UNCHANGED <<treeVars, config, versioned, last, jobs, vanished>>

-----------------------------------------------------------------------------
(* analyze_repository_incremental                                          *)

\* store.latest_snapshot
Load(p) ==
    /\ job[p].pc = "load"
    /\ job' = [job EXCEPT ![p].prev = last, ![p].pc = "detect"]
    /\ UNCHANGED <<treeVars, config, versioned, last, jobs, clock, vanished>>

DetectSourceRoots(p) ==
    /\ job[p].pc = "detect"
    /\ job' = [job EXCEPT ![p].roots = config.roots,
                          ![p].todo = DOMAIN job[p].run.files,
                          ![p].pc = "analyze"]
    /\ UNCHANGED <<treeVars, config, versioned, last, jobs, clock, vanished>>

\* Fault: a record without a hash matches by size and time even a record that has one.
MatchesByMetadata(previous, current) ==
    previous.size = current.size /\ previous.mtime = current.mtime

\* Fault: the size alone tells unhashed files apart.
MatchesBySize(previous, current) ==
    IF previous.hash # NoHash /\ current.hash # NoHash
       THEN previous.hash = current.hash
       ELSE previous.size = current.size

file_fingerprint_matches(previous, current) ==
    IF previous.hash # NoHash /\ current.hash # NoHash
       THEN previous.hash = current.hash
       ELSE previous.size = current.size /\ previous.mtime = current.mtime

\* Fault: modules of another analyzer are reused.
ReusableWhateverVersion(j) == DOMAIN j.prev.modules \intersect DOMAIN j.prev.files

\* _reusable_modules_by_path
Reusable(j) ==
    IF j.prev.version # j.run.version THEN {}
    ELSE DOMAIN j.prev.modules \intersect DOMAIN j.prev.files

\* The next file's module comes from the last run if its fingerprint matches;
\* otherwise the file is read and parsed now (one that is gone gives a module with
\* a parse_error).
Analyze(p) ==
    /\ job[p].pc = "analyze"
    /\ job[p].todo # {}
    /\ LET j == job[p]
           f == NextFile(j.todo)
           reuse == /\ f \in Reusable(j)
                    /\ file_fingerprint_matches(j.prev.files[f], j.run.files[f])
           module == IF reuse THEN j.prev.modules[f]
                     ELSE [content |-> tree[f], roots |-> j.roots,
                           version |-> j.run.version, raced |-> f \in j.touched]
       IN  job' = [job EXCEPT ![p].run.modules = With(f, module, @),
                              ![p].todo = @ \ {f}]
    /\ UNCHANGED <<treeVars, config, versioned, last, jobs, clock, vanished>>

\* IndexStore.save, one step (see RunRegistry). Without a commit the runs
\* accumulate and the latest by scan time is the one readers get.
Save(p) ==
    /\ job[p].pc = "analyze"
    /\ job[p].todo = {}
    /\ last' = IF versioned \/ last.at < job[p].run.at THEN job[p].run ELSE last
    /\ job' = [job EXCEPT ![p] = Idle]
    /\ UNCHANGED <<treeVars, config, versioned, jobs, clock, vanished>>

\* The process is killed. Nothing has been stored.
Crash(p) ==
    /\ job[p].pc \notin {"idle", "checked"}
    /\ job' = [job EXCEPT ![p] = Idle]
    /\ UNCHANGED <<treeVars, config, versioned, last, jobs, clock, vanished>>

Next ==
    \/ \E f \in Files : Edit(f)
    \/ ChangeRoots \/ Upgrade
    \/ \E p \in Procs :
          \/ Start(p) \/ Stat(p) \/ Read(p) \/ FinishScan(p) \/ Load(p)
          \/ DetectSourceRoots(p) \/ Analyze(p) \/ Save(p) \/ Crash(p)

Spec == Init /\ [][Next]_vars

-----------------------------------------------------------------------------
(* detect_index_drift and the properties.                                  *)

\* Fault: only files of the current tree are looked at.
NoRemovalReported(previous, current) ==
    \/ DOMAIN current \ DOMAIN previous # {}
    \/ \E f \in DOMAIN current \intersect DOMAIN previous :
          ~file_fingerprint_matches(previous[f], current[f])

has_drift(previous, current) ==
    \/ DOMAIN current # DOMAIN previous
    \/ \E f \in DOMAIN current \intersect DOMAIN previous :
          ~file_fingerprint_matches(previous[f], current[f])

\* What is compared of a record without a hash may not tell f's contents apart: f is
\* too large and had two contents in one tick, or was gone when it was to be hashed.
UnhashedRewrite(f) ==
    \/ f \in vanished
    \/ \E x, y \in past[f] :
          /\ x.content # y.content /\ y.content # Absent
          /\ x.content.size > MaxFileSize /\ x.mtime = y.mtime

\* The module stored for a file was parsed from the content its fingerprint
\* describes, through any chain of reuse, unless the file was written between the
\* scan and the parse that made the module, or rewritten while it had no hash to show
\* it (registry.py:107-126, models.py:227-250).
ModuleFitsFingerprint ==
    \A f \in DOMAIN last.files :
        \/ last.modules[f].content = last.files[f].seen
        \/ last.modules[f].raced
        \/ UnhashedRewrite(f)

\* What p is about to save.
Analyzed(p) == job[p].kind = "index" /\ job[p].pc = "analyze" /\ job[p].todo = {}

\* An index of a tree that stays still equals a full one: every file is in it, with
\* the module of its present content. A module of other content survives only if
\* the last run's parse raced an edit and the file is back to what that run had
\* fingerprinted (main.py:87-107, registry.py:80-135).
QuietIndexIsFull ==
    \A p \in Procs : Analyzed(p) /\ job[p].quiet =>
        /\ DOMAIN job[p].run.modules = Present
        /\ \A f \in Present :
              \/ job[p].run.modules[f].content = tree[f]
              \/ f \in DOMAIN job[p].prev.modules /\ job[p].prev.modules[f].raced
              \/ UnhashedRewrite(f)

\* Every module of a run was made by the analyzer the run is stamped with, even if
\* the program was upgraded while indexes were running (registry.py:93-98).
OneAnalyzerPerRun ==
    \A f \in DOMAIN last.modules : last.modules[f].version = last.version

\* check on a tree that stays still: no drift means the tree is what was indexed,
\* and drift means that some file is not, or was written again, or was written
\* between the stat and the read of the scan (drift.py:35-57, main.py:337-370).
DriftReportIsRight ==
    \A p \in Procs : job[p].kind = "check" /\ job[p].pc = "checked" /\ job[p].quiet =>
        LET then == job[p].prev.files
            drift == has_drift(then, job[p].run.files)
        IN  /\ ~drift =>
                 /\ Present = DOMAIN then
                 /\ \A f \in Present : tree[f] = then[f].seen \/ UnhashedRewrite(f)
            /\ drift =>
                 \/ Present # DOMAIN then
                 \/ \E f \in Present : \/ tree[f] # then[f].seen
                                         \/ mtime[f] # then[f].mtime
                                         \/ tree[f].size # then[f].size

\* The modules of an index are named by the source roots detected for it.
NamedByDetectedRoots ==
    \A p \in Procs : Analyzed(p) =>
        \A f \in DOMAIN job[p].run.modules : job[p].run.modules[f].roots = job[p].roots
=============================================================================
