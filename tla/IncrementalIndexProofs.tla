------------------------ MODULE IncrementalIndexProofs ------------------------
(***************************************************************************)
(* Proofs about IncrementalIndex, for any number of files, contents,       *)
(* processes, releases, edits and commands.                                *)
(*                                                                         *)
(* The argument: a record with a hash has the hash of what was seen, one   *)
(* without is of a file too large to hash or gone, so that two records     *)
(* that match were of one content, or of a file that Rewritten names       *)
(* (MatchMeansSame).  A module fits its record when it is made, unless the *)
(* file was touched since, and reuse carries it to a record that matches.  *)
(* While a command's tree is quiet its records are those of the tree.      *)
(* As in the other proofs the invariant of a command (JobOK) is stated of  *)
(* its record and of the values of the variables it depends on.            *)
(***************************************************************************)
EXTENDS IncrementalIndex, WellFoundedInduction, TLAPS

-----------------------------------------------------------------------------
(* The inductive invariant.                                                *)

Maps(R) == UNION {[D -> R] : D \in SUBSET Files}

RunType == [files : Maps(FileRecord), modules : Maps(Module), version : Nat, at : Nat]

Job == [pc : {"idle", "stat", "read", "load", "detect", "analyze", "checked"},
        kind : {"index", "check"}, todo : SUBSET Files, run : RunType, prev : RunType,
        roots : SourceRoots \union {"undetected"}, touched : SUBSET Files, quiet : BOOLEAN]

\* UnhashedRewrite, of the values of past and vanished.
Rewritten(f, ps, v) ==
    \/ f \in v
    \/ \E x, y \in ps[f] :
          /\ x.content # y.content /\ y.content # Absent
          /\ x.content.size > MaxFileSize /\ x.mtime = y.mtime

\* A record has the hash of what it describes, or is of a file too large or gone.
RecordOK(f, rec, ps, v) ==
    IF rec.hash # NoHash
    THEN rec.hash = rec.seen /\ rec.size <= MaxFileSize
    ELSE \/ f \in v
         \/ /\ rec.size > MaxFileSize /\ rec.size = rec.seen.size
            /\ [content |-> rec.seen, mtime |-> rec.mtime] \in ps[f]

ModuleOK(f, rec, mod, ver, ps, v) ==
    /\ mod.content = rec.seen \/ mod.raced \/ Rewritten(f, ps, v)
    /\ mod.version = ver

RunOK(r, ps, v) ==
    /\ r \in RunType
    /\ \A f \in DOMAIN r.files : RecordOK(f, r.files[f], ps, v)
    /\ DOMAIN r.modules \subseteq DOMAIN r.files
    /\ \A f \in DOMAIN r.modules : ModuleOK(f, r.files[f], r.modules[f], r.version, ps, v)

\* The file whose bytes are to be hashed next.
Pending(j, f) ==
    /\ j.pc = "read" /\ f = NextFile(j.todo)
    /\ j.run.files[f].hash = NoHash /\ j.run.files[f].size <= MaxFileSize

\* What a command has recorded of the files.
ScanOK(j, t, ps, v) ==
    /\ \A f \in DOMAIN j.run.files :
          /\ RecordOK(f, j.run.files[f], ps, v) \/ Pending(j, f)
          /\ f \in j.touched \/ t[f] = j.run.files[f].seen
    /\ j.pc = "read" => j.todo # {} /\ Pending(j, NextFile(j.todo))
                          /\ NextFile(j.todo) \in DOMAIN j.run.files
    /\ j.pc = "idle" => DOMAIN j.run.files = {}
    /\ j.pc # "idle" => j.run.version \in Versions

\* What it has made of them.
AnalysisOK(j, ps, v) ==
    /\ DOMAIN j.run.modules \subseteq DOMAIN j.run.files
    /\ \A f \in DOMAIN j.run.modules :
          /\ ModuleOK(f, j.run.files[f], j.run.modules[f], j.run.version, ps, v)
          /\ j.run.modules[f].raced =>
                \/ f \in j.touched
                \/ f \in DOMAIN j.prev.modules /\ j.prev.modules[f].raced
    /\ j.pc # "analyze" => DOMAIN j.run.modules = {}
    /\ j.pc = "analyze" => /\ DOMAIN j.run.files = DOMAIN j.run.modules \union j.todo
                           /\ j.roots \in SourceRoots

\* While nobody edits, the records are those of the tree.
QuietOK(j, t, mt) ==
    j.quiet /\ j.pc # "idle" =>
        /\ j.touched = {}
        /\ \A f \in DOMAIN j.run.files :
              j.run.files[f].size = t[f].size /\ j.run.files[f].mtime = mt[f]
        /\ DOMAIN j.run.files \union (IF j.pc \in {"stat", "read"} THEN j.todo ELSE {})
             = {f \in Files : t[f] # Absent}

JobOK(j, t, mt, ps, v) ==
    /\ j \in Job
    /\ RunOK(j.prev, ps, v)
    /\ ScanOK(j, t, ps, v)
    /\ AnalysisOK(j, ps, v)
    /\ QuietOK(j, t, mt)

TreeOK ==
    /\ tree \in [Files -> Contents \union {Absent}]
    /\ mtime \in [Files -> 0 .. now] /\ now \in Nat /\ now <= edits
    /\ past \in [Files -> SUBSET [content : Contents \union {Absent}, mtime : Nat]]
    /\ \A f \in Files : [content |-> tree[f], mtime |-> mtime[f]] \in past[f]
    /\ config \in [roots : SourceRoots, version : Versions]
    /\ versioned \in BOOLEAN
    /\ vanished \subseteq Files
    /\ edits \in 0 .. MaxEdits /\ jobs \in 0 .. MaxJobs /\ clock \in Nat

LastOK == RunOK(last, past, vanished) /\ DOMAIN last.modules = DOMAIN last.files

JobsOK ==
    /\ DOMAIN job = Procs
    /\ \A p \in Procs : JobOK(job[p], tree, mtime, past, vanished)

IInv == TreeOK /\ LastOK /\ JobsOK

-----------------------------------------------------------------------------
(* Facts about files and records.                                          *)

\* The walk's next file is one of those left.
LEMMA NextFileIn == ASSUME NEW S \in SUBSET Files, S # {} PROVE NextFile(S) \in S
<1>1. S \subseteq Nat
  BY IncrementalAssumption
<1> DEFINE Less == OpToRel(<, Nat)
<1>2. IsWellFoundedOn(Less, Nat)
  BY NatLessThanWellFounded
<1>3. PICK x \in S : \A y \in S : <<y, x>> \notin Less
  <2> HIDE DEF Less
  <2> QED  BY <1>1, <1>2, WFMin
<1>4. ASSUME NEW y \in S PROVE x <= y
  <2>1. x \in Nat /\ y \in Nat /\ <<y, x>> \notin Less
    BY <1>1, <1>3
  <2>2. ~(y < x)
    BY <2>1 DEF OpToRel
  <2> HIDE DEF Less
  <2> QED  BY <2>1, <2>2
<1> HIDE DEF Less
<1>5. \E m \in S : \A y \in S : m <= y
  BY <1>4
<1> QED  BY <1>5 DEF NextFile, Min

LEMMA InMaps == ASSUME NEW R, NEW D \in SUBSET Files, NEW g \in [D -> R] PROVE g \in Maps(R)
  BY DEF Maps

LEMMA MapFacts ==
    ASSUME NEW R, NEW g \in Maps(R)
    PROVE  /\ DOMAIN g \subseteq Files
           /\ \A f \in DOMAIN g : g[f] \in R
<1>1. PICK D \in SUBSET Files : g \in [D -> R]
  BY DEF Maps
<1> QED
  BY <1>1

\* A map with one more entry.
LEMMA WithIn ==
    ASSUME NEW R, NEW g \in Maps(R), NEW f \in Files, NEW x \in R
    PROVE  With(f, x, g) \in Maps(R)
<1>1. PICK D \in SUBSET Files : g \in [D -> R]
  BY DEF Maps
<1>2. D \union {f} \in SUBSET Files
  BY <1>1
<1>3. With(f, x, g) \in [D \union {f} -> R]
  BY <1>1 DEF With
<1> QED
  BY <1>2, <1>3, InMaps

LEMMA ExceptIn ==
    ASSUME NEW R, NEW g \in Maps(R), NEW f, NEW x \in R
    PROVE  [g EXCEPT ![f] = x] \in Maps(R)
<1>1. PICK D \in SUBSET Files : g \in [D -> R]
  BY DEF Maps
<1>2. [g EXCEPT ![f] = x] \in [D -> R]
  BY <1>1
<1> QED
  BY <1>1, <1>2, InMaps

LEMMA EmptyMap == ASSUME NEW R PROVE Nothing \in Maps(R) /\ DOMAIN Nothing = {}
<1>1. Nothing \in [{} -> R]
  BY DEF Nothing
<1> QED
  BY <1>1 DEF Maps

LEMMA NoRunType == NoRun \in RunType /\ DOMAIN NoRun.files = {} /\ DOMAIN NoRun.modules = {}
  BY EmptyMap DEF NoRun, RunType

\* The history only adds to what Rewritten and RecordOK allow.
LEMMA HistoryGrows ==
    ASSUME NEW ps, NEW ps2, \A f \in Files : ps[f] \subseteq ps2[f],
           NEW v, NEW v2, v \subseteq v2, NEW f \in Files
    PROVE  /\ Rewritten(f, ps, v) => Rewritten(f, ps2, v2)
           /\ \A rec : RecordOK(f, rec, ps, v) => RecordOK(f, rec, ps2, v2)
           /\ \A rec, mod, ver : ModuleOK(f, rec, mod, ver, ps, v) =>
                                   ModuleOK(f, rec, mod, ver, ps2, v2)
<1>1. Rewritten(f, ps, v) => Rewritten(f, ps2, v2)
  BY DEF Rewritten
<1>2. \A rec : RecordOK(f, rec, ps, v) => RecordOK(f, rec, ps2, v2)
  BY DEF RecordOK
<1> QED
  BY <1>1, <1>2 DEF ModuleOK

LEMMA RunKept ==
    ASSUME NEW ps, NEW ps2, \A f \in Files : ps[f] \subseteq ps2[f],
           NEW v, NEW v2, v \subseteq v2, NEW r, RunOK(r, ps, v)
    PROVE  RunOK(r, ps2, v2)
<1>1. r.files \in Maps(FileRecord) /\ r.modules \in Maps(Module)
  BY DEF RunOK, RunType
<1>2. DOMAIN r.files \subseteq Files /\ DOMAIN r.modules \subseteq Files
  BY <1>1, MapFacts
<1>3. \A f \in DOMAIN r.files : RecordOK(f, r.files[f], ps2, v2)
  BY <1>2, HistoryGrows DEF RunOK
<1>4. \A f \in DOMAIN r.modules : ModuleOK(f, r.files[f], r.modules[f], r.version, ps2, v2)
  BY <1>2, HistoryGrows DEF RunOK
<1> QED
  BY <1>3, <1>4 DEF RunOK

\* Two records that match describe one content, unless the file was Rewritten.
LEMMA MatchMeansSame ==
    ASSUME NEW f, NEW ps, NEW v, NEW x \in FileRecord, NEW y \in FileRecord,
           RecordOK(f, x, ps, v), RecordOK(f, y, ps, v), file_fingerprint_matches(x, y)
    PROVE  x.seen = y.seen \/ Rewritten(f, ps, v)
<1>0. x.size \in Nat /\ y.size \in Nat /\ MaxFileSize \in Nat /\ y.seen # Absent
  BY IncrementalAssumption, ContentsAssumption DEF FileRecord
<1>1. CASE x.hash # NoHash /\ y.hash # NoHash
  BY <1>1 DEF RecordOK, file_fingerprint_matches
<1>2. CASE ~(x.hash # NoHash /\ y.hash # NoHash) /\ f \notin v
  <2>1. x.size = y.size /\ x.mtime = y.mtime
    BY <1>2 DEF file_fingerprint_matches
  <2>2. x.hash = NoHash /\ y.hash = NoHash
    BY <1>0, <1>2, <2>1 DEF RecordOK
  <2>3. /\ x.seen.size > MaxFileSize
        /\ [content |-> x.seen, mtime |-> x.mtime] \in ps[f]
        /\ [content |-> y.seen, mtime |-> y.mtime] \in ps[f]
    BY <1>2, <2>2 DEF RecordOK
  <2> QED
    BY <1>0, <2>1, <2>3 DEF Rewritten
<1>3. CASE f \in v
  BY <1>3 DEF Rewritten
<1> QED
  BY <1>1, <1>2, <1>3

-----------------------------------------------------------------------------
(* What the steps of others leave of a command.                            *)

\* More history, the same tree.
LEMMA JobKept ==
    ASSUME NEW ps, NEW ps2, \A f \in Files : ps[f] \subseteq ps2[f],
           NEW v, NEW v2, v \subseteq v2, NEW t, NEW mt, NEW j, JobOK(j, t, mt, ps, v)
    PROVE  JobOK(j, t, mt, ps2, v2)
<1>1. j \in Job /\ j.run.files \in Maps(FileRecord) /\ j.run.modules \in Maps(Module)
  BY DEF JobOK, Job, RunType
<1>2. DOMAIN j.run.files \subseteq Files /\ DOMAIN j.run.modules \subseteq Files
  BY <1>1, MapFacts
<1>3. RunOK(j.prev, ps2, v2)
  BY RunKept DEF JobOK
<1>8. ASSUME NEW f \in Files
      PROVE  /\ \A rec : RecordOK(f, rec, ps, v) => RecordOK(f, rec, ps2, v2)
             /\ \A rec, mod, ver : ModuleOK(f, rec, mod, ver, ps, v) =>
                                     ModuleOK(f, rec, mod, ver, ps2, v2)
  BY HistoryGrows
<1>4. ScanOK(j, t, ps2, v2)
  <2>1. \A f \in DOMAIN j.run.files :
           RecordOK(f, j.run.files[f], ps, v) => RecordOK(f, j.run.files[f], ps2, v2)
    BY <1>2, <1>8
  <2> QED  BY <2>1 DEF JobOK, ScanOK
<1>5. AnalysisOK(j, ps2, v2)
  <2>1. \A f \in DOMAIN j.run.modules :
           ModuleOK(f, j.run.files[f], j.run.modules[f], j.run.version, ps, v)
             => ModuleOK(f, j.run.files[f], j.run.modules[f], j.run.version, ps2, v2)
    BY <1>2, <1>8
  <2> QED  BY <2>1 DEF JobOK, AnalysisOK
<1> QED
  BY <1>1, <1>3, <1>4, <1>5 DEF JobOK

\* f is edited while the command runs.
LEMMA EditKept ==
    ASSUME NEW f \in Files, NEW t, NEW t2, \A g \in Files \ {f} : t2[g] = t[g],
           NEW mt, NEW mt2, NEW ps, NEW v, NEW j, JobOK(j, t, mt, ps, v)
    PROVE  JobOK(IF j.pc = "idle" THEN j
                 ELSE [j EXCEPT !.quiet = FALSE,
                                !.touched = @ \union ({f} \intersect DOMAIN j.run.files)],
                 t2, mt2, ps, v)
<1>1. j \in Job /\ j.run.files \in Maps(FileRecord) /\ DOMAIN j.run.files \subseteq Files
  BY MapFacts DEF JobOK, Job, RunType
<1>2. CASE j.pc = "idle"
  <2>1. DOMAIN j.run.files = {}
    BY <1>2 DEF JobOK, ScanOK
  <2>2. ScanOK(j, t2, ps, v)
    BY <1>2, <2>1 DEF JobOK, ScanOK
  <2>3. QuietOK(j, t2, mt2)
    BY <1>2 DEF QuietOK
  <2> QED  BY <1>2, <2>2, <2>3 DEF JobOK
<1>3. CASE j.pc # "idle"
  <2> DEFINE x == [j EXCEPT !.quiet = FALSE,
                            !.touched = @ \union ({f} \intersect DOMAIN j.run.files)]
  <2>1. x.touched = j.touched \union ({f} \intersect DOMAIN j.run.files) /\ ~x.quiet
    BY <1>1 DEF Job
  <2>2. x.pc = j.pc /\ x.kind = j.kind /\ x.todo = j.todo /\ x.run = j.run
          /\ x.prev = j.prev /\ x.roots = j.roots
    BY <1>1 DEF Job
  <2>3. x \in Job
    BY <1>1 DEF Job
  <2> HIDE DEF x
  <2>4. ScanOK(x, t2, ps, v)
    <3>1. \A g \in DOMAIN j.run.files : g \in x.touched \/ t2[g] = j.run.files[g].seen
      BY <1>1, <2>1 DEF JobOK, ScanOK
    <3>2. \A g : Pending(j, g) => Pending(x, g)
      BY <2>2 DEF Pending
    <3> QED  BY <2>2, <3>1, <3>2 DEF JobOK, ScanOK
  <2>5. AnalysisOK(x, ps, v)
    BY <2>1, <2>2 DEF JobOK, AnalysisOK
  <2>6. QuietOK(x, t2, mt2)
    BY <2>1 DEF QuietOK
  <2>7. JobOK(x, t2, mt2, ps, v)
    BY <2>2, <2>3, <2>4, <2>5, <2>6 DEF JobOK
  <2> QED  BY <1>3, <2>7 DEF x
<1> QED
  BY <1>2, <1>3

LEMMA IdleOK == ASSUME NEW t, NEW mt, NEW ps, NEW v PROVE JobOK(Idle, t, mt, ps, v)
<1>1. Idle \in Job
  BY NoRunType DEF Idle, Job
<1>2. RunOK(NoRun, ps, v)
  BY NoRunType DEF RunOK
<1> QED
  BY <1>1, <1>2, NoRunType DEF JobOK, ScanOK, AnalysisOK, QuietOK, Idle, Pending

-----------------------------------------------------------------------------
(* The steps of a command, as lemmas about its record.                     *)

\* A new command.
LEMMA StartOK ==
    ASSUME NEW t, NEW mt, NEW ps, NEW v, NEW kind \in {"index", "check"},
           NEW prev, RunOK(prev, ps, v), NEW ver \in Versions
    PROVE  JobOK([Idle EXCEPT !.pc = "stat", !.kind = kind,
                              !.todo = {f \in Files : t[f] # Absent},
                              !.run = [NoRun EXCEPT !.version = ver], !.prev = prev],
                 t, mt, ps, v)
<1> DEFINE todo == {f \in Files : t[f] # Absent}
           run == [NoRun EXCEPT !.version = ver]
           x == [Idle EXCEPT !.pc = "stat", !.kind = kind, !.todo = todo, !.run = run,
                             !.prev = prev]
<1>1. run \in RunType /\ DOMAIN run.files = {} /\ DOMAIN run.modules = {}
        /\ run.version = ver
  <2>1. ver \in Nat
    BY IncrementalAssumption
  <2> QED  BY <2>1, NoRunType DEF NoRun, RunType
<1>2. todo \subseteq Files /\ prev \in RunType
  BY DEF RunOK
<1> HIDE DEF run
<1>3. /\ x.pc = "stat" /\ x.kind = kind /\ x.todo = todo /\ x.run = run /\ x.prev = prev
      /\ x.roots = "undetected" /\ x.touched = {} /\ x.quiet = TRUE
  BY DEF Idle
<1>4. x \in Job
  <2>1. todo \in SUBSET Files
    BY <1>2
  <2> HIDE DEF todo
  <2> QED  BY <1>1, <1>2, <2>1 DEF Idle, Job
<1>5. QuietOK(x, t, mt)
  BY <1>1, <1>3 DEF QuietOK
<1> HIDE DEF x
<1>6. JobOK(x, t, mt, ps, v)
  BY <1>1, <1>3, <1>4, <1>5 DEF JobOK, ScanOK, AnalysisOK, Pending
<1> QED
  BY <1>6 DEF x, run

\* The next file is stat'ed. x is the command after the step, as in the lemmas below.
LEMMA StatOK ==
    ASSUME NEW t \in [Files -> Contents \union {Absent}], NEW mt \in [Files -> Nat],
           NEW ps, \A g \in Files : [content |-> t[g], mtime |-> mt[g]] \in ps[g],
           NEW v, NEW j, JobOK(j, t, mt, ps, v), j.pc = "stat", j.todo # {},
           NEW x \in Job, NEW f, f = NextFile(j.todo),
           x.kind = j.kind, x.prev = j.prev, x.roots = j.roots, x.touched = j.touched,
           x.quiet = j.quiet, x.run.version = j.run.version, x.run.modules = j.run.modules,
           x.run.files = IF t[f] = Absent THEN j.run.files
                         ELSE With(f, [size |-> t[f].size, mtime |-> mt[f],
                                       hash |-> NoHash, seen |-> t[f]], j.run.files),
           x.todo = IF t[f] # Absent /\ t[f].size <= MaxFileSize THEN j.todo
                    ELSE j.todo \ {f},
           x.pc = IF t[f] # Absent /\ t[f].size <= MaxFileSize THEN "read" ELSE "stat"
    PROVE  JobOK(x, t, mt, ps, v)
<1> DEFINE rec == [size |-> t[f].size, mtime |-> mt[f], hash |-> NoHash, seen |-> t[f]]
<1>1. j \in Job /\ j.run.files \in Maps(FileRecord) /\ DOMAIN j.run.files \subseteq Files
  BY MapFacts DEF JobOK, Job, RunType
<1>2. f \in j.todo /\ f \in Files /\ j.todo \subseteq Files
  BY <1>1, NextFileIn DEF Job
<1>3. RunOK(x.prev, ps, v) /\ AnalysisOK(x, ps, v)
  <2>1. DOMAIN j.run.modules = {}
    BY DEF JobOK, AnalysisOK
  <2> QED  BY <2>1 DEF JobOK, AnalysisOK
<1>4. CASE t[f] = Absent
  <2>1. ScanOK(x, t, ps, v)
    BY <1>4 DEF JobOK, ScanOK, Pending
  <2>2. QuietOK(x, t, mt)
    BY <1>4, <1>2 DEF JobOK, QuietOK
  <2> QED  BY <1>3, <2>1, <2>2 DEF JobOK
<1>5. CASE t[f] # Absent
  <2>1. rec \in FileRecord
    BY <1>2, <1>5, IncrementalAssumption DEF FileRecord
  <2>2. /\ DOMAIN x.run.files = DOMAIN j.run.files \union {f}
        /\ x.run.files[f] = rec
        /\ \A g \in DOMAIN j.run.files \ {f} : x.run.files[g] = j.run.files[g]
    <3>1. x.run.files = With(f, rec, j.run.files)
      BY <1>5
    <3> HIDE DEF rec
    <3> QED  BY <3>1 DEF With
  <2>3. /\ rec.hash = NoHash /\ rec.size = t[f].size /\ rec.size \in Nat
        /\ rec.mtime = mt[f] /\ rec.seen = t[f]
    BY <2>1 DEF FileRecord
  <2> HIDE DEF rec
  <2>4. RecordOK(f, rec, ps, v) \/ Pending(x, f)
    <3>1. CASE rec.size <= MaxFileSize
      BY <1>5, <2>2, <2>3, <3>1 DEF Pending
    <3>2. CASE rec.size > MaxFileSize
      BY <1>2, <2>3, <3>2 DEF RecordOK
    <3> QED  BY <2>3, <3>1, <3>2, IncrementalAssumption
  <2>5. \A g \in DOMAIN j.run.files : RecordOK(g, j.run.files[g], ps, v)
                                      /\ (g \in j.touched \/ t[g] = j.run.files[g].seen)
    BY DEF JobOK, ScanOK, Pending
  <2>6. x.pc = "read" => x.todo # {} /\ NextFile(x.todo) = f /\ Pending(x, f)
    BY <1>5, <2>2, <2>3 DEF Pending
  <2>7. ScanOK(x, t, ps, v)
    <3>1. x.run.version \in Versions /\ x.pc # "idle"
      BY DEF JobOK, ScanOK
    <3> QED  BY <2>2, <2>3, <2>4, <2>5, <2>6, <3>1 DEF ScanOK
  <2>8. QuietOK(x, t, mt)
    <3>1. DOMAIN x.run.files \union x.todo = DOMAIN j.run.files \union j.todo
      BY <1>2, <2>2
    <3>2. x.pc \in {"stat", "read"}
      OBVIOUS
    <3> QED  BY <2>2, <2>3, <3>1, <3>2 DEF JobOK, QuietOK
  <2> QED  BY <1>3, <2>7, <2>8 DEF JobOK
<1> QED
  BY <1>4, <1>5

\* The next file's bytes are hashed, or it is gone and has been put into v.
LEMMA ReadOK ==
    ASSUME NEW t \in [Files -> Contents \union {Absent}], NEW mt, NEW ps, NEW v,
           NEW j, JobOK(j, t, mt, ps, v), j.pc = "read",
           NEW x \in Job, NEW f, f = NextFile(j.todo),
           x.kind = j.kind, x.prev = j.prev, x.roots = j.roots, x.quiet = j.quiet,
           x.run.version = j.run.version, x.run.modules = j.run.modules,
           NEW rec, x.run.files = [j.run.files EXCEPT ![f] = rec],
           rec.size = j.run.files[f].size, rec.mtime = j.run.files[f].mtime,
           \/ t[f] = Absent /\ f \in v /\ rec = j.run.files[f] /\ x.touched = j.touched
           \/ /\ t[f] # Absent /\ rec.hash = t[f] /\ rec.seen = t[f]
              /\ x.touched = j.touched \ {f},
           x.todo = j.todo \ {f}, x.pc = "stat"
    PROVE  JobOK(x, t, mt, ps, v)
<1>1. j \in Job /\ j.run.files \in Maps(FileRecord) /\ DOMAIN j.run.files \subseteq Files
  BY MapFacts DEF JobOK, Job, RunType
<1>2. /\ f \in j.todo /\ f \in Files /\ f \in DOMAIN j.run.files
      /\ j.run.files[f].hash = NoHash /\ j.run.files[f].size <= MaxFileSize
      /\ j.run.files[f] \in FileRecord
  BY <1>1, NextFileIn, MapFacts DEF JobOK, Job, ScanOK, Pending
<1>3. RunOK(x.prev, ps, v) /\ AnalysisOK(x, ps, v)
  <2>1. DOMAIN j.run.modules = {}
    BY DEF JobOK, AnalysisOK
  <2> QED  BY <2>1 DEF JobOK, AnalysisOK
<1>4. /\ DOMAIN x.run.files = DOMAIN j.run.files
      /\ \A g \in DOMAIN j.run.files \ {f} : x.run.files[g] = j.run.files[g]
  OBVIOUS
<1>5. /\ x.run.files[f].size = j.run.files[f].size
      /\ x.run.files[f].mtime = j.run.files[f].mtime
      /\ IF t[f] = Absent THEN x.run.files[f] = j.run.files[f]
         ELSE x.run.files[f].hash = t[f] /\ x.run.files[f].seen = t[f]
  BY <1>2
<1>6. \A g \in DOMAIN j.run.files \ {f} : RecordOK(g, j.run.files[g], ps, v)
  BY DEF JobOK, ScanOK, Pending
<1>7. RecordOK(f, x.run.files[f], ps, v)
  <2>1. t[f] # Absent => t[f] # NoHash
    BY <1>2, ContentsAssumption
  <2> QED  BY <1>2, <1>5, <2>1 DEF RecordOK
<1>8. \A g \in DOMAIN x.run.files : g \in x.touched \/ t[g] = x.run.files[g].seen
  <2>1. \A g \in DOMAIN j.run.files : g \in j.touched \/ t[g] = j.run.files[g].seen
    BY DEF JobOK, ScanOK
  <2>2. f \in x.touched \/ t[f] = x.run.files[f].seen
    BY <1>2, <1>5, <2>1
  <2> QED  BY <1>4, <2>1, <2>2
<1>9. ScanOK(x, t, ps, v)
  BY <1>4, <1>6, <1>7, <1>8 DEF JobOK, ScanOK
<1>10. QuietOK(x, t, mt)
  <2>1. DOMAIN x.run.files \union x.todo = DOMAIN j.run.files \union j.todo
    BY <1>2, <1>4
  <2>2. \A g \in DOMAIN j.run.files : x.run.files[g].size = j.run.files[g].size
                                      /\ x.run.files[g].mtime = j.run.files[g].mtime
    BY <1>4, <1>5
  <2>3. x.touched \subseteq j.touched
    OBVIOUS
  <2> QED  BY <1>4, <2>1, <2>2, <2>3 DEF JobOK, QuietOK
<1> QED
  BY <1>3, <1>9, <1>10 DEF JobOK

\* The scan is over, or the source roots are detected and the analysis begins.
LEMMA PhaseOK ==
    ASSUME NEW t, NEW mt, NEW ps, NEW v, NEW j, JobOK(j, t, mt, ps, v), NEW x \in Job,
           x.quiet = j.quiet, x.touched = j.touched, x.run.version = j.run.version,
           x.run.modules = j.run.modules, x.run.files = j.run.files, RunOK(x.prev, ps, v),
           \/ j.pc = "stat" /\ j.todo = {} /\ x.pc \in {"load", "checked"}
           \/ j.pc = "load" /\ x.pc = "detect"
           \/ /\ j.pc = "detect" /\ x.pc = "analyze" /\ x.roots \in SourceRoots
              /\ x.todo = DOMAIN j.run.files
    PROVE  JobOK(x, t, mt, ps, v)
<1>1. DOMAIN j.run.modules = {}
  BY DEF JobOK, AnalysisOK
<1>2. \A f \in DOMAIN j.run.files : RecordOK(f, j.run.files[f], ps, v)
  BY DEF JobOK, ScanOK, Pending
<1>3. ScanOK(x, t, ps, v)
  BY <1>2 DEF JobOK, ScanOK
<1>4. AnalysisOK(x, ps, v)
  BY <1>1 DEF JobOK, AnalysisOK
<1>5. QuietOK(x, t, mt)
  BY DEF JobOK, QuietOK
<1> QED
  BY <1>3, <1>4, <1>5 DEF JobOK

\* The module of the next file: reused, it fits a record that matches; parsed, it is
\* of what the record describes unless the file was touched.
LEMMA ModuleMade ==
    ASSUME NEW t \in [Files -> Contents \union {Absent}], NEW mt, NEW ps, NEW v,
           NEW j, JobOK(j, t, mt, ps, v), j.pc = "analyze", j.todo # {},
           NEW f, f = NextFile(j.todo), NEW module,
           \/ /\ f \in Reusable(j)
              /\ file_fingerprint_matches(j.prev.files[f], j.run.files[f])
              /\ module = j.prev.modules[f]
           \/ module = [content |-> t[f], roots |-> j.roots,
                        version |-> j.run.version, raced |-> f \in j.touched]
    PROVE  /\ module \in Module
           /\ ModuleOK(f, j.run.files[f], module, j.run.version, ps, v)
           /\ module.raced => \/ f \in j.touched
                              \/ f \in DOMAIN j.prev.modules /\ j.prev.modules[f].raced
           /\ f \in j.todo /\ f \in Files /\ f \in DOMAIN j.run.files
<1>1. /\ j \in Job /\ j.run \in RunType /\ j.run.files \in Maps(FileRecord)
      /\ j.run.modules \in Maps(Module) /\ DOMAIN j.run.files \subseteq Files
      /\ j.prev \in RunType /\ j.prev.files \in Maps(FileRecord)
      /\ j.prev.modules \in Maps(Module)
  BY MapFacts DEF JobOK, Job, RunType
<1>2. /\ f \in j.todo /\ f \in Files /\ f \in DOMAIN j.run.files
      /\ DOMAIN j.run.files = DOMAIN j.run.modules \union j.todo
  <2>1. DOMAIN j.run.files = DOMAIN j.run.modules \union j.todo
    BY DEF JobOK, AnalysisOK
  <2>2. j.todo \subseteq Files
    BY <1>1 DEF Job
  <2> QED  BY <2>1, <2>2, NextFileIn
<1>3. /\ RecordOK(f, j.run.files[f], ps, v) /\ j.run.files[f] \in FileRecord
      /\ f \in j.touched \/ t[f] = j.run.files[f].seen
      /\ j.run.version \in Versions /\ j.roots \in SourceRoots
  <2>1. j.run.files[f] \in FileRecord
    BY <1>1, <1>2, MapFacts
  <2> QED  BY <1>2, <2>1 DEF JobOK, ScanOK, AnalysisOK, Pending
<1>4. CASE /\ f \in Reusable(j)
           /\ file_fingerprint_matches(j.prev.files[f], j.run.files[f])
           /\ module = j.prev.modules[f]
  <2>1. /\ module = j.prev.modules[f] /\ f \in DOMAIN j.prev.modules
        /\ f \in DOMAIN j.prev.files /\ j.prev.version = j.run.version
    BY <1>4 DEF Reusable
  <2>2. j.prev.modules[f] \in Module /\ j.prev.files[f] \in FileRecord
    BY <1>1, <2>1, MapFacts
  <2>3. /\ RecordOK(f, j.prev.files[f], ps, v)
        /\ ModuleOK(f, j.prev.files[f], j.prev.modules[f], j.prev.version, ps, v)
    BY <2>1 DEF JobOK, RunOK
  <2>4. j.prev.files[f].seen = j.run.files[f].seen \/ Rewritten(f, ps, v)
    BY <1>3, <1>4, <2>2, <2>3, MatchMeansSame
  <2> QED  BY <1>2, <2>1, <2>2, <2>3, <2>4 DEF ModuleOK
<1>5. CASE module = [content |-> t[f], roots |-> j.roots, version |-> j.run.version,
                     raced |-> f \in j.touched]
  <2>2. t[f] \in Contents \union {Absent}
    BY <1>2
  <2> DEFINE parsed(b) == [content |-> t[f], roots |-> j.roots, version |-> j.run.version,
                           raced |-> b]
  <2>3. \A b \in BOOLEAN : /\ parsed(b) \in Module /\ parsed(b).raced = b
                          /\ parsed(b).content = t[f] /\ parsed(b).version = j.run.version
    BY <1>3, <2>2 DEF Module
  <2>4. \/ f \in j.touched /\ module = parsed(TRUE)
        \/ f \notin j.touched /\ module = parsed(FALSE)
    <3>1. CASE f \in j.touched
      <4>1. (f \in j.touched) = TRUE
        BY <3>1
      <4> QED  BY <1>5, <3>1, <4>1, Zenon
    <3>2. CASE f \notin j.touched
      <4>1. (f \in j.touched) = FALSE
        BY <3>2
      <4> QED  BY <1>5, <3>2, <4>1, Zenon
    <3> QED  BY <3>1, <3>2
  <2> HIDE DEF parsed
  <2>5. /\ module \in Module /\ module.content = t[f] /\ module.version = j.run.version
        /\ ~module.raced => f \notin j.touched
        /\ module.raced => f \in j.touched
    BY <2>3, <2>4
  <2> QED  BY <1>2, <1>3, <2>5 DEF ModuleOK
<1> QED
  BY <1>4, <1>5

LEMMA AnalyzeOK ==
    ASSUME NEW t \in [Files -> Contents \union {Absent}], NEW mt, NEW ps, NEW v,
           NEW j, JobOK(j, t, mt, ps, v), j.pc = "analyze", NEW f \in j.todo,
           f \in Files, NEW module \in Module,
           ModuleOK(f, j.run.files[f], module, j.run.version, ps, v),
           module.raced => \/ f \in j.touched
                           \/ f \in DOMAIN j.prev.modules /\ j.prev.modules[f].raced,
           NEW x \in Job, x.pc = j.pc, x.kind = j.kind, x.todo = j.todo \ {f},
           x.prev = j.prev, x.run.files = j.run.files,
           x.run.modules = With(f, module, j.run.modules), x.run.version = j.run.version,
           x.roots = j.roots, x.touched = j.touched, x.quiet = j.quiet
    PROVE  JobOK(x, t, mt, ps, v)
<1>1. /\ j.run.modules \in Maps(Module)
      /\ DOMAIN j.run.files = DOMAIN j.run.modules \union j.todo
      /\ j.run.version \in Versions /\ j.roots \in SourceRoots
  BY DEF JobOK, Job, RunType, ScanOK, AnalysisOK
<1>2. /\ DOMAIN x.run.modules = DOMAIN j.run.modules \union {f}
      /\ x.run.modules[f] = module
      /\ \A g \in DOMAIN j.run.modules \ {f} : x.run.modules[g] = j.run.modules[g]
  BY DEF With
<1>3. ScanOK(x, t, ps, v)
  BY DEF JobOK, ScanOK, Pending
<1>4. AnalysisOK(x, ps, v)
  <2>1. DOMAIN x.run.files = DOMAIN x.run.modules \union x.todo
    BY <1>1, <1>2
  <2>2. ASSUME NEW g \in DOMAIN x.run.modules
        PROVE  /\ ModuleOK(g, x.run.files[g], x.run.modules[g], x.run.version, ps, v)
               /\ x.run.modules[g].raced =>
                     \/ g \in x.touched
                     \/ g \in DOMAIN x.prev.modules /\ x.prev.modules[g].raced
    <3>1. CASE g = f
      BY <1>2, <3>1
    <3>2. CASE g # f
      <4>1. g \in DOMAIN j.run.modules /\ x.run.modules[g] = j.run.modules[g]
        BY <1>2, <3>2
      <4> QED  BY <4>1 DEF JobOK, AnalysisOK
    <3> QED  BY <3>1, <3>2
  <2> QED  BY <1>1, <2>1, <2>2 DEF AnalysisOK
<1>5. QuietOK(x, t, mt)
  BY DEF JobOK, QuietOK
<1> QED
  BY <1>3, <1>4, <1>5 DEF JobOK

-----------------------------------------------------------------------------
(* The actions.                                                            *)

\* Only p's command changes, and files may be added to vanished.
LEMMA OneCommandSteps ==
    ASSUME JobsOK, NEW p \in Procs, NEW x, job' = [job EXCEPT ![p] = x],
           tree' = tree, mtime' = mtime, past' = past, vanished \subseteq vanished',
           JobOK(x, tree, mtime, past, vanished')
    PROVE  JobsOK'
<1>1. ASSUME NEW q \in Procs PROVE JobOK(job[q], tree, mtime, past, vanished')
  <2>1. JobOK(job[q], tree, mtime, past, vanished)
    BY DEF JobsOK
  <2>2. \A f \in Files : past[f] \subseteq past[f]
    OBVIOUS
  <2> QED  BY <2>1, <2>2, JobKept
<1>2. ASSUME NEW q \in Procs PROVE JobOK(job'[q], tree', mtime', past', vanished')
  <2>1. job'[q] = x \/ job'[q] = job[q]
    BY DEF JobsOK
  <2> QED  BY <1>1, <2>1
<1> QED
  BY <1>2 DEF JobsOK

\* What a step may change of a command, and the fields of the result.
LEMMA RunUpdate ==
    ASSUME NEW r \in RunType, NEW files \in Maps(FileRecord), NEW modules \in Maps(Module)
    PROVE  /\ [r EXCEPT !.files = files] \in RunType
           /\ [r EXCEPT !.files = files].files = files
           /\ [r EXCEPT !.files = files].modules = r.modules
           /\ [r EXCEPT !.files = files].version = r.version
           /\ [r EXCEPT !.modules = modules] \in RunType
           /\ [r EXCEPT !.modules = modules].modules = modules
           /\ [r EXCEPT !.modules = modules].files = r.files
           /\ [r EXCEPT !.modules = modules].version = r.version
           /\ \A n \in Nat : /\ [r EXCEPT !.at = n] \in RunType
                            /\ [r EXCEPT !.at = n].files = r.files
                            /\ [r EXCEPT !.at = n].modules = r.modules
                            /\ [r EXCEPT !.at = n].version = r.version
  BY DEF RunType

LEMMA StatPreserves == ASSUME IInv, NEW p \in Procs, Stat(p) PROVE IInv'
<1> DEFINE j == job[p]
           f == NextFile(j.todo)
           rec == [size |-> tree[f].size, mtime |-> mtime[f], hash |-> NoHash, seen |-> tree[f]]
           files == IF tree[f] = Absent THEN j.run.files ELSE With(f, rec, j.run.files)
           run == [j.run EXCEPT !.files = files]
           hashed == tree[f] # Absent /\ tree[f].size <= MaxFileSize
           todo == IF hashed THEN j.todo ELSE j.todo \ {f}
           pc == IF hashed THEN "read" ELSE "stat"
           x == [j EXCEPT !.run = run, !.touched = j.touched, !.todo = todo, !.pc = pc]
<1>1. JobOK(j, tree, mtime, past, vanished) /\ j \in Job /\ DOMAIN job = Procs
  BY DEF IInv, JobsOK, JobOK
<1>2. job' = [job EXCEPT ![p] = x]
  BY <1>1 DEF Stat, Job
<1>3. j.run \in RunType /\ j.run.files \in Maps(FileRecord) /\ j.run.modules \in Maps(Module)
        /\ j.todo \in SUBSET Files /\ j.touched \in SUBSET Files
  BY <1>1 DEF Job, RunType
<1>4. j.todo # {} /\ j.pc = "stat"
  BY DEF Stat
<1>5. f \in Files
  <2> HIDE DEF j
  <2> QED  BY <1>3, <1>4, NextFileIn
<1>6. files \in Maps(FileRecord)
  <2>1. CASE tree[f] = Absent
    BY <1>3, <2>1
  <2>2. CASE tree[f] # Absent
    <3>1. rec \in FileRecord
      <4> HIDE DEF f
      <4> QED  BY <1>5, <2>2, IncrementalAssumption DEF IInv, TreeOK, FileRecord
    <3> HIDE DEF rec, f
    <3>2. With(f, rec, j.run.files) \in Maps(FileRecord)
      BY <1>3, <1>5, <3>1, WithIn
    <3> QED  BY <2>2, <3>2
  <2> QED  BY <2>1, <2>2
<1>7. run \in RunType /\ run.files = files /\ run.modules = j.run.modules
        /\ run.version = j.run.version
  <2> HIDE DEF files
  <2> QED  BY <1>3, <1>6, RunUpdate
<1>8. /\ x \in Job /\ x.pc = pc /\ x.kind = j.kind /\ x.todo = todo /\ x.run = run
      /\ x.prev = j.prev /\ x.roots = j.roots /\ x.touched = j.touched
      /\ x.quiet = j.quiet
  <2>1. todo \in SUBSET Files
    BY <1>3
  <2>2. pc \in {"stat", "read"}
    OBVIOUS
  <2> HIDE DEF run, todo, j, pc
  <2>3. x \in Job
    BY <1>1, <1>3, <1>7, <2>1, <2>2 DEF Job
  <2> QED  BY <1>1, <2>3 DEF Job
<1>9. /\ tree \in [Files -> Contents \union {Absent}] /\ mtime \in [Files -> Nat]
      /\ \A g \in Files : [content |-> tree[g], mtime |-> mtime[g]] \in past[g]
  BY DEF IInv, TreeOK
<1>10. JobOK(x, tree, mtime, past, vanished)
  <2> HIDE DEF j, run, x, f
  <2>1. /\ x.run.version = j.run.version /\ x.run.modules = j.run.modules
        /\ x.run.files = files
    BY <1>7, <1>8
  <2>2. f = NextFile(j.todo)
    BY DEF f
  <2> QED  BY <1>1, <1>4, <1>8, <1>9, <2>1, <2>2, StatOK
<1>11. JobsOK'
  <2>1. /\ JobsOK /\ tree' = tree /\ mtime' = mtime /\ past' = past
        /\ vanished \subseteq vanished' /\ vanished' = vanished
    BY DEF IInv, Stat, treeVars
  <2> HIDE DEF x
  <2> QED  BY <1>2, <1>10, <2>1, OneCommandSteps
<1>12. TreeOK' /\ LastOK'
  BY DEF IInv, TreeOK, LastOK, Stat, treeVars
<1> QED
  BY <1>11, <1>12 DEF IInv

LEMMA ReadPreserves == ASSUME IInv, NEW p \in Procs, Read(p) PROVE IInv'
<1> DEFINE j == job[p]
           f == NextFile(j.todo)
           old == j.run.files[f]
           rec == IF tree[f] = Absent THEN old
                  ELSE [old EXCEPT !.hash = tree[f], !.seen = tree[f]]
           files == [j.run.files EXCEPT ![f] = rec]
           run == [j.run EXCEPT !.files = files]
           touched == IF tree[f] = Absent THEN j.touched ELSE j.touched \ {f}
           todo == j.todo \ {f}
           x == [j EXCEPT !.run = run, !.touched = touched, !.todo = todo, !.pc = "stat"]
<1>1. JobOK(j, tree, mtime, past, vanished) /\ j \in Job /\ DOMAIN job = Procs
  BY DEF IInv, JobsOK, JobOK
<1>2. job' = [job EXCEPT ![p] = x]
  BY <1>1 DEF Read, Job
<1>3. /\ j.run \in RunType /\ j.run.files \in Maps(FileRecord)
      /\ j.run.modules \in Maps(Module)
      /\ j.todo \in SUBSET Files /\ j.touched \in SUBSET Files /\ j.pc = "read"
  BY <1>1 DEF Job, RunType, Read
<1>4. j.todo # {} /\ f \in DOMAIN j.run.files
  BY <1>1, <1>3 DEF JobOK, ScanOK
<1>5. f \in Files /\ old \in FileRecord
  <2>1. f \in Files
    <3> HIDE DEF j
    <3> QED  BY <1>3, <1>4, NextFileIn
  <2>2. \A g \in DOMAIN j.run.files : j.run.files[g] \in FileRecord
    <3> HIDE DEF j
    <3> QED  BY <1>3, MapFacts
  <2> QED  BY <1>4, <2>1, <2>2
<1>6. rec \in FileRecord
  <2>1. CASE tree[f] = Absent
    BY <1>5, <2>1
  <2>2. CASE tree[f] # Absent
    <3>1. tree[f] \in Contents
      BY <1>5, <2>2 DEF IInv, TreeOK
    <3> HIDE DEF old, f
    <3>2. [old EXCEPT !.hash = tree[f], !.seen = tree[f]] \in FileRecord
      BY <1>5, <3>1 DEF FileRecord
    <3> QED  BY <2>2, <3>2
  <2> QED  BY <2>1, <2>2
<1>7. files \in Maps(FileRecord)
  <2> HIDE DEF rec, j, f
  <2> QED  BY <1>3, <1>6, ExceptIn
<1>8. run \in RunType /\ run.files = files /\ run.modules = j.run.modules
        /\ run.version = j.run.version
  <2> HIDE DEF files
  <2> QED  BY <1>3, <1>7, RunUpdate
<1>9. /\ x \in Job /\ x.pc = "stat" /\ x.kind = j.kind /\ x.todo = todo /\ x.run = run
      /\ x.prev = j.prev /\ x.roots = j.roots /\ x.touched = touched
      /\ x.quiet = j.quiet
  <2>1. todo \in SUBSET Files /\ touched \in SUBSET Files
    BY <1>3
  <2> HIDE DEF run, todo, j, touched
  <2>2. x \in Job
    BY <1>1, <1>8, <2>1 DEF Job
  <2> QED  BY <1>1, <2>2 DEF Job
<1>10. /\ JobsOK /\ tree' = tree /\ mtime' = mtime /\ past' = past
       /\ vanished' = vanished \union {g \in {f} : tree[g] = Absent}
       /\ vanished \subseteq vanished' /\ (tree[f] = Absent => f \in vanished')
  BY DEF IInv, Read, treeVars
<1>11. tree \in [Files -> Contents \union {Absent}]
  BY DEF IInv, TreeOK
<1>12. \A g \in Files : past[g] \subseteq past[g]
  OBVIOUS
<1>13. JobOK(x, tree, mtime, past, vanished')
  <2>1. JobOK(j, tree, mtime, past, vanished')
    <3>1. vanished \subseteq vanished'
      BY <1>10
    <3> HIDE DEF j
    <3> QED  BY <1>1, <1>12, <3>1, JobKept
  <2>2. /\ x.run.files = [j.run.files EXCEPT ![f] = rec]
        /\ x.run.version = j.run.version /\ x.run.modules = j.run.modules
    BY <1>8, <1>9
  <2>3. rec.size = old.size /\ rec.mtime = old.mtime
    <3> HIDE DEF old
    <3> QED  BY <1>5 DEF FileRecord
  <2>4. \/ /\ tree[f] = Absent /\ f \in vanished' /\ rec = old
           /\ x.touched = j.touched
        \/ /\ tree[f] # Absent /\ rec.hash = tree[f] /\ rec.seen = tree[f]
           /\ x.touched = j.touched \ {f}
    <3>1. CASE tree[f] = Absent
      BY <1>9, <1>10, <3>1
    <3>2. CASE tree[f] # Absent
      <4> HIDE DEF old, f
      <4>1. rec = [old EXCEPT !.hash = tree[f], !.seen = tree[f]]
        BY <3>2
      <4>2. rec.hash = tree[f] /\ rec.seen = tree[f]
        BY <1>5, <4>1 DEF FileRecord
      <4> QED  BY <1>9, <3>2, <4>2
    <3> QED  BY <3>1, <3>2
  <2>5. /\ j.pc = "read" /\ x \in Job /\ x.kind = j.kind /\ x.prev = j.prev
        /\ x.roots = j.roots /\ x.quiet = j.quiet /\ x.todo = j.todo \ {f}
        /\ x.pc = "stat" /\ f = NextFile(j.todo)
    BY <1>3, <1>9
  <2> HIDE DEF j, run, x, f, rec
  <2> QED  BY <1>11, <2>1, <2>2, <2>3, <2>4, <2>5, ReadOK
<1>14. JobsOK'
  <2> HIDE DEF x
  <2> QED  BY <1>2, <1>10, <1>13, OneCommandSteps
<1>15. LastOK'
  <2>1. RunOK(last, past, vanished')
    BY <1>10, <1>12, RunKept DEF IInv, LastOK
  <2> QED  BY <1>10, <2>1 DEF IInv, LastOK, Read
<1>16. TreeOK'
  BY <1>5, <1>10 DEF IInv, TreeOK, Read, treeVars
<1> QED
  BY <1>14, <1>15, <1>16 DEF IInv

LEMMA FinishScanPreserves == ASSUME IInv, NEW p \in Procs, FinishScan(p) PROVE IInv'
<1> DEFINE j == job[p]
           at == clock + 1
           run == [j.run EXCEPT !.at = at]
           pc == IF j.kind = "index" THEN "load" ELSE "checked"
           x == [j EXCEPT !.run = run, !.pc = pc]
<1>1. JobOK(j, tree, mtime, past, vanished) /\ j \in Job /\ DOMAIN job = Procs
  BY DEF IInv, JobsOK, JobOK
<1>2. job' = [job EXCEPT ![p] = x]
  BY <1>1 DEF FinishScan, Job
<1>3. j.run \in RunType /\ at \in Nat /\ j.pc = "stat" /\ j.todo = {} /\ j.prev \in RunType
  BY <1>1 DEF Job, FinishScan, IInv, TreeOK
<1>4. /\ run \in RunType /\ run.files = j.run.files /\ run.modules = j.run.modules
      /\ run.version = j.run.version
  <2> HIDE DEF at, j
  <2>1. run \in RunType
    BY <1>3 DEF RunType
  <2> QED  BY <1>3, <2>1 DEF RunType
<1>5. /\ x \in Job /\ x.pc = pc /\ x.prev = j.prev /\ x.run = run
      /\ x.touched = j.touched /\ x.quiet = j.quiet
  <2>1. pc \in {"load", "checked"}
    OBVIOUS
  <2> HIDE DEF run, j, pc
  <2>2. x \in Job
    BY <1>1, <1>4, <2>1 DEF Job
  <2> QED  BY <1>1, <2>2 DEF Job
<1>6. JobOK(x, tree, mtime, past, vanished)
  <2>1. RunOK(x.prev, past, vanished)
    BY <1>1, <1>5 DEF JobOK
  <2>2. /\ x.run.files = j.run.files /\ x.run.modules = j.run.modules
        /\ x.run.version = j.run.version /\ x.pc \in {"load", "checked"}
    BY <1>4, <1>5
  <2> HIDE DEF j, run, x
  <2> QED  BY <1>1, <1>3, <1>5, <2>1, <2>2, PhaseOK
<1>7. JobsOK'
  <2>1. /\ JobsOK /\ tree' = tree /\ mtime' = mtime /\ past' = past
        /\ vanished \subseteq vanished' /\ vanished' = vanished
    BY DEF IInv, FinishScan, treeVars
  <2> HIDE DEF x
  <2> QED  BY <1>2, <1>6, <2>1, OneCommandSteps
<1>8. TreeOK' /\ LastOK'
  BY <1>3 DEF IInv, TreeOK, LastOK, FinishScan, treeVars
<1> QED
  BY <1>7, <1>8 DEF IInv

LEMMA LoadPreserves == ASSUME IInv, NEW p \in Procs, Load(p) PROVE IInv'
<1> DEFINE j == job[p]
           x == [j EXCEPT !.prev = last, !.pc = "detect"]
<1>1. JobOK(j, tree, mtime, past, vanished) /\ j \in Job /\ DOMAIN job = Procs
  BY DEF IInv, JobsOK, JobOK
<1>2. job' = [job EXCEPT ![p] = x] /\ j.pc = "load"
  BY <1>1 DEF Load, Job
<1>3. RunOK(last, past, vanished) /\ last \in RunType
  BY DEF IInv, LastOK, RunOK
<1>4. /\ x \in Job /\ x.pc = "detect" /\ x.prev = last /\ x.run = j.run
      /\ x.touched = j.touched /\ x.quiet = j.quiet
  <2> HIDE DEF j
  <2>1. x \in Job
    BY <1>1, <1>3 DEF Job
  <2> QED  BY <1>1, <2>1 DEF Job
<1>5. JobOK(x, tree, mtime, past, vanished)
  <2>1. RunOK(x.prev, past, vanished)
    BY <1>3, <1>4
  <2>2. /\ x.run.files = j.run.files /\ x.run.modules = j.run.modules
        /\ x.run.version = j.run.version
    BY <1>4
  <2> HIDE DEF j, x
  <2> QED  BY <1>1, <1>2, <1>4, <2>1, <2>2, PhaseOK
<1>6. JobsOK'
  <2>1. /\ JobsOK /\ tree' = tree /\ mtime' = mtime /\ past' = past
        /\ vanished \subseteq vanished' /\ vanished' = vanished
    BY DEF IInv, Load, treeVars
  <2> HIDE DEF x
  <2> QED  BY <1>2, <1>5, <2>1, OneCommandSteps
<1>7. TreeOK' /\ LastOK'
  BY DEF IInv, TreeOK, LastOK, Load, treeVars
<1> QED
  BY <1>6, <1>7 DEF IInv

LEMMA DetectPreserves == ASSUME IInv, NEW p \in Procs, DetectSourceRoots(p) PROVE IInv'
<1> DEFINE j == job[p]
           todo == DOMAIN j.run.files
           x == [j EXCEPT !.roots = config.roots, !.todo = todo, !.pc = "analyze"]
<1>1. JobOK(j, tree, mtime, past, vanished) /\ j \in Job /\ DOMAIN job = Procs
  BY DEF IInv, JobsOK, JobOK
<1>2. job' = [job EXCEPT ![p] = x] /\ j.pc = "detect"
  BY <1>1 DEF DetectSourceRoots, Job
<1>3. config.roots \in SourceRoots /\ todo \in SUBSET Files
  <2>1. j.run.files \in Maps(FileRecord)
    BY <1>1 DEF Job, RunType
  <2> HIDE DEF j
  <2>2. todo \subseteq Files
    BY <2>1, MapFacts
  <2> QED  BY <2>2 DEF IInv, TreeOK
<1>4. /\ x \in Job /\ x.pc = "analyze" /\ x.prev = j.prev /\ x.run = j.run
      /\ x.touched = j.touched /\ x.quiet = j.quiet /\ x.roots = config.roots
      /\ x.todo = todo
  <2> HIDE DEF j, todo
  <2>1. x \in Job
    BY <1>1, <1>3 DEF Job
  <2> QED  BY <1>1, <2>1 DEF Job
<1>5. JobOK(x, tree, mtime, past, vanished)
  <2>1. RunOK(x.prev, past, vanished)
    BY <1>1, <1>4 DEF JobOK
  <2>2. /\ x.run.files = j.run.files /\ x.run.modules = j.run.modules
        /\ x.run.version = j.run.version /\ x.roots \in SourceRoots
        /\ x.todo = DOMAIN j.run.files
    BY <1>3, <1>4
  <2> HIDE DEF j, x
  <2> QED  BY <1>1, <1>2, <1>4, <2>1, <2>2, PhaseOK
<1>6. JobsOK'
  <2>1. /\ JobsOK /\ tree' = tree /\ mtime' = mtime /\ past' = past
        /\ vanished \subseteq vanished' /\ vanished' = vanished
    BY DEF IInv, DetectSourceRoots, treeVars
  <2> HIDE DEF x
  <2> QED  BY <1>2, <1>5, <2>1, OneCommandSteps
<1>7. TreeOK' /\ LastOK'
  BY DEF IInv, TreeOK, LastOK, DetectSourceRoots, treeVars
<1> QED
  BY <1>6, <1>7 DEF IInv

LEMMA AnalyzePreserves == ASSUME IInv, NEW p \in Procs, Analyze(p) PROVE IInv'
<1> DEFINE j == job[p]
           f == NextFile(j.todo)
           reuse == /\ f \in Reusable(j)
                    /\ file_fingerprint_matches(j.prev.files[f], j.run.files[f])
           module == IF reuse THEN j.prev.modules[f]
                     ELSE [content |-> tree[f], roots |-> j.roots,
                           version |-> j.run.version, raced |-> f \in j.touched]
           modules == With(f, module, j.run.modules)
           run == [j.run EXCEPT !.modules = modules]
           todo == j.todo \ {f}
           x == [j EXCEPT !.run = run, !.todo = todo]
<1>1. /\ JobOK(j, tree, mtime, past, vanished) /\ j \in Job /\ DOMAIN job = Procs
      /\ tree \in [Files -> Contents \union {Absent}]
  BY DEF IInv, JobsOK, JobOK, TreeOK
<1>2. job' = [job EXCEPT ![p] = x] /\ j.pc = "analyze" /\ j.todo # {}
  BY <1>1 DEF Analyze, Job
<1>3. /\ module \in Module
      /\ ModuleOK(f, j.run.files[f], module, j.run.version, past, vanished)
      /\ module.raced => \/ f \in j.touched
                         \/ f \in DOMAIN j.prev.modules /\ j.prev.modules[f].raced
      /\ f \in j.todo /\ f \in Files /\ f \in DOMAIN j.run.files
  <2>1. f = NextFile(j.todo)
    OBVIOUS
  <2>2. \/ /\ f \in Reusable(j)
           /\ file_fingerprint_matches(j.prev.files[f], j.run.files[f])
           /\ module = j.prev.modules[f]
        \/ module = [content |-> tree[f], roots |-> j.roots,
                     version |-> j.run.version, raced |-> f \in j.touched]
    <3> HIDE DEF f, j
    <3> QED  BY Zenon
  <2> HIDE DEF j, f, module
  <2> QED  BY <1>1, <1>2, <2>1, <2>2, ModuleMade
<1>4. j.run \in RunType /\ j.run.modules \in Maps(Module) /\ todo \in SUBSET Files
  BY <1>1 DEF Job, RunType
<1>5. modules \in Maps(Module)
  <2> DEFINE old == j.run.modules
  <2>1. old \in Maps(Module) /\ modules = With(f, module, old)
    BY <1>4
  <2> HIDE DEF module, f, old, modules
  <2>2. With(f, module, old) \in Maps(Module)
    BY <1>3, <2>1, WithIn
  <2> QED  BY <2>1, <2>2
<1>6. run \in RunType /\ run.files = j.run.files /\ run.modules = modules
        /\ run.version = j.run.version
  <2> HIDE DEF modules, j
  <2>1. run \in RunType
    BY <1>4, <1>5 DEF RunType
  <2> QED  BY <1>4, <2>1 DEF RunType
<1>7. /\ x \in Job /\ x.pc = j.pc /\ x.kind = j.kind /\ x.todo = todo /\ x.run = run
      /\ x.prev = j.prev /\ x.roots = j.roots /\ x.touched = j.touched
      /\ x.quiet = j.quiet
  <2> HIDE DEF run, todo, j
  <2>1. x \in Job
    BY <1>1, <1>4, <1>6 DEF Job
  <2> QED  BY <1>1, <2>1 DEF Job
<1>8. JobOK(x, tree, mtime, past, vanished)
  <2>1. /\ x.run.files = j.run.files /\ x.run.modules = With(f, module, j.run.modules)
        /\ x.run.version = j.run.version /\ x.todo = j.todo \ {f}
    BY <1>6, <1>7
  <2> HIDE DEF j, f, module, run, x
  <2> QED  BY <1>1, <1>2, <1>3, <1>7, <2>1, AnalyzeOK
<1>9. JobsOK'
  <2>1. /\ JobsOK /\ tree' = tree /\ mtime' = mtime /\ past' = past
        /\ vanished \subseteq vanished' /\ vanished' = vanished
    BY DEF IInv, Analyze, treeVars
  <2> HIDE DEF x
  <2> QED  BY <1>2, <1>8, <2>1, OneCommandSteps
<1>10. TreeOK' /\ LastOK'
  BY DEF IInv, TreeOK, LastOK, Analyze, treeVars
<1> QED
  BY <1>9, <1>10 DEF IInv

LEMMA StartPreserves == ASSUME IInv, NEW p \in Procs, Start(p) PROVE IInv'
<1>1. PICK kind \in {"index", "check"} :
         job' = [job EXCEPT ![p] =
                   [Idle EXCEPT !.pc = "stat", !.kind = kind, !.todo = Present,
                                !.run = [NoRun EXCEPT !.version = config.version],
                                !.prev = IF kind = "check" THEN last ELSE NoRun]]
  BY DEF Start
<1> DEFINE prev == IF kind = "check" THEN last ELSE NoRun
           x == [Idle EXCEPT !.pc = "stat", !.kind = kind,
                             !.todo = {f \in Files : tree[f] # Absent},
                             !.run = [NoRun EXCEPT !.version = config.version],
                             !.prev = prev]
<1>2. job' = [job EXCEPT ![p] = x]
  BY <1>1 DEF Present
<1>3. RunOK(prev, past, vanished)
  <2>1. RunOK(NoRun, past, vanished)
    BY NoRunType DEF RunOK
  <2> QED  BY <2>1 DEF IInv, LastOK
<1>4. config.version \in Versions
  BY DEF IInv, TreeOK
<1>5. JobOK(x, tree, mtime, past, vanished)
  <2> HIDE DEF prev
  <2> QED  BY <1>3, <1>4, StartOK
<1>6. JobsOK'
  <2>1. /\ JobsOK /\ tree' = tree /\ mtime' = mtime /\ past' = past
        /\ vanished \subseteq vanished' /\ vanished' = vanished
    BY DEF IInv, Start, treeVars
  <2> HIDE DEF x
  <2> QED  BY <1>2, <1>5, <2>1, OneCommandSteps
<1>7. jobs' \in 0 .. MaxJobs
  BY IncrementalAssumption DEF IInv, TreeOK, Start
<1>8. TreeOK' /\ LastOK'
  BY <1>7 DEF IInv, TreeOK, LastOK, Start, treeVars
<1> QED
  BY <1>6, <1>8 DEF IInv

LEMMA SavePreserves == ASSUME IInv, NEW p \in Procs, Save(p) PROVE IInv'
<1>1. JobOK(job[p], tree, mtime, past, vanished)
  BY DEF IInv, JobsOK
<1>2. JobsOK'
  <2>1. /\ JobsOK /\ tree' = tree /\ mtime' = mtime /\ past' = past
        /\ vanished \subseteq vanished' /\ vanished' = vanished
    BY DEF IInv, Save, treeVars
  <2>2. job' = [job EXCEPT ![p] = Idle]
    BY DEF Save
  <2> QED  BY <2>1, <2>2, IdleOK, OneCommandSteps
<1>3. LastOK'
  <2> DEFINE run == job[p].run
  <2>1. /\ job[p].pc = "analyze" /\ job[p].todo = {}
        /\ last' = run \/ last' = last
        /\ past' = past /\ vanished' = vanished
    BY DEF Save, treeVars
  <2>2. run \in RunType
    BY <1>1 DEF JobOK, Job
  <2>3. \A f \in DOMAIN run.files : RecordOK(f, run.files[f], past, vanished)
    BY <1>1, <2>1 DEF JobOK, ScanOK, Pending
  <2>4. /\ DOMAIN run.modules = DOMAIN run.files
        /\ \A f \in DOMAIN run.modules :
              ModuleOK(f, run.files[f], run.modules[f], run.version, past, vanished)
    BY <1>1, <2>1 DEF JobOK, AnalysisOK
  <2> HIDE DEF run
  <2>5. RunOK(run, past, vanished)
    BY <2>2, <2>3, <2>4 DEF RunOK
  <2> QED  BY <2>1, <2>4, <2>5 DEF IInv, LastOK
<1>4. TreeOK'
  BY DEF IInv, TreeOK, Save, treeVars
<1> QED
  BY <1>2, <1>3, <1>4 DEF IInv

LEMMA CrashPreserves == ASSUME IInv, NEW p \in Procs, Crash(p) PROVE IInv'
<1>1. JobsOK'
  <2>1. /\ JobsOK /\ tree' = tree /\ mtime' = mtime /\ past' = past
        /\ vanished \subseteq vanished' /\ vanished' = vanished
    BY DEF IInv, Crash, treeVars
  <2>2. job' = [job EXCEPT ![p] = Idle]
    BY DEF Crash
  <2> QED  BY <2>1, <2>2, IdleOK, OneCommandSteps
<1>2. TreeOK' /\ LastOK'
  BY DEF IInv, TreeOK, LastOK, Crash, treeVars
<1> QED
  BY <1>1, <1>2 DEF IInv

LEMMA EditPreserves == ASSUME IInv, NEW f \in Files, Edit(f) PROVE IInv'
<1>1. PICK c \in Contents \union {Absent}, t \in {now, now + 1} :
         /\ tree' = [tree EXCEPT ![f] = c]
         /\ now' = t
         /\ mtime' = [mtime EXCEPT ![f] = t]
         /\ past' = [past EXCEPT ![f] = @ \union {[content |-> c, mtime |-> t]}]
  BY DEF Edit
<1>2. /\ tree \in [Files -> Contents \union {Absent}] /\ mtime \in [Files -> 0 .. now]
      /\ now \in Nat /\ now <= edits /\ edits \in 0 .. MaxEdits /\ edits < MaxEdits
      /\ past \in [Files -> SUBSET [content : Contents \union {Absent}, mtime : Nat]]
      /\ \A g \in Files : [content |-> tree[g], mtime |-> mtime[g]] \in past[g]
      /\ MaxEdits \in Nat
  BY IncrementalAssumption DEF IInv, TreeOK, Edit
<1>3. /\ t \in Nat /\ now <= t /\ t <= edits + 1 /\ edits' = edits + 1
      /\ edits' \in 0 .. MaxEdits
  <2>1. edits' = edits + 1
    BY DEF Edit
  <2> QED  BY <1>2, <2>1
<1>4. \A g \in Files : past[g] \subseteq past'[g]
  BY <1>1, <1>2
<1>5. JobsOK'
  <2>1. ASSUME NEW p \in Procs PROVE JobOK(job'[p], tree', mtime', past', vanished')
    <3> DEFINE j == job[p]
               x == IF j.pc = "idle" THEN j
                    ELSE [j EXCEPT !.quiet = FALSE,
                                   !.touched = @ \union ({f} \intersect DOMAIN j.run.files)]
    <3>1. job'[p] = x /\ vanished' = vanished
      BY DEF Edit
    <3>2. JobOK(j, tree, mtime, past, vanished)
      BY DEF IInv, JobsOK
    <3>3. \A g \in Files \ {f} : tree'[g] = tree[g]
      BY <1>1, <1>2
    <3> HIDE DEF j
    <3>4. JobOK(x, tree', mtime', past, vanished)
      BY <3>2, <3>3, EditKept
    <3> HIDE DEF x
    <3>5. vanished \subseteq vanished
      OBVIOUS
    <3>6. JobOK(x, tree', mtime', past', vanished)
      BY <1>4, <3>4, <3>5, JobKept
    <3> QED  BY <3>1, <3>6
  <2>2. DOMAIN job' = Procs
    BY DEF Edit
  <2> QED  BY <2>1, <2>2 DEF JobsOK
<1>6. LastOK'
  <2>1. vanished \subseteq vanished /\ RunOK(last, past, vanished)
    BY DEF IInv, LastOK
  <2>2. RunOK(last, past', vanished)
    BY <1>4, <2>1, RunKept
  <2> QED  BY <2>2 DEF IInv, LastOK, Edit
<1>7. TreeOK'
  <2>1. tree' \in [Files -> Contents \union {Absent}] /\ mtime' \in [Files -> 0 .. now']
    BY <1>1, <1>2, <1>3
  <2>2. past' \in [Files -> SUBSET [content : Contents \union {Absent}, mtime : Nat]]
    <3>1. [content |-> c, mtime |-> t] \in [content : Contents \union {Absent}, mtime : Nat]
      BY <1>3
    <3> QED  BY <1>1, <1>2, <3>1
  <2>3. \A g \in Files : [content |-> tree'[g], mtime |-> mtime'[g]] \in past'[g]
    BY <1>1, <1>2
  <2>4. now' \in Nat /\ now' <= edits'
    BY <1>1, <1>3
  <2> QED  BY <1>3, <2>1, <2>2, <2>3, <2>4 DEF IInv, TreeOK, Edit
<1> QED
  BY <1>5, <1>6, <1>7 DEF IInv

LEMMA ConfigPreserves == ASSUME IInv, ChangeRoots \/ Upgrade PROVE IInv'
<1>1. /\ edits' = edits + 1 /\ edits' \in 0 .. MaxEdits /\ now \in Nat /\ now <= edits'
      /\ UNCHANGED <<tree, mtime, now, past, versioned, last, job, jobs, clock, vanished>>
  BY IncrementalAssumption DEF IInv, TreeOK, ChangeRoots, Upgrade
<1>2. config' \in [roots : SourceRoots, version : Versions]
  <2>1. config \in [roots : SourceRoots, version : Versions]
    BY DEF IInv, TreeOK
  <2>2. CASE ChangeRoots
    BY <2>1, <2>2 DEF ChangeRoots
  <2>3. CASE Upgrade
    BY <2>1, <2>3 DEF Upgrade
  <2> QED  BY <2>2, <2>3
<1>3. TreeOK'
  BY <1>1, <1>2 DEF IInv, TreeOK
<1>4. LastOK' /\ JobsOK'
  BY <1>1 DEF IInv, LastOK, JobsOK
<1> QED
  BY <1>3, <1>4 DEF IInv

LEMMA InitEstablishes == Init => IInv
<1> SUFFICES ASSUME Init PROVE IInv
  OBVIOUS
<1>1. TreeOK
  <2>1. \A g \in Files : past[g] = {[content |-> tree[g], mtime |-> 0]} /\ mtime[g] = 0
    BY DEF Init
  <2>2. \A g \in Files : [content |-> tree[g], mtime |-> 0] \in
                            [content : Contents \union {Absent}, mtime : Nat]
    BY DEF Init
  <2>3. past \in [Files -> SUBSET [content : Contents \union {Absent}, mtime : Nat]]
    <3>1. \A g \in Files : past[g] \in SUBSET [content : Contents \union {Absent}, mtime : Nat]
      BY <2>1, <2>2
    <3>2. past = [g \in Files |-> past[g]]
      BY DEF Init
    <3> QED  BY <3>1, <3>2
  <2>4. mtime \in [Files -> 0 .. now] /\ now = 0
    BY DEF Init
  <2>5. config \in [roots : SourceRoots, version : Versions]
    BY IncrementalAssumption DEF Init
  <2> QED  BY <2>1, <2>3, <2>4, <2>5, IncrementalAssumption DEF Init, TreeOK
<1>2. LastOK
  BY NoRunType DEF Init, LastOK, RunOK
<1>3. JobsOK
  BY IdleOK DEF Init, JobsOK
<1> QED
  BY <1>1, <1>2, <1>3 DEF IInv

LEMMA NextPreserves == ASSUME IInv, [Next]_vars PROVE IInv'
<1>1. ASSUME NEW f \in Files, Edit(f) PROVE IInv'
  BY <1>1, EditPreserves
<1>2. CASE ChangeRoots \/ Upgrade
  BY <1>2, ConfigPreserves
<1>3. ASSUME NEW p \in Procs, Start(p) PROVE IInv'
  BY <1>3, StartPreserves
<1>4. ASSUME NEW p \in Procs, Stat(p) PROVE IInv'
  BY <1>4, StatPreserves
<1>5. ASSUME NEW p \in Procs, Read(p) PROVE IInv'
  BY <1>5, ReadPreserves
<1>6. ASSUME NEW p \in Procs, FinishScan(p) PROVE IInv'
  BY <1>6, FinishScanPreserves
<1>7. ASSUME NEW p \in Procs, Load(p) PROVE IInv'
  BY <1>7, LoadPreserves
<1>8. ASSUME NEW p \in Procs, DetectSourceRoots(p) PROVE IInv'
  BY <1>8, DetectPreserves
<1>9. ASSUME NEW p \in Procs, Analyze(p) PROVE IInv'
  BY <1>9, AnalyzePreserves
<1>10. ASSUME NEW p \in Procs, Save(p) PROVE IInv'
  BY <1>10, SavePreserves
<1>11. ASSUME NEW p \in Procs, Crash(p) PROVE IInv'
  BY <1>11, CrashPreserves
<1>12. CASE UNCHANGED vars
  BY <1>12 DEF IInv, TreeOK, LastOK, JobsOK, vars, treeVars
<1> QED
  BY <1>1, <1>2, <1>3, <1>4, <1>5, <1>6, <1>7, <1>8, <1>9, <1>10, <1>11, <1>12 DEF Next

\* What the theorems below rest on.
THEOREM Invariance == Spec => []IInv
<1>1. Init => IInv
  BY InitEstablishes
<1>2. IInv /\ [Next]_vars => IInv'
  BY NextPreserves
<1> QED
  BY <1>1, <1>2, PTL DEF Spec

-----------------------------------------------------------------------------
(* The properties.                                                         *)

LEMMA RunIsTyped == ASSUME NEW r \in RunType PROVE IsRun(r)
<1>1. r.files \in Maps(FileRecord) /\ r.modules \in Maps(Module)
  BY DEF RunType
<1> QED
  BY <1>1, MapFacts DEF IsRun

\* Every variable keeps its type: a record of a run, stored or in the making, describes a
\* content that was there, also of a file that vanished or was too large to hash
\* (scanner.py:57-80, 182-207).
THEOREM TypeCorrect == Spec => []IndexTypeOK
<1>1. IInv => IndexTypeOK
  <2> SUFFICES ASSUME IInv PROVE IndexTypeOK
    OBVIOUS
  <2>1. last \in RunType
    BY DEF IInv, LastOK, RunOK
  <2>2. ASSUME NEW p \in Procs
        PROVE  /\ job[p].pc \in {"idle", "stat", "read", "load", "detect", "analyze", "checked"}
               /\ job[p].todo \subseteq Files
               /\ job[p].run \in RunType /\ job[p].prev \in RunType
    BY DEF IInv, JobsOK, JobOK, Job
  <2>3. now \in 0 .. MaxEdits
    BY IncrementalAssumption DEF IInv, TreeOK
  <2>4. IsRun(last) /\ \A p \in Procs : IsRun(job[p].run) /\ IsRun(job[p].prev)
    BY <2>1, <2>2, RunIsTyped
  <2> QED  BY <2>2, <2>3, <2>4 DEF IInv, TreeOK, IndexTypeOK
<1> QED
  BY <1>1, Invariance, PTL

\* The module stored for a file is of the content its record describes, but for the
\* races and the rewrites that the property names (registry.py:107-126, models.py:227-250).
THEOREM ModuleFits == Spec => []ModuleFitsFingerprint
<1>1. IInv => ModuleFitsFingerprint
  BY DEF IInv, LastOK, RunOK, ModuleOK, Rewritten, UnhashedRewrite, ModuleFitsFingerprint
<1> QED
  BY <1>1, Invariance, PTL

\* A stored run holds modules of one analyzer, however runs and upgrades interleave
\* (registry.py:93-98, 138-151).
THEOREM OneAnalyzer == Spec => []OneAnalyzerPerRun
<1>1. IInv => OneAnalyzerPerRun
  BY DEF IInv, LastOK, RunOK, ModuleOK, OneAnalyzerPerRun
<1> QED
  BY <1>1, Invariance, PTL

\* An index of a tree that stays still is a full one: the same files, and for each the
\* module of its content (main.py:87-107, registry.py:80-135).
THEOREM QuietIndex == Spec => []QuietIndexIsFull
<1>1. IInv => QuietIndexIsFull
  <2> SUFFICES ASSUME IInv, NEW p \in Procs, Analyzed(p), job[p].quiet
               PROVE  /\ DOMAIN job[p].run.modules = Present
                      /\ \A f \in Present :
                            \/ job[p].run.modules[f].content = tree[f]
                            \/ f \in DOMAIN job[p].prev.modules /\ job[p].prev.modules[f].raced
                            \/ UnhashedRewrite(f)
    BY DEF QuietIndexIsFull
  <2> DEFINE j == job[p]
  <2>1. /\ JobOK(j, tree, mtime, past, vanished)
        /\ j.pc = "analyze" /\ j.todo = {} /\ j.quiet
    BY DEF IInv, JobsOK, Analyzed
  <2> HIDE DEF j
  <2>2. j.touched = {} /\ DOMAIN j.run.files = Present
    BY <2>1 DEF JobOK, QuietOK, Present
  <2>3. DOMAIN j.run.modules = Present
    BY <2>1, <2>2 DEF JobOK, AnalysisOK
  <2>4. ASSUME NEW f \in Present
        PROVE  \/ j.run.modules[f].content = tree[f]
               \/ f \in DOMAIN j.prev.modules /\ j.prev.modules[f].raced
               \/ UnhashedRewrite(f)
    <3>1. tree[f] = j.run.files[f].seen
      BY <2>1, <2>2 DEF JobOK, ScanOK
    <3>2. /\ ModuleOK(f, j.run.files[f], j.run.modules[f], j.run.version, past, vanished)
          /\ j.run.modules[f].raced => f \in DOMAIN j.prev.modules /\ j.prev.modules[f].raced
      BY <2>1, <2>2, <2>3 DEF JobOK, AnalysisOK
    <3> QED  BY <3>1, <3>2 DEF ModuleOK, Rewritten, UnhashedRewrite
  <2> QED  BY <2>3, <2>4 DEF j
<1> QED
  BY <1>1, Invariance, PTL

\* What check reports of a tree that stays still is true (drift.py:35-57).
THEOREM DriftReport == Spec => []DriftReportIsRight
<1>1. IInv => DriftReportIsRight
  <2> SUFFICES ASSUME IInv, NEW p \in Procs, job[p].kind = "check", job[p].pc = "checked",
                      job[p].quiet
               PROVE  LET then == job[p].prev.files
                          drift == has_drift(then, job[p].run.files)
                      IN  /\ ~drift =>
                               /\ Present = DOMAIN then
                               /\ \A f \in Present : tree[f] = then[f].seen \/ UnhashedRewrite(f)
                          /\ drift =>
                               \/ Present # DOMAIN then
                               \/ \E f \in Present : \/ tree[f] # then[f].seen
                                                       \/ mtime[f] # then[f].mtime
                                                       \/ tree[f].size # then[f].size
    BY DEF DriftReportIsRight
  <2> DEFINE j == job[p]
             then == j.prev.files
             current == j.run.files
  <2>1. /\ JobOK(j, tree, mtime, past, vanished)
        /\ j.pc = "checked" /\ j.quiet
    BY DEF IInv, JobsOK
  <2>2. /\ then \in Maps(FileRecord) /\ current \in Maps(FileRecord)
        /\ \A f \in DOMAIN then : RecordOK(f, then[f], past, vanished)
        /\ \A f \in DOMAIN current : RecordOK(f, current[f], past, vanished)
    BY <2>1 DEF JobOK, Job, RunType, RunOK, ScanOK, Pending
  <2>3. DOMAIN current = Present
    BY <2>1 DEF JobOK, QuietOK, Present
  <2>4. \A f \in Present : /\ tree[f] = current[f].seen
                           /\ current[f].size = tree[f].size /\ current[f].mtime = mtime[f]
    BY <2>1, <2>3 DEF JobOK, QuietOK, ScanOK
  <2> HIDE DEF then, current
  <2>5. /\ \A f \in DOMAIN then : then[f] \in FileRecord
        /\ \A f \in DOMAIN current : current[f] \in FileRecord
    BY <2>2, MapFacts
  <2>6. CASE ~has_drift(then, current)
    <3>1. DOMAIN then = Present
      BY <2>3, <2>6 DEF has_drift
    <3>2. ASSUME NEW f \in Present PROVE tree[f] = then[f].seen \/ UnhashedRewrite(f)
      <4>1. file_fingerprint_matches(then[f], current[f])
        BY <2>3, <2>6, <3>1 DEF has_drift
      <4>2. then[f].seen = current[f].seen \/ Rewritten(f, past, vanished)
        BY <2>2, <2>3, <2>5, <3>1, <4>1, MatchMeansSame
      <4> QED  BY <2>4, <4>2 DEF Rewritten, UnhashedRewrite
    <3> QED  BY <2>6, <3>1, <3>2 DEF then, current, j
  <2>7. CASE has_drift(then, current)
    <3>1. ASSUME DOMAIN then = Present,
                 \A f \in Present : /\ tree[f] = then[f].seen /\ mtime[f] = then[f].mtime
                                    /\ tree[f].size = then[f].size
          PROVE  FALSE
      <4>1. PICK f \in Present : ~file_fingerprint_matches(then[f], current[f])
        BY <2>3, <2>7, <3>1 DEF has_drift
      <4>2. then[f].seen = current[f].seen /\ then[f].size = current[f].size
              /\ then[f].mtime = current[f].mtime
        BY <2>4, <3>1
      <4>3. RecordOK(f, then[f], past, vanished) /\ RecordOK(f, current[f], past, vanished)
        BY <2>2, <2>3, <3>1
      <4> QED  BY <4>1, <4>2, <4>3 DEF RecordOK, file_fingerprint_matches
    <3> QED  BY <2>7, <3>1 DEF then, current, j
  <2> QED  BY <2>6, <2>7
<1> QED
  BY <1>1, Invariance, PTL
=============================================================================
