-------------------------- MODULE ManualCacheProofs --------------------------
(***************************************************************************)
(* Proofs about ManualCache, for any number of processes, modules,         *)
(* contents, models and releases: what the cache holds, what manual shows, *)
(* and what can end a run.                                                 *)
(*                                                                         *)
(* The argument: a key stays stored once it is (StoredKeys grows), a hash  *)
(* stays raced once it is, and a run's state depends on the cache through  *)
(* these two sets alone.  So the invariant of a run (RunOK) is stated of   *)
(* its record and the two sets, survives the steps of all others           *)
(* (RunKept), and is checked for each step of its own.                     *)
(***************************************************************************)
EXTENDS ManualCache, SequenceTheorems, FiniteSetTheorems, TLAPS

-----------------------------------------------------------------------------
(* The inductive invariant.                                                *)

Lines == {{s} : s \in Summary} \union {Unavailable}

Run == [pc : Active \union {"done", "duplicate key"}, files : [Paths -> Record],
        path : 1 .. N + 1, lines : Seq(Lines), model : Models,
        version : 1 .. MaxVersion, known : SUBSET Key, seen : SUBSET Key]

Halted == [pc : {"idle", "killed", "unexpected error"}]

Row == [key : Key, summary : Summary]

StoredKeys == {row.key : row \in cache}

\* A record whose hash was never raced has the facts of the content it was hashed from.
HashFits(record, hashes) ==
    record.hash = NoHash \/ record.facts.of = record.hash \/ record.hash \in hashes

\* The summary in a line is the run's own, or that of another run which agrees with it.
LineFits(r, p, line, hashes) ==
    \A summary \in line :
        /\ summary.model = r.model /\ summary.version = r.version
        /\ IF r.files[p].hash = NoHash THEN summary.facts = r.files[p].facts
           ELSE summary.facts.of = r.files[p].facts.of \/ r.files[p].hash \in hashes

KeyOf(r) == [hash |-> r.files[r.path].hash, version |-> r.version, model |-> r.model]

\* What holds of a run when these keys are stored and these hashes are raced.
RunOK(r, keys, hashes) ==
    /\ r \in Run
    /\ r.pc \in Active \union {"duplicate key"} => r.path \in Paths
    /\ r.pc = "done" => r.path = N + 1
    /\ Len(r.lines) = r.path - 1
    /\ \A p \in DOMAIN r.lines : LineFits(r, p, r.lines[p], hashes)
    /\ \A p \in Paths : HashFits(r.files[p], hashes)
    /\ r.known \subseteq keys
    /\ r.pc \in {"select", "write", "duplicate key"} => r.files[r.path].hash # NoHash
    /\ r.pc \in {"ask", "select", "write", "duplicate key"} /\ r.files[r.path].hash # NoHash =>
          KeyOf(r) \notin r.known
    /\ r.pc = "duplicate key" => KeyOf(r) \in keys \ r.seen

\* One row for each key, with a summary made for that key.
CacheOK ==
    /\ cache \subseteq Row
    /\ \A x, y \in cache : x.key = y.key => x = y
    /\ \A row \in cache :
          /\ row.summary.model = row.key.model /\ row.summary.version = row.key.version
          /\ row.summary.facts.of = row.key.hash \/ row.key.hash \in raced

EnvironmentOK ==
    /\ snapshot \in [Paths -> Record]
    /\ \A p \in Paths : HashFits(snapshot[p], raced)
    /\ raced \subseteq Contents
    /\ indexes \in 0 .. MaxIndexes /\ version \in 1 .. MaxVersion /\ runs \in 0 .. MaxRuns

RunsOK ==
    /\ DOMAIN manual = Manuals
    /\ \A m \in Manuals : manual[m] \in Halted \/ RunOK(manual[m], StoredKeys, raced)

IInv == EnvironmentOK /\ CacheOK /\ RunsOK

-----------------------------------------------------------------------------
(* Facts about the records.                                                *)

\* More stored keys and more raced hashes do not disturb a run.
LEMMA RunKept ==
    ASSUME NEW r, NEW keys, NEW moreKeys, keys \subseteq moreKeys,
           NEW hashes, NEW moreHashes, hashes \subseteq moreHashes,
           RunOK(r, keys, hashes)
    PROVE  RunOK(r, moreKeys, moreHashes)
<1>1. \A p \in DOMAIN r.lines : LineFits(r, p, r.lines[p], moreHashes)
  BY DEF RunOK, LineFits
<1>2. \A p \in Paths : HashFits(r.files[p], moreHashes)
  BY DEF RunOK, HashFits
<1> QED
  BY <1>1, <1>2 DEF RunOK

\* The record of the module whose turn it is.
LEMMA CurrentRecord ==
    ASSUME NEW r, NEW keys, NEW hashes, RunOK(r, keys, hashes),
           r.pc \in Active \union {"duplicate key"}
    PROVE  /\ r.path \in Paths /\ r.files[r.path] \in Record
           /\ r.files[r.path].hash # NoHash => KeyOf(r) \in Key
<1>1. r.path \in Paths /\ r.files[r.path] \in Record
  BY DEF RunOK, Run
<1>2. r.model \in Models /\ r.version \in 1 .. MaxVersion
  BY DEF RunOK, Run
<1> QED
  BY <1>1, <1>2 DEF KeyOf, Key, Record

\* Setting fields of a run to values of their types.
LEMMA FieldsSet ==
    ASSUME NEW A, NEW B, NEW C, NEW D, NEW E, NEW F, NEW G, NEW H,
           NEW r \in [pc : A, files : B, path : C, lines : D, model : E, version : F,
                      known : G, seen : H],
           NEW pc \in A, NEW path \in C, NEW lines \in D, NEW seen \in H
    PROVE  [r EXCEPT !.lines = lines, !.path = path, !.seen = seen, !.pc = pc] \in
             [pc : A, files : B, path : C, lines : D, model : E, version : F,
              known : G, seen : H]
  OBVIOUS

LEMMA RunUpdateType ==
    ASSUME NEW r \in Run, NEW pc \in Active \union {"done", "duplicate key"},
           NEW path \in 1 .. N + 1, NEW lines \in Seq(Lines), NEW seen \in SUBSET Key
    PROVE  [r EXCEPT !.lines = lines, !.path = path, !.seen = seen, !.pc = pc] \in Run
  BY FieldsSet DEF Run

\* The types of the fields.
LEMMA RunFields ==
    ASSUME NEW r \in Run
    PROVE  r.lines \in Seq(Lines) /\ r.path \in 1 .. N + 1
  BY DEF Run

\* Writing a line leaves a run as it should be.
LEMMA WithLineOK ==
    ASSUME NEW r, NEW keys, NEW hashes, RunOK(r, keys, hashes), r.pc \in Active,
           NEW line \in Lines, LineFits(r, r.path, line, hashes)
    PROVE  RunOK(WithLine(r, line), keys, hashes)
<1> DEFINE w == WithLine(r, line)
           pc == IF r.path + 1 \in Paths THEN "get" ELSE "done"
<1>1. r \in Run /\ r.path \in 1 .. N /\ Len(r.lines) = r.path - 1
  BY DEF RunOK, Paths
<1>2. /\ w.pc = pc /\ w.files = r.files /\ w.path = r.path + 1
      /\ w.lines = Append(r.lines, line) /\ w.model = r.model
      /\ w.version = r.version /\ w.known = r.known /\ w.seen = {}
  BY <1>1 DEF WithLine, Run
<1>3. w = [r EXCEPT !.lines = Append(r.lines, line), !.path = r.path + 1,
                    !.seen = {}, !.pc = pc]
  BY <1>1 DEF WithLine, Run
<1>4. r.lines \in Seq(Lines) /\ r.path + 1 \in 1 .. N + 1
  BY <1>1, NAssumption, RunFields
<1>5. /\ Append(r.lines, line) \in Seq(Lines)
      /\ Len(Append(r.lines, line)) = Len(r.lines) + 1
      /\ Append(r.lines, line)[Len(r.lines) + 1] = line
      /\ \A p \in 1 .. Len(r.lines) : Append(r.lines, line)[p] = r.lines[p]
  BY <1>4, AppendProperties
<1>6. w \in Run
  <2>1. pc \in Active \union {"done", "duplicate key"}
    BY DEF Active
  <2> HIDE DEF pc, w
  <2> QED
    BY <1>1, <1>3, <1>4, <1>5, <2>1, RunUpdateType
<1>7. w.pc = "get" => w.path \in Paths
  BY <1>2
<1>8. w.pc = "done" => w.path = N + 1
  BY <1>1, <1>2, NAssumption DEF Paths
<1>9. Len(w.lines) = w.path - 1
  BY <1>1, <1>2, <1>5
<1>10. ASSUME NEW p \in DOMAIN w.lines PROVE LineFits(w, p, w.lines[p], hashes)
  <2>1. DOMAIN w.lines = 1 .. Len(r.lines) + 1 /\ Len(r.lines) \in Nat
    BY <1>2, <1>4, <1>5
  <2>2. CASE p = Len(r.lines) + 1
    <3>1. p = r.path /\ w.lines[p] = line
      BY <1>1, <1>2, <1>5, <2>2
    <3> QED
      BY <1>2, <3>1 DEF LineFits
  <2>3. CASE p \in 1 .. Len(r.lines)
    <3>1. w.lines[p] = r.lines[p] /\ p \in DOMAIN r.lines
      BY <1>2, <1>4, <1>5, <2>3
    <3>2. LineFits(r, p, r.lines[p], hashes)
      BY <3>1 DEF RunOK
    <3> QED
      BY <1>2, <3>1, <3>2 DEF LineFits
  <2> QED
    BY <2>1, <2>2, <2>3
<1>11. w.pc \in {"get", "done"}
  BY <1>2
<1>12. \A p \in Paths : HashFits(w.files[p], hashes)
  BY <1>2 DEF RunOK
<1>13. w.known \subseteq keys
  BY <1>2 DEF RunOK
<1> HIDE DEF w, pc
<1>14. RunOK(w, keys, hashes)
  BY <1>6, <1>7, <1>8, <1>9, <1>10, <1>11, <1>12, <1>13 DEF RunOK, Active
<1> QED
  BY <1>14 DEF w

\* A step of a run that writes no line.
LEMMA StepOK ==
    ASSUME NEW r, NEW keys, NEW hashes, RunOK(r, keys, hashes), r.pc \in Active,
           NEW pc \in Active \union {"duplicate key"}, NEW seen \in SUBSET Key,
           pc \in {"select", "write", "duplicate key"} => r.files[r.path].hash # NoHash,
           pc \in {"ask", "select", "write", "duplicate key"}
             /\ r.files[r.path].hash # NoHash => KeyOf(r) \notin r.known,
           pc = "duplicate key" => KeyOf(r) \in keys \ seen
    PROVE  RunOK([r EXCEPT !.pc = pc, !.seen = seen], keys, hashes)
<1> DEFINE w == [r EXCEPT !.pc = pc, !.seen = seen]
<1>1. r \in Run /\ r.path \in Paths
  BY DEF RunOK
<1>3. /\ w.pc = pc /\ w.files = r.files /\ w.path = r.path /\ w.lines = r.lines
      /\ w.model = r.model /\ w.version = r.version /\ w.known = r.known /\ w.seen = seen
  BY <1>1 DEF Run
<1>4. w \in Run
  BY <1>1 DEF Run
<1> HIDE DEF w
<1>5. KeyOf(w) = KeyOf(r)
  BY <1>3 DEF KeyOf
<1>6. \A p \in DOMAIN w.lines : LineFits(w, p, w.lines[p], hashes)
  BY <1>3 DEF RunOK, LineFits
<1>7. Len(w.lines) = w.path - 1 /\ \A p \in Paths : HashFits(w.files[p], hashes)
  BY <1>3 DEF RunOK
<1>8. w.known \subseteq keys /\ w.pc # "done"
  BY <1>3 DEF RunOK, Active
<1>9. RunOK(w, keys, hashes)
  BY <1>1, <1>3, <1>4, <1>5, <1>6, <1>7, <1>8 DEF RunOK
<1> QED
  BY <1>9 DEF w

\* The same, for a step that sets pc alone.
LEMMA MoveOK ==
    ASSUME NEW r, NEW keys, NEW hashes, RunOK(r, keys, hashes), r.pc \in Active,
           NEW pc \in Active \union {"duplicate key"},
           pc \in {"select", "write", "duplicate key"} => r.files[r.path].hash # NoHash,
           pc \in {"ask", "select", "write", "duplicate key"}
             /\ r.files[r.path].hash # NoHash => KeyOf(r) \notin r.known,
           pc = "duplicate key" => KeyOf(r) \in keys \ r.seen
    PROVE  RunOK([r EXCEPT !.pc = pc], keys, hashes)
<1>1. r \in Run /\ r.seen \in SUBSET Key
  BY DEF RunOK, Run
<1>2. RunOK([r EXCEPT !.pc = pc, !.seen = r.seen], keys, hashes)
  BY <1>1, StepOK
<1>3. [r EXCEPT !.pc = pc, !.seen = r.seen] = [r EXCEPT !.pc = pc]
  BY <1>1 DEF Run
<1> QED
  BY <1>2, <1>3

\* A run in one of these states is a run and not a process without one.
LEMMA RunOfActive ==
    ASSUME RunsOK, NEW m \in Manuals, manual[m].pc \in Active \union {"done", "duplicate key"}
    PROVE  RunOK(manual[m], StoredKeys, raced)
  BY DEF RunsOK, Halted, Active

\* The step of one process keeps the others' runs, whatever it stores.
LEMMA OneRunSteps ==
    ASSUME RunsOK, NEW m \in Manuals, NEW x,
           manual' = [manual EXCEPT ![m] = x],
           StoredKeys \subseteq StoredKeys', raced \subseteq raced',
           x \in Halted \/ RunOK(x, StoredKeys', raced')
    PROVE  RunsOK'
<1>1. DOMAIN manual' = Manuals
  BY DEF RunsOK
<1>2. ASSUME NEW o \in Manuals
      PROVE  manual'[o] \in Halted \/ RunOK(manual'[o], StoredKeys', raced')
  <2>1. CASE o = m
    BY <2>1 DEF RunsOK
  <2>2. CASE o # m
    <3>1. manual'[o] = manual[o]
      BY <2>2 DEF RunsOK
    <3>2. manual[o] \in Halted \/ RunOK(manual[o], StoredKeys, raced)
      BY DEF RunsOK
    <3> QED
      BY <3>1, <3>2, RunKept
  <2> QED
    BY <2>1, <2>2
<1> QED
  BY <1>1, <1>2 DEF RunsOK

\* What a file's record says fits the summary made of it.
LEMMA OwnLineFits ==
    ASSUME RunsOK, NEW m \in Manuals, manual[m].pc \in Active
    PROVE  /\ summarize_file(m) \in Summary
           /\ {summarize_file(m)} \in Lines
           /\ LineFits(manual[m], manual[m].path, {summarize_file(m)}, raced)
<1>1. RunOK(manual[m], StoredKeys, raced)
  BY RunOfActive
<1>2. manual[m].files[manual[m].path] \in Record
  BY <1>1, CurrentRecord
<1>3. manual[m].model \in Models /\ manual[m].version \in 1 .. MaxVersion
  BY <1>1 DEF RunOK, Run
<1>4. summarize_file(m) \in Summary
  BY <1>2, <1>3 DEF summarize_file, File, Summary, Record
<1>5. LineFits(manual[m], manual[m].path, {summarize_file(m)}, raced)
  BY DEF LineFits, summarize_file, File
<1> QED
  BY <1>4, <1>5 DEF Lines

-----------------------------------------------------------------------------
(* IInv is inductive.                                                      *)

\* A hash stored with another content's facts is raced from then on.
LEMMA StoredFits ==
    ASSUME NEW s \in [Paths -> Record], NEW hashes, Raced(s) \subseteq hashes
    PROVE  \A p \in Paths : HashFits(s[p], hashes)
<1> SUFFICES ASSUME NEW p \in Paths, s[p].hash # NoHash, s[p].facts.of # s[p].hash
             PROVE  s[p].hash \in Raced(s)
  BY DEF HashFits
<1>1. s[p].hash \in Contents
  BY DEF Record
<1> QED
  BY <1>1 DEF Raced

\* What index stores are records of their type.
LEMMA IndexedType ==
    ASSUME NEW release \in 1 .. MaxVersion, NEW s \in Indexed(release)
    PROVE  s \in [Paths -> Record]
<1>1. PICK hash \in [Paths -> Contents \union {NoHash}], of \in [Paths -> Contents],
           name \in [Paths -> Names] :
        s = [p \in Paths |-> [hash |-> hash[p], facts |-> [of |-> of[p], path |-> p,
                             name |-> name[p], analyzer |-> release]]]
  BY DEF Indexed
<1>2. \A p \in Paths : /\ hash[p] \in Contents \union {NoHash}
                       /\ of[p] \in Contents /\ name[p] \in Names
  OBVIOUS
<1>3. \A p \in Paths : s[p] \in Record
  BY <1>1, <1>2 DEF Record, Facts
<1> QED
  BY <1>1, <1>3

LEMMA InitEstablishes == Init => IInv
<1> SUFFICES ASSUME Init PROVE IInv
  OBVIOUS
<1>1. snapshot \in [Paths -> Record] /\ raced \subseteq Contents
  <2>1. 1 \in 1 .. MaxVersion
    BY BoundsAssumption
  <2> QED
    BY <2>1, IndexedType DEF Init, Raced
<1>2. EnvironmentOK
  <2>1. \A p \in Paths : HashFits(snapshot[p], raced)
    BY <1>1, StoredFits DEF Init
  <2>2. indexes \in 0 .. MaxIndexes /\ version \in 1 .. MaxVersion /\ runs \in 0 .. MaxRuns
    BY BoundsAssumption DEF Init
  <2> QED
    BY <1>1, <2>1, <2>2 DEF EnvironmentOK
<1>3. CacheOK
  BY DEF Init, CacheOK
<1>4. RunsOK
  BY DEF Init, RunsOK, Halted, Idle
<1> QED
  BY <1>2, <1>3, <1>4 DEF IInv

LEMMA ReindexPreserves == ASSUME IInv, Reindex PROVE IInv'
<1>1. snapshot' \in [Paths -> Record] /\ raced' \subseteq Contents /\ raced \subseteq raced'
  <2>1. version \in 1 .. MaxVersion /\ raced \subseteq Contents
    BY DEF IInv, EnvironmentOK
  <2>2. snapshot' \in Indexed(version) /\ raced' = raced \union Raced(snapshot')
    BY DEF Reindex
  <2> QED
    BY <2>1, <2>2, IndexedType DEF Raced
<1>2. EnvironmentOK'
  <2>1. \A p \in Paths : HashFits(snapshot'[p], raced')
    BY <1>1, StoredFits DEF Reindex
  <2>2. indexes' \in 0 .. MaxIndexes /\ version' = version /\ runs' = runs
    BY BoundsAssumption DEF Reindex, IInv, EnvironmentOK
  <2> QED
    BY <1>1, <2>1, <2>2 DEF EnvironmentOK, IInv
<1>3. cache' = cache /\ manual' = manual /\ StoredKeys' = StoredKeys
  BY DEF Reindex, StoredKeys
<1>4. CacheOK'
  BY <1>1, <1>3 DEF CacheOK, IInv
<1>5. RunsOK'
  <2>1. \A m \in Manuals : manual[m] \in Halted \/ RunOK(manual[m], StoredKeys, raced')
    BY <1>1, RunKept DEF IInv, RunsOK
  <2> QED
    BY <1>3, <2>1 DEF IInv, RunsOK
<1> QED
  BY <1>2, <1>4, <1>5 DEF IInv

LEMMA UpgradePreserves == ASSUME IInv, Upgrade PROVE IInv'
<1>1. version' \in 1 .. MaxVersion
  BY BoundsAssumption DEF Upgrade, IInv, EnvironmentOK
<1> QED
  BY <1>1 DEF Upgrade, IInv, EnvironmentOK, CacheOK, RunsOK, StoredKeys

\* What a step of manual that leaves the cache alone has to show.
LEMMA CacheUntouched ==
    ASSUME IInv, UNCHANGED <<snapshot, raced, indexes, version, cache>>,
           runs' \in 0 .. MaxRuns
    PROVE  EnvironmentOK' /\ CacheOK' /\ StoredKeys' = StoredKeys /\ raced' = raced
  BY DEF IInv, EnvironmentOK, CacheOK, StoredKeys

LEMMA StartPreserves ==
    ASSUME IInv, NEW m \in Manuals, NEW model \in Models, Start(m, model) PROVE IInv'
<1> DEFINE r == [pc |-> "get", files |-> snapshot, path |-> 1, lines |-> <<>>,
                 model |-> model, version |-> version,
                 known |-> {row.key : row \in cache}, seen |-> {}]
<1>1. manual' = [manual EXCEPT ![m] = r]
  BY DEF Start
<1>2. runs' \in 0 .. MaxRuns
  BY BoundsAssumption DEF Start, IInv, EnvironmentOK
<1>3. EnvironmentOK' /\ CacheOK' /\ StoredKeys' = StoredKeys /\ raced' = raced
  BY <1>2, CacheUntouched DEF Start
<1>4. RunOK(r, StoredKeys, raced)
  <2>1. r \in Run
    <3>1. 1 \in 1 .. N + 1 /\ <<>> \in Seq(Lines) /\ "get" \in Active
      BY NAssumption DEF Active
    <3>2. {row.key : row \in cache} \in SUBSET Key
      BY DEF IInv, CacheOK, Row
    <3>3. snapshot \in [Paths -> Record] /\ version \in 1 .. MaxVersion
      BY DEF IInv, EnvironmentOK
    <3> QED
      BY <3>1, <3>2, <3>3 DEF Run
  <2>2. r.path \in Paths /\ Len(r.lines) = r.path - 1 /\ DOMAIN r.lines = {}
    BY NAssumption DEF Paths
  <2>3. \A p \in Paths : HashFits(r.files[p], raced)
    BY DEF IInv, EnvironmentOK
  <2>4. r.known \subseteq StoredKeys /\ r.pc = "get"
    BY DEF StoredKeys
  <2> HIDE DEF r
  <2> QED
    BY <2>1, <2>2, <2>3, <2>4 DEF RunOK
<1> HIDE DEF r
<1>5. RunsOK'
  BY <1>1, <1>3, <1>4, OneRunSteps DEF IInv
<1> QED
  BY <1>3, <1>5 DEF IInv

LEMMA GetCachedPreserves == ASSUME IInv, NEW m \in Manuals, GetCached(m) PROVE IInv'
<1> DEFINE r == manual[m]
           key == summary_cache_key(m)
<1>1. EnvironmentOK' /\ CacheOK' /\ StoredKeys' = StoredKeys /\ raced' = raced
  BY CacheUntouched DEF GetCached, IInv, EnvironmentOK
<1>2. r.pc = "get" /\ r.pc \in Active /\ RunOK(r, StoredKeys, raced)
  BY RunOfActive DEF GetCached, IInv, Active
<1>3. key = KeyOf(r) /\ (Cacheable(m) <=> r.files[r.path].hash # NoHash)
  BY DEF summary_cache_key, KeyOf, Cacheable, File
<1>4. CASE Cacheable(m) /\ Rows(key) # {}
  <2> DEFINE line == {row.summary : row \in Rows(key)}
  <2>1. manual' = [manual EXCEPT ![m] = WithLine(r, line)]
    BY <1>4 DEF GetCached
  <2>2. PICK row \in cache : row.key = key
    BY <1>4 DEF Rows
  <2>3. line = {row.summary}
    BY <2>2 DEF IInv, CacheOK, Rows
  <2>4. line \in Lines
    BY <2>2, <2>3 DEF Lines, IInv, CacheOK, Row
  <2>5. LineFits(r, r.path, line, raced)
    <3>1. row.summary.model = r.model /\ row.summary.version = r.version
      BY <1>3, <2>2 DEF KeyOf, IInv, CacheOK
    <3>2. \/ row.summary.facts.of = r.files[r.path].hash
          \/ r.files[r.path].hash \in raced
      BY <1>3, <2>2 DEF KeyOf, IInv, CacheOK
    <3>3. HashFits(r.files[r.path], raced)
      BY <1>2, CurrentRecord DEF RunOK
    <3> QED
      BY <1>3, <1>4, <2>3, <3>1, <3>2, <3>3 DEF LineFits, HashFits
  <2> HIDE DEF line, r
  <2>6. RunOK(WithLine(r, line), StoredKeys, raced)
    BY <1>2, <2>4, <2>5, WithLineOK
  <2> QED
    BY <1>1, <2>1, <2>6, OneRunSteps DEF IInv
<1>5. CASE ~(Cacheable(m) /\ Rows(key) # {})
  <2>1. manual' = [manual EXCEPT ![m] = [r EXCEPT !.pc = "ask"]]
    BY <1>5 DEF GetCached
  <2>2. r.files[r.path].hash # NoHash => KeyOf(r) \notin r.known
    BY <1>2, <1>3, <1>5 DEF RunOK, StoredKeys, Rows
  <2>3. "ask" \in Active
    BY DEF Active
  <2> HIDE DEF r
  <2>4. RunOK([r EXCEPT !.pc = "ask"], StoredKeys, raced)
    BY <1>2, <2>2, <2>3, MoveOK
  <2> QED
    BY <1>1, <2>1, <2>4, OneRunSteps DEF IInv
<1> QED
  BY <1>4, <1>5

LEMMA SummarizePreserves == ASSUME IInv, NEW m \in Manuals, Summarize(m) PROVE IInv'
<1> DEFINE r == manual[m]
<1>1. EnvironmentOK' /\ CacheOK' /\ StoredKeys' = StoredKeys /\ raced' = raced
  BY CacheUntouched DEF Summarize, IInv, EnvironmentOK
<1>2. r.pc = "ask" /\ r.pc \in Active /\ RunOK(r, StoredKeys, raced)
  BY RunOfActive DEF Summarize, IInv, Active
<1>3. CASE Cacheable(m)
  <2>1. manual' = [manual EXCEPT ![m] = [r EXCEPT !.pc = "select"]]
    BY <1>3 DEF Summarize
  <2>2. r.files[r.path].hash # NoHash /\ KeyOf(r) \notin r.known
    BY <1>2, <1>3 DEF RunOK, Cacheable, File
  <2>3. "select" \in Active
    BY DEF Active
  <2> HIDE DEF r
  <2>4. RunOK([r EXCEPT !.pc = "select"], StoredKeys, raced)
    BY <1>2, <2>2, <2>3, MoveOK
  <2> QED
    BY <1>1, <2>1, <2>4, OneRunSteps DEF IInv
<1>4. CASE ~Cacheable(m)
  <2> DEFINE line == {summarize_file(m)}
  <2>1. manual' = [manual EXCEPT ![m] = WithLine(r, line)]
    BY <1>4 DEF Summarize
  <2>2. line \in Lines /\ LineFits(r, r.path, line, raced)
    BY <1>2, OwnLineFits DEF IInv
  <2> HIDE DEF line, r
  <2>3. RunOK(WithLine(r, line), StoredKeys, raced)
    BY <1>2, <2>2, WithLineOK
  <2> QED
    BY <1>1, <2>1, <2>3, OneRunSteps DEF IInv
<1> QED
  BY <1>3, <1>4

LEMMA SummarizeFailsPreserves ==
    ASSUME IInv, NEW m \in Manuals, SummarizeFails(m) PROVE IInv'
<1> DEFINE r == manual[m]
<1>1. EnvironmentOK' /\ CacheOK' /\ StoredKeys' = StoredKeys /\ raced' = raced
  BY CacheUntouched DEF SummarizeFails, IInv, EnvironmentOK
<1>2. r.pc \in Active /\ RunOK(r, StoredKeys, raced)
  BY RunOfActive DEF SummarizeFails, IInv, Active
<1>3. Unavailable \in Lines /\ LineFits(r, r.path, Unavailable, raced)
  BY DEF Lines, LineFits, Unavailable
<1>4. manual' = [manual EXCEPT ![m] = WithLine(r, Unavailable)]
  BY DEF SummarizeFails
<1> HIDE DEF r
<1>5. RunOK(WithLine(r, Unavailable), StoredKeys, raced)
  BY <1>2, <1>3, WithLineOK
<1> QED
  BY <1>1, <1>4, <1>5, OneRunSteps DEF IInv

\* The run ends by an error that is not caught, or is killed.
LEMMA EndPreserves ==
    ASSUME IInv, NEW m \in Manuals, SummarizeBreaks(m) \/ Crash(m) PROVE IInv'
<1>1. EnvironmentOK' /\ CacheOK' /\ StoredKeys' = StoredKeys /\ raced' = raced
  BY CacheUntouched DEF SummarizeBreaks, Crash, IInv, EnvironmentOK
<1>2. PICK x \in Halted : manual' = [manual EXCEPT ![m] = x]
  BY DEF SummarizeBreaks, Crash, Halted
<1> QED
  BY <1>1, <1>2, OneRunSteps DEF IInv

LEMMA SelectRowPreserves == ASSUME IInv, NEW m \in Manuals, SelectRow(m) PROVE IInv'
<1> DEFINE r == manual[m]
<1>1. EnvironmentOK' /\ CacheOK' /\ StoredKeys' = StoredKeys /\ raced' = raced
  BY CacheUntouched DEF SelectRow, IInv, EnvironmentOK
<1>2. r.pc = "select" /\ r.pc \in Active /\ RunOK(r, StoredKeys, raced)
  BY RunOfActive DEF SelectRow, IInv, Active
<1>3. manual' = [manual EXCEPT ![m] = [r EXCEPT !.pc = "write", !.seen = StoredKeys]]
  BY DEF SelectRow, StoredKeys
<1>4. StoredKeys \in SUBSET Key /\ "write" \in Active
  BY DEF StoredKeys, IInv, CacheOK, Row, Active
<1>5. r.files[r.path].hash # NoHash /\ KeyOf(r) \notin r.known
  BY <1>2 DEF RunOK
<1> HIDE DEF r
<1>6. RunOK([r EXCEPT !.pc = "write", !.seen = StoredKeys], StoredKeys, raced)
  BY <1>2, <1>4, <1>5, StepOK
<1> QED
  BY <1>1, <1>3, <1>6, OneRunSteps DEF IInv

LEMMA WriteRowPreserves == ASSUME IInv, NEW m \in Manuals, WriteRow(m) PROVE IInv'
<1> DEFINE r == manual[m]
           key == summary_cache_key(m)
           new == [key |-> key, summary |-> summarize_file(m)]
<1>1. r.pc = "write" /\ r.pc \in Active /\ RunOK(r, StoredKeys, raced)
  BY RunOfActive DEF WriteRow, IInv, Active
<1>2. key = KeyOf(r)
  BY DEF summary_cache_key, KeyOf, File
<1>3. r.files[r.path].hash # NoHash /\ KeyOf(r) \notin r.known /\ KeyOf(r) \in Key
  BY <1>1, CurrentRecord DEF RunOK
<1>4. CASE key \notin r.seen /\ Rows(key) # {}
  <2>1. manual' = [manual EXCEPT ![m] = [r EXCEPT !.pc = "duplicate key"]] /\ cache' = cache
    BY <1>4 DEF WriteRow
  <2>2. EnvironmentOK' /\ CacheOK' /\ StoredKeys' = StoredKeys /\ raced' = raced
    BY <2>1, CacheUntouched DEF WriteRow, IInv, EnvironmentOK
  <2>3. KeyOf(r) \in StoredKeys \ r.seen
    BY <1>2, <1>4 DEF Rows, StoredKeys
  <2> HIDE DEF r
  <2>4. RunOK([r EXCEPT !.pc = "duplicate key"], StoredKeys, raced)
    BY <1>1, <1>3, <2>3, MoveOK
  <2> QED
    BY <2>1, <2>2, <2>4, OneRunSteps DEF IInv
<1>5. CASE ~(key \notin r.seen /\ Rows(key) # {})
  <2> DEFINE line == {summarize_file(m)}
  <2>1. manual' = [manual EXCEPT ![m] = WithLine(r, line)]
    BY <1>5 DEF WriteRow
  <2>2. cache' = (cache \ Rows(key)) \union {new} /\ raced' = raced
    BY <1>5 DEF WriteRow
  <2>3. line \in Lines /\ LineFits(r, r.path, line, raced) /\ summarize_file(m) \in Summary
    BY <1>1, OwnLineFits DEF IInv
  <2>4. new \in Row /\ new.key = key /\ new.summary = summarize_file(m)
    BY <1>2, <1>3, <2>3 DEF Row
  <2>5. /\ new.summary.model = key.model /\ new.summary.version = key.version
        /\ new.summary.facts.of = key.hash \/ key.hash \in raced
    <3>1. HashFits(r.files[r.path], raced)
      BY <1>1, CurrentRecord DEF RunOK
    <3> QED
      BY <1>2, <1>3, <3>1 DEF summary_cache_key, summarize_file, File, HashFits
  <2> HIDE DEF new, key
  <2>6. CacheOK'
    BY <2>2, <2>4, <2>5 DEF IInv, CacheOK, Rows
  <2>7. StoredKeys \subseteq StoredKeys'
    BY <2>2, <2>4 DEF StoredKeys, Rows
  <2>8. EnvironmentOK'
    BY DEF WriteRow, IInv, EnvironmentOK
  <2> HIDE DEF line, r
  <2>9. RunOK(WithLine(r, line), StoredKeys, raced)
    BY <1>1, <2>3, WithLineOK
  <2>10. RunOK(WithLine(r, line), StoredKeys', raced')
    BY <2>2, <2>7, <2>9, RunKept
  <2>11. RunsOK'
    BY <2>1, <2>2, <2>7, <2>10, OneRunSteps DEF IInv
  <2> QED
    BY <2>6, <2>8, <2>11 DEF IInv
<1> QED
  BY <1>4, <1>5

\* The invariant the others follow from.
THEOREM Invariance == Spec => []IInv
<1>1. Init => IInv
  BY InitEstablishes
<1>2. IInv /\ [Next]_vars => IInv'
  <2> SUFFICES ASSUME IInv, [Next]_vars PROVE IInv'
    OBVIOUS
  <2>1. CASE Reindex
    BY <2>1, ReindexPreserves
  <2>2. CASE Upgrade
    BY <2>2, UpgradePreserves
  <2>3. ASSUME NEW m \in Manuals, NEW model \in Models, Start(m, model) PROVE IInv'
    BY <2>3, StartPreserves
  <2>4. ASSUME NEW m \in Manuals, Step(m) \/ Crash(m) PROVE IInv'
    BY <2>4, GetCachedPreserves, SummarizePreserves, SummarizeFailsPreserves, EndPreserves,
       SelectRowPreserves, WriteRowPreserves DEF Step
  <2>5. CASE UNCHANGED vars
    BY <2>5 DEF vars, IInv, EnvironmentOK, CacheOK, RunsOK, StoredKeys
  <2> QED
    BY <2>1, <2>2, <2>3, <2>4, <2>5 DEF Next, Finished
<1> QED
  BY <1>1, <1>2, PTL DEF Spec

-----------------------------------------------------------------------------
(* What manual promises.                                                   *)

LEMMA BeganIsRun ==
    ASSUME IInv, NEW m \in Began
    PROVE  m \in Manuals /\ RunOK(manual[m], StoredKeys, raced)
  BY RunOfActive DEF Began, IInv

\* Every run writes a line for each module in turn, and the cache has rows of its type
\* (manual.py:84-107).
THEOREM TypeCorrect == Spec => []ManualTypeOK
<1>1. IInv => ManualTypeOK
  <2> SUFFICES ASSUME IInv PROVE ManualTypeOK
    OBVIOUS
  <2>1. \A m \in Manuals \ Began : manual[m].pc \in {"idle", "killed", "unexpected error"}
    BY DEF IInv, RunsOK, RunOK, Run, Halted, Began
  <2>2. \A m \in Began : manual[m].path \in 1 .. N + 1 /\ manual[m].lines \in Seq(Lines)
    BY BeganIsRun DEF RunOK, Run
  <2>3. cache \subseteq [key : Key, summary : Summary]
    BY DEF IInv, CacheOK, Row
  <2> QED
    BY <2>1, <2>2, <2>3 DEF ManualTypeOK, IInv, EnvironmentOK, Lines
<1> QED
  BY <1>1, Invariance, PTL

\* A summary shown was made by the run's model and release, of the module's own facts if its
\* file has no hash, and else of the facts of a file of the same content, whatever its path,
\* name and analyzer, unless the hash was once stored with another content's facts
\* (summary_cache.py:36-48, manual.py:61-80).
THEOREM SummariesFit == Spec => []SummaryFitsModule
<1>1. IInv => SummaryFitsModule
  BY BeganIsRun DEF SummaryFitsModule, RunOK, LineFits
<1> QED
  BY <1>1, Invariance, PTL

\* One row for each key, of a file of that hash, and no question about a module whose
\* summary was stored before the run began (store.py:238-253, manual.py:61-71).
THEOREM CacheServes == Spec => []CacheServesAll
<1>1. IInv => CacheServesAll
  <2> SUFFICES ASSUME IInv PROVE CacheServesAll
    OBVIOUS
  <2>1. \A row \in cache :
          /\ Rows(row.key) = {row}
          /\ row.summary.facts.of = row.key.hash \/ row.key.hash \in raced
    BY DEF IInv, CacheOK, Rows
  <2>2. ASSUME NEW m \in Began, manual[m].pc \in {"ask", "select", "write"}, Cacheable(m)
        PROVE  summary_cache_key(m) \notin manual[m].known
    BY <2>2, BeganIsRun DEF RunOK, KeyOf, summary_cache_key, Cacheable, File
  <2> QED
    BY <2>1, <2>2 DEF CacheServesAll
<1> QED
  BY <1>1, Invariance, PTL

\* A run that ends has a line for every module, and a duplicate key is the work of another
\* run since this one's SELECT (manual.py:73-76, store.py:238-253).
THEOREM RivalsBreakAlone == Spec => []OnlyRivalsBreak
<1>1. IInv => OnlyRivalsBreak
  <2> SUFFICES ASSUME IInv, NEW m \in Began
               PROVE  /\ manual[m].pc = "done" => Len(manual[m].lines) = Cardinality(Paths)
                      /\ manual[m].pc = "duplicate key" =>
                           /\ Rows(summary_cache_key(m)) # {}
                           /\ summary_cache_key(m) \notin manual[m].seen \union manual[m].known
    BY DEF OnlyRivalsBreak
  <2>1. RunOK(manual[m], StoredKeys, raced)
    BY BeganIsRun
  <2>2. Cardinality(Paths) = N
    BY NAssumption, FS_Interval DEF Paths
  <2>3. ASSUME manual[m].pc = "done" PROVE Len(manual[m].lines) = N
    BY <2>1, <2>3, NAssumption DEF RunOK
  <2>4. ASSUME manual[m].pc = "duplicate key"
        PROVE  /\ Rows(summary_cache_key(m)) # {}
               /\ summary_cache_key(m) \notin manual[m].seen \union manual[m].known
    <3>1. summary_cache_key(m) = KeyOf(manual[m])
      BY DEF summary_cache_key, KeyOf, File
    <3> QED
      BY <2>1, <2>4, <3>1 DEF RunOK, StoredKeys, Rows
  <2> QED
    BY <2>2, <2>3, <2>4
<1> QED
  BY <1>1, Invariance, PTL
=============================================================================
