----------------------------- MODULE ManualCache -----------------------------
(***************************************************************************)
(* The command manual: one summary per module, asked of a provider or read *)
(* from the cache that all runs of manual over a repository share          *)
(* (ai/manual.py, ai/summary_cache.py, ai/summarizer.py, and               *)
(* get_cached_value and set_cached_value of persistence/store.py), while   *)
(* other processes index the repository, upgrade the program and change    *)
(* the model.  A content stands for its own hash.                          *)
(***************************************************************************)
EXTENDS Naturals, Sequences, FiniteSets

CONSTANTS
    Manuals,     \* processes that run manual
    N,           \* number of modules
    Contents,    \* contents a file may have
    NoHash,      \* the content_hash of a file that is not hashed
    Names,       \* names a module may have, one for each list of source roots
    Models,      \* model identifiers
    MaxIndexes,  \* bound on index runs
    MaxChanged,  \* bound on files that change from one index run to the next
    MaxVersion,  \* bound on releases, each with prompt and analyzer versions of its own
    MaxRuns      \* bound on manual runs

ASSUME NAssumption == N \in Nat \ {0}
ASSUME NoHashAssumption == NoHash \notin Contents
ASSUME BoundsAssumption ==
    MaxIndexes \in Nat /\ MaxChanged \in Nat /\ MaxVersion \in Nat \ {0} /\ MaxRuns \in Nat

VARIABLES
    snapshot,  \* path -> what the latest index run stored of the file: its hash and its facts
    raced,     \* hashes ever stored with facts of another content (see IncrementalIndex)
    indexes,   \* index runs so far
    version,   \* the installed release
    cache,     \* the rows of ai_cache: a set of [key, summary]
    runs,      \* manual runs so far
    manual     \* process -> the state of its run

vars == <<snapshot, raced, indexes, version, cache, runs, manual>>

\* Modules are numbered in the order of their paths.
Paths == 1 .. N

\* The facts of a module: a content as the analyzer of a release reads it, and the path and
\* the name of the module, which the analyzer has from elsewhere.
Facts == [of : Contents, path : Paths, name : Names, analyzer : 1 .. MaxVersion]
Record == [hash : Contents \union {NoHash}, facts : Facts]
Summary == [facts : Facts, model : Models, version : 1 .. MaxVersion]
Key == [hash : Contents, model : Models, version : 1 .. MaxVersion]
\* A line has a summary or none.
Unavailable == {}

Idle == [pc |-> "idle"]

Raced(s) == {h \in Contents : \E p \in Paths : s[p].hash = h /\ s[p].facts.of # h}

\* What an index run of a release may store; reused names may be those of other source
\* roots (see IndexedSnapshot).
Indexed(release) ==
    {[p \in Paths |-> [hash |-> hash[p], facts |-> [of |-> of[p], path |-> p, name |-> name[p],
                                                  analyzer |-> release]]] :
        hash \in [Paths -> Contents \union {NoHash}], of \in [Paths -> Contents],
        name \in [Paths -> Names]}

\* The first index reads every file, under one list of source roots.
Init ==
    /\ snapshot \in Indexed(1)
    /\ \A p, q \in Paths : snapshot[p].facts.name = snapshot[q].facts.name
    /\ raced = Raced(snapshot)
    /\ indexes = 0
    /\ version = 1
    /\ cache = {}
    /\ runs = 0
    /\ manual = [m \in Manuals |-> Idle]

-----------------------------------------------------------------------------
(* The environment.                                                        *)

\* The files of which an index run stores more than the reading of another analyzer.
Changed(s) == {p \in Paths : [s[p] EXCEPT !.facts.analyzer = version]
                              # [snapshot[p] EXCEPT !.facts.analyzer = version]}

\* index stores other files, hashed or not, raced or not, as its own release reads them.
Reindex ==
    /\ indexes < MaxIndexes
    /\ indexes' = indexes + 1
    /\ snapshot' \in {s \in Indexed(version) : Cardinality(Changed(s)) <= MaxChanged}
    /\ raced' = raced \union Raced(snapshot')
    /\ UNCHANGED <<version, cache, runs, manual>>

Upgrade ==
    /\ version < MaxVersion
    /\ version' = version + 1
    /\ UNCHANGED <<snapshot, raced, indexes, cache, runs, manual>>

-----------------------------------------------------------------------------
(* One run of manual.                                                      *)

\* The file whose turn it is, as the run loaded it.
File(m) == manual[m].files[manual[m].path]

\* Mutant: the release that asks is no part of the key.
KeyOfAnyRelease(m) == [hash |-> File(m).hash, version |-> 1, model |-> manual[m].model]

\* summary_cache_key, for a file that has a hash.
summary_cache_key(m) ==
    [hash |-> File(m).hash, version |-> manual[m].version, model |-> manual[m].model]

Rows(key) == {row \in cache : row.key = key}

Active == {"get", "ask", "select", "write"}

Start(m, model) ==
    /\ manual[m].pc \notin Active
    /\ runs < MaxRuns
    /\ runs' = runs + 1
    /\ manual' = [manual EXCEPT ![m] =
         [pc |-> "get", files |-> snapshot, path |-> 1, lines |-> <<>>, model |-> model,
          version |-> version, known |-> {row.key : row \in cache}, seen |-> {}]]
    /\ UNCHANGED <<snapshot, raced, indexes, version, cache>>

\* The line of the current module is written; the next one's turn, or the end.
WithLine(run, line) ==
    [run EXCEPT !.lines = Append(@, line),
                !.path = @ + 1,
                !.seen = {},
                !.pc = IF run.path + 1 \in Paths THEN "get" ELSE "done"]

\* summarize_file, from the facts of the module alone, its path and its name among them.
summarize_file(m) ==
    [facts |-> File(m).facts, model |-> manual[m].model, version |-> manual[m].version]

\* Mutant: a file without a hash has a key, too.
AlwaysCacheable(m) == TRUE

Cacheable(m) == File(m).hash # NoHash

\* Mutant: the cache is written and never read.
GetCachedNever(m) ==
    /\ manual[m].pc = "get"
    /\ manual' = [manual EXCEPT ![m].pc = "ask"]
    /\ UNCHANGED <<snapshot, raced, indexes, version, cache, runs>>

\* get_cached_summary: only for a file that has a hash.
GetCached(m) ==
    /\ manual[m].pc = "get"
    /\ manual' = [manual EXCEPT ![m] =
         IF Cacheable(m) /\ Rows(summary_cache_key(m)) # {}
         THEN WithLine(@, {row.summary : row \in Rows(summary_cache_key(m))})
         ELSE [@ EXCEPT !.pc = "ask"]]
    /\ UNCHANGED <<snapshot, raced, indexes, version, cache, runs>>

\* The provider answers: the summary is to be stored if it has a key.
Summarize(m) ==
    /\ manual[m].pc = "ask"
    /\ manual' = [manual EXCEPT ![m] =
         IF Cacheable(m) THEN [@ EXCEPT !.pc = "select"] ELSE WithLine(@, {summarize_file(m)})]
    /\ UNCHANGED <<snapshot, raced, indexes, version, cache, runs>>

\* The three errors the code knows cost one line.
SummarizeFails(m) ==
    /\ manual[m].pc = "ask"
    /\ manual' = [manual EXCEPT ![m] = WithLine(@, Unavailable)]
    /\ UNCHANGED <<snapshot, raced, indexes, version, cache, runs>>

\* Any other, of a package that is missing or a list that is null, ends the run.
SummarizeBreaks(m) ==
    /\ manual[m].pc = "ask"
    /\ manual' = [manual EXCEPT ![m] = [pc |-> "unexpected error"]]
    /\ UNCHANGED <<snapshot, raced, indexes, version, cache, runs>>

\* set_cached_value: look for the row,
SelectRow(m) ==
    /\ manual[m].pc = "select"
    /\ manual' = [manual EXCEPT ![m] =
         [@ EXCEPT !.pc = "write", !.seen = {row.key : row \in cache}]]
    /\ UNCHANGED <<snapshot, raced, indexes, version, cache, runs>>

\* Mutant: insert without looking at what the SELECT found.
InsertRow(m) ==
    LET key == summary_cache_key(m)
    IN  /\ manual[m].pc = "write"
        /\ IF Rows(key) # {}
           THEN /\ manual' = [manual EXCEPT ![m].pc = "duplicate key"]
                /\ UNCHANGED cache
           ELSE /\ cache' = cache \union {[key |-> key, summary |-> summarize_file(m)]}
                /\ manual' = [manual EXCEPT ![m] = WithLine(@, {summarize_file(m)})]
        /\ UNCHANGED <<snapshot, raced, indexes, version, runs>>

\* then update it, or insert one: a rival's row of the same key refuses the insert.
WriteRow(m) ==
    LET key == summary_cache_key(m)
    IN  /\ manual[m].pc = "write"
        /\ IF key \notin manual[m].seen /\ Rows(key) # {}
           THEN /\ manual' = [manual EXCEPT ![m].pc = "duplicate key"]
                /\ UNCHANGED cache
           ELSE /\ cache' = (cache \ Rows(key)) \union {[key |-> key, summary |-> summarize_file(m)]}
                /\ manual' = [manual EXCEPT ![m] = WithLine(@, {summarize_file(m)})]
        /\ UNCHANGED <<snapshot, raced, indexes, version, runs>>

\* The process is killed; an insert not committed is gone.
Crash(m) ==
    /\ manual[m].pc \in Active
    /\ manual' = [manual EXCEPT ![m] = [pc |-> "killed"]]
    /\ UNCHANGED <<snapshot, raced, indexes, version, cache, runs>>

Step(m) ==
    \/ GetCached(m) \/ Summarize(m) \/ SummarizeFails(m) \/ SummarizeBreaks(m)
    \/ SelectRow(m) \/ WriteRow(m)

Finished ==
    /\ indexes = MaxIndexes /\ version = MaxVersion /\ runs = MaxRuns
    /\ \A m \in Manuals : manual[m].pc \notin Active
    /\ UNCHANGED vars

Next ==
    \/ Reindex \/ Upgrade
    \/ \E m \in Manuals, model \in Models : Start(m, model)
    \/ \E m \in Manuals : Step(m) \/ Crash(m)
    \/ Finished

Spec == Init /\ [][Next]_vars

-----------------------------------------------------------------------------
(* Properties.                                                             *)

\* The runs that have something to show, or failed on the cache.
Began == {m \in Manuals : manual[m].pc \in Active \union {"done", "duplicate key"}}

ManualTypeOK ==
    /\ snapshot \in [Paths -> Record]
    /\ raced \subseteq Contents
    /\ indexes \in 0 .. MaxIndexes /\ version \in 1 .. MaxVersion /\ runs \in 0 .. MaxRuns
    /\ cache \subseteq [key : Key, summary : Summary]
    /\ \A m \in Manuals \ Began : manual[m].pc \in {"idle", "killed", "unexpected error"}
    /\ \A m \in Began :
         /\ manual[m].path \in 1 .. N + 1
         /\ manual[m].lines \in Seq({{s} : s \in Summary} \union {Unavailable})

\* The summary shown for a module was made by the run's model and release, whoever made it
\* and however many releases, models and contents shared the cache since.  It was made of
\* the facts the run has of the module, if its file has no hash; and else of the facts of
\* some file of the same content, which may be of another path, another name and another
\* analyzer, and of another content only if index once stored the hash with another's
\* facts (summary_cache.py:36-48, manual.py:61-80).
SummaryFitsModule ==
    \A m \in Began : \A p \in DOMAIN manual[m].lines :
        LET file == manual[m].files[p]
        IN  \A summary \in manual[m].lines[p] :
                /\ summary.model = manual[m].model /\ summary.version = manual[m].version
                /\ IF file.hash = NoHash THEN summary.facts = file.facts
                   ELSE summary.facts.of = file.facts.of \/ file.hash \in raced

\* The summary shown was made by the analyzer whose facts the snapshot has of the module.
SummaryOfIndexedFacts ==
    \A m \in Began : \A p \in DOMAIN manual[m].lines :
        \A summary \in manual[m].lines[p] :
            summary.facts.analyzer = manual[m].files[p].facts.analyzer

\* The cache has one summary for each key, and it is one of a file of that hash, unless
\* the hash was raced; a run that begins once a summary is stored never asks for it again
\* (store.py:238-253, manual.py:61-71).
CacheServesAll ==
    /\ \A row \in cache :
         /\ Rows(row.key) = {row}
         /\ row.summary.facts.of = row.key.hash \/ row.key.hash \in raced
    /\ \A m \in Began :
         manual[m].pc \in {"ask", "select", "write"} /\ Cacheable(m) =>
             summary_cache_key(m) \notin manual[m].known

\* A run ends early by an error it does not know, by its death, or by a duplicate key, and
\* that only if another run stored the same key between this one's SELECT and INSERT; no
\* failed or unusable answer costs more than its own line (manual.py:73-76, store.py:238-253).
OnlyRivalsBreak ==
    \A m \in Began :
        /\ manual[m].pc = "done" => Len(manual[m].lines) = Cardinality(Paths)
        /\ manual[m].pc = "duplicate key" =>
              /\ Rows(summary_cache_key(m)) # {}
              /\ summary_cache_key(m) \notin manual[m].seen \union manual[m].known
=============================================================================
