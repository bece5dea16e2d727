# Codebase Manual in TLA+

Codebase Manual indexes a repository into a database (files, symbols and the
relationships between them) and answers questions from the index: `ask`,
`change`, `impact`, `manual`, `check`, and a local web interface. This directory
models what can go wrong in it without a test noticing: several processes sharing
one database, a working tree that changes while it is read, facts reused from an
older run, a model whose replies cannot be trusted, a cache shared by releases.

Paths below are relative to `src/src/codebase_manual/` unless they begin with
`docs/` or are the repository's `README.md`.

## 1. Inventory

| Component | State | Operations | What makes it correct |
|---|---|---|---|
| Index store (`persistence/store.py`, `orm.py`, `database.py`) | tables `repositories`, `working_copies`, `index_runs` and four child tables; a session per call | `save`, with one retry; `latest_snapshot`; `get_cached_value`, `set_cached_value` | a save replaces the run of its commit and nothing else, whole; a snapshot comes from one save; every save ends |
| Scanner (`repository/scanner.py`) | none; reads the tree file by file | `scan` | a record describes the file it names |
| Incremental analysis (`analyzer/registry.py`, `analyzer/config.py`) | the last snapshot, the new scan | `analyze_repository_incremental`, `detect_source_roots` | an incremental index equals a full one |
| Drift (`query/drift.py`) | none | `detect_index_drift` | says "no drift" only of the tree that was indexed |
| Relationships (`domain/relationships.py`, `domain/type_inference.py`) | none | `build_relationships`: names, types and calls resolved over all modules | edges are what the sources say, and agree with one another |
| Impact (`query/graph.py`, `ai/impact.py`, `query/entity_resolution.py`) | the frontier of a traversal | `transitive_dependents_traversal`, `compute_impact_facts` | nothing left out silently, nothing that does not depend |
| Grounding (`query/candidates.py`, `ai/grounding.py`, `ai/confidence.py`) | the candidate table of one command | ids to entities, verdicts, confidence | nothing invented, nothing dropped silently, confidence earned |
| AI commands (`ai/qa.py`, `change_planner.py`, `provider.py`, `anthropic_provider.py`, `cli/`) | one command's | `ask`, `change`, `impact` | every failure has its exit code; a field of a reply in another form than asked leaves nothing in the answer untold |
| Manual (`ai/manual.py`, `summarizer.py`, `summary_cache.py`) | the rows of `ai_cache` | `manual` | a summary shown is of its module's content, by the run's model and release, whoever stored it |
| Retrieval (`query/retrieval.py`) | two tables of what was found, with its signals; a stack of calls | `retrieve_relevant` | all that is shown is near a match, matches come first, flows of calls are whole |
| Endpoints (`query/api_endpoints.py`) | none | `detect_api_endpoints` | every handler is found, wherever it is registered |
| Analyzers (`analyzer/python_analyzer.py`, `typescript_analyzer.py`) | the scopes a visitor is in | `analyze_module` | every statement counts for the scope that runs it |
| Web interface (`api/app.py`) | none | read-only handlers over the latest snapshot | as the commands |

How they interact. `index` scans, loads the last snapshot, analyses or reuses
each file, and saves. Every other command loads the latest snapshot once and works
on it. There are no threads and no locks in the program: processes meet in the
database and in the file system only, so the interleavings that matter are those of
SQL statements, of stat/read/parse of a file against an editor, and of a cache
lookup against another process's insert. The hard behaviours, each at its line, are
the `hazards` of `PROJECT.json`; the properties below were chosen for them.

## 2. Modules

| Module | Models | Composition |
|---|---|---|
| `RunRegistry` | the abstract promise: storing a run drops, in the same step, the run it supersedes | |
| `IndexStore` | `IndexStore.save`, statement by statement, in any number of processes, on SQLite or PostgreSQL | implements `RunRegistry` |
| `SnapshotLoad` | `latest_snapshot` query by query | extends `IndexStore` |
| `IndexStoreProofs` | theorems about `IndexStore` and `SnapshotLoad` | extends `SnapshotLoad` |
| `IncrementalIndex` | `index` and `check` on a changing tree | uses a save in one step, as `RunRegistry` allows |
| `IncrementalIndexProofs` | theorems about `IncrementalIndex` | extends `IncrementalIndex` |
| `Lists`, `Names` | lists as the code builds them in loops; dotted names and paths | `Names` extends `Lists` |
| `PythonFacts` | `analyze_module`: the facts of one file, from its statements | extends `Names` |
| `CallResolution` | what names, types and calls resolve to | extends `Names` and `Relationships` |
| `Relationships` | the five kinds of edges, as operators | |
| `ApiEndpoints` | `detect_api_endpoints` | extends `Names` |
| `ImpactGraph` | the traversal, level by level, and the facts made of it | |
| `IndexedSnapshot` | the snapshot that the facts of a repository give, for `impact` to traverse | extends `ImpactGraph`, `CallResolution`, `ApiEndpoints` |
| `RepositoryImpact` | `impact` on repositories, from their sources | extends `IndexedSnapshot`, `PythonFacts` |
| `ListLemmas` | lemmas about lists, loops over them and folds | extends `Lists` |
| `ImpactGraphProofs` | theorems about `ImpactGraph`, and about the relationships it follows | extends `IndexedSnapshot`, `ListLemmas` |
| `RepositoryImpactProofs` | theorems about `RepositoryImpact`: from the statements of the sources to the report | extends `RepositoryImpact`, `ImpactGraphProofs` |
| `Retrieval` | `retrieve_relevant`, stage by stage, and call by call along the chains | |
| `RetrievalProofs` | theorems about `Retrieval` | extends `Retrieval` |
| `Grounding` | candidate tables, verdicts, confidence, as operators | extends `Lists` |
| `AiAnswers` | `ask`, `change`, `impact` from snapshot to exit code | extends `Grounding` |
| `AiAnswersProofs` | theorems about `AiAnswers` | extends `AiAnswers`, `ListLemmas` |
| `ManualCache` | `manual` and its cache in several processes | takes from `IncrementalIndex` that a hash can be stored with another content's facts |
| `ManualCacheProofs` | theorems about `ManualCache` | extends `ManualCache` |

Each `MC...` module gives the constants of one of these their values for TLC.
Operators marked *Fault* or *Mutant* are not part of a model: each is a plausible bug,
listed in `PROJECT.json`, that the property beside it must catch.

### IndexStore

One action per SQL statement, because another process can come between any two:
`Begin` (the scan is done, `save` is called), `SelectRepository`,
`InsertRepository`, `SelectWorkingCopy`, `InsertWorkingCopy`, `SelectRun`,
`LoadChildren` per child table (`session.delete` loads the children the cascade is to
delete), `DeleteRun`, `InsertRun` or `RefuseRun` (the unique key), `Commit`,
`Refresh` (`return run.id` re-reads an expired object). `BusyTimeout` is SQLite's
"database is locked"; `Crash` kills a process anywhere. The variables `repositories`,
`working_copies`, `runs` and `rows` hold what is committed; `tx[s]` is what the
transaction of `s` has read and written. The databases differ in three ways: who
waits for whom (`MayWrite`, `HoldingKey`), how ids are given out (`FreshId`: SQLite
reuses the largest id once its row is deleted, since the tables have no
AUTOINCREMENT), and the busy timeout. `seq` is one PostgreSQL sequence for all
tables instead of one for each; only the order and freshness of ids matter.

History fields, written and never read by a step: `Row.from`, `Run.size`,
`Run.at` (the scan time, read by `latest_snapshot` too), `Tx.overlap`.

### SnapshotLoad

`StartLoad`, `SelectOwn`, `SelectAny` (the fallback to another working copy's run),
`LoadTable` per table. On PostgreSQL at READ COMMITTED and on SQLite outside a
transaction each SELECT sees what is committed at that moment.

### IncrementalIndex

`Edit`, `ChangeRoots` and `Upgrade` are the world. A command is `Start` (the
directory listing), `Stat` and `Read` per file, `FinishScan`, and for `index` also
`Load`, `DetectSourceRoots`, `Analyze` per file, `Save`; `Crash` anywhere. A content
stands for its SHA-256. Files of a run do not interact (each is compared with its own
past), so one file shows every interleaving of a file's life; two processes are
needed for an old program that saves after an upgrade.

### PythonFacts, CallResolution, Relationships, ApiEndpoints

Pure functions in the code, and operators here; they are composed as `index` composes
them. A source file is a sequence of statements, a dotted name the sequence of its parts,
a path the sequence of its directories, stem and extension; `NoName` is the code's `None`.
Calls nested in arguments are calls of the same scope, one after the other, and so are those in
what runs when an inner definition is made: defaults, annotations and return annotations, bases and
keywords, and the defaults of a lambda (`analyzer/python_analyzer.py:273-302`) are no
statement forms of their own; of these only decorators are. The order in
which candidates win is the code's: `LocalNames` keeps the last import and the first
definition of a name, `Walk` goes through bases depth first, `AttributeTypes` takes the
first assignment that has a type, `OneType` gives up a variable of two. Dictionaries that
the code keys by qualified name are keyed so here, so that definitions of one name
overwrite each other as they do there.

`Walk`, a recursion in the code, is a bounded sequence of visits: the code never visits a class
twice and goes on to known classes only, so the number of classes bounds it.

The visitor of a scope (`VisitDeeper`) and the extraction of definitions (`ExtractDeeper`)
are recursions over statements in the code; here each round goes one level deeper, and
`MaxNesting`, how deep statements stand in each other, bounds the rounds. The types of a
function's variables are a loop over its assignments (`TypesAfter`).

`IndexedSnapshot` puts the derived relationships into a snapshot; `FactsOK` and
`TestNamesApart` say what its theorems need of the facts it is made of, that a method
belongs to a class of its module and that test modules have names of their own.

`RepositoryImpact` runs `ImpactGraph` on what is derived. Its properties do not compare
the operators with themselves: `Written` has every statement of a file with the scope that
runs it (`PartsOf`), and the properties relate that to the edges and the report:

- `CallsAsWritten`: a calls edge leaves the scope whose own statements hold such a call
  (`EdgesAreWritten`), and a call of a function of the same module makes an edge
  whatever it stands in (`CallsMakeEdges`);
- `SelfCallsAreInherited`: a call of `self.m` goes to one method, that of the class itself or else
  of an ancestor, along any hierarchy;
- `ReceiversHaveTheirType`: a call through a variable goes to a method of the class that *each* call
  of a plain name assigned to it gives, or of an ancestor of that class; it says nothing of values
  of other forms (names, attributes, dotted calls, and literals, of which there are no facts);
- `HandlersAreReported`: the endpoints reported are those of functions decorated as routes or added
  as routes by some scope of their file, and none that is affected is missing.

What they except is where the code gives up or goes by a name alone, and their comments say so:
definitions that share a dotted name (`DefinedOnce`), names hidden by an import or a module.

Five assumptions tie the constants to the code; TLC evaluates them on every repository of the
run. `RepositoriesAssumption`: what was parsed is a tree, no deeper than `MaxNesting`
(`NestingAssumption`, a number), a path has a stem and an extension. `RootsAssumption`: source
roots are lists of directories. `IndexAssumption`: the snapshots traversed are those of the
repositories. `TestsAssumption`: no test module has the name of another module.

### ImpactGraph

The breadth-first loop: `Explore` is one level, or the end of the loop; `Collect` is
`compute_impact_facts`. Liveness is not a question here: the loop is bounded by its depth.

### Retrieval

`Match` (the loop over modules and symbols), `Expand`, `AddNeighbours`, `Rank`, then
`BeginChains` per kept function, `Follow` (`Extend` or `End`) per path of calls, `Answer`.
A file and the module in it are two entities, since a signal for either goes to the file
(`ItemsOf`). `Signals` counts the ways an edge is met, because the code adds one signal for
each: an edge between two matches counts for both of them, and one from a function to
itself twice. The code's order among equals is that of insertion; the model takes
any, and any order of the stack of paths, which the properties do not tell apart.

### Grounding, AiAnswers

A behaviour is one command: `LoadSnapshot`, `Retrieve` or `FindTarget`,
`RequestFails` or `Receive`, `Report`. A command reads its snapshot once and keeps
nothing, so there is no concurrency to model here. What is
nondeterministic is the reply: its fields may cite candidates, invent ids, propose existing
files, and have any JSON form (`Fields`). Which exception a form raises is not part of the
reply but follows from what the code does with it (`FieldError`): a missing text or an item
without its key is a KeyError, null or a number a TypeError in `list()`, a value that is no text
a ValueError when pydantic builds the answer (`Refusal`), and the reasoning of an item
only if the item is kept. A text or an object in place of a list of ids raises nothing:
its characters or keys are taken for ids. Which exception leaves through which handler is
the rest of the control (`ReplyError`, `OutcomeOf`); prompts and wording are left out.

`MisshapenLeavesNothing` says of every field in another form than the prompt asks for what
becomes of it: the command fails, or `impact` prints its facts alone, or nothing the field
lists is in the answer and the verdict is not "valid". It excepts what the code lets through, an
object whose keys are ids and a text or object as `potential_impact` (see the disagreements).

### ManualCache

`Start`, then per module `GetCached`, and if that misses `Summarize` (or
`SummarizeFails`, which costs a line, or `SummarizeBreaks`, which ends the run),
`SelectRow`, `WriteRow`. `Reindex` stores any snapshot an index could, raced hashes
included; `Upgrade` installs a release with its own prompt and analyzer versions.

The facts of a module have its path and its name, which go into the prompt and the summary
(`ai/summarizer.py:37, 86`), beside what the analyzer read of the content; the key has the
content's hash only. So `SummaryFitsModule` has two cases: without a hash a summary is of the
module's own facts; with one it is of the facts of *some* file of the same content, and path,
name and analyzer may be another's (see the disagreements).

## 3. Runs

Passing runs:

| Run | Instance | Shows |
|---|---|---|
| `sqlite_saves` | two processes, commits and a tree without commits, SQLite, busy timeouts, crashes | a stale id names no other commit's run (`FoundIdKeepsItsKey`), rows left behind join no other commit's (`RowsOfOneCommit`), the store implements the registry (`ReplacesAtomically`): a save that fails, times out or is killed has changed nothing |
| `postgresql_loads` | two savers, two working copies, one commit and a tree without commits, a reader, PostgreSQL | rows and runs match (`RunIntact`), references hold (`ReferencesResolve`), a snapshot is never a mix of two saves (`SnapshotOfOneSave`), the fallback is taken only with cause (`FallbackIsJustified`) |
| `postgresql_saves` | three savers of one commit at once, weak fairness of each | every save ends (`SaveEnds`): no lock cycle; one retry absorbs one rival, and only a rival makes `return run.id` fail (`FailureNeedsRivals`) |
| `incremental_index` | one file, two small contents and two too large to hash, two edits, three commands of two processes, two releases, two source roots | `ModuleFitsFingerprint`, `QuietIndexIsFull`, `OneAnalyzerPerRun`, `DriftReportIsRight` |
| `ai_answers` | every command, retrieval, set of facts and reply of the instance with at most two fields in another form than asked | `OneIdPerEntity`, `NothingInvented`, `VerdictTellsOfDropped`, `ConfidenceIsEarned`, `MisshapenLeavesNothing` |
| `repository_impact` | every entity of 3024 repositories in five families (below) | `NothingLeftOut`, `EverythingDepends`, `DirectOrIndirect`, `TestsAreReported`; `CallsAsWritten`, `SelfCallsAreInherited`, `ReceiversHaveTheirType`, `HandlersAreReported` |
| `retrieval` | 11 queries over 96 call graphs of a small repository | `OneHopFromAMatch`, `MatchesYieldToLinksOnly`, `ChainsAreTheFlows` |
| `manual_cache` | two processes, two modules, two contents, two names, two models, two releases, a re-index that changes one file | `SummaryFitsModule`, `CacheServesAll`, `OnlyRivalsBreak` |

Each has its module's type invariant, too, but `postgresql_saves`, whose states are of
the kind `postgresql_loads` checks it on.

Violations: what a document promises and the code does not do.

| Run | Promise | What TLC finds |
|---|---|---|
| `sqlite_mixed_runs` | a re-index replaces the run (`persistence/store.py:3-6`) | a save that read a run before another save replaced it deletes the children it had loaded by id; the replacement's rows stay behind under the id SQLite gives out again, and join the new run |
| `stale_module_names` | modules are named by the detected source roots | an unchanged file is reused under the roots of the last run |
| `file_impact` | `README.md:52`, `cli/main.py:231`: impact takes a file path | a file has no dependents but those of the module in it, which are not looked at: an empty report with HIGH confidence |
| `stale_summaries` | `docs/indexing.md:84-87`: the analyzer version is in the cache key | it is the version of the program that asks, not of the facts that are summarised: a summary of old facts is kept for new ones |

The quotations with their lines are in `PROJECT.json` under `findings`. Other
disagreements met while modelling, for which no run is spent:

- `save` may still raise: an IntegrityError after two rivals, or an ObjectDeletedError when
  a rival replaces its run before `return run.id` (`FailureNeedsRivals` says exactly
  when), although `persistence/store.py:8-11` calls concurrent indexing safe and
  `docs/indexing.md:33-38` has it converge on the last writer;
- a dirty tree's run is replaced like any other, since it keeps its HEAD commit,
  although `persistence/store.py:5-6` and `docs/indexing.md:12-15` say such runs are
  never deduplicated;
- a working copy that has indexed may still be given another's run
  (`FallbackIsJustified` says exactly when), although `docs/indexing.md:17-20` says
  only one that has never indexed is;
- `files_to_modify` accepts ids of symbols and tests, although
  `docs/ai-grounding.md:53-55` says FILE ids;
- a missing `anthropic` package exits with 4 and not 2 (`docs/cli.md:11`), a reply with
  null or a number for a list, or of `ask` with a text that is none, with 4 and not 3
  (`docs/cli.md:12`), and the package or a null list ends `manual` with a traceback;
- `cited_ids`, `relevant_symbols` and `tests_to_update` may be a text or an object, although the
  prompts ask for lists (`ai/qa.py:118`, `ai/change_planner.py:216, 219`): the characters of
  the text are unknown ids, the keys of the object are ids, and the answer is printed with
  exit code 0, as grounded if all keys are known. `potential_impact` may be either, too
  (`ai/change_planner.py:261`): a text is printed as bullets of one character each, and no
  verdict is passed on it. `MisshapenLeavesNothing` allows exactly these;
- two files of equal content share one summary, made for whichever came first, and so does a
  module renamed by other source roots: the path and the module name go into the prompt
  (`ai/summarizer.py:37`) but not into the key (`ai/summary_cache.py:45-48`), although
  `ai/summary_cache.py:3-6` says that the key combines everything that could change what a
  summary means. `SummaryFitsModule` allows exactly this;
- a variable given a call of a class and then a literal keeps the class
  (`analyzer/python_analyzer.py:224-226`: what is no call, name or attribute leaves no fact),
  although `docs/relationship-model.md:95-98` and `domain/type_inference.py:268-270` say that a
  variable reassigned to an unresolvable type is dropped; `ReceiversHaveTheirType` compares the
  calls of plain names only, and holds of such a variable;
- `find_entity_ref` looks through one module at a time, not through all modules, then all
  classes, as its docstring has it;
- a class that extends a library class of its own name resolves to itself and is reported
  as its own dependent (`DirectOrIndirect` allows exactly this);
- of a module only direct statements are searched for imports and definitions
  (`analyzer/python_analyzer.py:452-524`): what stands under `if TYPE_CHECKING` or in a `try` is
  lost, and in a function what stands in a case of a `match` (`ScopeDefs`);
- `from pkg import sub` prefers a submodule, but `import a.b` binds `b` and not `a`
  (`BoundName`), and a nested function's name is visible in the whole module
  (`LocalNames`, `domain/relationships.py:161-162`);
- a method is searched depth first along the bases, which is not Python's order where they
  form a diamond (`Walk`), and a factory's return annotation is read in the namespace of
  the caller (`ValueTypeFromCall`; `ReceiversHaveTheirType` allows exactly this);
- a decorator `@mock.patch(...)` is taken for a PATCH route (`query/api_endpoints.py:43`);
- a file that matches and lies in a matched directory gets no signal for that
  (`query/retrieval.py:348`), although `docs/retrieval.md:27-29` adds the two weights; a name with an underscore never matches exactly, because queries are split there
  (`query/retrieval.py:42`); and a chain is compared with others without its first function
  (`query/retrieval.py:399`), so that one of two functions that call the same is shown.

### Bounds

- *Saves* (4 in `sqlite_saves`, 3 elsewhere): a lost update takes two, a reused id three (one
  whose run is deleted, one that gets its id, one that still holds it), the retry's second
  refusal two rivals. With two savers the second rival is the same process again.
- *Tables* (1 or 2 of 4) and *Sizes*: the child tables are treated alike; two
  suffice for a snapshot that mixes tables.
- *Edits, commands* (2, 3): index, edit, index, edit and check is the longest chain of
  reuse whose last link adds nothing the one before did not. The file system's clock
  may stand still between edits.
- *MaxDepth* (2; 5 in the code): chains in the repositories are longer, so that the
  limit is reached; the loop does not depend on the number, and `ImpactGraphProofs`
  proves it for every limit.
- *Repositories*: each family varies one thing in every listed way and keeps the rest
  small. `Dependencies`: imports and calls among three modules and a test, with
  cycles, recursion, calls at the top level and bases. `Places`: two statements of ten forms
  around calls, in a function and in a module. `Hierarchies`: three classes of two modules
  with diamonds and cycles of bases, each with or without the method. `Variables`: two
  assignments of seven forms, four parameter annotations, a namesake or none. `Endpoints`:
  three functions with four kinds of decorators, and routes added in three places.
- *MaxNesting*: 4 for the repositories of `impact`, which TLC checks to be enough when it evaluates
  `RepositoriesAssumption`; 1 for those of `retrieval`, where a body holds calls only.
- *Retrieval*: call graphs with cycles and diamonds of paths longer than `ChainDepth`, fewer
  places (`TopFiles`, `TopSymbols`, `MaxChains`) than items and flows; `RetrievalProofs` holds
  for every limit.
- *Indexes, releases, runs of manual* (1, 2, 2), and one file that changes from one index to the
  next (`MaxChanged`): a stale entry takes one change of each.
- *Misshapen fields* (`MaxMisshapen`, 2 of the 7 of a plan, 2 of the 2 of the others): two errors
  show which is raised first, and a field that passes beside one that does not.

Symmetry is used where no definition tells the values apart: processes, commits other than
`NoCommit`, contents of one size, source roots, models. `CHECK_DEADLOCK FALSE` is
set for `incremental_index` (and `stale_module_names`), where the system stops when edits and
commands run out; the other modules have a `Finished` step, enabled
only when all work is done, so a deadlock among them is an error.

### Fairness

Only `postgresql_saves` needs it. `WF_vars(Step(s))` for each saver: a process inside
`save` is a straight line of database calls that nothing in the code suspends, and a
lock it waits for is released when its holder's transaction ends. `Begin` and `Crash`
are not fair: nobody has to index, and nothing has to fail. SQLite's timeouts make
endings easier there, so liveness is checked on PostgreSQL.

## 4. Proofs

Checked by TLAPS for every value of the constants.

`IndexStoreProofs`, from `StoreAssumption` alone, of any number of processes, checkouts,
commits and saves, on either database:

- `TypeCorrect`, `StaleIdSafe` (`FoundIdKeepsItsKey`), `OneRivalAbsorbed`
  (`FailureNeedsRivals`), `ReferencesHeld` (`ReferencesResolve`),
- `SaveReplacesAtomically`: `Spec => ReplacesAtomically`, the refinement of
  `RunRegistry`: `Commit` is a `Put`, every other step a stutter;
- `NoDeadlock`: savers never wait for each other's locks in a circle (`NoWaitCycle`);
- `SaveIsBounded`, if there are finitely many tables: an action property, each statement of a save
  leaves it fewer to execute, and no step of another saver adds one (`ComesToAnEnd`).

None of them is inductive by itself. `IInv` adds what they rest on: ids are bounded
(`IdsBounded`: no live id exceeds `seq` on PostgreSQL); SQLite has one writer
(`OneWriter`), and while it writes nobody commits, so an id it was given stays
free (`SqliteIds`); on PostgreSQL an id once seen never comes back, and an id handed
out is nobody else's (`PostgresqlIds`); no two runs have one key, nor
will have when the transactions that hold the key commit (`KeysUnique`); each
refused attempt is matched by a rival's commit (`RivalsCounted`); and a run just
committed is there, or a rival has committed since (`OwnRunStands`). The interesting case
is SQLite's reuse: a stale id can name a new run only if the run
that was read was the largest and was deleted by a save of the same key, which
then got its id. Lemmas about `AfterLargest` need the greatest element of a bounded set of
naturals, which the lemma `GreatestExists` picks as a least upper bound.

The last two are what `SaveEnds` comes to without its fairness: somebody among those who wait
can always go on, and nobody goes on forever. `AwaitedBy` names whom a saver waits for, and
`WaitsAreTheGuards` that the statement it has come to may be executed exactly if
that is nobody. There is no circle because `save` inserts the repository, then the working copy, then
deletes the run and then inserts the new one, and holds a row only once it is past it; because two
transactions never delete one run (`LocksInOrder`), so that the one that deletes the run of a
key waits for nobody but savers about to commit (`DeletersGoFirst`); and because SQLite
has one writer.

From the same assumption, of the rows that runs are made of:

- `RunsStayIntact`: on PostgreSQL, `RunIntact`. Row ids come from sequences there and no id is
  used twice, so the ids a save has loaded name rows of the run it found and of no other, and
  all of them once a table has been loaded (`KidsKnown`); deleting by those ids leaves no
  row behind. On SQLite `RunIntact` is what `sqlite_mixed_runs` refutes.
- `RowsKeepTheirCommit` (`RowsOfOneCommit`), on either database. On SQLite the rows a
  stale delete leaves carry the id of the run it deleted, which goes to the run that
  replaces it, of the same repository and commit, or to nobody.

and of any number of readers beside the savers:

- `ReadersOnlyRead`: `LoadSpec => Spec`, which brings every theorem about the store along;
- `SnapshotsAreWhole`: on PostgreSQL, `SnapshotOfOneSave`. The id of the run a reader has
  chosen is never another run's, so the tables it reads one by one hold the
  rows of that run, or none once it has been replaced (`Loading`);
- `FallbackJustified` (`FallbackIsJustified`) and `LoadTypeCorrect` (`LoadTypeOK`), on either
  database: a working copy that has indexed keeps a run until another's save of the same commit
  takes it (`IndexedHaveRuns`).

`ImpactGraphProofs`, from the assumptions of `ImpactGraph`, for every set of snapshots and depth limit:
`TypeCorrect`, `CompleteUnlessTruncated` (`NothingLeftOut`), `OnlyDependentsFound`
(`EverythingDepends`). Of the facts of any repository, and of the relationships made of them:

- `EdgesJoinEntities`: every relationship has its kind, and both its ends are in the snapshot;
- `MethodsAreInherited`: a method is found if the class or any class it inherits from has it,
  the class's own first, and none otherwise, whatever shape the bases have;
- `SelfCallsFindTheirMethod`: a call of `self.method` in a method becomes an edge to such a
  method, unless the method calls itself.

The invariant: an entity found before the last level has its dependents among those found
(`Explored`), the flag is set exactly at the limit (`LevelsCounted`), and the loop
ends there or with nothing to add (`Exhausted`). `SourcesAssumption` (the source of
an edge is an entity of the snapshot) holds because every edge is derived from a definition
of its source (`IndexedEdgesJoinEntities` below). "Depends on the
target" is stated without recursion: any part of what was found that has the target and is
closed under dependents is all of it, and a class's ancestors likewise (`Inherits`).

The search through bases keeps an invariant (`WalkOK`): no class is seen twice, a base of a
class seen is seen or still to do, nothing is either that the class does not inherit from, and
each visit sees one class more. All but the first are known classes, so after one
visit more than there are known classes nothing is left to do, and the classes seen
are the ancestors. That edges join entities needs that what a call resolves to is a function
of the index, in each of the ways a call resolves (`CallsAreKnown`), and that facts resolved
refer to known modules, classes and functions (`Resolved`). A class that extends a library class of
its own name is the only entity with an edge to itself (`OnlyClassesExtendThemselves`).

`RepositoryImpactProofs`, from the five assumptions of `RepositoryImpact`, of any repositories whose
statements stand in each other to any bounded depth:

- `RepositoriesTraversed`: `RepositorySpec => Spec`, which brings the theorems above along, and
  the snapshot is that of the sources throughout (`Derived`);
- `IndexedEdgesJoinEntities`: every relationship of a repository joins two of its entities;
- `DirectApartFromIndirect` (`DirectOrIndirect`), `TestsReported` (`TestsAreReported`);
- `CallsWritten` (`CallsAsWritten`), `SelfCallsInheritedOnly` (`SelfCallsAreInherited`),
  `ReceiversTypedOnly` (`ReceiversHaveTheirType`), `HandlersReported` (`HandlersAreReported`).

No state but the sources and what is derived of them matters to the last four; the work is in
following a statement through five stages, in both directions.

1. *Visitor*: the calls and assignments it finds for a body are written in the scope of that body
   (`SitesAreWritten`), and what is written there it finds (`WrittenAreHeld`). Both are
   by rounds: what is visited after n rounds stands in at most n statements of the scope.
2. *Extraction*: each definition extracted is written, under the scope it was found in, with a
   qualified name that is that scope's and its own (`FactsAreWritten`); definitions at the top of
   a module and in its classes are extracted (`TopFunctions`). Facts are well formed
   (`FactsOfFiles`), so the snapshots are those of well-formed facts (`SnapshotsOfFacts`).
3. *Names and types*: a name of a module goes to one of its imports or definitions
   (`NamesOfModule`, `NamesAreWritten`), and whatever resolves to a type is a known class
   (`LocalTypesKnown`, `AttributesOfWalk`, `TypesOfContext`).
4. *Edges*: an edge is a call of its scope that resolves to its target, and such a call is an edge
   (`EdgeIsCall`, `CallIsEdge`).
5. *One definition*: where a dotted name is defined once, the facts under it are those of that
   definition and its scope is that body and no other (`KnownBodies`, `OneFunctionFact`,
   `OneScope`), so that the only call of a name tells what an edge to it resolved (`OnlyCall`).

Then `self.m` resolves to what the search through bases finds first (`OwnMethodFound`), and the
classes searched are the ancestors by the inherits edges (`AncestorsAre`). For variables: once two
assignments disagree, or one has no type, the variable has none ever after (`OneTypeOnly`), so the
type it ends with is that of each of its assignments (`TypesAreAssigned`), and the value
of a factory has it by the caller's names or the factory's (`TypesGiven`).

`IncrementalIndexProofs`, from `IncrementalAssumption` and `ContentsAssumption` (no content
is taken for "absent" or "no hash"), of any number of files, contents, processes, releases,
edits and commands:

- `TypeCorrect`, `ModuleFits` (`ModuleFitsFingerprint`), `QuietIndex`
  (`QuietIndexIsFull`), `OneAnalyzer` (`OneAnalyzerPerRun`), `DriftReport`
  (`DriftReportIsRight`).

A record with a hash has the hash of what was seen; one without is of a file too large
to hash, seen with the time it carries, or of one that was gone (`RecordOK`). Hence two
records that match were of one content, unless the file is one of those
`UnhashedRewrite` names (`MatchMeansSame`). A module fits its record when it is made
unless its file was touched in between, and reuse takes it to a record that matches, so
it goes on fitting through any chain of runs (`ModuleOK`). While nobody edits, a
command's records are those of the tree (`QuietOK`). The invariant of a command (`JobOK`)
is stated of its record and of the values of the variables it depends on, so that an edit
(`EditKept`), a longer history (`JobKept`) and each step of its own are lemmas without
primes.

`ManualCacheProofs`, from `BoundsAssumption`, of any number of runs, modules, contents,
models and releases: `TypeCorrect`, `SummariesFit` (`SummaryFitsModule`), `CacheServes`
(`CacheServesAll`), `RivalsBreakAlone` (`OnlyRivalsBreak`). A run depends on the cache
through the set of stored keys, which loses none, and on the snapshot through the set of raced
hashes, which only grows; so what holds of a run (`RunOK`) survives the steps of all others
(`RunKept`), and the cache has one row for each key, made for that key (`CacheOK`). That a
summary is of the module's own path, name and analyzer is not proved, and is not so.

`AiAnswersProofs`, from `InputsAssumption` and `ProposalsAssumption`, of any snapshot and any
reply: `TypeCorrect`, `VerdictTells` (`VerdictTellsOfDropped`), `TableIsOfWhatWasFound`
(`OneIdPerEntity`), `InventsNothing` (`NothingInvented`), `ConfidenceEarned`
(`ConfidenceIsEarned`), `MisshapenDropped` (`MisshapenLeavesNothing`). A command's stages
are passed once, so the invariant (`IInv`) says what a command knows at each stage and that
its result is sound (`Sound`) and tells of misshapen fields (`Tells`): what is read without an
exception (`ShapeIsChecked`) lists nothing that a table knows, so that something is dropped
(`DroppedIsTold`). The work is in two chains of lemmas: one follows a verdict from a
field (`FieldVerdictTells`) through `combine_verdicts` (`CombinedTells`) to each answer; the
other shows that a candidate table holds what it is made of, each entity once, under the
number of its place, so that an id of the reply names an entity that was found, or nothing.

`ListLemmas` is what these and the lemmas about impact rest on wherever the code
loops over a list. The provers cannot instantiate an induction theorem of a predicate, but
they can one of a set: what holds of 0 and goes on from each number to the next holds up to n
(`UpTo`). From it follow that a loop with a given step has its values (`LoopExists`,
`FoldExists`), what `Only` and a concatenation of lists keep, and that a list with one element
more at its end determines both (`LongerAreEqual`), as a qualified name does its scope and name.

`RetrievalProofs`, from `SnapshotsAssumption`, `QueriesAssumption` and `BoundsAssumption`, of
any snapshot, query and limits: `RetrievalTypeCorrect`, `RetrievedNearAMatch`
(`OneHopFromAMatch`), `MatchesComeFirst` (`MatchesYieldToLinksOnly`), `ChainsFollowTheCalls`
(`ChainsAreTheFlows`). The first three follow from what a score is at each stage. The last needs
that nothing is forgotten: a flow of a kept function is a chain, or begins with a pending
path, or its function still waits; a path that is extended passes this on to one of its
extensions, and one that ends is the whole flow.

Model-checked only: `SaveEnds`, since liveness under fairness is out of the prover's reach; the
safety it rests on is `NoDeadlock` and `SaveIsBounded`. Every invariant and action property of the
passing runs, and the refinement, is a theorem. The recursions of the code over trees and lists are
written as functions of the number of rounds, so that what a round keeps can be proved up to the
bound (`UpTo`); no claim is made of trees deeper than `MaxNesting`, which is any number.
The violation runs are counterexamples and are not theorems.

## 5. Not modelled

Every component whose steps can interfere with another's is in a module. What is left out,
and why:

- *TypeScript analyzer*: regular expressions over the text of one file; its facts reach
  the same tables, but its modules have no name, so that no relationship is derived of them.
- *Web interface* (`api/app.py`): each request loads the latest snapshot with an engine of its
  own and calls what the commands call; `SnapshotLoad` has any number of such readers one
  after the other, and a reader writes nothing.
- *Git history and Git metadata*: the output of subprocesses. `IndexStore` takes any commit and
  dirty flag for a scan, so also those of a commit made while the tree is walked.
- *Selection of files* (ignore patterns, suffixes, binary files): a file of
  `IncrementalIndex` is one that is selected.
- *Splitting text*: names, docstrings and questions into words (`query/retrieval.py:42-90`),
  annotations into alternatives, replies into JSON; the models have the parts.
- *Schema creation* (`persistence/database.py`): DDL, before the first transaction. Two processes
  that create one SQLite database at the same moment may both find a table missing; the loser
  gets an OperationalError and nothing is stored.
- *Context limits, logging, prompts, templates, the benchmark*: wording and measurement.

Where another step could be taken: `AiAnswers` takes any set of found entities, which `Retrieval`
could narrow; entities of one dotted name (a package attribute and a submodule) would show more
of `find_entity_ref` and of the tables keyed by qualified name.
