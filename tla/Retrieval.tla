------------------------------- MODULE Retrieval -------------------------------
(***************************************************************************)
(* retrieve_relevant (query/retrieval.py): the files and symbols that ask  *)
(* and change show a model for a query, and the chains of calls between    *)
(* them.  Items match by their words, are linked to a match by an edge, or *)
(* are neighbours of a matched file; the best are kept, and calls are      *)
(* followed from the functions among them.                                 *)
(***************************************************************************)
EXTENDS Naturals, Sequences, FiniteSets

CONSTANTS
    Entity,       \* files, modules, functions and classes
    Directory,    \* the directories of files
    NoDirectory,  \* that of files at the root
    Term,         \* the words of names, docstrings and queries
    Snapshots,    \* the snapshots, as SnapshotRecord has them
    Queries,      \* the words a query may be made of
    TopFiles, TopSymbols,  \* top_k_files, top_k_symbols (8 and 12 in the code)
    MaxChains,    \* max_chains (6 in the code)
    ChainDepth    \* chain_depth, in calls (3 in the code)

EXPANSION_KINDS == {"calls", "imports", "inherits", "tests"}
Edges == [kind : EXPANSION_KINDS \union {"contains"}, source : Entity, target : Entity]

\* module and file relate the files that have a module and that module; terms are the
\* name of an item, the words in its qualified name or path, and those in its docstring.
SnapshotRecord(s) ==
    /\ s.files \in SUBSET Entity /\ s.symbols \in SUBSET Entity /\ s.functions \in SUBSET s.symbols
    /\ s.files \intersect s.symbols = {}
    /\ s.edges \in SUBSET Edges /\ IsFiniteSet(s.edges)
    /\ IsFiniteSet(s.files) /\ IsFiniteSet(s.symbols)
    /\ DOMAIN s.module \subseteq s.files /\ DOMAIN s.file \subseteq Entity \ s.symbols
    /\ \A f \in DOMAIN s.module : s.module[f] \in DOMAIN s.file /\ s.file[s.module[f]] = f
    /\ \A m \in DOMAIN s.file : s.file[m] \in DOMAIN s.module /\ s.module[s.file[m]] = m
    /\ s.directory \in [s.files -> Directory]
    /\ s.terms \in [s.files \union s.symbols -> [name : Term, parts : SUBSET Term, doc : SUBSET Term]]

ASSUME SnapshotsAssumption == \A s \in Snapshots : SnapshotRecord(s)
ASSUME QueriesAssumption == Queries \subseteq SUBSET Term
ASSUME BoundsAssumption ==
    TopFiles \in Nat /\ TopSymbols \in Nat /\ MaxChains \in Nat \ {0} /\ ChainDepth \in Nat \ {0}

VARIABLES
    snapshot,  \* the loaded snapshot
    query,     \* query_terms
    stage,     \* "match", "expand", "neighbours", "rank", "chains", "done"
    matched,   \* the items that match by their words
    score,     \* the score of every item, 0 if it was not found
    kept,      \* the items retrieved
    waiting,   \* the kept functions no chain was begun from yet
    pending,   \* the paths of calls still to be followed
    chains     \* the chains retrieved, each a sequence of functions and classes

vars == <<snapshot, query, stage, matched, score, kept, waiting, pending, chains>>

Items == snapshot.files \union snapshot.symbols

Init ==
    /\ snapshot \in Snapshots /\ query \in Queries
    /\ stage = "match"
    /\ matched = {} /\ score = [i \in Items |-> 0]
    /\ kept = {} /\ waiting = {} /\ pending = {} /\ chains = {}

-----------------------------------------------------------------------------
(* What is found.                                                          *)

\* _name_signal, _docstring_signal, with their weights.
NameWeight(i) ==
    IF snapshot.terms[i].name \in query THEN 5
    ELSE IF snapshot.terms[i].parts \intersect query # {} THEN 4
    ELSE 0
DocstringWeight(i) == IF snapshot.terms[i].doc \intersect query # {} THEN 3 ELSE 0
Lexical(i) == NameWeight(i) + DocstringWeight(i)

\* The loop over modules and symbols: nothing is retrieved if nothing matches.
Match ==
    /\ stage = "match"
    /\ score' = [i \in Items |-> Lexical(i)]
    /\ matched' = {i \in Items : Lexical(i) > 0}
    /\ stage' = IF matched' = {} THEN "done" ELSE "expand"
    /\ UNCHANGED <<snapshot, query, kept, waiting, pending, chains>>

\* _seed_refs: a file stands for the module in it.
SeedRefs ==
    (matched \intersect snapshot.symbols)
    \union {snapshot.module[f] : f \in matched \intersect DOMAIN snapshot.module}

\* file_for_ref, symbol_for_ref: the item that an end of an edge is, if any.
ItemsOf(ref) ==
    (IF ref \in DOMAIN snapshot.file THEN {snapshot.file[ref]} ELSE {})
    \union ({ref} \intersect snapshot.symbols)

\* The ends of edges with a seed at the other end: one signal for each way an edge is met.
Expansion == {e \in snapshot.edges : e.kind \in EXPANSION_KINDS}
Outgoing(i) == {e \in Expansion : e.source \in SeedRefs /\ i \in ItemsOf(e.target)}
Incoming(i) == {e \in Expansion : e.target \in SeedRefs /\ i \in ItemsOf(e.source)}
Signals(i) == Cardinality(Outgoing(i)) + Cardinality(Incoming(i))

\* Mutant: what is found by an edge is expanded, too.
ExpandTwice ==
    /\ stage = "expand"
    /\ score' = [i \in Items |-> score[i] + 2 * Signals(i)]
    /\ matched' = matched \union {i \in Items : Signals(i) > 0}
    /\ stage' = IF matched' = matched THEN "neighbours" ELSE stage
    /\ UNCHANGED <<snapshot, query, kept, waiting, pending, chains>>

\* _expand_via_relationships
Expand ==
    /\ stage = "expand"
    /\ score' = [i \in Items |-> score[i] + 2 * Signals(i)]
    /\ stage' = "neighbours"
    /\ UNCHANGED <<snapshot, query, matched, kept, waiting, pending, chains>>

MatchedDirectories == {snapshot.directory[f] : f \in matched \intersect snapshot.files} \ {NoDirectory}

\* _expand_via_directory_proximity: only files not found so far.
AddNeighbours ==
    /\ stage = "neighbours"
    /\ score' = [i \in Items |->
                    IF i \in snapshot.files /\ score[i] = 0 /\ snapshot.directory[i] \in MatchedDirectories
                    THEN 1 ELSE score[i]]
    /\ stage' = "rank"
    /\ UNCHANGED <<snapshot, query, matched, kept, waiting, pending, chains>>

Found == {i \in Items : score[i] > 0}

\* Mutant: the first found are kept, whatever their score.
IsFirst(top, all, k) == top \subseteq all /\ Cardinality(top) = IF Cardinality(all) < k THEN Cardinality(all) ELSE k

\* The first k of a list sorted by score, whatever the order of equals.
IsTop(top, all, k) ==
    /\ top \subseteq all
    /\ Cardinality(top) = IF Cardinality(all) < k THEN Cardinality(all) ELSE k
    /\ \A i \in top : \A j \in all \ top : score[i] >= score[j]

Rank ==
    /\ stage = "rank"
    /\ \E files \in SUBSET (Found \intersect snapshot.files),
          symbols \in SUBSET (Found \intersect snapshot.symbols) :
            /\ IsTop(files, Found \intersect snapshot.files, TopFiles)
            /\ IsTop(symbols, Found \intersect snapshot.symbols, TopSymbols)
            /\ kept' = files \union symbols
            /\ waiting' = symbols \intersect snapshot.functions
    /\ stage' = "chains"
    /\ UNCHANGED <<snapshot, query, matched, score, pending, chains>>

-----------------------------------------------------------------------------
(* _relationship_chains: the paths of calls from a function, of which the  *)
(* code follows one after the other and the model any next; of those with  *)
(* the same targets, one is a chain.                                       *)

\* Mutant: one chain too many.
FullLate == Cardinality(chains) > MaxChains

Full == Cardinality(chains) >= MaxChains

\* The next of the kept functions, best first.
BeginChains ==
    /\ stage = "chains" /\ pending = {} /\ ~Full
    /\ \E f \in waiting :
          /\ \A g \in waiting : score[f] >= score[g]
          /\ pending' = {<<f>>}
          /\ waiting' = waiting \ {f}
    /\ UNCHANGED <<snapshot, query, stage, matched, score, kept, chains>>

Callees(e) == {r.target : r \in {x \in snapshot.edges : x.kind = "calls" /\ x.source = e}}
On(path) == {path[i] : i \in 1 .. Len(path)}

\* Mutant: a path goes on through one callee.
OneNextCall(path) ==
    LET callees == IF Len(path) <= ChainDepth THEN Callees(path[Len(path)]) \ On(path) ELSE {}
    IN  IF callees = {} THEN {} ELSE {CHOOSE c \in callees : TRUE}

\* Where a path may go on: to a callee not on it, unless it is as long as it may be.
NextCalls(path) == IF Len(path) <= ChainDepth THEN Callees(path[Len(path)]) \ On(path) ELSE {}

Extend(path) ==
    /\ NextCalls(path) # {}
    /\ pending' = (pending \ {path}) \union {Append(path, c) : c \in NextCalls(path)}
    /\ UNCHANGED chains

\* A path that ends, and goes further than its function, is a chain, unless one with its
\* targets has been retrieved.
End(path) ==
    /\ NextCalls(path) = {}
    /\ pending' = pending \ {path}
    /\ chains' = chains \union {p \in {path} : Len(p) > 1 /\ \A c \in chains : Tail(c) # Tail(p)}

Follow ==
    /\ stage = "chains" /\ ~Full
    /\ \E path \in pending : Extend(path) \/ End(path)
    /\ UNCHANGED <<snapshot, query, stage, matched, score, kept, waiting>>

Answer ==
    /\ stage = "chains" /\ (Full \/ (pending = {} /\ waiting = {}))
    /\ stage' = "done"
    /\ UNCHANGED <<snapshot, query, matched, score, kept, waiting, pending, chains>>

Finished == stage = "done" /\ UNCHANGED vars

Next == Match \/ Expand \/ AddNeighbours \/ Rank \/ BeginChains \/ Follow \/ Answer \/ Finished

Spec == Init /\ [][Next]_vars

-----------------------------------------------------------------------------
(* Properties.                                                             *)

Stages == {"match", "expand", "neighbours", "rank", "chains", "done"}

\* Every variable has its type, and no more is kept or retrieved than asked for.
RetrievalTypeOK ==
    /\ query \in SUBSET Term /\ stage \in Stages
    /\ matched \subseteq Items /\ score \in [Items -> Nat]
    /\ kept \subseteq Items /\ waiting \subseteq kept \intersect snapshot.functions
    /\ Cardinality(kept \intersect snapshot.files) <= TopFiles
    /\ Cardinality(kept \intersect snapshot.symbols) <= TopSymbols
    /\ pending \subseteq Seq(Entity) /\ chains \subseteq Seq(Entity)
    /\ IsFiniteSet(chains) /\ Cardinality(chains) <= MaxChains

\* The items that match by themselves, and those an edge relates to one of them.
Matches == {i \in Items : Lexical(i) > 0}
Ends(e) == ItemsOf(e.source) \union ItemsOf(e.target)
LinksToMatches(i) == {e \in Expansion : i \in Ends(e) /\ Ends(e) \intersect Matches # {}}

NearAMatch(i) ==
    \/ i \in Matches
    \/ LinksToMatches(i) # {}
    \/ /\ i \in snapshot.files
       /\ \E f \in Matches \intersect snapshot.files :
             snapshot.directory[f] = snapshot.directory[i] /\ snapshot.directory[f] # NoDirectory

\* Whatever is retrieved matches by itself, is related to a match by one edge, or lies
\* beside a file that matches: never beside, or one edge from, what only expansion found;
\* and nothing is retrieved where nothing matches (retrieval.py:327-360, 463-465).
OneHopFromAMatch == \A i \in kept : NearAMatch(i)

\* A match is left out only for other matches and for what at least two edges relate to
\* matches, and nothing found is left out for a mere neighbour (retrieval.py:471-472).
MatchesYieldToLinksOnly ==
    stage \in {"chains", "done"} =>
        \A group \in {snapshot.files, snapshot.symbols} :
            \A i \in group \ kept, j \in group \intersect kept :
                /\ i \in Matches => j \in Matches \/ Cardinality(LinksToMatches(j)) >= 2
                /\ LinksToMatches(i) # {} => j \in Matches \/ LinksToMatches(j) # {}

\* A flow of calls out of a retrieved function: from call to call, through nothing twice,
\* and as far as it goes or ChainDepth calls.
IsFlow(p) ==
    /\ Len(p) > 1 /\ p[1] \in kept \intersect snapshot.functions
    /\ \A i \in 1 .. Len(p) - 1 : p[i + 1] \in Callees(p[i])
    /\ \A i, j \in 1 .. Len(p) : p[i] = p[j] => i = j
    /\ Len(p) = ChainDepth + 1 \/ (Len(p) <= ChainDepth /\ Callees(p[Len(p)]) \subseteq On(p))

CallEnds == snapshot.functions \union UNION {Callees(f) : f \in snapshot.functions}
Flows == {p \in UNION {[1 .. n -> CallEnds] : n \in 2 .. ChainDepth + 1} : IsFlow(p)}

\* Each chain shown to the model is a flow, none is shown twice, and in the end all are
\* shown, up to their first function, unless there are too many: calls that go in circles
\* are followed, neither for ever nor twice (retrieval.py:363-407).
ChainsAreTheFlows ==
    /\ \A c \in chains : IsFlow(c)
    /\ \A c, d \in chains : Tail(c) = Tail(d) => c = d
    /\ stage = "done" /\ Cardinality(chains) < MaxChains =>
          \A p \in Flows : \E c \in chains : Tail(c) = Tail(p)
=============================================================================
