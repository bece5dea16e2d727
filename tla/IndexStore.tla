----------------------------- MODULE IndexStore -----------------------------
(***************************************************************************)
(* persistence/store.py: IndexStore.save as it runs in several processes   *)
(* against one database.  Every action is one SQL statement (or a group of *)
(* statements no other process can come between), because that is where    *)
(* the interleavings are:                                                  *)
(*                                                                         *)
(*   get-or-create repository  ->  get-or-create working copy  ->          *)
(*   look for the run of this commit  ->  load its child rows  ->          *)
(*   delete it  ->  insert the new run  ->  insert rows and commit  ->     *)
(*   read the new run's id back                                            *)
(*                                                                         *)
(* repositories, working_copies, runs and rows hold COMMITTED rows only;   *)
(* what a transaction has written and not committed is in tx.  The two     *)
(* databases the code supports differ in three ways the code depends on:   *)
(*   sqlite      a SELECT outside a transaction commits at once; the first *)
(*               write takes the one write lock until the end of the       *)
(*               transaction; a waiter gives up after a timeout; ids are   *)
(*               reused (largest live id + 1)                              *)
(*   postgresql  writers wait only for a row or a unique key another       *)
(*               transaction has touched; ids are never reused             *)
(***************************************************************************)
EXTENDS Integers, FiniteSets

CONSTANTS
    Savers,        \* processes that call IndexStore.save
    Checkouts,     \* records [repo, root]: a working copy and its repository identity
    Commits,       \* values of commit_sha, NoCommit among them or not
    NoCommit,      \* commit_sha is None: the tree has no Git history
    Tables,        \* child tables of a run: files, symbols, relationships, unresolved_calls
    DirtyFlags,    \* values of is_dirty: a tree with changes its commit does not have
    Sizes,         \* how many rows a save writes to each child table
    Backend,       \* "sqlite" or "postgresql"
    MaxSaves       \* bound: calls of save in a behaviour

ASSUME StoreAssumption ==
    /\ Backend \in {"sqlite", "postgresql"}
    /\ DirtyFlags \subseteq BOOLEAN
    /\ Checkouts # {} /\ Sizes # {} /\ Sizes \subseteq Nat
    /\ MaxSaves \in Nat

VARIABLES
    repositories,    \* repository identities with a row
    working_copies,  \* checkouts with a row
    runs,            \* rows of index_runs
    rows,            \* rows[t]: rows of child table t
    seq,             \* postgresql: the largest id handed out
    clock,           \* scans taken so far; a scan's time is its number
    pc,              \* pc[s]: the next statement of s, or how its save ended
    req,             \* req[s]: what s was asked to save
    tx               \* tx[s]: what s's attempt has read and written

tables == <<repositories, working_copies, runs, rows, seq>>
vars == <<repositories, working_copies, runs, rows, seq, clock, pc, req, tx>>

\* Fault: no retry.
OneAttempt == 1

MaxSaveAttempts == 2

Writing == {"insert_repository", "insert_working_copy", "delete_run", "insert_run"}
Reading == {"select_repository", "select_working_copy", "select_run", "load_children"}
Active == Writing \union Reading \union {"commit", "refresh"}
Ended == {"idle", "returned", "integrity_error", "object_deleted", "locked", "crashed"}

CommitSha == Commits \union {NoCommit}

Request == [checkout: Checkouts, commit: CommitSha,
            dirty: BOOLEAN, size: Sizes, at: 0..MaxSaves]

\* What a save says about its run; at is indexed_at, and tells saves apart.
Info == [checkout: Checkouts, commit: CommitSha, dirty: BOOLEAN,
         at: 0..MaxSaves]

InfoOf(q) ==
    [checkout |-> q.checkout, commit |-> q.commit, dirty |-> q.dirty, at |-> q.at]

\* size is a history field: how many rows the save of this run wrote per table.
Run == [id: Nat, checkout: Checkouts, commit: CommitSha,
        dirty: BOOLEAN, size: Sizes, at: 0..MaxSaves]

\* from is a history field: the save that wrote the row.
Row == [id: Nat, run: Nat, from: Info]

\* overlap is a history field: other saves of this commit that committed
\* since this call of save began.
Tx == [attempt: 1..MaxSaveAttempts, wrote: BOOLEAN, newRepo: BOOLEAN, newCopy: BOOLEAN,
       found: Nat, loaded: SUBSET Tables, kids: [Tables -> SUBSET Nat],
       runId: Nat, overlap: Nat]

\* Fault: attempts counted from the wrong end.
NewTxOffByOne(attempt, overlap) ==
    [attempt |-> attempt + 1, wrote |-> FALSE, newRepo |-> FALSE, newCopy |-> FALSE,
     found |-> 0, loaded |-> {}, kids |-> [t \in Tables |-> {}],
     runId |-> 0, overlap |-> overlap]

NewTx(attempt, overlap) ==
    [attempt |-> attempt, wrote |-> FALSE, newRepo |-> FALSE, newCopy |-> FALSE,
     found |-> 0, loaded |-> {}, kids |-> [t \in Tables |-> {}],
     runId |-> 0, overlap |-> overlap]

NoRequest ==
    [checkout |-> CHOOSE c \in Checkouts : TRUE, commit |-> NoCommit, dirty |-> FALSE,
     size |-> CHOOSE n \in Sizes : TRUE, at |-> 0]

TypeOK ==
    /\ repositories \subseteq {c.repo : c \in Checkouts}
    /\ working_copies \subseteq Checkouts
    /\ runs \subseteq Run
    /\ rows \in [Tables -> SUBSET Row]
    /\ seq \in Nat
    /\ clock \in 0..MaxSaves
    /\ pc \in [Savers -> Active \union Ended]
    /\ req \in [Savers -> Request]
    /\ tx \in [Savers -> Tx]

Init ==
    /\ repositories = {}
    /\ working_copies = {}
    /\ runs = {}
    /\ rows = [t \in Tables |-> {}]
    /\ seq = 0
    /\ clock = 0
    /\ pc = [s \in Savers |-> "idle"]
    /\ req = [s \in Savers |-> NoRequest]
    /\ tx = [s \in Savers |-> NewTx(1, 0)]

-----------------------------------------------------------------------------
(* Keys, locks and ids.                                                    *)

Others(s) == Savers \ {s}

Repo(s) == req[s].checkout.repo

\* The unique key (repository_id, commit_sha); NULL commits never collide.
SameKey(p, q) ==
    /\ p.commit # NoCommit
    /\ p.commit = q.commit
    /\ p.checkout.repo = q.checkout.repo

\* Whether s may write now: sqlite has one writer, postgresql makes s wait for
\* the transactions that hold what it wants to touch.
MayWrite(s, holders) ==
    CASE Backend = "sqlite" -> \A o \in Others(s) : ~tx[o].wrote
      [] Backend = "postgresql" -> holders = {}

\* Transactions other than s's that hold the deletion of the run with this id.
Deleting(s, id) ==
    {o \in Others(s) : pc[o] \in {"insert_run", "commit"} /\ id # 0 /\ tx[o].found = id}

\* Transactions other than s's that hold the key s wants to insert: they inserted
\* a run with it, or are deleting the live run that has it.
HoldingKey(s) ==
    {o \in Others(s) : pc[o] = "commit" /\ SameKey(req[o], req[s])}
        \union UNION {Deleting(s, q.id) : q \in {p \in runs : SameKey(p, req[s])}}

Ids(S) == {r.id : r \in S}

\* SQLite's rowid for INTEGER PRIMARY KEY: one more than the largest live one.
AfterLargest(S) ==
    IF S = {} THEN 1 ELSE 1 + (CHOOSE n \in Ids(S) : \A m \in Ids(S) : m <= n)

\* The first id an INSERT into a table with these rows gets.
FreshId(S) == IF Backend = "sqlite" THEN AfterLargest(S) ELSE seq + 1

-----------------------------------------------------------------------------
(* One call of save.                                                       *)

\* `codebase index` has scanned its checkout and calls save.
Begin(s) ==
    /\ pc[s] \in Ended
    /\ clock < MaxSaves
    /\ clock' = clock + 1
    /\ \E c \in Checkouts, m \in Commits, d \in DirtyFlags \union {FALSE}, n \in Sizes :
          /\ m = NoCommit => ~d
          /\ req' = [req EXCEPT ![s] = [checkout |-> c, commit |-> m, dirty |-> d,
                                        size |-> n, at |-> clock + 1]]
    /\ pc' = [pc EXCEPT ![s] = "select_repository"]
    /\ tx' = [tx EXCEPT ![s] = NewTx(1, 0)]
    /\ UNCHANGED tables

SelectRepository(s) ==
    /\ pc[s] = "select_repository"
    /\ pc' = [pc EXCEPT ![s] = IF Repo(s) \in repositories THEN "select_working_copy"
                                                          ELSE "insert_repository"]
    /\ UNCHANGED <<tables, clock, req, tx>>

\* The unique constraint on identity refuses a row another process committed
\* first: roll back and use theirs.
InsertRepository(s) ==
    /\ pc[s] = "insert_repository"
    /\ MayWrite(s, {o \in Others(s) : tx[o].newRepo /\ Repo(o) = Repo(s)})
    /\ pc' = [pc EXCEPT ![s] = "select_working_copy"]
    /\ IF Repo(s) \in repositories
          THEN UNCHANGED tx
          ELSE tx' = [tx EXCEPT ![s].newRepo = TRUE, ![s].wrote = TRUE]
    /\ UNCHANGED <<tables, clock, req>>

SelectWorkingCopy(s) ==
    /\ pc[s] = "select_working_copy"
    /\ pc' = [pc EXCEPT ![s] = IF req[s].checkout \in working_copies THEN "select_run"
                                                            ELSE "insert_working_copy"]
    /\ UNCHANGED <<tables, clock, req, tx>>

\* As InsertRepository; the rollback also undoes a repository row this
\* transaction inserted.
InsertWorkingCopy(s) ==
    /\ pc[s] = "insert_working_copy"
    /\ MayWrite(s, {o \in Others(s) : tx[o].newCopy /\ req[o].checkout = req[s].checkout})
    /\ pc' = [pc EXCEPT ![s] = "select_run"]
    /\ IF req[s].checkout \in working_copies
          THEN tx' = [tx EXCEPT ![s] = NewTx(@.attempt, @.overlap)]
          ELSE tx' = [tx EXCEPT ![s].newCopy = TRUE, ![s].wrote = TRUE]
    /\ UNCHANGED <<tables, clock, req>>

\* Fault: the commit is left out of the lookup.
SelectRunOfAnyCommit(s) ==
    /\ pc[s] = "select_run"
    /\ LET existing == {q \in runs : q.checkout.repo = Repo(s)} IN
       \/ /\ existing = {}
          /\ pc' = [pc EXCEPT ![s] = "insert_run"]
          /\ UNCHANGED tx
       \/ \E q \in existing :
             /\ pc' = [pc EXCEPT ![s] = "load_children"]
             /\ tx' = [tx EXCEPT ![s].found = q.id]
    /\ UNCHANGED <<tables, clock, req>>

\* The run to replace. A request without a commit does not look for one.
SelectRun(s) ==
    /\ pc[s] = "select_run"
    /\ LET existing == {q \in runs : SameKey(q, req[s])} IN
       \/ /\ existing = {}
          /\ pc' = [pc EXCEPT ![s] = "insert_run"]
          /\ UNCHANGED tx
       \/ \E q \in existing :
             /\ pc' = [pc EXCEPT ![s] = "load_children"]
             /\ tx' = [tx EXCEPT ![s].found = q.id]
    /\ UNCHANGED <<tables, clock, req>>

\* session.delete loads the run's child rows, one SELECT per table, so that the
\* flush can delete each by its id.
LoadChildren(s, t) ==
    /\ pc[s] = "load_children"
    /\ t \notin tx[s].loaded
    /\ tx' = [tx EXCEPT ![s].kids[t] = Ids({r \in rows[t] : r.run = tx[s].found}),
                        ![s].loaded = @ \union {t}]
    /\ pc' = [pc EXCEPT ![s] = IF tx[s].loaded \union {t} = Tables THEN "delete_run" ELSE @]
    /\ UNCHANGED <<tables, clock, req>>

\* The flush deletes, by id, the child rows it loaded and the run; an id that is
\* gone by then is only a warning. Commit applies the deletions.
DeleteRun(s) ==
    /\ pc[s] = "delete_run"
    /\ MayWrite(s, Deleting(s, tx[s].found))
    /\ pc' = [pc EXCEPT ![s] = "insert_run"]
    /\ tx' = [tx EXCEPT ![s].wrote = TRUE]
    /\ UNCHANGED <<tables, clock, req>>

\* Live runs as s sees them: its own deletion is done.
RunsSeenBy(s) == {q \in runs : q.id # tx[s].found}

\* Fault: no unique constraint on (repository, commit).
InsertRunUnchecked(s) ==
    /\ pc[s] = "insert_run"
    /\ MayWrite(s, {})
    /\ LET id == FreshId(RunsSeenBy(s)) IN
       /\ tx' = [tx EXCEPT ![s].runId = id, ![s].wrote = TRUE]
       /\ seq' = IF Backend = "postgresql" THEN id ELSE seq
    /\ pc' = [pc EXCEPT ![s] = "commit"]
    /\ UNCHANGED <<repositories, working_copies, runs, rows, clock, req>>

\* The new run gets an id; its unique key is free.
InsertRun(s) ==
    /\ pc[s] = "insert_run"
    /\ MayWrite(s, HoldingKey(s))
    /\ \A q \in RunsSeenBy(s) : ~SameKey(q, req[s])
    /\ LET id == FreshId(RunsSeenBy(s)) IN
       /\ tx' = [tx EXCEPT ![s].runId = id, ![s].wrote = TRUE]
       /\ seq' = IF Backend = "postgresql" THEN id ELSE seq
    /\ pc' = [pc EXCEPT ![s] = "commit"]
    /\ UNCHANGED <<repositories, working_copies, runs, rows, clock, req>>

\* Fault: the retry resumes at the lookup of the run, as if the rollback had kept
\* the repository and working copy it inserted.
RetryFromSelectRun(s) ==
    /\ pc[s] = "insert_run"
    /\ MayWrite(s, HoldingKey(s))
    /\ \E q \in RunsSeenBy(s) : SameKey(q, req[s])
    /\ pc' = [pc EXCEPT ![s] = IF tx[s].attempt < MaxSaveAttempts
                                  THEN "select_run" ELSE "integrity_error"]
    /\ tx' = [tx EXCEPT ![s] =
                 NewTx(IF @.attempt < MaxSaveAttempts THEN @.attempt + 1 ELSE @.attempt,
                       @.overlap)]
    /\ UNCHANGED <<tables, clock, req>>

\* Fault: the retry repeats the insert alone, and does not count.
RetryInsertAlone(s) ==
    /\ pc[s] = "insert_run"
    /\ MayWrite(s, HoldingKey(s))
    /\ \E q \in RunsSeenBy(s) : SameKey(q, req[s])
    /\ UNCHANGED vars

\* The unique constraint refuses a second run of the commit: the attempt is rolled
\* back whole, and the save tried once more before the error is raised.
RefuseRun(s) ==
    /\ pc[s] = "insert_run"
    /\ MayWrite(s, HoldingKey(s))
    /\ \E q \in RunsSeenBy(s) : SameKey(q, req[s])
    /\ pc' = [pc EXCEPT ![s] = IF tx[s].attempt < MaxSaveAttempts
                                  THEN "select_repository" ELSE "integrity_error"]
    /\ tx' = [tx EXCEPT ![s] =
                 NewTx(IF @.attempt < MaxSaveAttempts THEN @.attempt + 1 ELSE @.attempt,
                       @.overlap)]
    /\ UNCHANGED <<tables, clock, req>>

NewRun(s) ==
    [id |-> tx[s].runId, checkout |-> req[s].checkout, commit |-> req[s].commit,
     dirty |-> req[s].dirty, size |-> req[s].size, at |-> req[s].at]

\* Fault: the run is deleted without its child rows.
RowsKept(s, t) ==
    LET first == FreshId(rows[t])
    IN  rows[t] \union [id: first..(first + req[s].size - 1), run: {tx[s].runId},
                       from: {InfoOf(req[s])}]

\* The rows of child table t after s's deletions and insertions.
RowsAfter(s, t) ==
    LET kept == {r \in rows[t] : r.id \notin tx[s].kids[t]}
        first == FreshId(kept)
    IN  kept \union [id: first..(first + req[s].size - 1), run: {tx[s].runId}, from: {InfoOf(req[s])}]

\* The child rows are flushed and the transaction commits.
Commit(s) ==
    /\ pc[s] = "commit"
    /\ repositories' = repositories \union (IF tx[s].newRepo THEN {Repo(s)} ELSE {})
    /\ working_copies' = working_copies \union (IF tx[s].newCopy THEN {req[s].checkout} ELSE {})
    /\ runs' = RunsSeenBy(s) \union {NewRun(s)}
    /\ rows' = [t \in Tables |-> RowsAfter(s, t)]
    /\ seq' = IF Backend = "postgresql" THEN seq + req[s].size ELSE seq
    /\ pc' = [pc EXCEPT ![s] = "refresh"]
    /\ tx' = [o \in Savers |->
                 IF o = s THEN [tx[s] EXCEPT !.wrote = FALSE, !.newRepo = FALSE, !.newCopy = FALSE]
                 ELSE IF pc[o] \in Active /\ SameKey(req[o], req[s])
                        THEN [tx[o] EXCEPT !.overlap = @ + 1] ELSE tx[o]]
    /\ UNCHANGED <<clock, req>>

\* `return run.id` after the commit expired it: a SELECT by id, which raises
\* ObjectDeletedError when the row is gone.
Refresh(s) ==
    /\ pc[s] = "refresh"
    /\ pc' = [pc EXCEPT ![s] = IF \E q \in runs : q.id = tx[s].runId THEN "returned"
                                                             ELSE "object_deleted"]
    /\ UNCHANGED <<tables, clock, req, tx>>

\* SQLite gives up waiting for the write lock (OperationalError, not retried).
BusyTimeout(s) ==
    /\ Backend = "sqlite"
    /\ pc[s] \in Writing
    /\ ~MayWrite(s, {})
    /\ pc' = [pc EXCEPT ![s] = "locked"]
    /\ tx' = [tx EXCEPT ![s] = NewTx(@.attempt, @.overlap)]
    /\ UNCHANGED <<tables, clock, req>>

\* The process is killed: the database rolls its transaction back.
Crash(s) ==
    /\ pc[s] \in Active
    /\ pc' = [pc EXCEPT ![s] = "crashed"]
    /\ tx' = [tx EXCEPT ![s] = NewTx(@.attempt, @.overlap)]
    /\ UNCHANGED <<tables, clock, req>>

Step(s) ==
    \/ SelectRepository(s) \/ InsertRepository(s)
    \/ SelectWorkingCopy(s) \/ InsertWorkingCopy(s)
    \/ SelectRun(s) \/ \E t \in Tables : LoadChildren(s, t)
    \/ DeleteRun(s) \/ InsertRun(s) \/ RefuseRun(s) \/ Commit(s) \/ Refresh(s)

\* Every save has ended and the bound leaves no other to begin.
Finished ==
    /\ clock = MaxSaves
    /\ \A s \in Savers : pc[s] \in Ended
    /\ UNCHANGED vars

Next ==
    \/ \E s \in Savers : Begin(s) \/ Step(s) \/ BusyTimeout(s) \/ Crash(s)
    \/ Finished

Spec == Init /\ [][Next]_vars

\* A process in save goes on: nothing in the code suspends it, and a lock it
\* waits for is released when its holder commits, rolls back or dies.
FairSpec == Spec /\ \A s \in Savers : WF_vars(Step(s))
-----------------------------------------------------------------------------
(* Properties.                                                             *)

\* A save that runs between another's SELECT of a run and its DELETE may have
\* replaced that run, and sqlite may have given its id to the replacement: the id
\* read still names no run but one of the same repository and commit, so a stale
\* delete never takes another commit's run (store.py:140-149).
FoundIdKeepsItsKey ==
    \A s \in Savers :
        pc[s] \in {"load_children", "delete_run", "insert_run", "commit"} =>
            \A q \in runs : q.id = tx[s].found => SameKey(q, req[s])

\* Rows a stale delete left behind under a run's id can only join a later run of
\* the same repository and commit, never one of another commit (store.py:162-171).
RowsOfOneCommit ==
    \A t \in Tables : \A r \in rows[t], q \in runs :
        r.run = q.id => r.from = InfoOf(q) \/ SameKey(r.from, q)

\* Every child row belongs to a run, and every run has exactly the rows its own
\* save wrote: replacing a run is all or nothing (store.py:118-174).
RunIntact ==
    \A t \in Tables :
        /\ \A r \in rows[t] : \E q \in runs : r.run = q.id /\ r.from = InfoOf(q)
        /\ \A q \in runs : Cardinality({r \in rows[t] : r.run = q.id}) = q.size

\* A run's working copy has its row and a working copy's repository has its row,
\* although the get-or-create races roll inserts back (store.py:65-109); SQLite
\* does not enforce the foreign keys.
ReferencesResolve ==
    /\ \A c \in working_copies : c.repo \in repositories
    /\ \A q \in runs : q.checkout \in working_copies

\* save fails only against rivals that were stored: an IntegrityError escapes it
\* only if two other saves of the commit committed during the call, since one retry
\* absorbs one rival, and `return run.id` misses its row only if one did
\* (store.py:118-182).
FailureNeedsRivals ==
    \A s \in Savers :
        /\ pc[s] = "integrity_error" => tx[s].overlap >= 2
        /\ pc[s] = "object_deleted" => tx[s].overlap >= 1
        /\ tx[s].attempt = 2 => tx[s].overlap >= 1

\* Every call of save ends: no two transactions wait for each other forever.
SaveEnds == \A s \in Savers : pc[s] \in Active ~> pc[s] \in Ended

\* Storing a run is one step of the registry: the run it supersedes disappears
\* as it appears, whatever the interleaving (store.py:3-6).
Registry == INSTANCE RunRegistry
    WITH RunInfo <- Info, Supersedes <- SameKey, registry <- {InfoOf(q) : q \in runs}

ReplacesAtomically == Registry!Spec
=============================================================================
