---------------------------- MODULE SnapshotLoad ----------------------------
(***************************************************************************)
(* persistence/store.py: IndexStore.latest_snapshot, run by other processes *)
(* (every command but `index` starts with it, and so does `index`) while   *)
(* IndexStore saves.  The run is chosen by one SELECT and its child rows    *)
(* are read by one SELECT per table; nothing holds the tables still in     *)
(* between (READ COMMITTED, or sqlite outside a transaction).              *)
(***************************************************************************)
EXTENDS IndexStore

CONSTANT Readers   \* processes that call latest_snapshot

VARIABLES
    rd,       \* rd[r]: the call of latest_snapshot r is in, or its result
    indexed,  \* history: checkouts whose save has committed at least once
    displaced \* history: checkouts that lost a run to another checkout's save

loadVars == <<vars, rd, indexed, displaced>>

NoRun == [id |-> 0, checkout |-> NoRequest.checkout, commit |-> NoRequest.commit,
          dirty |-> FALSE, size |-> NoRequest.size, at |-> 0]

NoRows == [t \in Tables |-> {}]

\* first is a history field: the checkout had never indexed when its runs were read.
Call == [pc: {"idle", "select_own", "select_any", "load", "loaded", "none"},
         checkout: Checkouts, run: Run \union {NoRun}, left: SUBSET Tables,
         got: [Tables -> SUBSET Row], first: BOOLEAN]

LoadTypeOK ==
    /\ TypeOK
    /\ rd \in [Readers -> Call]
    /\ displaced \subseteq indexed /\ indexed \subseteq Checkouts

LoadInit ==
    /\ Init
    /\ rd = [r \in Readers |->
               [pc |-> "idle", checkout |-> NoRequest.checkout, run |-> NoRun,
                left |-> {}, got |-> NoRows, first |-> FALSE]]
    /\ indexed = {}
    /\ displaced = {}

\* The run a SELECT ... ORDER BY indexed_at DESC LIMIT 1 returns.
Latest(S) == CHOOSE q \in S : \A p \in S : p.at <= q.at

\* latest_snapshot(identity, working_copy_root)
StartLoad(r) ==
    /\ rd[r].pc \in {"idle", "loaded", "none"}
    /\ \E c \in Checkouts :
          rd' = [rd EXCEPT ![r] = [pc |-> "select_own", checkout |-> c, run |-> NoRun,
                                   left |-> Tables, got |-> NoRows, first |-> FALSE]]
    /\ UNCHANGED <<vars, indexed, displaced>>

Choose(r, S) == rd' = [rd EXCEPT ![r].pc = "load", ![r].run = Latest(S)]

\* Fault: the working copy is compared after the repository's latest run is chosen.
SelectOwnAfterLatest(r) ==
    /\ rd[r].pc = "select_own"
    /\ LET c == rd[r].checkout
           all == {q \in runs : q.checkout.repo = c.repo}
           own == {q \in all : q = Latest(all) /\ q.checkout = c}
       IN  \/ c.repo \notin repositories /\ rd' = [rd EXCEPT ![r].pc = "none"]
           \/ own # {} /\ Choose(r, own)
           \/ /\ c.repo \in repositories /\ own = {}
              /\ rd' = [rd EXCEPT ![r].pc = "select_any", ![r].first = c \notin indexed]
    /\ UNCHANGED <<vars, indexed, displaced>>

\* The working copy's own runs. An unknown repository ends the call at once.
SelectOwn(r) ==
    /\ rd[r].pc = "select_own"
    /\ LET c == rd[r].checkout
           own == {q \in runs : q.checkout = c}
       IN  \/ c.repo \notin repositories /\ rd' = [rd EXCEPT ![r].pc = "none"]
           \/ own # {} /\ Choose(r, own)
           \/ /\ c.repo \in repositories /\ own = {}
              /\ rd' = [rd EXCEPT ![r].pc = "select_any", ![r].first = c \notin indexed]
    /\ UNCHANGED <<vars, indexed, displaced>>

\* The fallback: any working copy's latest run of the repository.
SelectAny(r) ==
    /\ rd[r].pc = "select_any"
    /\ LET any == {q \in runs : q.checkout.repo = rd[r].checkout.repo} IN
       IF any = {} THEN rd' = [rd EXCEPT ![r].pc = "none"] ELSE Choose(r, any)
    /\ UNCHANGED <<vars, indexed, displaced>>

\* Fault: each table is read for the run that is latest at that moment.
LoadTableOfLatest(r, t) ==
    /\ rd[r].pc = "load"
    /\ t \in rd[r].left
    /\ rd' = [rd EXCEPT ![r].got[t] = {x \in rows[t] : \E q \in runs : x.run = q.id /\ q = Latest(runs)},
                        ![r].left = @ \ {t},
                        ![r].pc = IF rd[r].left = {t} THEN "loaded" ELSE "load"]
    /\ UNCHANGED <<vars, indexed, displaced>>

\* _load_snapshot: one SELECT per child table.
LoadTable(r, t) ==
    /\ rd[r].pc = "load"
    /\ t \in rd[r].left
    /\ rd' = [rd EXCEPT ![r].got[t] = {x \in rows[t] : x.run = rd[r].run.id},
                        ![r].left = @ \ {t},
                        ![r].pc = IF rd[r].left = {t} THEN "loaded" ELSE "load"]
    /\ UNCHANGED <<vars, indexed, displaced>>

LoadStep(r) == SelectOwn(r) \/ SelectAny(r) \/ \E t \in Tables : LoadTable(r, t)

LoadNext ==
    \/ /\ Next
       /\ UNCHANGED rd
       /\ indexed' = indexed \union {q.checkout : q \in runs'}
       /\ displaced' = displaced \union
            {q.checkout : q \in {x \in runs \ runs' : \A p \in runs' \ runs :
                                                       p.checkout # x.checkout}}
    \/ \E r \in Readers : StartLoad(r) \/ LoadStep(r)

LoadSpec == LoadInit /\ [][LoadNext]_loadVars

-----------------------------------------------------------------------------
(* Properties.                                                             *)

\* The rows of table t in r's snapshot are those the run's own save wrote.
Whole(r, t) ==
    /\ \A x \in rd[r].got[t] : x.from = InfoOf(rd[r].run)
    /\ Cardinality(rd[r].got[t]) = rd[r].run.size

\* A snapshot never mixes two saves: each table it holds is the chosen run's, whole,
\* or empty, and it lacks a table only if the run has been replaced meanwhile
\* (store.py:184-202, 352-388).
SnapshotOfOneSave ==
    \A r \in Readers : rd[r].pc = "loaded" =>
        \A t \in Tables :
            \/ Whole(r, t)
            \/ rd[r].got[t] = {} /\ rd[r].run \notin runs

\* A working copy is shown another's run only if it has never indexed, or another
\* working copy saved a commit it had indexed and so took its run away; its own
\* saves never leave it without a run (store.py:140-149, 190-200).
FallbackIsJustified ==
    \A r \in Readers :
        rd[r].pc \in {"load", "loaded"} /\ rd[r].run.checkout # rd[r].checkout =>
            /\ rd[r].run.checkout.repo = rd[r].checkout.repo
            /\ rd[r].first \/ rd[r].checkout \in displaced
=============================================================================
