-------------------------- MODULE IndexStoreProofs --------------------------
(***************************************************************************)
(* Theorems about IndexStore, for any number of processes, checkouts,      *)
(* commits, tables and saves, on either database, and about SnapshotLoad,  *)
(* which extends it: the child rows of runs and the readers that load      *)
(* them, for any number of savers and readers.  On postgresql a run always *)
(* has exactly its own rows; on sqlite, where a stale delete may leave     *)
(* rows behind, none joins a run of another commit.                        *)
(***************************************************************************)
EXTENDS SnapshotLoad, WellFoundedInduction, FiniteSetTheorems, TLAPS

\* A bounded, nonempty set of naturals has a greatest element: the least of its
\* upper bounds.
LEMMA GreatestExists ==
    ASSUME NEW S \in SUBSET Nat, S # {},
           NEW b \in Nat, \A n \in S : n <= b
    PROVE  \E m \in S : \A n \in S : n <= m
<1> DEFINE Bounds == {k \in Nat : \A n \in S : n <= k}
           Less == OpToRel(<, Nat)
<1>1. Bounds \subseteq Nat /\ Bounds # {}
  OBVIOUS
<1>2. IsWellFoundedOn(Less, Nat)
  BY NatLessThanWellFounded
<1>3. PICK m \in Bounds : \A k \in Bounds : <<k, m>> \notin Less
  <2> HIDE DEF Bounds, Less
  <2> QED  BY <1>1, <1>2, WFMin
<1>4. ASSUME NEW k \in Bounds
      PROVE  m <= k
  <2>1. <<k, m>> \notin Less
    BY <1>3
  <2>2. m \in Nat /\ k \in Nat
    OBVIOUS
  <2>3. ~(k < m)
    BY <2>1, <2>2 DEF OpToRel
  <2> QED  BY <2>2, <2>3
<1>5. CASE m \in S
  BY <1>5
<1>6. CASE m \notin S
  <2>1. PICK s \in S : TRUE
    OBVIOUS
  <2>2. \A n \in S : n <= m /\ n # m /\ n \in Nat
    BY <1>6
  <2>3. m \in Nat /\ m - 1 \in Nat /\ \A n \in S : n <= m - 1
    BY <2>1, <2>2
  <2> QED  BY <1>4, <2>3
<1> QED  BY <1>5, <1>6
\* SQLite's next id is a natural above every live id, and one above the largest.
LEMMA AfterLargestAbove ==
    ASSUME NEW S, \A r \in S : r.id \in Nat,
           NEW b \in Nat, \A r \in S : r.id <= b
    PROVE  /\ AfterLargest(S) \in Nat \ {0}
           /\ \A r \in S : r.id < AfterLargest(S)
           /\ S = {} => AfterLargest(S) = 1
           /\ S # {} => \E r \in S : AfterLargest(S) = r.id + 1
<1>1. CASE S = {}
  BY <1>1 DEF AfterLargest
<1>2. CASE S # {}
  <2> DEFINE top == CHOOSE n \in Ids(S) : \A m \in Ids(S) : m <= n
  <2>1. Ids(S) \in SUBSET Nat /\ Ids(S) # {} /\ \A n \in Ids(S) : n <= b
    BY <1>2 DEF Ids
  <2>2. \E n \in Ids(S) : \A m \in Ids(S) : m <= n
    BY <2>1, GreatestExists
  <2>3. top \in Ids(S) /\ \A m \in Ids(S) : m <= top
    BY <2>2
  <2>4. AfterLargest(S) = 1 + top
    BY <1>2 DEF AfterLargest
  <2> HIDE DEF top
  <2>5. PICK r \in S : r.id = top
    BY <2>3 DEF Ids
  <2>6. \A q \in S : q.id \in Ids(S)
    BY DEF Ids
  <2> QED  BY <1>2, <2>3, <2>4, <2>5, <2>6
<1> QED  BY <1>1, <1>2

-----------------------------------------------------------------------------
(* The inductive invariant, in named parts.                                *)

\* s has looked for the run to replace and has not committed.
PastLookup(s) == pc[s] \in {"load_children", "delete_run", "insert_run", "commit"}

BeforeLookup(s) ==
    pc[s] \in {"select_repository", "insert_repository", "select_working_copy",
               "insert_working_copy", "select_run"}

\* Ids are positive and bounded, so that a table has a largest one.
IdsBounded ==
    /\ \A q \in runs : q.id # 0
    /\ \E b \in Nat : \A q \in runs : q.id <= b
    /\ \A t \in Tables : \E b \in Nat : \A r \in rows[t] : r.id <= b

\* sqlite has one writer, and whoever is about to commit is the writer.
OneWriter ==
    Backend = "sqlite" =>
        /\ \A s \in Savers : \A o \in Others(s) : ~(tx[s].wrote /\ tx[o].wrote)
        /\ \A s \in Savers : pc[s] = "commit" => tx[s].wrote

\* q has the largest id, and the id before it is live too unless it is the first:
\* deleting q and inserting its replacement gives the replacement q's id.
Top(q) ==
    /\ \A p \in runs : p.id <= q.id
    /\ q.id = 1 \/ \E p \in runs : p.id = q.id - 1

\* sqlite reuses an id only for the run that replaces its holder.
SqliteIds ==
    Backend = "sqlite" =>
        /\ runs = {} \/ \E q \in runs : Top(q)
        /\ \A s \in Savers : pc[s] = "commit" => tx[s].runId = AfterLargest(RunsSeenBy(s))
        /\ \A s \in Savers : PastLookup(s) /\ tx[s].found # 0 =>
               \E q \in runs : tx[s].found <= q.id

\* postgresql never hands out an id that a run has, that a save has found, or that
\* another transaction was given.
PostgresqlIds ==
    Backend = "postgresql" =>
        /\ \A q \in runs : q.id <= seq
        /\ \A s \in Savers : PastLookup(s) => tx[s].found <= seq
        /\ \A s \in Savers : pc[s] = "commit" =>
               /\ tx[s].runId \in 1..seq
               /\ \A q \in runs : q.id # tx[s].runId
               /\ \A o \in Savers : PastLookup(o) => tx[o].found # tx[s].runId
               /\ \A o \in Others(s) : pc[o] = "commit" =>
                      tx[o].runId # tx[s].runId /\ ~SameKey(req[o], req[s])

\* One live run per id and per key, and at commit the run s deletes is the only one
\* of its key.
KeysUnique ==
    /\ \A p, q \in runs : p.id = q.id \/ SameKey(p, q) => p = q
    /\ \A s \in Savers : BeforeLookup(s) => tx[s].found = 0
    /\ FoundIdKeepsItsKey
    /\ \A s \in Savers : pc[s] = "commit" => \A q \in RunsSeenBy(s) : ~SameKey(q, req[s])

\* A run of its key that s did not find was committed by a rival in this attempt.
RivalsCounted ==
    /\ FailureNeedsRivals
    /\ \A s \in Savers : PastLookup(s) =>
           \A q \in runs : SameKey(q, req[s]) =>
               q.id = tx[s].found \/ tx[s].overlap >= tx[s].attempt

\* The run a save has committed is there until a rival replaces it.
OwnRunStands ==
    \A s \in Savers : pc[s] = "refresh" =>
        \/ tx[s].overlap >= 1
        \/ \E q \in runs : q.id = tx[s].runId /\ InfoOf(q) = InfoOf(req[s])

IInv ==
    /\ TypeOK /\ IdsBounded /\ OneWriter /\ SqliteIds /\ PostgresqlIds
    /\ KeysUnique /\ RivalsCounted /\ OwnRunStands

-----------------------------------------------------------------------------
(* Types.                                                                  *)

LEMMA NewTxType ==
    ASSUME NEW attempt \in 1..MaxSaveAttempts, NEW overlap \in Nat
    PROVE  NewTx(attempt, overlap) \in Tx
BY DEF NewTx, Tx

\* What the statements of save write into a transaction's record keeps its type.
LEMMA TxUpdateType ==
    ASSUME NEW x \in Tx
    PROVE  /\ [x EXCEPT !.newRepo = TRUE, !.wrote = TRUE] \in Tx
           /\ [x EXCEPT !.newCopy = TRUE, !.wrote = TRUE] \in Tx
           /\ \A id \in Nat : [x EXCEPT !.found = id] \in Tx
           /\ \A t \in Tables, K \in SUBSET Nat :
                  [x EXCEPT !.kids[t] = K, !.loaded = @ \union {t}] \in Tx
           /\ \A id \in Nat : [x EXCEPT !.runId = id, !.wrote = TRUE] \in Tx
           /\ [x EXCEPT !.wrote = FALSE, !.newRepo = FALSE, !.newCopy = FALSE] \in Tx
           /\ [x EXCEPT !.overlap = @ + 1] \in Tx
<1>1. [x EXCEPT !.newRepo = TRUE, !.wrote = TRUE] \in Tx
  BY DEF Tx
<1>2. [x EXCEPT !.newCopy = TRUE, !.wrote = TRUE] \in Tx
  BY DEF Tx
<1>3. \A id \in Nat : [x EXCEPT !.found = id] \in Tx
  BY DEF Tx
<1>4. ASSUME NEW t \in Tables, NEW K \in SUBSET Nat
      PROVE  [x EXCEPT !.kids[t] = K, !.loaded = @ \union {t}] \in Tx
  BY DEF Tx
<1>5. \A id \in Nat : [x EXCEPT !.runId = id, !.wrote = TRUE] \in Tx
  BY DEF Tx
<1>6. [x EXCEPT !.wrote = FALSE, !.newRepo = FALSE, !.newCopy = FALSE] \in Tx
  BY DEF Tx
<1>7. [x EXCEPT !.overlap = @ + 1] \in Tx
  BY DEF Tx
<1> QED  BY <1>1, <1>2, <1>3, <1>4, <1>5, <1>6, <1>7

LEMMA NoRequestType == NoRequest \in Request
BY StoreAssumption DEF NoRequest, Request, CommitSha

\* The id an INSERT into index_runs or into a child table gets.
LEMMA FreshIdType ==
    ASSUME TypeOK, IdsBounded
    PROVE  /\ \A S \in SUBSET runs : FreshId(S) \in Nat \ {0}
           /\ \A t \in Tables : \A S \in SUBSET rows[t] : FreshId(S) \in Nat \ {0}
<1>1. ASSUME NEW S \in SUBSET runs
      PROVE  AfterLargest(S) \in Nat \ {0}
  <2>1. PICK b \in Nat : \A q \in runs : q.id <= b
    BY DEF IdsBounded
  <2>2. \A q \in S : q.id \in Nat /\ q.id <= b
    BY <2>1 DEF TypeOK, Run
  <2> QED  BY <2>2, AfterLargestAbove
<1>2. ASSUME NEW t \in Tables, NEW S \in SUBSET rows[t]
      PROVE  AfterLargest(S) \in Nat \ {0}
  <2>1. PICK b \in Nat : \A r \in rows[t] : r.id <= b
    BY DEF IdsBounded
  <2>2. \A r \in S : r.id \in Nat /\ r.id <= b
    BY <2>1 DEF TypeOK, Row
  <2> QED  BY <2>2, AfterLargestAbove
<1>3. seq + 1 \in Nat \ {0}
  BY DEF TypeOK
<1> QED  BY <1>1, <1>2, <1>3 DEF FreshId

LEMMA InitType == Init => TypeOK /\ IdsBounded
<1> SUFFICES ASSUME Init PROVE TypeOK /\ IdsBounded
  OBVIOUS
<1>1. NewTx(1, 0) \in Tx
  BY NewTxType DEF MaxSaveAttempts
<1>2. TypeOK
  BY <1>1, NoRequestType, StoreAssumption DEF Init, TypeOK, Ended
<1>3. IdsBounded
  BY DEF Init, IdsBounded
<1> QED  BY <1>2, <1>3

\* Every statement of save, every end of one and the bound's stuttering keep the types.
LEMMA StepType ==
    ASSUME TypeOK, IdsBounded, [Next]_vars
    PROVE  TypeOK'
<1>1. ASSUME NEW s \in Savers, Begin(s)
      PROVE  TypeOK'
  <2>1. NewTx(1, 0) \in Tx
    BY NewTxType DEF MaxSaveAttempts
  <2>2. PICK c \in Checkouts, m \in Commits, d \in DirtyFlags \union {FALSE}, n \in Sizes :
            req' = [req EXCEPT ![s] = [checkout |-> c, commit |-> m, dirty |-> d,
                                       size |-> n, at |-> clock + 1]]
    BY <1>1 DEF Begin
  <2>3. clock' \in 0..MaxSaves /\ clock + 1 \in 0..MaxSaves
    BY <1>1, StoreAssumption DEF Begin, TypeOK
  <2>4. req' \in [Savers -> Request]
    BY <2>2, <2>3, StoreAssumption DEF TypeOK, Request, CommitSha
  <2> QED  BY <1>1, <2>1, <2>3, <2>4 DEF Begin, TypeOK, tables, Active, Reading
<1>2. ASSUME NEW s \in Savers, SelectRepository(s)
      PROVE  TypeOK'
  BY <1>2 DEF SelectRepository, TypeOK, tables, Active, Reading, Writing
<1>3. ASSUME NEW s \in Savers, InsertRepository(s)
      PROVE  TypeOK'
  <2>1. tx' \in [Savers -> Tx]
    <3>1. tx[s] \in Tx /\ tx \in [Savers -> Tx]
      BY DEF TypeOK
    <3>2. tx' = tx \/ tx' = [tx EXCEPT ![s] = [tx[s] EXCEPT !.newRepo = TRUE, !.wrote = TRUE]]
      BY <1>3, <3>1 DEF InsertRepository
    <3> QED  BY <3>1, <3>2, TxUpdateType
  <2> QED  BY <1>3, <2>1 DEF InsertRepository, TypeOK, tables, Active, Reading
<1>4. ASSUME NEW s \in Savers, SelectWorkingCopy(s)
      PROVE  TypeOK'
  BY <1>4 DEF SelectWorkingCopy, TypeOK, tables, Active, Reading, Writing
<1>5. ASSUME NEW s \in Savers, InsertWorkingCopy(s)
      PROVE  TypeOK'
  <2>1. NewTx(tx[s].attempt, tx[s].overlap) \in Tx
    BY NewTxType DEF TypeOK, Tx
  <2>2. tx' \in [Savers -> Tx]
    <3>1. tx[s] \in Tx /\ tx \in [Savers -> Tx]
      BY DEF TypeOK
    <3>2. \/ tx' = [tx EXCEPT ![s] = NewTx(tx[s].attempt, tx[s].overlap)]
          \/ tx' = [tx EXCEPT ![s] = [tx[s] EXCEPT !.newCopy = TRUE, !.wrote = TRUE]]
      BY <1>5, <3>1 DEF InsertWorkingCopy
    <3> QED  BY <2>1, <3>1, <3>2, TxUpdateType
  <2> QED  BY <1>5, <2>2 DEF InsertWorkingCopy, TypeOK, tables, Active, Reading
<1>6. ASSUME NEW s \in Savers, SelectRun(s)
      PROVE  TypeOK'
  <2>1. tx' \in [Savers -> Tx]
    <3>1. tx[s] \in Tx /\ tx \in [Savers -> Tx] /\ \A q \in runs : q.id \in Nat
      BY DEF TypeOK, Run
    <3>2. tx' = tx \/ \E q \in runs : tx' = [tx EXCEPT ![s] = [tx[s] EXCEPT !.found = q.id]]
      BY <1>6, <3>1 DEF SelectRun
    <3> QED  BY <3>1, <3>2, TxUpdateType
  <2> QED  BY <1>6, <2>1 DEF SelectRun, TypeOK, tables, Active, Reading, Writing
<1>7. ASSUME NEW s \in Savers, NEW t \in Tables, LoadChildren(s, t)
      PROVE  TypeOK'
  <2>1. Ids({r \in rows[t] : r.run = tx[s].found}) \in SUBSET Nat
    BY DEF TypeOK, Ids, Row
  <2>2. tx' \in [Savers -> Tx]
    <3> DEFINE K == Ids({r \in rows[t] : r.run = tx[s].found})
    <3>1. tx[s] \in Tx /\ tx \in [Savers -> Tx]
      BY DEF TypeOK
    <3>2. tx' = [tx EXCEPT ![s] = [tx[s] EXCEPT !.kids[t] = K, !.loaded = @ \union {t}]]
      <4> HIDE DEF K
      <4>1. tx' = [tx EXCEPT ![s].kids[t] = K, ![s].loaded = @ \union {t}]
        BY <1>7 DEF LoadChildren, K
      <4> QED  BY <4>1, <3>1
    <3> HIDE DEF K
    <3>3. K \in SUBSET Nat
      BY <2>1 DEF K
    <3> QED  BY <3>1, <3>2, <3>3, TxUpdateType
  <2> QED  BY <1>7, <2>2 DEF LoadChildren, TypeOK, tables, Active, Writing
<1>8. ASSUME NEW s \in Savers, DeleteRun(s)
      PROVE  TypeOK'
  BY <1>8 DEF DeleteRun, TypeOK, tables, Active, Writing, Tx
<1>9. ASSUME NEW s \in Savers, InsertRun(s)
      PROVE  TypeOK'
  <2>1. FreshId(RunsSeenBy(s)) \in Nat
    BY FreshIdType DEF RunsSeenBy
  <2>2. seq' \in Nat
    BY <1>9, <2>1 DEF InsertRun, TypeOK
  <2>3. tx' \in [Savers -> Tx]
    <3> DEFINE id == FreshId(RunsSeenBy(s))
    <3>1. tx[s] \in Tx /\ tx \in [Savers -> Tx]
      BY DEF TypeOK
    <3>2. tx' = [tx EXCEPT ![s] = [tx[s] EXCEPT !.runId = id, !.wrote = TRUE]]
      BY <1>9, <3>1 DEF InsertRun
    <3> HIDE DEF id
    <3>3. id \in Nat
      BY <2>1 DEF id
    <3> QED  BY <3>1, <3>2, <3>3, TxUpdateType
  <2> QED  BY <1>9, <2>2, <2>3 DEF InsertRun, TypeOK, Active
<1>10. ASSUME NEW s \in Savers, RefuseRun(s)
       PROVE  TypeOK'
  <2> DEFINE attempt == IF tx[s].attempt < MaxSaveAttempts THEN tx[s].attempt + 1
                                                           ELSE tx[s].attempt
  <2>1. attempt \in 1..MaxSaveAttempts /\ tx[s].overlap \in Nat
    BY DEF TypeOK, Tx, MaxSaveAttempts
  <2>2. NewTx(attempt, tx[s].overlap) \in Tx
    BY <2>1, NewTxType
  <2>3. tx' \in [Savers -> Tx]
    BY <1>10, <2>2 DEF RefuseRun, TypeOK
  <2> QED  BY <1>10, <2>3 DEF RefuseRun, TypeOK, tables, Active, Reading, Ended
<1>11. ASSUME NEW s \in Savers, Commit(s)
       PROVE  TypeOK'
  <2>1. repositories' \subseteq {c.repo : c \in Checkouts}
    BY <1>11 DEF Commit, TypeOK, Repo, Request
  <2>2. working_copies' \subseteq Checkouts
    BY <1>11 DEF Commit, TypeOK, Request
  <2>3. NewRun(s) \in Run
    BY DEF TypeOK, NewRun, Run, Request, Tx
  <2>4. runs' \subseteq Run
    BY <1>11, <2>3 DEF Commit, TypeOK, RunsSeenBy
  <2>5. InfoOf(req[s]) \in Info
    BY DEF TypeOK, InfoOf, Info, Request
  <2>6. ASSUME NEW t \in Tables
        PROVE  RowsAfter(s, t) \in SUBSET Row
    <3> DEFINE kept == {r \in rows[t] : r.id \notin tx[s].kids[t]}
               first == FreshId(kept)
               new == [id: first..(first + req[s].size - 1), run: {tx[s].runId},
                       from: {InfoOf(req[s])}]
    <3>1. first \in Nat
      BY FreshIdType
    <3>2. req[s].size \in Nat /\ tx[s].runId \in Nat
      BY StoreAssumption DEF TypeOK, Request, Tx
    <3>3. new \subseteq Row
      <4> HIDE DEF first
      <4> QED  BY <2>5, <3>1, <3>2 DEF Row
    <3>4. kept \subseteq Row
      BY DEF TypeOK
    <3>5. RowsAfter(s, t) = kept \union new
      BY DEF RowsAfter
    <3> HIDE DEF kept, new
    <3> QED  BY <3>3, <3>4, <3>5
  <2>7. rows' \in [Tables -> SUBSET Row]
    BY <1>11, <2>6 DEF Commit
  <2>8. seq' \in Nat
    BY <1>11, StoreAssumption DEF Commit, TypeOK, Request
  <2>9. tx' \in [Savers -> Tx]
    <3>1. \A o \in Savers : tx[o] \in Tx
      BY DEF TypeOK
    <3> QED  BY <1>11, <3>1, TxUpdateType DEF Commit
  <2> QED  BY <1>11, <2>1, <2>2, <2>4, <2>7, <2>8, <2>9 DEF Commit, TypeOK, Active
<1>12. ASSUME NEW s \in Savers, Refresh(s)
       PROVE  TypeOK'
  BY <1>12 DEF Refresh, TypeOK, tables, Ended
<1>13. ASSUME NEW s \in Savers, BusyTimeout(s) \/ Crash(s)
       PROVE  TypeOK'
  <2>1. NewTx(tx[s].attempt, tx[s].overlap) \in Tx
    BY NewTxType DEF TypeOK, Tx
  <2> QED  BY <1>13, <2>1 DEF BusyTimeout, Crash, TypeOK, tables, Ended
<1>14. CASE UNCHANGED vars
  BY <1>14 DEF TypeOK, vars
<1> QED
  BY <1>1, <1>2, <1>3, <1>4, <1>5, <1>6, <1>7, <1>8, <1>9, <1>10, <1>11, <1>12, <1>13,
     <1>14 DEF Next, Step, Finished

-----------------------------------------------------------------------------
(* What a step leaves alone.                                               *)

\* Everything s can do in one step.
Does(s) == Begin(s) \/ Step(s) \/ BusyTimeout(s) \/ Crash(s)

\* A step of s touches another process only to count a rival at its commit.
LEMMA OthersUntouched ==
    ASSUME TypeOK, NEW s \in Savers, Does(s), NEW o \in Others(s)
    PROVE  /\ pc'[o] = pc[o]
           /\ req'[o] = req[o]
           /\ ~Commit(s) => tx'[o] = tx[o]
           /\ tx'[o].attempt = tx[o].attempt /\ tx'[o].wrote = tx[o].wrote
           /\ tx'[o].found = tx[o].found /\ tx'[o].runId = tx[o].runId
           /\ tx'[o].newRepo = tx[o].newRepo /\ tx'[o].newCopy = tx[o].newCopy
<1>1. o \in Savers /\ o # s /\ tx[o] \in Tx
  BY DEF Others, TypeOK
<1>2. CASE Commit(s)
  <2>1. tx'[o] = tx[o] \/ tx'[o] = [tx[o] EXCEPT !.overlap = @ + 1]
    BY <1>1, <1>2 DEF Commit
  <2>2. /\ tx'[o].attempt = tx[o].attempt /\ tx'[o].wrote = tx[o].wrote
        /\ tx'[o].found = tx[o].found /\ tx'[o].runId = tx[o].runId
        /\ tx'[o].newRepo = tx[o].newRepo /\ tx'[o].newCopy = tx[o].newCopy
    BY <1>1, <2>1 DEF Tx
  <2> QED  BY <1>1, <1>2, <2>2 DEF Commit, TypeOK
<1>3. CASE ~Commit(s)
  BY <1>1, <1>3 DEF Does, Step, TypeOK, Begin, SelectRepository, InsertRepository,
     SelectWorkingCopy, InsertWorkingCopy, SelectRun, LoadChildren, DeleteRun, InsertRun,
     RefuseRun, Refresh, BusyTimeout, Crash
<1> QED  BY <1>2, <1>3

\* Only a commit changes what other processes can read.
LEMMA OnlyCommitWrites ==
    ASSUME NEW s \in Savers, Does(s), ~Commit(s)
    PROVE  /\ runs' = runs
           /\ rows' = rows
           /\ repositories' = repositories
           /\ working_copies' = working_copies
           /\ ~InsertRun(s) => seq' = seq
BY DEF Does, Step, Begin, SelectRepository, InsertRepository, SelectWorkingCopy,
   InsertWorkingCopy, SelectRun, LoadChildren, DeleteRun, InsertRun, RefuseRun, Refresh,
   BusyTimeout, Crash, tables

\* How s gets past its lookup, and how its transaction's record changes there.
LEMMA OwnStep ==
    ASSUME TypeOK, NEW s \in Savers, Does(s)
    PROVE  /\ req'[s] = req[s] \/ pc'[s] = "select_repository"
           /\ PastLookup(s)' /\ ~SelectRun(s) =>
                 PastLookup(s) /\ tx'[s].found = tx[s].found
                               /\ tx'[s].attempt = tx[s].attempt
                               /\ tx'[s].overlap = tx[s].overlap
           /\ pc'[s] = "commit" => InsertRun(s)
           /\ BeforeLookup(s)' =>
                 tx'[s].found = 0 \/ (BeforeLookup(s) /\ tx'[s].found = tx[s].found)
<1>1. tx[s] \in Tx /\ tx \in [Savers -> Tx] /\ req \in [Savers -> Request]
      /\ pc \in [Savers -> Active \union Ended]
  BY DEF TypeOK
<1>2. CASE Begin(s) \/ RefuseRun(s) \/ BusyTimeout(s) \/ Crash(s)
  <2>1. \E n, v : tx' = [tx EXCEPT ![s] = NewTx(n, v)]
    BY <1>2 DEF Begin, RefuseRun, BusyTimeout, Crash
  <2>2. tx'[s].found = 0
    BY <1>1, <2>1 DEF NewTx
  <2>3. pc'[s] \in {"select_repository", "integrity_error", "locked", "crashed"}
    BY <1>1, <1>2 DEF Begin, RefuseRun, BusyTimeout, Crash
  <2>4. req'[s] = req[s] \/ pc'[s] = "select_repository"
    BY <1>1, <1>2 DEF Begin, RefuseRun, BusyTimeout, Crash
  <2>5. ~PastLookup(s)' /\ pc'[s] # "commit"
    BY <2>3 DEF PastLookup
  <2> QED  BY <2>2, <2>4, <2>5
<1>3. CASE SelectRepository(s) \/ SelectWorkingCopy(s) \/ Refresh(s)
  BY <1>1, <1>3 DEF SelectRepository, SelectWorkingCopy, Refresh, PastLookup, BeforeLookup
<1>4. CASE InsertRepository(s)
  BY <1>1, <1>4 DEF InsertRepository, PastLookup, BeforeLookup, Tx
<1>5. CASE InsertWorkingCopy(s)
  <2>1. pc[s] = "insert_working_copy" /\ pc'[s] = "select_run" /\ req' = req
    BY <1>1, <1>5 DEF InsertWorkingCopy
  <2>2. \/ tx' = [tx EXCEPT ![s] = NewTx(tx[s].attempt, tx[s].overlap)]
        \/ tx' = [tx EXCEPT ![s] = [tx[s] EXCEPT !.newCopy = TRUE, !.wrote = TRUE]]
    BY <1>1, <1>5 DEF InsertWorkingCopy
  <2>3. NewTx(tx[s].attempt, tx[s].overlap).found = 0
    BY DEF NewTx
  <2>4. [tx[s] EXCEPT !.newCopy = TRUE, !.wrote = TRUE].found = tx[s].found
    BY <1>1 DEF Tx
  <2>5. tx'[s].found = 0 \/ tx'[s].found = tx[s].found
    BY <1>1, <2>2, <2>3, <2>4
  <2> QED  BY <2>1, <2>5 DEF PastLookup, BeforeLookup
<1>6. CASE SelectRun(s)
  BY <1>1, <1>6 DEF SelectRun, PastLookup, BeforeLookup
<1>7. CASE \E t \in Tables : LoadChildren(s, t)
  BY <1>1, <1>7 DEF LoadChildren, PastLookup, BeforeLookup, Tx
<1>8. CASE DeleteRun(s)
  BY <1>1, <1>8 DEF DeleteRun, PastLookup, BeforeLookup, Tx
<1>9. CASE InsertRun(s)
  BY <1>1, <1>9 DEF InsertRun, PastLookup, BeforeLookup, Tx
<1>10. CASE Commit(s)
  BY <1>1, <1>10 DEF Commit, PastLookup, BeforeLookup
<1> QED
  BY <1>2, <1>3, <1>4, <1>5, <1>6, <1>7, <1>8, <1>9, <1>10 DEF Does, Step

-----------------------------------------------------------------------------
(* The parts of the invariant, one lemma for each.                         *)

\* s starts to write only while no other sqlite transaction is writing.
LEMMA WriterGranted ==
    ASSUME TypeOK, Backend = "sqlite", NEW s \in Savers, Does(s)
    PROVE  tx'[s].wrote => tx[s].wrote \/ \A o \in Others(s) : ~tx[o].wrote
<1>1. tx[s] \in Tx /\ tx \in [Savers -> Tx]
  BY DEF TypeOK
<1>2. CASE InsertRepository(s) \/ InsertWorkingCopy(s) \/ DeleteRun(s) \/ InsertRun(s)
  <2>1. \E H : MayWrite(s, H)
    BY <1>2 DEF InsertRepository, InsertWorkingCopy, DeleteRun, InsertRun
  <2> QED  BY <2>1 DEF MayWrite
<1>3. CASE Begin(s) \/ RefuseRun(s) \/ BusyTimeout(s) \/ Crash(s)
  <2>1. \E n, v : tx' = [tx EXCEPT ![s] = NewTx(n, v)]
    BY <1>3 DEF Begin, RefuseRun, BusyTimeout, Crash
  <2> QED  BY <1>1, <2>1 DEF NewTx
<1>4. CASE SelectRepository(s) \/ SelectWorkingCopy(s) \/ Refresh(s)
  BY <1>4 DEF SelectRepository, SelectWorkingCopy, Refresh
<1>5. CASE SelectRun(s)
  <2>1. tx' = tx \/ \E q \in runs : tx' = [tx EXCEPT ![s].found = q.id]
    BY <1>5 DEF SelectRun
  <2> QED  BY <1>1, <2>1 DEF Tx
<1>6. CASE \E t \in Tables : LoadChildren(s, t)
  BY <1>1, <1>6 DEF LoadChildren, Tx
<1>7. CASE Commit(s)
  <2>1. tx'[s] = [tx[s] EXCEPT !.wrote = FALSE, !.newRepo = FALSE, !.newCopy = FALSE]
    BY <1>1, <1>7 DEF Commit
  <2> QED  BY <1>1, <2>1 DEF Tx
<1> QED  BY <1>2, <1>3, <1>4, <1>5, <1>6, <1>7 DEF Does, Step

LEMMA OneWriterStep ==
    ASSUME TypeOK, OneWriter, NEW s \in Savers, Does(s)
    PROVE  OneWriter'
<1> SUFFICES ASSUME Backend = "sqlite"
             PROVE  /\ \A x \in Savers : \A y \in Others(x) : ~(tx'[x].wrote /\ tx'[y].wrote)
                    /\ \A x \in Savers : pc'[x] = "commit" => tx'[x].wrote
  BY DEF OneWriter, Others
<1>1. tx'[s].wrote => \A o \in Others(s) : ~tx'[o].wrote
  <2>1. tx'[s].wrote => \A o \in Others(s) : ~tx[o].wrote
    BY WriterGranted DEF OneWriter
  <2> QED  BY <2>1, OthersUntouched
<1>2. ASSUME NEW x \in Savers, NEW y \in Others(x)
      PROVE  ~(tx'[x].wrote /\ tx'[y].wrote)
  <2>1. CASE x = s \/ y = s
    BY <1>1, <2>1 DEF Others
  <2>2. CASE x # s /\ y # s
    <3>1. x \in Others(s) /\ y \in Others(s)
      BY <2>2 DEF Others
    <3>2. tx'[x].wrote = tx[x].wrote /\ tx'[y].wrote = tx[y].wrote
      BY <3>1, OthersUntouched
    <3> QED  BY <3>2 DEF OneWriter
  <2> QED  BY <2>1, <2>2
<1>3. pc'[s] = "commit" => tx'[s].wrote
  <2>1. ASSUME InsertRun(s)
        PROVE  tx'[s].wrote
    BY <2>1 DEF InsertRun, TypeOK, Tx
  <2> QED  BY <2>1, OwnStep
<1>4. ASSUME NEW x \in Others(s), pc'[x] = "commit"
      PROVE  tx'[x].wrote
  BY <1>4, OthersUntouched DEF OneWriter, Others
<1> QED  BY <1>2, <1>3, <1>4 DEF Others

\* In sqlite nobody else commits while s holds the write lock.
LEMMA CommitAlone ==
    ASSUME TypeOK, OneWriter, Backend = "sqlite",
           NEW s \in Savers, NEW o \in Others(s), Commit(o)
    PROVE  pc[s] # "commit" /\ ~tx[s].wrote
<1>1. o \in Savers /\ s \in Others(o)
  BY DEF Others
<1>2. pc[o] = "commit" /\ tx[o].wrote
  BY <1>1 DEF Commit, OneWriter
<1> QED  BY <1>1, <1>2 DEF OneWriter

LEMMA SameKeyProperties ==
    ASSUME NEW p, NEW q, NEW r
    PROVE  /\ SameKey(p, q) => SameKey(q, p)
           /\ SameKey(p, q) /\ SameKey(q, r) => SameKey(p, r)
BY DEF SameKey

\* The run a commit adds: its id, and the key of what s was asked to save.
LEMMA CommitRuns ==
    ASSUME TypeOK, NEW s \in Savers, Commit(s)
    PROVE  /\ pc[s] = "commit" /\ pc'[s] = "refresh"
           /\ runs' = RunsSeenBy(s) \union {NewRun(s)}
           /\ RunsSeenBy(s) \subseteq runs
           /\ \A q \in runs : q \in RunsSeenBy(s) <=> q.id # tx[s].found
           /\ NewRun(s).id = tx[s].runId
           /\ \A x : SameKey(NewRun(s), x) <=> SameKey(req[s], x)
           /\ \A x : SameKey(x, NewRun(s)) <=> SameKey(x, req[s])
BY DEF Commit, RunsSeenBy, NewRun, SameKey, TypeOK

\* The id sqlite gives the run s is about to commit is above every run s keeps, and
\* not below the one it deletes.
LEMMA SqliteNewId ==
    ASSUME TypeOK, IdsBounded, SqliteIds, Backend = "sqlite",
           NEW s \in Savers, pc[s] = "commit"
    PROVE  /\ tx[s].runId \in Nat \ {0}
           /\ \A q \in RunsSeenBy(s) : q.id < tx[s].runId
           /\ \A q \in runs : q.id <= tx[s].runId
           /\ RunsSeenBy(s) = {} => tx[s].runId = 1
           /\ RunsSeenBy(s) # {} => \E r \in RunsSeenBy(s) : tx[s].runId = r.id + 1
<1> DEFINE R == RunsSeenBy(s)
           id == tx[s].runId
<1>1. \A q \in runs : q.id \in Nat /\ (q \in R <=> q.id # tx[s].found)
  BY DEF TypeOK, Run, RunsSeenBy
<1>2. PICK b \in Nat : \A q \in runs : q.id <= b
  BY DEF IdsBounded
<1>3. R \subseteq runs /\ id = AfterLargest(R)
  BY DEF RunsSeenBy, SqliteIds
<1>4. \A q \in R : q.id \in Nat /\ q.id <= b
  BY <1>1, <1>2, <1>3
<1> HIDE DEF R, id
<1>5. /\ id \in Nat \ {0}
      /\ \A r \in R : r.id < id
      /\ R = {} => id = 1
      /\ R # {} => \E r \in R : id = r.id + 1
  BY <1>3, <1>4, AfterLargestAbove
<1>6. ASSUME NEW q \in runs
      PROVE  q.id <= id
  <2>1. PICK top \in runs : Top(top)
    BY DEF SqliteIds
  <2>2. q.id <= top.id
    BY <2>1 DEF Top
  <2>3. CASE top \in R
    BY <1>1, <1>5, <2>2, <2>3
  <2>4. CASE top.id = 1
    BY <1>1, <1>5, <2>2, <2>4
  <2>5. CASE top \notin R /\ \E p \in runs : p.id = top.id - 1
    <3>1. PICK p \in runs : p.id = top.id - 1
      BY <2>5
    <3>2. p \in R
      BY <1>1, <2>5, <3>1
    <3> QED  BY <1>1, <1>5, <2>2, <3>1, <3>2
  <2> QED  BY <2>1, <2>3, <2>4, <2>5 DEF Top
<1> QED  BY <1>5, <1>6 DEF R, id

\* The new run's id is positive and no kept run has it, on either database.
LEMMA NewIdFresh ==
    ASSUME TypeOK, IdsBounded, SqliteIds, PostgresqlIds, NEW s \in Savers, pc[s] = "commit"
    PROVE  /\ tx[s].runId # 0
           /\ \A q \in RunsSeenBy(s) : q.id # tx[s].runId
<1>1. CASE Backend = "sqlite"
  <2>1. \A q \in RunsSeenBy(s) : q.id \in Nat
    BY DEF RunsSeenBy, TypeOK, Run
  <2> QED  BY <1>1, <2>1, SqliteNewId
<1>2. CASE Backend = "postgresql"
  BY <1>2 DEF PostgresqlIds, RunsSeenBy
<1> QED  BY <1>1, <1>2, StoreAssumption

LEMMA IdsBoundedStep ==
    ASSUME IInv, NEW s \in Savers, Does(s)
    PROVE  IdsBounded'
<1> USE DEF IInv
<1>1. CASE ~Commit(s)
  BY <1>1, OnlyCommitWrites DEF IdsBounded
<1>2. CASE Commit(s)
  <2>1. ASSUME NEW q \in runs'
        PROVE  q.id # 0
    BY <1>2, <2>1, CommitRuns, NewIdFresh DEF IdsBounded
  <2>2. \E b \in Nat : \A q \in runs' : q.id <= b
    <3>1. PICK b \in Nat : \A q \in runs : q.id <= b
      BY DEF IdsBounded
    <3>2. tx[s].runId \in Nat /\ \A q \in runs : q.id \in Nat
      BY DEF TypeOK, Tx, Run
    <3>3. \A q \in runs' : q.id <= b + tx[s].runId
      BY <1>2, <3>1, <3>2, CommitRuns
    <3> QED  BY <3>2, <3>3
  <2>3. ASSUME NEW t \in Tables
        PROVE  \E b \in Nat : \A r \in rows'[t] : r.id <= b
    <3> DEFINE kept == {r \in rows[t] : r.id \notin tx[s].kids[t]}
               first == FreshId(kept)
               last == first + req[s].size - 1
    <3>1. PICK b \in Nat : \A r \in rows[t] : r.id <= b
      BY DEF IdsBounded
    <3>2. first \in Nat /\ last \in Int
      <4>1. first \in Nat
        BY FreshIdType
      <4>2. req[s].size \in Nat
        BY StoreAssumption DEF TypeOK, Request
      <4> HIDE DEF first
      <4> QED  BY <4>1, <4>2
    <3>3. rows'[t] = kept \union [id: first..last, run: {tx[s].runId}, from: {InfoOf(req[s])}]
      BY <1>2 DEF Commit, RowsAfter
    <3>4. \A r \in rows[t] : r.id \in Nat
      BY DEF TypeOK, Row
    <3>5. kept \subseteq rows[t]
      OBVIOUS
    <3> HIDE DEF kept, first, last
    <3>6. PICK top \in Nat : last <= top
      BY <3>2
    <3>7. \A r \in rows'[t] : r.id <= b + top
      BY <3>1, <3>2, <3>3, <3>4, <3>5, <3>6
    <3> QED  BY <3>7
  <2> QED  BY <2>1, <2>2, <2>3 DEF IdsBounded
<1> QED  BY <1>1, <1>2

LEMMA SqliteIdsStep ==
    ASSUME IInv, NEW s \in Savers, Does(s)
    PROVE  SqliteIds'
<1> USE DEF IInv
<1> SUFFICES ASSUME Backend = "sqlite"
             PROVE  /\ runs' = {} \/ \E q \in runs' : Top(q)'
                    /\ \A x \in Savers : pc'[x] = "commit" =>
                          tx'[x].runId = AfterLargest(RunsSeenBy(x)')
                    /\ \A x \in Savers : PastLookup(x)' /\ tx'[x].found # 0 =>
                          \E q \in runs' : tx'[x].found <= q.id
  BY DEF SqliteIds
<1>1. CASE Commit(s)
  <2> DEFINE new == NewRun(s)
  <2>1. /\ runs' = RunsSeenBy(s) \union {new} /\ new.id = tx[s].runId
        /\ pc[s] = "commit" /\ pc'[s] = "refresh" /\ RunsSeenBy(s) \subseteq runs
    BY <1>1, CommitRuns
  <2>2. /\ new.id \in Nat \ {0}
        /\ \A q \in RunsSeenBy(s) : q.id < new.id
        /\ \A q \in runs : q.id <= new.id /\ q.id \in Nat
        /\ RunsSeenBy(s) = {} => new.id = 1
        /\ RunsSeenBy(s) # {} => \E r \in RunsSeenBy(s) : new.id = r.id + 1
    BY <2>1, SqliteNewId DEF TypeOK, Run
  <2> HIDE DEF new
  <2>3. \E q \in runs' : Top(q)'
    <3>1. PICK q \in runs' : q = new
      BY <2>1
    <3>2. \A p \in runs' : p.id <= q.id
      BY <2>1, <2>2, <3>1
    <3>3. q.id = 1 \/ \E p \in runs' : p.id = q.id - 1
      BY <2>1, <2>2, <3>1
    <3> QED  BY <3>2, <3>3 DEF Top
  <2>4. \A x \in Others(s) : pc'[x] # "commit"
    <3> SUFFICES ASSUME NEW x \in Others(s)
                 PROVE  pc'[x] # "commit"
      OBVIOUS
    <3>1. x \in Savers /\ s \in Others(x)
      BY DEF Others
    <3> QED  BY <1>1, <3>1, CommitAlone, OthersUntouched
  <2>5. ASSUME NEW x \in Others(s), PastLookup(x)', tx'[x].found # 0
        PROVE  tx'[x].found <= new.id
    <3>1. x \in Savers /\ PastLookup(x) /\ tx'[x].found = tx[x].found /\ tx[x].found \in Nat
      BY <2>5, OthersUntouched DEF PastLookup, Others, TypeOK, Tx
    <3>2. PICK q \in runs : tx[x].found <= q.id
      BY <2>5, <3>1 DEF SqliteIds
    <3> QED  BY <2>2, <3>1, <3>2
  <2>6. ~PastLookup(s)'
    BY <2>1 DEF PastLookup
  <2>7. new \in runs' /\ \A x \in Savers : x = s \/ x \in Others(s)
    BY <2>1 DEF Others
  <2> QED  BY <2>1, <2>3, <2>4, <2>5, <2>6, <2>7
<1>2. CASE ~Commit(s)
  <2>1. runs' = runs
    BY <1>2, OnlyCommitWrites
  <2>2. runs' = {} \/ \E q \in runs' : Top(q)'
    BY <2>1 DEF SqliteIds, Top
  <2>3. ASSUME NEW x \in Savers, pc'[x] = "commit"
        PROVE  tx'[x].runId = AfterLargest(RunsSeenBy(x)')
    <3>1. CASE x = s
      <4>1. InsertRun(s) /\ pc'[s] = "commit"
        BY <2>3, <3>1, OwnStep
      <4>2. tx'[s].runId = AfterLargest(RunsSeenBy(s)) /\ tx'[s].found = tx[s].found
        <5> DEFINE id == AfterLargest(RunsSeenBy(s))
        <5>1. tx' = [tx EXCEPT ![s].runId = id, ![s].wrote = TRUE]
          BY <4>1 DEF InsertRun, FreshId
        <5> HIDE DEF id
        <5>2. tx'[s].runId = id /\ tx'[s].found = tx[s].found
          BY <5>1 DEF TypeOK, Tx
        <5> QED  BY <5>2 DEF id
      <4>3. RunsSeenBy(s)' = RunsSeenBy(s)
        BY <2>1, <4>2 DEF RunsSeenBy
      <4> QED  BY <3>1, <4>2, <4>3
    <3>2. CASE x # s
      <4>1. x \in Others(s)
        BY <3>2 DEF Others
      <4>2. pc[x] = "commit" /\ tx'[x] = tx[x]
        BY <1>2, <2>3, <4>1, OthersUntouched
      <4>3. RunsSeenBy(x)' = RunsSeenBy(x)
        BY <2>1, <4>2 DEF RunsSeenBy
      <4> QED  BY <4>2, <4>3 DEF SqliteIds
    <3> QED  BY <3>1, <3>2
  <2>4. ASSUME NEW x \in Savers, PastLookup(x)', tx'[x].found # 0
        PROVE  \E q \in runs' : tx'[x].found <= q.id
    <3>1. CASE x = s /\ SelectRun(s)
      <4>1. (tx' = tx /\ tx[s].found = 0) \/ \E q \in runs : tx'[s].found = q.id
        BY <3>1 DEF SelectRun, TypeOK, Tx, KeysUnique, BeforeLookup
      <4>2. \A q \in runs : q.id \in Nat
        BY DEF TypeOK, Run
      <4> QED  BY <2>1, <2>4, <3>1, <4>1, <4>2
    <3>2. CASE x = s /\ ~SelectRun(s)
      BY <2>1, <2>4, <3>2, OwnStep DEF SqliteIds
    <3>3. CASE x # s
      <4>1. x \in Others(s)
        BY <3>3 DEF Others
      <4> QED  BY <1>2, <2>1, <2>4, <4>1, OthersUntouched DEF SqliteIds, PastLookup
    <3> QED  BY <3>1, <3>2, <3>3
  <2> QED  BY <2>2, <2>3, <2>4
<1> QED  BY <1>1, <1>2

\* Of several statements of s only the lookup and the insert of the run matter here.
LEMMA PostgresqlIdsStep ==
    ASSUME IInv, NEW s \in Savers, Does(s)
    PROVE  PostgresqlIds'
<1> USE DEF IInv
<1> SUFFICES ASSUME Backend = "postgresql"
             PROVE  PostgresqlIds'
  BY DEF PostgresqlIds
<1>1. seq \in Nat /\ seq' \in Nat /\ seq <= seq'
  <2>1. CASE Commit(s)
    <3>1. req[s].size \in Nat /\ seq' = seq + req[s].size /\ seq \in Nat
      BY <2>1, StoreAssumption DEF Commit, TypeOK, Request
    <3> QED  BY <3>1
  <2>2. CASE InsertRun(s)
    BY <2>2 DEF InsertRun, FreshId, TypeOK
  <2>3. CASE ~Commit(s) /\ ~InsertRun(s)
    BY <2>3, OnlyCommitWrites DEF TypeOK
  <2> QED  BY <2>1, <2>2, <2>3
<1>2. /\ \A q \in runs : q.id \in Nat /\ q.id <= seq
      /\ \A x \in Savers : tx[x].found \in Nat /\ tx[x].runId \in Nat
      /\ \A x \in Savers : PastLookup(x) => tx[x].found <= seq
  BY DEF PostgresqlIds, TypeOK, Run, Tx
<1>3. \A x \in Others(s) : /\ x \in Savers /\ PastLookup(x)' = PastLookup(x)
                           /\ pc'[x] = pc[x] /\ req'[x] = req[x]
                           /\ tx'[x].found = tx[x].found /\ tx'[x].runId = tx[x].runId
  BY OthersUntouched DEF Others, PastLookup
<1>4. \A q \in runs' : q.id <= seq' /\ (q \in runs \/ (Commit(s) /\ q.id = tx[s].runId))
  <2>1. CASE Commit(s)
    <3>1. tx[s].runId <= seq
      BY <2>1, CommitRuns DEF PostgresqlIds
    <3> QED  BY <1>1, <1>2, <2>1, <3>1, CommitRuns
  <2>2. CASE ~Commit(s)
    BY <1>1, <1>2, <2>2, OnlyCommitWrites
  <2> QED  BY <2>1, <2>2
<1>5. PastLookup(s)' =>
        /\ tx'[s].found <= seq'
        /\ \/ tx'[s].found = tx[s].found /\ PastLookup(s)
           \/ tx'[s].found = 0
           \/ \E q \in runs : q.id = tx'[s].found
  <2>1. CASE SelectRun(s)
    <3>1. (tx' = tx /\ tx[s].found = 0) \/ \E q \in runs : tx'[s].found = q.id
      BY <2>1 DEF SelectRun, TypeOK, Tx, KeysUnique, BeforeLookup
    <3> QED  BY <1>1, <1>2, <3>1
  <2>2. CASE ~SelectRun(s)
    BY <1>1, <1>2, <2>2, OwnStep
  <2> QED  BY <2>1, <2>2
<1>6. \A x \in Savers : PastLookup(x)' => tx'[x].found <= seq'
  <2>1. ASSUME NEW x \in Others(s), PastLookup(x)'
        PROVE  tx'[x].found <= seq'
    BY <1>1, <1>2, <1>3, <2>1
  <2> QED  BY <1>5, <2>1 DEF Others
<1>7. ASSUME NEW x \in Savers, pc'[x] = "commit"
      PROVE  /\ tx'[x].runId \in 1..seq'
             /\ \A q \in runs' : q.id # tx'[x].runId
             /\ \A o \in Savers : PastLookup(o)' => tx'[o].found # tx'[x].runId
             /\ \A o \in Others(x) : pc'[o] = "commit" =>
                    tx'[o].runId # tx'[x].runId /\ ~SameKey(req'[o], req'[x])
  <2>1. CASE x = s
    <3>1. InsertRun(s)
      BY <1>7, <2>1, OwnStep
    <3>2. tx'[s].runId = seq + 1 /\ seq' = seq + 1 /\ req' = req
      <4>1. tx' = [tx EXCEPT ![s].runId = seq + 1, ![s].wrote = TRUE] /\ seq' = seq + 1
            /\ req' = req
        BY <3>1 DEF InsertRun, FreshId
      <4> QED  BY <4>1 DEF TypeOK, Tx
    <3>3. pc[s] = "insert_run" /\ HoldingKey(s) = {}
      BY <3>1 DEF InsertRun, MayWrite
    <3>4. runs' = runs
      <4>1. ~Commit(s)
        BY <3>3 DEF Commit
      <4> QED  BY <4>1, OnlyCommitWrites
    <3>5. \A o \in Savers : PastLookup(o)' => tx'[o].found <= seq
      <4>1. PastLookup(s) /\ ~SelectRun(s)
        BY <3>3 DEF PastLookup, SelectRun
      <4>2. PastLookup(s)' => tx'[s].found = tx[s].found
        BY <4>1, OwnStep
      <4> QED  BY <1>2, <1>3, <4>1, <4>2 DEF Others
    <3>6. ASSUME NEW o \in Others(s), pc'[o] = "commit"
          PROVE  tx'[o].runId <= seq /\ ~SameKey(req'[o], req'[s])
      <4>1. o \in Savers /\ pc[o] = "commit" /\ tx'[o].runId = tx[o].runId
        BY <1>3, <3>6
      <4>2. tx[o].runId <= seq
        BY <4>1 DEF PostgresqlIds
      <4>3. ~SameKey(req[o], req[s])
        BY <3>3, <4>1 DEF HoldingKey
      <4> QED  BY <3>2, <4>1, <4>2, <4>3
    <3>7. \A o \in Savers : tx'[o].found \in Nat /\ tx'[o].runId \in Nat
      BY StepType, <2>1 DEF TypeOK, Tx, Next, Does
    <3> QED  BY <1>1, <1>2, <2>1, <3>2, <3>4, <3>5, <3>6, <3>7
  <2>2. CASE x # s
    <3>1. x \in Others(s) /\ s \in Others(x) /\ pc[x] = "commit" /\ tx'[x].runId = tx[x].runId
          /\ req'[x] = req[x]
      BY <1>3, <1>7, <2>2 DEF Others
    <3>2. /\ tx[x].runId \in 1..seq
          /\ \A q \in runs : q.id # tx[x].runId
          /\ \A o \in Savers : PastLookup(o) => tx[o].found # tx[x].runId
          /\ \A o \in Others(x) : pc[o] = "commit" =>
                 tx[o].runId # tx[x].runId /\ ~SameKey(req[o], req[x])
      BY <3>1 DEF PostgresqlIds
    <3>3. \A q \in runs' : q.id # tx'[x].runId
      <4>1. Commit(s) => tx[s].runId # tx[x].runId
        BY <3>1, <3>2 DEF Commit
      <4> QED  BY <1>4, <3>1, <3>2, <4>1
    <3>4. ASSUME NEW o \in Savers, PastLookup(o)'
          PROVE  tx'[o].found # tx'[x].runId
      <4>1. CASE o = s
        BY <1>5, <3>1, <3>2, <3>4, <4>1
      <4>2. CASE o # s
        BY <1>3, <3>1, <3>2, <3>4, <4>2 DEF Others
      <4> QED  BY <4>1, <4>2
    <3>5. ASSUME NEW o \in Others(x), pc'[o] = "commit"
          PROVE  tx'[o].runId # tx'[x].runId /\ ~SameKey(req'[o], req'[x])
      <4>1. CASE o = s
        <5>1. InsertRun(s)
          BY <3>5, <4>1, OwnStep
        <5>2. tx'[s].runId = seq + 1 /\ req' = req /\ HoldingKey(s) = {}
          <6>1. tx' = [tx EXCEPT ![s].runId = seq + 1, ![s].wrote = TRUE] /\ req' = req
                /\ HoldingKey(s) = {}
            BY <5>1 DEF InsertRun, FreshId, MayWrite
          <6> QED  BY <6>1 DEF TypeOK, Tx
        <5>3. ~SameKey(req[x], req[s])
          BY <3>1, <5>2 DEF HoldingKey
        <5> QED  BY <1>1, <3>1, <3>2, <4>1, <5>2, <5>3, SameKeyProperties
      <4>2. CASE o # s
        BY <1>3, <3>1, <3>2, <3>5, <4>2 DEF Others
      <4> QED  BY <4>1, <4>2
    <3> QED  BY <1>1, <3>1, <3>2, <3>3, <3>4, <3>5
  <2> QED  BY <2>1, <2>2
<1> QED  BY <1>4, <1>6, <1>7 DEF PostgresqlIds, Others

\* Where the databases differ: an id a stale save still remembers comes back only,
\* in sqlite, for the run that replaces the one it remembered.
LEMMA RememberedId ==
    ASSUME IInv, NEW s \in Savers, Commit(s), NEW o \in Others(s), PastLookup(o),
           tx[o].found = tx[s].runId
    PROVE  SameKey(req[s], req[o])
<1> USE DEF IInv
<1>1. o \in Savers /\ pc[s] = "commit"
  BY CommitRuns DEF Others
<1>2. CASE Backend = "postgresql"
  BY <1>1, <1>2 DEF PostgresqlIds
<1>3. CASE Backend = "sqlite"
  <2>1. /\ tx[s].runId \in Nat \ {0}
        /\ \A q \in RunsSeenBy(s) : q.id < tx[s].runId
        /\ \A q \in runs : q.id <= tx[s].runId /\ q.id \in Nat
    BY <1>1, <1>3, SqliteNewId DEF TypeOK, Run
  <2>2. PICK q \in runs : tx[o].found <= q.id
    BY <1>1, <1>3, <2>1 DEF SqliteIds
  <2>3. q.id = tx[s].runId /\ q \notin RunsSeenBy(s)
    BY <2>1, <2>2
  <2>4. q.id = tx[s].found /\ q.id = tx[o].found
    BY <2>3 DEF RunsSeenBy
  <2>5. SameKey(q, req[s]) /\ SameKey(q, req[o])
    BY <1>1, <2>4 DEF KeysUnique, FoundIdKeepsItsKey, PastLookup
  <2> QED  BY <2>5, SameKeyProperties
<1> QED  BY <1>2, <1>3, StoreAssumption

LEMMA KeysUniqueStep ==
    ASSUME IInv, NEW s \in Savers, Does(s)
    PROVE  KeysUnique'
<1> USE DEF IInv
<1>1. \A x \in Savers : x = s \/ x \in Others(s)
  BY DEF Others
<1>2. \A x \in Others(s) : /\ x \in Savers /\ PastLookup(x)' = PastLookup(x)
                           /\ BeforeLookup(x)' = BeforeLookup(x)
                           /\ pc'[x] = pc[x] /\ req'[x] = req[x] /\ tx'[x].found = tx[x].found
  BY OthersUntouched DEF Others, PastLookup, BeforeLookup
<1>3. \A x \in Savers : BeforeLookup(x)' => tx'[x].found = 0
  BY <1>1, <1>2, OwnStep DEF KeysUnique
<1>4. \A x \in Savers : PastLookup(x) =>
         \A q \in runs : q.id = tx[x].found => SameKey(q, req[x])
  BY DEF KeysUnique, FoundIdKeepsItsKey, PastLookup
<1>5. CASE Commit(s)
  <2>1. /\ runs' = RunsSeenBy(s) \union {NewRun(s)} /\ RunsSeenBy(s) \subseteq runs
        /\ pc[s] = "commit" /\ pc'[s] = "refresh" /\ NewRun(s).id = tx[s].runId
        /\ \A x : SameKey(NewRun(s), x) <=> SameKey(req[s], x)
        /\ \A x : SameKey(x, NewRun(s)) <=> SameKey(x, req[s])
    BY <1>5, CommitRuns
  <2>2. \A q \in RunsSeenBy(s) : q.id # tx[s].runId /\ ~SameKey(q, req[s])
                                 /\ ~SameKey(req[s], q)
    BY <2>1, NewIdFresh, SameKeyProperties DEF KeysUnique
  <2>3. ASSUME NEW p \in runs', NEW q \in runs', p.id = q.id \/ SameKey(p, q)
        PROVE  p = q
    BY <2>1, <2>2, <2>3 DEF KeysUnique
  <2>4. ASSUME NEW x \in Others(s), PastLookup(x), NEW q \in runs', q.id = tx[x].found
        PROVE  SameKey(q, req[x])
    <3>1. CASE q \in RunsSeenBy(s)
      BY <1>2, <1>4, <2>1, <2>4, <3>1
    <3>2. CASE q = NewRun(s)
      BY <1>5, <2>1, <2>4, <3>2, RememberedId
    <3> QED  BY <2>1, <3>1, <3>2
  <2>5. FoundIdKeepsItsKey'
    <3>1. ~PastLookup(s)'
      BY <2>1 DEF PastLookup
    <3>2. ASSUME NEW x \in Savers, PastLookup(x)', NEW q \in runs', q.id = tx'[x].found
          PROVE  SameKey(q, req'[x])
      <4>1. x \in Others(s)
        BY <1>1, <3>1, <3>2
      <4> QED  BY <1>2, <2>4, <3>2, <4>1
    <3> QED  BY <3>2 DEF FoundIdKeepsItsKey, PastLookup, SameKey
  <2>6. ASSUME NEW x \in Savers, pc'[x] = "commit", NEW q \in RunsSeenBy(x)'
        PROVE  ~SameKey(q, req'[x])
    <3>1. x \in Others(s) /\ pc[x] = "commit" /\ req'[x] = req[x] /\ tx'[x].found = tx[x].found
      BY <1>1, <1>2, <2>1, <2>6
    <3>2. s \in Others(x) /\ x \in Savers
      BY <3>1 DEF Others
    <3>3. Backend = "postgresql"
      BY <1>5, <3>1, <3>2, CommitAlone, StoreAssumption
    <3>4. q \in runs' /\ q.id # tx[x].found
      BY <3>1 DEF RunsSeenBy
    <3>5. CASE q \in runs
      <4>1. q \in RunsSeenBy(x)
        BY <3>4, <3>5 DEF RunsSeenBy
      <4> QED  BY <3>1, <3>2, <4>1 DEF KeysUnique
    <3>6. CASE q = NewRun(s)
      BY <2>1, <3>1, <3>2, <3>3, <3>6 DEF PostgresqlIds
    <3> QED  BY <2>1, <3>4, <3>5, <3>6
  <2> QED  BY <1>3, <2>3, <2>5, <2>6 DEF KeysUnique, SameKey
<1>6. CASE ~Commit(s)
  <2>1. runs' = runs
    BY <1>6, OnlyCommitWrites
  <2>2. ASSUME NEW p \in runs', NEW q \in runs', p.id = q.id \/ SameKey(p, q)
        PROVE  p = q
    BY <2>1, <2>2 DEF KeysUnique
  <2>3. PastLookup(s)' /\ ~SelectRun(s) => req'[s] = req[s]
    BY OwnStep DEF PastLookup
  <2>4. ASSUME NEW x \in Savers, PastLookup(x)', NEW q \in runs', q.id = tx'[x].found
        PROVE  SameKey(q, req'[x])
    <3>1. CASE x \in Others(s)
      BY <1>2, <1>4, <2>1, <2>4, <3>1
    <3>2. CASE x = s /\ ~SelectRun(s)
      BY <1>4, <2>1, <2>3, <2>4, <3>2, OwnStep
    <3>3. CASE x = s /\ SelectRun(s)
      <4>1. req' = req /\ \/ tx' = tx /\ tx[s].found = 0
                          \/ \E p \in runs : tx'[s].found = p.id /\ SameKey(p, req[s])
        BY <3>3 DEF SelectRun, TypeOK, Tx, KeysUnique, BeforeLookup
      <4>2. tx'[s].found # 0
        BY <2>1, <2>4, <3>3 DEF IdsBounded
      <4>3. PICK p \in runs : tx'[s].found = p.id /\ SameKey(p, req[s])
        BY <4>1, <4>2
      <4>4. p = q
        BY <2>1, <2>4, <3>3, <4>3 DEF KeysUnique
      <4> QED  BY <3>3, <4>1, <4>3, <4>4
    <3> QED  BY <1>1, <3>1, <3>2, <3>3
  <2>5. FoundIdKeepsItsKey'
    BY <2>4 DEF FoundIdKeepsItsKey, PastLookup, SameKey
  <2>6. ASSUME NEW x \in Savers, pc'[x] = "commit", NEW q \in RunsSeenBy(x)'
        PROVE  ~SameKey(q, req'[x])
    <3>1. CASE x \in Others(s)
      <4>1. q \in RunsSeenBy(x)
        BY <1>2, <2>1, <3>1 DEF RunsSeenBy
      <4> QED  BY <1>2, <2>6, <3>1, <4>1 DEF KeysUnique
    <3>2. CASE x = s
      <4>1. InsertRun(s)
        BY <2>6, <3>2, OwnStep
      <4>2. PastLookup(s)' /\ ~SelectRun(s)
        BY <2>6, <3>2, <4>1 DEF PastLookup, InsertRun, SelectRun
      <4>3. q \in RunsSeenBy(s)
        BY <2>1, <3>2, <4>2, OwnStep DEF RunsSeenBy
      <4> QED  BY <3>2, <4>1, <4>3 DEF InsertRun
    <3> QED  BY <1>1, <3>1, <3>2
  <2> QED  BY <1>3, <2>2, <2>5, <2>6 DEF KeysUnique, SameKey
<1> QED  BY <1>5, <1>6

\* Only Begin and RefuseRun touch s's own count of attempts and rivals.
LEMMA OwnCounts ==
    ASSUME TypeOK, NEW s \in Savers, Does(s), ~Begin(s), ~RefuseRun(s)
    PROVE  /\ tx'[s].attempt = tx[s].attempt /\ tx'[s].overlap = tx[s].overlap
           /\ pc'[s] # "integrity_error"
           /\ pc'[s] = "object_deleted" => Refresh(s)
<1>1. tx[s] \in Tx /\ tx \in [Savers -> Tx] /\ pc \in [Savers -> Active \union Ended]
  BY DEF TypeOK
<1>2. CASE BusyTimeout(s) \/ Crash(s)
  BY <1>1, <1>2 DEF BusyTimeout, Crash, NewTx
<1>3. CASE SelectRepository(s) \/ SelectWorkingCopy(s) \/ Refresh(s)
  BY <1>1, <1>3 DEF SelectRepository, SelectWorkingCopy, Refresh
<1>4. CASE InsertRepository(s)
  BY <1>1, <1>4 DEF InsertRepository, Tx
<1>5. CASE InsertWorkingCopy(s)
  <2>1. \/ tx' = [tx EXCEPT ![s] = NewTx(tx[s].attempt, tx[s].overlap)]
        \/ tx' = [tx EXCEPT ![s] = [tx[s] EXCEPT !.newCopy = TRUE, !.wrote = TRUE]]
    BY <1>1, <1>5 DEF InsertWorkingCopy
  <2>2. \A r : r = NewTx(tx[s].attempt, tx[s].overlap) =>
           r.attempt = tx[s].attempt /\ r.overlap = tx[s].overlap
    BY DEF NewTx
  <2>3. \A r : r = [tx[s] EXCEPT !.newCopy = TRUE, !.wrote = TRUE] =>
           r.attempt = tx[s].attempt /\ r.overlap = tx[s].overlap
    BY <1>1 DEF Tx
  <2>4. tx'[s].attempt = tx[s].attempt /\ tx'[s].overlap = tx[s].overlap
    BY <1>1, <2>1, <2>2, <2>3
  <2>5. pc'[s] \notin {"integrity_error", "object_deleted"}
    BY <1>1, <1>5 DEF InsertWorkingCopy
  <2> QED  BY <2>4, <2>5
<1>6. CASE SelectRun(s)
  <2>1. tx' = tx \/ \E q \in runs : tx' = [tx EXCEPT ![s].found = q.id]
    BY <1>6 DEF SelectRun
  <2>2. pc'[s] \notin {"integrity_error", "object_deleted"}
    BY <1>1, <1>6 DEF SelectRun
  <2> QED  BY <1>1, <2>1, <2>2 DEF Tx
<1>7. CASE \E t \in Tables : LoadChildren(s, t)
  BY <1>1, <1>7 DEF LoadChildren, Tx
<1>8. CASE DeleteRun(s)
  BY <1>1, <1>8 DEF DeleteRun, Tx
<1>9. CASE InsertRun(s)
  BY <1>1, <1>9 DEF InsertRun, Tx
<1>10. CASE Commit(s)
  <2>1. tx'[s] = [tx[s] EXCEPT !.wrote = FALSE, !.newRepo = FALSE, !.newCopy = FALSE]
    BY <1>1, <1>10 DEF Commit
  <2>2. pc'[s] \notin {"integrity_error", "object_deleted"}
    BY <1>1, <1>10 DEF Commit
  <2> QED  BY <1>1, <2>1, <2>2 DEF Tx
<1> QED
  BY <1>2, <1>3, <1>4, <1>5, <1>6, <1>7, <1>8, <1>9, <1>10 DEF Does, Step

LEMMA OnlyCommitEndsInRefresh ==
    ASSUME TypeOK, NEW s \in Savers, Does(s), pc'[s] = "refresh"
    PROVE  Commit(s)
<1>1. pc \in [Savers -> Active \union Ended]
  BY DEF TypeOK
<1>2. CASE Begin(s) \/ RefuseRun(s) \/ BusyTimeout(s) \/ Crash(s) \/ Refresh(s)
  BY <1>1, <1>2 DEF Begin, RefuseRun, BusyTimeout, Crash, Refresh
<1>3. CASE SelectRepository(s) \/ InsertRepository(s) \/ SelectWorkingCopy(s)
           \/ InsertWorkingCopy(s)
  BY <1>1, <1>3
  DEF SelectRepository, InsertRepository, SelectWorkingCopy, InsertWorkingCopy
<1>4. CASE SelectRun(s) \/ (\E t \in Tables : LoadChildren(s, t)) \/ DeleteRun(s) \/ InsertRun(s)
  BY <1>1, <1>4 DEF SelectRun, LoadChildren, DeleteRun, InsertRun
<1> QED  BY <1>2, <1>3, <1>4 DEF Does, Step

\* A commit counts as a rival for every unfinished save of its key.
LEMMA CommitCounts ==
    ASSUME TypeOK, NEW s \in Savers, Commit(s), NEW x \in Others(s)
    PROVE  /\ tx'[x].overlap \in {tx[x].overlap, tx[x].overlap + 1}
           /\ (PastLookup(x) \/ pc[x] = "refresh") /\ SameKey(req[x], req[s])
                 => tx'[x].overlap = tx[x].overlap + 1
<1>1. x \in Savers /\ x # s /\ tx[x] \in Tx
  BY DEF Others, TypeOK
<1>2. tx'[x] = IF pc[x] \in Active /\ SameKey(req[x], req[s])
                 THEN [tx[x] EXCEPT !.overlap = @ + 1] ELSE tx[x]
  BY <1>1 DEF Commit
<1>3. [tx[x] EXCEPT !.overlap = @ + 1].overlap = tx[x].overlap + 1
  BY <1>1 DEF Tx
<1>4. PastLookup(x) \/ pc[x] = "refresh" => pc[x] \in Active
  BY DEF PastLookup, Active, Reading, Writing
<1> QED  BY <1>2, <1>3, <1>4

\* A commit leaves the run another save has just committed, or counts as its rival.
LEMMA OwnRunStandsStep ==
    ASSUME IInv, NEW s \in Savers, Does(s)
    PROVE  OwnRunStands'
<1> USE DEF IInv
<1>1. ASSUME NEW x \in Savers, pc'[x] = "refresh"
      PROVE  \/ tx'[x].overlap >= 1
             \/ \E q \in runs' : q.id = tx'[x].runId /\ InfoOf(q) = InfoOf(req'[x])
  <2>1. CASE x = s
    <3>1. Commit(s)
      BY <1>1, <2>1, OnlyCommitEndsInRefresh
    <3>2. NewRun(s) \in runs' /\ NewRun(s).id = tx[s].runId
      BY <3>1, CommitRuns
    <3>3. tx'[s].runId = tx[s].runId /\ req' = req
      BY <3>1 DEF Commit, TypeOK, Tx
    <3>4. InfoOf(NewRun(s)) = InfoOf(req[s])
      BY DEF InfoOf, NewRun
    <3> QED  BY <2>1, <3>2, <3>3, <3>4
  <2>2. CASE x \in Others(s)
    <3>1. /\ pc[x] = "refresh" /\ req'[x] = req[x] /\ tx'[x].runId = tx[x].runId
          /\ ~Commit(s) => tx'[x] = tx[x]
      BY <1>1, <2>2, OthersUntouched
    <3>2. tx[x].overlap \in Nat
      BY DEF TypeOK, Tx
    <3>3. \/ tx[x].overlap >= 1
          \/ \E q \in runs : q.id = tx[x].runId /\ InfoOf(q) = InfoOf(req[x])
      BY <3>1 DEF OwnRunStands
    <3>4. CASE ~Commit(s)
      BY <3>1, <3>3, <3>4, OnlyCommitWrites
    <3>5. CASE Commit(s)
      <4>1. tx'[x].overlap \in {tx[x].overlap, tx[x].overlap + 1}
        BY <2>2, <3>5, CommitCounts
      <4>2. CASE tx[x].overlap >= 1
        BY <3>2, <4>1, <4>2
      <4>3. ASSUME NEW q \in runs, q.id = tx[x].runId, InfoOf(q) = InfoOf(req[x])
            PROVE  \/ tx'[x].overlap >= 1
                   \/ \E p \in runs' : p.id = tx'[x].runId /\ InfoOf(p) = InfoOf(req'[x])
        <5>1. CASE q \in RunsSeenBy(s)
          BY <3>1, <3>5, <4>3, <5>1, CommitRuns
        <5>2. CASE q \notin RunsSeenBy(s)
          <6>1. pc[s] = "commit" /\ q.id = tx[s].found
            BY <3>5, <4>3, <5>2, CommitRuns
          <6>2. SameKey(q, req[s])
            BY <4>3, <6>1 DEF KeysUnique, FoundIdKeepsItsKey
          <6>3. SameKey(req[x], req[s])
            BY <4>3, <6>2 DEF SameKey, InfoOf
          <6>4. tx'[x].overlap = tx[x].overlap + 1
            BY <2>2, <3>1, <3>5, <6>3, CommitCounts
          <6> QED  BY <3>2, <6>4
        <5> QED  BY <5>1, <5>2
      <4> QED  BY <3>3, <4>2, <4>3
    <3> QED  BY <3>4, <3>5
  <2> QED  BY <2>1, <2>2 DEF Others
<1> QED  BY <1>1 DEF OwnRunStands, InfoOf

LEMMA RivalsCountedStep ==
    ASSUME IInv, NEW s \in Savers, Does(s)
    PROVE  RivalsCounted'
<1> USE DEF IInv
<1>1. \A x \in Savers : x = s \/ x \in Others(s)
  BY DEF Others
<1>2. \A x \in Others(s) : /\ x \in Savers /\ PastLookup(x)' = PastLookup(x)
                           /\ pc'[x] = pc[x] /\ req'[x] = req[x] /\ tx'[x].found = tx[x].found
                           /\ tx'[x].attempt = tx[x].attempt
                           /\ ~Commit(s) => tx'[x].overlap = tx[x].overlap
  BY OthersUntouched DEF Others, PastLookup
<1>3. \A x \in Savers : tx[x].overlap \in Nat /\ tx[x].attempt \in 1..2
  BY DEF TypeOK, Tx, MaxSaveAttempts
<1>4. \A x \in Savers : /\ pc[x] = "integrity_error" => tx[x].overlap >= 2
                        /\ pc[x] = "object_deleted" => tx[x].overlap >= 1
                        /\ tx[x].attempt = 2 => tx[x].overlap >= 1
  BY DEF RivalsCounted, FailureNeedsRivals
<1>5. \A x \in Savers : PastLookup(x) =>
         \A q \in runs : SameKey(q, req[x]) =>
             q.id = tx[x].found \/ tx[x].overlap >= tx[x].attempt
  BY DEF RivalsCounted
<1>6. ASSUME NEW x \in Others(s)
      PROVE  /\ pc'[x] = "integrity_error" => tx'[x].overlap >= 2
             /\ pc'[x] = "object_deleted" => tx'[x].overlap >= 1
             /\ tx'[x].attempt = 2 => tx'[x].overlap >= 1
             /\ PastLookup(x)' => \A q \in runs' : SameKey(q, req'[x]) =>
                   q.id = tx'[x].found \/ tx'[x].overlap >= tx'[x].attempt
  <2>1. CASE ~Commit(s)
    BY <1>2, <1>4, <1>5, <2>1, OnlyCommitWrites
  <2>2. CASE Commit(s)
    <3>1. tx'[x].overlap >= tx[x].overlap
      BY <1>2, <1>3, <2>2, CommitCounts
    <3>2. /\ pc'[x] = "integrity_error" => tx'[x].overlap >= 2
          /\ pc'[x] = "object_deleted" => tx'[x].overlap >= 1
          /\ tx'[x].attempt = 2 => tx'[x].overlap >= 1
      <4>1. tx'[x].overlap \in Nat
        BY <1>2, <1>3, <2>2, CommitCounts
      <4> QED  BY <1>2, <1>3, <1>4, <3>1, <4>1
    <3>3. ASSUME PastLookup(x), NEW q \in runs', SameKey(q, req[x])
          PROVE  q.id = tx[x].found \/ tx'[x].overlap >= tx[x].attempt
      <4>1. CASE q \in runs
        <5>1. q.id = tx[x].found \/ tx[x].overlap >= tx[x].attempt
          BY <1>2, <1>5, <3>3, <4>1
        <5>2. tx'[x].overlap \in Nat
          BY <1>2, <1>3, <2>2, CommitCounts
        <5> QED  BY <1>2, <1>3, <3>1, <5>1, <5>2
      <4>2. CASE q \notin runs
        <5>1. SameKey(req[x], req[s])
          BY <2>2, <3>3, <4>2, CommitRuns, SameKeyProperties
        <5>2. tx'[x].overlap = tx[x].overlap + 1
          BY <2>2, <3>3, <5>1, CommitCounts
        <5> QED  BY <1>2, <1>3, <1>4, <5>2
      <4> QED  BY <4>1, <4>2
    <3> QED  BY <1>2, <3>2, <3>3
  <2> QED  BY <2>1, <2>2
<1>7. /\ pc'[s] = "integrity_error" => tx'[s].overlap >= 2
      /\ pc'[s] = "object_deleted" => tx'[s].overlap >= 1
      /\ tx'[s].attempt = 2 => tx'[s].overlap >= 1
  <2>1. CASE Begin(s)
    <3>1. tx'[s] = NewTx(1, 0) /\ pc'[s] = "select_repository"
      BY <2>1 DEF Begin, TypeOK
    <3> QED  BY <3>1 DEF NewTx
  <2>2. CASE RefuseRun(s)
    <3> DEFINE n == IF tx[s].attempt < MaxSaveAttempts THEN tx[s].attempt + 1 ELSE tx[s].attempt
    <3>1. PICK q \in runs : q.id # tx[s].found /\ SameKey(q, req[s])
      BY <2>2 DEF RefuseRun, RunsSeenBy
    <3>2. tx[s].overlap >= tx[s].attempt
      BY <1>5, <2>2, <3>1 DEF RefuseRun, PastLookup
    <3>3. tx'[s] = NewTx(n, tx[s].overlap)
      BY <2>2 DEF RefuseRun, TypeOK
    <3>4. tx'[s].attempt = n /\ tx'[s].overlap = tx[s].overlap
      BY <3>3 DEF NewTx
    <3>5. pc'[s] = "integrity_error" => tx[s].attempt >= 2
      BY <1>3, <2>2 DEF RefuseRun, TypeOK, MaxSaveAttempts
    <3> QED  BY <1>3, <3>2, <3>4, <3>5
  <2>3. CASE ~Begin(s) /\ ~RefuseRun(s)
    <3>1. /\ tx'[s].attempt = tx[s].attempt /\ tx'[s].overlap = tx[s].overlap
          /\ pc'[s] # "integrity_error" /\ (pc'[s] = "object_deleted" => Refresh(s))
      BY <2>3, OwnCounts
    <3>2. ASSUME Refresh(s), pc'[s] = "object_deleted"
          PROVE  tx[s].overlap >= 1
      BY <3>2 DEF Refresh, OwnRunStands, TypeOK
    <3> QED  BY <1>4, <3>1, <3>2
  <2> QED  BY <2>1, <2>2, <2>3
<1>8. ASSUME PastLookup(s)', NEW q \in runs', SameKey(q, req'[s])
      PROVE  q.id = tx'[s].found \/ tx'[s].overlap >= tx'[s].attempt
  <2>1. runs' = runs /\ req'[s] = req[s]
    <3>1. ~Commit(s)
      BY <1>8 DEF Commit, PastLookup, TypeOK
    <3> QED  BY <1>8, <3>1, OnlyCommitWrites, OwnStep DEF PastLookup
  <2>2. CASE SelectRun(s)
    <3>1. \E p \in runs : tx'[s].found = p.id /\ SameKey(p, req[s])
      BY <1>8, <2>1, <2>2 DEF SelectRun, TypeOK, Tx
    <3>2. PICK p \in runs : tx'[s].found = p.id /\ SameKey(p, req[s])
      BY <3>1
    <3>3. p = q
      BY <1>8, <2>1, <3>2, SameKeyProperties DEF KeysUnique
    <3> QED  BY <3>2, <3>3
  <2>3. CASE ~SelectRun(s)
    BY <1>5, <1>8, <2>1, <2>3, OwnStep
  <2> QED  BY <2>2, <2>3
<1>9. FailureNeedsRivals'
  BY <1>1, <1>6, <1>7 DEF FailureNeedsRivals
<1>10. ASSUME NEW x \in Savers, PastLookup(x)', NEW q \in runs', SameKey(q, req'[x])
       PROVE  q.id = tx'[x].found \/ tx'[x].overlap >= tx'[x].attempt
  BY <1>1, <1>6, <1>8, <1>10
<1> QED  BY <1>9, <1>10 DEF RivalsCounted, SameKey

-----------------------------------------------------------------------------
(* Theorems.                                                               *)

LEMMA InitInvariant == Init => IInv
<1> SUFFICES ASSUME Init
             PROVE  IInv
  OBVIOUS
<1>1. /\ runs = {}
      /\ \A s \in Savers : pc[s] = "idle"
      /\ \A s \in Savers : ~tx[s].wrote /\ tx[s].found = 0
                           /\ tx[s].attempt = 1 /\ tx[s].overlap = 0
  BY DEF Init, NewTx
<1>2. OneWriter /\ SqliteIds /\ PostgresqlIds
  BY <1>1 DEF OneWriter, SqliteIds, PostgresqlIds, Others, PastLookup
<1>3. KeysUnique
  BY <1>1 DEF KeysUnique, FoundIdKeepsItsKey, RunsSeenBy
<1>4. RivalsCounted /\ OwnRunStands
  BY <1>1 DEF RivalsCounted, FailureNeedsRivals, OwnRunStands
<1> QED  BY <1>2, <1>3, <1>4, InitType DEF IInv

LEMMA StepInvariant == IInv /\ [Next]_vars => IInv'
<1> SUFFICES ASSUME IInv, [Next]_vars
             PROVE  IInv'
  OBVIOUS
<1>1. TypeOK'
  BY StepType DEF IInv
<1>2. CASE \E s \in Savers : Does(s)
  <2>1. PICK s \in Savers : Does(s)
    BY <1>2
  <2>2. IdsBounded' /\ SqliteIds' /\ PostgresqlIds' /\ KeysUnique' /\ RivalsCounted'
        /\ OwnRunStands'
    BY <2>1, IdsBoundedStep, SqliteIdsStep, PostgresqlIdsStep, KeysUniqueStep,
       RivalsCountedStep, OwnRunStandsStep
  <2>3. OneWriter'
    BY <2>1, OneWriterStep DEF IInv
  <2> QED  BY <1>1, <2>2, <2>3 DEF IInv
<1>3. CASE UNCHANGED vars
  <2>1. IdsBounded' /\ OneWriter'
    BY <1>3 DEF IInv, vars, IdsBounded, OneWriter
  <2>2. \A s : RunsSeenBy(s)' = RunsSeenBy(s) /\ PastLookup(s)' = PastLookup(s)
               /\ BeforeLookup(s)' = BeforeLookup(s)
    BY <1>3 DEF vars, RunsSeenBy, PastLookup, BeforeLookup
  <2>3. SqliteIds' /\ PostgresqlIds'
    BY <1>3, <2>2 DEF IInv, vars, SqliteIds, PostgresqlIds, Top
  <2>4. FoundIdKeepsItsKey' = FoundIdKeepsItsKey
        /\ FailureNeedsRivals' = FailureNeedsRivals
    BY <1>3 DEF vars, FoundIdKeepsItsKey, FailureNeedsRivals
  <2>5. KeysUnique' /\ RivalsCounted'
    BY <1>3, <2>2, <2>4 DEF IInv, vars, KeysUnique, RivalsCounted
  <2>6. OwnRunStands'
    BY <1>3 DEF IInv, vars, OwnRunStands, InfoOf
  <2> QED  BY <1>1, <2>1, <2>3, <2>5, <2>6 DEF IInv
<1> QED  BY <1>2, <1>3 DEF Next, Does, Finished

\* The inductive invariant holds in every reachable state.
THEOREM Invariance == Spec => []IInv
<1>1. Init => IInv
  BY InitInvariant
<1>2. IInv /\ [Next]_vars => IInv'
  BY StepInvariant
<1> QED  BY <1>1, <1>2, PTL DEF Spec

\* Every variable keeps its type, whatever the interleaving of the saves.
THEOREM TypeCorrect == Spec => []TypeOK
<1>1. IInv => TypeOK
  BY DEF IInv
<1> QED  BY <1>1, Invariance, PTL

\* The run id a save read in its SELECT names, for as long as the save uses it, no
\* run but one of the repository and commit it is saving (store.py:140-149).
THEOREM StaleIdSafe == Spec => []FoundIdKeepsItsKey
<1>1. IInv => FoundIdKeepsItsKey
  BY DEF IInv, KeysUnique
<1> QED  BY <1>1, Invariance, PTL

\* IndexStore.save raises IntegrityError only if two other saves of the same commit
\* committed during the call, and loses the row it reads back only if one did
\* (store.py:118-182).
THEOREM OneRivalAbsorbed == Spec => []FailureNeedsRivals
<1>1. IInv => FailureNeedsRivals
  BY DEF IInv, RivalsCounted
<1> QED  BY <1>1, Invariance, PTL

\* At its commit s deletes exactly the runs of its key.
LEMMA CommitReplaces ==
    ASSUME IInv, NEW s \in Savers, Commit(s)
    PROVE  \A q \in runs : q \in RunsSeenBy(s) <=> ~SameKey(q, req[s])
<1>1. pc[s] = "commit" /\ \A q \in runs : q \in RunsSeenBy(s) <=> q.id # tx[s].found
  BY CommitRuns DEF IInv
<1> QED  BY <1>1 DEF IInv, KeysUnique, FoundIdKeepsItsKey

\* Storing a run is one step of the registry of runs: in the same step the run of
\* the same repository and commit disappears, and no other (store.py:3-6).
THEOREM SaveReplacesAtomically == Spec => ReplacesAtomically
<1> DEFINE reg == {InfoOf(q) : q \in runs}
<1>1. Init => Registry!Init
  BY DEF Init, Registry!Init
<1>2. IInv /\ [Next]_vars => [Registry!Next]_reg
  <2> SUFFICES ASSUME IInv, [Next]_vars
               PROVE  Registry!Next \/ reg' = reg
    OBVIOUS
  <2>1. ASSUME NEW s \in Savers, Commit(s)
        PROVE  Registry!Next
    <3> DEFINE p == InfoOf(req[s])
    <3>1. p \in Info
      BY DEF IInv, TypeOK, InfoOf, Info, Request
    <3>2. runs' = RunsSeenBy(s) \union {NewRun(s)} /\ RunsSeenBy(s) \subseteq runs
      BY <2>1, CommitRuns DEF IInv
    <3>3. InfoOf(NewRun(s)) = p
      BY DEF InfoOf, NewRun
    <3>4. \A q : SameKey(p, InfoOf(q)) <=> SameKey(q, req[s])
      BY DEF SameKey, InfoOf
    <3>5. \A q \in runs : q \in RunsSeenBy(s) <=> ~SameKey(p, InfoOf(q))
      BY <2>1, <3>4, CommitReplaces
    <3>6. reg' = {InfoOf(q) : q \in runs'}
      BY DEF InfoOf
    <3>7. reg' = {i \in reg : ~SameKey(p, i)} \union {p}
      BY <3>2, <3>3, <3>5, <3>6
    <3>8. Registry!Put(p)
      BY <3>7 DEF Registry!Put
    <3> QED  BY <3>1, <3>8 DEF Registry!Next
  <2>2. ASSUME NEW s \in Savers, Does(s), ~Commit(s)
        PROVE  reg' = reg
    BY <2>2, OnlyCommitWrites DEF InfoOf
  <2>3. CASE UNCHANGED vars
    BY <2>3 DEF vars, InfoOf
  <2> QED  BY <2>1, <2>2, <2>3 DEF Next, Does, Finished
<1> QED  BY <1>1, <1>2, Invariance, PTL DEF Spec, ReplacesAtomically, Registry!Spec

-----------------------------------------------------------------------------
(* References between the rows of different tables.                        *)

HasRepository(s) ==
    pc[s] \in {"select_working_copy", "insert_working_copy", "select_run", "load_children",
               "delete_run", "insert_run", "commit"}

HasWorkingCopy(s) == pc[s] = "select_run" \/ PastLookup(s)

\* Past its get-or-create, s's repository and working copy have a committed row or
\* one s inserted in this very transaction.
RowsInHand ==
    /\ \A s \in Savers : HasRepository(s) => Repo(s) \in repositories \/ tx[s].newRepo
    /\ \A s \in Savers : HasWorkingCopy(s) => req[s].checkout \in working_copies \/ tx[s].newCopy

References == TypeOK /\ ReferencesResolve /\ RowsInHand

\* A step of s itself keeps the rows s has in hand, unless it rolls back.
LEMMA OwnRowsInHand ==
    ASSUME References, NEW s \in Savers, Does(s)
    PROVE  /\ HasRepository(s)' => Repo(s)' \in repositories \/ tx'[s].newRepo
           /\ HasWorkingCopy(s)' => req'[s].checkout \in working_copies \/ tx'[s].newCopy
<1> USE DEF References
<1>1. tx[s] \in Tx /\ tx \in [Savers -> Tx] /\ req \in [Savers -> Request]
      /\ pc \in [Savers -> Active \union Ended]
  BY DEF TypeOK
<1>2. /\ HasRepository(s) => Repo(s) \in repositories \/ tx[s].newRepo
      /\ HasWorkingCopy(s) => req[s].checkout \in working_copies \/ tx[s].newCopy
  BY DEF RowsInHand
<1> USE DEF HasRepository, HasWorkingCopy, PastLookup, Repo
<1>3. CASE Begin(s) \/ RefuseRun(s) \/ BusyTimeout(s) \/ Crash(s) \/ Commit(s) \/ Refresh(s)
  <2>1. pc'[s] \in {"select_repository", "refresh"} \union Ended
    BY <1>1, <1>3 DEF Begin, RefuseRun, BusyTimeout, Crash, Commit, Refresh, Ended
  <2> QED  BY <2>1 DEF Ended
<1>4. CASE SelectRepository(s)
  BY <1>1, <1>4 DEF SelectRepository
<1>5. CASE InsertRepository(s)
  BY <1>1, <1>5 DEF InsertRepository, Tx
<1>6. CASE SelectWorkingCopy(s)
  BY <1>1, <1>2, <1>6 DEF SelectWorkingCopy
<1>7. CASE InsertWorkingCopy(s)
  <2>1. pc[s] = "insert_working_copy" /\ pc'[s] = "select_run" /\ req' = req
    BY <1>1, <1>7 DEF InsertWorkingCopy
  <2>2. CASE req[s].checkout \in working_copies
    <3>1. req[s].checkout.repo \in repositories
      BY <2>2 DEF ReferencesResolve
    <3> QED  BY <2>1, <2>2, <3>1
  <2>3. CASE req[s].checkout \notin working_copies
    <3>1. tx' = [tx EXCEPT ![s] = [tx[s] EXCEPT !.newCopy = TRUE, !.wrote = TRUE]]
      BY <1>1, <1>7, <2>3 DEF InsertWorkingCopy
    <3>2. tx'[s].newCopy /\ tx'[s].newRepo = tx[s].newRepo
      BY <1>1, <3>1 DEF Tx
    <3> QED  BY <1>2, <2>1, <3>2
  <2> QED  BY <2>2, <2>3
<1>8. CASE SelectRun(s)
  <2>1. tx' = tx \/ \E q \in runs : tx' = [tx EXCEPT ![s].found = q.id]
    BY <1>8 DEF SelectRun
  <2>2. tx'[s].newRepo = tx[s].newRepo /\ tx'[s].newCopy = tx[s].newCopy
    BY <1>1, <2>1 DEF Tx
  <2>3. pc[s] = "select_run" /\ req' = req
    BY <1>8 DEF SelectRun
  <2> QED  BY <1>2, <2>2, <2>3
<1>9. CASE \E t \in Tables : LoadChildren(s, t)
  BY <1>1, <1>2, <1>9 DEF LoadChildren, Tx
<1>10. CASE DeleteRun(s)
  BY <1>1, <1>2, <1>10 DEF DeleteRun, Tx
<1>11. CASE InsertRun(s)
  BY <1>1, <1>2, <1>11 DEF InsertRun, Tx
<1> QED
  BY <1>3, <1>4, <1>5, <1>6, <1>7, <1>8, <1>9, <1>10, <1>11 DEF Does, Step

LEMMA ReferencesStep ==
    ASSUME References, NEW s \in Savers, Does(s)
    PROVE  ReferencesResolve' /\ RowsInHand'
<1> USE DEF References
<1>1. repositories \subseteq repositories' /\ working_copies \subseteq working_copies'
  <2>1. CASE Commit(s)
    BY <2>1 DEF Commit
  <2> QED  BY <2>1, OnlyCommitWrites
<1>2. RowsInHand'
  <2>1. ASSUME NEW x \in Others(s)
        PROVE  /\ HasRepository(x)' => Repo(x)' \in repositories' \/ tx'[x].newRepo
               /\ HasWorkingCopy(x)' => req'[x].checkout \in working_copies' \/ tx'[x].newCopy
    <3>1. /\ x \in Savers /\ pc'[x] = pc[x] /\ req'[x] = req[x]
          /\ tx'[x].newRepo = tx[x].newRepo /\ tx'[x].newCopy = tx[x].newCopy
      BY OthersUntouched DEF Others
    <3> QED
      BY <1>1, <3>1 DEF RowsInHand, HasRepository, HasWorkingCopy, PastLookup, Repo
  <2>2. /\ HasRepository(s)' => Repo(s)' \in repositories' \/ tx'[s].newRepo
        /\ HasWorkingCopy(s)' => req'[s].checkout \in working_copies' \/ tx'[s].newCopy
    BY <1>1, OwnRowsInHand
  <2> QED  BY <2>1, <2>2 DEF RowsInHand, Others
<1>3. ReferencesResolve'
  <2>1. CASE ~Commit(s)
    BY <2>1, OnlyCommitWrites DEF ReferencesResolve
  <2>2. CASE Commit(s)
    <3>1. /\ repositories' = repositories \union (IF tx[s].newRepo THEN {Repo(s)} ELSE {})
          /\ working_copies' = working_copies
                 \union (IF tx[s].newCopy THEN {req[s].checkout} ELSE {})
          /\ runs' = RunsSeenBy(s) \union {NewRun(s)} /\ RunsSeenBy(s) \subseteq runs
          /\ pc[s] = "commit"
      BY <2>2, CommitRuns DEF Commit
    <3>2. Repo(s) \in repositories' /\ req[s].checkout \in working_copies'
      BY <3>1 DEF RowsInHand, HasRepository, HasWorkingCopy, PastLookup
    <3>3. NewRun(s).checkout = req[s].checkout
      BY DEF NewRun
    <3> QED  BY <3>1, <3>2, <3>3 DEF ReferencesResolve, Repo
  <2> QED  BY <2>1, <2>2
<1> QED  BY <1>2, <1>3

\* Every run's working copy and every working copy's repository have a row, although
\* the get-or-create races roll inserts back (store.py:65-109).
THEOREM ReferencesHeld == Spec => []ReferencesResolve
<1>1. Init => References
  BY InitType DEF References, Init, ReferencesResolve, RowsInHand, HasRepository,
     HasWorkingCopy, PastLookup
<1>2. References /\ TypeOK' /\ [Next]_vars => References'
  <2> SUFFICES ASSUME References, TypeOK', [Next]_vars
               PROVE  References'
    OBVIOUS
  <2>1. CASE \E s \in Savers : Does(s)
    BY <2>1, ReferencesStep DEF References
  <2>2. CASE UNCHANGED vars
    BY <2>2 DEF References, vars, ReferencesResolve, RowsInHand, HasRepository,
       HasWorkingCopy, PastLookup, Repo
  <2> QED  BY <2>1, <2>2 DEF Next, Does, Finished
<1>3. References => ReferencesResolve
  BY DEF References
<1> QED  BY <1>1, <1>2, <1>3, TypeCorrect, PTL DEF Spec
-----------------------------------------------------------------------------
(* Deadlock.                                                               *)

\* The transactions that s waits for: on sqlite the writer, on postgresql those that hold
\* the row or the key that s's next statement touches.
AwaitedBy(s) ==
    IF pc[s] \notin Writing THEN {}
    ELSE IF Backend = "sqlite" THEN {o \in Others(s) : tx[o].wrote}
    ELSE CASE pc[s] = "insert_repository" -> {o \in Others(s) : tx[o].newRepo /\ Repo(o) = Repo(s)}
           [] pc[s] = "insert_working_copy" ->
                {o \in Others(s) : tx[o].newCopy /\ req[o].checkout = req[s].checkout}
           [] pc[s] = "delete_run" -> Deleting(s, tx[s].found)
           [] pc[s] = "insert_run" -> HoldingKey(s)

\* No savers wait for each other in a circle: of any of them, one waits for none of them.
NoWaitCycle ==
    \A S \in SUBSET Savers : S # {} => \E s \in S : AwaitedBy(s) \intersect S = {}

\* A row that a transaction has inserted is held until it ends, and two transactions never
\* delete one run.
LocksInOrder ==
    /\ \A s \in Savers :
          /\ tx[s].newRepo => HasRepository(s)
          /\ tx[s].newCopy => HasWorkingCopy(s)
    /\ Backend = "postgresql" =>
          \A s \in Savers : pc[s] \in {"insert_run", "commit"} => Deleting(s, tx[s].found) = {}

\* Of its own statements only DeleteRun gives a saver a run to delete, and it waits until
\* nobody else deletes it.
LEMMA OwnLocksInOrder ==
    ASSUME IInv, LocksInOrder, NEW s \in Savers, Does(s)
    PROVE  /\ tx'[s].newRepo => HasRepository(s)'
           /\ tx'[s].newCopy => HasWorkingCopy(s)'
           /\ Backend = "postgresql" /\ pc'[s] \in {"insert_run", "commit"} =>
                Deleting(s, tx[s].found) = {} \/ tx'[s].found = 0
           /\ pc'[s] \in {"insert_run", "commit"} => tx'[s].found = tx[s].found
<1>1. tx[s] \in Tx /\ tx \in [Savers -> Tx] /\ pc \in [Savers -> Active \union Ended]
  BY DEF IInv, TypeOK
<1>2. /\ tx[s].newRepo => HasRepository(s)
      /\ tx[s].newCopy => HasWorkingCopy(s)
  BY DEF LocksInOrder
<1> USE DEF HasRepository, HasWorkingCopy, PastLookup
<1>3. CASE Begin(s) \/ RefuseRun(s) \/ BusyTimeout(s) \/ Crash(s)
  <2>1. \E attempt, overlap : tx'[s] = NewTx(attempt, overlap)
    BY <1>1, <1>3 DEF Begin, RefuseRun, BusyTimeout, Crash
  <2>2. ~tx'[s].newRepo /\ ~tx'[s].newCopy
    BY <2>1 DEF NewTx
  <2>3. pc'[s] \notin {"insert_run", "commit"}
    BY <1>1, <1>3 DEF Begin, RefuseRun, BusyTimeout, Crash
  <2> QED  BY <2>2, <2>3
<1>4. CASE Commit(s) \/ Refresh(s)
  <2>1. ~tx'[s].newRepo /\ ~tx'[s].newCopy
    BY <1>1, <1>2, <1>4 DEF Commit, Refresh, Tx
  <2>2. pc'[s] \notin {"insert_run", "commit"}
    BY <1>1, <1>4 DEF Commit, Refresh
  <2> QED  BY <2>1, <2>2
<1>5. CASE SelectRepository(s) \/ SelectWorkingCopy(s)
  BY <1>1, <1>2, <1>5 DEF SelectRepository, SelectWorkingCopy
<1>6. CASE InsertRepository(s)
  <2>1. /\ pc[s] = "insert_repository" /\ pc'[s] = "select_working_copy"
        /\ tx' = tx \/ tx' = [tx EXCEPT ![s] = [tx[s] EXCEPT !.newRepo = TRUE, !.wrote = TRUE]]
    BY <1>1, <1>6 DEF InsertRepository
  <2> QED  BY <1>1, <1>2, <2>1 DEF Tx
<1>7. CASE InsertWorkingCopy(s)
  <2>1. pc'[s] = "select_run"
    BY <1>1, <1>7 DEF InsertWorkingCopy
  <2> QED  BY <2>1
<1>8. CASE SelectRun(s)
  <2>1. tx' = tx \/ \E q \in runs : tx' = [tx EXCEPT ![s].found = q.id] /\ pc'[s] = "load_children"
    BY <1>1, <1>8 DEF SelectRun
  <2>2. /\ tx'[s].newRepo = tx[s].newRepo /\ tx'[s].newCopy = tx[s].newCopy
        /\ pc'[s] = "insert_run" => tx' = tx
    BY <1>1, <2>1 DEF Tx
  <2>3. pc[s] = "select_run" /\ pc'[s] \in {"insert_run", "load_children"}
    BY <1>1, <1>8 DEF SelectRun
  <2>4. tx[s].found = 0
    BY <2>3 DEF IInv, KeysUnique, BeforeLookup
  <2> QED  BY <1>2, <2>2, <2>3, <2>4
<1>9. CASE \E t \in Tables : LoadChildren(s, t)
  BY <1>1, <1>2, <1>9 DEF LoadChildren, Tx
<1>10. CASE DeleteRun(s)
  <2>1. Backend = "postgresql" => Deleting(s, tx[s].found) = {}
    BY <1>10 DEF DeleteRun, MayWrite
  <2> QED  BY <1>1, <1>2, <1>10, <2>1 DEF DeleteRun, Tx
<1>11. CASE InsertRun(s)
  <2>1. pc[s] = "insert_run"
    BY <1>11 DEF InsertRun
  <2> QED  BY <1>1, <1>2, <1>11, <2>1 DEF InsertRun, Tx, LocksInOrder
<1> QED
  BY <1>3, <1>4, <1>5, <1>6, <1>7, <1>8, <1>9, <1>10, <1>11 DEF Does, Step

LEMMA LocksStep ==
    ASSUME IInv, LocksInOrder, NEW s \in Savers, Does(s)
    PROVE  LocksInOrder'
<1>1. ASSUME NEW x \in Others(s)
      PROVE  /\ x \in Savers /\ pc'[x] = pc[x] /\ tx'[x].found = tx[x].found
             /\ tx'[x].newRepo => HasRepository(x)'
             /\ tx'[x].newCopy => HasWorkingCopy(x)'
  <2>1. /\ x \in Savers /\ pc'[x] = pc[x] /\ tx'[x].found = tx[x].found
        /\ tx'[x].newRepo = tx[x].newRepo /\ tx'[x].newCopy = tx[x].newCopy
    BY OthersUntouched DEF IInv, Others
  <2> QED  BY <2>1 DEF LocksInOrder, HasRepository, HasWorkingCopy, PastLookup
<1>2. ASSUME NEW x \in Savers, NEW o \in Savers, x # o, Backend = "postgresql",
             pc'[x] \in {"insert_run", "commit"}, pc'[o] \in {"insert_run", "commit"},
             tx'[x].found = tx'[o].found, tx'[x].found # 0
      PROVE  FALSE
  <2>1. CASE x # s /\ o # s
    <3>1. o \in Deleting(x, tx[x].found)
      BY <1>1, <1>2, <2>1 DEF Deleting, Others
    <3> QED  BY <1>1, <1>2, <2>1, <3>1 DEF LocksInOrder, Others
  <2>2. ASSUME NEW y \in Savers, y # s, pc'[y] \in {"insert_run", "commit"},
               pc'[s] \in {"insert_run", "commit"},
               tx'[y].found = tx'[s].found, tx'[s].found # 0
        PROVE  FALSE
    <3>1. y \in Deleting(s, tx[s].found)
      BY <1>1, <2>2, OwnLocksInOrder DEF Deleting, Others
    <3> QED  BY <1>2, <2>2, <3>1, OwnLocksInOrder
  <2> QED  BY <1>2, <2>1, <2>2
<1>3. ASSUME NEW x \in Savers, Backend = "postgresql", pc'[x] \in {"insert_run", "commit"}
      PROVE  Deleting(x, tx[x].found)' = {}
  BY <1>2, <1>3 DEF Deleting, Others
<1>4. ASSUME NEW x \in Savers
      PROVE  /\ tx'[x].newRepo => HasRepository(x)'
             /\ tx'[x].newCopy => HasWorkingCopy(x)'
  BY <1>1, OwnLocksInOrder DEF Others
<1> QED  BY <1>3, <1>4 DEF LocksInOrder

\* A saver may execute the statement it has come to exactly if it waits for nobody.
LEMMA WaitsAreTheGuards ==
    ASSUME NEW s \in Savers
    PROVE  /\ pc[s] = "insert_repository" =>
                (MayWrite(s, {o \in Others(s) : tx[o].newRepo /\ Repo(o) = Repo(s)}) <=> AwaitedBy(s) = {})
           /\ pc[s] = "insert_working_copy" =>
                (MayWrite(s, {o \in Others(s) : tx[o].newCopy /\ req[o].checkout = req[s].checkout})
                    <=> AwaitedBy(s) = {})
           /\ pc[s] = "delete_run" => (MayWrite(s, Deleting(s, tx[s].found)) <=> AwaitedBy(s) = {})
           /\ pc[s] = "insert_run" => (MayWrite(s, HoldingKey(s)) <=> AwaitedBy(s) = {})
<1>1. ASSUME pc[s] \in Writing, NEW holders
      PROVE  /\ Backend = "sqlite" => (MayWrite(s, holders) <=> AwaitedBy(s) = {})
             /\ Backend = "postgresql" => (MayWrite(s, holders) <=> holders = {})
  BY <1>1 DEF MayWrite, AwaitedBy
<1> QED  BY <1>1, StoreAssumption DEF AwaitedBy, Writing

\* A saver that is to insert its run waits for one that is about to commit, or for the one
\* that deletes the run of its key, which itself waits only for those about to commit.
LEMMA DeletersGoFirst ==
    ASSUME IInv, LocksInOrder, Backend = "postgresql",
           NEW s \in Savers, pc[s] = "insert_run", NEW o \in AwaitedBy(s), pc[o] # "commit"
    PROVE  pc[o] = "insert_run" /\ \A a \in AwaitedBy(o) : pc[a] = "commit"
<1>1. AwaitedBy(s) = HoldingKey(s)
  BY DEF AwaitedBy, Writing
<1>2. PICK q \in runs : SameKey(q, req[s]) /\ o \in Deleting(s, q.id)
  BY <1>1 DEF HoldingKey
<1>3. o \in Savers /\ pc[o] = "insert_run" /\ tx[o].found = q.id /\ q.id # 0
  BY <1>2 DEF Deleting, Others
<1>4. Deleting(o, q.id) = {}
  BY <1>3 DEF LocksInOrder
<1>5. SameKey(q, req[o])
  BY <1>3 DEF IInv, KeysUnique, FoundIdKeepsItsKey
<1>6. \A p \in runs : SameKey(p, req[o]) => p = q
  <2>1. \A p \in runs : SameKey(p, req[o]) => SameKey(p, q)
    BY <1>5 DEF SameKey
  <2> QED  BY <2>1 DEF IInv, KeysUnique
<1>7. AwaitedBy(o) = HoldingKey(o)
  BY <1>3 DEF AwaitedBy, Writing
<1>8. \A a \in HoldingKey(o) : pc[a] = "commit"
  BY <1>4, <1>6 DEF HoldingKey
<1> QED  BY <1>3, <1>7, <1>8

LEMMA LocksMakeNoCycle ==
    ASSUME IInv, LocksInOrder
    PROVE  NoWaitCycle
<1> SUFFICES ASSUME NEW S \in SUBSET Savers, S # {}
             PROVE  \E s \in S : AwaitedBy(s) \intersect S = {}
  BY DEF NoWaitCycle
<1>1. CASE Backend = "sqlite"
  <2>1. CASE \E w \in S : tx[w].wrote
    <3>1. PICK w \in S : tx[w].wrote
      BY <2>1
    <3>2. AwaitedBy(w) = {}
      BY <1>1, <3>1 DEF IInv, OneWriter, AwaitedBy, Others
    <3> QED  BY <3>2
  <2>2. CASE \A w \in S : ~tx[w].wrote
    <3>1. \A s \in S : AwaitedBy(s) \intersect S = {}
      BY <1>1, <2>2 DEF AwaitedBy
    <3> QED  BY <3>1
  <2> QED  BY <2>1, <2>2
<1>2. CASE Backend = "postgresql"
  <2>1. CASE \E s \in S : pc[s] \notin Writing
    <3>1. PICK s \in S : pc[s] \notin Writing
      BY <2>1
    <3>2. AwaitedBy(s) = {}
      BY <3>1 DEF AwaitedBy
    <3> QED  BY <3>2
  <2>2. CASE (\A s \in S : pc[s] \in Writing) /\ \E s \in S : pc[s] = "insert_run"
    <3>1. PICK s \in S : pc[s] = "insert_run"
      BY <2>2
    <3>2. \A o \in S : pc[o] # "commit"
      BY <2>2 DEF Writing
    <3>3. ASSUME NEW o \in AwaitedBy(s) \intersect S
          PROVE  AwaitedBy(o) \intersect S = {}
      <4>1. \A a \in AwaitedBy(o) : pc[a] = "commit"
        BY <1>2, <3>1, <3>2, DeletersGoFirst
      <4> QED  BY <3>2, <4>1
    <3> QED  BY <3>3
  <2>3. CASE (\A s \in S : pc[s] \in Writing \ {"insert_run"}) /\ \E s \in S : pc[s] = "delete_run"
    <3>1. PICK s \in S : pc[s] = "delete_run"
      BY <2>3
    <3>2. \A o \in AwaitedBy(s) : pc[o] \in {"insert_run", "commit"}
      BY <1>2, <3>1 DEF AwaitedBy, Writing, Deleting
    <3> QED  BY <2>3, <3>2 DEF Writing
  <2>4. CASE /\ \A s \in S : pc[s] \in {"insert_repository", "insert_working_copy"}
             /\ \E s \in S : pc[s] = "insert_working_copy"
    <3>1. PICK s \in S : pc[s] = "insert_working_copy"
      BY <2>4
    <3>2. \A o \in AwaitedBy(s) : o \in Savers /\ tx[o].newCopy
      BY <1>2, <3>1 DEF AwaitedBy, Writing, Others
    <3>3. \A o \in AwaitedBy(s) : HasWorkingCopy(o)
      BY <3>2 DEF LocksInOrder
    <3> QED  BY <2>4, <3>3 DEF HasWorkingCopy, PastLookup
  <2>5. CASE \A s \in S : pc[s] = "insert_repository"
    <3>1. PICK s \in S : pc[s] = "insert_repository"
      BY <2>5
    <3>2. \A o \in AwaitedBy(s) : o \in Savers /\ tx[o].newRepo
      BY <1>2, <3>1 DEF AwaitedBy, Writing, Others
    <3>3. \A o \in AwaitedBy(s) : HasRepository(o)
      BY <3>2 DEF LocksInOrder
    <3> QED  BY <2>5, <3>3 DEF HasRepository
  <2> QED  BY <2>1, <2>2, <2>3, <2>4, <2>5 DEF Writing
<1> QED  BY <1>1, <1>2, StoreAssumption

\* However many processes save at once, on either database, their transactions never wait
\* for each other in a circle: each takes its locks in the order of save, and whoever holds
\* a run's deletion has only commits to wait for (store.py:65-109, 140-182).
THEOREM NoDeadlock == Spec => []NoWaitCycle
<1>1. Init => LocksInOrder
  BY DEF Init, LocksInOrder, NewTx
<1>2. IInv /\ LocksInOrder /\ [Next]_vars => LocksInOrder'
  <2> SUFFICES ASSUME IInv, LocksInOrder, [Next]_vars
               PROVE  LocksInOrder'
    OBVIOUS
  <2>1. CASE \E s \in Savers : Does(s)
    BY <2>1, LocksStep
  <2>2. CASE UNCHANGED vars
    BY <2>2 DEF LocksInOrder, vars, HasRepository, HasWorkingCopy, PastLookup, Deleting
  <2> QED  BY <2>1, <2>2 DEF Next, Does, Finished
<1>3. IInv /\ LocksInOrder => NoWaitCycle
  BY LocksMakeNoCycle
<1> QED  BY <1>1, <1>2, <1>3, Invariance, PTL DEF Spec
-----------------------------------------------------------------------------
(* The length of a save.                                                   *)

\* The statements of an attempt from each on, but for those that load the children.
Ahead == [select_repository |-> 10, insert_repository |-> 9, select_working_copy |-> 8,
          insert_working_copy |-> 7, select_run |-> 6, load_children |-> 5, delete_run |-> 4,
          insert_run |-> 3, commit |-> 2, refresh |-> 1]

\* At most so many statements are left of s's call of save.
StatementsLeft(s) ==
    IF pc[s] \in Ended THEN 0
    ELSE Ahead[pc[s]] + Cardinality(Tables \ tx[s].loaded)
         + IF tx[s].attempt < MaxSaveAttempts THEN 10 + Cardinality(Tables) ELSE 0

\* What s executes brings the end of its call nearer, and nothing puts it off.
ComesToAnEnd ==
    \A s \in Savers :
        /\ Step(s) => StatementsLeft(s)' < StatementsLeft(s)
        /\ pc[s] \in Active => StatementsLeft(s)' <= StatementsLeft(s)

\* Children are loaded after the lookup.
LoadsAfterLookup == \A s \in Savers : BeforeLookup(s) => tx[s].loaded = {}

LEMMA TablesLeft ==
    ASSUME IsFiniteSet(Tables), NEW loaded
    PROVE  /\ Cardinality(Tables \ loaded) \in Nat /\ Cardinality(Tables) \in Nat
           /\ Cardinality(Tables \ loaded) <= Cardinality(Tables)
           /\ Cardinality(Tables \ {}) = Cardinality(Tables)
           /\ \A t \in Tables \ loaded :
                 Cardinality(Tables \ (loaded \union {t})) = Cardinality(Tables \ loaded) - 1
<1>1. Tables \ loaded \subseteq Tables /\ IsFiniteSet(Tables \ loaded)
  BY FS_Subset
<1>2. Cardinality(Tables \ loaded) \in Nat /\ Cardinality(Tables) \in Nat
  BY <1>1, FS_CardinalityType
<1>3. Cardinality(Tables \ loaded) <= Cardinality(Tables)
  BY <1>1, FS_Subset
<1>4. Tables \ {} = Tables
  OBVIOUS
<1>5. ASSUME NEW t \in Tables \ loaded
      PROVE  Cardinality(Tables \ (loaded \union {t})) = Cardinality(Tables \ loaded) - 1
  <2>1. Tables \ (loaded \union {t}) = (Tables \ loaded) \ {t}
    OBVIOUS
  <2> QED  BY <1>1, <2>1, FS_RemoveElement
<1> QED  BY <1>2, <1>3, <1>4, <1>5

\* Each statement of s leaves fewer to s: the next has fewer ahead, loading leaves a table
\* less, and only the first of two attempts begins anew.
LEMMA OwnStatements ==
    ASSUME IsFiniteSet(Tables), TypeOK, LoadsAfterLookup, NEW s \in Savers, Step(s)
    PROVE  /\ StatementsLeft(s)' < StatementsLeft(s)
           /\ BeforeLookup(s)' => tx'[s].loaded = {}
<1> DEFINE n == Cardinality(Tables)
           left(x) == Cardinality(Tables \ x.loaded)
           again(x) == IF x.attempt < MaxSaveAttempts THEN 10 + n ELSE 0
<1>1. /\ tx[s] \in Tx /\ tx \in [Savers -> Tx] /\ pc \in [Savers -> Active \union Ended]
      /\ tx[s].attempt \in 1 .. 2
  BY DEF TypeOK, Tx, MaxSaveAttempts
<1>2. /\ n \in Nat /\ \A x : left(x) \in Nat /\ left(x) <= n
      /\ \A x : again(x) \in Nat
  <2>1. n \in Nat
    BY TablesLeft
  <2>2. ASSUME NEW x PROVE left(x) \in Nat /\ left(x) <= n
    BY TablesLeft
  <2>3. ASSUME NEW x PROVE again(x) \in Nat
    <3> HIDE DEF n
    <3>1. 10 + n \in Nat
      BY <2>1
    <3> QED  BY <3>1
  <2> HIDE DEF n, left, again
  <2> QED  BY <2>1, <2>2, <2>3
<1>3. /\ pc[s] \in Active => StatementsLeft(s) = Ahead[pc[s]] + left(tx[s]) + again(tx[s])
      /\ pc'[s] \in Active => StatementsLeft(s)' = Ahead[pc'[s]] + left(tx'[s]) + again(tx'[s])
      /\ pc'[s] \in Ended => StatementsLeft(s)' = 0
  BY DEF StatementsLeft, Active, Writing, Reading, Ended
<1> HIDE DEF n, left, again
<1>4. ASSUME pc[s] \in Active, pc'[s] \in Active, Ahead[pc'[s]] < Ahead[pc[s]],
             left(tx'[s]) = left(tx[s]), again(tx'[s]) = again(tx[s])
      PROVE  StatementsLeft(s)' < StatementsLeft(s)
  <2>1. Ahead[pc'[s]] \in Nat /\ Ahead[pc[s]] \in Nat
    BY <1>4 DEF Ahead, Active, Writing, Reading
  <2> QED  BY <1>2, <1>3, <1>4, <2>1
<1>5. ASSUME pc[s] \in Active, pc'[s] \in Ended
      PROVE  StatementsLeft(s)' < StatementsLeft(s)
  <2>1. Ahead[pc[s]] \in Nat /\ Ahead[pc[s]] > 0
    BY <1>5 DEF Ahead, Active, Writing, Reading
  <2> QED  BY <1>2, <1>3, <1>5, <2>1
<1>6. ASSUME tx'[s].loaded = tx[s].loaded, tx'[s].attempt = tx[s].attempt
      PROVE  left(tx'[s]) = left(tx[s]) /\ again(tx'[s]) = again(tx[s])
  BY <1>6 DEF left, again
<1>7. CASE SelectRepository(s) \/ SelectWorkingCopy(s)
  <2>1. /\ tx' = tx /\ pc[s] \in {"select_repository", "select_working_copy"}
        /\ pc'[s] = IF pc[s] = "select_repository"
                    THEN IF Repo(s) \in repositories THEN "select_working_copy" ELSE "insert_repository"
                    ELSE IF req[s].checkout \in working_copies THEN "select_run" ELSE "insert_working_copy"
    BY <1>1, <1>7 DEF SelectRepository, SelectWorkingCopy
  <2>2. pc[s] \in Active /\ pc'[s] \in Active /\ Ahead[pc'[s]] < Ahead[pc[s]]
    BY <2>1 DEF Ahead, Active, Writing, Reading
  <2> QED  BY <1>4, <1>6, <2>1, <2>2 DEF LoadsAfterLookup, BeforeLookup
<1>8. CASE InsertRepository(s)
  <2>1. /\ pc[s] = "insert_repository" /\ pc'[s] = "select_working_copy"
        /\ tx' = tx \/ tx' = [tx EXCEPT ![s] = [tx[s] EXCEPT !.newRepo = TRUE, !.wrote = TRUE]]
    BY <1>1, <1>8 DEF InsertRepository
  <2>2. tx'[s].loaded = tx[s].loaded /\ tx'[s].attempt = tx[s].attempt
    BY <1>1, <2>1 DEF Tx
  <2>3. pc[s] \in Active /\ pc'[s] \in Active /\ Ahead[pc'[s]] < Ahead[pc[s]]
    BY <2>1 DEF Ahead, Active, Writing, Reading
  <2> QED  BY <1>4, <1>6, <2>1, <2>2, <2>3 DEF LoadsAfterLookup, BeforeLookup
<1>9. CASE InsertWorkingCopy(s)
  <2>1. /\ pc[s] = "insert_working_copy" /\ pc'[s] = "select_run"
        /\ \/ tx' = [tx EXCEPT ![s] = NewTx(tx[s].attempt, tx[s].overlap)]
           \/ tx' = [tx EXCEPT ![s] = [tx[s] EXCEPT !.newCopy = TRUE, !.wrote = TRUE]]
    BY <1>1, <1>9 DEF InsertWorkingCopy
  <2>2. tx[s].loaded = {}
    BY <2>1 DEF LoadsAfterLookup, BeforeLookup
  <2>3. tx'[s].loaded = tx[s].loaded /\ tx'[s].attempt = tx[s].attempt
    <3>1. CASE tx' = [tx EXCEPT ![s] = NewTx(tx[s].attempt, tx[s].overlap)]
      BY <1>1, <2>2, <3>1 DEF NewTx
    <3>2. CASE tx' = [tx EXCEPT ![s] = [tx[s] EXCEPT !.newCopy = TRUE, !.wrote = TRUE]]
      BY <1>1, <3>2 DEF Tx
    <3> QED  BY <2>1, <3>1, <3>2
  <2>4. pc[s] \in Active /\ pc'[s] \in Active /\ Ahead[pc'[s]] < Ahead[pc[s]]
    BY <2>1 DEF Ahead, Active, Writing, Reading
  <2> QED  BY <1>4, <1>6, <2>2, <2>3, <2>4
<1>10. CASE SelectRun(s)
  <2>1. tx' = tx \/ \E q \in runs : tx' = [tx EXCEPT ![s].found = q.id]
    BY <1>10 DEF SelectRun
  <2>2. tx'[s].loaded = tx[s].loaded /\ tx'[s].attempt = tx[s].attempt
    BY <1>1, <2>1 DEF Tx
  <2>3. pc[s] = "select_run" /\ pc'[s] \in {"insert_run", "load_children"}
    BY <1>1, <1>10 DEF SelectRun
  <2>4. pc[s] \in Active /\ pc'[s] \in Active /\ Ahead[pc'[s]] < Ahead[pc[s]]
    BY <2>3 DEF Ahead, Active, Writing, Reading
  <2> QED  BY <1>4, <1>6, <2>2, <2>3, <2>4 DEF BeforeLookup
<1>11. CASE \E t \in Tables : LoadChildren(s, t)
  <2>1. PICK t \in Tables : LoadChildren(s, t)
    BY <1>11
  <2>2. /\ pc[s] = "load_children" /\ pc'[s] \in {"load_children", "delete_run"}
        /\ t \notin tx[s].loaded
    BY <1>1, <2>1 DEF LoadChildren
  <2>3. tx'[s].loaded = tx[s].loaded \union {t} /\ tx'[s].attempt = tx[s].attempt
    BY <1>1, <2>1 DEF LoadChildren, Tx
  <2>4. left(tx'[s]) = left(tx[s]) - 1 /\ again(tx'[s]) = again(tx[s])
    BY <2>2, <2>3, TablesLeft DEF left, again
  <2>5. /\ pc[s] \in Active /\ pc'[s] \in Active
        /\ Ahead[pc'[s]] \in Nat /\ Ahead[pc[s]] \in Nat /\ Ahead[pc'[s]] <= Ahead[pc[s]]
    BY <2>2 DEF Ahead, Active, Writing, Reading
  <2>6. StatementsLeft(s)' < StatementsLeft(s)
    BY <1>2, <1>3, <2>4, <2>5
  <2> QED  BY <2>2, <2>6 DEF BeforeLookup
<1>12. CASE DeleteRun(s) \/ InsertRun(s) \/ Commit(s)
  <2>1. \/ pc[s] = "delete_run" /\ pc'[s] = "insert_run"
        \/ pc[s] = "insert_run" /\ pc'[s] = "commit"
        \/ pc[s] = "commit" /\ pc'[s] = "refresh"
    BY <1>1, <1>12 DEF DeleteRun, InsertRun, Commit
  <2>2. tx'[s].loaded = tx[s].loaded /\ tx'[s].attempt = tx[s].attempt
    <3>1. CASE DeleteRun(s)
      BY <1>1, <3>1 DEF DeleteRun, Tx
    <3>2. CASE InsertRun(s)
      BY <1>1, <3>2 DEF InsertRun, Tx
    <3>3. CASE Commit(s)
      BY <1>1, <3>3 DEF Commit, Tx
    <3> QED  BY <1>12, <3>1, <3>2, <3>3
  <2>3. pc[s] \in Active /\ pc'[s] \in Active /\ Ahead[pc'[s]] < Ahead[pc[s]]
    BY <2>1 DEF Ahead, Active, Writing, Reading
  <2> QED  BY <1>4, <1>6, <2>1, <2>2, <2>3 DEF BeforeLookup
<1>13. CASE RefuseRun(s) /\ tx[s].attempt < MaxSaveAttempts
  <2>1. /\ pc[s] = "insert_run" /\ pc'[s] = "select_repository"
        /\ tx' = [tx EXCEPT ![s] = NewTx(tx[s].attempt + 1, tx[s].overlap)]
    BY <1>1, <1>13 DEF RefuseRun
  <2>2. tx'[s].loaded = {} /\ tx'[s].attempt = tx[s].attempt + 1
    BY <1>1, <2>1 DEF NewTx
  <2>3. left(tx'[s]) = n /\ again(tx'[s]) = 0 /\ again(tx[s]) = 10 + n
    BY <1>1, <1>13, <2>2, TablesLeft DEF left, again, n, MaxSaveAttempts
  <2>4. pc[s] \in Active /\ pc'[s] \in Active /\ Ahead[pc'[s]] = 10 /\ Ahead[pc[s]] = 3
    BY <2>1 DEF Ahead, Active, Writing, Reading
  <2>5. StatementsLeft(s)' < StatementsLeft(s)
    BY <1>2, <1>3, <2>3, <2>4
  <2> QED  BY <2>2, <2>5
<1>14. CASE \/ RefuseRun(s) /\ ~(tx[s].attempt < MaxSaveAttempts)
            \/ Refresh(s)
  <2>1. pc[s] \in Active /\ pc'[s] \in Ended
    BY <1>1, <1>14 DEF RefuseRun, Refresh, Active, Writing, Ended
  <2> QED  BY <1>5, <2>1 DEF BeforeLookup, Ended
<1> QED
  BY <1>7, <1>8, <1>9, <1>10, <1>11, <1>12, <1>13, <1>14 DEF Step

\* What others do leaves the call of s where it is.
LEMMA OthersStatements ==
    ASSUME TypeOK, NEW o \in Savers, Does(o), NEW s \in Others(o)
    PROVE  pc'[s] = pc[s] /\ tx'[s].loaded = tx[s].loaded /\ tx'[s].attempt = tx[s].attempt
<1>1. /\ s \in Savers /\ s # o /\ tx[s] \in Tx /\ pc'[s] = pc[s]
      /\ ~Commit(o) => tx'[s] = tx[s]
  BY OthersUntouched DEF Others, TypeOK
<1>2. CASE Commit(o)
  BY <1>1, <1>2 DEF Commit, Tx
<1> QED  BY <1>1, <1>2

LEMMA StatementsRunOut ==
    ASSUME IsFiniteSet(Tables), TypeOK, TypeOK', LoadsAfterLookup, [Next]_vars
    PROVE  ComesToAnEnd /\ LoadsAfterLookup'
<1>1. ASSUME NEW s \in Savers
      PROVE  StatementsLeft(s) \in Nat
  <2>1. pc[s] \in Active \union Ended
    BY DEF TypeOK
  <2>2. pc[s] \in Active => Ahead[pc[s]] \in Nat
    BY DEF Ahead, Active, Writing, Reading
  <2>3. Cardinality(Tables \ tx[s].loaded) \in Nat /\ Cardinality(Tables) \in Nat
    BY TablesLeft
  <2> QED  BY <2>1, <2>2, <2>3 DEF StatementsLeft
<1>2. ASSUME NEW s \in Savers
      PROVE  StatementsLeft(s)' \in Nat
  <2>1. pc'[s] \in Active \union Ended
    BY DEF TypeOK
  <2>2. pc'[s] \in Active => Ahead[pc'[s]] \in Nat
    BY DEF Ahead, Active, Writing, Reading
  <2>3. Cardinality(Tables \ tx'[s].loaded) \in Nat /\ Cardinality(Tables) \in Nat
    BY TablesLeft
  <2> QED  BY <2>1, <2>2, <2>3 DEF StatementsLeft
<1>3. ASSUME NEW s \in Savers, pc'[s] = pc[s], tx'[s].loaded = tx[s].loaded,
             tx'[s].attempt = tx[s].attempt
      PROVE  /\ StatementsLeft(s)' <= StatementsLeft(s)
             /\ BeforeLookup(s)' => tx'[s].loaded = {}
  <2>1. StatementsLeft(s)' = StatementsLeft(s)
    BY <1>3 DEF StatementsLeft
  <2> QED  BY <1>1, <1>3, <2>1 DEF LoadsAfterLookup, BeforeLookup
<1>4. ASSUME NEW s \in Savers, Does(s)
      PROVE  /\ pc[s] \in Active => StatementsLeft(s)' <= StatementsLeft(s)
             /\ BeforeLookup(s)' => tx'[s].loaded = {}
  <2>1. CASE Step(s)
    <3>1. StatementsLeft(s)' \in Nat
      BY <1>2
    <3> QED  BY <1>1, <2>1, <3>1, OwnStatements
  <2>2. CASE Begin(s)
    <3>1. tx'[s] = NewTx(1, 0) /\ pc[s] \in Ended
      BY <2>2 DEF Begin, TypeOK
    <3>2. pc[s] \notin Active
      BY <3>1 DEF Ended, Active, Writing, Reading
    <3> QED  BY <3>1, <3>2 DEF NewTx
  <2>3. CASE BusyTimeout(s) \/ Crash(s)
    <3>1. pc'[s] \in {"locked", "crashed"}
      BY <2>3 DEF BusyTimeout, Crash, TypeOK
    <3>2. StatementsLeft(s)' = 0 /\ ~BeforeLookup(s)'
      BY <3>1 DEF StatementsLeft, Ended, BeforeLookup
    <3> QED  BY <1>1, <3>2
  <2> QED  BY <1>4, <2>1, <2>2, <2>3 DEF Does
<1>5. ASSUME NEW s \in Savers
      PROVE  /\ pc[s] \in Active => StatementsLeft(s)' <= StatementsLeft(s)
             /\ BeforeLookup(s)' => tx'[s].loaded = {}
  <2>1. CASE Does(s)
    BY <1>4, <2>1
  <2>2. CASE \E o \in Savers \ {s} : Does(o)
    BY <1>3, <2>2, OthersStatements DEF Others
  <2>3. CASE UNCHANGED vars
    BY <1>3, <2>3 DEF vars
  <2> QED  BY <2>1, <2>2, <2>3 DEF Next, Does, Finished
<1> QED  BY <1>5, OwnStatements DEF ComesToAnEnd, LoadsAfterLookup

\* No call of save goes on forever: each of its statements leaves it fewer to execute,
\* whatever its rivals do, since it begins anew only once (store.py:118-182).
THEOREM SaveIsBounded ==
    ASSUME IsFiniteSet(Tables)
    PROVE  Spec => [][ComesToAnEnd]_vars
<1>1. Init => LoadsAfterLookup
  BY DEF Init, LoadsAfterLookup, NewTx
<1>2. TypeOK /\ TypeOK' /\ LoadsAfterLookup /\ [Next]_vars => LoadsAfterLookup' /\ ComesToAnEnd
  BY StatementsRunOut
<1> QED  BY <1>1, <1>2, TypeCorrect, PTL DEF Spec

-----------------------------------------------------------------------------
(* The rows of a save.                                                     *)

\* The n rows of one table that one save writes.
RowsFrom(a, n, x, y) == [id: a..(a + n - 1), run: {x}, from: {y}]

\* As many rows as ids.
LEMMA RowsCounted ==
    ASSUME NEW a \in Int, NEW n \in Nat, NEW x, NEW y
    PROVE  Cardinality(RowsFrom(a, n, x, y)) = n
<1> DEFINE ids == a..(a + n - 1)
           new == [id: ids, run: {x}, from: {y}]
           f == [i \in ids |-> [id |-> i, run |-> x, from |-> y]]
<1>1. IsFiniteSet(ids) /\ Cardinality(ids) = n
  BY FS_Interval
<1> HIDE DEF ids
<1>2. f \in [ids -> new]
  OBVIOUS
<1>3. \A i, j \in ids : f[i] = f[j] => i = j
  OBVIOUS
<1>4. \A r \in new : \E i \in ids : f[i] = r
  OBVIOUS
<1>5. f \in Bijection(ids, new)
  BY <1>2, <1>3, <1>4 DEF Bijection, Injection, Surjection, IsInjective
<1>6. ExistsBijection(ids, new)
  BY <1>5 DEF ExistsBijection
<1>7. Cardinality(new) = n
  BY <1>1, <1>6, FS_Bijection
<1> QED  BY <1>7 DEF ids, RowsFrom

\* The rows of t that a commit of s adds.
NewRows(s, t) ==
    LET first == FreshId({r \in rows[t] : r.id \notin tx[s].kids[t]})
    IN  RowsFrom(first, req[s].size, tx[s].runId, InfoOf(req[s]))

LEMMA RowsAfterCommit ==
    ASSUME TypeOK, NEW s \in Savers, NEW t \in Tables, Commit(s)
    PROVE  /\ rows'[t] = {r \in rows[t] : r.id \notin tx[s].kids[t]} \union NewRows(s, t)
           /\ \A r \in NewRows(s, t) : r.run = tx[s].runId /\ r.from = InfoOf(req[s])
           /\ NewRun(s).id = tx[s].runId /\ InfoOf(NewRun(s)) = InfoOf(req[s])
           /\ NewRun(s).size = req[s].size
<1>1. rows'[t] = {r \in rows[t] : r.id \notin tx[s].kids[t]} \union NewRows(s, t)
  BY DEF Commit, RowsAfter, NewRows, RowsFrom
<1>2. \A r \in NewRows(s, t) : r.run = tx[s].runId /\ r.from = InfoOf(req[s])
  BY DEF NewRows, RowsFrom
<1> QED  BY <1>1, <1>2 DEF NewRun, InfoOf

-----------------------------------------------------------------------------
(* postgresql: the rows a save has loaded are the rows of the run it found. *)

KidsKnown(x) ==
    /\ PastLookup(x) => \A t \in Tables :
          /\ \A k \in tx[x].kids[t] : k <= seq
          /\ \A r \in rows[t] : r.id \in tx[x].kids[t] => r.run = tx[x].found
          /\ t \in tx[x].loaded \/ pc[x] # "load_children" =>
                \A r \in rows[t] : r.run = tx[x].found => r.id \in tx[x].kids[t]
    /\ BeforeLookup(x) => tx[x].loaded = {} /\ \A t \in Tables : tx[x].kids[t] = {}

RowsInv ==
    Backend = "postgresql" =>
        /\ RunIntact
        /\ \A t \in Tables : \A r \in rows[t] : r.id <= seq
        /\ \A t \in Tables : \A r, p \in rows[t] : r.id = p.id => r = p
        /\ \A x \in Savers : KidsKnown(x)

LEMMA OthersKids ==
    ASSUME TypeOK, NEW s \in Savers, Does(s), NEW o \in Others(s)
    PROVE  tx'[o].kids = tx[o].kids /\ tx'[o].loaded = tx[o].loaded
<1>1. o \in Savers /\ o # s /\ tx[o] \in Tx
  BY DEF Others, TypeOK
<1>2. CASE Commit(s)
  <2>1. tx'[o] = tx[o] \/ tx'[o] = [tx[o] EXCEPT !.overlap = @ + 1]
    BY <1>1, <1>2 DEF Commit
  <2> QED  BY <1>1, <2>1 DEF Tx
<1>3. CASE ~Commit(s)
  BY <1>3, OthersUntouched
<1> QED  BY <1>2, <1>3

LEMMA SeqGrows ==
    ASSUME IInv, Backend = "postgresql", NEW s \in Savers, Does(s)
    PROVE  seq \in Nat /\ seq' \in Nat /\ seq <= seq'
<1> USE DEF IInv
<1>1. CASE Commit(s)
  <2>1. req[s].size \in Nat /\ seq' = seq + req[s].size /\ seq \in Nat
    BY <1>1, StoreAssumption DEF Commit, TypeOK, Request
  <2> QED  BY <2>1
<1>2. CASE InsertRun(s)
  BY <1>2 DEF InsertRun, FreshId, TypeOK
<1>3. CASE ~Commit(s) /\ ~InsertRun(s)
  BY <1>3, OnlyCommitWrites DEF TypeOK
<1> QED  BY <1>1, <1>2, <1>3

\* At its commit s deletes exactly the rows of the run it found, and adds rows with new ids.
LEMMA RowsReplaced ==
    ASSUME IInv, RowsInv, Backend = "postgresql", NEW s \in Savers, NEW t \in Tables, Commit(s)
    PROVE  /\ rows'[t] = {r \in rows[t] : r.run # tx[s].found} \union NewRows(s, t)
           /\ \A r \in rows[t] : r.run # tx[s].runId
           /\ \A r \in NewRows(s, t) : seq < r.id /\ r.id <= seq'
           /\ \A r, p \in NewRows(s, t) : r.id = p.id => r = p
           /\ Cardinality(NewRows(s, t)) = req[s].size
<1> USE DEF IInv
<1>1. pc[s] = "commit" /\ PastLookup(s)
  BY DEF Commit, PastLookup
<1>2. \A r \in rows[t] : r.id \in tx[s].kids[t] <=> r.run = tx[s].found
  BY <1>1 DEF RowsInv, KidsKnown
<1>3. \A r \in rows[t] : r.run # tx[s].runId
  <2>1. \A r \in rows[t] : \E q \in runs : r.run = q.id
    BY DEF RowsInv, RunIntact
  <2>2. \A q \in runs : q.id # tx[s].runId
    BY <1>1 DEF PostgresqlIds
  <2> QED  BY <2>1, <2>2
<1>4. seq \in Nat /\ req[s].size \in Nat /\ seq' = seq + req[s].size
  BY StoreAssumption DEF Commit, TypeOK, Request
<1>5. NewRows(s, t) = RowsFrom(seq + 1, req[s].size, tx[s].runId, InfoOf(req[s]))
  BY DEF NewRows, FreshId
<1>6. Cardinality(NewRows(s, t)) = req[s].size
  BY <1>4, <1>5, RowsCounted
<1>7. \A r \in NewRows(s, t) : seq < r.id /\ r.id <= seq'
  BY <1>4, <1>5 DEF RowsFrom
<1>8. \A r, p \in NewRows(s, t) : r.id = p.id => r = p
  <2> DEFINE ids == (seq + 1)..(seq + 1 + req[s].size - 1)
             x == tx[s].runId
             y == InfoOf(req[s])
  <2>1. NewRows(s, t) = [id: ids, run: {x}, from: {y}]
    BY <1>5 DEF RowsFrom
  <2> HIDE DEF ids, x, y
  <2>2. \A r \in NewRows(s, t) : r = [id |-> r.id, run |-> x, from |-> y]
    BY <2>1
  <2> QED  BY <2>2
<1> QED  BY <1>2, <1>3, <1>6, <1>7, <1>8, RowsAfterCommit

LEMMA RunIntactStep ==
    ASSUME IInv, RowsInv, Backend = "postgresql", NEW s \in Savers, Commit(s)
    PROVE  RunIntact'
<1> USE DEF IInv
<1>1. /\ runs' = RunsSeenBy(s) \union {NewRun(s)} /\ NewRun(s).id = tx[s].runId
      /\ \A q \in runs : q \in RunsSeenBy(s) <=> q.id # tx[s].found
      /\ RunsSeenBy(s) \subseteq runs /\ pc[s] = "commit"
  BY CommitRuns
<1>2. \A q \in runs : q.id # tx[s].runId
  BY <1>1 DEF PostgresqlIds
<1>3. ASSUME NEW t \in Tables
      PROVE  /\ \A r \in rows'[t] : \E q \in runs' : r.run = q.id /\ r.from = InfoOf(q)
             /\ \A q \in runs' : Cardinality({r \in rows'[t] : r.run = q.id}) = q.size
  <2> DEFINE new == NewRows(s, t)
  <2>1. /\ rows'[t] = {r \in rows[t] : r.run # tx[s].found} \union new
        /\ \A r \in rows[t] : r.run # tx[s].runId
        /\ Cardinality(new) = req[s].size
    BY <1>3, RowsReplaced
  <2>2. \A r \in new : r.run = tx[s].runId /\ r.from = InfoOf(req[s])
    BY <1>3, RowsAfterCommit
  <2>3. /\ \A r \in rows[t] : \E q \in runs : r.run = q.id /\ r.from = InfoOf(q)
        /\ \A q \in runs : Cardinality({r \in rows[t] : r.run = q.id}) = q.size
    BY <1>3 DEF RowsInv, RunIntact
  <2>4. InfoOf(NewRun(s)) = InfoOf(req[s]) /\ NewRun(s).size = req[s].size
    BY <1>3, RowsAfterCommit
  <2> HIDE DEF new
  <2>5. ASSUME NEW r \in rows'[t]
        PROVE  \E q \in runs' : r.run = q.id /\ r.from = InfoOf(q)
    <3>1. CASE r \in new
      BY <1>1, <2>2, <2>4, <3>1
    <3>2. CASE r \in rows[t] /\ r.run # tx[s].found
      <4>1. PICK q \in runs : r.run = q.id /\ r.from = InfoOf(q)
        BY <2>3, <3>2
      <4>2. q \in runs'
        BY <1>1, <3>2, <4>1
      <4> QED  BY <4>1, <4>2
    <3> QED  BY <2>1, <3>1, <3>2
  <2>6. ASSUME NEW q \in runs'
        PROVE  Cardinality({r \in rows'[t] : r.run = q.id}) = q.size
    <3>1. CASE q = NewRun(s)
      <4>1. {r \in rows'[t] : r.run = q.id} = new
        BY <1>1, <2>1, <2>2, <3>1
      <4> QED  BY <2>1, <2>4, <3>1, <4>1
    <3>2. CASE q \in runs /\ q.id # tx[s].found
      <4>1. {r \in rows'[t] : r.run = q.id} = {r \in rows[t] : r.run = q.id}
        BY <1>2, <2>1, <2>2, <3>2
      <4> QED  BY <2>3, <3>2, <4>1
    <3> QED  BY <1>1, <3>1, <3>2
  <2> QED  BY <2>5, <2>6
<1>4. \A q : InfoOf(q)' = InfoOf(q)
  BY DEF InfoOf
<1> QED  BY <1>3 DEF RunIntact, InfoOf

\* What s knows of the rows of the run it found, after a step of its own.
LEMMA OwnKids ==
    ASSUME IInv, RowsInv, Backend = "postgresql", NEW s \in Savers, Does(s)
    PROVE  KidsKnown(s)'
<1> USE DEF IInv
<1>1. tx[s] \in Tx /\ tx \in [Savers -> Tx] /\ pc \in [Savers -> Active \union Ended]
      /\ \A t \in Tables : tx[s].kids[t] \in SUBSET Nat
  BY DEF TypeOK, Tx
<1>2. seq \in Nat /\ seq' \in Nat /\ seq <= seq'
  BY SeqGrows
<1>3. /\ \A t \in Tables : \A r \in rows[t] : r.id <= seq /\ r.id \in Nat
      /\ KidsKnown(s)
  BY DEF RowsInv, TypeOK, Row
<1>4. CASE Begin(s) \/ RefuseRun(s) \/ BusyTimeout(s) \/ Crash(s)
  <2>1. \E n, v : tx' = [tx EXCEPT ![s] = NewTx(n, v)]
    BY <1>4 DEF Begin, RefuseRun, BusyTimeout, Crash
  <2>2. tx'[s].loaded = {} /\ \A t \in Tables : tx'[s].kids[t] = {}
    BY <1>1, <2>1 DEF NewTx
  <2>3. pc'[s] \in {"select_repository", "integrity_error", "locked", "crashed"}
    BY <1>1, <1>4 DEF Begin, RefuseRun, BusyTimeout, Crash
  <2> QED  BY <2>2, <2>3 DEF KidsKnown, PastLookup, BeforeLookup
<1>5. CASE SelectRepository(s) \/ SelectWorkingCopy(s) \/ Refresh(s) \/ Commit(s)
  <2>1. ~PastLookup(s)' /\ (BeforeLookup(s)' => BeforeLookup(s) /\ tx'[s] = tx[s])
    BY <1>1, <1>5 DEF SelectRepository, SelectWorkingCopy, Refresh, Commit, PastLookup, BeforeLookup
  <2> QED  BY <1>3, <2>1 DEF KidsKnown
<1>6. CASE InsertRepository(s)
  <2>1. pc[s] = "insert_repository" /\ pc'[s] = "select_working_copy"
        /\ tx'[s].loaded = tx[s].loaded /\ tx'[s].kids = tx[s].kids
    BY <1>1, <1>6 DEF InsertRepository, Tx
  <2> QED  BY <1>3, <2>1 DEF KidsKnown, PastLookup, BeforeLookup
<1>7. CASE InsertWorkingCopy(s)
  <2>1. pc[s] = "insert_working_copy" /\ pc'[s] = "select_run"
    BY <1>1, <1>7 DEF InsertWorkingCopy
  <2>2. \/ tx' = [tx EXCEPT ![s] = NewTx(tx[s].attempt, tx[s].overlap)]
        \/ tx' = [tx EXCEPT ![s] = [tx[s] EXCEPT !.newCopy = TRUE, !.wrote = TRUE]]
    BY <1>1, <1>7 DEF InsertWorkingCopy
  <2>3. NewTx(tx[s].attempt, tx[s].overlap).loaded = {}
        /\ \A t \in Tables : NewTx(tx[s].attempt, tx[s].overlap).kids[t] = {}
    BY DEF NewTx
  <2>4. [tx[s] EXCEPT !.newCopy = TRUE, !.wrote = TRUE].loaded = tx[s].loaded
        /\ [tx[s] EXCEPT !.newCopy = TRUE, !.wrote = TRUE].kids = tx[s].kids
    BY <1>1 DEF Tx
  <2>5. tx[s].loaded = {} /\ \A t \in Tables : tx[s].kids[t] = {}
    BY <1>3, <2>1 DEF KidsKnown, BeforeLookup
  <2>6. tx'[s].loaded = {} /\ \A t \in Tables : tx'[s].kids[t] = {}
    BY <1>1, <2>2, <2>3, <2>4, <2>5
  <2> QED  BY <2>1, <2>6 DEF KidsKnown, PastLookup, BeforeLookup
<1>8. CASE SelectRun(s)
  <2>1. pc[s] = "select_run" /\ rows' = rows /\ pc'[s] \in {"insert_run", "load_children"}
    BY <1>1, <1>8 DEF SelectRun, tables
  <2>2. tx[s].loaded = {} /\ (\A t \in Tables : tx[s].kids[t] = {}) /\ tx[s].found = 0
    BY <1>3, <2>1 DEF KidsKnown, BeforeLookup, KeysUnique
  <2>3. tx'[s].loaded = tx[s].loaded /\ tx'[s].kids = tx[s].kids
        /\ (pc'[s] = "insert_run" => tx'[s].found = 0)
    BY <1>1, <1>8, <2>2 DEF SelectRun, Tx
  <2>4. \A t \in Tables : \A r \in rows[t] : r.run # 0
    BY DEF RowsInv, RunIntact, IdsBounded
  <2> QED  BY <2>1, <2>2, <2>3, <2>4 DEF KidsKnown, PastLookup, BeforeLookup
<1>9. ASSUME NEW t \in Tables, LoadChildren(s, t)
      PROVE  KidsKnown(s)'
  <2> DEFINE K == Ids({r \in rows[t] : r.run = tx[s].found})
  <2>1. /\ pc[s] = "load_children" /\ rows' = rows /\ seq' = seq
        /\ pc'[s] = IF tx[s].loaded \union {t} = Tables THEN "delete_run" ELSE pc[s]
    BY <1>1, <1>9 DEF LoadChildren, tables
  <2>2. tx' = [tx EXCEPT ![s] = [tx[s] EXCEPT !.kids[t] = K, !.loaded = @ \union {t}]]
    <3>1. tx' = [tx EXCEPT ![s].kids[t] = K, ![s].loaded = @ \union {t}]
      BY <1>9 DEF LoadChildren
    <3> HIDE DEF K
    <3> QED  BY <1>1, <3>1
  <2>3. /\ tx'[s].found = tx[s].found /\ tx'[s].loaded = tx[s].loaded \union {t}
        /\ tx'[s].kids[t] = K /\ \A o \in Tables \ {t} : tx'[s].kids[o] = tx[s].kids[o]
    <3> HIDE DEF K
    <3> QED  BY <1>1, <2>2 DEF Tx
  <2>4. \A k \in K : k <= seq
    BY <1>3 DEF Ids
  <2>5. \A r \in rows[t] : r.run = tx[s].found => r.id \in K
    BY DEF Ids
  <2>6. \A r \in rows[t] : r.id \in K => r.run = tx[s].found
    <3> SUFFICES ASSUME NEW r \in rows[t], r.id \in K
                 PROVE  r.run = tx[s].found
      OBVIOUS
    <3>1. PICK p \in rows[t] : p.run = tx[s].found /\ p.id = r.id
      BY DEF Ids
    <3>2. p = r
      BY <3>1 DEF RowsInv
    <3> QED  BY <3>1, <3>2
  <2> HIDE DEF K
  <2>7. PastLookup(s) /\ ~BeforeLookup(s)'
    BY <2>1 DEF PastLookup, BeforeLookup
  <2>8. \A o \in Tables : o \in tx'[s].loaded \/ pc'[s] # "load_children" =>
            o = t \/ o \in tx[s].loaded
    BY <2>1, <2>3
  <2> QED  BY <1>3, <2>1, <2>3, <2>4, <2>5, <2>6, <2>7, <2>8 DEF KidsKnown
<1>10. CASE DeleteRun(s) \/ InsertRun(s)
  <2>1. /\ pc[s] \in {"delete_run", "insert_run"} /\ pc'[s] \in {"insert_run", "commit"}
        /\ rows' = rows /\ tx'[s].found = tx[s].found
        /\ tx'[s].loaded = tx[s].loaded /\ tx'[s].kids = tx[s].kids
    BY <1>1, <1>10 DEF DeleteRun, InsertRun, tables, Tx
  <2>2. PastLookup(s) /\ ~BeforeLookup(s)' /\ pc[s] # "load_children"
    BY <2>1 DEF PastLookup, BeforeLookup
  <2>3. \A t \in Tables :
          /\ \A k \in tx[s].kids[t] : k <= seq'
          /\ \A r \in rows[t] : r.id \in tx[s].kids[t] => r.run = tx[s].found
          /\ \A r \in rows[t] : r.run = tx[s].found => r.id \in tx[s].kids[t]
    BY <1>1, <1>2, <1>3, <2>2 DEF KidsKnown
  <2> QED  BY <2>1, <2>2, <2>3 DEF KidsKnown
<1> QED
  BY <1>4, <1>5, <1>6, <1>7, <1>8, <1>9, <1>10 DEF Does, Step

\* What another process knows of the rows of the run it found, after a step of s.
LEMMA OthersKidsKnown ==
    ASSUME IInv, RowsInv, Backend = "postgresql", NEW s \in Savers, Does(s), NEW o \in Others(s)
    PROVE  KidsKnown(o)'
<1> USE DEF IInv
<1>1. /\ o \in Savers /\ pc'[o] = pc[o] /\ tx'[o].found = tx[o].found
      /\ tx'[o].kids = tx[o].kids /\ tx'[o].loaded = tx[o].loaded
  BY OthersUntouched, OthersKids DEF Others
<1>2. seq \in Nat /\ seq' \in Nat /\ seq <= seq'
      /\ \A t \in Tables : tx[o].kids[t] \in SUBSET Nat
  BY <1>1, SeqGrows DEF TypeOK, Tx
<1>3. PastLookup(o)' = PastLookup(o) /\ BeforeLookup(o)' = BeforeLookup(o)
  BY <1>1 DEF PastLookup, BeforeLookup
<1>4. KidsKnown(o)
  BY <1>1 DEF RowsInv
<1>5. ASSUME PastLookup(o), NEW t \in Tables, NEW r \in rows'[t]
      PROVE  r \in rows[t] \/ (r.id \notin tx[o].kids[t] /\ r.run # tx[o].found)
  <2>1. CASE ~Commit(s)
    BY <1>5, <2>1, OnlyCommitWrites
  <2>2. CASE Commit(s)
    <3>1. pc[s] = "commit"
      BY <2>2 DEF Commit
    <3>2. tx[o].found # tx[s].runId
      BY <1>1, <1>5, <3>1 DEF PostgresqlIds
    <3>3. r \in rows[t] \/ (r \in NewRows(s, t) /\ seq < r.id)
      BY <1>5, <2>2, RowsReplaced
    <3>4. r \in NewRows(s, t) => r.run = tx[s].runId
      BY <1>5, <2>2, RowsAfterCommit
    <3>5. \A k \in tx[o].kids[t] : k <= seq /\ k \in Nat
      BY <1>2, <1>4, <1>5 DEF KidsKnown
    <3>6. CASE r \in rows[t]
      BY <3>6
    <3>7. CASE r \in NewRows(s, t) /\ seq < r.id
      <4>1. r.id \notin tx[o].kids[t]
        BY <1>2, <3>5, <3>7
      <4> QED  BY <3>2, <3>4, <3>7, <4>1
    <3> QED  BY <3>3, <3>6, <3>7
  <2> QED  BY <2>1, <2>2
<1>6. ASSUME PastLookup(o), NEW t \in Tables
      PROVE  /\ \A k \in tx[o].kids[t] : k <= seq'
             /\ \A r \in rows'[t] : r.id \in tx[o].kids[t] => r.run = tx[o].found
             /\ t \in tx[o].loaded \/ pc[o] # "load_children" =>
                  \A r \in rows'[t] : r.run = tx[o].found => r.id \in tx[o].kids[t]
  <2>1. /\ \A k \in tx[o].kids[t] : k <= seq /\ k \in Nat
        /\ \A r \in rows[t] : r.id \in tx[o].kids[t] => r.run = tx[o].found
        /\ t \in tx[o].loaded \/ pc[o] # "load_children" =>
             \A r \in rows[t] : r.run = tx[o].found => r.id \in tx[o].kids[t]
    BY <1>2, <1>4, <1>6 DEF KidsKnown
  <2>2. \A k \in tx[o].kids[t] : k <= seq'
    BY <1>2, <2>1
  <2> QED  BY <1>5, <1>6, <2>1, <2>2
<1> QED  BY <1>1, <1>3, <1>4, <1>6 DEF KidsKnown

LEMMA RowsInvStep == IInv /\ RowsInv /\ [Next]_vars => RowsInv'
<1> SUFFICES ASSUME IInv, RowsInv, [Next]_vars, Backend = "postgresql"
             PROVE  /\ RunIntact'
                    /\ \A t \in Tables : \A r \in rows'[t] : r.id <= seq'
                    /\ \A t \in Tables : \A r, p \in rows'[t] : r.id = p.id => r = p
                    /\ \A x \in Savers : KidsKnown(x)'
  BY DEF RowsInv
<1>1. ASSUME NEW s \in Savers, Does(s)
      PROVE  /\ RunIntact'
             /\ \A t \in Tables : \A r \in rows'[t] : r.id <= seq'
             /\ \A t \in Tables : \A r, p \in rows'[t] : r.id = p.id => r = p
             /\ \A x \in Savers : KidsKnown(x)'
  <2>1. RunIntact'
    <3>1. CASE ~Commit(s)
      BY <1>1, <3>1, OnlyCommitWrites DEF RowsInv, RunIntact, InfoOf
    <3> QED  BY <1>1, <3>1, RunIntactStep
  <2>2. ASSUME NEW t \in Tables, NEW r \in rows'[t]
        PROVE  r.id <= seq'
    <3>1. seq \in Nat /\ seq' \in Nat /\ seq <= seq'
      BY <1>1, SeqGrows
    <3>2. \A x \in rows[t] : x.id <= seq /\ x.id \in Nat
      BY DEF RowsInv, IInv, TypeOK, Row
    <3>3. r \in rows[t] \/ r.id <= seq'
      <4>1. CASE Commit(s)
        BY <2>2, <4>1, RowsReplaced
      <4> QED  BY <1>1, <2>2, <4>1, OnlyCommitWrites
    <3> QED  BY <3>1, <3>2, <3>3
  <2>3. \A x \in Savers : KidsKnown(x)'
    BY <1>1, OwnKids, OthersKidsKnown DEF Others
  <2>4. ASSUME NEW t \in Tables, NEW r \in rows'[t], NEW p \in rows'[t], r.id = p.id
        PROVE  r = p
    <3>1. /\ seq \in Nat /\ \A x \in rows[t] : x.id <= seq /\ x.id \in Nat
          /\ \A x, y \in rows[t] : x.id = y.id => x = y
      BY DEF RowsInv, IInv, TypeOK, Row
    <3>2. CASE Commit(s)
      <4>1. /\ \A x \in {r, p} : x \in rows[t] \/ (x \in NewRows(s, t) /\ seq < x.id)
            /\ \A x, y \in NewRows(s, t) : x.id = y.id => x = y
        BY <2>4, <3>2, RowsReplaced
      <4> QED  BY <2>4, <3>1, <4>1
    <3> QED  BY <1>1, <2>4, <3>1, <3>2, OnlyCommitWrites
  <2> QED  BY <2>1, <2>2, <2>3, <2>4
<1>2. CASE UNCHANGED vars
  <2>1. /\ RunIntact' /\ \A t \in Tables : \A r \in rows'[t] : r.id <= seq'
        /\ \A t \in Tables : \A r, p \in rows'[t] : r.id = p.id => r = p
    BY <1>2 DEF vars, RowsInv, RunIntact, InfoOf
  <2>2. \A x \in Savers : KidsKnown(x)'
    BY <1>2 DEF vars, RowsInv, KidsKnown, PastLookup, BeforeLookup
  <2> QED  BY <2>1, <2>2
<1> QED  BY <1>1, <1>2 DEF Next, Does, Finished

LEMMA InitRows == Init => RowsInv
<1> SUFFICES ASSUME Init
             PROVE  RowsInv
  OBVIOUS
<1>1. runs = {} /\ (\A t \in Tables : rows[t] = {}) /\ \A s \in Savers : pc[s] = "idle"
  BY DEF Init
<1> QED  BY <1>1 DEF RowsInv, RunIntact, KidsKnown, PastLookup, BeforeLookup

-----------------------------------------------------------------------------
(* sqlite: rows left behind.                                               *)

\* Every row's run is, or was, no later than a live one.
SqliteRows ==
    /\ RowsOfOneCommit
    /\ Backend = "sqlite" =>
          \A t \in Tables : \A r \in rows[t] : \E q \in runs : r.run <= q.id

\* On postgresql a row's run is the one whose id it has.
LEMMA RowsOfOneCommitPostgresql ==
    ASSUME IInv, RowsInv, Backend = "postgresql"
    PROVE  RowsOfOneCommit
<1>1. \A p, q \in runs : p.id = q.id => p = q
  BY DEF IInv, KeysUnique
<1>2. \A t \in Tables : \A r \in rows[t] : \E p \in runs : r.run = p.id /\ r.from = InfoOf(p)
  BY DEF RowsInv, RunIntact
<1> QED  BY <1>1, <1>2 DEF RowsOfOneCommit

LEMMA SqliteRowsStep ==
    ASSUME IInv, SqliteRows, Backend = "sqlite", NEW s \in Savers, Commit(s)
    PROVE  SqliteRows'
<1> USE DEF IInv
<1>1. /\ runs' = RunsSeenBy(s) \union {NewRun(s)} /\ NewRun(s).id = tx[s].runId
      /\ \A q \in runs : q \in RunsSeenBy(s) <=> q.id # tx[s].found
      /\ RunsSeenBy(s) \subseteq runs /\ pc[s] = "commit"
      /\ \A x : SameKey(x, NewRun(s)) <=> SameKey(x, req[s])
  BY CommitRuns
<1>2. /\ tx[s].runId \in Nat
      /\ \A q \in RunsSeenBy(s) : q.id < tx[s].runId
      /\ \A q \in runs : q.id <= tx[s].runId /\ q.id \in Nat
  BY <1>1, SqliteNewId DEF TypeOK, Run
<1>3. ASSUME NEW t \in Tables, NEW r \in rows'[t]
      PROVE  /\ \A q \in runs' : r.run = q.id => r.from = InfoOf(q) \/ SameKey(r.from, q)
             /\ \E q \in runs' : r.run <= q.id
  <2>1. CASE r \in NewRows(s, t)
    <3>1. r.run = tx[s].runId /\ r.from = InfoOf(NewRun(s))
      BY <1>3, <2>1, RowsAfterCommit
    <3>2. \A q \in runs' : r.run = q.id => q = NewRun(s)
      BY <1>1, <1>2, <3>1
    <3>3. NewRun(s) \in runs' /\ r.run <= NewRun(s).id
      BY <1>1, <1>2, <3>1
    <3> QED  BY <3>1, <3>2, <3>3
  <2>2. CASE r \in rows[t]
    <3>1. /\ \A q \in runs : r.run = q.id => r.from = InfoOf(q) \/ SameKey(r.from, q)
          /\ \E q \in runs : r.run <= q.id
      BY <1>3, <2>2 DEF SqliteRows, RowsOfOneCommit
    <3>2. PICK p \in runs : r.run <= p.id
      BY <3>1
    <3>3. r.run \in Nat
      BY <1>3, <2>2 DEF TypeOK, Row
    <3>4. r.run <= tx[s].runId
      BY <1>2, <3>2, <3>3
    <3>5. ASSUME r.run = tx[s].runId
          PROVE  SameKey(r.from, NewRun(s))
      <4>1. p.id = tx[s].runId /\ p \notin RunsSeenBy(s)
        BY <1>2, <3>2, <3>3, <3>5
      <4>2. SameKey(p, req[s])
        BY <1>1, <4>1 DEF KeysUnique, FoundIdKeepsItsKey
      <4>3. r.from = InfoOf(p) \/ SameKey(r.from, p)
        BY <3>1, <3>5, <4>1
      <4>4. SameKey(InfoOf(p), req[s])
        BY <4>2 DEF SameKey, InfoOf
      <4> HIDE DEF SameKey
      <4>5. SameKey(r.from, req[s])
        BY <4>2, <4>3, <4>4, SameKeyProperties
      <4> QED  BY <1>1, <4>5
    <3> QED  BY <1>1, <3>1, <3>3, <3>4, <3>5
  <2> QED  BY <1>3, <2>1, <2>2, RowsAfterCommit
<1> QED  BY <1>3 DEF SqliteRows, RowsOfOneCommit, SameKey, InfoOf

LEMMA SqliteRowsInvariant == IInv /\ RowsInv' /\ IInv' /\ SqliteRows /\ [Next]_vars => SqliteRows'
<1> SUFFICES ASSUME IInv, RowsInv', IInv', SqliteRows, [Next]_vars
             PROVE  SqliteRows'
  OBVIOUS
<1>1. CASE Backend = "postgresql"
  <2>1. RowsOfOneCommit'
    <3>1. \A p, q \in runs' : p.id = q.id => p = q
      BY DEF IInv, KeysUnique
    <3>2. \A t \in Tables : \A r \in rows'[t] : \E p \in runs' : r.run = p.id /\ r.from = InfoOf(p)
      BY <1>1 DEF RowsInv, RunIntact, InfoOf
    <3> QED  BY <3>1, <3>2 DEF RowsOfOneCommit, InfoOf
  <2> QED  BY <1>1, <2>1 DEF SqliteRows
<1>2. CASE Backend = "sqlite"
  <2>1. ASSUME NEW s \in Savers, Does(s), ~Commit(s)
        PROVE  SqliteRows'
    BY <2>1, OnlyCommitWrites DEF SqliteRows, RowsOfOneCommit, SameKey, InfoOf
  <2>2. ASSUME NEW s \in Savers, Commit(s)
        PROVE  SqliteRows'
    BY <1>2, <2>2, SqliteRowsStep
  <2>3. CASE UNCHANGED vars
    BY <2>3 DEF vars, SqliteRows, RowsOfOneCommit, SameKey, InfoOf
  <2> QED  BY <2>1, <2>2, <2>3 DEF Next, Does, Finished
<1> QED  BY <1>1, <1>2, StoreAssumption

-----------------------------------------------------------------------------
(* Theorems.                                                               *)

\* What the rows and ids of postgresql keep to, the ids that saves have loaded included.
THEOREM RowsInvariance == Spec => []RowsInv
<1>1. IInv /\ RowsInv /\ [Next]_vars => RowsInv'
  BY RowsInvStep
<1> QED  BY <1>1, InitRows, Invariance, PTL DEF Spec

\* On postgresql every child row belongs to a live run and is one its own save wrote, and
\* every run has all of them, whatever saves overlap (store.py:118-174).
THEOREM RunsStayIntact == Spec => [](Backend = "postgresql" => RunIntact)
<1>1. RowsInv => (Backend = "postgresql" => RunIntact)
  BY DEF RowsInv
<1> QED  BY <1>1, RowsInvariance, PTL

\* On either database, rows a stale delete left behind join only runs of their own
\* repository and commit (store.py:162-171).
THEOREM RowsKeepTheirCommit == Spec => []RowsOfOneCommit
<1>1. Init => SqliteRows
  BY DEF Init, SqliteRows, RowsOfOneCommit
<1>2. IInv /\ IInv' /\ RowsInv' /\ SqliteRows /\ [Next]_vars => SqliteRows'
  BY SqliteRowsInvariant
<1>3. SqliteRows => RowsOfOneCommit
  BY DEF SqliteRows
<1> QED  BY <1>1, <1>2, <1>3, Invariance, RowsInvariance, PTL DEF Spec

-----------------------------------------------------------------------------
(* The reader's fallback: which run a working copy is shown.               *)

\* Every checkout that ever saved has a run, or lost it to another checkout.
IndexedHaveRuns ==
    /\ \A q \in runs : q.checkout \in indexed
    /\ \A c \in indexed : c \in displaced \/ \E q \in runs : q.checkout = c

\* Where the fallback is taken, it is justified.
FallbackFounded ==
    \A r \in Readers : rd[r].pc = "select_any" => rd[r].first \/ rd[r].checkout \in displaced

ReaderInv == LoadTypeOK /\ IndexedHaveRuns /\ FallbackFounded /\ FallbackIsJustified

LEMMA NoRequestCheckout == NoRequest.checkout \in Checkouts
BY NoRequestType DEF Request

\* The latest of some runs is one of them.
LEMMA LatestIsOne ==
    ASSUME TypeOK, NEW S \in SUBSET runs, S # {}
    PROVE  Latest(S) \in S
<1> DEFINE times == {q.at : q \in S}
<1>1. \A q \in S : q.at \in Nat /\ q.at <= MaxSaves
  BY StoreAssumption DEF TypeOK, Run
<1>2. times \in SUBSET Nat /\ times # {} /\ \A n \in times : n <= MaxSaves
  BY <1>1
<1>3. \E m \in times : \A n \in times : n <= m
  BY <1>2, StoreAssumption, GreatestExists
<1>4. \E q \in S : \A p \in S : p.at <= q.at
  BY <1>3
<1> QED  BY <1>4 DEF Latest

\* Choosing one of some runs gives the call its run.
LEMMA ChooseRun ==
    ASSUME LoadTypeOK, NEW r \in Readers, NEW S \in SUBSET runs, S # {}, Choose(r, S)
    PROVE  \E q \in S : rd' = [rd EXCEPT ![r] = [rd[r] EXCEPT !.pc = "load", !.run = q]]
<1>1. Latest(S) \in S
  BY LatestIsOne DEF LoadTypeOK
<1>2. rd' = [rd EXCEPT ![r] = [rd[r] EXCEPT !.pc = "load", !.run = Latest(S)]]
  BY DEF Choose, LoadTypeOK
<1> HIDE DEF Latest
<1> QED  BY <1>1, <1>2

\* What the statements of latest_snapshot write into a call keeps its type.
LEMMA CallUpdateType ==
    ASSUME NEW x \in Call
    PROVE  /\ [x EXCEPT !.pc = "none"] \in Call
           /\ \A q \in Run : [x EXCEPT !.pc = "load", !.run = q] \in Call
           /\ \A first \in BOOLEAN : [x EXCEPT !.pc = "select_any", !.first = first] \in Call
           /\ \A t \in Tables, R \in SUBSET Row, p \in {"load", "loaded"} :
                  [x EXCEPT !.got[t] = R, !.left = @ \ {t}, !.pc = p] \in Call
<1>1. [x EXCEPT !.pc = "none"] \in Call
  BY DEF Call
<1>2. \A q \in Run : [x EXCEPT !.pc = "load", !.run = q] \in Call
  BY DEF Call
<1>3. \A first \in BOOLEAN : [x EXCEPT !.pc = "select_any", !.first = first] \in Call
  BY DEF Call
<1>4. ASSUME NEW t \in Tables, NEW R \in SUBSET Row, NEW p \in {"load", "loaded"}
      PROVE  [x EXCEPT !.got[t] = R, !.left = @ \ {t}, !.pc = p] \in Call
  BY DEF Call
<1> QED  BY <1>1, <1>2, <1>3, <1>4

LEMMA InitReader == LoadInit => ReaderInv
<1> SUFFICES ASSUME LoadInit
             PROVE  ReaderInv
  OBVIOUS
<1>1. TypeOK
  BY InitType DEF LoadInit
<1>2. NoRows \in [Tables -> SUBSET Row]
  BY DEF NoRows
<1>3. rd \in [Readers -> Call]
  BY <1>2, NoRequestCheckout DEF LoadInit, Call
<1>4. \A r \in Readers : rd[r].pc = "idle"
  BY DEF LoadInit
<1>5. runs = {} /\ indexed = {} /\ displaced = {}
  BY DEF LoadInit, Init
<1> QED
  BY <1>1, <1>3, <1>4, <1>5 DEF ReaderInv, LoadTypeOK, IndexedHaveRuns, FallbackFounded, FallbackIsJustified

\* What one statement of latest_snapshot does to its call.
LEMMA ReaderStep ==
    ASSUME ReaderInv, NEW r \in Readers, StartLoad(r) \/ LoadStep(r)
    PROVE  /\ rd' \in [Readers -> Call]
           /\ \A o \in Readers \ {r} : rd'[o] = rd[o]
           /\ UNCHANGED <<vars, indexed, displaced>>
           /\ rd'[r].pc = "select_any" => rd'[r].first \/ rd'[r].checkout \in displaced
           /\ rd'[r].pc \in {"load", "loaded"} /\ rd'[r].run.checkout # rd'[r].checkout =>
                /\ rd'[r].run.checkout.repo = rd'[r].checkout.repo
                /\ rd'[r].first \/ rd'[r].checkout \in displaced
<1>1. /\ rd \in [Readers -> Call] /\ rd[r] \in Call /\ runs \subseteq Run
      /\ rows \in [Tables -> SUBSET Row] /\ rd[r].first \in BOOLEAN
  BY DEF ReaderInv, LoadTypeOK, TypeOK, Call
<1>2. UNCHANGED <<vars, indexed, displaced>>
  BY DEF StartLoad, LoadStep, SelectOwn, SelectAny, LoadTable
<1>3. CASE StartLoad(r)
  <2>1. PICK c \in Checkouts :
            rd' = [rd EXCEPT ![r] = [pc |-> "select_own", checkout |-> c, run |-> NoRun,
                                     left |-> Tables, got |-> NoRows, first |-> FALSE]]
    BY <1>3 DEF StartLoad
  <2>2. NoRows \in [Tables -> SUBSET Row]
    BY DEF NoRows
  <2>3. rd'[r] = [pc |-> "select_own", checkout |-> c, run |-> NoRun,
                  left |-> Tables, got |-> NoRows, first |-> FALSE]
    BY <1>1, <2>1
  <2>4. rd'[r] \in Call
    BY <2>2, <2>3 DEF Call
  <2>5. rd' \in [Readers -> Call] /\ \A o \in Readers \ {r} : rd'[o] = rd[o]
    BY <1>1, <2>1, <2>3, <2>4
  <2> QED  BY <1>2, <2>3, <2>5
<1>4. CASE SelectOwn(r)
  <2> DEFINE own == {q \in runs : q.checkout = rd[r].checkout}
  <2>1. CASE rd' = [rd EXCEPT ![r].pc = "none"]
    <3>1. rd' = [rd EXCEPT ![r] = [rd[r] EXCEPT !.pc = "none"]]
      BY <1>1, <2>1
    <3>2. [rd[r] EXCEPT !.pc = "none"] \in Call /\ [rd[r] EXCEPT !.pc = "none"].pc = "none"
      BY <1>1, CallUpdateType DEF Call
    <3> QED  BY <1>1, <1>2, <3>1, <3>2
  <2>2. CASE own # {} /\ Choose(r, own)
    <3>1. PICK q \in own : rd' = [rd EXCEPT ![r] = [rd[r] EXCEPT !.pc = "load", !.run = q]]
      BY <2>2, ChooseRun DEF ReaderInv
    <3> DEFINE x == [rd[r] EXCEPT !.pc = "load", !.run = q]
    <3>2. x \in Call /\ x.pc = "load" /\ x.run = q /\ x.checkout = rd[r].checkout
      BY <1>1, CallUpdateType DEF Call
    <3>3. q.checkout = rd[r].checkout
      OBVIOUS
    <3> HIDE DEF x
    <3>4. rd' = [rd EXCEPT ![r] = x]
      BY <3>1 DEF x
    <3> QED  BY <1>1, <1>2, <3>2, <3>3, <3>4
  <2>3. CASE own = {} /\ rd' = [rd EXCEPT ![r].pc = "select_any", ![r].first = rd[r].checkout \notin indexed]
    <3> DEFINE first == rd[r].checkout \notin indexed
               x == [rd[r] EXCEPT !.pc = "select_any", !.first = first]
    <3>1. first \in BOOLEAN
      OBVIOUS
    <3>2. rd' = [rd EXCEPT ![r] = x]
      BY <1>1, <2>3
    <3>3. x \in Call /\ x.pc = "select_any" /\ x.first = first /\ x.checkout = rd[r].checkout
      <4> HIDE DEF first
      <4> QED  BY <1>1, <3>1, CallUpdateType DEF Call
    <3>4. first \/ rd[r].checkout \in displaced
      BY <2>3 DEF ReaderInv, IndexedHaveRuns
    <3> HIDE DEF x, first
    <3> QED  BY <1>1, <1>2, <3>2, <3>3, <3>4
  <2> QED  BY <1>4, <2>1, <2>2, <2>3 DEF SelectOwn
<1>5. CASE SelectAny(r)
  <2> DEFINE any == {q \in runs : q.checkout.repo = rd[r].checkout.repo}
  <2>1. CASE rd' = [rd EXCEPT ![r].pc = "none"]
    <3>1. rd' = [rd EXCEPT ![r] = [rd[r] EXCEPT !.pc = "none"]]
      BY <1>1, <2>1
    <3>2. [rd[r] EXCEPT !.pc = "none"] \in Call /\ [rd[r] EXCEPT !.pc = "none"].pc = "none"
      BY <1>1, CallUpdateType DEF Call
    <3> QED  BY <1>1, <1>2, <3>1, <3>2
  <2>2. CASE any # {} /\ Choose(r, any)
    <3>1. PICK q \in any : rd' = [rd EXCEPT ![r] = [rd[r] EXCEPT !.pc = "load", !.run = q]]
      BY <2>2, ChooseRun DEF ReaderInv
    <3> DEFINE x == [rd[r] EXCEPT !.pc = "load", !.run = q]
    <3>2. x \in Call /\ x.pc = "load" /\ x.run = q /\ x.checkout = rd[r].checkout
          /\ x.first = rd[r].first
      BY <1>1, CallUpdateType DEF Call
    <3>3. q.checkout.repo = rd[r].checkout.repo
      OBVIOUS
    <3>4. rd[r].first \/ rd[r].checkout \in displaced
      BY <1>5 DEF SelectAny, ReaderInv, FallbackFounded
    <3> HIDE DEF x
    <3>5. rd' = [rd EXCEPT ![r] = x]
      BY <3>1 DEF x
    <3> QED  BY <1>1, <1>2, <3>2, <3>3, <3>4, <3>5
  <2> QED  BY <1>5, <2>1, <2>2 DEF SelectAny
<1>6. ASSUME NEW t \in Tables, LoadTable(r, t)
      PROVE  /\ rd' \in [Readers -> Call]
             /\ \A o \in Readers \ {r} : rd'[o] = rd[o]
             /\ rd[r].pc = "load" /\ rd'[r].pc \in {"load", "loaded"} /\ rd'[r].run = rd[r].run
             /\ rd'[r].checkout = rd[r].checkout /\ rd'[r].first = rd[r].first
  <2> DEFINE R == {x \in rows[t] : x.run = rd[r].run.id}
             p == IF rd[r].left = {t} THEN "loaded" ELSE "load"
             y == [rd[r] EXCEPT !.got[t] = R, !.left = @ \ {t}, !.pc = p]
  <2>1. R \in SUBSET Row /\ p \in {"load", "loaded"}
    BY <1>1
  <2>2. rd' = [rd EXCEPT ![r] = y]
    <3>1. rd' = [rd EXCEPT ![r].got[t] = R, ![r].left = @ \ {t}, ![r].pc = p]
      BY <1>6 DEF LoadTable
    <3> HIDE DEF R, p
    <3> QED  BY <1>1, <3>1
  <2> HIDE DEF R, p
  <2>3. y \in Call /\ y.pc = p /\ y.run = rd[r].run /\ y.checkout = rd[r].checkout
        /\ y.first = rd[r].first
    BY <1>1, <2>1, CallUpdateType DEF Call
  <2>4. rd[r].pc = "load"
    BY <1>6 DEF LoadTable
  <2> HIDE DEF y
  <2> QED  BY <1>1, <2>1, <2>2, <2>3, <2>4
<1>7. CASE \E t \in Tables : LoadTable(r, t)
  BY <1>2, <1>6, <1>7 DEF ReaderInv, FallbackIsJustified
<1> QED  BY <1>3, <1>4, <1>5, <1>7 DEF LoadStep

\* A save takes a checkout's last run away only by replacing it with another checkout's.
LEMMA SaveKeepsIndexed ==
    ASSUME ReaderInv, TypeOK', LoadNext, Next, UNCHANGED rd,
           indexed' = indexed \union {q.checkout : q \in runs'},
           displaced' = displaced \union
             {q.checkout : q \in {x \in runs \ runs' : \A p \in runs' \ runs : p.checkout # x.checkout}}
    PROVE  ReaderInv'
<1>1. indexed \subseteq indexed' /\ displaced \subseteq displaced'
  OBVIOUS
<1>2. \A q \in runs' : q.checkout \in Checkouts /\ q.checkout \in indexed'
  BY DEF TypeOK, Run
<1>3. \A q \in runs : q.checkout \in indexed
  BY DEF ReaderInv, IndexedHaveRuns
<1>4. LoadTypeOK'
  <2>1. indexed' \subseteq Checkouts
    BY <1>2 DEF ReaderInv, LoadTypeOK
  <2>2. displaced' \subseteq indexed'
    BY <1>1, <1>3 DEF ReaderInv, LoadTypeOK
  <2> QED  BY <2>1, <2>2 DEF ReaderInv, LoadTypeOK
<1>5. ASSUME NEW c \in indexed', ~\E q \in runs' : q.checkout = c
      PROVE  c \in displaced'
  <2>1. c \in indexed
    BY <1>5
  <2>2. CASE c \in displaced
    BY <2>2
  <2>3. CASE c \notin displaced
    <3>1. PICK x \in runs : x.checkout = c
      BY <2>1, <2>3 DEF ReaderInv, IndexedHaveRuns
    <3>2. x \in runs \ runs' /\ \A p \in runs' \ runs : p.checkout # x.checkout
      BY <1>5, <3>1
    <3> QED  BY <3>1, <3>2
  <2> QED  BY <2>2, <2>3
<1>6. FallbackFounded' /\ FallbackIsJustified'
  BY <1>1 DEF ReaderInv, FallbackFounded, FallbackIsJustified
<1> QED  BY <1>2, <1>4, <1>5, <1>6 DEF ReaderInv, IndexedHaveRuns

LEMMA ReaderInvStep == ReaderInv /\ TypeOK' /\ [LoadNext]_loadVars => ReaderInv'
<1> SUFFICES ASSUME ReaderInv, TypeOK', [LoadNext]_loadVars
             PROVE  ReaderInv'
  OBVIOUS
<1>1. ASSUME NEW r \in Readers, StartLoad(r) \/ LoadStep(r)
      PROVE  ReaderInv'
  <2>1. /\ rd' \in [Readers -> Call]
        /\ \A o \in Readers \ {r} : rd'[o] = rd[o]
        /\ UNCHANGED <<vars, indexed, displaced>>
        /\ rd'[r].pc = "select_any" => rd'[r].first \/ rd'[r].checkout \in displaced
        /\ rd'[r].pc \in {"load", "loaded"} /\ rd'[r].run.checkout # rd'[r].checkout =>
             /\ rd'[r].run.checkout.repo = rd'[r].checkout.repo
             /\ rd'[r].first \/ rd'[r].checkout \in displaced
    BY <1>1, ReaderStep
  <2>2. LoadTypeOK' /\ IndexedHaveRuns'
    BY <2>1 DEF ReaderInv, LoadTypeOK, IndexedHaveRuns, vars
  <2>3. \A o \in Readers : o = r \/ rd'[o] = rd[o]
    BY <2>1
  <2>4. FallbackFounded'
    BY <2>1, <2>3 DEF ReaderInv, FallbackFounded
  <2>5. FallbackIsJustified'
    BY <2>1, <2>3 DEF ReaderInv, FallbackIsJustified
  <2> QED  BY <2>2, <2>4, <2>5 DEF ReaderInv
<1>2. CASE UNCHANGED loadVars
  BY <1>2 DEF loadVars, vars, ReaderInv, LoadTypeOK, TypeOK, IndexedHaveRuns, FallbackFounded,
     FallbackIsJustified
<1>3. CASE LoadNext /\ ~\E r \in Readers : StartLoad(r) \/ LoadStep(r)
  <2>1. /\ Next /\ UNCHANGED rd
        /\ indexed' = indexed \union {q.checkout : q \in runs'}
        /\ displaced' = displaced \union
             {q.checkout : q \in {x \in runs \ runs' : \A p \in runs' \ runs : p.checkout # x.checkout}}
    BY <1>3 DEF LoadNext
  <2> QED  BY <1>3, <2>1, SaveKeepsIndexed
<1> QED  BY <1>1, <1>2, <1>3

-----------------------------------------------------------------------------
(* postgresql: what a reader loads.                                        *)

\* The run a reader chose is known by its id for good, and each table read so far is that
\* run's, or empty because the run is gone.
Loading(r) ==
    /\ rd[r].run.id \in Nat /\ rd[r].run.id <= seq
    /\ \A q \in runs : q.id = rd[r].run.id => q = rd[r].run
    /\ \A s \in Savers : pc[s] = "commit" => tx[s].runId # rd[r].run.id
    /\ \A t \in Tables \ rd[r].left :
          Whole(r, t) \/ (rd[r].got[t] = {} /\ rd[r].run \notin runs)

SnapshotInv ==
    Backend = "postgresql" =>
        \A r \in Readers :
            /\ rd[r].pc \in {"select_own", "select_any"} => rd[r].left = Tables
            /\ rd[r].pc = "loaded" => rd[r].left = {}
            /\ rd[r].pc \in {"load", "loaded"} => Loading(r)

\* No save gives another run the id of the one a reader chose.
LEMMA SavesKeepLoading ==
    ASSUME IInv, Backend = "postgresql", NEW s \in Savers, Does(s), UNCHANGED rd,
           NEW r \in Readers, Loading(r)
    PROVE  Loading(r)'
<1> USE DEF IInv
<1>1. seq \in Nat /\ seq' \in Nat /\ seq <= seq'
  BY SeqGrows
<1>2. \A q \in runs' : q \in runs \/ q.id # rd[r].run.id
  <2>1. CASE Commit(s)
    BY <2>1, CommitRuns DEF Loading
  <2> QED  BY <2>1, OnlyCommitWrites
<1>3. \A q \in runs' : q.id = rd[r].run.id => q = rd[r].run
  BY <1>2 DEF Loading
<1>4. ASSUME NEW x \in Savers, pc'[x] = "commit"
      PROVE  tx'[x].runId # rd[r].run.id
  <2>1. CASE x = s
    <3>1. InsertRun(s)
      BY <1>4, <2>1, OwnStep
    <3>2. tx' = [tx EXCEPT ![s].runId = seq + 1, ![s].wrote = TRUE]
      BY <3>1 DEF InsertRun, FreshId
    <3>3. tx'[s].runId = seq + 1
      BY <3>2 DEF TypeOK, Tx
    <3> QED  BY <1>1, <2>1, <3>3 DEF Loading
  <2>2. CASE x # s
    BY <1>4, <2>2, OthersUntouched DEF Loading, Others
  <2> QED  BY <2>1, <2>2
<1>5. rd[r].run \notin runs => rd[r].run \notin runs'
  BY <1>2
<1>6. rd[r].run.id \in Nat /\ rd[r].run.id <= seq'
  BY <1>1 DEF Loading
<1> QED  BY <1>3, <1>4, <1>5, <1>6 DEF Loading, Whole, InfoOf

\* What a reader's statement makes of its call.
LEMMA ReaderMoves ==
    ASSUME ReaderInv, NEW r \in Readers, StartLoad(r) \/ LoadStep(r)
    PROVE  \/ rd'[r].pc = "none"
           \/ rd'[r].pc \in {"select_own", "select_any"}
              /\ (rd'[r].left = Tables \/ (rd[r].pc = "select_own" /\ rd'[r].left = rd[r].left))
           \/ /\ rd[r].pc \in {"select_own", "select_any"}
              /\ rd'[r].pc = "load" /\ rd'[r].left = rd[r].left /\ rd'[r].run \in runs
           \/ \E t \in Tables : LoadTable(r, t)
<1>1. rd \in [Readers -> Call] /\ rd[r] \in Call
  BY DEF ReaderInv, LoadTypeOK
<1>2. CASE StartLoad(r)
  BY <1>1, <1>2 DEF StartLoad
<1>3. ASSUME NEW S \in SUBSET runs, S # {}, Choose(r, S)
      PROVE  rd'[r].pc = "load" /\ rd'[r].left = rd[r].left /\ rd'[r].run \in runs
  <2>1. PICK q \in S : rd' = [rd EXCEPT ![r] = [rd[r] EXCEPT !.pc = "load", !.run = q]]
    BY <1>3, ChooseRun DEF ReaderInv
  <2>2. rd'[r] = [rd[r] EXCEPT !.pc = "load", !.run = q]
    BY <1>1, <2>1
  <2> QED  BY <1>1, <2>2 DEF Call
<1>4. CASE SelectOwn(r)
  <2> DEFINE own == {q \in runs : q.checkout = rd[r].checkout}
  <2>1. \/ rd' = [rd EXCEPT ![r].pc = "none"]
        \/ own # {} /\ Choose(r, own)
        \/ rd' = [rd EXCEPT ![r].pc = "select_any", ![r].first = rd[r].checkout \notin indexed]
    BY <1>4 DEF SelectOwn
  <2>2. rd[r].pc = "select_own" /\ own \in SUBSET runs
    BY <1>4 DEF SelectOwn
  <2> HIDE DEF own
  <2>3. CASE rd' = [rd EXCEPT ![r].pc = "select_any", ![r].first = rd[r].checkout \notin indexed]
    BY <1>1, <2>2, <2>3 DEF Call
  <2>4. CASE rd' = [rd EXCEPT ![r].pc = "none"]
    BY <1>1, <2>4 DEF Call
  <2> QED  BY <1>3, <2>1, <2>2, <2>3, <2>4
<1>5. CASE SelectAny(r)
  <2> DEFINE any == {q \in runs : q.checkout.repo = rd[r].checkout.repo}
  <2>1. rd' = [rd EXCEPT ![r].pc = "none"] \/ (any # {} /\ Choose(r, any))
    BY <1>5 DEF SelectAny
  <2>2. rd[r].pc = "select_any" /\ any \in SUBSET runs
    BY <1>5 DEF SelectAny
  <2> HIDE DEF any
  <2>3. CASE rd' = [rd EXCEPT ![r].pc = "none"]
    BY <1>1, <2>3 DEF Call
  <2> QED  BY <1>3, <2>1, <2>2, <2>3
<1> QED  BY <1>2, <1>4, <1>5 DEF LoadStep

\* The rows one SELECT reads are the run's, whole, or none.
LEMMA TableRead ==
    ASSUME IInv, RowsInv, ReaderInv, Backend = "postgresql",
           NEW r \in Readers, NEW t \in Tables, Loading(r), LoadTable(r, t)
    PROVE  /\ rd'[r].run = rd[r].run /\ rd'[r].left = rd[r].left \ {t}
           /\ rd'[r].pc = IF rd[r].left = {t} THEN "loaded" ELSE "load"
           /\ Loading(r)'
<1> DEFINE R == {x \in rows[t] : x.run = rd[r].run.id}
           p == IF rd[r].left = {t} THEN "loaded" ELSE "load"
<1>1. rd \in [Readers -> Call] /\ rd[r] \in Call
  BY DEF ReaderInv, LoadTypeOK
<1>2. rd' = [rd EXCEPT ![r] = [rd[r] EXCEPT !.got[t] = R, !.left = @ \ {t}, !.pc = p]]
  <2>1. rd' = [rd EXCEPT ![r].got[t] = R, ![r].left = @ \ {t}, ![r].pc = p]
    BY DEF LoadTable
  <2> HIDE DEF R, p
  <2> QED  BY <1>1, <2>1
<1>3. /\ rd'[r].run = rd[r].run /\ rd'[r].left = rd[r].left \ {t} /\ rd'[r].pc = p
      /\ rd'[r].got[t] = R /\ \A o \in Tables \ {t} : rd'[r].got[o] = rd[r].got[o]
  <2> HIDE DEF R, p
  <2> QED  BY <1>1, <1>2 DEF Call
<1>4. UNCHANGED vars
  BY DEF LoadTable
<1>5. /\ \A x \in rows[t] : \E q \in runs : x.run = q.id /\ x.from = InfoOf(q)
      /\ \A q \in runs : Cardinality({x \in rows[t] : x.run = q.id}) = q.size
  BY DEF RowsInv, RunIntact
<1>6. \/ (\A x \in R : x.from = InfoOf(rd[r].run)) /\ Cardinality(R) = rd[r].run.size
      \/ R = {} /\ rd[r].run \notin runs
  <2>1. CASE rd[r].run \in runs
    <3>1. \A x \in R : x.from = InfoOf(rd[r].run)
      BY <1>5 DEF Loading
    <3> QED  BY <1>5, <2>1, <3>1
  <2>2. CASE rd[r].run \notin runs
    BY <1>5, <2>2 DEF Loading
  <2> QED  BY <2>1, <2>2
<1> HIDE DEF R
<1>7. ASSUME NEW o \in Tables \ rd'[r].left
      PROVE  \/ /\ \A x \in rd'[r].got[o] : x.from = InfoOf(rd'[r].run)
                /\ Cardinality(rd'[r].got[o]) = rd'[r].run.size
             \/ rd'[r].got[o] = {} /\ rd'[r].run \notin runs
  BY <1>3, <1>6 DEF Loading, Whole
<1> QED  BY <1>3, <1>4, <1>7 DEF Loading, Whole, vars, InfoOf

LEMMA SnapshotInvStep ==
    IInv /\ RowsInv /\ ReaderInv /\ SnapshotInv /\ [LoadNext]_loadVars => SnapshotInv'
<1> SUFFICES ASSUME IInv, RowsInv, ReaderInv, SnapshotInv, [LoadNext]_loadVars,
                    Backend = "postgresql", NEW x \in Readers
             PROVE  /\ rd'[x].pc \in {"select_own", "select_any"} => rd'[x].left = Tables
                    /\ rd'[x].pc = "loaded" => rd'[x].left = {}
                    /\ rd'[x].pc \in {"load", "loaded"} => Loading(x)'
  BY DEF SnapshotInv
<1>1. /\ rd[x].pc \in {"select_own", "select_any"} => rd[x].left = Tables
      /\ rd[x].pc = "loaded" => rd[x].left = {}
      /\ rd[x].pc \in {"load", "loaded"} => Loading(x)
  BY DEF SnapshotInv
<1>2. ASSUME NEW s \in Savers, Does(s), UNCHANGED rd
      PROVE  rd[x].pc \in {"load", "loaded"} => Loading(x)'
  BY <1>1, <1>2, SavesKeepLoading
<1>3. ASSUME UNCHANGED vars, rd'[x] = rd[x], Loading(x)
      PROVE  Loading(x)'
  BY <1>3 DEF vars, Loading, Whole, InfoOf
<1>4. ASSUME NEW r \in Readers, StartLoad(r) \/ LoadStep(r), x # r
      PROVE  rd'[x] = rd[x] /\ UNCHANGED vars
  BY <1>4, ReaderStep
<1>5. CASE StartLoad(x) \/ LoadStep(x)
  <2>1. UNCHANGED vars
    BY <1>5, ReaderStep
  <2>2. CASE \E t \in Tables : LoadTable(x, t)
    <3>1. PICK t \in Tables : LoadTable(x, t)
      BY <2>2
    <3>2. rd[x].pc = "load" /\ Loading(x)
      BY <1>1, <3>1 DEF LoadTable
    <3>3. /\ rd'[x].left = rd[x].left \ {t} /\ Loading(x)'
          /\ rd'[x].pc = IF rd[x].left = {t} THEN "loaded" ELSE "load"
      BY <3>1, <3>2, TableRead
    <3> QED  BY <3>3
  <2>3. CASE /\ rd[x].pc \in {"select_own", "select_any"}
             /\ rd'[x].pc = "load" /\ rd'[x].left = rd[x].left /\ rd'[x].run \in runs
    <3>1. rd'[x].left = Tables
      BY <1>1, <2>3
    <3>2. /\ rd'[x].run.id \in Nat /\ rd'[x].run.id <= seq
          /\ \A q \in runs : q.id = rd'[x].run.id => q = rd'[x].run
          /\ \A s \in Savers : pc[s] = "commit" => tx[s].runId # rd'[x].run.id
      BY <2>3 DEF IInv, TypeOK, Run, PostgresqlIds, KeysUnique
    <3>3. Loading(x)'
      BY <2>1, <3>1, <3>2 DEF Loading, vars
    <3> QED  BY <2>3, <3>3
  <2> QED  BY <1>1, <1>5, <2>2, <2>3, ReaderMoves
<1>6. CASE UNCHANGED loadVars
  BY <1>1, <1>3, <1>6 DEF loadVars, vars
<1>7. CASE Next /\ UNCHANGED rd
  <2>1. CASE \E s \in Savers : Does(s)
    BY <1>1, <1>2, <1>7, <2>1
  <2>2. CASE UNCHANGED vars
    BY <1>1, <1>3, <1>7, <2>2
  <2> QED  BY <1>7, <2>1, <2>2 DEF Next, Does, Finished
<1>8. CASE \E r \in Readers : StartLoad(r) \/ LoadStep(r)
  <2>1. PICK r \in Readers : StartLoad(r) \/ LoadStep(r)
    BY <1>8
  <2>2. CASE x # r
    BY <1>1, <1>3, <1>4, <2>1, <2>2
  <2> QED  BY <1>5, <2>1, <2>2
<1> QED  BY <1>6, <1>7, <1>8 DEF LoadNext

-----------------------------------------------------------------------------
(* Theorems.                                                               *)

\* Readers change nothing of the store: beside them, savers do what IndexStore says.
THEOREM ReadersOnlyRead == LoadSpec => Spec
<1>1. LoadInit => Init
  BY DEF LoadInit
<1>2. [LoadNext]_loadVars => [Next]_vars
  <2>1. ASSUME NEW r \in Readers, StartLoad(r) \/ LoadStep(r)
        PROVE  UNCHANGED vars
    BY <2>1 DEF StartLoad, LoadStep, SelectOwn, SelectAny, LoadTable
  <2> QED  BY <2>1 DEF LoadNext, loadVars
<1> QED  BY <1>1, <1>2, PTL DEF LoadSpec, Spec

\* Readers keep their types, and a working copy that has indexed has a run or was displaced.
THEOREM ReaderInvariance == LoadSpec => []ReaderInv
<1>1. TypeOK /\ ReaderInv /\ TypeOK' /\ [LoadNext]_loadVars => ReaderInv'
  BY ReaderInvStep
<1> QED  BY <1>1, InitReader, ReaderInvStep, ReadersOnlyRead, TypeCorrect, PTL DEF LoadSpec

\* On postgresql a snapshot holds the rows of one save: of each table those of the run it
\* chose, all of them, or none if the run has been replaced meanwhile (store.py:184-202, 352-388).
THEOREM SnapshotsAreWhole == LoadSpec => [](Backend = "postgresql" => SnapshotOfOneSave)
<1>1. LoadInit => SnapshotInv
  BY DEF LoadInit, SnapshotInv
<1>2. IInv /\ RowsInv /\ ReaderInv /\ SnapshotInv /\ [LoadNext]_loadVars => SnapshotInv'
  BY SnapshotInvStep
<1>3. SnapshotInv => (Backend = "postgresql" => SnapshotOfOneSave)
  BY DEF SnapshotInv, SnapshotOfOneSave, Loading
<1> QED
  BY <1>1, <1>2, <1>3, ReadersOnlyRead, Invariance, RowsInvariance, ReaderInvariance, PTL
  DEF LoadSpec

\* Readers and savers keep their types.
THEOREM LoadTypeCorrect == LoadSpec => []LoadTypeOK
<1>1. ReaderInv => LoadTypeOK
  BY DEF ReaderInv
<1> QED  BY <1>1, ReaderInvariance, PTL

\* latest_snapshot shows a working copy another's run only if it has never indexed, or has
\* lost its run to another working copy's save of the same commit (store.py:140-149, 190-200).
THEOREM FallbackJustified == LoadSpec => []FallbackIsJustified
<1>1. ReaderInv => FallbackIsJustified
  BY DEF ReaderInv
<1> QED  BY <1>1, ReaderInvariance, PTL
=============================================================================
