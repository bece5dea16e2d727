---------------------------- MODULE RunRegistry ----------------------------
(***************************************************************************)
(* What the index store promises its callers about index runs, without     *)
(* transactions, surrogate keys or retries: one step stores a run and, in  *)
(* the same step, drops the run it supersedes.  A run with a commit        *)
(* supersedes the run of the same repository and commit; a run without a   *)
(* commit supersedes nothing ("replaced rather than accumulated").         *)
(***************************************************************************)
CONSTANTS
    RunInfo,       \* what a run says: its checkout, commit, dirty flag and scan time
    Supersedes(_, _)  \* Supersedes(p, q): storing p drops q

VARIABLE
    registry       \* the runs a reader can find

Init == registry = {}

Put(p) == registry' = {q \in registry : ~Supersedes(p, q)} \union {p}

Next == \E p \in RunInfo : Put(p)

Spec == Init /\ [][Next]_registry
=============================================================================
