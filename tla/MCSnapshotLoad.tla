--------------------------- MODULE MCSnapshotLoad ---------------------------
(* Instances of SnapshotLoad for TLC.                                      *)
EXTENDS SnapshotLoad, TLC

CONSTANTS r1, a, b

TwoCheckouts == {[repo |-> r1, root |-> a], [repo |-> r1, root |-> b]}

\* Savers are interchangeable: no definition tells two of them apart.
Sym == Permutations(Savers)
=============================================================================
