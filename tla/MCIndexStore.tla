---------------------------- MODULE MCIndexStore ----------------------------
(* Instances of IndexStore for TLC.                                        *)
EXTENDS IndexStore, TLC

CONSTANTS r1, a, b

OneCheckout == {[repo |-> r1, root |-> a]}
TwoCheckouts == {[repo |-> r1, root |-> a], [repo |-> r1, root |-> b]}

\* Savers are interchangeable, and so are real commits: no definition tells two apart.
Sym == Permutations(Savers) \union Permutations(Commits \ {NoCommit})
=============================================================================
