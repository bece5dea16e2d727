-------------------------- MODULE MCIncrementalIndex --------------------------
(* Instances of IncrementalIndex for TLC.                                  *)
EXTENDS IncrementalIndex, TLC

CONSTANTS a, b, c, d, none, src

\* Two contents that are hashed and two that are too large, each pair of one size.
Small == {[text |-> t, size |-> 1] : t \in {a, b}}
SmallAndLarge == Small \union {[text |-> t, size |-> 2] : t \in {c, d}}

\* Texts of one size, processes and source roots are interchangeable.
Sym == Permutations({a, b}) \union Permutations({c, d})
           \union Permutations(Procs) \union Permutations(SourceRoots)
=============================================================================
