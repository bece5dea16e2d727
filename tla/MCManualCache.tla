---------------------------- MODULE MCManualCache ----------------------------
(* Instances of ManualCache for TLC.                                       *)
EXTENDS ManualCache, TLC

\* Runs are interchangeable, and so are contents, names and models.
Sym == Permutations(Manuals) \union Permutations(Contents) \union Permutations(Names)
       \union Permutations(Models)
==============================================================================
