-------------------------------- MODULE Lists --------------------------------
(***************************************************************************)
(* Lists as the code builds them in loops.                                 *)
(***************************************************************************)
EXTENDS Naturals, Sequences, SequencesExt

IsList(s) == s \in Seq(ToSet(s))

\* Of s, what is in S, in its order.
Only(s, S) == FoldLeft(LAMBDA kept, x : IF x \in S THEN Append(kept, x) ELSE kept, <<>>, s)
=============================================================================
