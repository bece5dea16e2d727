-------------------------------- MODULE Names --------------------------------
(***************************************************************************)
(* Names and paths: a dotted name is the sequence of its parts, a path the *)
(* sequence of its directories, its stem and its extension.                *)
(***************************************************************************)
EXTENDS Lists

NoName == <<>>   \* None, where a dotted name is expected

DirectoryOf(path) == Front(Front(path))
StemOf(path) == Last(Front(path))
=============================================================================
