------------------------- MODULE MCNotebookOpenings -------------------------
(***************************************************************************)
(* Instances of NotebookOpenings for TLC: one file with two paths, or a    *)
(* second file that is open already.                                       *)
(***************************************************************************)
EXTENDS NotebookOpenings, TLC

CONSTANTS Plain, Alias, Other, File, OtherFile

MCTargetOf == [p \in Paths |-> IF p = Other THEN OtherFile ELSE File]
NothingOpen == <<>>
OtherOpen == <<Other>>

Slots == Permutations(Calls)
=============================================================================
