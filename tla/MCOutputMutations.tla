-------------------------- MODULE MCOutputMutations --------------------------
(***************************************************************************)
(* Instances of OutputMutations for TLC: two cells, one display that is    *)
(* shown and updated, clears of both sorts.                                *)
(***************************************************************************)
EXTENDS OutputMutations, TLC

CONSTANTS Old, New, Display

Appends(type, id, datum) == [op |-> "append", out |-> [type |-> type, id |-> id, data |-> datum]]

Kernel ==
    {Appends("stream", NoId, Old), Appends("display", Display, Old),
     [op |-> "clear", wait |-> TRUE], [op |-> "clear", wait |-> FALSE],
     [op |-> "update", id |-> Display, data |-> New],
     Appends("error", NoId, Old)}
=============================================================================
