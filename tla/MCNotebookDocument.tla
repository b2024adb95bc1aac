------------------------- MODULE MCNotebookDocument -------------------------
(***************************************************************************)
(* Instances of NotebookDocument for TLC: a notebook opened with two code  *)
(* cells, calls that meet on them, and two documents other programs may    *)
(* leave behind.                                                           *)
(***************************************************************************)
EXTENDS NotebookDocument, TLC

CONSTANTS Old, New, None, Result, Failed

Code(id, src) == [id |-> id, type |-> "code", src |-> src, out |-> None]

MCOpenedCells == <<Code(1, Old), Code(2, Old)>>

(* Another program ran the second cell; another instance of the service    *)
(* added cell-3 in front.                                                  *)
MCExternalDocs ==
    {<<Code(1, Old), [Code(2, Old) EXCEPT !.out = Result]>>,
     <<Code(3, Old), Code(1, Old)>>}

Ask(kind, id) == [kind |-> kind, id |-> id, type |-> "code", src |-> New, to |-> 0]
MoveTo(id, to) == [Ask("move", id) EXCEPT !.to = to]

CoreRequests ==
    {Ask("edit", 1), Ask("insert", 2), Ask("delete", 1), MoveTo(1, 2),
     Ask("run", 1), Ask("run", 2), Ask("reload", 0)}

(* Every kind of call, positions that exist and that do not; each cell of  *)
(* the opened document can be deleted.                                     *)
AllRequests ==
    {Ask("edit", 1), Ask("insert", 0), Ask("insert", 2), Ask("delete", 1),
     Ask("delete", 2), MoveTo(1, 2), MoveTo(2, 3), Ask("copy", 1), Ask("run", 1),
     Ask("reload", 0)}

Calls == Permutations(Ops)
=============================================================================
