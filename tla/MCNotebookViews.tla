-------------------------- MODULE MCNotebookViews --------------------------
(* A log that is empty, or in the middle of the life of a notebook: two    *)
(* cells, one of them with a display, and a kernel; and the same with a    *)
(* run under way that has shown something.                                 *)
EXTENDS NotebookViews

CONSTANTS n1, n2, c1, c2

Event(at, kind) ==
    [at |-> at, nb |-> n1, cell |-> c1, kind |-> kind, type |-> "code",
     index |-> 1, to |-> 1, exec |-> 0, outs |-> <<>>, generation |-> 0, status |-> "none",
     cells |-> <<>>, mutation |-> [op |-> "none", display |-> "none", wait |-> FALSE, data |-> 0]]

Built ==
    <<[Event(1, "open") EXCEPT !.cell = "none"],
      [Event(2, "create") EXCEPT !.cell = c2, !.outs = <<[display |-> "display", data |-> 2]>>],
      Event(3, "create")>>
WithKernel == Append(Built, [Event(4, "kernel") EXCEPT !.cell = "none", !.generation = 1])
MidRun == Built \o
    <<[Event(4, "execute") EXCEPT !.exec = 4],
      [Event(5, "output") EXCEPT !.exec = 4,
          !.mutation = [op |-> "append", display |-> "display", wait |-> FALSE, data |-> 5]]>>

Clearing == Append(MidRun,
    [Event(6, "output") EXCEPT !.exec = 4,
        !.mutation = [op |-> "clear", display |-> "none", wait |-> TRUE, data |-> 0]])

MCHistories == {<<>>, WithKernel, MidRun, Clearing}
=============================================================================
