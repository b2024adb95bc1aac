--------------------------- MODULE OutputMutations ---------------------------
(***************************************************************************)
(* What a run leaves in the cells of a notebook.                           *)
(*                                                                         *)
(* The kernel emits mutations: outputs to append, clears that take effect  *)
(* at once or wait for the next output, and updates of displays anywhere   *)
(* in the notebook.  When the run ends, one list of mutations is           *)
(* interpreted twice: over the parsed file that is written back, and, as   *)
(* events, over the projection.  A run that failed must show an error.     *)
(*                                                                         *)
(* An output is its kind, its display id and one datum; MIME bundles,      *)
(* metadata and attachments are part of the datum.                         *)
(***************************************************************************)
EXTENDS Naturals, Sequences, Functions

CONSTANTS
    CodeCells,  \* the code cells of the notebook
    NoCell,     \* no run is under way
    Ids, NoId,  \* display ids
    Data,
    Emits,      \* the mutations kernels emit
    MaxItems,   \* maxOutputItems: limit on the mutations of a run
    MaxRuns     \* bound on the runs

KernelOutput == [type : {"stream", "display", "error"}, id : Ids \cup {NoId}, data : Data]
Mutation == [op : {"append"}, out : KernelOutput] \cup [op : {"clear"}, wait : BOOLEAN]
            \cup [op : {"update"}, id : Ids, data : Data]

Failure == [type |-> "error", id |-> NoId, data |-> CHOOSE d \in Data : TRUE]

ASSUME OutputsAssumption ==
    /\ CodeCells # {} /\ NoCell \notin CodeCells /\ Data # {} /\ NoId \notin Ids
    /\ Emits \subseteq Mutation
    /\ MaxItems \in Nat \ {0} /\ MaxRuns \in Nat

VARIABLES
    file,       \* the outputs of each cell in the file
    shown,      \* the outputs of each cell in the projection
    status,     \* how the last run of each cell ended
    running,    \* the cell that runs
    muts,       \* the mutations of the run that is under way or was the last
    runs

outputVars == <<file, shown, status, running, muts, runs>>

-----------------------------------------------------------------------------
(* Mutations. *)

Adds(m) == m.op = "append"
AddsError(m) == Adds(m) /\ m.out.type = "error"
HasError(outs) == \E i \in DOMAIN outs : outs[i].type = "error"

(* An update replaces every output that carries the display id. *)
Updated(outs, m) ==
    [i \in DOMAIN outs |-> IF outs[i].id = m.id THEN [outs[i] EXCEPT !.data = m.data]
                                                ELSE outs[i]]

(* The rewrite of the file works on the outputs of the cell that ran and   *)
(* on the other cells; a pending clear takes effect with the next output.  *)
FileStep_LeavesClearPending(st, m) ==
    IF Adds(m) /\ st.pending THEN [st EXCEPT !.outs = <<m.out>>]
    ELSE IF Adds(m) THEN [st EXCEPT !.outs = Append(@, m.out)] ELSE st
FileStep(st, m) ==
    LET kept == IF st.pending THEN <<>> ELSE st.outs
    IN  CASE Adds(m)        -> [st EXCEPT !.outs = Append(kept, m.out), !.pending = FALSE]
          [] m.op = "clear" -> IF m.wait THEN [st EXCEPT !.pending = TRUE]
                               ELSE [st EXCEPT !.outs = <<>>, !.pending = FALSE]
          [] m.op = "update" -> [outs |-> Updated(kept, m), pending |-> FALSE,
                                 cells |-> [d \in CodeCells |-> Updated(st.cells[d], m)]]

FailureShown_IfNothingElse(outs, failed) ==
    IF failed /\ outs = <<>> THEN <<Failure>> ELSE outs
FailureShown(outs, failed) ==
    IF failed /\ ~HasError(outs) THEN Append(outs, Failure) ELSE outs

(* The states of the rewrite: before the first mutation, after each.       *)
FileStates(cells, ms) ==
    LET st[n \in 0..Len(ms)] == IF n = 0 THEN [outs |-> <<>>, pending |-> FALSE, cells |-> cells]
                                         ELSE FileStep(st[n - 1], ms[n])
    IN  st

Rewritten(cells, c, ms, failed) ==
    LET st == FileStates(cells, ms)[Len(ms)]
    IN  [st.cells EXCEPT ![c] = FailureShown(st.outs, failed)]

(* The fold keeps the outputs of the execution apart and copies them to    *)
(* its cell after every event.                                             *)
FoldStep_ClearsAtOnce(st, m, c) ==
    IF m.op = "clear" THEN [st EXCEPT !.outs = <<>>, !.pending = FALSE]
    ELSE IF Adds(m) THEN [st EXCEPT !.outs = Append(@, m.out)]
    ELSE [st EXCEPT !.outs = Updated(@, m)]
FoldStep(st, m, c) ==
    LET outs == IF st.pending /\ m.op # "clear" THEN <<>> ELSE st.outs
        next == CASE Adds(m)         -> Append(outs, m.out)
                  [] m.op = "clear"  -> IF m.wait THEN outs ELSE <<>>
                  [] m.op = "update" -> Updated(outs, m)
        cells == IF m.op = "update" THEN [d \in CodeCells |-> Updated(st.cells[d], m)]
                                    ELSE st.cells
    IN  [outs |-> next, pending |-> m.op = "clear" /\ m.wait, cells |-> [cells EXCEPT ![c] = next]]

FoldStates(cells, c, ms) ==
    LET st[n \in 0..Len(ms)] ==
          IF n = 0 THEN [outs |-> <<>>, pending |-> FALSE, cells |-> [cells EXCEPT ![c] = <<>>]]
                   ELSE FoldStep(st[n - 1], ms[n], c)
    IN  st

Folded(cells, c, ms) == FoldStates(cells, c, ms)[Len(ms)].cells

(* A failed run whose kernel appended no error gets one, for which later   *)
(* mutations make room.                                                    *)
Room_OffByOne(ms) == IF Len(ms) > MaxItems THEN SubSeq(ms, 1, MaxItems) ELSE ms
Room(ms) == IF Len(ms) >= MaxItems THEN SubSeq(ms, 1, MaxItems - 1) ELSE ms
WithFailure(ms, failed) ==
    IF ~failed \/ \E i \in DOMAIN ms : AddsError(ms[i]) THEN ms
    ELSE Append(Room(ms), [op |-> "append", out |-> Failure])

-----------------------------------------------------------------------------
OutputsInit ==
    /\ file = [c \in CodeCells |-> <<>>]
    /\ shown = file
    /\ status = [c \in CodeCells |-> "none"]
    /\ running = NoCell
    /\ muts = <<>>
    /\ runs = 0

Start(c) ==
    /\ running = NoCell /\ runs < MaxRuns
    /\ running' = c /\ muts' = <<>> /\ runs' = runs + 1
    /\ UNCHANGED <<file, shown, status>>

Emit(m) ==
    /\ running # NoCell /\ Len(muts) < MaxItems
    /\ muts' = Append(muts, m)
    /\ UNCHANGED <<file, shown, status, running, runs>>

Publish(ms, result) ==
    /\ muts' = ms
    /\ file' = Rewritten(file, running, ms, result # "ok")
    /\ shown' = Folded(shown, running, ms)
    /\ status' = [status EXCEPT ![running] = result]
    /\ running' = NoCell
    /\ UNCHANGED runs

(* The kernel completes, fails, exceeds the limit, or the run is cancelled. *)
Finish(result) ==
    /\ running # NoCell
    /\ Publish(WithFailure(muts, result # "ok"), result)

(* Outputs that are not admitted, or whose result is too long, are replaced *)
(* by the failure.                                                          *)
Discard ==
    /\ running # NoCell
    /\ Publish(<<[op |-> "append", out |-> Failure]>>, "error")

OutputsNext ==
    \/ \E c \in CodeCells : Start(c)
    \/ \E m \in Emits : Emit(m)
    \/ \E result \in {"ok", "error", "cancelled"} : Finish(result)
    \/ Discard

OutputsSpec == OutputsInit /\ [][OutputsNext]_outputVars

-----------------------------------------------------------------------------
(* What the outputs should be, said without executing the mutations one by *)
(* one: an output stays unless a clear behind it takes effect, and shows   *)
(* the datum of the last update behind it.                                 *)

TakesEffect(ms, i) ==
    /\ ms[i].op = "clear"
    /\ ms[i].wait => \E j \in DOMAIN ms : j > i /\ ms[j].op # "clear"

LastUpdate(ms, i, id) ==
    LET later == {j \in DOMAIN ms : j > i /\ ms[j].op = "update" /\ ms[j].id = id}
    IN  IF later = {} THEN 0 ELSE CHOOSE j \in later : \A k \in later : k <= j

Latest(ms, i, out) ==
    LET j == LastUpdate(ms, i, out.id)
    IN  IF j = 0 THEN out ELSE [out EXCEPT !.data = ms[j].data]

Stays(ms) == {i \in DOMAIN ms : Adds(ms[i]) /\
                ~\E j \in DOMAIN ms : j > i /\ TakesEffect(ms, j)}

(* The outputs are those that stay, in the order they were added in.       *)
AreVisible(outs, ms) ==
    \E added \in Surjection(DOMAIN outs, Stays(ms)) :
        /\ \A k, l \in DOMAIN outs : k < l => added[k] < added[l]
        /\ \A k \in DOMAIN outs : outs[k] = Latest(ms, added[k], ms[added[k]].out)

RunEnded == running # NoCell /\ running' = NoCell

-----------------------------------------------------------------------------
(* Properties. *)

(* The types of the state. *)
OutputsTypeOK ==
    /\ file \in [CodeCells -> Seq(KernelOutput)]
    /\ shown \in [CodeCells -> Seq(KernelOutput)]
    /\ status \in [CodeCells -> {"none", "ok", "error", "cancelled"}]
    /\ running \in CodeCells \cup {NoCell}
    /\ muts \in Seq(Mutation)
    /\ runs \in 0..MaxRuns

(* The limit on the items of a run. *)
LimitIsKept == Len(muts) <= MaxItems

(* After a failed run the file shows an error in its cell, whatever the    *)
(* kernel appended and cleared, and the limit holds for what is published, *)
(* the failure that is added included (ensureFailureOutput).               *)
FailedRunsShowAnError ==
    /\ OutputsTypeOK
    /\ LimitIsKept
    /\ \A c \in CodeCells : status[c] \in {"error", "cancelled"} => HasError(file[c])

ShowsVisible ==
    /\ AreVisible(shown'[running], muts')
    /\ \A c \in CodeCells \ {running} :
          shown'[c] = [i \in DOMAIN shown[c] |-> Latest(muts', 0, shown[c][i])]
GoesOnAgreeing ==
    file = shown /\ (status'[running] = "ok" \/ HasError(shown'[running])) => file' = shown'

(* The outputs of a run, and the displays in other cells, are what the     *)
(* mutations say: a waiting clear takes effect when an output or an update *)
(* follows it.  The two interpreters keep agreeing on every cell whenever  *)
(* a run succeeds, or the failure that ended it is still shown when its    *)
(* mutations have been carried out (replaceIpynbCellExecution,             *)
(* applyOutputMutation).                                                   *)
OutputsAreWhatTheMutationsSay == [][RunEnded => ShowsVisible /\ GoesOnAgreeing]_outputVars
=============================================================================
