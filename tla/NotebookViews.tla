--------------------------- MODULE NotebookViews ---------------------------
(***************************************************************************)
(* Two readers of one event log: the fold of the host (foldNotebooks),     *)
(* which reads all of it and rejects what is not lawful, and the builder   *)
(* of the browser (NotebookSnapshotBuilder), which is handed events in     *)
(* batches, some of them late or again, and tolerates a missing past.      *)
(*                                                                         *)
(* The log is one the host can fold, and the events of a run stand         *)
(* together in it.  What an event brings with it (a file version, a        *)
(* source, an output, the id of an execution) is new each time, and is     *)
(* named by the place of the event in the log.                             *)
(***************************************************************************)
EXTENDS Naturals, FiniteSets, SequencesExt

CONSTANTS
    Notebooks,
    Cells,
    Histories,    \* what the log may hold at the start
    MaxNew,       \* bound on the events added to it
    MaxBatch      \* bound on the events handed over at once

VARIABLES
    log,       \* the durable events
    recorded,  \* how many of them are new
    folded,    \* the fold of all of them
    loaded,    \* the places of those the browser has
    view,      \* the state of the browser's projector
    maxSeq     \* the last place the projector has folded in order

vars == <<log, recorded, folded, loaded, view, maxSeq>>

-----------------------------------------------------------------------------
(* What both readers build: documents in the order they were opened.       *)

Displays == {"none", "display"}
Outputs == [display : Displays, data : Nat]
CellStates == [id : Cells, type : {"code", "markdown"}, source : Nat, outs : Seq(Outputs),
               status : {"none", "running", "ok", "error"}, count : Nat]
Events ==
    [at : Nat, nb : Notebooks, cell : Cells \cup {"none"},
     kind : {"open", "create", "update", "delete", "move", "execute", "output", "end",
             "kernel", "reload"},
     type : {"code", "markdown"}, index : Nat, to : Nat, exec : Nat, outs : Seq(Outputs),
     generation : Nat, status : {"none", "ok", "error"}, cells : Seq(CellStates),
     mutation : [op : {"none", "append", "clear", "update"}, display : Displays,
                 wait : BOOLEAN, data : Nat]]

NoRun == [nb |-> "none", cell |-> "none", exec |-> 0, outs |-> <<>>, clear |-> FALSE]
NewRun(e) == [nb |-> e.nb, cell |-> e.cell, exec |-> e.exec, outs |-> <<>>, clear |-> FALSE]

NewCell(e) == [id |-> e.cell, type |-> e.type, source |-> e.at, outs |-> e.outs,
               status |-> "none", count |-> 0]
NewDocument(e) == [id |-> e.nb, version |-> e.at, kernel |-> 0, cells |-> <<>>]

(* A cell when its run begins, and when it ends. *)
Begun(c) == [c EXCEPT !.outs = <<>>, !.status = "running"]
Ended(c, outs, e) == [c EXCEPT !.outs = outs, !.status = e.status,
                               !.count = IF e.status = "ok" THEN e.at ELSE @]

(* Where a document or a cell is, by its id. *)
Places(members, id) == {i \in DOMAIN members : members[i].id = id}
Place(members, id) == CHOOSE i \in Places(members, id) : TRUE
CellsOf(docs, nb) == IF Places(docs, nb) = {} THEN <<>> ELSE docs[Place(docs, nb)].cells

Moved(cells, from, to) == InsertAt(RemoveAt(cells, from), to, cells[from])

Shows(output, display) == output.display = display
Redisplayed(outs, m) == [i \in DOMAIN outs |-> IF Shows(outs[i], m.display)
                                               THEN [outs[i] EXCEPT !.data = m.data] ELSE outs[i]]
Output(e) == [display |-> e.mutation.display, data |-> e.at]

-----------------------------------------------------------------------------
(* The host: every event that does not fit what is there is an error.      *)

NoFold == [docs |-> <<>>, active |-> [nb \in Notebooks |-> NoRun]]

HostCells(h, e) == CellsOf(h.docs, e.nb)
Running(h, e) == h.active[e.nb] # NoRun /\ h.active[e.nb].cell = e.cell /\ h.active[e.nb].exec = e.exec

Lawful(h, e) ==
    LET cells == HostCells(h, e)
    IN  /\ e.kind = "open" <=> Places(h.docs, e.nb) = {}
        /\ e.kind = "create" => /\ e.cell \in Cells /\ Places(cells, e.cell) = {}
                                /\ e.index \in 1 .. Len(cells) + 1
        /\ e.kind \in {"update", "delete"} => e.index \in Places(cells, e.cell)
        /\ e.kind = "move" => e.index \in Places(cells, e.cell) /\ e.to \in DOMAIN cells
        /\ e.kind = "execute" => /\ h.active[e.nb] = NoRun /\ e.exec = e.at
                                 /\ \E i \in Places(cells, e.cell) : cells[i].type = "code"
        /\ e.kind \in {"output", "end"} => Running(h, e) /\ Places(cells, e.cell) # {}
        /\ e.kind = "output" => e.mutation.op # "none"
        /\ e.kind = "kernel" =>
              /\ h.active[e.nb] = NoRun
              /\ \E d \in Places(h.docs, e.nb) : e.generation = h.docs[d].kernel + 1
        /\ e.kind = "reload" =>
              /\ h.active[e.nb] = NoRun
              /\ \A i, j \in DOMAIN e.cells : e.cells[i].id = e.cells[j].id => i = j

(* The events of a run are appended at once (executionSpecs).              *)
InItsRun(h, e) == h.active[e.nb] # NoRun => e.kind \in {"output", "end"}

(* The mutations of a run, as the fold applies them: a pending clear takes *)
(* effect with the next output or update.                                  *)
HostRun(run, e) ==
    LET m == e.mutation
        kept == IF run.clear THEN <<>> ELSE run.outs
    IN  CASE m.op = "append" -> [run EXCEPT !.outs = Append(kept, Output(e)), !.clear = FALSE]
          [] m.op = "clear" /\ m.wait -> [run EXCEPT !.clear = TRUE]
          [] m.op = "clear" /\ ~m.wait -> [run EXCEPT !.outs = <<>>, !.clear = FALSE]
          [] m.op = "update" -> [run EXCEPT !.outs = Redisplayed(kept, m), !.clear = FALSE]

HostCellsAfter(h, e) ==
    LET cells == HostCells(h, e)
        at == Place(cells, e.cell)
        run == HostRun(h.active[e.nb], e)
        shown == IF e.mutation.op # "update" THEN cells
                 ELSE [i \in DOMAIN cells |-> [cells[i] EXCEPT !.outs = Redisplayed(@, e.mutation)]]
    IN  CASE e.kind = "create" -> InsertAt(cells, e.index, NewCell(e))
          [] e.kind = "update" -> [cells EXCEPT ![e.index].source = e.at]
          [] e.kind = "delete" -> RemoveAt(cells, e.index)
          [] e.kind = "move" -> Moved(cells, e.index, e.to)
          [] e.kind = "execute" -> [cells EXCEPT ![at] = Begun(@)]
          [] e.kind = "output" -> [shown EXCEPT ![at].outs = run.outs]
          [] e.kind = "end" -> [cells EXCEPT ![at] = Ended(@, h.active[e.nb].outs, e)]
          [] e.kind = "reload" -> e.cells
          [] e.kind \in {"kernel", "open"} -> cells

Versioned == {"create", "update", "delete", "move", "end", "reload"}

HostDocument(h, e) ==
    [h.docs[Place(h.docs, e.nb)] EXCEPT
        !.cells = HostCellsAfter(h, e),
        !.kernel = IF e.kind = "kernel" THEN e.generation ELSE @,
        !.version = IF e.kind \in Versioned THEN e.at ELSE @]
HostActive(h, e) ==
    CASE e.kind = "execute" -> NewRun(e)
      [] e.kind = "output" -> HostRun(h.active[e.nb], e)
      [] e.kind = "end" -> NoRun
      [] OTHER -> h.active[e.nb]

HostApply(h, e) ==
    [docs |-> IF e.kind = "open" THEN Append(h.docs, NewDocument(e))
              ELSE [h.docs EXCEPT ![Place(h.docs, e.nb)] = HostDocument(h, e)],
     active |-> [h.active EXCEPT ![e.nb] = HostActive(h, e)]]

HostStates(events) ==
    LET st[n \in 0 .. Len(events)] == IF n = 0 THEN NoFold ELSE HostApply(st[n - 1], events[n])
    IN  st

foldNotebooks(events) == HostStates(events)[Len(events)]

Foldable(events) ==
    /\ events \in Seq(Events)
    /\ \A n \in DOMAIN events :
          LET h == HostStates(events)[n - 1]
          IN  events[n].at = n /\ Lawful(h, events[n]) /\ InItsRun(h, events[n])

ASSUME ViewsAssumption ==
    /\ IsFiniteSet(Cells)
    /\ \A events \in Histories : Foldable(events)
    /\ MaxNew \in Nat /\ MaxBatch \in Nat

-----------------------------------------------------------------------------
(* The browser's projector.  active is a set: it keeps the runs of any     *)
(* notebook, one for each notebook, cell and execution.                    *)

NoView == [docs |-> <<>>, active |-> {}, incomplete |-> FALSE, error |-> FALSE]

Known(v, e) == Places(v.docs, e.nb) # {}
ViewCells(v, e) == CellsOf(v.docs, e.nb)
Located(v, e) == Places(ViewCells(v, e), e.cell) # {}
ActiveRun(v, e) == {r \in v.active : r.nb = e.nb /\ r.cell = e.cell /\ r.exec = e.exec}

Incomplete(v) == [v EXCEPT !.incomplete = TRUE]
Incompatible(v) == [v EXCEPT !.error = TRUE]
WithCells(v, e, cells) == [v EXCEPT !.docs[Place(v.docs, e.nb)].cells = cells]
AtVersion(v, e) == [v EXCEPT !.docs[Place(v.docs, e.nb)].version = e.at]

ViewOpen(v, e) ==
    IF Known(v, e) THEN Incomplete(v) ELSE [v EXCEPT !.docs = Append(@, NewDocument(e))]

Applicable(v, e) ==
    LET cells == ViewCells(v, e)
    IN  /\ Known(v, e)
        /\ e.kind = "create" => Places(cells, e.cell) = {} /\ e.index \in 1 .. Len(cells) + 1
        /\ e.kind \in {"update", "delete", "move"} => e.index \in Places(cells, e.cell)
        /\ e.kind = "move" => e.to \in DOMAIN cells

ViewCell(v, e) ==
    LET cells == ViewCells(v, e)
    IN  IF ~Applicable(v, e) THEN Incomplete(v)
        ELSE AtVersion(WithCells(v, e,
               CASE e.kind = "create" -> InsertAt(cells, e.index, NewCell(e))
                 [] e.kind = "delete" -> RemoveAt(cells, e.index)
                 [] e.kind = "move" -> Moved(cells, e.index, e.to)
                 [] e.kind = "update" -> [cells EXCEPT ![e.index].source = e.at]), e)

ViewExecute(v, e) ==
    IF ~Located(v, e) THEN Incomplete(v)
    ELSE LET at == Place(ViewCells(v, e), e.cell)
         IN  [WithCells(v, e, [ViewCells(v, e) EXCEPT ![at] = Begun(@)])
              EXCEPT !.active = (@ \ ActiveRun(v, e)) \cup {NewRun(e)}]

(* The outputs a run keeps when the next one arrives, and the run after a  *)
(* mutation: a clear that waits changes no cell.                           *)
Kept_All(run) == run.outs   \* mutant
Kept(run) == IF run.clear THEN <<>> ELSE run.outs
ViewRun(run, e) ==
    LET m == e.mutation
    IN  CASE m.op = "append" -> [run EXCEPT !.outs = Append(Kept(run), Output(e)), !.clear = FALSE]
          [] m.op = "clear" /\ m.wait -> [run EXCEPT !.clear = TRUE]
          [] m.op = "clear" /\ ~m.wait -> [run EXCEPT !.outs = <<>>, !.clear = FALSE]
          [] m.op = "update" -> [run EXCEPT !.outs = Redisplayed(Kept(run), m), !.clear = FALSE]

(* replaceDisplayOutputs: an update reaches every cell of the document.    *)
Elsewhere(outs, m) == Redisplayed(outs, m)
ViewOutputCells(cells, run, e) ==
    CASE e.mutation.op = "update" ->
            [i \in DOMAIN cells |-> [cells[i] EXCEPT
                !.outs = IF cells[i].id = run.cell THEN run.outs ELSE Elsewhere(@, e.mutation)]]
      [] e.mutation.op = "clear" /\ e.mutation.wait -> cells
      [] OTHER -> LET at == Place(cells, e.cell)
                  IN  [cells EXCEPT ![at] = [@ EXCEPT !.outs = run.outs, !.status = "running"]]

ViewOutput(v, e) ==
    IF ActiveRun(v, e) = {} \/ ~Located(v, e) THEN Incomplete(v)
    ELSE LET old == CHOOSE r \in ActiveRun(v, e) : TRUE
             run == ViewRun(old, e)
         IN  [WithCells(v, e, ViewOutputCells(ViewCells(v, e), run, e))
              EXCEPT !.active = (@ \ {old}) \cup {run}]

ViewEnd(v, e) ==
    IF ActiveRun(v, e) = {} \/ ~Located(v, e) THEN Incomplete(v)
    ELSE LET run == CHOOSE r \in ActiveRun(v, e) : TRUE
             at == Place(ViewCells(v, e), e.cell)
         IN  [AtVersion(WithCells(v, e, [ViewCells(v, e) EXCEPT ![at] = Ended(@, run.outs, e)]), e)
              EXCEPT !.active = @ \ {run}]

(* A document that is not there is a missing past; a generation that does  *)
(* not follow the last one is a history of another revision.               *)
Unknown_Ignored(v) == v   \* mutant
Unknown(v) == Incomplete(v)
ViewKernel(v, e) ==
    IF ~Known(v, e) THEN Unknown(v)
    ELSE IF \E d \in Places(v.docs, e.nb) : e.generation # v.docs[d].kernel + 1 THEN Incompatible(v)
    ELSE [v EXCEPT !.docs[Place(v.docs, e.nb)].kernel = e.generation]

ViewReload(v, e) ==
    IF ~Known(v, e) THEN Incomplete(v)
    ELSE [AtVersion(WithCells(v, e, e.cells), e)
          EXCEPT !.active = {r \in @ : r.nb # e.nb}]

ViewApply(v, e) ==
    CASE v.error -> v
      [] ~v.error /\ e.kind = "open" -> ViewOpen(v, e)
      [] ~v.error /\ e.kind \in {"create", "update", "delete", "move"} -> ViewCell(v, e)
      [] ~v.error /\ e.kind = "execute" -> ViewExecute(v, e)
      [] ~v.error /\ e.kind = "output" -> ViewOutput(v, e)
      [] ~v.error /\ e.kind = "end" -> ViewEnd(v, e)
      [] ~v.error /\ e.kind = "kernel" -> ViewKernel(v, e)
      [] ~v.error /\ e.kind = "reload" -> ViewReload(v, e)

(* The events at some places of the log, folded in order from a state.     *)
ViewStates(events, v, places) ==
    LET st[n \in 0 .. Len(events)] ==
          IF n = 0 THEN v
          ELSE IF n \in places THEN ViewApply(st[n - 1], events[n]) ELSE st[n - 1]
    IN  st

InOrder(v, places) == ViewStates(log, v, places)[Len(log)]
Largest(places) == IF places = {} THEN 0 ELSE Max(places)
rebuild(places) == InOrder(NoView, places)

-----------------------------------------------------------------------------
(* The log grows by one lawful event. *)

Blank == [at |-> Len(log) + 1, nb |-> "none", cell |-> "none", kind |-> "none", type |-> "code",
          index |-> 1, to |-> 1, exec |-> 0, outs |-> <<>>, generation |-> 0, status |-> "none",
          cells |-> <<>>, mutation |-> [op |-> "none", display |-> "none", wait |-> FALSE, data |-> 0]]

Mutations ==
    {[op |-> "append", display |-> d, wait |-> FALSE, data |-> Blank.at] : d \in {"none", "display"}}
    \cup {[op |-> "clear", display |-> "none", wait |-> w, data |-> 0] : w \in BOOLEAN}
    \cup {[op |-> "update", display |-> "display", wait |-> FALSE, data |-> Blank.at]}

Reloaded(nb) ==
    {<<>>} \cup {<<NewCell([Blank EXCEPT !.cell = c,
                            !.outs = <<[display |-> "display", data |-> Blank.at]>>])>> : c \in Cells}

Candidates ==
    LET h == folded
        For(nb) == [Blank EXCEPT !.nb = nb]
        Of(nb, c) == [For(nb) EXCEPT !.cell = c]
    IN  UNION {
          {[For(nb) EXCEPT !.kind = "open"]}
          \cup {[Of(nb, c) EXCEPT !.kind = "create", !.type = t, !.index = i] :
                   c \in Cells, t \in {"code", "markdown"}, i \in 1 .. Cardinality(Cells)}
          \cup {[Of(nb, c) EXCEPT !.kind = k, !.index = i] :
                   c \in Cells, k \in {"update", "delete"}, i \in 1 .. Cardinality(Cells)}
          \cup {[Of(nb, c) EXCEPT !.kind = "move", !.index = i, !.to = j] :
                   c \in Cells, i, j \in 1 .. Cardinality(Cells)}
          \cup {[Of(nb, c) EXCEPT !.kind = "execute", !.exec = Blank.at] : c \in Cells}
          \cup {[Of(nb, h.active[nb].cell) EXCEPT !.kind = "output", !.exec = h.active[nb].exec,
                                                  !.mutation = m] : m \in Mutations}
          \cup {[Of(nb, h.active[nb].cell) EXCEPT !.kind = "end", !.exec = h.active[nb].exec,
                                                  !.status = s] : s \in {"ok", "error"}}
          \cup {[For(nb) EXCEPT !.kind = "kernel", !.generation = g] : g \in 1 .. Len(log)}
          \cup {[For(nb) EXCEPT !.kind = "reload", !.cells = cs] : cs \in Reloaded(nb)} : nb \in Notebooks}

Record(e) ==
    /\ recorded < MaxNew /\ recorded' = recorded + 1
    /\ e \in Events /\ e.at = Len(log) + 1
    /\ Lawful(folded, e) /\ InItsRun(folded, e)
    /\ log' = Append(log, e) /\ folded' = HostApply(folded, e)
    /\ UNCHANGED <<loaded, view, maxSeq>>

(* apply: a batch.  An event the builder has is passed over when it is the *)
(* same object; one that replaces it, or comes before the last one folded, *)
(* makes it fold everything again.                                         *)
Late_Never(batch) == FALSE   \* mutant
Late(batch) == \E n \in batch : n <= maxSeq
Rebuilt(places) == view' = rebuild(places) /\ maxSeq' = Largest(places)

Apply(batch, again) ==
    /\ batch \cap loaded = {} /\ again \subseteq loaded /\ batch \cup again # {}
    /\ Cardinality(batch \cup again) <= MaxBatch
    /\ loaded' = loaded \cup batch
    /\ IF again # {} \/ Late(batch) THEN Rebuilt(loaded')
       ELSE /\ view' = InOrder(view, batch)
            /\ maxSeq' = Largest(batch)
    /\ UNCHANGED <<log, recorded, folded>>

(* replace: another window, or a first one. *)
Replace(first) ==
    /\ loaded' = first .. Len(log)
    /\ Rebuilt(loaded')
    /\ UNCHANGED <<log, recorded, folded>>

Init ==
    /\ log \in Histories /\ folded = foldNotebooks(log) /\ recorded = 0
    /\ loaded = {} /\ view = NoView /\ maxSeq = 0

Next ==
    \/ \E e \in Candidates : Record(e)
    \/ \E batch \in SUBSET (DOMAIN log \ loaded) : \E again \in {{}} \cup {{n} : n \in loaded} : Apply(batch, again)
    \/ \E first \in 1 .. Len(log) + 1 : Replace(first)

Spec == Init /\ [][Next]_vars

-----------------------------------------------------------------------------
(* Properties. *)

TypeOK ==
    /\ loaded \subseteq DOMAIN log
    /\ maxSeq = Largest(loaded)
    /\ \A r \in view.active : r.nb \in Notebooks /\ r.cell \in Cells /\ r.exec \in DOMAIN log

(* However the events came in, the builder shows what folding them in      *)
(* order shows: the incremental path never differs from a rebuild.         *)
BatchesDoNotMatter == TypeOK /\ view = rebuild(loaded)

IsTail == \E first \in 1 .. Len(log) + 1 : loaded = first .. Len(log)

(* A browser that has only the end of the log says so when it has events   *)
(* of a notebook that it cannot show, and does not take the missing past   *)
(* for a history of another revision.                                      *)
MissingPastIsSaid ==
    IsTail => /\ \A n \in loaded : Places(view.docs, log[n].nb) = {} => view.incomplete
              /\ ~view.error

(* A browser that has the whole log shows exactly the documents the host   *)
(* folds, and claims neither a missing past nor an incompatible one; one   *)
(* that has only its end shows no document that differs from the host's,   *)
(* and says that there is more.                                            *)
ShownDocumentsAreTrue ==
    /\ loaded = DOMAIN log =>
          view.docs = folded.docs /\ ~view.incomplete /\ ~view.error
    /\ IsTail => \A d \in DOMAIN view.docs : \E h \in DOMAIN folded.docs :
                   view.docs[d] = folded.docs[h]
    /\ MissingPastIsSaid
=============================================================================
