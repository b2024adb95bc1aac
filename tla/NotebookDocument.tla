-------------------------- MODULE NotebookDocument --------------------------
(***************************************************************************)
(* One notebook that a session has open: the `.ipynb` file, the projection *)
(* folded from the process-local events, and the calls in flight on it.    *)
(*                                                                         *)
(* Document calls (edit, insert, delete, move, copy, reload) go through    *)
(* one FIFO queue, runs through the queue of the live kernel.  The queues  *)
(* are independent, so a run and a document call interleave at every       *)
(* await.  Each of them reads the file behind a version fence, computes a  *)
(* replacement and publishes it by compare-and-swap on the file version;   *)
(* only then is the event appended from which the projection is folded.    *)
(*                                                                         *)
(* A revision of the file is its index in `files`; `onDisk` is the current *)
(* one, 0 when the file is absent.  Cell ids are numbers (`cell-1`, ...),  *)
(* sources and outputs are opaque values, positions count from 1.          *)
(***************************************************************************)
EXTENDS Naturals, FiniteSets, SequencesExt

CONSTANTS
    Ops,            \* slots for calls
    Requests,       \* what a call may ask
    CellIds,        \* numbers of cell ids, a bound on minting
    CellTypes, Sources, Outputs,
    NoOutput,       \* a cell that has never run
    FailureOutput,  \* what a cancelled or failed run leaves in its cell
    OpenedCells,    \* content when the notebook is opened
    ExternalDocs,   \* contents other programs may write
    MaxRevisions,   \* bound: other programs stop writing here
    MaxRestarts,    \* bound on restarts of the service
    Faults,         \* which of "external", "unlink", "abort", "io", "retire"
    PromptReplies   \* file system replies arrive in the order of the effects

VARIABLES
    files,      \* every content the file has had
    onDisk,     \* the revision that is on disk, 0 = no file
    proj,       \* the projection: its fileVersion and cells
    usedIds,    \* cell ids the appended events mention
    op,         \* the calls
    kernel,     \* there is a kernel record in state active
    restarts

vars == <<files, onDisk, proj, usedIds, op, kernel, restarts>>

-----------------------------------------------------------------------------
(* Documents. *)

(* An operator named X_ and a word is X with a mistake in it; nothing uses  *)
(* it, it is substituted for X to see that a property notices.             *)

Cell == [id : CellIds, type : CellTypes, src : Sources, out : Outputs]

Has(cells, id) == \E i \in DOMAIN cells : cells[i].id = id
IndexOf(cells, id) == CHOOSE i \in DOMAIN cells : cells[i].id = id
CellOf(cells, id) == cells[IndexOf(cells, id)]

IsDocument(cells) == \A i, j \in DOMAIN cells : cells[i].id = cells[j].id => i = j

WithSource(cells, i, src) == ReplaceAt(cells, i, [cells[i] EXCEPT !.src = src])
WithOutput(cells, i, out) == ReplaceAt(cells, i, [cells[i] EXCEPT !.out = out])
Moved(cells, from, to) == InsertAt(RemoveAt(cells, from), to, cells[from])
ClonedCell_KeepsId(cell, id) == cell
ClonedCell(cell, id) == [cell EXCEPT !.id = id]

Mutations == {"edit", "insert", "delete", "move", "copy"}
Kinds     == Mutations \cup {"run", "reload"}
Request   == [kind : Kinds, id : CellIds \cup {0}, type : CellTypes,
              src : Sources, to : Nat]

Pcs  == {"idle", "waiting", "queued", "reading", "running", "ended",
         "admitting", "statted", "writing", "landed", "adrift", "settled"}
Results == {"none", "ok", "conflict", "missing", "invalid", "refused",
            "unavailable", "aborted", "failed"}

AnyRequest == CHOOSE r \in Requests : TRUE
AnyCell    == [id |-> CHOOSE i \in CellIds : TRUE,
               type |-> CHOOSE t \in CellTypes : TRUE,
               src |-> CHOOSE s \in Sources : TRUE, out |-> NoOutput]
NoEvent    == [kind |-> "none", at |-> 0, to |-> 0, cell |-> AnyCell]
Event      == [kind : {"none", "update", "create", "delete", "move", "execute"},
               at : Nat, to : Nat, cell : Cell]

Idle == [pc |-> "idle", req |-> AnyRequest, newId |-> 0, ahead |-> {},
         base |-> 0, was |-> AnyCell, ev |-> NoEvent, doc |-> <<>>, ver |-> 0,
         cut |-> FALSE, res |-> "none"]

CallRecord == [pc : Pcs, req : Requests, newId : CellIds \cup {0}, ahead : SUBSET Ops,
               base : Nat, was : Cell, ev : Event, doc : Seq(Cell), ver : Nat,
               cut : BOOLEAN, res : Results]

ASSUME ConstantsAssumption ==
    /\ Requests \subseteq Request /\ Requests # {}
    /\ CellIds \subseteq Nat \ {0} /\ CellIds # {}
    /\ CellTypes # {} /\ "code" \in CellTypes
    /\ Sources # {}
    /\ {NoOutput, FailureOutput} \subseteq Outputs
    /\ MaxRevisions \in Nat /\ MaxRestarts \in Nat
    /\ OpenedCells \in Seq(Cell) /\ IsDocument(OpenedCells)
    /\ \A d \in ExternalDocs : d \in Seq(Cell) /\ IsDocument(d)
    /\ PromptReplies \in BOOLEAN

-----------------------------------------------------------------------------
(* The fold: which events it accepts, and the cells that result. *)

Foldable(ev, cells) ==
    \/ /\ ev.kind = "update"
       /\ ev.at \in DOMAIN cells
       /\ cells[ev.at].id = ev.cell.id
       /\ cells[ev.at].type = ev.cell.type
    \/ /\ ev.kind = "create"
       /\ ev.at \in 1..(Len(cells) + 1)
       /\ ~Has(cells, ev.cell.id)
    \/ /\ ev.kind = "delete"
       /\ ev.at \in DOMAIN cells
       /\ cells[ev.at].id = ev.cell.id
    \/ /\ ev.kind = "move"
       /\ {ev.at, ev.to} \subseteq DOMAIN cells
       /\ cells[ev.at].id = ev.cell.id
    \/ /\ ev.kind = "execute"
       /\ Has(cells, ev.cell.id)
       /\ CellOf(cells, ev.cell.id).type = "code"

Fold(ev, cells) ==
    CASE ev.kind = "update"  -> WithSource(cells, ev.at, ev.cell.src)
      [] ev.kind = "create"  -> InsertAt(cells, ev.at, ev.cell)
      [] ev.kind = "delete"  -> RemoveAt(cells, ev.at)
      [] ev.kind = "move"    -> Moved(cells, ev.at, ev.to)
      [] ev.kind = "execute" -> WithOutput(cells, IndexOf(cells, ev.cell.id), ev.cell.out)
      [] OTHER               -> cells

(* Where an inserted or copied cell goes: behind the cell the call names. *)
InsertPosition_OffByOne(r, cells) == IF r.id = 0 THEN 1 ELSE IndexOf(cells, r.id)
InsertPosition(r, cells) == IF r.id = 0 THEN 1 ELSE IndexOf(cells, r.id) + 1

(* The event a document call builds from the projection it starts on; a    *)
(* copy carries the cell as it was when the call was made.                 *)
EventOf(c, cells) ==
    LET r == c.req
        i == IndexOf(cells, r.id)
    IN  CASE r.kind = "edit"   -> [kind |-> "update", at |-> i, to |-> 0,
                                   cell |-> [cells[i] EXCEPT !.src = r.src]]
          [] r.kind = "insert" -> [kind |-> "create", to |-> 0,
                                   at |-> InsertPosition(r, cells),
                                   cell |-> [id |-> c.newId, type |-> r.type,
                                             src |-> r.src, out |-> NoOutput]]
          [] r.kind = "delete" -> [kind |-> "delete", at |-> i, to |-> 0, cell |-> c.was]
          [] r.kind = "move"   -> [kind |-> "move", at |-> i, to |-> r.to, cell |-> c.was]
          [] r.kind = "copy"   -> [kind |-> "create", to |-> 0,
                                   at |-> InsertPosition(r, cells),
                                   cell |-> [c.was EXCEPT !.id = c.newId]]

(* The same call on the parsed file: when it is refused, and its result.   *)
Rewritable_LastToo(c, cells) ==
    LET r == c.req
    IN  \/ r.kind \in {"edit", "delete"} /\ Has(cells, r.id)
        \/ r.kind = "insert" /\ c.ev.at <= Len(cells) + 1 /\ ~Has(cells, c.newId)
        \/ r.kind = "move"   /\ Has(cells, r.id) /\ r.to \in DOMAIN cells
        \/ r.kind = "copy"   /\ Has(cells, r.id) /\ ~Has(cells, c.newId)
Rewritable(c, cells) ==
    LET r == c.req
    IN  \/ r.kind = "edit"   /\ Has(cells, r.id)
        \/ r.kind = "insert" /\ c.ev.at <= Len(cells) + 1 /\ ~Has(cells, c.newId)
        \/ r.kind = "delete" /\ Len(cells) > 1 /\ Has(cells, r.id)
        \/ r.kind = "move"   /\ Has(cells, r.id) /\ r.to \in DOMAIN cells
        \/ r.kind = "copy"   /\ Has(cells, r.id) /\ ~Has(cells, c.newId)

Rewrite(c, cells) ==
    LET r == c.req
        i == IndexOf(cells, r.id)
    IN  CASE r.kind = "edit"   -> WithSource(cells, i, r.src)
          [] r.kind = "insert" -> InsertAt(cells, c.ev.at,
                                     [id |-> c.newId, type |-> r.type,
                                      src |-> r.src, out |-> NoOutput])
          [] r.kind = "delete" -> RemoveAt(cells, i)
          [] r.kind = "move"   -> Moved(cells, i, r.to)
          [] r.kind = "copy"   -> InsertAt(cells, i + 1, ClonedCell(cells[i], c.newId))

-----------------------------------------------------------------------------
Init ==
    /\ files = <<OpenedCells>>
    /\ onDisk = 1
    /\ proj = [ver |-> 1, cells |-> OpenedCells]
    /\ usedIds = {OpenedCells[i].id : i \in DOMAIN OpenedCells}
    /\ op = [o \in Ops |-> Idle]
    /\ kernel = FALSE
    /\ restarts = 0

IsRun(o)     == op[o].req.kind = "run"
IsReload(o)  == op[o].req.kind = "reload"
Mutates(o)   == op[o].req.kind \in Mutations
Pending(o)   == op[o].pc \notin {"idle", "adrift", "settled"}
At(o, pc)    == op[o].pc = pc
ActiveExecution == \E o \in Ops : At(o, "running")

(* A queue is a chain of promises: a task waits for every earlier one that *)
(* had not settled when it joined.  A kernel brings a queue of its own: runs *)
(* cut off from an earlier kernel are not in it.                           *)
Ahead(kind) ==
    {o \in Ops : Pending(o) /\ ~op[o].cut /\ (IsRun(o) <=> kind = "run")}
ItsTurn_Anytime(o) == TRUE
ItsTurn_AfterSuccess(o) == \A p \in op[o].ahead : op[p].res = "ok"
ItsTurn(o)  == \A p \in op[o].ahead : ~Pending(p)

(* With prompt replies no call reaches the file system while a reply that  *)
(* decides what the projection shows next is still on its way.             *)
Quiet == PromptReplies => \A o \in Ops : op[o].pc \notin {"landed", "statted"}

(* The version fence: the file is still the revision the call started on. *)
Current_IfPresent(o) ==
    onDisk # 0 /\ (IsRun(o) => Has(files[onDisk], op[o].req.id))
Current(o) == onDisk = op[o].base

(* A call that has its answer; of its fields only the revision it wrote is  *)
(* kept, as history for UnshownWritesAreAccountedFor.                      *)
Settled(o, result) ==
    [Idle EXCEPT !.pc = "settled", !.req = op[o].req, !.ver = op[o].ver, !.res = result]
Settle(o, result) == op' = [op EXCEPT ![o] = Settled(o, result)]

(* Closing the kernel record rejects the runs bound to it; a write already *)
(* submitted stays out, cut off from its kernel.                           *)
AfterRetirement(o) ==
    IF ~IsRun(o) THEN op[o]
    ELSE IF op[o].pc \in {"queued", "reading", "running", "ended"}
         THEN Settled(o, "unavailable")
    ELSE IF op[o].pc \in {"writing", "landed"} THEN [op[o] EXCEPT !.cut = TRUE]
    ELSE op[o]
SettleAndRetire(o, result) ==
    /\ op' = [p \in Ops |-> IF p = o THEN Settled(o, result) ELSE AfterRetirement(p)]
    /\ kernel' = FALSE

(* A run whose commit fails takes its kernel with it. *)
Fail(o, result) ==
    IF IsRun(o) THEN SettleAndRetire(o, result)
                ELSE Settle(o, result) /\ UNCHANGED kernel

-----------------------------------------------------------------------------
(* Calls. *)

Callable(r) ==
    CASE r.kind \in {"edit", "move", "copy"} -> Has(proj.cells, r.id)
      [] r.kind = "insert" -> r.id = 0 \/ Has(proj.cells, r.id)
      [] r.kind = "delete" -> Has(proj.cells, r.id) /\ Len(proj.cells) > 1
      [] r.kind = "run"    -> Has(proj.cells, r.id) /\ CellOf(proj.cells, r.id).type = "code"
      [] r.kind = "reload" -> TRUE

(* The smallest number that no appended event and no pending call uses. *)
Taken == usedIds \cup {op[o].newId : o \in {p \in Ops : Pending(p)}}
IsNextId(n) == n \notin Taken /\ \A m \in CellIds : m < n => m \in Taken

Call(o, r, n) ==
    /\ At(o, "idle")
    /\ Callable(r)
    /\ IF r.kind \in {"insert", "copy"} THEN n \in CellIds /\ IsNextId(n) ELSE n = 0
    /\ op' = [op EXCEPT ![o] =
                [Idle EXCEPT !.pc = IF r.kind = "run" /\ ~kernel THEN "waiting" ELSE "queued",
                             !.req = r, !.newId = n, !.ahead = Ahead(r.kind),
                             !.was = IF r.kind \in {"delete", "move", "copy"}
                                     THEN CellOf(proj.cells, r.id) ELSE AnyCell]]
    /\ UNCHANGED <<files, onDisk, proj, usedIds, kernel, restarts>>

MutationStart(o) ==
    /\ At(o, "queued") /\ Mutates(o) /\ ItsTurn(o)
    /\ LET r == op[o].req
           anchored == Has(proj.cells, r.id) \/ (r.kind = "insert" /\ r.id = 0)
           moves == r.kind = "move"
       IN  \/ ~anchored /\ Settle(o, "missing")
           \/ anchored /\ moves /\ r.to \notin DOMAIN proj.cells /\ Settle(o, "invalid")
           \/ anchored /\ moves /\ r.to = IndexOf(proj.cells, r.id) /\ Settle(o, "ok")
           \/ /\ anchored
              /\ moves => r.to \in DOMAIN proj.cells \ {IndexOf(proj.cells, r.id)}
              /\ op' = [op EXCEPT ![o] = [@ EXCEPT !.pc = "reading", !.base = proj.ver,
                                                   !.ev = EventOf(op[o], proj.cells)]]
    /\ UNCHANGED <<files, onDisk, proj, usedIds, kernel, restarts>>

MutationConfirm(o) ==
    /\ At(o, "reading") /\ Mutates(o) /\ Quiet
    /\ LET accepted == /\ Rewritable(op[o], files[onDisk])
                       /\ Foldable(op[o].ev, proj.cells)
       IN  \/ ~Current(o) /\ Settle(o, "conflict")
           \/ Current(o) /\ ~accepted /\ Settle(o, "invalid")
           \/ /\ Current(o) /\ accepted
              /\ op' = [op EXCEPT ![o] = [@ EXCEPT !.pc = "writing",
                                                   !.doc = Rewrite(op[o], files[onDisk])]]
    /\ UNCHANGED <<files, onDisk, proj, usedIds, kernel, restarts>>

-----------------------------------------------------------------------------
(* Publication: the compare-and-swap write, its reply, and the events. *)

Replace(o) ==
    /\ files' = Append(files, op[o].doc)
    /\ onDisk' = Len(files) + 1

Land(o) ==
    /\ At(o, "writing") /\ Quiet
    /\ Current(o)
    /\ Replace(o)
    /\ op' = [op EXCEPT ![o] = [@ EXCEPT !.pc = "landed", !.ver = Len(files) + 1]]
    /\ UNCHANGED <<proj, usedIds, kernel, restarts>>

WriteConflict(o) ==
    /\ At(o, "writing") /\ Quiet
    /\ ~Current(o)
    /\ Fail(o, "conflict")
    /\ UNCHANGED <<files, onDisk, proj, usedIds, restarts>>

(* The write or its reply is lost: an I/O error, the deadline, the caller's *)
(* signal, or the signal of a kernel that was retired meanwhile.            *)
MayBeLost(o) == "io" \in Faults \/ op[o].cut \/ ("abort" \in Faults /\ ~IsRun(o))

WriteFails(o) ==
    /\ op[o].pc \in {"writing", "landed"}
    /\ MayBeLost(o)
    /\ Fail(o, "failed")
    /\ UNCHANGED <<files, onDisk, proj, usedIds, restarts>>

Commit(o) ==
    /\ At(o, "landed")
    /\ LET ev == op[o].ev
           fatal == ev.kind = "execute" /\ ev.cell.out = FailureOutput
       IN  \/ /\ Foldable(ev, proj.cells)
              /\ proj' = [ver |-> op[o].ver, cells |-> Fold(ev, proj.cells)]
              /\ usedIds' = IF ev.kind = "execute" THEN usedIds ELSE usedIds \cup {ev.cell.id}
              /\ IF fatal THEN SettleAndRetire(o, "ok")
                          ELSE Settle(o, "ok") /\ UNCHANGED kernel
           \/ /\ ~Foldable(ev, proj.cells)
              /\ Fail(o, "invalid")
              /\ UNCHANGED <<proj, usedIds>>
    /\ UNCHANGED <<files, onDisk, restarts>>

-----------------------------------------------------------------------------
(* Reload. *)

ReloadStart(o) ==
    /\ At(o, "queued") /\ IsReload(o) /\ ItsTurn(o)
    /\ IF ActiveExecution THEN Settle(o, "refused")
                          ELSE op' = [op EXCEPT ![o].pc = "reading"]
    /\ UNCHANGED <<files, onDisk, proj, usedIds, kernel, restarts>>

ReloadConfirm(o) ==
    /\ At(o, "reading") /\ IsReload(o) /\ Quiet
    /\ IF onDisk = 0
       THEN Settle(o, "conflict")
       ELSE op' = [op EXCEPT ![o] = [@ EXCEPT !.pc = "admitting", !.ver = onDisk,
                                              !.doc = files[onDisk]]]
    /\ UNCHANGED <<files, onDisk, proj, usedIds, kernel, restarts>>

StatConfirms_IfPresent(o) == onDisk # 0
StatConfirms(o) == onDisk = op[o].ver

ReloadStat(o) ==
    /\ At(o, "admitting") /\ Quiet
    /\ IF StatConfirms(o) THEN op' = [op EXCEPT ![o].pc = "statted"]
                          ELSE Settle(o, "conflict")
    /\ UNCHANGED <<files, onDisk, proj, usedIds, kernel, restarts>>

ReloadAppend(o) ==
    /\ At(o, "statted")
    /\ \/ ActiveExecution /\ Settle(o, "refused") /\ UNCHANGED <<proj, kernel>>
       \/ /\ ~ActiveExecution
          /\ proj' = [ver |-> op[o].ver, cells |-> op[o].doc]
          /\ SettleAndRetire(o, "ok")
    /\ UNCHANGED <<files, onDisk, usedIds, restarts>>

-----------------------------------------------------------------------------
(* Runs. *)

(* A kernel starts for the waiting runs once the queue of the previous one *)
(* has settled.                                                            *)
KernelWorkJoined == \A o \in Ops : IsRun(o) => op[o].pc \notin {"writing", "landed"}

StartKernel ==
    /\ ~kernel
    /\ \E o \in Ops : At(o, "waiting")
    /\ KernelWorkJoined
    /\ \/ /\ kernel' = TRUE
          /\ op' = [o \in Ops |-> IF At(o, "waiting") THEN [op[o] EXCEPT !.pc = "queued"]
                                                      ELSE op[o]]
       \/ /\ "retire" \in Faults
          /\ op' = [o \in Ops |-> IF At(o, "waiting") THEN Settled(o, "unavailable")
                                                      ELSE op[o]]
          /\ UNCHANGED kernel
    /\ UNCHANGED <<files, onDisk, proj, usedIds, restarts>>

RunStart(o) ==
    /\ At(o, "queued") /\ IsRun(o) /\ ItsTurn(o)
    /\ IF Has(proj.cells, op[o].req.id)
       THEN op' = [op EXCEPT ![o] = [@ EXCEPT !.pc = "reading", !.base = proj.ver,
                                              !.was = CellOf(proj.cells, op[o].req.id)]]
       ELSE Settle(o, "missing")
    /\ UNCHANGED <<files, onDisk, proj, usedIds, kernel, restarts>>

RunConfirm(o) ==
    /\ At(o, "reading") /\ IsRun(o) /\ Quiet
    /\ IF Current(o)
       THEN op' = [op EXCEPT ![o] = [@ EXCEPT !.pc = "running", !.doc = files[onDisk]]]
       ELSE Settle(o, "conflict")
    /\ UNCHANGED <<files, onDisk, proj, usedIds, kernel, restarts>>

RunEnds(o, out) ==
    /\ At(o, "running")
    /\ out = FailureOutput => "abort" \in Faults
    /\ op' = [op EXCEPT ![o] = [@ EXCEPT !.pc = "ended",
                                         !.ev = [kind |-> "execute", at |-> 0, to |-> 0,
                                                 cell |-> [op[o].was EXCEPT !.out = out]]]]
    /\ UNCHANGED <<files, onDisk, proj, usedIds, kernel, restarts>>

RunPrepare(o) ==
    /\ At(o, "ended")
    /\ IF Foldable(op[o].ev, op[o].doc) /\ Foldable(op[o].ev, proj.cells)
       THEN op' = [op EXCEPT ![o] = [@ EXCEPT
                      !.pc = "writing",
                      !.doc = WithOutput(op[o].doc, IndexOf(op[o].doc, op[o].req.id),
                                         op[o].ev.cell.out)]]
       ELSE Settle(o, "missing")
    /\ UNCHANGED <<files, onDisk, proj, usedIds, kernel, restarts>>

-----------------------------------------------------------------------------
(* Cancellation, retirement, other programs, restart of the service. *)

Abort(o) ==
    /\ "abort" \in Faults
    /\ op[o].pc \in {"waiting", "queued", "reading", "admitting", "statted"}
    /\ Settle(o, "aborted")
    /\ UNCHANGED <<files, onDisk, proj, usedIds, kernel, restarts>>

RetireKernel ==
    /\ "retire" \in Faults /\ kernel
    /\ op' = [o \in Ops |-> AfterRetirement(o)]
    /\ kernel' = FALSE
    /\ UNCHANGED <<files, onDisk, proj, usedIds, restarts>>

ExternalWrite(d) ==
    /\ "external" \in Faults /\ Len(files) < MaxRevisions
    /\ files' = Append(files, d)
    /\ onDisk' = Len(files) + 1
    /\ UNCHANGED <<proj, usedIds, op, kernel, restarts>>

ExternalUnlink ==
    /\ "unlink" \in Faults /\ onDisk # 0
    /\ onDisk' = 0
    /\ UNCHANGED <<files, proj, usedIds, op, kernel, restarts>>

(* The service is disposed and a new one serves the same session: the events *)
(* survive, the calls are rejected, a submitted write may still land.        *)
Restart ==
    /\ restarts < MaxRestarts
    /\ restarts' = restarts + 1
    /\ op' = [o \in Ops |-> IF At(o, "writing") THEN [op[o] EXCEPT !.pc = "adrift"]
                            ELSE IF Pending(o) THEN Settled(o, "unavailable")
                            ELSE op[o]]
    /\ kernel' = FALSE
    /\ UNCHANGED <<files, onDisk, proj, usedIds>>

Drift(o) ==
    /\ At(o, "adrift")
    /\ \/ Current(o) /\ Replace(o)
       \/ UNCHANGED <<files, onDisk>>
    /\ Settle(o, "unavailable")
    /\ UNCHANGED <<proj, usedIds, kernel, restarts>>

Step(o) ==
    \/ MutationStart(o) \/ MutationConfirm(o)
    \/ Land(o) \/ WriteConflict(o) \/ Commit(o)
    \/ ReloadStart(o) \/ ReloadConfirm(o) \/ ReloadStat(o) \/ ReloadAppend(o)
    \/ RunStart(o) \/ RunConfirm(o) \/ RunPrepare(o)
    \/ \E out \in Outputs \ {NoOutput} : RunEnds(o, out)
    \/ Drift(o)

Next ==
    \/ \E o \in Ops : \/ \E r \in Requests, n \in CellIds \cup {0} : Call(o, r, n)
                      \/ Step(o) \/ WriteFails(o) \/ Abort(o)
    \/ StartKernel \/ RetireKernel
    \/ \E d \in ExternalDocs : ExternalWrite(d)
    \/ ExternalUnlink \/ Restart

Spec == Init /\ [][Next]_vars

(* Every await of the service is bounded by a deadline and every queue      *)
(* moves on when its head settles, so each call and the kernel start keep   *)
(* taking the steps they can; calls, faults and other programs are free.    *)
FairSpec ==
    /\ Spec
    /\ \A o \in Ops : WF_vars(Step(o))
    /\ WF_vars(StartKernel)

-----------------------------------------------------------------------------
(* Properties. *)

(* The types of the state. *)
TypeOK ==
    /\ files \in Seq(Seq(Cell))
    /\ onDisk \in 0..Len(files)
    /\ proj \in [ver : 1..Len(files), cells : Seq(Cell)]
    /\ usedIds \subseteq CellIds
    /\ op \in [Ops -> CallRecord]
    /\ kernel \in BOOLEAN
    /\ restarts \in 0..MaxRestarts

(* What the session shows is, cell for cell, the file revision it names    *)
(* (`fileVersion`), although one is folded from events and the other is    *)
(* written from the parsed file.                                           *)
ProjectionIsItsRevision == proj.cells = files[proj.ver]

(* No document, shown or on disk, has two cells with one id, and no call   *)
(* of the session, whatever it raced with, writes a document without cells. *)
DocumentsAreWellFormed ==
    /\ IsDocument(proj.cells)
    /\ \A v \in DOMAIN files : IsDocument(files[v])
    /\ \A o \in Ops : op[o].pc \in {"writing", "adrift"} => op[o].doc # <<>>

(* Runs on one notebook are serialized from the version fence to the       *)
(* commit, across retirement and recovery of the kernel as well.           *)
RunsAreSerialized ==
    \A o, p \in Ops :
        /\ IsRun(o) /\ op[o].pc \in {"reading", "running", "ended", "writing", "landed"}
        /\ IsRun(p) /\ op[p].pc \in {"reading", "running", "ended", "writing", "landed"}
        => o = p

(* When the file holds a write of the service that the projection does not *)
(* show, its caller still waits for the reply or was told that the write   *)
(* failed: whatever was lost, retired or aborted, no answer of success is  *)
(* taken back and no refused call has changed the file.  A reload beside a *)
(* run whose reply is late may put the projection back.                    *)
Reloaded == \E o \in Ops : IsReload(o) /\ op[o].res = "ok"
UnshownWritesAreAccountedFor ==
    \A o \in Ops :
        ~IsReload(o) /\ op[o].ver = onDisk /\ onDisk \notin {0, proj.ver}
        => At(o, "landed") \/ op[o].res \in {"failed", "unavailable"} \/ Reloaded

(* No lost update: the content that a write of the service replaces is     *)
(* exactly the content the projection shows at that moment, also when the  *)
(* write of a disposed service lands late.                                 *)
ReplacesOnlyWhatIsShown ==
    [][\A o \in Ops : Land(o) \/ (Drift(o) /\ Replace(o))
                        => files[onDisk] = proj.cells]_vars

(* The projection moves to newer revisions only: neither a reload nor the  *)
(* commit of a slow run puts it back.                                      *)
ProjectionNeverRegresses == [][proj'.ver >= proj.ver]_vars

(* An inserted or copied cell appears directly behind the cell the call    *)
(* named, whatever was queued before the call or ran beside it.            *)
InsertsFollowTheirAnchor ==
    [][\A o \in Ops :
        /\ At(o, "landed") /\ op[o].req.kind \in {"insert", "copy"} /\ op[o].req.id # 0
        /\ op'[o].res = "ok"
        => \E i \in DOMAIN proj.cells :
              /\ proj'.cells[i].id = op[o].req.id
              /\ proj'.cells[i + 1].id = op[o].newId]_vars

(* The outputs of a run are committed only beside the source that ran.     *)
OutputsBelongToTheSourceThatRan ==
    [][\A o \in Ops :
        At(o, "landed") /\ IsRun(o) /\ op'[o].res = "ok"
        => LET id == op[o].req.id
           IN  /\ CellOf(proj'.cells, id).src = op[o].was.src
               /\ CellOf(proj'.cells, id).out = op[o].ev.cell.out]_vars

(* The file and the projection behave as RevisionedDocument says: the       *)
(* event-folded projection always is a revision the file had, and moves on. *)
Revisions == INSTANCE RevisionedDocument
                WITH Contents <- Seq(Cell), history <- files, head <- onDisk,
                     view <- proj.ver, shown <- proj.cells
ImplementsRevisionedDocument == Revisions!Spec

(* Every call gets its answer. *)
CallsSettle == \A o \in Ops : Pending(o) ~> ~Pending(o)
=============================================================================
