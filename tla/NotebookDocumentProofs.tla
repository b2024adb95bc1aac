----------------------- MODULE NotebookDocumentProofs -----------------------
(***************************************************************************)
(* Proofs about NotebookDocument for every choice of its constants.        *)
(*                                                                         *)
(*   I    The projection and its revision, under two premises: no call     *)
(*        copies a cell (a copy carries the cell as it was when the call   *)
(*        was made, and does break the agreement), and replies of the file *)
(*        system are prompt.                                               *)
(*   II   Types, documents and commits, for any file system service; where *)
(*        outputs land rests on part I and has its premises.               *)
(*   III  The order of calls, the place of insertions, and what became of  *)
(*        the writes that are not shown, for any file system service.      *)
(***************************************************************************)
EXTENDS NotebookDocument, SequenceTheorems, TLAPS

(***************************************************************************)
(* Part I.  The projection and its revision.                               *)
(***************************************************************************)

Premises == PromptReplies /\ \A r \in Requests : r.kind # "copy"

-----------------------------------------------------------------------------
(* The inductive invariant.  What is known of one call, given the          *)
(* revisions f of the file and the revision v that the projection shows.   *)

CallInv(c, f, v) ==
    /\ c.pc \in {"running", "ended"} => c.req.kind = "run"
    /\ c.pc \in {"admitting", "statted"} => c.req.kind = "reload"
    /\ c.pc \in {"writing", "landed", "adrift"} => c.req.kind # "reload"
    /\ c.pc = "waiting" => c.req.kind = "run"
    /\ c.pc \notin {"idle", "settled"} =>
          /\ c.req.kind = "insert" => c.newId \in CellIds
          /\ c.req.kind \in {"delete", "move"} => c.was.id = c.req.id
    \* the fence: the call works on a revision no newer than the one shown
    /\ c.req.kind # "reload" /\ c.pc \in {"reading", "running", "ended", "writing", "landed", "adrift"}
          => c.base \in 1..v
    /\ c.req.kind \in Mutations /\ c.pc = "reading" =>
          /\ Has(f[c.base], c.req.id) \/ (c.req.kind = "insert" /\ c.req.id = 0)
          /\ c.ev = EventOf(c, f[c.base])
    \* a run takes its source from the cell that was shown when it started
    /\ c.req.kind = "run" /\ c.pc \in {"reading", "running", "ended", "writing", "landed", "adrift"} =>
          /\ Has(f[c.base], c.req.id)
          /\ c.was = CellOf(f[c.base], c.req.id)
    /\ c.pc \in {"running", "ended"} => c.doc = f[c.base]
    /\ c.pc = "ended" => c.ev.kind = "execute" /\ c.ev.cell.id = c.req.id
    \* what is written is what the event folds to
    /\ c.pc \in {"writing", "landed", "adrift"} => c.doc = Fold(c.ev, f[c.base])
    /\ c.pc \in {"landed", "admitting", "statted"} => c.ver \in DOMAIN f /\ c.doc = f[c.ver]
    \* while a reply is on its way the projection stands still
    /\ c.pc = "landed"  => v = c.base /\ c.base < c.ver
    /\ c.pc = "statted" => v <= c.ver

RepliesAlone ==
    \A o, p \in Ops : /\ op[o].pc \in {"landed", "statted"}
                      /\ op[p].pc \in {"landed", "statted"}
                      => o = p

IInv ==
    /\ TypeOK
    /\ onDisk \in {0, Len(files)}
    /\ ProjectionIsItsRevision
    /\ \A o \in Ops : CallInv(op[o], files, proj.ver)
    /\ RepliesAlone

-----------------------------------------------------------------------------
(* Documents: the cell an id names, and what the edits of a document return. *)

LEMMA IndexOfIsThere ==
    ASSUME NEW cells \in Seq(Cell), NEW id, Has(cells, id)
    PROVE  IndexOf(cells, id) \in 1..Len(cells) /\ cells[IndexOf(cells, id)].id = id
BY DEF Has, IndexOf

LEMMA CellFields ==
    ASSUME NEW c \in Cell
    PROVE  /\ c.id \in CellIds /\ c.type \in CellTypes
           /\ c.src \in Sources /\ c.out \in Outputs
BY DEF Cell

LEMMA WithSourceType ==
    ASSUME NEW cells \in Seq(Cell), NEW i \in 1..Len(cells), NEW src \in Sources
    PROVE  WithSource(cells, i, src) \in Seq(Cell)
<1>1. cells[i] \in Cell
  OBVIOUS
<1>2. [cells[i] EXCEPT !.src = src] \in Cell
  BY <1>1 DEF Cell
<1> QED
  BY <1>2 DEF WithSource, ReplaceAt

LEMMA WithOutputType ==
    ASSUME NEW cells \in Seq(Cell), NEW i \in 1..Len(cells), NEW out \in Outputs
    PROVE  WithOutput(cells, i, out) \in Seq(Cell)
<1>1. cells[i] \in Cell
  OBVIOUS
<1>2. [cells[i] EXCEPT !.out = out] \in Cell
  BY <1>1 DEF Cell
<1> QED
  BY <1>2 DEF WithOutput, ReplaceAt

LEMMA InsertAtType ==
    ASSUME NEW S, NEW s \in Seq(S), NEW i \in 1..(Len(s) + 1), NEW e \in S
    PROVE  InsertAt(s, i, e) \in Seq(S) /\ Len(InsertAt(s, i, e)) = Len(s) + 1
<1>1. SubSeq(s, 1, i - 1) \in Seq(S) /\ Len(SubSeq(s, 1, i - 1)) = i - 1
  OBVIOUS
<1>2. SubSeq(s, i, Len(s)) \in Seq(S) /\ Len(SubSeq(s, i, Len(s))) = Len(s) - i + 1
  OBVIOUS
<1>3. <<e>> \in Seq(S) /\ Len(<<e>>) = 1
  OBVIOUS
<1> DEFINE front == SubSeq(s, 1, i - 1)
           back  == SubSeq(s, i, Len(s))
<1>4. front \o <<e>> \in Seq(S) /\ Len(front \o <<e>>) = i
  BY <1>1, <1>3
<1>5. (front \o <<e>>) \o back \in Seq(S) /\ Len((front \o <<e>>) \o back) = Len(s) + 1
  <2> HIDE DEF front, back
  <2>1. back \in Seq(S) /\ Len(back) = Len(s) - i + 1
    BY <1>2 DEF back
  <2>2. Len(s) \in Nat /\ i \in Nat
    OBVIOUS
  <2> QED
    BY SMTT(40), <2>1, <2>2, <1>4
<1> QED
  BY <1>5 DEF InsertAt

LEMMA RemoveAtType ==
    ASSUME NEW S, NEW s \in Seq(S), NEW i \in 1..Len(s)
    PROVE  RemoveAt(s, i) \in Seq(S) /\ Len(RemoveAt(s, i)) = Len(s) - 1
<1>1. SubSeq(s, 1, i - 1) \in Seq(S) /\ Len(SubSeq(s, 1, i - 1)) = i - 1
  OBVIOUS
<1>2. SubSeq(s, i + 1, Len(s)) \in Seq(S) /\ Len(SubSeq(s, i + 1, Len(s))) = Len(s) - i
  OBVIOUS
<1> DEFINE front == SubSeq(s, 1, i - 1)
           back  == SubSeq(s, i + 1, Len(s))
<1>3. front \o back \in Seq(S) /\ Len(front \o back) = Len(s) - 1
  <2> HIDE DEF front, back
  <2>1. front \in Seq(S) /\ Len(front) = i - 1
    BY <1>1 DEF front
  <2>2. back \in Seq(S) /\ Len(back) = Len(s) - i
    BY <1>2 DEF back
  <2>3. Len(s) \in Nat /\ i \in Nat
    OBVIOUS
  <2>4. front \o back \in Seq(S)
    BY <2>1, <2>2
  <2>5. Len(front \o back) = Len(front) + Len(back)
    BY SMTT(40), <2>1, <2>2
  <2> QED
    BY <2>1, <2>2, <2>3, <2>4, <2>5
<1> QED
  BY <1>3 DEF RemoveAt

LEMMA MovedType ==
    ASSUME NEW cells \in Seq(Cell), NEW i \in 1..Len(cells), NEW j \in 1..Len(cells)
    PROVE  Moved(cells, i, j) \in Seq(Cell)
<1>1. cells[i] \in Cell
  OBVIOUS
<1> QED
  BY <1>1, RemoveAtType, InsertAtType DEF Moved

-----------------------------------------------------------------------------
(* Events: the fold keeps documents typed, and the event a call builds from *)
(* a document folds to what the call makes of the parsed document.          *)

LEMMA FoldType ==
    ASSUME NEW ev \in Event, NEW cells \in Seq(Cell), Foldable(ev, cells)
    PROVE  Fold(ev, cells) \in Seq(Cell)
<1>1. ev.cell \in Cell /\ ev.at \in Nat /\ ev.to \in Nat
  BY DEF Event
<1>2. CASE ev.kind = "update"
  <2>1. ev.at \in 1..Len(cells) /\ ev.cell.src \in Sources
    BY <1>1, <1>2, CellFields DEF Foldable
  <2> QED
    BY <2>1, <1>2, WithSourceType DEF Fold
<1>3. CASE ev.kind = "create"
  <2>1. ev.at \in 1..(Len(cells) + 1)
    BY <1>3 DEF Foldable
  <2> QED
    BY <2>1, <1>1, <1>3, InsertAtType DEF Fold
<1>4. CASE ev.kind = "delete"
  <2>1. ev.at \in 1..Len(cells)
    BY <1>4 DEF Foldable
  <2> QED
    BY <2>1, <1>4, RemoveAtType DEF Fold
<1>5. CASE ev.kind = "move"
  <2>1. ev.at \in 1..Len(cells) /\ ev.to \in 1..Len(cells)
    BY <1>5 DEF Foldable
  <2> QED
    BY <2>1, <1>5, MovedType DEF Fold
<1>6. CASE ev.kind = "execute"
  <2>1. Has(cells, ev.cell.id) /\ ev.cell.out \in Outputs
    BY <1>1, <1>6, CellFields DEF Foldable
  <2> QED
    BY <2>1, <1>6, IndexOfIsThere, WithOutputType DEF Fold
<1> QED
  BY <1>2, <1>3, <1>4, <1>5, <1>6 DEF Foldable

(* What a mutation that has started holds. *)
Anchored(c, cells) ==
    /\ Has(cells, c.req.id) \/ (c.req.kind = "insert" /\ c.req.id = 0)
    /\ c.req.kind = "insert" => c.newId \in CellIds
    /\ c.req.kind \in {"delete", "move"} => c.was.id = c.req.id

LEMMA MutationKinds ==
    ASSUME Premises, NEW c \in CallRecord, c.req.kind \in Mutations
    PROVE  \/ c.req.kind = "edit" \/ c.req.kind = "insert"
           \/ c.req.kind = "delete" \/ c.req.kind = "move"
BY DEF Premises, CallRecord, Mutations

LEMMA RequestFields ==
    ASSUME NEW c \in CallRecord
    PROVE  /\ c.req.id \in CellIds \cup {0} /\ c.req.type \in CellTypes
           /\ c.req.src \in Sources /\ c.req.to \in Nat
           /\ c.was \in Cell /\ c.ev \in Event /\ c.doc \in Seq(Cell)
           /\ c.newId \in CellIds \cup {0} /\ c.req.kind \in Kinds
BY ConstantsAssumption DEF CallRecord, Request

LEMMA EventOfType ==
    ASSUME NEW c \in CallRecord, NEW cells \in Seq(Cell), c.req.kind \in Mutations,
           Has(cells, c.req.id) \/ (c.req.kind = "insert" /\ c.req.id = 0),
           c.req.kind \in {"insert", "copy"} => c.newId \in CellIds
    PROVE  EventOf(c, cells) \in Event
<1> DEFINE i == IndexOf(cells, c.req.id)
<1>0. /\ c.req.type \in CellTypes /\ c.req.src \in Sources
      /\ c.req.to \in Nat /\ c.was \in Cell
  BY RequestFields
<1>1. ~(c.req.kind = "insert" /\ c.req.id = 0) => i \in Nat /\ cells[i] \in Cell
  <2>1. ~(c.req.kind = "insert" /\ c.req.id = 0) => i \in 1..Len(cells)
    BY IndexOfIsThere
  <2> QED
    BY <2>1
<1>2. CASE c.req.kind = "edit"
  <2>1. [cells[i] EXCEPT !.src = c.req.src] \in Cell
    BY <1>0, <1>1, <1>2 DEF Cell
  <2> QED
    BY <1>1, <1>2, <2>1 DEF EventOf, Event
<1>3. CASE c.req.kind = "insert"
  <2>1. [id |-> c.newId, type |-> c.req.type, src |-> c.req.src, out |-> NoOutput] \in Cell
    BY <1>0, <1>3, ConstantsAssumption DEF Cell
  <2>2. InsertPosition(c.req, cells) \in Nat
    BY <1>1, <1>3 DEF InsertPosition
  <2> QED
    BY <1>3, <2>1, <2>2 DEF EventOf, Event
<1>4. CASE c.req.kind = "delete"
  BY <1>0, <1>1, <1>4 DEF EventOf, Event
<1>5. CASE c.req.kind = "move"
  BY <1>0, <1>1, <1>5 DEF EventOf, Event
<1>6. CASE c.req.kind = "copy"
  <2>1. [c.was EXCEPT !.id = c.newId] \in Cell
    BY <1>0, <1>6 DEF Cell
  <2>2. InsertPosition(c.req, cells) \in Nat
    BY <1>1, <1>6 DEF InsertPosition
  <2> QED
    BY <1>6, <2>1, <2>2 DEF EventOf, Event
<1> QED
  BY <1>2, <1>3, <1>4, <1>5, <1>6 DEF Mutations

LEMMA RewriteIsFold ==
    ASSUME Premises, NEW c \in CallRecord, NEW cells \in Seq(Cell),
           c.req.kind \in Mutations, Anchored(c, cells),
           c.ev = EventOf(c, cells), Rewritable(c, cells)
    PROVE  Rewrite(c, cells) = Fold(c.ev, cells)
<1> DEFINE i == IndexOf(cells, c.req.id)
<1>1. ~(c.req.kind = "insert" /\ c.req.id = 0) => i \in Nat /\ cells[i] \in Cell
  <2>1. ~(c.req.kind = "insert" /\ c.req.id = 0) => i \in 1..Len(cells)
    BY IndexOfIsThere DEF Anchored
  <2> QED
    BY <2>1
<1>2. CASE c.req.kind = "edit"
  <2>1. c.ev = [kind |-> "update", at |-> i, to |-> 0,
                cell |-> [cells[i] EXCEPT !.src = c.req.src]]
    BY <1>2 DEF EventOf
  <2>2. c.ev.cell.src = c.req.src
    BY <1>1, <1>2, <2>1 DEF Cell
  <2> QED
    BY <1>2, <2>1, <2>2 DEF Fold, Rewrite
<1>3. CASE c.req.kind = "insert"
  <2>1. c.ev.kind = "create"
        /\ c.ev.cell = [id |-> c.newId, type |-> c.req.type, src |-> c.req.src, out |-> NoOutput]
    BY <1>3 DEF EventOf
  <2> QED
    BY <1>3, <2>1 DEF Fold, Rewrite
<1>4. CASE c.req.kind = "delete"
  <2>1. c.ev.kind = "delete" /\ c.ev.at = i
    BY <1>4 DEF EventOf
  <2> QED
    BY <1>4, <2>1 DEF Fold, Rewrite
<1>5. CASE c.req.kind = "move"
  <2>1. c.ev.kind = "move" /\ c.ev.at = i /\ c.ev.to = c.req.to
    BY <1>5 DEF EventOf
  <2> QED
    BY <1>5, <2>1 DEF Fold, Rewrite
<1> QED
  BY <1>2, <1>3, <1>4, <1>5, MutationKinds

-----------------------------------------------------------------------------
(* The call invariant survives what other calls and programs do. *)

LEMMA IdleType == Idle \in CallRecord
<1>1. AnyRequest \in Requests
  BY ConstantsAssumption DEF AnyRequest
<1>2. AnyCell \in Cell
  BY ConstantsAssumption DEF AnyCell, Cell
<1>3. NoEvent \in Event
  BY <1>2 DEF NoEvent, Event
<1> QED
  BY <1>1, <1>2, <1>3 DEF Idle, CallRecord, Pcs, Results

LEMMA SettledType ==
    ASSUME NEW o \in Ops, op[o] \in CallRecord, NEW result \in Results,
           NEW f, NEW v
    PROVE  /\ Settled(o, result) \in CallRecord
           /\ Settled(o, result).pc = "settled"
           /\ CallInv(Settled(o, result), f, v)
<1>1. op[o].req \in Requests
  BY DEF CallRecord
<1>2. Settled(o, result) \in CallRecord
  BY <1>1, IdleType DEF Settled, CallRecord, Pcs
<1>3. Settled(o, result).pc = "settled"
  BY IdleType DEF Settled, CallRecord
<1> QED
  BY <1>2, <1>3 DEF CallInv

LEMMA RetirementType ==
    ASSUME NEW o \in Ops, op[o] \in CallRecord, NEW f, NEW v, CallInv(op[o], f, v)
    PROVE  /\ AfterRetirement(o) \in CallRecord
           /\ AfterRetirement(o).pc \in {"settled", op[o].pc}
           /\ CallInv(AfterRetirement(o), f, v)
<1>1. CASE AfterRetirement(o) = op[o]
  BY <1>1
<1>2. CASE AfterRetirement(o) = Settled(o, "unavailable")
  BY <1>2, SettledType DEF Results
<1>3. CASE AfterRetirement(o) = [op[o] EXCEPT !.cut = TRUE] /\ op[o].pc \in {"writing", "landed"}
  <2> DEFINE c == op[o]
             d == [c EXCEPT !.cut = TRUE]
  <2>1. /\ d \in CallRecord /\ d.pc = c.pc /\ d.req = c.req /\ d.newId = c.newId
        /\ d.base = c.base /\ d.was = c.was /\ d.ev = c.ev /\ d.doc = c.doc /\ d.ver = c.ver
    BY DEF CallRecord
  <2>2. CallInv(d, f, v)
    BY <1>3, <2>1 DEF CallInv
  <2> QED
    BY <1>3, <2>1, <2>2
<1> QED
  BY <1>1, <1>2, <1>3 DEF AfterRetirement

LEMMA RevisionAdded ==
    ASSUME NEW f \in Seq(Seq(Cell)), NEW d \in Seq(Cell), NEW v \in 1..Len(f),
           NEW c \in CallRecord, CallInv(c, f, v)
    PROVE  CallInv(c, Append(f, d), v)
<1>1. \A i \in 1..Len(f) : Append(f, d)[i] = f[i]
  OBVIOUS
<1>2. DOMAIN f \subseteq DOMAIN Append(f, d) /\ 1..v \subseteq 1..Len(f) /\ DOMAIN f = 1..Len(f)
  OBVIOUS
<1>3. c.base \in 1..v => Append(f, d)[c.base] = f[c.base]
  BY <1>1, <1>2
<1>4. c.ver \in DOMAIN f => Append(f, d)[c.ver] = f[c.ver] /\ c.ver \in DOMAIN Append(f, d)
  BY <1>1, <1>2
<1> HIDE <1>1, <1>2
<1> DEFINE g == Append(f, d)
<1>5. /\ c.base \in 1..v => g[c.base] = f[c.base]
      /\ c.ver \in DOMAIN f => g[c.ver] = f[c.ver] /\ c.ver \in DOMAIN g
  BY <1>3, <1>4
<1>6. c.req.kind \in Mutations => c.req.kind \notin {"run", "reload"}
  BY DEF Mutations
<1> HIDE DEF g
<1>7. CallInv(c, g, v)
  BY <1>5, <1>6 DEF CallInv
<1> QED
  BY <1>7 DEF g

LEMMA ProjectionAdvanced ==
    ASSUME NEW f, NEW v \in Nat, NEW w \in Nat, v <= w,
           NEW c \in CallRecord, CallInv(c, f, v), c.pc \notin {"landed", "statted"}
    PROVE  CallInv(c, f, w)
<1>1. c.base \in 1..v => c.base \in 1..w
  OBVIOUS
<1> QED
  BY <1>1 DEF CallInv

-----------------------------------------------------------------------------
(* Steps that change calls only: no file, no projection. *)

Still == UNCHANGED <<files, onDisk, proj, usedIds, restarts>>

LEMMA CallsOnly ==
    ASSUME IInv, Still, kernel' \in BOOLEAN, op' \in [Ops -> CallRecord],
           \A p \in Ops : CallInv(op'[p], files, proj.ver),
           \A p \in Ops : op'[p].pc \in {"landed", "statted"} => op'[p].pc = op[p].pc
    PROVE  IInv'
<1>1. TypeOK'
  BY DEF IInv, Still, TypeOK
<1>2. RepliesAlone'
  BY DEF IInv, RepliesAlone
<1>3. (onDisk \in {0, Len(files)})' /\ ProjectionIsItsRevision'
  BY DEF IInv, Still, ProjectionIsItsRevision
<1>4. (\A o \in Ops : CallInv(op[o], files, proj.ver))'
  BY DEF Still, CallInv
<1> QED
  BY <1>1, <1>2, <1>3, <1>4 DEF IInv

LEMMA OneCall ==
    ASSUME IInv, Still, kernel' \in BOOLEAN, NEW o \in Ops, NEW d \in CallRecord,
           op' = [op EXCEPT ![o] = d], CallInv(d, files, proj.ver),
           d.pc \in {"landed", "statted"} => d.pc = op[o].pc
    PROVE  IInv'
<1>1. op \in [Ops -> CallRecord]
  BY DEF IInv, TypeOK
<1>2. op' \in [Ops -> CallRecord] /\ \A p \in Ops : op'[p] = IF p = o THEN d ELSE op[p]
  BY <1>1
<1>3. \A p \in Ops : CallInv(op'[p], files, proj.ver)
  BY <1>2 DEF IInv
<1> QED
  BY <1>2, <1>3, CallsOnly

LEMMA Settling ==
    ASSUME IInv, Still, kernel' \in BOOLEAN, NEW o \in Ops, NEW result \in Results,
           Settle(o, result)
    PROVE  IInv'
<1>1. op[o] \in CallRecord
  BY DEF IInv, TypeOK
<1> QED
  BY <1>1, SettledType, OneCall DEF Settle

LEMMA Retiring ==
    ASSUME IInv, NEW o \in Ops, NEW result \in Results, SettleAndRetire(o, result)
    PROVE  /\ op' \in [Ops -> CallRecord] /\ kernel' \in BOOLEAN
           /\ \A p \in Ops : CallInv(op'[p], files, proj.ver)
           /\ op'[o].pc = "settled"
           /\ \A p \in Ops : op'[p].pc \in {"settled", op[p].pc}
<1>1. \A p \in Ops : op[p] \in CallRecord /\ CallInv(op[p], files, proj.ver)
  BY DEF IInv, TypeOK
<1>2. \A p \in Ops : op'[p] = IF p = o THEN Settled(o, result) ELSE AfterRetirement(p)
  BY DEF SettleAndRetire
<1>3. \A p \in Ops : /\ op'[p] \in CallRecord
                     /\ CallInv(op'[p], files, proj.ver)
                     /\ op'[p].pc \in {"settled", op[p].pc}
  BY <1>1, <1>2, SettledType, RetirementType
<1>4. op'[o].pc = "settled"
  BY <1>1, <1>2, SettledType
<1> QED
  BY <1>3, <1>4 DEF SettleAndRetire

LEMMA Failing ==
    ASSUME IInv, Still, NEW o \in Ops, NEW result \in Results, Fail(o, result)
    PROVE  IInv'
<1>1. CASE SettleAndRetire(o, result)
  <2>1. /\ op' \in [Ops -> CallRecord] /\ kernel' \in BOOLEAN
        /\ \A p \in Ops : CallInv(op'[p], files, proj.ver)
        /\ \A p \in Ops : op'[p].pc \in {"settled", op[p].pc}
    BY <1>1, Retiring
  <2> QED
    BY <2>1, CallsOnly
<1>2. CASE Settle(o, result) /\ UNCHANGED kernel
  BY <1>2, Settling DEF IInv, TypeOK
<1> QED
  BY <1>1, <1>2 DEF Fail

LEMMA TypesAtFirst == Init => TypeOK
<1> SUFFICES ASSUME Init PROVE TypeOK
  OBVIOUS
<1>1. OpenedCells \in Seq(Cell) /\ files \in Seq(Seq(Cell)) /\ Len(files) = 1
  BY ConstantsAssumption DEF Init
<1>2. usedIds \subseteq CellIds
  <2>1. \A i \in DOMAIN OpenedCells : OpenedCells[i] \in Cell
    BY <1>1
  <2> QED
    BY <2>1, CellFields DEF Init
<1>3. proj \in [ver : 1..Len(files), cells : Seq(Cell)] /\ onDisk \in 0..Len(files)
  BY <1>1 DEF Init
<1>4. op \in [Ops -> CallRecord]
  BY IdleType DEF Init
<1>5. kernel \in BOOLEAN
  BY DEF Init
<1>6. restarts \in 0..MaxRestarts
  BY ConstantsAssumption DEF Init
<1> QED
  BY <1>1, <1>2, <1>3, <1>4, <1>5, <1>6 DEF TypeOK

LEMMA InitInv == Init => IInv
<1> SUFFICES ASSUME Init PROVE IInv
  OBVIOUS
<1>1. TypeOK
  BY TypesAtFirst
<1>2. \A o \in Ops : op[o].pc = "idle"
  BY DEF Init, Idle
<1>3. \A o \in Ops : CallInv(op[o], files, proj.ver)
  BY <1>2 DEF CallInv
<1>4. RepliesAlone
  BY <1>2 DEF RepliesAlone
<1>5. onDisk \in {0, Len(files)} /\ ProjectionIsItsRevision
  BY DEF Init, ProjectionIsItsRevision
<1> QED
  BY <1>1, <1>3, <1>4, <1>5 DEF IInv

-----------------------------------------------------------------------------
(* One lemma per action: the step keeps the invariant. *)

LEMMA Typed ==
    ASSUME IInv, NEW o \in Ops
    PROVE  /\ op[o] \in CallRecord /\ CallInv(op[o], files, proj.ver)
           /\ files \in Seq(Seq(Cell)) /\ proj.ver \in 1..Len(files)
           /\ proj.cells \in Seq(Cell) /\ proj.cells = files[proj.ver]
           /\ onDisk \in {0, Len(files)} /\ Len(files) \in Nat
BY DEF IInv, TypeOK, ProjectionIsItsRevision

LEMMA CallInvariant ==
    ASSUME IInv, Premises, NEW o \in Ops, NEW r \in Requests, NEW n \in CellIds \cup {0},
           Call(o, r, n)
    PROVE  IInv'
<1> DEFINE wait == r.kind = "run" /\ ~kernel
           was == IF r.kind \in {"delete", "move", "copy"}
                  THEN CellOf(proj.cells, r.id) ELSE AnyCell
           d == [Idle EXCEPT !.pc = IF wait THEN "waiting" ELSE "queued",
                             !.req = r, !.newId = n, !.ahead = Ahead(r.kind), !.was = was]
<1>1. was \in Cell /\ (r.kind \in {"delete", "move"} => was.id = r.id)
  <2>1. AnyCell \in Cell
    BY ConstantsAssumption DEF AnyCell, Cell
  <2>2. ASSUME r.kind \in {"delete", "move", "copy"}
        PROVE  CellOf(proj.cells, r.id) \in Cell /\ CellOf(proj.cells, r.id).id = r.id
    <3>1. Has(proj.cells, r.id)
      BY <2>2 DEF Call, Callable
    <3>2. IndexOf(proj.cells, r.id) \in 1..Len(proj.cells)
          /\ proj.cells[IndexOf(proj.cells, r.id)].id = r.id
      BY <3>1, Typed, IndexOfIsThere
    <3> QED
      BY <3>2, Typed DEF CellOf
  <2> QED
    BY <2>1, <2>2
<1>2. Ahead(r.kind) \in SUBSET Ops
  BY DEF Ahead
<1>3. d \in CallRecord /\ d.pc \in {"waiting", "queued"} /\ (d.pc = "waiting" => r.kind = "run")
      /\ d.req = r /\ d.newId = n /\ d.was = was
  <2> HIDE DEF was
  <2> QED
    BY <1>1, <1>2, IdleType DEF CallRecord, Pcs
<1>4. r.kind = "insert" => n \in CellIds
  BY DEF Call
<1>5. CallInv(d, files, proj.ver)
  <2> HIDE DEF d, was, wait
  <2> QED
    BY <1>1, <1>3, <1>4 DEF CallInv
<1>6. op' = [op EXCEPT ![o] = d] /\ Still /\ kernel' = kernel
  BY DEF Call, Still
<1> HIDE DEF d
<1> QED
  BY <1>3, <1>5, <1>6, OneCall DEF IInv, TypeOK

LEMMA MutationStartInvariant ==
    ASSUME IInv, Premises, NEW o \in Ops, MutationStart(o)
    PROVE  IInv'
<1> DEFINE c == op[o]
           d == [c EXCEPT !.pc = "reading", !.base = proj.ver, !.ev = EventOf(c, proj.cells)]
<1>0. Still /\ kernel' = kernel /\ kernel \in BOOLEAN
  BY DEF MutationStart, Still, IInv, TypeOK
<1>1. CASE \E result \in {"missing", "invalid", "ok"} : Settle(o, result)
  BY <1>0, <1>1, Settling DEF Results
<1>2. CASE /\ Has(proj.cells, c.req.id) \/ (c.req.kind = "insert" /\ c.req.id = 0)
           /\ op' = [op EXCEPT ![o] = [@ EXCEPT !.pc = "reading", !.base = proj.ver,
                                                !.ev = EventOf(op[o], proj.cells)]]
  <2>1. c \in CallRecord /\ CallInv(c, files, proj.ver) /\ c.pc = "queued" /\ c.req.kind \in Mutations
    BY Typed DEF MutationStart, At, Mutates
  <2>2. Anchored(c, proj.cells)
    BY <1>2, <2>1 DEF Anchored, CallInv
  <2>3. EventOf(c, proj.cells) \in Event
    BY <2>1, <2>2, Typed, EventOfType, MutationKinds DEF Anchored
  <2>4. /\ d \in CallRecord /\ d.pc = "reading" /\ d.base = proj.ver /\ d.req = c.req
        /\ d.newId = c.newId /\ d.was = c.was /\ d.ev = EventOf(c, proj.cells)
    <3>1. proj.ver \in Nat
      BY Typed
    <3> DEFINE e == EventOf(c, proj.cells)
    <3>2. e \in Event
      BY <2>3
    <3>3. d = [c EXCEPT !.pc = "reading", !.base = proj.ver, !.ev = e]
      OBVIOUS
    <3> HIDE DEF c, d, e
    <3>4. c \in CallRecord
      BY <2>1
    <3>5. d \in CallRecord
      BY <3>1, <3>2, <3>3, <3>4 DEF CallRecord, Pcs
    <3>6. /\ d.pc = "reading" /\ d.base = proj.ver /\ d.req = c.req
          /\ d.newId = c.newId /\ d.was = c.was /\ d.ev = e
      BY <3>3, <3>4 DEF CallRecord
    <3> QED
      BY <3>5, <3>6 DEF e
  <2>5. EventOf(d, proj.cells) = EventOf(c, proj.cells)
    <3> HIDE DEF c, d
    <3> QED
      BY <2>4 DEF EventOf
  <2>6. op' = [op EXCEPT ![o] = d]
    BY <1>2 DEF IInv, TypeOK
  <2>7. c.req.kind \notin {"run", "reload"}
    BY <2>1 DEF Mutations
  <2>8. CallInv(d, files, proj.ver)
    <3> HIDE DEF c, d
    <3> QED
      BY SMTT(40), <1>2, <2>1, <2>2, <2>4, <2>5, <2>7, Typed DEF CallInv, Anchored
  <2> HIDE DEF d
  <2> QED
    BY <1>0, <2>4, <2>6, <2>8, OneCall
<1> QED
  BY <1>1, <1>2 DEF MutationStart

LEMMA MutationConfirmInvariant ==
    ASSUME IInv, Premises, NEW o \in Ops, MutationConfirm(o)
    PROVE  IInv'
<1> DEFINE c == op[o]
           w == Rewrite(c, files[c.base])
           d == [c EXCEPT !.pc = "writing", !.doc = w]
<1>0. Still /\ kernel' = kernel /\ kernel \in BOOLEAN
  BY DEF MutationConfirm, Still, IInv, TypeOK
<1>1. CASE \E result \in {"conflict", "invalid"} : Settle(o, result)
  BY <1>0, <1>1, Settling DEF Results
<1>2. CASE /\ onDisk = c.base
           /\ Rewritable(c, files[onDisk]) /\ Foldable(c.ev, proj.cells)
           /\ op' = [op EXCEPT ![o] = [@ EXCEPT !.pc = "writing", !.doc = Rewrite(op[o], files[onDisk])]]
  <2>1. /\ c \in CallRecord /\ CallInv(c, files, proj.ver) /\ c.pc = "reading"
        /\ c.req.kind \in Mutations /\ c.req.kind \notin {"run", "reload"}
    BY Typed DEF MutationConfirm, At, Mutates, Mutations
  <2>2. c.base \in 1..proj.ver
    BY <2>1 DEF CallInv
  <2>3. c.base = proj.ver /\ files[c.base] = proj.cells
    BY <1>2, <2>2, Typed
  <2>4. Anchored(c, proj.cells) /\ c.ev = EventOf(c, proj.cells)
    BY <2>1, <2>3 DEF Anchored, CallInv
  <2>5. w = Fold(c.ev, proj.cells)
    BY <1>2, <2>1, <2>3, <2>4, Typed, RewriteIsFold
  <2>6. w \in Seq(Cell)
    <3>1. c.ev \in Event
      BY <2>1, RequestFields
    <3> QED
      BY <1>2, <2>5, <3>1, Typed, FoldType
  <2>7. d \in CallRecord /\ d.pc = "writing" /\ d.doc = w /\ d.req = c.req
        /\ d.newId = c.newId /\ d.was = c.was /\ d.base = c.base /\ d.ev = c.ev
    <3> HIDE DEF c, w
    <3> QED
      BY <2>1, <2>6 DEF CallRecord, Pcs
  <2>8. op' = [op EXCEPT ![o] = d]
    BY <1>2 DEF IInv, TypeOK
  <2>9. CallInv(d, files, proj.ver)
    <3> HIDE DEF c, d, w
    <3> QED
      BY <2>1, <2>2, <2>3, <2>5, <2>7 DEF CallInv
  <2> HIDE DEF d
  <2> QED
    BY <1>0, <2>7, <2>8, <2>9, OneCall
<1> QED
  BY <1>1, <1>2 DEF MutationConfirm, Current

LEMMA ReloadStartInvariant ==
    ASSUME IInv, NEW o \in Ops, ReloadStart(o)
    PROVE  IInv'
<1> DEFINE c == op[o]
           d == [c EXCEPT !.pc = "reading"]
<1>0. Still /\ kernel' = kernel /\ kernel \in BOOLEAN
  BY DEF ReloadStart, Still, IInv, TypeOK
<1>1. CASE Settle(o, "refused")
  BY <1>0, <1>1, Settling DEF Results
<1>2. CASE op' = [op EXCEPT ![o].pc = "reading"]
  <2>1. /\ c \in CallRecord /\ CallInv(c, files, proj.ver) /\ c.req.kind = "reload"
    BY Typed DEF ReloadStart, IsReload
  <2>2. d \in CallRecord /\ d.pc = "reading" /\ d.req = c.req
    <3> HIDE DEF c
    <3> QED
      BY <2>1 DEF CallRecord, Pcs
  <2>3. op' = [op EXCEPT ![o] = d]
    BY <1>2 DEF IInv, TypeOK
  <2>4. CallInv(d, files, proj.ver)
    <3> HIDE DEF c, d
    <3> QED
      BY <2>1, <2>2 DEF CallInv, Mutations
  <2> HIDE DEF d
  <2> QED
    BY <1>0, <2>2, <2>3, <2>4, OneCall
<1> QED
  BY <1>1, <1>2 DEF ReloadStart

LEMMA ReloadConfirmInvariant ==
    ASSUME IInv, NEW o \in Ops, ReloadConfirm(o)
    PROVE  IInv'
<1> DEFINE c == op[o]
           d == [c EXCEPT !.pc = "admitting", !.ver = onDisk, !.doc = files[onDisk]]
<1>0. Still /\ kernel' = kernel /\ kernel \in BOOLEAN
  BY DEF ReloadConfirm, Still, IInv, TypeOK
<1>1. CASE Settle(o, "conflict")
  BY <1>0, <1>1, Settling DEF Results
<1>2. CASE /\ onDisk # 0
           /\ op' = [op EXCEPT ![o] = [@ EXCEPT !.pc = "admitting", !.ver = onDisk, !.doc = files[onDisk]]]
  <2>1. /\ c \in CallRecord /\ c.req.kind = "reload"
    BY Typed DEF ReloadConfirm, IsReload
  <2>2. onDisk \in DOMAIN files /\ onDisk \in Nat /\ files[onDisk] \in Seq(Cell)
    BY <1>2, Typed
  <2>3. d \in CallRecord /\ d.pc = "admitting" /\ d.req = c.req
        /\ d.ver = onDisk /\ d.doc = files[onDisk]
    <3> HIDE DEF c
    <3> QED
      BY <2>1, <2>2 DEF CallRecord, Pcs
  <2>4. op' = [op EXCEPT ![o] = d]
    BY <1>2 DEF IInv, TypeOK
  <2>5. CallInv(d, files, proj.ver)
    <3> HIDE DEF c, d
    <3> QED
      BY <2>1, <2>2, <2>3 DEF CallInv, Mutations
  <2> HIDE DEF d
  <2> QED
    BY <1>0, <2>3, <2>4, <2>5, OneCall
<1> QED
  BY <1>1, <1>2 DEF ReloadConfirm

LEMMA ReloadStatInvariant ==
    ASSUME IInv, Premises, NEW o \in Ops, ReloadStat(o)
    PROVE  IInv'
<1> DEFINE c == op[o]
           d == [c EXCEPT !.pc = "statted"]
<1>0. Still /\ kernel' = kernel /\ kernel \in BOOLEAN
  BY DEF ReloadStat, Still, IInv, TypeOK
<1>1. CASE Settle(o, "conflict")
  BY <1>0, <1>1, Settling DEF Results
<1>2. CASE onDisk = c.ver /\ op' = [op EXCEPT ![o].pc = "statted"]
  <2>1. /\ c \in CallRecord /\ CallInv(c, files, proj.ver) /\ c.pc = "admitting"
        /\ \A p \in Ops : op[p].pc \notin {"landed", "statted"}
    BY Typed DEF ReloadStat, At, Quiet, Premises
  <2>2. d \in CallRecord /\ d.pc = "statted" /\ d.req = c.req /\ d.ver = c.ver /\ d.doc = c.doc
        /\ d.newId = c.newId /\ d.was = c.was
    <3> HIDE DEF c
    <3> QED
      BY <2>1 DEF CallRecord, Pcs
  <2>3. op' = [op EXCEPT ![o] = d]
    BY <1>2 DEF IInv, TypeOK
  <2>4. proj.ver <= c.ver
    <3>1. c.ver \in DOMAIN files
      BY <2>1 DEF CallInv
    <3> QED
      BY <1>2, <3>1, Typed
  <2>5. CallInv(d, files, proj.ver)
    <3> HIDE DEF c, d
    <3> QED
      BY <2>1, <2>2, <2>4 DEF CallInv
  <2>6. op' \in [Ops -> CallRecord] /\ \A p \in Ops : op'[p] = IF p = o THEN d ELSE op[p]
    <3> HIDE DEF d
    <3> QED
      BY <2>2, <2>3 DEF IInv, TypeOK
  <2> HIDE DEF d
  <2>7. TypeOK'
    BY <1>0, <2>6 DEF IInv, Still, TypeOK
  <2>8. (\A p \in Ops : CallInv(op[p], files, proj.ver))'
    <3>1. \A p \in Ops : CallInv(op'[p], files, proj.ver)
      BY <2>5, <2>6 DEF IInv
    <3> QED
      BY <1>0, <3>1 DEF Still, CallInv
  <2>9. RepliesAlone'
    BY <2>1, <2>6 DEF RepliesAlone
  <2> QED
    BY <1>0, <2>7, <2>8, <2>9 DEF IInv, Still, ProjectionIsItsRevision
<1> QED
  BY <1>1, <1>2 DEF ReloadStat, StatConfirms

LEMMA StartKernelInvariant ==
    ASSUME IInv, StartKernel
    PROVE  IInv'
<1>0. Still /\ \A p \in Ops : op[p] \in CallRecord /\ CallInv(op[p], files, proj.ver)
  BY Typed DEF StartKernel, Still
<1> DEFINE queued(p) == [op[p] EXCEPT !.pc = "queued"]
<1>1. ASSUME NEW p \in Ops, op[p].pc = "waiting"
      PROVE  /\ queued(p) \in CallRecord /\ queued(p).pc = "queued"
             /\ CallInv(queued(p), files, proj.ver)
  <2> DEFINE c == op[p]
             d == [c EXCEPT !.pc = "queued"]
  <2>1. c \in CallRecord /\ CallInv(c, files, proj.ver) /\ c.pc = "waiting"
    BY <1>0, <1>1
  <2>2. d \in CallRecord /\ d.pc = "queued" /\ d.req = c.req /\ d.newId = c.newId /\ d.was = c.was
    <3> HIDE DEF c
    <3> QED
      BY <2>1 DEF CallRecord, Pcs
  <2>3. CallInv(d, files, proj.ver)
    <3> HIDE DEF c, d
    <3> QED
      BY <2>1, <2>2 DEF CallInv
  <2> QED
    BY <2>2, <2>3
<1>2. CASE /\ kernel' = TRUE
           /\ op' = [p \in Ops |-> IF At(p, "waiting") THEN queued(p) ELSE op[p]]
  <2> HIDE DEF queued
  <2>1. \A p \in Ops : /\ op'[p] \in CallRecord /\ CallInv(op'[p], files, proj.ver)
                       /\ op'[p].pc \in {op[p].pc, "queued"}
    BY <1>0, <1>1, <1>2 DEF At
  <2>2. op' \in [Ops -> CallRecord]
    BY <1>2, <2>1
  <2> QED
    BY <1>0, <1>2, <2>1, <2>2, CallsOnly
<1>3. CASE /\ kernel' = kernel
           /\ op' = [p \in Ops |-> IF At(p, "waiting") THEN Settled(p, "unavailable") ELSE op[p]]
  <2>1. \A p \in Ops : /\ op'[p] \in CallRecord /\ CallInv(op'[p], files, proj.ver)
                       /\ op'[p].pc \in {op[p].pc, "settled"}
    BY <1>0, <1>3, SettledType DEF Results
  <2>2. op' \in [Ops -> CallRecord]
    BY <1>3, <2>1
  <2> QED
    BY <1>0, <1>3, <2>1, <2>2, CallsOnly DEF IInv, TypeOK
<1> QED
  BY <1>2, <1>3 DEF StartKernel

LEMMA RunStartInvariant ==
    ASSUME IInv, NEW o \in Ops, RunStart(o)
    PROVE  IInv'
<1> DEFINE c == op[o]
           was == CellOf(proj.cells, c.req.id)
           d == [c EXCEPT !.pc = "reading", !.base = proj.ver, !.was = was]
<1>0. Still /\ kernel' = kernel /\ kernel \in BOOLEAN
  BY DEF RunStart, Still, IInv, TypeOK
<1>1. CASE Settle(o, "missing")
  BY <1>0, <1>1, Settling DEF Results
<1>2. CASE /\ Has(proj.cells, c.req.id)
           /\ op' = [op EXCEPT ![o] = [@ EXCEPT !.pc = "reading", !.base = proj.ver, !.was = was]]
  <2>1. c \in CallRecord /\ CallInv(c, files, proj.ver) /\ c.req.kind = "run"
    BY Typed DEF RunStart, IsRun
  <2>2. /\ proj.ver \in Nat /\ proj.ver \in 1..proj.ver /\ Has(files[proj.ver], c.req.id)
        /\ was = CellOf(files[proj.ver], c.req.id) /\ was \in Cell
    <3>1. proj.cells \in Seq(Cell) /\ IndexOf(proj.cells, c.req.id) \in 1..Len(proj.cells)
      BY <1>2, Typed, IndexOfIsThere
    <3> QED
      BY <1>2, <3>1, Typed DEF CellOf
  <2>3. /\ d \in CallRecord /\ d.pc = "reading" /\ d.req = c.req /\ d.base = proj.ver
        /\ d.was = was
    <3> HIDE DEF c, was
    <3> QED
      BY <2>1, <2>2 DEF CallRecord, Pcs
  <2>4. op' = [op EXCEPT ![o] = d]
    BY <1>2 DEF IInv, TypeOK
  <2>5. CallInv(d, files, proj.ver)
    <3> HIDE DEF c, d, was
    <3> QED
      BY <2>1, <2>2, <2>3 DEF CallInv, Mutations
  <2> HIDE DEF d
  <2> QED
    BY <1>0, <2>3, <2>4, <2>5, OneCall
<1> QED
  BY <1>1, <1>2 DEF RunStart

LEMMA RunConfirmInvariant ==
    ASSUME IInv, NEW o \in Ops, RunConfirm(o)
    PROVE  IInv'
<1> DEFINE c == op[o]
           d == [c EXCEPT !.pc = "running", !.doc = files[onDisk]]
<1>0. Still /\ kernel' = kernel /\ kernel \in BOOLEAN
  BY DEF RunConfirm, Still, IInv, TypeOK
<1>1. CASE Settle(o, "conflict")
  BY <1>0, <1>1, Settling DEF Results
<1>2. CASE /\ onDisk = c.base
           /\ op' = [op EXCEPT ![o] = [@ EXCEPT !.pc = "running", !.doc = files[onDisk]]]
  <2>1. /\ c \in CallRecord /\ CallInv(c, files, proj.ver)
        /\ c.req.kind = "run" /\ c.pc = "reading"
    BY Typed DEF RunConfirm, IsRun, At
  <2>2. c.base \in 1..proj.ver /\ files[onDisk] \in Seq(Cell)
    <3>1. c.base \in 1..proj.ver
      BY <2>1 DEF CallInv
    <3> QED
      BY <1>2, <3>1, Typed
  <2>3. /\ d \in CallRecord /\ d.pc = "running" /\ d.req = c.req /\ d.base = c.base
        /\ d.doc = files[onDisk] /\ d.was = c.was
    <3> HIDE DEF c
    <3> QED
      BY <2>1, <2>2 DEF CallRecord, Pcs
  <2>4. op' = [op EXCEPT ![o] = d]
    BY <1>2 DEF IInv, TypeOK
  <2>5. CallInv(d, files, proj.ver)
    <3> HIDE DEF c, d
    <3> QED
      BY <1>2, <2>1, <2>2, <2>3 DEF CallInv, Mutations
  <2> HIDE DEF d
  <2> QED
    BY <1>0, <2>3, <2>4, <2>5, OneCall
<1> QED
  BY <1>1, <1>2 DEF RunConfirm, Current

LEMMA RunEndsInvariant ==
    ASSUME IInv, NEW o \in Ops, NEW out \in Outputs \ {NoOutput}, RunEnds(o, out)
    PROVE  IInv'
<1> DEFINE c == op[o]
           cell == [c.was EXCEPT !.out = out]
           ev == [kind |-> "execute", at |-> 0, to |-> 0, cell |-> cell]
           d == [c EXCEPT !.pc = "ended", !.ev = ev]
<1>0. Still /\ kernel' = kernel /\ kernel \in BOOLEAN
  BY DEF RunEnds, Still, IInv, TypeOK
<1>1. c \in CallRecord /\ CallInv(c, files, proj.ver) /\ c.pc = "running"
  BY Typed DEF RunEnds, At
<1>2. Has(c.doc, c.req.id) /\ c.doc \in Seq(Cell)
  BY <1>1, RequestFields DEF CallInv
<1>3. ev \in Event /\ ev.kind = "execute" /\ ev.cell.id = c.req.id
  <2> DEFINE k == c.was
  <2>1. k \in Cell /\ k.id = c.req.id
    <3>1. k = CellOf(c.doc, c.req.id)
      BY <1>1, RequestFields DEF CallInv
    <3> QED
      BY <1>2, <3>1, IndexOfIsThere DEF CellOf
  <2> HIDE DEF k
  <2>2. [k EXCEPT !.out = out] \in Cell /\ [k EXCEPT !.out = out].id = c.req.id
    BY <2>1 DEF Cell
  <2> QED
    BY <2>2 DEF Event, k
<1>4. d \in CallRecord /\ d.pc = "ended" /\ d.ev = ev /\ d.doc = c.doc
      /\ d.base = c.base /\ d.req = c.req /\ d.was = c.was
  <2> HIDE DEF c, ev
  <2> QED
    BY <1>1, <1>3 DEF CallRecord, Pcs
<1>5. op' = [op EXCEPT ![o] = d]
  BY DEF RunEnds, IInv, TypeOK
<1>6. CallInv(d, files, proj.ver)
  <2> HIDE DEF c, d, ev
  <2> QED
    BY <1>1, <1>3, <1>4 DEF CallInv
<1> HIDE DEF d
<1> QED
  BY <1>0, <1>4, <1>5, <1>6, OneCall

LEMMA RunPrepareInvariant ==
    ASSUME IInv, NEW o \in Ops, RunPrepare(o)
    PROVE  IInv'
<1> DEFINE c == op[o]
           w == WithOutput(c.doc, IndexOf(c.doc, c.req.id), c.ev.cell.out)
           d == [c EXCEPT !.pc = "writing", !.doc = w]
<1>0. Still /\ kernel' = kernel /\ kernel \in BOOLEAN
  BY DEF RunPrepare, Still, IInv, TypeOK
<1>1. CASE Settle(o, "missing")
  BY <1>0, <1>1, Settling DEF Results
<1>2. CASE op' = [op EXCEPT ![o] = [@ EXCEPT !.pc = "writing",
                                             !.doc = WithOutput(op[o].doc, IndexOf(op[o].doc, op[o].req.id),
                                                                   op[o].ev.cell.out)]]
  <2>1. c \in CallRecord /\ CallInv(c, files, proj.ver) /\ c.pc = "ended"
    BY Typed DEF RunPrepare, At
  <2>2. /\ c.req.kind = "run" /\ c.doc = files[c.base] /\ Has(c.doc, c.req.id)
        /\ c.ev.kind = "execute" /\ c.ev.cell.id = c.req.id /\ c.base \in 1..proj.ver
        /\ Has(files[c.base], c.req.id) /\ c.was = CellOf(files[c.base], c.req.id)
    BY <2>1 DEF CallInv
  <2>3. w = Fold(c.ev, files[c.base])
    BY <2>2 DEF Fold
  <2>4. w \in Seq(Cell)
    <3>1. c.doc \in Seq(Cell) /\ c.ev \in Event
      BY <2>1, RequestFields
    <3>2. c.ev.cell.out \in Outputs
      BY <3>1, CellFields DEF Event
    <3> QED
      BY <2>2, <3>1, <3>2, IndexOfIsThere, WithOutputType
  <2>5. /\ d \in CallRecord /\ d.pc = "writing" /\ d.doc = w /\ d.req = c.req
        /\ d.base = c.base /\ d.ev = c.ev /\ d.was = c.was
    <3> HIDE DEF c, w
    <3> QED
      BY <2>1, <2>4 DEF CallRecord, Pcs
  <2>6. op' = [op EXCEPT ![o] = d]
    BY <1>2 DEF IInv, TypeOK
  <2>7. CallInv(d, files, proj.ver)
    <3> HIDE DEF c, d, w
    <3> QED
      BY <2>2, <2>3, <2>5 DEF CallInv, Mutations
  <2> HIDE DEF d
  <2> QED
    BY <1>0, <2>5, <2>6, <2>7, OneCall
<1> QED
  BY <1>1, <1>2 DEF RunPrepare

(* Whoever adds a revision, the calls that do not move keep what they know. *)
LEMMA Publishing ==
    ASSUME IInv, NEW w \in Seq(Cell), files' = Append(files, w), onDisk' = Len(files) + 1,
           UNCHANGED <<proj, usedIds, restarts>>, kernel' \in BOOLEAN,
           op' \in [Ops -> CallRecord],
           \A p \in Ops : op'[p] = op[p] \/ CallInv(op'[p], Append(files, w), proj.ver),
           RepliesAlone'
    PROVE  IInv'
<1>1. /\ files \in Seq(Seq(Cell)) /\ proj.ver \in 1..Len(files) /\ Len(files) \in Nat
      /\ \A p \in Ops : op[p] \in CallRecord /\ CallInv(op[p], files, proj.ver)
  BY DEF IInv, TypeOK
<1>2. /\ files' \in Seq(Seq(Cell)) /\ Len(files') = Len(files) + 1
      /\ \A i \in 1..Len(files) : files'[i] = files[i]
  BY <1>1
<1>3. TypeOK'
  <2>1. onDisk' \in 0..Len(files') /\ proj' \in [ver : 1..Len(files'), cells : Seq(Cell)]
    BY <1>1, <1>2 DEF IInv, TypeOK
  <2> QED
    BY <1>2, <2>1 DEF IInv, TypeOK
<1>4. ProjectionIsItsRevision'
  BY <1>1, <1>2 DEF IInv, ProjectionIsItsRevision
<1>5. (\A p \in Ops : CallInv(op[p], files, proj.ver))'
  <2>1. \A p \in Ops : CallInv(op[p], Append(files, w), proj.ver)
    BY <1>1, RevisionAdded
  <2>2. \A p \in Ops : CallInv(op'[p], Append(files, w), proj.ver)
    BY <2>1
  <2> QED
    BY ZenonT(60), <2>2 DEF CallInv
<1> QED
  BY <1>2, <1>3, <1>4, <1>5 DEF IInv

LEMMA LandInvariant ==
    ASSUME IInv, Premises, NEW o \in Ops, Land(o)
    PROVE  IInv'
<1> DEFINE c == op[o]
           n == Len(files) + 1
           d == [c EXCEPT !.pc = "landed", !.ver = n]
           g == Append(files, c.doc)
<1>1. /\ c \in CallRecord /\ CallInv(c, files, proj.ver) /\ c.pc = "writing" /\ onDisk = c.base
      /\ \A p \in Ops : op[p].pc \notin {"landed", "statted"}
  BY Typed DEF Land, At, Quiet, Premises, Current
<1>2. c.req.kind # "reload" /\ c.base \in 1..proj.ver /\ c.doc = Fold(c.ev, files[c.base])
  BY <1>1 DEF CallInv
<1>3. c.base = proj.ver /\ c.base = Len(files) /\ c.doc \in Seq(Cell)
  BY <1>1, <1>2, Typed, RequestFields
<1>4. /\ n \in DOMAIN g /\ g[n] = c.doc /\ g[c.base] = files[c.base] /\ n \in Nat /\ c.base < n
      /\ c.base \in 1..c.base
  BY <1>2, <1>3, Typed
<1>5. /\ d \in CallRecord /\ d.pc = "landed" /\ d.ver = n /\ d.doc = c.doc /\ d.req = c.req
      /\ d.newId = c.newId /\ d.was = c.was /\ d.base = c.base /\ d.ev = c.ev
  <2> HIDE DEF c, n
  <2> QED
    BY <1>1, <1>4 DEF CallRecord, Pcs
<1>6. op' = [op EXCEPT ![o] = d]
  BY DEF Land, IInv, TypeOK
<1>7. CallInv(d, g, proj.ver)
  <2> HIDE DEF c, d, g, n
  <2> QED
    BY <1>1, <1>2, <1>3, <1>4, <1>5 DEF CallInv
<1> HIDE DEF d
<1>8. op' \in [Ops -> CallRecord] /\ \A p \in Ops : op'[p] = IF p = o THEN d ELSE op[p]
  BY <1>5, <1>6 DEF IInv, TypeOK
<1>9. RepliesAlone'
  BY <1>1, <1>8 DEF RepliesAlone
<1>10. \A p \in Ops : op'[p] = op[p] \/ CallInv(op'[p], g, proj.ver)
  BY <1>7, <1>8
<1> QED
  BY <1>3, <1>8, <1>9, <1>10, Publishing DEF Land, Replace, IInv, TypeOK

LEMMA ExternalWriteInvariant ==
    ASSUME IInv, NEW d \in ExternalDocs, ExternalWrite(d)
    PROVE  IInv'
<1>1. d \in Seq(Cell) /\ op' = op
  BY ConstantsAssumption DEF ExternalWrite
<1>2. RepliesAlone' /\ op' \in [Ops -> CallRecord] /\ kernel' \in BOOLEAN
  BY <1>1 DEF IInv, RepliesAlone, TypeOK, ExternalWrite
<1> QED
  BY <1>1, <1>2, Publishing DEF ExternalWrite

LEMMA DriftInvariant ==
    ASSUME IInv, NEW o \in Ops, Drift(o)
    PROVE  IInv'
<1>0. /\ op[o] \in CallRecord /\ op \in [Ops -> CallRecord] /\ op[o].doc \in Seq(Cell)
      /\ kernel' \in BOOLEAN /\ "unavailable" \in Results
  BY Typed, RequestFields DEF IInv, TypeOK, Drift, Results
<1>1. CASE UNCHANGED <<files, onDisk>>
  BY <1>0, <1>1, Settling DEF Drift, Still
<1>2. CASE Replace(o)
  <2> DEFINE d == Settled(o, "unavailable")
             g == Append(files, op[o].doc)
  <2>1. d \in CallRecord /\ d.pc = "settled" /\ CallInv(d, g, proj.ver)
    BY <1>0, SettledType
  <2> HIDE DEF d
  <2>2. op' \in [Ops -> CallRecord] /\ \A p \in Ops : op'[p] = IF p = o THEN d ELSE op[p]
    BY <1>0, <2>1 DEF Drift, Settle, d
  <2>3. RepliesAlone'
    BY <2>1, <2>2 DEF IInv, RepliesAlone
  <2>4. \A p \in Ops : op'[p] = op[p] \/ CallInv(op'[p], g, proj.ver)
    BY <2>1, <2>2
  <2> QED
    BY <1>0, <1>2, <2>2, <2>3, <2>4, Publishing DEF Replace, Drift
<1> QED
  BY <1>1, <1>2 DEF Drift

(* The call whose reply arrives moves the projection to its revision. *)
LEMMA Adopting ==
    ASSUME IInv, NEW o \in Ops, op[o].pc \in {"landed", "statted"},
           UNCHANGED <<files, onDisk, restarts>>, usedIds' \subseteq CellIds,
           proj' = [ver |-> op[o].ver, cells |-> files[op[o].ver]],
           kernel' \in BOOLEAN, op' \in [Ops -> CallRecord], op'[o].pc = "settled",
           \A p \in Ops : op'[p].pc \in {"settled", op[p].pc},
           \A p \in Ops : CallInv(op'[p], files, proj.ver)
    PROVE  IInv' /\ proj'.ver >= proj.ver
<1>1. /\ op[o].ver \in DOMAIN files /\ op[o].ver \in 1..Len(files) /\ op[o].ver \in Nat
      /\ proj.ver \in Nat /\ proj.ver <= op[o].ver /\ files[op[o].ver] \in Seq(Cell)
  <2>1. op[o].ver \in DOMAIN files
    BY Typed DEF CallInv
  <2>2. op[o].ver \in Nat /\ op[o].base \in Nat
    BY Typed DEF CallRecord
  <2>3. proj.ver <= op[o].ver
    BY <2>2, Typed DEF CallInv
  <2> QED
    BY <2>1, <2>2, <2>3, Typed
<1>2. proj'.ver = op[o].ver /\ proj'.cells = files[op[o].ver]
  OBVIOUS
<1>3. TypeOK'
  <2>1. proj' \in [ver : 1..Len(files'), cells : Seq(Cell)]
    BY <1>1
  <2> QED
    BY <2>1 DEF IInv, TypeOK
<1>4. \A p \in Ops : op'[p].pc \notin {"landed", "statted"}
  <2> SUFFICES ASSUME NEW p \in Ops PROVE op'[p].pc \notin {"landed", "statted"}
    OBVIOUS
  <2>1. op[p].pc \in {"landed", "statted"} => p = o
    BY DEF IInv, RepliesAlone
  <2> QED
    BY <2>1
<1>5. \A p \in Ops : CallInv(op'[p], files, op[o].ver)
  BY <1>1, <1>4, ProjectionAdvanced
<1>6. (\A p \in Ops : CallInv(op[p], files, proj.ver))'
  BY <1>2, <1>5 DEF CallInv
<1>7. RepliesAlone'
  BY <1>4 DEF RepliesAlone
<1>8. ProjectionIsItsRevision'
  BY <1>2 DEF ProjectionIsItsRevision
<1> QED
  BY <1>1, <1>2, <1>3, <1>6, <1>7, <1>8 DEF IInv

LEMMA CommitInvariant ==
    ASSUME IInv, NEW o \in Ops, Commit(o)
    PROVE  IInv' /\ (proj'.ver >= proj.ver)
<1> DEFINE c == op[o]
<1>1. /\ c \in CallRecord /\ c.pc = "landed" /\ c.ev \in Event /\ proj.ver \in Nat
      /\ c.doc = Fold(c.ev, files[c.base]) /\ c.doc = files[c.ver] /\ proj.ver = c.base
  BY SMTT(40), Typed, RequestFields DEF Commit, At, CallInv
<1>2. CASE /\ proj' = [ver |-> c.ver, cells |-> Fold(c.ev, proj.cells)]
           /\ usedIds' = IF c.ev.kind = "execute" THEN usedIds ELSE usedIds \cup {c.ev.cell.id}
           /\ SettleAndRetire(o, "ok") \/ (Settle(o, "ok") /\ UNCHANGED kernel)
  <2>1. proj' = [ver |-> c.ver, cells |-> files[c.ver]]
    BY <1>1, <1>2, Typed
  <2>2. usedIds' \subseteq CellIds
    <3>1. c.ev.cell.id \in CellIds
      BY <1>1, CellFields DEF Event
    <3> QED
      BY <1>2, <3>1 DEF IInv, TypeOK
  <2>3. /\ op' \in [Ops -> CallRecord] /\ kernel' \in BOOLEAN
        /\ \A p \in Ops : CallInv(op'[p], files, proj.ver)
        /\ op'[o].pc = "settled"
        /\ \A p \in Ops : op'[p].pc \in {"settled", op[p].pc}
    <3>1. CASE SettleAndRetire(o, "ok")
      BY <3>1, Retiring DEF Results
    <3>2. CASE Settle(o, "ok") /\ UNCHANGED kernel
      <4> DEFINE d == Settled(o, "ok")
      <4>1. d \in CallRecord /\ d.pc = "settled" /\ CallInv(d, files, proj.ver)
        BY <1>1, SettledType DEF Results
      <4>2. op' = [op EXCEPT ![o] = d] /\ op \in [Ops -> CallRecord] /\ kernel \in BOOLEAN
            /\ \A p \in Ops : CallInv(op[p], files, proj.ver)
        BY <3>2 DEF Settle, IInv, TypeOK
      <4> HIDE DEF d
      <4> QED
        BY <3>2, <4>1, <4>2
    <3> QED
      BY <1>2, <3>1, <3>2
  <2> QED
    BY <1>1, <2>1, <2>2, <2>3, Adopting DEF Commit
<1>3. CASE Fail(o, "invalid") /\ UNCHANGED <<proj, usedIds>>
  BY <1>1, <1>3, Failing DEF Commit, Still, Results
<1> QED
  BY <1>2, <1>3 DEF Commit

LEMMA ReloadAppendInvariant ==
    ASSUME IInv, NEW o \in Ops, ReloadAppend(o)
    PROVE  IInv' /\ (proj'.ver >= proj.ver)
<1>1. /\ op[o].pc = "statted" /\ op[o].doc = files[op[o].ver] /\ proj.ver \in Nat
  BY Typed DEF ReloadAppend, At, CallInv
<1>2. CASE Settle(o, "refused") /\ UNCHANGED <<proj, kernel>>
  BY <1>1, <1>2, Settling DEF ReloadAppend, Still, Results, IInv, TypeOK
<1>3. CASE /\ proj' = [ver |-> op[o].ver, cells |-> op[o].doc]
           /\ SettleAndRetire(o, "ok")
  <2>1. /\ op' \in [Ops -> CallRecord] /\ kernel' \in BOOLEAN
        /\ \A p \in Ops : CallInv(op'[p], files, proj.ver)
        /\ op'[o].pc = "settled"
        /\ \A p \in Ops : op'[p].pc \in {"settled", op[p].pc}
    BY <1>3, Retiring DEF Results
  <2>2. usedIds' \subseteq CellIds
    BY DEF ReloadAppend, IInv, TypeOK
  <2> QED
    BY <1>1, <1>3, <2>1, <2>2, Adopting DEF ReloadAppend
<1> QED
  BY <1>2, <1>3 DEF ReloadAppend

LEMMA RetireKernelInvariant ==
    ASSUME IInv, RetireKernel
    PROVE  IInv'
<1>1. \A p \in Ops : /\ op'[p] \in CallRecord /\ CallInv(op'[p], files, proj.ver)
                     /\ op'[p].pc \in {"settled", op[p].pc}
  BY Typed, RetirementType DEF RetireKernel
<1>2. op' \in [Ops -> CallRecord]
  BY <1>1 DEF RetireKernel
<1> QED
  BY <1>1, <1>2, CallsOnly DEF RetireKernel, Still

LEMMA RestartInvariant ==
    ASSUME IInv, Restart
    PROVE  IInv'
<1> DEFINE adrift(p) == [op[p] EXCEPT !.pc = "adrift"]
<1>1. ASSUME NEW p \in Ops, op[p].pc = "writing"
      PROVE  adrift(p) \in CallRecord /\ adrift(p).pc = "adrift"
             /\ CallInv(adrift(p), files, proj.ver)
  <2> DEFINE c == op[p]
             d == [c EXCEPT !.pc = "adrift"]
  <2>1. c \in CallRecord /\ CallInv(c, files, proj.ver) /\ c.pc = "writing"
    BY <1>1, Typed
  <2>2. /\ d \in CallRecord /\ d.pc = "adrift" /\ d.req = c.req /\ d.newId = c.newId
        /\ d.was = c.was /\ d.base = c.base /\ d.ev = c.ev /\ d.doc = c.doc
    <3> HIDE DEF c
    <3> QED
      BY <2>1 DEF CallRecord, Pcs
  <2>3. CallInv(d, files, proj.ver)
    <3> HIDE DEF c, d
    <3> QED
      BY <2>1, <2>2 DEF CallInv
  <2> QED
    BY <2>2, <2>3
<1> HIDE DEF adrift
<1>2. \A p \in Ops : op'[p] = IF op[p].pc = "writing" THEN adrift(p)
                              ELSE IF Pending(p) THEN Settled(p, "unavailable") ELSE op[p]
  BY DEF Restart, At, adrift
<1>3. \A p \in Ops : /\ op'[p] \in CallRecord /\ CallInv(op'[p], files, proj.ver)
                     /\ op'[p].pc \in {"settled", "adrift", op[p].pc}
  BY <1>1, <1>2, Typed, SettledType DEF Results
<1>4. op' \in [Ops -> CallRecord]
  <2>1. op' = [p \in Ops |-> op'[p]]
    BY DEF Restart
  <2> QED
    BY <1>3, <2>1
<1>5. TypeOK'
  <2>1. restarts' \in 0..MaxRestarts
    BY ConstantsAssumption DEF Restart, IInv, TypeOK
  <2> QED
    BY <1>4, <2>1 DEF Restart, IInv, TypeOK
<1>6. (\A p \in Ops : CallInv(op[p], files, proj.ver))'
  <2>1. \A p \in Ops : CallInv(op'[p], files', proj'.ver)
    BY <1>3 DEF Restart
  <2> QED
    BY <2>1 DEF CallInv
<1>7. RepliesAlone'
  BY <1>3 DEF IInv, RepliesAlone
<1> QED
  BY <1>5, <1>6, <1>7 DEF Restart, IInv, ProjectionIsItsRevision

LEMMA UnlinkInvariant ==
    ASSUME IInv, ExternalUnlink
    PROVE  IInv'
<1>1. TypeOK'
  <2>1. onDisk' \in 0..Len(files')
    BY DEF ExternalUnlink, IInv, TypeOK
  <2> QED
    BY <2>1 DEF ExternalUnlink, IInv, TypeOK
<1>2. (\A p \in Ops : CallInv(op[p], files, proj.ver))'
  <2>1. files' = files /\ op' = op /\ proj' = proj
    BY DEF ExternalUnlink
  <2> QED
    BY <2>1 DEF IInv, CallInv
<1> QED
  BY <1>1, <1>2 DEF ExternalUnlink, IInv, ProjectionIsItsRevision, RepliesAlone

LEMMA StutterInvariant ==
    ASSUME IInv, UNCHANGED vars
    PROVE  IInv'
<1>1. (\A p \in Ops : CallInv(op[p], files, proj.ver))'
  <2>1. files' = files /\ op' = op /\ proj' = proj
    BY DEF vars
  <2> QED
    BY <2>1 DEF IInv, CallInv
<1> QED
  BY <1>1 DEF vars, IInv, TypeOK, ProjectionIsItsRevision, RepliesAlone

-----------------------------------------------------------------------------
(* The steps together. *)

LEMMA StepInvariant ==
    ASSUME IInv, Premises, [Next]_vars
    PROVE  IInv' /\ (proj'.ver >= proj.ver)
<1>0. proj.ver \in Nat /\ (UNCHANGED proj => proj'.ver >= proj.ver)
  BY DEF IInv, TypeOK
<1>1. ASSUME NEW o \in Ops, NEW r \in Requests, NEW n \in CellIds \cup {0}, Call(o, r, n)
      PROVE  IInv' /\ (proj'.ver >= proj.ver)
  BY <1>0, <1>1, CallInvariant DEF Call
<1>2. ASSUME NEW o \in Ops, Step(o)
      PROVE  IInv' /\ (proj'.ver >= proj.ver)
  <2>1. CASE MutationStart(o)
    BY <1>0, <2>1, MutationStartInvariant DEF MutationStart
  <2>2. CASE MutationConfirm(o)
    BY <1>0, <2>2, MutationConfirmInvariant DEF MutationConfirm
  <2>3. CASE Land(o)
    BY <1>0, <2>3, LandInvariant DEF Land
  <2>4. CASE WriteConflict(o)
    <3>1. IInv'
      BY <2>4, Failing DEF WriteConflict, Still, Results
    <3> QED
      BY <1>0, <2>4, <3>1 DEF WriteConflict
  <2>5. CASE Commit(o)
    BY <2>5, CommitInvariant
  <2>6. CASE ReloadStart(o)
    BY <1>0, <2>6, ReloadStartInvariant DEF ReloadStart
  <2>7. CASE ReloadConfirm(o)
    BY <1>0, <2>7, ReloadConfirmInvariant DEF ReloadConfirm
  <2>8. CASE ReloadStat(o)
    BY <1>0, <2>8, ReloadStatInvariant DEF ReloadStat
  <2>9. CASE ReloadAppend(o)
    BY <2>9, ReloadAppendInvariant
  <2>10. CASE RunStart(o)
    BY <1>0, <2>10, RunStartInvariant DEF RunStart
  <2>11. CASE RunConfirm(o)
    BY <1>0, <2>11, RunConfirmInvariant DEF RunConfirm
  <2>12. CASE RunPrepare(o)
    BY <1>0, <2>12, RunPrepareInvariant DEF RunPrepare
  <2>13. ASSUME NEW out \in Outputs \ {NoOutput}, RunEnds(o, out)
         PROVE  IInv' /\ (proj'.ver >= proj.ver)
    BY <1>0, <2>13, RunEndsInvariant DEF RunEnds
  <2>14. CASE Drift(o)
    BY <1>0, <2>14, DriftInvariant DEF Drift
  <2> QED
    BY <1>2, <2>1, <2>2, <2>3, <2>4, <2>5, <2>6, <2>7, <2>8, <2>9, <2>10, <2>11,
       <2>12, <2>13, <2>14 DEF Step
<1>3. ASSUME NEW o \in Ops, WriteFails(o)
      PROVE  IInv' /\ (proj'.ver >= proj.ver)
  <2>1. IInv'
    BY <1>3, Failing DEF WriteFails, Still, Results
  <2> QED
    BY <1>0, <1>3, <2>1 DEF WriteFails
<1>4. ASSUME NEW o \in Ops, Abort(o)
      PROVE  IInv' /\ (proj'.ver >= proj.ver)
  <2>1. IInv'
    BY <1>4, Settling DEF Abort, Still, Results, IInv, TypeOK
  <2> QED
    BY <1>0, <1>4, <2>1 DEF Abort
<1>5. CASE StartKernel
  BY <1>0, <1>5, StartKernelInvariant DEF StartKernel
<1>6. CASE RetireKernel
  BY <1>0, <1>6, RetireKernelInvariant DEF RetireKernel
<1>7. ASSUME NEW d \in ExternalDocs, ExternalWrite(d)
      PROVE  IInv' /\ (proj'.ver >= proj.ver)
  BY <1>0, <1>7, ExternalWriteInvariant DEF ExternalWrite
<1>8. CASE ExternalUnlink
  BY <1>0, <1>8, UnlinkInvariant DEF ExternalUnlink
<1>9. CASE Restart
  BY <1>0, <1>9, RestartInvariant DEF Restart
<1>10. CASE UNCHANGED vars
  BY <1>0, <1>10, StutterInvariant DEF vars
<1> QED
  BY <1>1, <1>2, <1>3, <1>4, <1>5, <1>6, <1>7, <1>8, <1>9, <1>10 DEF Next

(* IInv holds throughout every behaviour. *)
THEOREM InductiveInvariant ==
    ASSUME Premises
    PROVE  Spec => []IInv
<1>1. IInv /\ [Next]_vars => IInv'
  BY StepInvariant
<1> QED
  BY <1>1, InitInv, PTL DEF Spec

(* What the session shows is the file revision it names, for any number of *)
(* calls, cells, revisions, faults and restarts.                           *)
THEOREM ProjectionAgrees ==
    ASSUME Premises
    PROVE  Spec => []ProjectionIsItsRevision
<1>1. IInv => ProjectionIsItsRevision
  BY DEF IInv
<1> QED
  BY <1>1, InductiveInvariant, PTL

(* The projection never goes back to an older revision. *)
THEOREM ProjectionAdvances ==
    ASSUME Premises
    PROVE  Spec => ProjectionNeverRegresses
<1>1. IInv /\ [Next]_vars => [proj'.ver >= proj.ver]_vars
  BY StepInvariant
<1> QED
  BY <1>1, InductiveInvariant, PTL DEF Spec, ProjectionNeverRegresses

(* No call of the service overwrites content that the projection did not   *)
(* show: whatever ran beside it, the revision it replaces is the one shown. *)
THEOREM NoLostUpdates ==
    ASSUME Premises
    PROVE  Spec => ReplacesOnlyWhatIsShown
<1>1. ASSUME IInv, NEW o \in Ops, op[o].pc \in {"writing", "adrift"}, onDisk = op[o].base
      PROVE  files[onDisk] = proj.cells
  <2>1. op[o].base \in 1..proj.ver
    BY <1>1, Typed DEF CallInv
  <2> QED
    BY <1>1, <2>1, Typed
<1>2. ASSUME IInv, NEW o \in Ops, Drift(o), Replace(o), onDisk # op[o].base
      PROVE  FALSE
  <2>1. files' = files
    BY <1>2 DEF Drift, Current
  <2>2. Len(files') = Len(files) + 1 /\ Len(files) \in Nat
    BY <1>2, Typed, RequestFields DEF Replace
  <2> QED
    BY <2>1, <2>2
<1>3. IInv => \A o \in Ops : Land(o) \/ (Drift(o) /\ Replace(o)) => files[onDisk] = proj.cells
  BY <1>1, <1>2 DEF Land, Drift, At, Current
<1> QED
  BY <1>3, InductiveInvariant, PTL DEF Spec, ReplacesOnlyWhatIsShown

(* The file and the projection implement RevisionedDocument: every step    *)
(* publishes one revision, unlinks the file, adopts a later revision       *)
(* exactly, or changes nothing of this.                                    *)
THEOREM Refinement ==
    ASSUME Premises
    PROVE  Spec => ImplementsRevisionedDocument
<1> DEFINE sees == <<files, onDisk, proj.ver, proj.cells>>
<1>1. Init => Revisions!Init
  <2> SUFFICES ASSUME Init PROVE Revisions!Init
    OBVIOUS
  <2>1. OpenedCells \in Seq(Cell)
    BY ConstantsAssumption
  <2> QED
    BY <2>1 DEF Init, Revisions!Init
<1>2. ASSUME IInv, IInv', proj'.ver >= proj.ver, [Next]_vars
      PROVE  [Revisions!Next]_sees
  <2>1. ASSUME NEW w \in Seq(Cell), files' = Append(files, w), onDisk' = Len(files) + 1,
               UNCHANGED proj
        PROVE  Revisions!Publish
    <3>1. files \in Seq(Seq(Cell))
      BY <1>2 DEF IInv, TypeOK
    <3> QED
      BY <2>1, <3>1 DEF Revisions!Publish
  <2>2. ASSUME UNCHANGED <<files, onDisk>>
        PROVE  Revisions!Adopt \/ UNCHANGED sees
    <3>1. /\ proj'.ver \in 1..Len(files) /\ proj.ver \in 1..Len(files) /\ Len(files) \in Nat
          /\ proj.cells = files[proj.ver] /\ proj'.cells = files[proj'.ver]
      BY <1>2, <2>2 DEF IInv, TypeOK, ProjectionIsItsRevision
    <3>2. CASE proj'.ver = proj.ver
      BY <2>2, <3>1, <3>2
    <3>3. CASE proj'.ver # proj.ver
      <4>1. proj'.ver \in (proj.ver + 1)..Len(files)
        BY <1>2, <3>1, <3>3
      <4> QED
        BY <2>2, <3>1, <4>1 DEF Revisions!Adopt
    <3> QED
      BY <3>2, <3>3
  <2>3. ASSUME ExternalUnlink
        PROVE  Revisions!Unlink
    BY <2>3 DEF ExternalUnlink, Revisions!Unlink
  <2>4. ASSUME NEW o \in Ops, Replace(o), UNCHANGED proj
        PROVE  Revisions!Publish
    <3>1. op[o].doc \in Seq(Cell)
      BY <1>2, Typed, RequestFields
    <3> QED
      BY <2>1, <2>4, <3>1 DEF Replace
  <2>5. ASSUME NEW o \in Ops, Step(o)
        PROVE  UNCHANGED <<files, onDisk>> \/ Revisions!Publish
    BY <2>4, <2>5 DEF Step, MutationStart, MutationConfirm, Land, WriteConflict, Commit,
       ReloadStart, ReloadConfirm, ReloadStat, ReloadAppend, RunStart, RunConfirm,
       RunPrepare, RunEnds, Drift
  <2>6. ASSUME NEW d \in ExternalDocs, ExternalWrite(d)
        PROVE  Revisions!Publish
    BY <2>1, <2>6, ConstantsAssumption DEF ExternalWrite
  <2> QED
    BY <1>2, <2>2, <2>3, <2>5, <2>6 DEF Next, Call, WriteFails, Abort, StartKernel,
       RetireKernel, Restart, vars, Revisions!Next
<1>3. IInv /\ [Next]_vars => IInv' /\ (proj'.ver >= proj.ver)
  BY StepInvariant
<1>4. IInv /\ IInv' /\ [Next]_vars => [Revisions!Next]_sees
  BY <1>2, <1>3
<1> QED
  BY <1>1, <1>4, InductiveInvariant, PTL DEF Spec, ImplementsRevisionedDocument, Revisions!Spec

(***************************************************************************)
(* Part II.  The state is typed, ids are unique and no document of the     *)
(* session is empty, in whatever order replies come; and outputs stand     *)
(* beside the source that ran.                                             *)
(***************************************************************************)

-----------------------------------------------------------------------------
(* What an insertion and a removal do to the places of a sequence, and     *)
(* that the edits of a document keep its ids unique.                       *)

LEMMA Concatenated ==
    ASSUME NEW S, NEW s \in Seq(S), NEW t \in Seq(S)
    PROVE  /\ Len(s \o t) = Len(s) + Len(t)
           /\ \A j \in 1..(Len(s) + Len(t)) :
                 (s \o t)[j] = IF j <= Len(s) THEN s[j] ELSE t[j - Len(s)]
OBVIOUS

LEMMA InsertedAt ==
    ASSUME NEW S, NEW s \in Seq(S), NEW i \in 1..(Len(s) + 1), NEW e \in S
    PROVE  /\ Len(InsertAt(s, i, e)) = Len(s) + 1
           /\ \A j \in 1..(Len(s) + 1) :
                 InsertAt(s, i, e)[j] = IF j < i THEN s[j] ELSE IF j = i THEN e ELSE s[j - 1]
<1> DEFINE front == SubSeq(s, 1, i - 1)
           back  == SubSeq(s, i, Len(s))
<1>1. front \in Seq(S) /\ Len(front) = i - 1 /\ \A j \in 1..(i - 1) : front[j] = s[j]
  OBVIOUS
<1>2. back \in Seq(S) /\ Len(back) = Len(s) - i + 1
      /\ \A j \in 1..(Len(s) - i + 1) : back[j] = s[i + j - 1]
  OBVIOUS
<1>3. Len(s) \in Nat /\ i \in Nat
  OBVIOUS
<1> HIDE DEF front, back
<1> DEFINE head == front \o <<e>>
<1>4. head \in Seq(S) /\ Len(head) = i
      /\ \A j \in 1..i : head[j] = IF j < i THEN s[j] ELSE e
  BY <1>1, <1>3
<1> HIDE DEF head
<1>5. /\ Len(head \o back) = Len(s) + 1
      /\ \A j \in 1..(Len(s) + 1) : (head \o back)[j] = IF j <= i THEN head[j] ELSE back[j - i]
  <2>1. Len(head) + Len(back) = Len(s) + 1
    BY <1>2, <1>3, <1>4
  <2>2. /\ Len(head \o back) = Len(head) + Len(back)
        /\ \A j \in 1..(Len(head) + Len(back)) :
              (head \o back)[j] = IF j <= Len(head) THEN head[j] ELSE back[j - Len(head)]
    BY <1>2, <1>4, Concatenated
  <2> QED
    BY <1>4, <2>1, <2>2
<1>6. ASSUME NEW j \in 1..(Len(s) + 1)
      PROVE  (head \o back)[j] = IF j < i THEN s[j] ELSE IF j = i THEN e ELSE s[j - 1]
  <2>1. CASE j <= i
    <3>1. (head \o back)[j] = head[j] /\ j \in 1..i
      BY <1>3, <1>5, <1>6, <2>1
    <3> QED
      BY <1>3, <1>4, <2>1, <3>1
  <2>2. CASE j > i
    <3>1. (head \o back)[j] = back[j - i] /\ j - i \in 1..(Len(s) - i + 1)
      BY <1>3, <1>5, <1>6, <2>2
    <3>2. back[j - i] = s[i + (j - i) - 1] /\ i + (j - i) - 1 = j - 1
      BY <1>2, <1>3, <3>1
    <3>3. (head \o back)[j] = s[j - 1] /\ ~(j < i) /\ j # i
      BY <1>3, <2>2, <3>1, <3>2
    <3> QED
      BY <3>3
  <2>3. j <= i \/ j > i
    BY <1>3
  <2> QED
    BY <2>1, <2>2, <2>3
<1> QED
  BY <1>5, <1>6 DEF InsertAt, head, front, back

LEMMA RemovedAt ==
    ASSUME NEW S, NEW s \in Seq(S), NEW i \in 1..Len(s)
    PROVE  /\ Len(RemoveAt(s, i)) = Len(s) - 1
           /\ \A j \in 1..(Len(s) - 1) : RemoveAt(s, i)[j] = IF j < i THEN s[j] ELSE s[j + 1]
<1> DEFINE front == SubSeq(s, 1, i - 1)
           back  == SubSeq(s, i + 1, Len(s))
<1>1. front \in Seq(S) /\ Len(front) = i - 1 /\ \A j \in 1..(i - 1) : front[j] = s[j]
  OBVIOUS
<1>2. back \in Seq(S) /\ Len(back) = Len(s) - i
      /\ \A j \in 1..(Len(s) - i) : back[j] = s[i + j]
  OBVIOUS
<1>3. Len(s) \in Nat /\ i \in Nat
  OBVIOUS
<1> HIDE DEF front, back
<1>4. /\ Len(front \o back) = Len(s) - 1
      /\ \A j \in 1..(Len(s) - 1) :
            (front \o back)[j] = IF j <= i - 1 THEN front[j] ELSE back[j - (i - 1)]
  <2>1. Len(front) + Len(back) = Len(s) - 1
    BY <1>1, <1>2, <1>3
  <2>2. /\ Len(front \o back) = Len(front) + Len(back)
        /\ \A j \in 1..(Len(front) + Len(back)) :
              (front \o back)[j] = IF j <= Len(front) THEN front[j] ELSE back[j - Len(front)]
    BY <1>1, <1>2, Concatenated
  <2> QED
    BY <1>1, <2>1, <2>2
<1>5. ASSUME NEW j \in 1..(Len(s) - 1)
      PROVE  (front \o back)[j] = IF j < i THEN s[j] ELSE s[j + 1]
  <2>1. CASE j < i
    BY <1>1, <1>3, <1>4, <1>5, <2>1
  <2>2. CASE j >= i
    <3>1. (front \o back)[j] = back[j - (i - 1)] /\ j - (i - 1) \in 1..(Len(s) - i)
      BY <1>3, <1>4, <1>5, <2>2
    <3>2. back[j - (i - 1)] = s[i + (j - (i - 1))] /\ i + (j - (i - 1)) = j + 1
      BY <1>2, <1>3, <3>1
    <3>3. (front \o back)[j] = s[j + 1] /\ ~(j < i)
      BY <1>3, <2>2, <3>1, <3>2
    <3> QED
      BY <3>3
  <2>3. j < i \/ j >= i
    BY <1>3
  <2> QED
    BY <2>1, <2>2, <2>3
<1> QED
  BY <1>4, <1>5 DEF RemoveAt, front, back

LEMMA ReplacingKeepsIds ==
    ASSUME NEW cells \in Seq(Cell), NEW i \in 1..Len(cells), NEW e, e.id = cells[i].id,
           IsDocument(cells)
    PROVE  IsDocument(ReplaceAt(cells, i, e)) /\ ReplaceAt(cells, i, e) # <<>>
<1>1. /\ DOMAIN ReplaceAt(cells, i, e) = 1..Len(cells)
      /\ \A j \in 1..Len(cells) : ReplaceAt(cells, i, e)[j].id = cells[j].id
  BY DEF ReplaceAt
<1>2. i \in DOMAIN ReplaceAt(cells, i, e)
  BY <1>1
<1>3. ReplaceAt(cells, i, e) # <<>>
  BY <1>2
<1> QED
  BY <1>1, <1>3 DEF IsDocument

LEMMA SourceKeepsIds ==
    ASSUME NEW cells \in Seq(Cell), NEW i \in 1..Len(cells), NEW src, IsDocument(cells)
    PROVE  IsDocument(WithSource(cells, i, src)) /\ WithSource(cells, i, src) # <<>>
<1>1. cells[i] \in Cell
  OBVIOUS
<1>2. [cells[i] EXCEPT !.src = src].id = cells[i].id
  BY <1>1 DEF Cell
<1> QED
  BY <1>2, ReplacingKeepsIds DEF WithSource

LEMMA OutputKeepsIds ==
    ASSUME NEW cells \in Seq(Cell), NEW i \in 1..Len(cells), NEW out, IsDocument(cells)
    PROVE  IsDocument(WithOutput(cells, i, out)) /\ WithOutput(cells, i, out) # <<>>
<1>1. cells[i] \in Cell
  OBVIOUS
<1>2. [cells[i] EXCEPT !.out = out].id = cells[i].id
  BY <1>1 DEF Cell
<1> QED
  BY <1>2, ReplacingKeepsIds DEF WithOutput

LEMMA InsertKeepsIds ==
    ASSUME NEW cells \in Seq(Cell), NEW i \in 1..(Len(cells) + 1), NEW e \in Cell,
           IsDocument(cells), ~Has(cells, e.id)
    PROVE  IsDocument(InsertAt(cells, i, e)) /\ InsertAt(cells, i, e) # <<>>
<1> DEFINE t == InsertAt(cells, i, e)
<1>1. /\ t \in Seq(Cell) /\ Len(t) = Len(cells) + 1 /\ Len(cells) \in Nat /\ DOMAIN t = 1..(Len(cells) + 1)
      /\ \A j \in 1..(Len(cells) + 1) :
            t[j] = IF j < i THEN cells[j] ELSE IF j = i THEN e ELSE cells[j - 1]
  BY InsertedAt, InsertAtType
<1>2. \A j, k \in 1..Len(cells) : cells[j].id = cells[k].id => j = k
  BY DEF IsDocument
<1>3. \A j \in 1..Len(cells) : cells[j].id # e.id
  BY DEF Has
<1> HIDE DEF t
<1>4. t # <<>>
  BY <1>1
<1>5. \A j, k \in 1..(Len(cells) + 1) : t[j].id = t[k].id => j = k
  <2> SUFFICES ASSUME NEW j \in 1..(Len(cells) + 1), NEW k \in 1..(Len(cells) + 1),
                      t[j].id = t[k].id
               PROVE  j = k
    OBVIOUS
  <2> DEFINE old(m) == IF m < i THEN m ELSE m - 1
  <2>1. \A m \in 1..(Len(cells) + 1) : m # i => old(m) \in 1..Len(cells) /\ t[m] = cells[old(m)]
    BY <1>1
  <2>2. t[i] = e
    BY <1>1
  <2>3. CASE j # i /\ k # i
    <3>1. old(j) = old(k)
      BY SMTT(40), <1>2, <2>1, <2>3
    <3> QED
      BY <1>1, <2>3, <3>1
  <2>4. CASE j = i \/ k = i
    BY <1>3, <2>1, <2>2, <2>4
  <2> QED
    BY <2>3, <2>4
<1> QED
  BY <1>1, <1>4, <1>5 DEF IsDocument, t

LEMMA RemoveKeepsIds ==
    ASSUME NEW cells \in Seq(Cell), NEW i \in 1..Len(cells), IsDocument(cells)
    PROVE  /\ IsDocument(RemoveAt(cells, i)) /\ ~Has(RemoveAt(cells, i), cells[i].id)
           /\ Len(cells) > 1 => RemoveAt(cells, i) # <<>>
<1> DEFINE t == RemoveAt(cells, i)
<1>1. /\ t \in Seq(Cell) /\ Len(t) = Len(cells) - 1 /\ Len(cells) \in Nat /\ DOMAIN t = 1..(Len(cells) - 1)
      /\ \A j \in 1..(Len(cells) - 1) : t[j] = IF j < i THEN cells[j] ELSE cells[j + 1]
  <2>1. t \in Seq(Cell) /\ Len(t) = Len(cells) - 1 /\ Len(cells) \in Nat
    BY RemoveAtType
  <2>2. \A j \in 1..(Len(cells) - 1) : t[j] = IF j < i THEN cells[j] ELSE cells[j + 1]
    BY RemovedAt
  <2> HIDE DEF t
  <2>3. DOMAIN t = 1..(Len(cells) - 1)
    BY <2>1
  <2> QED
    BY <2>1, <2>2, <2>3
<1>2. \A j, k \in 1..Len(cells) : cells[j].id = cells[k].id => j = k
  BY DEF IsDocument
<1> HIDE DEF t
<1>3. \A j, k \in 1..(Len(cells) - 1) : t[j].id = t[k].id => j = k
  BY SMTT(40), <1>1, <1>2
<1>4. \A j \in 1..(Len(cells) - 1) : t[j].id # cells[i].id
  BY <1>1, <1>2
<1>5. Len(cells) > 1 => t # <<>>
  BY <1>1
<1> QED
  BY <1>1, <1>3, <1>4, <1>5 DEF IsDocument, Has, t

LEMMA MoveKeepsIds ==
    ASSUME NEW cells \in Seq(Cell), NEW i \in 1..Len(cells), NEW j \in 1..Len(cells),
           IsDocument(cells)
    PROVE  IsDocument(Moved(cells, i, j)) /\ Moved(cells, i, j) # <<>>
<1>1. cells[i] \in Cell
  OBVIOUS
<1>2. /\ RemoveAt(cells, i) \in Seq(Cell) /\ j \in 1..(Len(RemoveAt(cells, i)) + 1)
      /\ IsDocument(RemoveAt(cells, i)) /\ ~Has(RemoveAt(cells, i), cells[i].id)
  BY RemoveAtType, RemoveKeepsIds
<1> QED
  BY <1>1, <1>2, InsertKeepsIds DEF Moved

LEMMA FoldKeepsIds ==
    ASSUME NEW ev \in Event, NEW cells \in Seq(Cell), IsDocument(cells), Foldable(ev, cells)
    PROVE  IsDocument(Fold(ev, cells))
<1>1. ev.cell \in Cell
  BY DEF Event
<1>2. CASE ev.kind = "update"
  <2>1. ev.at \in 1..Len(cells)
    BY <1>2 DEF Foldable
  <2> QED
    BY <1>2, <2>1, SourceKeepsIds DEF Fold
<1>3. CASE ev.kind = "create"
  <2>1. ev.at \in 1..(Len(cells) + 1) /\ ~Has(cells, ev.cell.id)
    BY <1>3 DEF Foldable
  <2> QED
    BY <1>1, <1>3, <2>1, InsertKeepsIds DEF Fold
<1>4. CASE ev.kind = "delete"
  <2>1. ev.at \in 1..Len(cells)
    BY <1>4 DEF Foldable
  <2> QED
    BY <1>4, <2>1, RemoveKeepsIds DEF Fold
<1>5. CASE ev.kind = "move"
  <2>1. ev.at \in 1..Len(cells) /\ ev.to \in 1..Len(cells)
    BY <1>5 DEF Foldable
  <2> QED
    BY <1>5, <2>1, MoveKeepsIds DEF Fold
<1>6. CASE ev.kind = "execute"
  <2>1. IndexOf(cells, ev.cell.id) \in 1..Len(cells)
    BY <1>6, IndexOfIsThere DEF Foldable
  <2> QED
    BY <1>6, <2>1, OutputKeepsIds DEF Fold
<1> QED
  BY <1>2, <1>3, <1>4, <1>5, <1>6 DEF Foldable

-----------------------------------------------------------------------------
(* The invariant of types and documents.  What is known of one call when   *)
(* the file has had n revisions.                                           *)

Submitted == {"writing", "landed", "adrift"}

CallDoc(c, n) ==
    /\ c.pc \notin {"idle", "settled"} /\ c.req.kind \in {"insert", "copy"} => c.newId \in CellIds
    /\ c.pc \in {"running", "ended"} => c.req.kind = "run"
    /\ c.pc \in {"admitting", "statted"} => c.req.kind = "reload"
    \* the revision a call compares the file with is one the file has had
    /\ c.pc = "reading" /\ c.req.kind # "reload" => c.base # 0
    /\ c.pc = "reading" /\ c.req.kind = "insert" => c.ev.at # 0
    /\ c.pc \in {"reading", "running"} /\ c.req.kind = "run" => c.was.id = c.req.id
    /\ c.pc \in {"ended"} \cup Submitted /\ c.req.kind = "run" =>
          c.ev.kind = "execute" /\ c.ev.cell.id = c.req.id
    \* what a call has read, and what it has submitted
    /\ c.pc \in {"running", "ended", "admitting", "statted"} \cup Submitted => IsDocument(c.doc)
    /\ c.pc \in Submitted => c.doc # <<>>
    /\ c.pc \in {"landed", "admitting", "statted"} => c.ver \in 1..n

DocInv ==
    /\ TypeOK
    /\ \A v \in DOMAIN files : IsDocument(files[v])
    /\ IsDocument(proj.cells)
    /\ \A o \in Ops : CallDoc(op[o], Len(files))

LEMMA RewriteKeepsIds ==
    ASSUME NEW c \in CallRecord, NEW cells \in Seq(Cell), IsDocument(cells), Rewritable(c, cells),
           c.req.kind \in {"insert", "copy"} => c.newId \in CellIds,
           c.req.kind = "insert" => c.ev.at # 0
    PROVE  /\ Rewrite(c, cells) \in Seq(Cell)
           /\ IsDocument(Rewrite(c, cells)) /\ Rewrite(c, cells) # <<>>
<1> DEFINE i == IndexOf(cells, c.req.id)
<1>0. /\ c.req.type \in CellTypes /\ c.req.src \in Sources /\ c.req.to \in Nat
      /\ c.newId \in CellIds \cup {0} /\ c.ev \in Event
  BY RequestFields
<1>1. Has(cells, c.req.id) => i \in 1..Len(cells) /\ cells[i] \in Cell
  <2>1. Has(cells, c.req.id) => i \in 1..Len(cells)
    BY IndexOfIsThere
  <2> QED
    BY <2>1
<1>2. CASE c.req.kind = "edit"
  <2>1. i \in 1..Len(cells) /\ Rewrite(c, cells) = WithSource(cells, i, c.req.src)
    BY <1>1, <1>2 DEF Rewritable, Rewrite
  <2> HIDE DEF i
  <2> QED
    BY <1>0, <2>1, WithSourceType, SourceKeepsIds
<1>3. CASE c.req.kind = "insert"
  <2> DEFINE e == [id |-> c.newId, type |-> c.req.type, src |-> c.req.src, out |-> NoOutput]
  <2>1. e \in Cell /\ e.id = c.newId
    BY <1>0, <1>3, ConstantsAssumption DEF Cell
  <2>2. c.ev.at \in Nat
    BY <1>0 DEF Event
  <2>3. c.ev.at \in 1..(Len(cells) + 1) /\ ~Has(cells, c.newId)
    BY <1>3, <2>2 DEF Rewritable
  <2>4. Rewrite(c, cells) = InsertAt(cells, c.ev.at, e)
    BY <1>3 DEF Rewrite
  <2> HIDE DEF e
  <2> QED
    BY <2>1, <2>3, <2>4, InsertAtType, InsertKeepsIds
<1>4. CASE c.req.kind = "delete"
  <2>1. i \in 1..Len(cells) /\ Len(cells) > 1 /\ Rewrite(c, cells) = RemoveAt(cells, i)
    BY <1>1, <1>4 DEF Rewritable, Rewrite
  <2> HIDE DEF i
  <2> QED
    BY <2>1, RemoveAtType, RemoveKeepsIds
<1>5. CASE c.req.kind = "move"
  <2>1. /\ i \in 1..Len(cells) /\ c.req.to \in 1..Len(cells)
        /\ Rewrite(c, cells) = Moved(cells, i, c.req.to)
    BY <1>1, <1>5 DEF Rewritable, Rewrite
  <2> HIDE DEF i
  <2> QED
    BY <2>1, MovedType, MoveKeepsIds
<1>6. CASE c.req.kind = "copy"
  <2> DEFINE e == ClonedCell(cells[i], c.newId)
  <2>1. i \in 1..Len(cells) /\ cells[i] \in Cell /\ ~Has(cells, c.newId)
    BY <1>1, <1>6 DEF Rewritable
  <2>2. e \in Cell /\ e.id = c.newId
    BY <1>6, <2>1 DEF ClonedCell, Cell
  <2>3. Rewrite(c, cells) = InsertAt(cells, i + 1, e)
    BY <1>6 DEF Rewrite
  <2>4. i + 1 \in 1..(Len(cells) + 1)
    BY <2>1
  <2> HIDE DEF e, i
  <2> QED
    BY <2>1, <2>2, <2>3, <2>4, InsertAtType, InsertKeepsIds
<1> QED
  BY <1>2, <1>3, <1>4, <1>5, <1>6 DEF Rewritable

(* What is known of a call outlives the steps of the others.               *)
LEMMA SettledDoc ==
    ASSUME TypeOK, NEW o \in Ops, NEW result \in Results, NEW n
    PROVE  Settled(o, result) \in CallRecord /\ CallDoc(Settled(o, result), n)
<1>1. op[o] \in CallRecord
  BY DEF TypeOK
<1>2. Settled(o, result) \in CallRecord /\ Settled(o, result).pc = "settled"
  BY <1>1, SettledType
<1> QED
  BY <1>2 DEF CallDoc, Submitted

LEMMA RetirementDoc ==
    ASSUME TypeOK, NEW o \in Ops, NEW n, CallDoc(op[o], n)
    PROVE  AfterRetirement(o) \in CallRecord /\ CallDoc(AfterRetirement(o), n)
<1>1. op[o] \in CallRecord
  BY DEF TypeOK
<1>2. CASE AfterRetirement(o) = op[o]
  BY <1>1, <1>2
<1>3. CASE AfterRetirement(o) = Settled(o, "unavailable")
  BY <1>3, SettledDoc DEF Results
<1>4. CASE AfterRetirement(o) = [op[o] EXCEPT !.cut = TRUE] /\ op[o].pc \in {"writing", "landed"}
  <2> DEFINE c == op[o]
             d == [c EXCEPT !.cut = TRUE]
  <2>1. /\ d \in CallRecord /\ d.pc = c.pc /\ d.req = c.req /\ d.newId = c.newId
        /\ d.base = c.base /\ d.was = c.was /\ d.ev = c.ev /\ d.doc = c.doc /\ d.ver = c.ver
    BY <1>1 DEF CallRecord
  <2> HIDE DEF d
  <2>2. CallDoc(d, n)
    BY <2>1 DEF CallDoc
  <2> QED
    BY <1>4, <2>1, <2>2 DEF d
<1> QED
  BY <1>2, <1>3, <1>4 DEF AfterRetirement

LEMMA DocAfterCalls ==
    ASSUME DocInv, Still, kernel' \in BOOLEAN, op' \in [Ops -> CallRecord],
           \A p \in Ops : CallDoc(op'[p], Len(files))
    PROVE  DocInv'
BY DEF DocInv, TypeOK, Still, CallDoc

LEMMA DocAfterCall ==
    ASSUME DocInv, Still, kernel' \in BOOLEAN, NEW o \in Ops, NEW d \in CallRecord,
           op' = [op EXCEPT ![o] = d], CallDoc(d, Len(files))
    PROVE  DocInv'
<1>1. op' \in [Ops -> CallRecord] /\ \A p \in Ops : op'[p] = IF p = o THEN d ELSE op[p]
  BY DEF DocInv, TypeOK
<1>2. \A p \in Ops : CallDoc(op'[p], Len(files))
  BY <1>1 DEF DocInv
<1> QED
  BY <1>1, <1>2, DocAfterCalls

LEMMA DocAfterSettling ==
    ASSUME DocInv, Still, kernel' \in BOOLEAN, NEW o \in Ops, NEW result \in Results,
           Settle(o, result)
    PROVE  DocInv'
<1>1. Settled(o, result) \in CallRecord /\ CallDoc(Settled(o, result), Len(files))
  BY SettledDoc DEF DocInv
<1> QED
  BY <1>1, DocAfterCall DEF Settle

(* A failed call, with or without its kernel.                              *)
LEMMA FailingDoc ==
    ASSUME DocInv, NEW o \in Ops, NEW result \in Results,
           \/ Fail(o, result) \/ SettleAndRetire(o, result)
           \/ Settle(o, result) /\ UNCHANGED kernel
    PROVE  /\ op' \in [Ops -> CallRecord] /\ kernel' \in BOOLEAN
           /\ \A p \in Ops : CallDoc(op'[p], Len(files))
<1>1. TypeOK /\ op \in [Ops -> CallRecord] /\ kernel \in BOOLEAN
      /\ \A p \in Ops : CallDoc(op[p], Len(files))
  BY DEF DocInv, TypeOK
<1>2. Settled(o, result) \in CallRecord /\ CallDoc(Settled(o, result), Len(files))
  BY <1>1, SettledDoc
<1>3. CASE Settle(o, result) /\ kernel' \in BOOLEAN
  BY <1>1, <1>2, <1>3 DEF Settle
<1>4. CASE SettleAndRetire(o, result)
  BY <1>1, <1>2, <1>4, RetirementDoc DEF SettleAndRetire
<1> QED
  BY <1>1, <1>3, <1>4 DEF Fail

LEMMA DocInit == Init => DocInv
<1> SUFFICES ASSUME Init PROVE DocInv
  OBVIOUS
<1>1. files = <<OpenedCells>> /\ files \in Seq(Seq(Cell)) /\ Len(files) = 1 /\ DOMAIN files = {1}
  BY ConstantsAssumption DEF Init
<1>2. TypeOK
  BY TypesAtFirst
<1>3. \A o \in Ops : CallDoc(op[o], Len(files))
  BY DEF Init, Idle, CallDoc, Submitted
<1> QED
  BY <1>1, <1>2, <1>3, ConstantsAssumption DEF Init, DocInv

(* One lemma per action that carries a call on.                            *)
LEMMA MutationStartDoc ==
    ASSUME DocInv, NEW o \in Ops, MutationStart(o)
    PROVE  DocInv'
<1> DEFINE c == op[o]
           e == EventOf(c, proj.cells)
           d == [c EXCEPT !.pc = "reading", !.base = proj.ver, !.ev = e]
<1>0. Still /\ kernel' = kernel /\ kernel \in BOOLEAN
  BY DEF MutationStart, Still, DocInv, TypeOK
<1>1. CASE \E result \in {"missing", "invalid", "ok"} : Settle(o, result)
  BY <1>0, <1>1, DocAfterSettling DEF Results
<1>2. CASE /\ Has(proj.cells, c.req.id) \/ (c.req.kind = "insert" /\ c.req.id = 0)
           /\ op' = [op EXCEPT ![o] = [@ EXCEPT !.pc = "reading", !.base = proj.ver,
                                                !.ev = EventOf(op[o], proj.cells)]]
  <2>1. /\ c \in CallRecord /\ CallDoc(c, Len(files)) /\ c.pc = "queued" /\ c.req.kind \in Mutations
        /\ proj.cells \in Seq(Cell) /\ proj.ver \in Nat /\ proj.ver # 0
    BY DEF MutationStart, At, Mutates, DocInv, TypeOK
  <2>2. c.req.kind \in {"insert", "copy"} => c.newId \in CellIds
    BY <2>1 DEF CallDoc
  <2>3. e \in Event
    BY <1>2, <2>1, <2>2, EventOfType
  <2>4. c.req.kind = "insert" => e.at # 0
    <3>1. c.req.id # 0 => IndexOf(proj.cells, c.req.id) \in 1..Len(proj.cells)
      BY <1>2, <2>1, IndexOfIsThere
    <3> QED
      BY <3>1 DEF EventOf, InsertPosition
  <2>5. /\ d \in CallRecord /\ d.pc = "reading" /\ d.base = proj.ver /\ d.req = c.req
        /\ d.newId = c.newId /\ d.ev = e
    <3> HIDE DEF c, e
    <3> QED
      BY <2>1, <2>3 DEF CallRecord, Pcs
  <2>6. CallDoc(d, Len(files))
    <3> HIDE DEF c, d, e
    <3> QED
      BY <2>1, <2>2, <2>4, <2>5 DEF CallDoc, Mutations, Submitted
  <2>7. op' = [op EXCEPT ![o] = d]
    BY <1>2
  <2> HIDE DEF d
  <2> QED
    BY <1>0, <2>5, <2>6, <2>7, DocAfterCall
<1> QED
  BY <1>1, <1>2 DEF MutationStart

LEMMA MutationConfirmDoc ==
    ASSUME DocInv, NEW o \in Ops, MutationConfirm(o)
    PROVE  DocInv'
<1> DEFINE c == op[o]
           w == Rewrite(c, files[onDisk])
           d == [c EXCEPT !.pc = "writing", !.doc = w]
<1>0. Still /\ kernel' = kernel /\ kernel \in BOOLEAN
  BY DEF MutationConfirm, Still, DocInv, TypeOK
<1>1. CASE \E result \in {"conflict", "invalid"} : Settle(o, result)
  BY <1>0, <1>1, DocAfterSettling DEF Results
<1>2. CASE /\ Current(o) /\ Rewritable(c, files[onDisk])
           /\ op' = [op EXCEPT ![o] = [@ EXCEPT !.pc = "writing",
                                                !.doc = Rewrite(op[o], files[onDisk])]]
  <2>1. c \in CallRecord /\ CallDoc(c, Len(files)) /\ c.pc = "reading" /\ c.req.kind \in Mutations
    BY DEF MutationConfirm, At, Mutates, DocInv, TypeOK
  <2>2. c.req.kind \notin {"run", "reload"}
    BY <2>1 DEF Mutations
  <2>3. onDisk # 0
    BY <1>2, <2>1, <2>2 DEF CallDoc, Current
  <2>4. files[onDisk] \in Seq(Cell) /\ IsDocument(files[onDisk])
    BY <2>3 DEF DocInv, TypeOK
  <2>5. w \in Seq(Cell) /\ IsDocument(w) /\ w # <<>>
    BY <1>2, <2>1, <2>4, RewriteKeepsIds DEF CallDoc
  <2>6. /\ d \in CallRecord /\ d.pc = "writing" /\ d.doc = w /\ d.req = c.req
        /\ d.newId = c.newId
    <3> HIDE DEF c, w
    <3> QED
      BY <2>1, <2>5 DEF CallRecord, Pcs
  <2>7. CallDoc(d, Len(files))
    <3> HIDE DEF c, d, w
    <3> QED
      BY <2>1, <2>2, <2>5, <2>6 DEF CallDoc, Submitted
  <2>8. op' = [op EXCEPT ![o] = d]
    BY <1>2
  <2> HIDE DEF d
  <2> QED
    BY <1>0, <2>6, <2>7, <2>8, DocAfterCall
<1> QED
  BY <1>1, <1>2 DEF MutationConfirm

LEMMA RunStartDoc ==
    ASSUME DocInv, NEW o \in Ops, RunStart(o)
    PROVE  DocInv'
<1> DEFINE c == op[o]
           was == CellOf(proj.cells, c.req.id)
           d == [c EXCEPT !.pc = "reading", !.base = proj.ver, !.was = was]
<1>0. Still /\ kernel' = kernel /\ kernel \in BOOLEAN
  BY DEF RunStart, Still, DocInv, TypeOK
<1>1. CASE Settle(o, "missing")
  BY <1>0, <1>1, DocAfterSettling DEF Results
<1>2. CASE /\ Has(proj.cells, c.req.id)
           /\ op' = [op EXCEPT ![o] = [@ EXCEPT !.pc = "reading", !.base = proj.ver,
                                                !.was = CellOf(proj.cells, op[o].req.id)]]
  <2>1. /\ c \in CallRecord /\ CallDoc(c, Len(files)) /\ c.req.kind = "run"
        /\ proj.cells \in Seq(Cell) /\ proj.ver \in Nat /\ proj.ver # 0
    BY DEF RunStart, IsRun, DocInv, TypeOK
  <2>2. was \in Cell /\ was.id = c.req.id
    <3>1. /\ IndexOf(proj.cells, c.req.id) \in 1..Len(proj.cells)
          /\ proj.cells[IndexOf(proj.cells, c.req.id)].id = c.req.id
      BY <1>2, <2>1, IndexOfIsThere
    <3> QED
      BY <2>1, <3>1 DEF CellOf
  <2>3. /\ d \in CallRecord /\ d.pc = "reading" /\ d.req = c.req /\ d.base = proj.ver
        /\ d.was = was
    <3> HIDE DEF c, was
    <3> QED
      BY <2>1, <2>2 DEF CallRecord, Pcs
  <2>4. CallDoc(d, Len(files))
    <3> HIDE DEF c, d, was
    <3> QED
      BY <2>1, <2>2, <2>3 DEF CallDoc, Submitted
  <2>5. op' = [op EXCEPT ![o] = d]
    BY <1>2
  <2> HIDE DEF d
  <2> QED
    BY <1>0, <2>3, <2>4, <2>5, DocAfterCall
<1> QED
  BY <1>1, <1>2 DEF RunStart

LEMMA RunConfirmDoc ==
    ASSUME DocInv, NEW o \in Ops, RunConfirm(o)
    PROVE  DocInv'
<1> DEFINE c == op[o]
           w == files[onDisk]
           d == [c EXCEPT !.pc = "running", !.doc = w]
<1>0. Still /\ kernel' = kernel /\ kernel \in BOOLEAN
  BY DEF RunConfirm, Still, DocInv, TypeOK
<1>1. CASE Settle(o, "conflict")
  BY <1>0, <1>1, DocAfterSettling DEF Results
<1>2. CASE Current(o) /\ op' = [op EXCEPT ![o] = [@ EXCEPT !.pc = "running", !.doc = files[onDisk]]]
  <2>1. c \in CallRecord /\ CallDoc(c, Len(files)) /\ c.req.kind = "run" /\ c.pc = "reading"
    BY DEF RunConfirm, IsRun, At, DocInv, TypeOK
  <2>2. w \in Seq(Cell) /\ IsDocument(w)
    <3>1. onDisk # 0
      BY <1>2, <2>1 DEF CallDoc, Current
    <3> QED
      BY <3>1 DEF DocInv, TypeOK
  <2>3. d \in CallRecord /\ d.pc = "running" /\ d.req = c.req /\ d.doc = w /\ d.was = c.was
    <3> HIDE DEF c, w
    <3> QED
      BY <2>1, <2>2 DEF CallRecord, Pcs
  <2>4. CallDoc(d, Len(files))
    <3> HIDE DEF c, d, w
    <3> QED
      BY <2>1, <2>2, <2>3 DEF CallDoc, Submitted
  <2>5. op' = [op EXCEPT ![o] = d]
    BY <1>2
  <2> HIDE DEF d
  <2> QED
    BY <1>0, <2>3, <2>4, <2>5, DocAfterCall
<1> QED
  BY <1>1, <1>2 DEF RunConfirm

LEMMA RunEndsDoc ==
    ASSUME DocInv, NEW o \in Ops, NEW out \in Outputs \ {NoOutput}, RunEnds(o, out)
    PROVE  DocInv'
<1> DEFINE c == op[o]
           k == [c.was EXCEPT !.out = out]
           ev == [kind |-> "execute", at |-> 0, to |-> 0, cell |-> k]
           d == [c EXCEPT !.pc = "ended", !.ev = ev]
<1>0. Still /\ kernel' = kernel /\ kernel \in BOOLEAN
  BY DEF RunEnds, Still, DocInv, TypeOK
<1>1. c \in CallRecord /\ CallDoc(c, Len(files)) /\ c.pc = "running"
  BY DEF RunEnds, At, DocInv, TypeOK
<1>2. c.req.kind = "run" /\ c.was.id = c.req.id /\ IsDocument(c.doc)
  BY <1>1 DEF CallDoc
<1>3. k \in Cell /\ k.id = c.req.id
  BY <1>1, <1>2, RequestFields DEF Cell
<1>4. ev \in Event /\ ev.kind = "execute" /\ ev.cell.id = c.req.id
  <2> HIDE DEF k
  <2> QED
    BY <1>3 DEF Event
<1>5. d \in CallRecord /\ d.pc = "ended" /\ d.req = c.req /\ d.doc = c.doc /\ d.ev = ev
  <2> HIDE DEF c, ev
  <2> QED
    BY <1>1, <1>4 DEF CallRecord, Pcs
<1>6. CallDoc(d, Len(files))
  <2> HIDE DEF c, d, ev
  <2> QED
    BY <1>2, <1>4, <1>5 DEF CallDoc, Submitted
<1>7. op' = [op EXCEPT ![o] = d]
  BY DEF RunEnds
<1> HIDE DEF d
<1> QED
  BY <1>0, <1>5, <1>6, <1>7, DocAfterCall

LEMMA RunPrepareDoc ==
    ASSUME DocInv, NEW o \in Ops, RunPrepare(o)
    PROVE  DocInv'
<1> DEFINE c == op[o]
           w == WithOutput(c.doc, IndexOf(c.doc, c.req.id), c.ev.cell.out)
           d == [c EXCEPT !.pc = "writing", !.doc = w]
<1>0. Still /\ kernel' = kernel /\ kernel \in BOOLEAN
  BY DEF RunPrepare, Still, DocInv, TypeOK
<1>1. CASE Settle(o, "missing")
  BY <1>0, <1>1, DocAfterSettling DEF Results
<1>2. CASE Foldable(c.ev, c.doc) /\ op' = [op EXCEPT ![o] = d]
  <2>1. c \in CallRecord /\ CallDoc(c, Len(files)) /\ c.pc = "ended"
    BY DEF RunPrepare, At, DocInv, TypeOK
  <2>2. /\ c.req.kind = "run" /\ c.ev.kind = "execute" /\ c.ev.cell.id = c.req.id
        /\ IsDocument(c.doc)
    BY <2>1 DEF CallDoc
  <2>3. c.doc \in Seq(Cell) /\ c.ev.cell \in Cell /\ c.ev.cell.out \in Outputs
    <3>1. c.doc \in Seq(Cell) /\ c.ev \in Event
      BY <2>1, RequestFields
    <3>2. c.ev.cell \in Cell
      BY <3>1 DEF Event
    <3> QED
      BY <3>1, <3>2, CellFields
  <2>4. IndexOf(c.doc, c.req.id) \in 1..Len(c.doc)
    BY <1>2, <2>2, <2>3, IndexOfIsThere DEF Foldable
  <2>5. w \in Seq(Cell) /\ IsDocument(w) /\ w # <<>>
    BY <2>2, <2>3, <2>4, WithOutputType, OutputKeepsIds
  <2>6. d \in CallRecord /\ d.pc = "writing" /\ d.req = c.req /\ d.doc = w /\ d.ev = c.ev
    <3> HIDE DEF c, w
    <3> QED
      BY <2>1, <2>5 DEF CallRecord, Pcs
  <2>7. CallDoc(d, Len(files))
    <3> HIDE DEF c, d, w
    <3> QED
      BY <2>2, <2>5, <2>6 DEF CallDoc, Submitted
  <2> HIDE DEF d
  <2> QED
    BY <1>0, <1>2, <2>6, <2>7, DocAfterCall
<1> QED
  BY <1>1, <1>2 DEF RunPrepare

LEMMA ReloadDoc ==
    ASSUME DocInv, NEW o \in Ops, ReloadStart(o) \/ ReloadConfirm(o) \/ ReloadStat(o)
    PROVE  DocInv'
<1> DEFINE c == op[o]
<1>0. /\ Still /\ kernel' = kernel /\ kernel \in BOOLEAN
      /\ c \in CallRecord /\ CallDoc(c, Len(files))
  BY DEF ReloadStart, ReloadConfirm, ReloadStat, Still, DocInv, TypeOK
<1>1. CASE \E result \in {"refused", "conflict"} : Settle(o, result)
  BY <1>0, <1>1, DocAfterSettling DEF Results
<1>2. CASE ReloadStart(o) /\ op' = [op EXCEPT ![o].pc = "reading"]
  <2> DEFINE d == [c EXCEPT !.pc = "reading"]
  <2>1. d \in CallRecord /\ d.pc = "reading" /\ d.req = c.req
    BY <1>0 DEF CallRecord, Pcs
  <2>2. c.req.kind = "reload"
    BY <1>2 DEF ReloadStart, IsReload
  <2>3. op' = [op EXCEPT ![o] = d]
    BY <1>2
  <2> HIDE DEF d, c
  <2>4. CallDoc(d, Len(files))
    BY <2>1, <2>2 DEF CallDoc, Submitted
  <2> QED
    BY <1>0, <2>1, <2>3, <2>4, DocAfterCall
<1>3. CASE /\ ReloadConfirm(o) /\ onDisk # 0
           /\ op' = [op EXCEPT ![o] = [@ EXCEPT !.pc = "admitting", !.ver = onDisk,
                                                !.doc = files[onDisk]]]
  <2> DEFINE w == files[onDisk]
             d == [c EXCEPT !.pc = "admitting", !.ver = onDisk, !.doc = w]
  <2>1. onDisk \in 1..Len(files) /\ onDisk \in Nat /\ w \in Seq(Cell) /\ IsDocument(w)
    BY <1>3 DEF DocInv, TypeOK
  <2>2. d \in CallRecord /\ d.pc = "admitting" /\ d.req = c.req /\ d.ver = onDisk /\ d.doc = w
    <3> HIDE DEF c, w
    <3> QED
      BY <1>0, <2>1 DEF CallRecord, Pcs
  <2>3. c.req.kind = "reload"
    BY <1>3 DEF ReloadConfirm, IsReload
  <2>4. op' = [op EXCEPT ![o] = d]
    BY <1>3
  <2> HIDE DEF d, c, w
  <2>5. CallDoc(d, Len(files))
    BY <2>1, <2>2, <2>3 DEF CallDoc, Submitted
  <2> QED
    BY <1>0, <2>2, <2>4, <2>5, DocAfterCall
<1>4. CASE ReloadStat(o) /\ op' = [op EXCEPT ![o].pc = "statted"]
  <2> DEFINE d == [c EXCEPT !.pc = "statted"]
  <2>1. /\ d \in CallRecord /\ d.pc = "statted" /\ d.req = c.req /\ d.newId = c.newId
        /\ d.doc = c.doc /\ d.ver = c.ver
    BY <1>0 DEF CallRecord, Pcs
  <2>2. c.pc = "admitting"
    BY <1>4 DEF ReloadStat, At
  <2>3. op' = [op EXCEPT ![o] = d]
    BY <1>4
  <2> HIDE DEF d, c
  <2>4. CallDoc(d, Len(files))
    BY <1>0, <2>1, <2>2 DEF CallDoc, Submitted
  <2> QED
    BY <1>0, <2>1, <2>3, <2>4, DocAfterCall
<1> QED
  BY <1>1, <1>2, <1>3, <1>4 DEF ReloadStart, ReloadConfirm, ReloadStat

LEMMA CallKeepsDoc ==
    ASSUME DocInv, NEW o \in Ops, NEW r \in Requests, NEW n \in CellIds \cup {0}, Call(o, r, n)
    PROVE  DocInv'
<1> DEFINE wait == r.kind = "run" /\ ~kernel
           was == IF r.kind \in {"delete", "move", "copy"}
                  THEN CellOf(proj.cells, r.id) ELSE AnyCell
           d == [Idle EXCEPT !.pc = IF wait THEN "waiting" ELSE "queued",
                             !.req = r, !.newId = n, !.ahead = Ahead(r.kind), !.was = was]
<1>1. was \in Cell
  <2>1. AnyCell \in Cell
    BY ConstantsAssumption DEF AnyCell, Cell
  <2>2. ASSUME r.kind \in {"delete", "move", "copy"}
        PROVE  CellOf(proj.cells, r.id) \in Cell
    <3>1. Has(proj.cells, r.id) /\ proj.cells \in Seq(Cell)
      BY <2>2 DEF Call, Callable, DocInv, TypeOK
    <3> QED
      BY <3>1, IndexOfIsThere DEF CellOf
  <2> QED
    BY <2>1, <2>2
<1>2. Ahead(r.kind) \in SUBSET Ops
  BY DEF Ahead
<1>3. d \in CallRecord /\ d.pc \in {"waiting", "queued"} /\ d.req = r /\ d.newId = n
  <2> HIDE DEF was
  <2> QED
    BY <1>1, <1>2, IdleType DEF CallRecord, Pcs
<1>4. r.kind \in {"insert", "copy"} => n \in CellIds
  BY DEF Call
<1>5. CallDoc(d, Len(files))
  <2> HIDE DEF d, was, wait
  <2> QED
    BY <1>3, <1>4 DEF CallDoc, Submitted
<1>6. op' = [op EXCEPT ![o] = d] /\ Still /\ kernel' \in BOOLEAN
  BY DEF Call, Still, DocInv, TypeOK
<1> HIDE DEF d
<1> QED
  BY <1>3, <1>5, <1>6, DocAfterCall

(* A new revision of the file, whoever has written it.                     *)
LEMMA RevisionDoc ==
    ASSUME DocInv, NEW w \in Seq(Cell), IsDocument(w),
           files' = Append(files, w), onDisk' = Len(files) + 1,
           UNCHANGED <<proj, usedIds, restarts>>, kernel' \in BOOLEAN,
           op' \in [Ops -> CallRecord],
           \A p \in Ops : op'[p] = op[p] \/ CallDoc(op'[p], Len(files) + 1)
    PROVE  DocInv'
<1>1. /\ files \in Seq(Seq(Cell)) /\ proj.ver \in 1..Len(files) /\ Len(files) \in Nat
      /\ \A p \in Ops : CallDoc(op[p], Len(files))
  BY DEF DocInv, TypeOK
<1>2. /\ files' \in Seq(Seq(Cell)) /\ Len(files') = Len(files) + 1
      /\ DOMAIN files' = 1..(Len(files) + 1)
      /\ \A i \in 1..Len(files) : files'[i] = files[i]
      /\ files'[Len(files) + 1] = w
  BY <1>1
<1>3. TypeOK'
  <2>1. onDisk' \in 0..Len(files') /\ proj' \in [ver : 1..Len(files'), cells : Seq(Cell)]
    BY <1>1, <1>2 DEF DocInv, TypeOK
  <2> QED
    BY <1>2, <2>1 DEF DocInv, TypeOK
<1>4. \A v \in DOMAIN files' : IsDocument(files'[v])
  <2>1. \A v \in 1..Len(files) : IsDocument(files'[v])
    BY <1>1, <1>2 DEF DocInv
  <2>2. IsDocument(files'[Len(files) + 1])
    BY <1>2
  <2> QED
    BY <1>1, <1>2, <2>1, <2>2
<1>5. \A p \in Ops : CallDoc(op'[p], Len(files'))
  <2>1. 1..Len(files) \subseteq 1..(Len(files) + 1)
    BY <1>1
  <2>2. \A p \in Ops : CallDoc(op[p], Len(files) + 1)
    BY <1>1, <2>1 DEF CallDoc
  <2> QED
    BY <1>2, <2>2
<1> QED
  BY <1>3, <1>4, <1>5 DEF DocInv, IsDocument, CallDoc

LEMMA LandDoc ==
    ASSUME DocInv, NEW o \in Ops, Land(o)
    PROVE  DocInv'
<1> DEFINE c == op[o]
           n == Len(files) + 1
           d == [c EXCEPT !.pc = "landed", !.ver = n]
<1>1. /\ c \in CallRecord /\ CallDoc(c, Len(files)) /\ c.pc = "writing" /\ n \in Nat /\ n \in 1..n
      /\ op \in [Ops -> CallRecord] /\ kernel' \in BOOLEAN
  BY DEF Land, At, DocInv, TypeOK
<1>2. c.doc \in Seq(Cell) /\ IsDocument(c.doc)
  BY <1>1, RequestFields DEF CallDoc, Submitted
<1>3. /\ d \in CallRecord /\ d.pc = "landed" /\ d.ver = n /\ d.doc = c.doc /\ d.req = c.req
      /\ d.newId = c.newId /\ d.ev = c.ev
  <2> HIDE DEF c, n
  <2> QED
    BY <1>1 DEF CallRecord, Pcs
<1>4. CallDoc(d, n)
  <2> HIDE DEF c, d, n
  <2> QED
    BY <1>1, <1>3 DEF CallDoc, Submitted
<1>5. op' = [op EXCEPT ![o] = d]
  BY DEF Land
<1> HIDE DEF d
<1>6. op' \in [Ops -> CallRecord] /\ \A p \in Ops : op'[p] = op[p] \/ CallDoc(op'[p], n)
  BY <1>1, <1>3, <1>4, <1>5
<1> QED
  BY <1>1, <1>2, <1>6, RevisionDoc DEF Land, Replace

LEMMA DriftDoc ==
    ASSUME DocInv, NEW o \in Ops, Drift(o)
    PROVE  DocInv'
<1>0. /\ op[o] \in CallRecord /\ op \in [Ops -> CallRecord] /\ kernel' \in BOOLEAN
      /\ TypeOK /\ "unavailable" \in Results /\ CallDoc(op[o], Len(files)) /\ op[o].pc = "adrift"
  BY DEF DocInv, TypeOK, Drift, Results, At
<1>1. CASE UNCHANGED <<files, onDisk>>
  BY <1>0, <1>1, DocAfterSettling DEF Drift, Still
<1>2. CASE Replace(o)
  <2>1. op[o].doc \in Seq(Cell) /\ IsDocument(op[o].doc)
    BY <1>0, RequestFields DEF CallDoc, Submitted
  <2> DEFINE d == Settled(o, "unavailable")
  <2>2. d \in CallRecord /\ CallDoc(d, Len(files) + 1)
    BY <1>0, SettledDoc
  <2> HIDE DEF d
  <2>3. op' \in [Ops -> CallRecord] /\ \A p \in Ops : op'[p] = IF p = o THEN d ELSE op[p]
    BY <1>0, <2>2 DEF Drift, Settle, d
  <2> QED
    BY <1>0, <1>2, <2>1, <2>2, <2>3, RevisionDoc DEF Replace, Drift
<1> QED
  BY <1>1, <1>2 DEF Drift

LEMMA ExternalWriteDoc ==
    ASSUME DocInv, NEW d \in ExternalDocs, ExternalWrite(d)
    PROVE  DocInv'
<1>1. d \in Seq(Cell) /\ IsDocument(d) /\ op' = op
  BY ConstantsAssumption DEF ExternalWrite
<1>2. op' \in [Ops -> CallRecord] /\ kernel' \in BOOLEAN /\ \A p \in Ops : op'[p] = op[p]
  BY <1>1 DEF DocInv, TypeOK, ExternalWrite
<1> QED
  BY <1>1, <1>2, RevisionDoc DEF ExternalWrite

(* A new projection, by a commit or a reload.                              *)
LEMMA ProjectionDoc ==
    ASSUME DocInv, UNCHANGED <<files, onDisk, restarts>>, usedIds' \subseteq CellIds,
           proj' \in [ver : 1..Len(files), cells : Seq(Cell)], IsDocument(proj'.cells),
           op' \in [Ops -> CallRecord], kernel' \in BOOLEAN,
           \A p \in Ops : CallDoc(op'[p], Len(files))
    PROVE  DocInv'
BY DEF DocInv, TypeOK, IsDocument, CallDoc

LEMMA CommitDoc ==
    ASSUME DocInv, NEW o \in Ops, Commit(o)
    PROVE  DocInv'
<1> DEFINE ev == op[o].ev
<1>1. /\ op[o] \in CallRecord /\ CallDoc(op[o], Len(files)) /\ op[o].pc = "landed"
      /\ proj.cells \in Seq(Cell) /\ IsDocument(proj.cells) /\ usedIds \subseteq CellIds
      /\ UNCHANGED <<files, onDisk, restarts>>
  BY DEF Commit, At, DocInv, TypeOK
<1>2. op[o].ver \in 1..Len(files) /\ ev \in Event
  BY <1>1, RequestFields DEF CallDoc
<1>3. ASSUME NEW result \in {"ok", "invalid"},
             \/ Fail(o, result) \/ SettleAndRetire(o, result)
             \/ Settle(o, result) /\ UNCHANGED kernel
      PROVE  /\ op' \in [Ops -> CallRecord] /\ kernel' \in BOOLEAN
             /\ \A p \in Ops : CallDoc(op'[p], Len(files))
  BY <1>3, FailingDoc DEF Results
<1>4. CASE ~Foldable(ev, proj.cells)
  <2>1. Fail(o, "invalid") /\ UNCHANGED <<proj, usedIds>>
    BY <1>4 DEF Commit
  <2> QED
    BY <1>1, <1>3, <2>1, DocAfterCalls DEF Still
<1>5. CASE Foldable(ev, proj.cells)
  <2>1. Fold(ev, proj.cells) \in Seq(Cell) /\ IsDocument(Fold(ev, proj.cells))
    BY <1>1, <1>2, <1>5, FoldType, FoldKeepsIds
  <2>2. proj' = [ver |-> op[o].ver, cells |-> Fold(ev, proj.cells)]
    BY <1>5 DEF Commit
  <2> HIDE DEF ev
  <2>3. proj' \in [ver : 1..Len(files), cells : Seq(Cell)] /\ IsDocument(proj'.cells)
    BY <1>2, <2>1, <2>2
  <2>4. usedIds' \subseteq CellIds
    <3>1. ev.cell \in Cell
      BY <1>2 DEF Event
    <3> QED
      BY <1>1, <1>5, <3>1, CellFields DEF Commit, ev
  <2>5. /\ op' \in [Ops -> CallRecord] /\ kernel' \in BOOLEAN
        /\ \A p \in Ops : CallDoc(op'[p], Len(files))
    BY <1>3, <1>5 DEF Commit, ev
  <2> QED
    BY <1>1, <2>3, <2>4, <2>5, ProjectionDoc
<1> QED
  BY <1>4, <1>5

LEMMA ReloadAppendDoc ==
    ASSUME DocInv, NEW o \in Ops, ReloadAppend(o)
    PROVE  DocInv'
<1>1. /\ op[o] \in CallRecord /\ CallDoc(op[o], Len(files)) /\ op[o].pc = "statted"
      /\ kernel \in BOOLEAN /\ usedIds \subseteq CellIds
      /\ UNCHANGED <<files, onDisk, usedIds, restarts>>
  BY DEF ReloadAppend, At, DocInv, TypeOK
<1>2. CASE Settle(o, "refused") /\ UNCHANGED <<proj, kernel>>
  BY <1>1, <1>2, DocAfterSettling DEF Still, Results
<1>3. CASE proj' = [ver |-> op[o].ver, cells |-> op[o].doc] /\ SettleAndRetire(o, "ok")
  <2>1. /\ op[o].ver \in 1..Len(files) /\ op[o].doc \in Seq(Cell) /\ IsDocument(op[o].doc)
    BY <1>1, RequestFields DEF CallDoc
  <2>2. proj' \in [ver : 1..Len(files), cells : Seq(Cell)] /\ IsDocument(proj'.cells)
    BY <1>3, <2>1
  <2>3. /\ op' \in [Ops -> CallRecord] /\ kernel' \in BOOLEAN
        /\ \A p \in Ops : CallDoc(op'[p], Len(files))
    BY <1>3, FailingDoc DEF Results
  <2> QED
    BY <1>1, <2>2, <2>3, ProjectionDoc
<1> QED
  BY <1>2, <1>3 DEF ReloadAppend

LEMMA StartKernelDoc ==
    ASSUME DocInv, StartKernel
    PROVE  DocInv'
<1>1. /\ TypeOK /\ Still /\ op \in [Ops -> CallRecord] /\ kernel' \in BOOLEAN
      /\ \A p \in Ops : CallDoc(op[p], Len(files))
  BY DEF StartKernel, Still, DocInv, TypeOK
<1>2. ASSUME NEW p \in Ops, op[p].pc = "waiting"
      PROVE  /\ [op[p] EXCEPT !.pc = "queued"] \in CallRecord
             /\ CallDoc([op[p] EXCEPT !.pc = "queued"], Len(files))
  <2> DEFINE c == op[p]
             d == [c EXCEPT !.pc = "queued"]
  <2>1. c \in CallRecord /\ CallDoc(c, Len(files)) /\ c.pc = "waiting"
    BY <1>1, <1>2
  <2>2. d \in CallRecord /\ d.pc = "queued" /\ d.req = c.req /\ d.newId = c.newId
    BY <2>1 DEF CallRecord, Pcs
  <2>3. CallDoc(d, Len(files))
    <3> HIDE DEF c, d
    <3> QED
      BY <2>1, <2>2 DEF CallDoc, Submitted
  <2> QED
    BY <2>2, <2>3
<1>3. ASSUME NEW p \in Ops
      PROVE  Settled(p, "unavailable") \in CallRecord /\ CallDoc(Settled(p, "unavailable"), Len(files))
  BY <1>1, SettledDoc DEF Results
<1>4. op' = [p \in Ops |-> op'[p]]
  BY DEF StartKernel
<1>5. \A p \in Ops : \/ op'[p] = op[p]
                     \/ op[p].pc = "waiting" /\ op'[p] = [op[p] EXCEPT !.pc = "queued"]
                     \/ op'[p] = Settled(p, "unavailable")
  BY DEF StartKernel, At
<1>6. \A p \in Ops : op'[p] \in CallRecord /\ CallDoc(op'[p], Len(files))
  BY <1>1, <1>2, <1>3, <1>5
<1> QED
  BY <1>1, <1>4, <1>6, DocAfterCalls

LEMMA RetireKernelDoc ==
    ASSUME DocInv, RetireKernel
    PROVE  DocInv'
<1>1. TypeOK /\ Still /\ kernel' \in BOOLEAN /\ \A p \in Ops : CallDoc(op[p], Len(files))
  BY DEF RetireKernel, Still, DocInv, TypeOK
<1>2. \A p \in Ops : op'[p] \in CallRecord /\ CallDoc(op'[p], Len(files))
  BY <1>1, RetirementDoc DEF RetireKernel
<1>3. op' \in [Ops -> CallRecord]
  BY <1>2 DEF RetireKernel
<1> QED
  BY <1>1, <1>2, <1>3, DocAfterCalls

LEMMA RestartDoc ==
    ASSUME DocInv, Restart
    PROVE  DocInv'
<1>1. /\ TypeOK /\ op \in [Ops -> CallRecord] /\ UNCHANGED <<files, onDisk, proj, usedIds>>
      /\ kernel' \in BOOLEAN /\ \A p \in Ops : CallDoc(op[p], Len(files))
  BY DEF Restart, DocInv, TypeOK
<1>2. ASSUME NEW p \in Ops, op[p].pc = "writing"
      PROVE  /\ [op[p] EXCEPT !.pc = "adrift"] \in CallRecord
             /\ CallDoc([op[p] EXCEPT !.pc = "adrift"], Len(files))
  <2> DEFINE c == op[p]
             d == [c EXCEPT !.pc = "adrift"]
  <2>1. c \in CallRecord /\ CallDoc(c, Len(files)) /\ c.pc = "writing"
    BY <1>1, <1>2
  <2>2. /\ d \in CallRecord /\ d.pc = "adrift" /\ d.req = c.req /\ d.newId = c.newId
        /\ d.ev = c.ev /\ d.doc = c.doc
    BY <2>1 DEF CallRecord, Pcs
  <2>3. CallDoc(d, Len(files))
    <3> HIDE DEF c, d
    <3> QED
      BY <2>1, <2>2 DEF CallDoc, Submitted
  <2> QED
    BY <2>2, <2>3
<1>3. ASSUME NEW p \in Ops
      PROVE  Settled(p, "unavailable") \in CallRecord /\ CallDoc(Settled(p, "unavailable"), Len(files))
  BY <1>1, SettledDoc DEF Results
<1>4. op' = [p \in Ops |-> op'[p]]
  BY DEF Restart
<1>5. \A p \in Ops : \/ op'[p] = op[p]
                     \/ op[p].pc = "writing" /\ op'[p] = [op[p] EXCEPT !.pc = "adrift"]
                     \/ op'[p] = Settled(p, "unavailable")
  BY DEF Restart, At
<1>6. \A p \in Ops : op'[p] \in CallRecord /\ CallDoc(op'[p], Len(files))
  BY <1>1, <1>2, <1>3, <1>5
<1>7. op' \in [Ops -> CallRecord]
  BY <1>4, <1>6
<1>8. restarts' \in 0..MaxRestarts
  BY ConstantsAssumption DEF Restart, DocInv, TypeOK
<1> QED
  BY <1>1, <1>6, <1>7, <1>8 DEF DocInv, TypeOK, IsDocument, CallDoc

LEMMA NextKeepsDocuments == DocInv /\ [Next]_vars => DocInv'
<1> SUFFICES ASSUME DocInv, [Next]_vars PROVE DocInv'
  OBVIOUS
<1>1. ASSUME NEW o \in Ops, Step(o) PROVE DocInv'
  <2>1. CASE WriteConflict(o)
    <3>1. Fail(o, "conflict") /\ Still
      BY <2>1 DEF WriteConflict, Still
    <3> QED
      BY <3>1, FailingDoc, DocAfterCalls DEF Results
  <2> QED
    BY <1>1, <2>1, MutationStartDoc, MutationConfirmDoc, RunStartDoc, RunConfirmDoc, RunEndsDoc,
       RunPrepareDoc, ReloadDoc, LandDoc, CommitDoc, ReloadAppendDoc, DriftDoc DEF Step
<1>2. ASSUME NEW o \in Ops, WriteFails(o) PROVE DocInv'
  <2>1. Fail(o, "failed") /\ Still
    BY <1>2 DEF WriteFails, Still
  <2> QED
    BY <2>1, FailingDoc, DocAfterCalls DEF Results
<1>3. ASSUME NEW o \in Ops, Abort(o) PROVE DocInv'
  <2>1. Settle(o, "aborted") /\ Still /\ kernel' \in BOOLEAN
    BY <1>3 DEF Abort, Still, DocInv, TypeOK
  <2> QED
    BY <2>1, DocAfterSettling DEF Results
<1>4. ASSUME ExternalUnlink PROVE DocInv'
  <2>1. onDisk' \in 0..Len(files)
    BY <1>4 DEF ExternalUnlink, DocInv, TypeOK
  <2> QED
    BY <1>4, <2>1 DEF ExternalUnlink, DocInv, TypeOK, IsDocument, CallDoc
<1>5. ASSUME UNCHANGED vars PROVE DocInv'
  BY <1>5 DEF vars, DocInv, TypeOK, IsDocument, CallDoc
<1> QED
  BY <1>1, <1>2, <1>3, <1>4, <1>5, CallKeepsDoc, StartKernelDoc, RetireKernelDoc,
     ExternalWriteDoc, RestartDoc DEF Next

LEMMA DocumentInvariant == Spec => []DocInv
BY DocInit, NextKeepsDocuments, PTL DEF Spec

(* TypeOK: the state is typed in every reachable state, whatever is        *)
(* copied, lost, retired or restarted, and in whatever order replies come. *)
THEOREM TypeCorrect == Spec => []TypeOK
<1>1. DocInv => TypeOK
  BY DEF DocInv
<1> QED
  BY <1>1, DocumentInvariant, PTL

(* DocumentsAreWellFormed: no revision of the file and no projection ever  *)
(* has two cells of one id, and no call writes a document without cells.   *)
THEOREM DocumentsWellFormed == Spec => []DocumentsAreWellFormed
<1>1. DocInv => DocumentsAreWellFormed
  BY DEF DocInv, CallDoc, Submitted, DocumentsAreWellFormed
<1> QED
  BY <1>1, DocumentInvariant, PTL

-----------------------------------------------------------------------------
(* What a commit shows. *)

(* The steps that carry one call from one await to the next.               *)
Advances(o, pc) ==
    \/ pc = "reading"   /\ (MutationStart(o) \/ ReloadStart(o) \/ RunStart(o))
    \/ pc = "writing"   /\ (MutationConfirm(o) \/ RunPrepare(o))
    \/ pc = "landed"    /\ Land(o)
    \/ pc = "admitting" /\ ReloadConfirm(o)
    \/ pc = "statted"   /\ ReloadStat(o)
    \/ pc = "running"   /\ RunConfirm(o)
    \/ pc = "ended"     /\ \E out \in Outputs \ {NoOutput} : RunEnds(o, out)

LEMMA AdvancesOneCall ==
    ASSUME op \in [Ops -> CallRecord], NEW o \in Ops, NEW pc, Advances(o, pc)
    PROVE  \/ \E result : Settle(o, result)
           \/ /\ \A p \in Ops : p # o => op'[p] = op[p]
              /\ op'[o].pc = pc /\ op'[o].res = op[o].res
<1> DEFINE Goal == \/ \E result : Settle(o, result)
                   \/ /\ \A p \in Ops : p # o => op'[p] = op[p]
                      /\ op'[o].pc = pc /\ op'[o].res = op[o].res
<1>1. ASSUME NEW d, op' = [op EXCEPT ![o] = d], d.pc = pc, d.res = op[o].res
      PROVE  Goal
  BY <1>1
<1>2. op[o] \in CallRecord
  OBVIOUS
<1>3. CASE pc = "reading" /\ MutationStart(o)
  <2> DEFINE d == [op[o] EXCEPT !.pc = "reading", !.base = proj.ver,
                                !.ev = EventOf(op[o], proj.cells)]
  <2>1. d.pc = "reading" /\ d.res = op[o].res
    BY <1>2 DEF CallRecord
  <2> HIDE DEF d
  <2> QED
    BY <1>1, <1>3, <2>1 DEF MutationStart, d
<1>4. CASE pc = "reading" /\ ReloadStart(o)
  BY <1>2, <1>4 DEF ReloadStart, CallRecord
<1>5. CASE pc = "reading" /\ RunStart(o)
  <2> DEFINE d == [op[o] EXCEPT !.pc = "reading", !.base = proj.ver,
                                !.was = CellOf(proj.cells, op[o].req.id)]
  <2>1. d.pc = "reading" /\ d.res = op[o].res
    BY <1>2 DEF CallRecord
  <2> HIDE DEF d
  <2> QED
    BY <1>1, <1>5, <2>1 DEF RunStart, d
<1>6. CASE pc = "writing" /\ MutationConfirm(o)
  <2> DEFINE d == [op[o] EXCEPT !.pc = "writing", !.doc = Rewrite(op[o], files[onDisk])]
  <2>1. d.pc = "writing" /\ d.res = op[o].res
    BY <1>2 DEF CallRecord
  <2> HIDE DEF d
  <2> QED
    BY <1>1, <1>6, <2>1 DEF MutationConfirm, d
<1>7. CASE pc = "writing" /\ RunPrepare(o)
  <2> DEFINE d == [op[o] EXCEPT !.pc = "writing",
                                !.doc = WithOutput(op[o].doc, IndexOf(op[o].doc, op[o].req.id),
                                                   op[o].ev.cell.out)]
  <2>1. d.pc = "writing" /\ d.res = op[o].res
    BY <1>2 DEF CallRecord
  <2> HIDE DEF d
  <2> QED
    BY <1>1, <1>7, <2>1 DEF RunPrepare, d
<1>8. CASE pc = "landed" /\ Land(o)
  <2> DEFINE d == [op[o] EXCEPT !.pc = "landed", !.ver = Len(files) + 1]
  <2>1. d.pc = "landed" /\ d.res = op[o].res
    BY <1>2 DEF CallRecord
  <2> HIDE DEF d
  <2> QED
    BY <1>1, <1>8, <2>1 DEF Land, d
<1>9. CASE pc = "admitting" /\ ReloadConfirm(o)
  <2> DEFINE d == [op[o] EXCEPT !.pc = "admitting", !.ver = onDisk, !.doc = files[onDisk]]
  <2>1. d.pc = "admitting" /\ d.res = op[o].res
    BY <1>2 DEF CallRecord
  <2> HIDE DEF d
  <2> QED
    BY <1>1, <1>9, <2>1 DEF ReloadConfirm, d
<1>10. CASE pc = "statted" /\ ReloadStat(o)
  BY <1>2, <1>10 DEF ReloadStat, CallRecord
<1>11. CASE pc = "running" /\ RunConfirm(o)
  <2> DEFINE d == [op[o] EXCEPT !.pc = "running", !.doc = files[onDisk]]
  <2>1. d.pc = "running" /\ d.res = op[o].res
    BY <1>2 DEF CallRecord
  <2> HIDE DEF d
  <2> QED
    BY <1>1, <1>11, <2>1 DEF RunConfirm, d
<1>12. ASSUME pc = "ended", NEW out \in Outputs \ {NoOutput}, RunEnds(o, out) PROVE Goal
  <2> DEFINE ev == [kind |-> "execute", at |-> 0, to |-> 0, cell |-> [op[o].was EXCEPT !.out = out]]
             d == [op[o] EXCEPT !.pc = "ended", !.ev = ev]
  <2>1. d.pc = "ended" /\ d.res = op[o].res
    <3> HIDE DEF ev
    <3> QED
      BY <1>2 DEF CallRecord
  <2>2. op' = [op EXCEPT ![o] = d]
    BY <1>12 DEF RunEnds
  <2> HIDE DEF d
  <2> QED
    BY <1>1, <1>12, <2>1, <2>2
<1> QED
  BY <1>3, <1>4, <1>5, <1>6, <1>7, <1>8, <1>9, <1>10, <1>11, <1>12 DEF Advances

(* A call has no result before it is answered. *)
Unanswered == \A o \in Ops : op[o].pc # "settled" => op[o].res = "none"

LEMMA UnansweredInit == Init => Unanswered
BY DEF Init, Unanswered, Idle

(* What a step of one call, or of the service, does to any call p. *)
Answers(p) ==
    \/ op'[p] = op[p]
    \/ op'[p].pc = "settled"
    \/ op[p].pc # "settled" /\ op'[p].res = op[p].res

LEMMA SettledAnswers ==
    ASSUME NEW p \in Ops, NEW result, op'[p] = Settled(p, result)
    PROVE  Answers(p) /\ op'[p].res = result
BY DEF Settled, Idle, Answers

LEMMA RetirementAnswers ==
    ASSUME TypeOK, NEW p \in Ops, op'[p] = AfterRetirement(p)
    PROVE  Answers(p) /\ (op[p].pc = "landed" => op'[p].res = op[p].res)
<1>1. op[p] \in CallRecord
  BY DEF TypeOK
<1>2. CASE op[p].pc \in {"writing", "landed"} /\ op'[p] = [op[p] EXCEPT !.cut = TRUE]
  BY <1>1, <1>2 DEF Answers, CallRecord
<1>3. CASE op'[p] = op[p]
  BY <1>3 DEF Answers
<1>4. CASE op[p].pc # "landed" /\ op'[p] = Settled(p, "unavailable")
  BY <1>4, SettledAnswers
<1> QED
  BY <1>2, <1>3, <1>4 DEF AfterRetirement

LEMMA FailAnswers ==
    ASSUME TypeOK, NEW o \in Ops, NEW result, Fail(o, result) \/ SettleAndRetire(o, result) \/ Settle(o, result)
    PROVE  /\ \A p \in Ops : Answers(p)
           /\ \A p \in Ops : p # o /\ op[p].pc = "landed" => op'[p].res = op[p].res
           /\ op'[o].res = result
<1>0. op \in [Ops -> CallRecord]
  BY DEF TypeOK
<1>1. /\ op'[o] = Settled(o, result)
      /\ \A p \in Ops : p # o => op'[p] = op[p] \/ op'[p] = AfterRetirement(p)
  BY <1>0 DEF Fail, Settle, SettleAndRetire
<1>2. \A p \in Ops : op'[p] = op[p] => Answers(p)
  BY DEF Answers
<1> QED
  BY <1>1, <1>2, SettledAnswers, RetirementAnswers

LEMMA StepAnswers ==
    ASSUME TypeOK, [Next]_vars
    PROVE  /\ \A p \in Ops : Answers(p) \/ op'[p].res = "none"
           /\ \A p \in Ops : op[p].pc = "landed" =>
                 Commit(p) \/ op'[p].res = op[p].res \/ op'[p].res # "ok"
<1> DEFINE Fine == /\ \A p \in Ops : Answers(p) \/ op'[p].res = "none"
                   /\ \A p \in Ops : op[p].pc = "landed" =>
                         Commit(p) \/ op'[p].res = op[p].res \/ op'[p].res # "ok"
<1>0. op \in [Ops -> CallRecord] /\ \A p \in Ops : op'[p] = op[p] => Answers(p)
  BY DEF TypeOK, Answers
<1>1. ASSUME NEW o \in Ops, NEW result,
             Fail(o, result) \/ SettleAndRetire(o, result) \/ Settle(o, result),
             Commit(o) \/ op[o].pc # "landed" \/ result # "ok"
      PROVE  Fine
  BY <1>1, FailAnswers
<1>2. ASSUME NEW o \in Ops, op[o].pc \notin {"landed", "settled"},
             \A p \in Ops : p # o => op'[p] = op[p],
             op'[o].res = op[o].res \/ op'[o].res = "none"
      PROVE  Fine
  BY <1>0, <1>2 DEF Answers
<1>3. ASSUME NEW o \in Ops, NEW r \in Requests, NEW n \in CellIds \cup {0}, Call(o, r, n)
      PROVE  Fine
  <2>1. op[o].pc = "idle" /\ (\A p \in Ops : p # o => op'[p] = op[p]) /\ op'[o].res = "none"
    BY <1>0, <1>3, IdleType DEF Call, At, CallRecord, Idle
  <2> QED
    BY <1>2, <2>1
<1>4. ASSUME NEW o \in Ops,
             \/ MutationStart(o) \/ MutationConfirm(o) \/ ReloadStart(o) \/ ReloadConfirm(o)
             \/ ReloadStat(o) \/ RunStart(o) \/ RunConfirm(o) \/ RunPrepare(o) \/ Land(o)
             \/ \E out \in Outputs \ {NoOutput} : RunEnds(o, out)
      PROVE  Fine
  <2>1. op[o].pc \notin {"landed", "settled"}
    BY <1>4 DEF At, MutationStart, MutationConfirm, ReloadStart, ReloadConfirm, ReloadStat,
       RunStart, RunConfirm, RunPrepare, Land, RunEnds
  <2>2. CASE \E result : Settle(o, result)
    BY <1>1, <2>1, <2>2
  <2>3. \E pc : Advances(o, pc)
    BY <1>4 DEF Advances
  <2> QED
    BY <1>0, <1>2, <2>1, <2>2, <2>3, AdvancesOneCall
<1>5. ASSUME NEW o \in Ops, WriteConflict(o) \/ WriteFails(o) PROVE Fine
  BY <1>1, <1>5 DEF WriteConflict, WriteFails, At
<1>6. ASSUME NEW o \in Ops, Commit(o) PROVE Fine
  BY <1>1, <1>6 DEF Commit
<1>7. ASSUME NEW o \in Ops, ReloadAppend(o) \/ Drift(o) \/ Abort(o) PROVE Fine
  <2>1. op[o].pc # "landed"
    BY <1>7 DEF ReloadAppend, Drift, Abort, At
  <2> QED
    BY <1>1, <1>7, <2>1 DEF ReloadAppend, Drift, Abort
<1>8. ASSUME \A p \in Ops : \/ op'[p] = op[p]
                            \/ op'[p] = AfterRetirement(p)
                            \/ op'[p] = Settled(p, "unavailable")
                            \/ /\ op[p].pc \in {"waiting", "writing"}
                               /\ op'[p].res = op[p].res
      PROVE  Fine
  <2>1. ASSUME NEW p \in Ops
        PROVE  /\ Answers(p)
               /\ op[p].pc = "landed" => op'[p].res = op[p].res \/ op'[p].res # "ok"
    <3>1. CASE op'[p] = op[p]
      BY <1>0, <3>1
    <3>2. CASE op'[p] = AfterRetirement(p)
      BY <3>2, RetirementAnswers
    <3>3. CASE op'[p] = Settled(p, "unavailable")
      BY <3>3, SettledAnswers
    <3>4. CASE op[p].pc \in {"waiting", "writing"} /\ op'[p].res = op[p].res
      BY <3>4 DEF Answers
    <3> QED
      BY <1>8, <3>1, <3>2, <3>3, <3>4
  <2> QED
    BY <2>1
<1>9. ASSUME StartKernel PROVE Fine
  <2>1. \A p \in Ops : \/ op'[p] = op[p]
                       \/ op[p].pc = "waiting" /\ op'[p] = [op[p] EXCEPT !.pc = "queued"]
                       \/ op'[p] = Settled(p, "unavailable")
    BY <1>0, <1>9 DEF StartKernel, At
  <2>2. \A p \in Ops : op'[p] = [op[p] EXCEPT !.pc = "queued"] => op'[p].res = op[p].res
    BY <1>0 DEF CallRecord
  <2> QED
    BY <1>8, <2>1, <2>2
<1>10. ASSUME RetireKernel PROVE Fine
  BY <1>8, <1>10 DEF RetireKernel
<1>11. ASSUME Restart PROVE Fine
  <2>1. \A p \in Ops : \/ op'[p] = op[p]
                       \/ op[p].pc = "writing" /\ op'[p] = [op[p] EXCEPT !.pc = "adrift"]
                       \/ op'[p] = Settled(p, "unavailable")
    BY <1>11 DEF Restart, At
  <2>2. \A p \in Ops : op'[p] = [op[p] EXCEPT !.pc = "adrift"] => op'[p].res = op[p].res
    BY <1>0 DEF CallRecord
  <2> QED
    BY <1>8, <2>1, <2>2
<1>12. ASSUME (\E d \in ExternalDocs : ExternalWrite(d)) \/ ExternalUnlink \/ UNCHANGED vars
       PROVE  Fine
  BY <1>8, <1>12 DEF ExternalWrite, ExternalUnlink, vars
<1> QED
  <2> HIDE DEF Fine
  <2>1. Fine
    BY <1>3, <1>4, <1>5, <1>6, <1>7, <1>9, <1>10, <1>11, <1>12 DEF Next, Step
  <2> QED
    BY <2>1 DEF Fine

LEMMA UnansweredNext == TypeOK /\ Unanswered /\ [Next]_vars => Unanswered'
<1> SUFFICES ASSUME TypeOK, Unanswered, [Next]_vars PROVE Unanswered'
  OBVIOUS
<1>1. \A p \in Ops : Answers(p) \/ op'[p].res = "none"
  BY StepAnswers
<1> QED
  BY <1>1 DEF Unanswered, Answers

LEMMA UnansweredInvariant == Spec => []Unanswered
BY UnansweredInit, UnansweredNext, TypeCorrect, PTL DEF Spec

(* A submitted call that is answered "ok" was committed by its event.      *)
LEMMA CommitShows ==
    ASSUME TypeOK, Unanswered, NEW o \in Ops, At(o, "landed"), [Next]_vars, op'[o].res = "ok"
    PROVE  /\ Commit(o) /\ Foldable(op[o].ev, proj.cells)
           /\ proj'.cells = Fold(op[o].ev, proj.cells)
<1>1. Commit(o)
  BY StepAnswers DEF Unanswered, At
<1>2. ASSUME NEW result, Fail(o, result) PROVE op'[o].res = result
  BY <1>2, FailAnswers
<1> QED
  BY <1>1, <1>2 DEF Commit

LEMMA OutputStands ==
    ASSUME NEW cells \in Seq(Cell), IsDocument(cells), NEW id, NEW out, Has(cells, id)
    PROVE  /\ CellOf(WithOutput(cells, IndexOf(cells, id), out), id).out = out
           /\ CellOf(WithOutput(cells, IndexOf(cells, id), out), id).src = CellOf(cells, id).src
<1> DEFINE i == IndexOf(cells, id)
           t == WithOutput(cells, i, out)
<1>1. i \in 1..Len(cells) /\ cells[i].id = id /\ cells[i] \in Cell
  BY IndexOfIsThere
<1>2. /\ DOMAIN t = 1..Len(cells)
      /\ \A j \in 1..Len(cells) : t[j] = IF j = i THEN [cells[i] EXCEPT !.out = out] ELSE cells[j]
  BY <1>1 DEF WithOutput, ReplaceAt
<1>3. /\ [cells[i] EXCEPT !.out = out].id = id /\ [cells[i] EXCEPT !.out = out].out = out
      /\ [cells[i] EXCEPT !.out = out].src = cells[i].src
  BY <1>1 DEF Cell
<1> HIDE DEF t
<1>4. i \in DOMAIN t /\ t[i].id = id
  BY <1>1, <1>2, <1>3
<1>5. IndexOf(t, id) \in DOMAIN t /\ t[IndexOf(t, id)].id = id
  BY <1>4 DEF IndexOf
<1>6. IndexOf(t, id) = i
  <2>1. \A j \in 1..Len(cells) : j # i => cells[j].id # id
    BY <1>1 DEF IsDocument
  <2> QED
    BY <1>2, <1>5, <2>1
<1> QED
  BY <1>1, <1>2, <1>3, <1>6 DEF CellOf, t

(* OutputsBelongToTheSourceThatRan: when a run commits, its outputs stand  *)
(* in the cell that ran, beside the source the run was given.              *)
THEOREM OutputsStayWithTheirSource ==
    ASSUME Premises
    PROVE  Spec => OutputsBelongToTheSourceThatRan
<1>1. ASSUME IInv, DocInv, Unanswered, [Next]_vars, NEW o \in Ops,
             At(o, "landed"), IsRun(o), op'[o].res = "ok"
      PROVE  LET id == op[o].req.id
             IN  /\ CellOf(proj'.cells, id).src = op[o].was.src
                 /\ CellOf(proj'.cells, id).out = op[o].ev.cell.out
  <2>1. /\ op[o] \in CallRecord /\ CallInv(op[o], files, proj.ver) /\ CallDoc(op[o], Len(files))
        /\ proj.cells = files[proj.ver] /\ proj.cells \in Seq(Cell) /\ IsDocument(proj.cells)
    BY <1>1, Typed DEF DocInv
  <2>2. /\ Foldable(op[o].ev, proj.cells)
        /\ proj'.cells = Fold(op[o].ev, proj.cells)
    BY <1>1, CommitShows DEF IInv
  <2>3. op[o].ev.kind = "execute" /\ op[o].ev.cell.id = op[o].req.id
    BY <1>1, <2>1 DEF CallDoc, Submitted, At, IsRun
  <2>4. Has(proj.cells, op[o].req.id)
    BY <2>2, <2>3 DEF Foldable
  <2>5. proj'.cells = WithOutput(proj.cells, IndexOf(proj.cells, op[o].req.id), op[o].ev.cell.out)
    BY <2>2, <2>3 DEF Fold
  <2>6. op[o].was = CellOf(proj.cells, op[o].req.id)
    BY <1>1, <2>1 DEF CallInv, At, IsRun
  <2> QED
    BY <2>1, <2>4, <2>5, <2>6, OutputStands
<1>2. IInv /\ DocInv /\ Unanswered /\ [Next]_vars =>
        [\A o \in Ops :
            At(o, "landed") /\ IsRun(o) /\ op'[o].res = "ok"
            => LET id == op[o].req.id
               IN  /\ CellOf(proj'.cells, id).src = op[o].was.src
                   /\ CellOf(proj'.cells, id).out = op[o].ev.cell.out]_vars
  BY <1>1
<1> QED
  BY <1>2, InductiveInvariant, DocumentInvariant, UnansweredInvariant, PTL
  DEF Spec, OutputsBelongToTheSourceThatRan

(***************************************************************************)
(* Part III.  Runs of one notebook are serialized, document calls take     *)
(* turns, and an inserted cell follows the cell its call named: any file   *)
(* system service, late replies included, copies, any faults.              *)
(*                                                                         *)
(* A chain of promises belongs to one kernel, so the chain alone does not  *)
(* do it: a run whose write is out when its kernel is retired is in nobody *)
(* else's chain.  What keeps the next run behind it is that it has no      *)
(* kernel yet, and gets one when that write has been answered.             *)
(***************************************************************************)

Active == {"reading", "running", "ended", "admitting", "statted", "writing", "landed"}

Fields == {"pc", "req", "newId", "ahead", "base", "was", "ev", "doc", "ver", "cut", "res"}

(* What the argument needs of the types: nothing of documents or events.   *)
Shaped(c) ==
    /\ DOMAIN c = Fields
    /\ c.pc \in Pcs /\ c.cut \in BOOLEAN

Shape ==
    /\ DOMAIN op = Ops /\ kernel \in BOOLEAN
    /\ \A o \in Ops : Shaped(op[o])

(* The life of one call. *)
RunsLife ==
    \A o \in Ops :
        /\ IsRun(o) => op[o].pc \notin {"admitting", "statted"}
        /\ op[o].pc = "waiting" => IsRun(o)
        /\ op[o].cut => IsRun(o) /\ op[o].pc \in {"writing", "landed", "adrift"}

(* The chains: of two document calls, or two runs of one kernel, one waits *)
(* for the other, and what an active call has waited for is over.          *)
Chained ==
    /\ \A o \in Ops : \A p \in op[o].ahead : p \in Ops /\ op[p].pc # "idle"
    /\ \A o, p \in Ops :
          /\ o # p /\ (IsRun(o) <=> IsRun(p))
          /\ Pending(o) /\ Pending(p) /\ ~op[o].cut /\ ~op[p].cut
          => p \in op[o].ahead \/ o \in op[p].ahead
    /\ \A o \in Ops : op[o].pc \in Active => ItsTurn(o)

(* Without a kernel every run waits for one, or is cut off from its own;   *)
(* with a kernel nothing of an earlier one is under way.                   *)
Bound ==
    \A o \in Ops : IsRun(o) /\ Pending(o) =>
        /\ ~kernel => op[o].pc = "waiting" \/ op[o].cut
        /\ kernel  => ~op[o].cut

QInv == Shape /\ RunsLife /\ Chained /\ Bound /\ RunsAreSerialized

USE DEF Active, Fields

-----------------------------------------------------------------------------

LEMMA IdleShape == Shaped(Idle) /\ Idle.pc = "idle" /\ Idle.ahead = {} /\ ~Idle.cut
BY DEF Idle, Shaped, Pcs

LEMMA SettledShape ==
    ASSUME NEW o \in Ops, NEW result
    PROVE  /\ Shaped(Settled(o, result)) /\ Settled(o, result).pc = "settled"
           /\ Settled(o, result).ahead = {} /\ ~Settled(o, result).cut
           /\ Settled(o, result).req = op[o].req
BY DEF Settled, Idle, Shaped, Pcs

LEMMA QInit == Init => QInv
<1> SUFFICES ASSUME Init PROVE QInv
  OBVIOUS
<1>1. \A o \in Ops : op[o] = Idle
  BY DEF Init
<1>2. DOMAIN op = Ops /\ kernel = FALSE
  BY DEF Init
<1> QED
  BY <1>1, <1>2, IdleShape
  DEF QInv, Shape, RunsLife, Chained, Bound, RunsAreSerialized, Pending, ItsTurn

(* A call is answered and nothing else happens. *)
LEMMA SettlingKeepsQueues ==
    ASSUME QInv, NEW o \in Ops, NEW result, op[o].pc # "idle",
           Settle(o, result), UNCHANGED kernel
    PROVE  QInv'
<1>1. /\ DOMAIN op' = Ops /\ \A p \in Ops : p # o => op'[p] = op[p]
      /\ op'[o] = Settled(o, result)
  BY DEF QInv, Shape, Settle
<1>2. Shape'
  BY <1>1, SettledShape DEF QInv, Shape
<1>3. RunsLife'
  BY <1>1, SettledShape DEF QInv, RunsLife, IsRun
<1>4. Chained'
  BY <1>1, SettledShape DEF QInv, Chained, IsRun, Pending, ItsTurn
<1>5. Bound'
  BY <1>1, SettledShape DEF QInv, Bound, IsRun, Pending
<1>6. RunsAreSerialized'
  BY <1>1, SettledShape DEF QInv, RunsAreSerialized, IsRun
<1> QED
  BY <1>2, <1>3, <1>4, <1>5, <1>6 DEF QInv

(* A call goes on by itself. *)
GoesOn(o, c) ==
    /\ op' = [op EXCEPT ![o] = c] /\ UNCHANGED kernel
    /\ Shaped(c) /\ c.req = op[o].req /\ c.ahead = op[o].ahead /\ c.cut = op[o].cut
    /\ Pending(o) /\ c.pc \notin {"idle", "waiting", "settled", "adrift"}
    /\ IsRun(o) => c.pc \notin {"admitting", "statted"}
    /\ op[o].cut => c.pc \in {"writing", "landed"}
    /\ op[o].pc # "waiting"

LEMMA GoingOnKeepsQueues ==
    ASSUME QInv, NEW o \in Ops, NEW c, GoesOn(o, c),
           op[o].pc \in Active \/ (~IsRun(o) /\ ItsTurn(o))
    PROVE  QInv'
<1>1. /\ DOMAIN op' = Ops /\ \A p \in Ops : p # o => op'[p] = op[p]
      /\ op'[o] = c
  BY DEF QInv, Shape, GoesOn
<1>2. Shape'
  BY <1>1 DEF QInv, Shape, GoesOn
<1>3. RunsLife'
  BY <1>1 DEF QInv, RunsLife, IsRun, GoesOn
<1>4. Chained'
  BY <1>1 DEF QInv, Chained, IsRun, Pending, ItsTurn, GoesOn
<1>5. Bound'
  BY <1>1 DEF QInv, Bound, IsRun, Pending, GoesOn
<1>6. RunsAreSerialized'
  BY <1>1 DEF QInv, RunsLife, RunsAreSerialized, IsRun, GoesOn
<1> QED
  BY <1>2, <1>3, <1>4, <1>5, <1>6 DEF QInv

(* What retirement makes of a call, whatever state it is in. *)
LEMMA RetirementKeepsQueues ==
    ASSUME QInv,
           DOMAIN op' = Ops, kernel' = FALSE,
           \A p \in Ops : \/ op'[p] = AfterRetirement(p)
                          \/ Pending(p) /\ \E result : op'[p] = Settled(p, result)
    PROVE  QInv'
<1> DEFINE Kept(p) == op'[p] = op[p]
           Cut(p)  == op'[p] = [op[p] EXCEPT !.cut = TRUE]
           Over(p) == op[p].pc # "idle" /\ \E result : op'[p] = Settled(p, result)
<1>1. \A p \in Ops : \/ Over(p)
                     \/ Kept(p) /\ (IsRun(p) => op[p].pc \in {"idle", "waiting", "adrift", "settled"})
                     \/ Cut(p) /\ IsRun(p) /\ op[p].pc \in {"writing", "landed"}
  <2> TAKE p \in Ops
  <2>1. Shaped(op[p]) /\ (IsRun(p) => op[p].pc \notin {"admitting", "statted"})
    BY DEF QInv, Shape, RunsLife
  <2>2. CASE Pending(p) /\ \E result : op'[p] = Settled(p, result)
    BY <2>2 DEF Pending
  <2>3. CASE op'[p] = AfterRetirement(p)
    BY <2>1, <2>3 DEF AfterRetirement, Shaped, Pcs
  <2> QED
    BY <2>2, <2>3
<1>2. \A p \in Ops : Over(p) => /\ Shaped(op'[p]) /\ op'[p].pc = "settled"
                                /\ op'[p].ahead = {} /\ ~op'[p].cut /\ op'[p].req = op[p].req
  BY SettledShape
<1>3. \A p \in Ops : Cut(p) => /\ Shaped(op'[p]) /\ op'[p].pc = op[p].pc
                               /\ op'[p].ahead = op[p].ahead /\ op'[p].cut
                               /\ op'[p].req = op[p].req
  BY DEF QInv, Shape, Shaped
<1> HIDE DEF Kept, Cut, Over
<1>4. \A p \in Ops : Kept(p) => /\ Shaped(op'[p]) /\ op'[p].pc = op[p].pc
                                /\ op'[p].ahead = op[p].ahead /\ op'[p].cut = op[p].cut
                                /\ op'[p].req = op[p].req
  BY DEF QInv, Shape, Kept
<1>5. Shape'
  BY <1>1, <1>2, <1>3, <1>4 DEF Shape
<1>6. RunsLife'
  BY <1>1, <1>2, <1>3, <1>4 DEF QInv, RunsLife, IsRun
<1>7. \A p \in Ops : op[p].pc # "idle" => op'[p].pc # "idle"
  BY <1>1, <1>2, <1>3, <1>4
<1>8. \A p \in Ops : op'[p].ahead \subseteq op[p].ahead /\ (~Pending(p) => ~Pending(p)')
  BY <1>1, <1>2, <1>3, <1>4 DEF Pending
<1>9. Chained'
  BY <1>1, <1>2, <1>3, <1>4, <1>7, <1>8 DEF QInv, Chained, IsRun, Pending, ItsTurn
<1>10. Bound'
  BY <1>1, <1>2, <1>3, <1>4 DEF QInv, Bound, IsRun, Pending
<1>11. RunsAreSerialized'
  BY <1>1, <1>2, <1>3, <1>4 DEF QInv, RunsAreSerialized, IsRun
<1> QED
  BY <1>5, <1>6, <1>9, <1>10, <1>11 DEF QInv

LEMMA FailingKeepsQueues ==
    ASSUME QInv, NEW o \in Ops, NEW result, Pending(o), Fail(o, result)
    PROVE  QInv'
<1>1. CASE IsRun(o)
  <2>1. /\ DOMAIN op' = Ops /\ kernel' = FALSE /\ op'[o] = Settled(o, result)
        /\ \A p \in Ops : p # o => op'[p] = AfterRetirement(p)
    BY <1>1 DEF Fail, SettleAndRetire
  <2> QED
    BY <2>1, RetirementKeepsQueues
<1>2. CASE ~IsRun(o)
  BY <1>2, SettlingKeepsQueues DEF Fail, Pending
<1> QED
  BY <1>1, <1>2

LEMMA CallKeepsQueues ==
    ASSUME QInv, NEW o \in Ops, NEW r \in Requests, NEW n, Call(o, r, n)
    PROVE  QInv'
<1> DEFINE c == op'[o]
<1>1. /\ DOMAIN op' = Ops /\ \A p \in Ops : p # o => op'[p] = op[p]
      /\ kernel' = kernel /\ op[o].pc = "idle"
  BY DEF QInv, Shape, Call, At
<1>2. /\ Shaped(c) /\ c.pc = (IF r.kind = "run" /\ ~kernel THEN "waiting" ELSE "queued")
      /\ c.req = r /\ c.ahead = Ahead(r.kind) /\ ~c.cut
  BY DEF QInv, Shape, Call, Shaped, Idle, Pcs
<1> HIDE DEF c
<1>3. \A p \in Ahead(r.kind) : p \in Ops /\ p # o /\ op[p].pc # "idle"
  BY <1>1 DEF Ahead, Pending
<1>4. \A p \in Ops : (IsRun(p) <=> r.kind = "run") /\ Pending(p) /\ ~op[p].cut => p \in Ahead(r.kind)
  BY DEF Ahead
<1>5. Shape'
  BY <1>1, <1>2 DEF QInv, Shape, c
<1>6. RunsLife'
  BY <1>1, <1>2 DEF QInv, RunsLife, IsRun, c
<1>7. Chained'
  <2>1. \A p \in Ops : \A q \in op'[p].ahead : q \in Ops /\ op'[q].pc # "idle"
    BY <1>1, <1>2, <1>3 DEF QInv, Chained, c
  <2>2. \A p, q \in Ops :
            /\ p # q /\ (IsRun(p)' <=> IsRun(q)')
            /\ Pending(p)' /\ Pending(q)' /\ ~op'[p].cut /\ ~op'[q].cut
            => q \in op'[p].ahead \/ p \in op'[q].ahead
    BY <1>1, <1>2, <1>4 DEF QInv, Chained, IsRun, Pending, c
  <2>3. \A p \in Ops : op'[p].pc \in Active => ItsTurn(p)'
    BY <1>1, <1>2 DEF QInv, Chained, IsRun, Pending, ItsTurn, c
  <2> QED
    BY <2>1, <2>2, <2>3 DEF Chained
<1>8. Bound'
  BY <1>1, <1>2 DEF QInv, Bound, IsRun, Pending, c
<1>9. RunsAreSerialized'
  BY <1>1, <1>2 DEF QInv, RunsAreSerialized, IsRun, c
<1> QED
  BY <1>5, <1>6, <1>7, <1>8, <1>9 DEF QInv

(* The one step in which a run becomes active: its kernel is there, so the *)
(* other runs are of that kernel or over, and the chain decides.           *)
LEMMA RunStartKeepsQueues ==
    ASSUME QInv, NEW o \in Ops, RunStart(o)
    PROVE  QInv'
<1>0. Shaped(op[o]) /\ op[o].pc = "queued" /\ IsRun(o) /\ ItsTurn(o) /\ kernel' = kernel
  BY DEF QInv, Shape, RunStart, At
<1>1. CASE Has(proj.cells, op[o].req.id)
  <2> DEFINE c == [op[o] EXCEPT !.pc = "reading", !.base = proj.ver,
                                !.was = CellOf(proj.cells, op[o].req.id)]
  <2>1. /\ DOMAIN op' = Ops /\ \A p \in Ops : p # o => op'[p] = op[p]
        /\ op'[o] = c
    BY <1>1 DEF QInv, Shape, RunStart
  <2>2. /\ Shaped(c) /\ c.pc = "reading" /\ c.req = op[o].req
        /\ c.ahead = op[o].ahead /\ c.cut = op[o].cut
    BY <1>0 DEF Shaped, Pcs
  <2> HIDE DEF c
  <2>3. kernel /\ ~op[o].cut
    BY <1>0 DEF QInv, Shape, Bound, RunsLife, Pending
  <2>4. \A p \in Ops : p # o /\ IsRun(p) => op[p].pc \notin Active
    <3> SUFFICES ASSUME NEW p \in Ops, p # o, IsRun(p), op[p].pc \in Active PROVE FALSE
      OBVIOUS
    <3>1. Pending(p) /\ Pending(o)
      BY <1>0 DEF Pending
    <3>2. ~op[p].cut
      BY <2>3, <3>1 DEF QInv, Bound
    <3>3. p \in op[o].ahead \/ o \in op[p].ahead
      BY <1>0, <2>3, <3>1, <3>2 DEF QInv, Chained
    <3>4. ItsTurn(p)
      BY DEF QInv, Chained
    <3> QED
      BY <1>0, <3>1, <3>3, <3>4 DEF ItsTurn
  <2>5. Shape'
    BY <1>0, <2>1, <2>2 DEF QInv, Shape
  <2>6. RunsLife'
    BY <2>1, <2>2, <2>3 DEF QInv, RunsLife, IsRun
  <2>7. Chained'
    BY <1>0, <2>1, <2>2 DEF QInv, Chained, IsRun, Pending, ItsTurn
  <2>8. Bound'
    BY <1>0, <2>1, <2>2, <2>3 DEF QInv, Bound, IsRun, Pending
  <2>9. RunsAreSerialized'
    BY <2>1, <2>2, <2>4 DEF QInv, RunsAreSerialized, IsRun
  <2> QED
    BY <2>5, <2>6, <2>7, <2>8, <2>9 DEF QInv
<1>2. CASE ~Has(proj.cells, op[o].req.id)
  BY <1>0, <1>2, SettlingKeepsQueues DEF RunStart
<1> QED
  BY <1>1, <1>2

(* The other half: a kernel starts when no write of a run is out, so that  *)
(* nothing cut off from an earlier kernel is left when a run gets this one. *)
LEMMA StartKernelKeepsQueues ==
    ASSUME QInv, StartKernel
    PROVE  QInv'
<1> DEFINE Queued(p) == op'[p] = [op[p] EXCEPT !.pc = "queued"]
<1>0. DOMAIN op' = Ops /\ ~kernel /\ KernelWorkJoined
  BY DEF StartKernel
<1>1. \A p \in Ops : Queued(p) => /\ Shaped(op[p]) => Shaped(op'[p])
                                  /\ DOMAIN op[p] = Fields => 
                                       /\ op'[p].pc = "queued" /\ op'[p].req = op[p].req
                                       /\ op'[p].ahead = op[p].ahead /\ op'[p].cut = op[p].cut
  BY DEF Shaped, Pcs
<1>2. \A p \in Ops : DOMAIN op[p] = Fields /\ Shaped(op[p])
  BY DEF QInv, Shape, Shaped
<1> HIDE DEF Queued
<1>3. \A p \in Ops : IsRun(p) => op[p].pc \in {"idle", "waiting", "adrift", "settled"}
  BY <1>0 DEF QInv, Bound, RunsLife, KernelWorkJoined, Pending
<1>4. CASE kernel' = TRUE /\ \A p \in Ops : IF At(p, "waiting") THEN Queued(p) ELSE op'[p] = op[p]
  <2>1. \A p \in Ops : /\ op'[p].req = op[p].req /\ op'[p].ahead = op[p].ahead
                       /\ op'[p].cut = op[p].cut
                       /\ op'[p].pc = (IF op[p].pc = "waiting" THEN "queued" ELSE op[p].pc)
    BY <1>1, <1>2, <1>4 DEF At
  <2>2. Shape'
    BY <1>0, <1>1, <1>2, <1>4 DEF Shape
  <2>3. RunsLife'
    <3>1. \A p \in Ops : op[p].cut => IsRun(p) /\ op[p].pc \in {"writing", "landed", "adrift"}
      BY DEF QInv, RunsLife
    <3>2. \A p \in Ops : op[p].pc = "waiting" => IsRun(p)
      BY DEF QInv, RunsLife
    <3>3. \A p \in Ops : IsRun(p) => op[p].pc \notin {"admitting", "statted"}
      BY DEF QInv, RunsLife
    <3>4. \A p \in Ops : IsRun(p)' <=> IsRun(p)
      BY <2>1 DEF IsRun
    <3>5. \A p \in Ops : op'[p].cut => op[p].cut
      BY <2>1
    <3> QED
      BY <2>1, <3>1, <3>2, <3>3, <3>4, <3>5 DEF RunsLife
  <2>4. Chained'
    BY <1>3, <2>1 DEF QInv, Chained, IsRun, Pending, ItsTurn
  <2>5. Bound'
    BY <1>3, <1>4, <2>1 DEF QInv, RunsLife, Bound, IsRun, Pending
  <2>6. RunsAreSerialized'
    BY <1>3, <2>1 DEF RunsAreSerialized, IsRun
  <2> QED
    BY <2>2, <2>3, <2>4, <2>5, <2>6 DEF QInv
<1>5. CASE /\ kernel' = kernel
           /\ \A p \in Ops : op'[p] = IF At(p, "waiting") THEN Settled(p, "unavailable") ELSE op[p]
  <2>1. \A p \in Ops : op'[p] = AfterRetirement(p) \/ (Pending(p) /\ \E result : op'[p] = Settled(p, result))
    BY <1>3, <1>5 DEF AfterRetirement, At, Pending
  <2>2. kernel' = FALSE
    BY <1>0, <1>5 DEF QInv, Shape
  <2> QED
    BY <1>0, <2>1, <2>2, RetirementKeepsQueues
<1> QED
  BY <1>4, <1>5 DEF StartKernel, Queued

(* A restart ends every run but those whose write is out, and a write that *)
(* drifts is of no kernel at all.                                          *)
LEMMA RestartKeepsQueues ==
    ASSUME QInv, Restart
    PROVE  QInv'
<1>0. DOMAIN op' = Ops /\ kernel' = FALSE
  BY DEF Restart
<1> DEFINE Drifts(p) == op[p].pc = "writing" /\ op'[p] = [op[p] EXCEPT !.pc = "adrift"]
           Over(p) == Pending(p) /\ op'[p] = Settled(p, "unavailable")
<1>1. \A p \in Ops : Drifts(p) \/ Over(p) \/ (~Pending(p) /\ op'[p] = op[p])
  BY DEF Restart, At
<1>2. \A p \in Ops : Drifts(p) => /\ Shaped(op'[p]) /\ op'[p].pc = "adrift"
                                  /\ op'[p].ahead = op[p].ahead /\ op'[p].cut = op[p].cut
                                  /\ op'[p].req = op[p].req
  BY DEF QInv, Shape, Shaped, Pcs
<1>3. \A p \in Ops : Over(p) => /\ Shaped(op'[p]) /\ op'[p].pc = "settled"
                                /\ op'[p].ahead = {} /\ ~op'[p].cut /\ op'[p].req = op[p].req
  BY SettledShape
<1> HIDE DEF Drifts, Over
<1>4. \A p \in Ops : op'[p].pc \in {"idle", "adrift", "settled"} /\ op'[p].req = op[p].req
  BY <1>1, <1>2, <1>3 DEF Pending
<1>5. \A p \in Ops : op'[p].ahead \subseteq op[p].ahead /\ (op[p].pc # "idle" => op'[p].pc # "idle")
  BY <1>1, <1>2, <1>3
<1>6. Shape'
  BY <1>0, <1>1, <1>2, <1>3 DEF QInv, Shape
<1>7. RunsLife'
  <2>1. \A p \in Ops : IsRun(p)' <=> IsRun(p)
    BY <1>4 DEF IsRun
  <2>2. \A p \in Ops : op'[p].cut => op[p].cut /\ (op[p].pc = "adrift" => op'[p].pc = "adrift")
    BY <1>1, <1>2, <1>3
  <2>3. \A p \in Ops : op'[p].cut => op'[p].pc = "adrift"
    <3> SUFFICES ASSUME NEW p \in Ops, op'[p].cut PROVE op'[p].pc = "adrift"
      OBVIOUS
    <3>1. ~Over(p)
      BY <1>3
    <3>2. op[p].pc \in {"writing", "landed", "adrift"}
      BY <2>2 DEF QInv, RunsLife
    <3> QED
      BY <1>1, <1>2, <2>2, <3>1, <3>2 DEF Pending
  <2>4. \A p \in Ops : op'[p].cut => IsRun(p)
    BY <2>2 DEF QInv, RunsLife
  <2> QED
    BY <1>4, <2>1, <2>3, <2>4 DEF RunsLife
<1>8. Chained'
  BY <1>4, <1>5 DEF QInv, Chained, Pending
<1>9. Bound' /\ RunsAreSerialized'
  BY <1>4 DEF Bound, RunsAreSerialized, Pending
<1> QED
  BY <1>6, <1>7, <1>8, <1>9 DEF QInv

LEMMA OthersKeepQueues ==
    ASSUME QInv, UNCHANGED <<op, kernel>>
    PROVE  QInv'
BY DEF QInv, Shape, RunsLife, Chained, Bound, RunsAreSerialized, IsRun, Pending, ItsTurn

-----------------------------------------------------------------------------
(* One step of one call. *)

LEMMA MutationsKeepQueues ==
    ASSUME QInv, NEW o \in Ops,
           \/ MutationStart(o) \/ MutationConfirm(o) \/ ReloadStart(o)
           \/ ReloadConfirm(o) \/ ReloadStat(o)
    PROVE  QInv'
<1>1. /\ op[o].pc # "idle" /\ Pending(o) /\ ~IsRun(o) /\ op[o].pc # "waiting" /\ kernel' = kernel
      /\ op[o].pc \in Active \/ ItsTurn(o)
  BY DEF QInv, RunsLife, MutationStart, MutationConfirm, ReloadStart, ReloadConfirm, ReloadStat,
         At, Pending, IsRun, Mutates, Mutations, IsReload
<1>2. \/ \E result : Settle(o, result)
      \/ \E base, ev : op' = [op EXCEPT ![o] = [@ EXCEPT !.pc = "reading", !.base = base, !.ev = ev]]
      \/ \E doc : op' = [op EXCEPT ![o] = [@ EXCEPT !.pc = "writing", !.doc = doc]]
      \/ op' = [op EXCEPT ![o].pc = "reading"]
      \/ \E ver, doc : op' = [op EXCEPT ![o] = [@ EXCEPT !.pc = "admitting", !.ver = ver, !.doc = doc]]
      \/ op' = [op EXCEPT ![o].pc = "statted"]
  BY DEF MutationStart, MutationConfirm, ReloadStart, ReloadConfirm, ReloadStat
<1>3. Shaped(op[o]) /\ ~op[o].cut
  BY <1>1 DEF QInv, Shape, RunsLife
<1>4. CASE \E result : Settle(o, result)
  BY <1>1, <1>4, SettlingKeepsQueues
<1>5. CASE \E c : GoesOn(o, c)
  BY <1>1, <1>5, GoingOnKeepsQueues
<1>6. CASE \E base, ev : op' = [op EXCEPT ![o] = [@ EXCEPT !.pc = "reading", !.base = base, !.ev = ev]]
  <2>1. PICK base, ev : op' = [op EXCEPT ![o] = [@ EXCEPT !.pc = "reading", !.base = base, !.ev = ev]]
    BY <1>6
  <2>2. GoesOn(o, [op[o] EXCEPT !.pc = "reading", !.base = base, !.ev = ev])
    BY <1>1, <1>3, <2>1 DEF GoesOn, Shaped, Pcs
  <2> QED
    BY <1>5, <2>2
<1>7. CASE \E doc : op' = [op EXCEPT ![o] = [@ EXCEPT !.pc = "writing", !.doc = doc]]
  <2>1. PICK doc : op' = [op EXCEPT ![o] = [@ EXCEPT !.pc = "writing", !.doc = doc]]
    BY <1>7
  <2>2. GoesOn(o, [op[o] EXCEPT !.pc = "writing", !.doc = doc])
    BY <1>1, <1>3, <2>1 DEF GoesOn, Shaped, Pcs
  <2> QED
    BY <1>5, <2>2
<1>8. CASE op' = [op EXCEPT ![o].pc = "reading"]
  <2>1. GoesOn(o, [op[o] EXCEPT !.pc = "reading"])
    BY <1>1, <1>3, <1>8 DEF GoesOn, Shaped, Pcs
  <2> QED
    BY <1>5, <2>1
<1>9. CASE \E ver, doc : op' = [op EXCEPT ![o] = [@ EXCEPT !.pc = "admitting", !.ver = ver, !.doc = doc]]
  <2>1. PICK ver, doc : op' = [op EXCEPT ![o] = [@ EXCEPT !.pc = "admitting", !.ver = ver, !.doc = doc]]
    BY <1>9
  <2>2. GoesOn(o, [op[o] EXCEPT !.pc = "admitting", !.ver = ver, !.doc = doc])
    BY <1>1, <1>3, <2>1 DEF GoesOn, Shaped, Pcs
  <2> QED
    BY <1>5, <2>2
<1>10. CASE op' = [op EXCEPT ![o].pc = "statted"]
  <2>1. GoesOn(o, [op[o] EXCEPT !.pc = "statted"])
    BY <1>1, <1>3, <1>10 DEF GoesOn, Shaped, Pcs
  <2> QED
    BY <1>5, <2>1
<1> QED
  BY <1>2, <1>4, <1>6, <1>7, <1>8, <1>9, <1>10

LEMMA RunsKeepQueues ==
    ASSUME QInv, NEW o \in Ops,
           \/ RunConfirm(o) \/ (\E out \in Outputs \ {NoOutput} : RunEnds(o, out)) \/ RunPrepare(o)
    PROVE  QInv'
<1>1. /\ op[o].pc \in {"reading", "running", "ended"} /\ Pending(o) /\ kernel' = kernel
  BY DEF RunConfirm, RunEnds, RunPrepare, At, Pending
<1>2. Shaped(op[o]) /\ ~op[o].cut
  BY <1>1 DEF QInv, Shape, RunsLife
<1>3. \/ \E result : Settle(o, result)
      \/ \E doc : op' = [op EXCEPT ![o] = [@ EXCEPT !.pc = "running", !.doc = doc]]
      \/ \E ev : op' = [op EXCEPT ![o] = [@ EXCEPT !.pc = "ended", !.ev = ev]]
      \/ \E doc : op' = [op EXCEPT ![o] = [@ EXCEPT !.pc = "writing", !.doc = doc]]
  BY DEF RunConfirm, RunEnds, RunPrepare
<1>4. CASE \E result : Settle(o, result)
  BY <1>1, <1>4, SettlingKeepsQueues
<1>5. CASE \E c : GoesOn(o, c)
  BY <1>1, <1>5, GoingOnKeepsQueues
<1>6. CASE \E doc : op' = [op EXCEPT ![o] = [@ EXCEPT !.pc = "running", !.doc = doc]]
  <2>1. PICK doc : op' = [op EXCEPT ![o] = [@ EXCEPT !.pc = "running", !.doc = doc]]
    BY <1>6
  <2>2. GoesOn(o, [op[o] EXCEPT !.pc = "running", !.doc = doc])
    BY <1>1, <1>2, <2>1 DEF GoesOn, Shaped, Pcs
  <2> QED
    BY <1>5, <2>2
<1>7. CASE \E ev : op' = [op EXCEPT ![o] = [@ EXCEPT !.pc = "ended", !.ev = ev]]
  <2>1. PICK ev : op' = [op EXCEPT ![o] = [@ EXCEPT !.pc = "ended", !.ev = ev]]
    BY <1>7
  <2>2. GoesOn(o, [op[o] EXCEPT !.pc = "ended", !.ev = ev])
    BY <1>1, <1>2, <2>1 DEF GoesOn, Shaped, Pcs
  <2> QED
    BY <1>5, <2>2
<1>8. CASE \E doc : op' = [op EXCEPT ![o] = [@ EXCEPT !.pc = "writing", !.doc = doc]]
  <2>1. PICK doc : op' = [op EXCEPT ![o] = [@ EXCEPT !.pc = "writing", !.doc = doc]]
    BY <1>8
  <2>2. GoesOn(o, [op[o] EXCEPT !.pc = "writing", !.doc = doc])
    BY <1>1, <1>2, <2>1 DEF GoesOn, Shaped, Pcs
  <2> QED
    BY <1>5, <2>2
<1> QED
  BY <1>3, <1>4, <1>6, <1>7, <1>8

LEMMA PublicationKeepsQueues ==
    ASSUME QInv, NEW o \in Ops,
           \/ Land(o) \/ WriteConflict(o) \/ WriteFails(o) \/ Commit(o)
           \/ ReloadAppend(o) \/ Drift(o) \/ Abort(o)
    PROVE  QInv'
<1>1. CASE Land(o)
  <2>1. Shaped(op[o]) /\ op[o].pc = "writing" /\ Pending(o)
    BY <1>1 DEF QInv, Shape, Land, At, Pending
  <2>2. GoesOn(o, [op[o] EXCEPT !.pc = "landed", !.ver = Len(files) + 1])
    BY <1>1, <2>1 DEF Land, GoesOn, Shaped, Pcs
  <2> QED
    BY <2>1, <2>2, GoingOnKeepsQueues
<1>2. CASE \E result : Pending(o) /\ Fail(o, result)
  BY <1>2, FailingKeepsQueues
<1>3. CASE WriteConflict(o) \/ WriteFails(o)
  BY <1>2, <1>3 DEF WriteConflict, WriteFails, At, Pending
<1>4. CASE \E result : Pending(o) /\ SettleAndRetire(o, result)
  <2>1. PICK result : Pending(o) /\ SettleAndRetire(o, result)
    BY <1>4
  <2>2. /\ DOMAIN op' = Ops /\ kernel' = FALSE /\ op'[o] = Settled(o, result)
        /\ \A p \in Ops : p # o => op'[p] = AfterRetirement(p)
    BY <2>1 DEF SettleAndRetire
  <2> QED
    BY <2>1, <2>2, RetirementKeepsQueues
<1>5. CASE \E result : op[o].pc # "idle" /\ Settle(o, result) /\ UNCHANGED kernel
  BY <1>5, SettlingKeepsQueues
<1>6. CASE Commit(o)
  <2>1. Pending(o) /\ op[o].pc # "idle"
    BY <1>6 DEF Commit, At, Pending
  <2>2. \/ \E result : Fail(o, result) 
        \/ \E result : SettleAndRetire(o, result)
        \/ \E result : Settle(o, result) /\ UNCHANGED kernel
    BY <1>6 DEF Commit
  <2> QED
    BY <1>2, <1>4, <1>5, <2>1, <2>2
<1>7. CASE ReloadAppend(o)
  <2>1. Pending(o) /\ op[o].pc # "idle"
    BY <1>7 DEF ReloadAppend, At, Pending
  <2>2. \/ \E result : SettleAndRetire(o, result)
        \/ \E result : Settle(o, result) /\ UNCHANGED kernel
    BY <1>7 DEF ReloadAppend
  <2> QED
    BY <1>4, <1>5, <2>1, <2>2
<1>8. CASE Drift(o) \/ Abort(o)
  <2>1. op[o].pc # "idle" /\ \E result : Settle(o, result) /\ UNCHANGED kernel
    BY <1>8 DEF Drift, Abort, At
  <2> QED
    BY <1>5, <2>1
<1> QED
  BY <1>1, <1>3, <1>6, <1>7, <1>8

LEMMA NextKeepsQueues == QInv /\ [Next]_vars => QInv'
<1> SUFFICES ASSUME QInv, [Next]_vars PROVE QInv'
  OBVIOUS
<1>1. CASE \E o \in Ops : \E r \in Requests, n \in CellIds \cup {0} : Call(o, r, n)
  BY <1>1, CallKeepsQueues
<1>2. CASE \E o \in Ops : Step(o)
  BY <1>2, MutationsKeepQueues, RunStartKeepsQueues, RunsKeepQueues, PublicationKeepsQueues DEF Step
<1>3. CASE \E o \in Ops : WriteFails(o) \/ Abort(o)
  BY <1>3, PublicationKeepsQueues
<1>4. CASE StartKernel
  BY <1>4, StartKernelKeepsQueues
<1>5. CASE RetireKernel
  <2>1. DOMAIN op' = Ops /\ kernel' = FALSE /\ \A p \in Ops : op'[p] = AfterRetirement(p)
    BY <1>5 DEF RetireKernel
  <2> QED
    BY <2>1, RetirementKeepsQueues
<1>6. CASE (\E d \in ExternalDocs : ExternalWrite(d)) \/ ExternalUnlink \/ UNCHANGED vars
  <2>1. UNCHANGED <<op, kernel>>
    BY <1>6 DEF ExternalWrite, ExternalUnlink, vars
  <2> QED
    BY <2>1, OthersKeepQueues
<1>7. CASE Restart
  BY <1>7, RestartKeepsQueues
<1> QED
  BY <1>1, <1>2, <1>3, <1>4, <1>5, <1>6, <1>7 DEF Next

(* Runs on one notebook are serialized from the version fence to the       *)
(* commit, across replacements of the kernel, cancelled and failed runs,   *)
(* restarts of the service, and replies that come late: RunsAreSerialized. *)
THEOREM RunsSerialized == Spec => []RunsAreSerialized
<1>1. QInv => RunsAreSerialized
  BY DEF QInv
<1> QED
  BY QInit, NextKeepsQueues, <1>1, PTL DEF Spec

-----------------------------------------------------------------------------
(* Insertions.  An insertion is placed against the cells shown when its    *)
(* turn comes.  Until it is answered no other document call can change     *)
(* them, and the commit of a run leaves every id where it is.              *)

Placing(c) == c.req.kind \in {"insert", "copy"} /\ c.pc \in {"reading", "writing", "landed"}

PlacedIn(c, cells) ==
    Placing(c) => /\ c.ev.kind = "create" /\ c.ev.cell.id = c.newId
                  /\ c.ev.at = InsertPosition(c.req, cells)
                  /\ c.req.id = 0 \/ Has(cells, c.req.id)

Placed == \A o \in Ops : PlacedIn(op[o], proj.cells)

(* A call that was c and is d is placed where it was.                      *)
KeepsPlace(c, d) ==
    Placing(d) => Placing(c) /\ d.req = c.req /\ d.newId = c.newId /\ d.ev = c.ev

LEMMA KeptPlace ==
    ASSUME NEW c, NEW d, KeepsPlace(c, d), NEW cells, PlacedIn(c, cells)
    PROVE  PlacedIn(d, cells)
BY DEF KeepsPlace, PlacedIn

LEMMA OneDocumentCall ==
    ASSUME QInv, NEW o \in Ops, NEW p \in Ops, ~IsRun(o), ~IsRun(p),
           op[o].pc \in Active, op[p].pc \in Active
    PROVE  o = p
<1> SUFFICES ASSUME o # p PROVE FALSE
  OBVIOUS
<1>1. Pending(o) /\ Pending(p) /\ ItsTurn(o) /\ ItsTurn(p)
  BY DEF QInv, Chained, Pending
<1>2. ~op[o].cut /\ ~op[p].cut
  BY DEF QInv, RunsLife
<1>3. p \in op[o].ahead \/ o \in op[p].ahead
  BY <1>1, <1>2 DEF QInv, Chained
<1> QED
  BY <1>1, <1>3 DEF ItsTurn

LEMMA OutputKeepsPlaces ==
    ASSUME NEW cells \in Seq(Cell), IsDocument(cells), NEW i \in 1..Len(cells), NEW out, NEW id,
           Has(cells, id)
    PROVE  /\ Has(WithOutput(cells, i, out), id)
           /\ IndexOf(WithOutput(cells, i, out), id) = IndexOf(cells, id)
<1> DEFINE t == WithOutput(cells, i, out)
           k == IndexOf(cells, id)
<1>1. k \in 1..Len(cells) /\ cells[k].id = id
  BY IndexOfIsThere
<1>2. /\ DOMAIN t = 1..Len(cells)
      /\ \A j \in 1..Len(cells) : t[j] = IF j = i THEN [cells[i] EXCEPT !.out = out] ELSE cells[j]
  BY DEF WithOutput, ReplaceAt
<1>3. [cells[i] EXCEPT !.out = out].id = cells[i].id
  BY DEF Cell
<1> HIDE DEF t, k
<1>4. \A j \in 1..Len(cells) : t[j].id = cells[j].id
  BY <1>2, <1>3
<1>5. k \in DOMAIN t /\ t[k].id = id
  BY <1>1, <1>2, <1>4
<1>6. Has(t, id)
  BY <1>5 DEF Has
<1>7. IndexOf(t, id) \in DOMAIN t /\ t[IndexOf(t, id)].id = id
  BY <1>5 DEF IndexOf
<1>8. IndexOf(t, id) = k
  BY <1>1, <1>2, <1>4, <1>7 DEF IsDocument
<1> QED
  BY <1>6, <1>8 DEF t, k

LEMMA SettledPlacesNothing == ASSUME NEW o, NEW result PROVE ~Placing(Settled(o, result))
BY DEF Placing, Settled, Idle

LEMMA RetirementKeepsPlace ==
    ASSUME TypeOK, NEW o \in Ops
    PROVE  KeepsPlace(op[o], AfterRetirement(o))
<1>1. op[o] \in CallRecord
  BY DEF TypeOK
<1>2. CASE AfterRetirement(o) = [op[o] EXCEPT !.cut = TRUE]
  BY <1>1, <1>2 DEF CallRecord, KeepsPlace, Placing
<1>3. CASE AfterRetirement(o) = op[o]
  BY <1>3 DEF KeepsPlace
<1>4. CASE AfterRetirement(o) = Settled(o, "unavailable")
  BY <1>4, SettledPlacesNothing DEF KeepsPlace
<1> QED
  BY <1>2, <1>3, <1>4 DEF AfterRetirement

LEMMA FailingKeepsPlaces ==
    ASSUME TypeOK, NEW o \in Ops, NEW result,
           Fail(o, result) \/ SettleAndRetire(o, result) \/ Settle(o, result)
    PROVE  ~Placing(op'[o]) /\ \A p \in Ops : KeepsPlace(op[p], op'[p])
<1>1. /\ op'[o] = Settled(o, result)
      /\ \A p \in Ops : p # o => op'[p] = op[p] \/ op'[p] = AfterRetirement(p)
  BY DEF TypeOK, Fail, Settle, SettleAndRetire
<1>2. \A p \in Ops : op'[p] = op[p] => KeepsPlace(op[p], op'[p])
  BY DEF KeepsPlace
<1>3. ~Placing(op'[o]) /\ KeepsPlace(op[o], op'[o])
  BY <1>1, SettledPlacesNothing DEF KeepsPlace
<1> QED
  BY <1>1, <1>2, <1>3, RetirementKeepsPlace

(* The call that goes on. *)
LEMMA GoingOnKeepsPlace ==
    ASSUME DocInv, NEW o \in Ops,
           \/ MutationConfirm(o) \/ Land(o) \/ ReloadStart(o) \/ ReloadConfirm(o) \/ ReloadStat(o)
           \/ RunStart(o) \/ RunConfirm(o) \/ RunPrepare(o)
           \/ \E out \in Outputs \ {NoOutput} : RunEnds(o, out)
    PROVE  \A p \in Ops : KeepsPlace(op[p], op'[p])
<1> DEFINE Goal == \A p \in Ops : KeepsPlace(op[p], op'[p])
           c == op[o]
<1>0. /\ op \in [Ops -> CallRecord] /\ c \in CallRecord
      /\ c.pc \in {"running", "ended"} => c.req.kind = "run"
  BY DEF DocInv, TypeOK, CallDoc
<1>1. ASSUME NEW result, Settle(o, result) PROVE Goal
  BY <1>1, FailingKeepsPlaces DEF DocInv
<1>2. ASSUME NEW d, op' = [op EXCEPT ![o] = d], KeepsPlace(c, d) PROVE Goal
  <2>1. \A p \in Ops : op'[p] = IF p = o THEN d ELSE op[p]
    BY <1>0, <1>2
  <2>2. \A p \in Ops : p # o => KeepsPlace(op[p], op'[p])
    BY <2>1 DEF KeepsPlace
  <2> QED
    BY <1>2, <2>1, <2>2
<1>3. ASSUME NEW pc, NEW d, d.pc = pc, d.req = c.req,
             pc \notin {"reading", "writing", "landed"} \/ IsRun(o) \/ IsReload(o)
      PROVE  KeepsPlace(c, d)
  BY <1>3 DEF KeepsPlace, Placing, IsRun, IsReload
<1>4. CASE MutationConfirm(o)
  <2> DEFINE d == [c EXCEPT !.pc = "writing", !.doc = Rewrite(c, files[onDisk])]
  <2>1. KeepsPlace(c, d)
    <3>1. c.pc = "reading"
      BY <1>4 DEF MutationConfirm, At
    <3>2. /\ d.pc = "writing" /\ d.req = c.req /\ d.newId = c.newId /\ d.ev = c.ev
      <4> HIDE DEF c
      <4> QED
        BY <1>0 DEF CallRecord
    <3> HIDE DEF d
    <3> QED
      BY <3>1, <3>2 DEF KeepsPlace, Placing
  <2> HIDE DEF d
  <2> QED
    BY <1>1, <1>2, <1>4, <2>1 DEF MutationConfirm, d
<1>5. CASE Land(o)
  <2> DEFINE d == [c EXCEPT !.pc = "landed", !.ver = Len(files) + 1]
  <2>1. KeepsPlace(c, d)
    <3>1. c.pc = "writing"
      BY <1>5 DEF Land, At
    <3>2. /\ d.pc = "landed" /\ d.req = c.req /\ d.newId = c.newId /\ d.ev = c.ev
      <4> HIDE DEF c
      <4> QED
        BY <1>0 DEF CallRecord
    <3> HIDE DEF d
    <3> QED
      BY <3>1, <3>2 DEF KeepsPlace, Placing
  <2> HIDE DEF d
  <2> QED
    BY <1>2, <1>5, <2>1 DEF Land, d
<1>6. CASE ReloadStart(o)
  <2> DEFINE d == [c EXCEPT !.pc = "reading"]
  <2>1. d.pc = "reading" /\ d.req = c.req
    <3> HIDE DEF c
    <3> QED
      BY <1>0 DEF CallRecord
  <2>2. (\E result : Settle(o, result)) \/ op' = [op EXCEPT ![o] = d]
    BY <1>6 DEF ReloadStart
  <2> HIDE DEF d
  <2>3. KeepsPlace(c, d)
    BY <1>3, <1>6, <2>1 DEF ReloadStart
  <2> QED
    BY <1>1, <1>2, <2>2, <2>3
<1>7. CASE ReloadConfirm(o)
  <2> DEFINE d == [c EXCEPT !.pc = "admitting", !.ver = onDisk, !.doc = files[onDisk]]
  <2>1. d.pc = "admitting" /\ d.req = c.req
    <3> HIDE DEF c
    <3> QED
      BY <1>0 DEF CallRecord
  <2> HIDE DEF d
  <2>2. KeepsPlace(c, d)
    BY <1>3, <2>1
  <2> QED
    BY <1>1, <1>2, <1>7, <2>2 DEF ReloadConfirm, d
<1>8. CASE RunStart(o)
  <2> DEFINE d == [c EXCEPT !.pc = "reading", !.base = proj.ver,
                            !.was = CellOf(proj.cells, c.req.id)]
  <2>1. d.pc = "reading" /\ d.req = c.req
    <3> HIDE DEF c
    <3> QED
      BY <1>0 DEF CallRecord
  <2> HIDE DEF d
  <2>2. KeepsPlace(c, d)
    BY <1>3, <1>8, <2>1 DEF RunStart
  <2> QED
    BY <1>1, <1>2, <1>8, <2>2 DEF RunStart, d
<1>9. CASE RunConfirm(o)
  <2> DEFINE d == [c EXCEPT !.pc = "running", !.doc = files[onDisk]]
  <2>1. d.pc = "running" /\ d.req = c.req
    <3> HIDE DEF c
    <3> QED
      BY <1>0 DEF CallRecord
  <2> HIDE DEF d
  <2>2. KeepsPlace(c, d)
    BY <1>3, <2>1
  <2> QED
    BY <1>1, <1>2, <1>9, <2>2 DEF RunConfirm, d
<1>10. ASSUME NEW out \in Outputs \ {NoOutput}, RunEnds(o, out) PROVE Goal
  <2> DEFINE ev == [kind |-> "execute", at |-> 0, to |-> 0, cell |-> [c.was EXCEPT !.out = out]]
             d == [c EXCEPT !.pc = "ended", !.ev = ev]
  <2>1. d.pc = "ended" /\ d.req = c.req
    <3> HIDE DEF c, ev
    <3> QED
      BY <1>0 DEF CallRecord
  <2>2. op' = [op EXCEPT ![o] = d]
    BY <1>10 DEF RunEnds
  <2> HIDE DEF d
  <2>3. KeepsPlace(c, d)
    BY <1>3, <2>1
  <2> QED
    BY <1>2, <2>2, <2>3
<1>11. CASE RunPrepare(o)
  <2> DEFINE d == [c EXCEPT !.pc = "writing",
                            !.doc = WithOutput(c.doc, IndexOf(c.doc, c.req.id), c.ev.cell.out)]
  <2>1. d.pc = "writing" /\ d.req = c.req
    <3> HIDE DEF c
    <3> QED
      BY <1>0 DEF CallRecord
  <2>2. IsRun(o)
    BY <1>0, <1>11 DEF RunPrepare, At, IsRun
  <2> HIDE DEF d
  <2>3. KeepsPlace(c, d)
    BY <1>3, <2>1, <2>2
  <2> QED
    BY <1>1, <1>2, <1>11, <2>3 DEF RunPrepare, d
<1>12. CASE ReloadStat(o)
  <2> DEFINE d == [c EXCEPT !.pc = "statted"]
  <2>1. d.pc = "statted" /\ d.req = c.req
    <3> HIDE DEF c
    <3> QED
      BY <1>0 DEF CallRecord
  <2>2. (\E result : Settle(o, result)) \/ op' = [op EXCEPT ![o] = d]
    BY <1>12 DEF ReloadStat
  <2> HIDE DEF d
  <2>3. KeepsPlace(c, d)
    BY <1>3, <1>12, <2>1 DEF ReloadStat
  <2> QED
    BY <1>1, <1>2, <2>2, <2>3
<1> QED
  BY <1>4, <1>5, <1>6, <1>7, <1>8, <1>9, <1>10, <1>11, <1>12

LEMMA OthersKeepPlaces ==
    ASSUME TypeOK, StartKernel \/ RetireKernel \/ Restart, NEW p \in Ops
    PROVE  KeepsPlace(op[p], op'[p])
<1>1. op[p] \in CallRecord
  BY DEF TypeOK
<1>2. ASSUME NEW pc \in {"queued", "adrift"}, op'[p] = [op[p] EXCEPT !.pc = pc]
      PROVE  ~Placing(op'[p])
  BY <1>1, <1>2 DEF Placing, CallRecord
<1>3. CASE op'[p] = AfterRetirement(p)
  BY <1>3, RetirementKeepsPlace
<1>4. CASE \/ op'[p] = op[p] \/ op'[p] = Settled(p, "unavailable")
           \/ op'[p] = [op[p] EXCEPT !.pc = "queued"] \/ op'[p] = [op[p] EXCEPT !.pc = "adrift"]
  BY <1>2, <1>4, SettledPlacesNothing DEF KeepsPlace
<1>5. CASE StartKernel
  BY <1>4, <1>5 DEF StartKernel
<1>6. CASE RetireKernel
  BY <1>3, <1>6 DEF RetireKernel
<1>7. CASE Restart
  BY <1>4, <1>7 DEF Restart
<1> QED
  BY <1>5, <1>6, <1>7

(* A call that is placed now, and the commits that others make meanwhile.  *)
LEMMA StartsPlaced ==
    ASSUME TypeOK, NEW o \in Ops, MutationStart(o), NEW p \in Ops, PlacedIn(op[p], proj.cells)
    PROVE  PlacedIn(op'[p], proj.cells)
<1> DEFINE c == op[o]
           e == EventOf(c, proj.cells)
           d == [c EXCEPT !.pc = "reading", !.base = proj.ver, !.ev = e]
<1>1. op \in [Ops -> CallRecord] /\ c \in CallRecord
  BY DEF TypeOK
<1>2. CASE \E result : Settle(o, result)
  BY <1>2, FailingKeepsPlaces, KeptPlace
<1>3. CASE /\ Has(proj.cells, c.req.id) \/ (c.req.kind = "insert" /\ c.req.id = 0)
           /\ op' = [op EXCEPT ![o] = d]
  <2>1. d.req = c.req /\ d.newId = c.newId /\ d.ev = e
    <3> HIDE DEF c, e
    <3> QED
      BY <1>1 DEF CallRecord
  <2>2. CASE p # o
    BY <1>1, <1>3, <2>2
  <2>3. CASE p = o /\ c.req.kind \in {"insert", "copy"}
    <3>1. /\ e.kind = "create" /\ e.at = InsertPosition(c.req, proj.cells)
          /\ e.cell.id = c.newId
      <4>1. c.was \in Cell
        BY <1>1, RequestFields
      <4>2. [c.was EXCEPT !.id = c.newId].id = c.newId
        BY <4>1 DEF Cell
      <4> QED
        BY <2>3, <4>2 DEF EventOf
    <3>2. op'[p] = d
      BY <1>1, <1>3, <2>3
    <3> HIDE DEF d, e
    <3> QED
      BY <1>3, <2>1, <3>1, <3>2 DEF PlacedIn
  <2>4. CASE p = o /\ c.req.kind \notin {"insert", "copy"}
    <3>1. op'[p] = d
      BY <1>1, <1>3, <2>4
    <3> HIDE DEF d
    <3> QED
      BY <2>1, <2>4, <3>1 DEF PlacedIn, Placing
  <2> QED
    BY <2>2, <2>3, <2>4
<1> QED
  BY <1>2, <1>3 DEF MutationStart

LEMMA ChangesKeepPlaces ==
    ASSUME DocInv, QInv, Placed, NEW o \in Ops, Commit(o) \/ ReloadAppend(o), NEW p \in Ops
    PROVE  PlacedIn(op'[p], proj'.cells)
<1>1. ~Placing(op'[o]) /\ KeepsPlace(op[p], op'[p])
  <2>1. TypeOK
    BY DEF DocInv
  <2>2. \E result : Fail(o, result) \/ SettleAndRetire(o, result) \/ Settle(o, result)
    BY DEF Commit, ReloadAppend
  <2> QED
    BY <2>1, <2>2, FailingKeepsPlaces
<1>2. CASE ~Placing(op'[p]) \/ proj' = proj
  BY <1>1, <1>2, KeptPlace DEF PlacedIn, Placed
<1>3. CASE Placing(op'[p]) /\ proj' # proj
  <2>1. /\ o # p /\ Placing(op[p]) /\ op[p].pc \in Active /\ ~IsRun(p) /\ PlacedIn(op[p], proj.cells)
    BY <1>1, <1>3 DEF KeepsPlace, Placing, IsRun, Placed
  <2>2. op[o].pc \in Active
    BY DEF Commit, ReloadAppend, At
  <2>3. IsRun(o)
    BY <2>1, <2>2, OneDocumentCall
  <2>4. Commit(o)
    BY <2>3 DEF QInv, RunsLife, ReloadAppend, At
  <2>5. CallDoc(op[o], Len(files)) /\ op[o].pc = "landed"
    BY <2>4 DEF DocInv, Commit, At
  <2>6. op[o].ev.kind = "execute" /\ op[o].ev.cell.id = op[o].req.id
    BY <2>3, <2>5 DEF CallDoc, Submitted, IsRun
  <2>7. Foldable(op[o].ev, proj.cells) /\ proj'.cells = Fold(op[o].ev, proj.cells)
    BY <1>3, <2>4 DEF Commit
  <2> DEFINE i == IndexOf(proj.cells, op[o].req.id)
  <2>8. /\ proj.cells \in Seq(Cell) /\ IsDocument(proj.cells) /\ i \in 1..Len(proj.cells)
        /\ proj'.cells = WithOutput(proj.cells, i, op[o].ev.cell.out)
    <3>1. proj.cells \in Seq(Cell) /\ IsDocument(proj.cells)
      BY DEF DocInv, TypeOK
    <3>2. Has(proj.cells, op[o].req.id)
      BY <2>6, <2>7 DEF Foldable
    <3> QED
      BY <2>6, <2>7, <3>1, <3>2, IndexOfIsThere DEF Fold
  <2> HIDE DEF i
  <2>9. \A id : Has(proj.cells, id) =>
           Has(proj'.cells, id) /\ IndexOf(proj'.cells, id) = IndexOf(proj.cells, id)
    BY <2>8, OutputKeepsPlaces
  <2>10. PlacedIn(op[p], proj'.cells)
    BY <2>1, <2>9 DEF PlacedIn, InsertPosition
  <2> QED
    BY <1>1, <2>10, KeptPlace
<1> QED
  BY <1>2, <1>3

LEMMA NextKeepsPlaces == DocInv /\ QInv /\ Placed /\ [Next]_vars => Placed'
<1> SUFFICES ASSUME DocInv, QInv, Placed, [Next]_vars PROVE Placed'
  OBVIOUS
<1>0. TypeOK /\ op \in [Ops -> CallRecord]
  BY DEF DocInv, TypeOK
<1>1. ASSUME proj' = proj, \A p \in Ops : KeepsPlace(op[p], op'[p])
      PROVE  Placed'
  BY <1>1, KeptPlace DEF Placed
<1>2. ASSUME NEW o \in Ops, NEW r \in Requests, NEW n \in CellIds \cup {0}, Call(o, r, n)
      PROVE  Placed'
  <2>1. /\ \A p \in Ops : p # o => op'[p] = op[p]
        /\ op'[o].pc \in {"waiting", "queued"}
    BY <1>0, <1>2, IdleType DEF Call, CallRecord, Idle
  <2>2. proj' = proj
    BY <1>2 DEF Call
  <2> QED
    BY <1>1, <2>1, <2>2 DEF KeepsPlace, Placing
<1>3. ASSUME NEW o \in Ops, MutationStart(o) PROVE Placed'
  <2>1. proj' = proj
    BY <1>3 DEF MutationStart
  <2> QED
    BY <1>0, <1>3, <2>1, StartsPlaced DEF Placed
<1>4. ASSUME NEW o \in Ops,
             \/ MutationConfirm(o) \/ Land(o) \/ ReloadStart(o) \/ ReloadConfirm(o) \/ ReloadStat(o)
             \/ RunStart(o) \/ RunConfirm(o) \/ RunPrepare(o)
             \/ \E out \in Outputs \ {NoOutput} : RunEnds(o, out)
      PROVE  Placed'
  <2>1. proj' = proj
    BY <1>4 DEF MutationConfirm, Land, ReloadStart, ReloadConfirm, ReloadStat, RunStart,
       RunConfirm, RunPrepare, RunEnds
  <2> QED
    BY <1>1, <1>4, <2>1, GoingOnKeepsPlace
<1>5. ASSUME NEW o \in Ops, WriteConflict(o) \/ WriteFails(o) \/ Drift(o) \/ Abort(o)
      PROVE  Placed'
  <2>1. proj' = proj /\ \E result : Fail(o, result) \/ Settle(o, result)
    BY <1>5 DEF WriteConflict, WriteFails, Drift, Abort
  <2> QED
    BY <1>0, <1>1, <2>1, FailingKeepsPlaces
<1>6. ASSUME NEW o \in Ops, Commit(o) \/ ReloadAppend(o) PROVE Placed'
  BY <1>6, ChangesKeepPlaces DEF Placed
<1>7. CASE StartKernel \/ RetireKernel \/ Restart
  <2>1. proj' = proj
    BY <1>7 DEF StartKernel, RetireKernel, Restart
  <2> QED
    BY <1>0, <1>1, <1>7, <2>1, OthersKeepPlaces
<1>8. CASE (\E d \in ExternalDocs : ExternalWrite(d)) \/ ExternalUnlink \/ UNCHANGED vars
  <2>1. proj' = proj /\ op' = op
    BY <1>8 DEF ExternalWrite, ExternalUnlink, vars
  <2> QED
    BY <1>1, <2>1 DEF KeepsPlace
<1> QED
  BY <1>2, <1>3, <1>4, <1>5, <1>6, <1>7, <1>8 DEF Next, Step

LEMMA PlacedInvariant == Spec => [](DocInv /\ QInv /\ Placed)
<1>1. Init => Placed
  BY DEF Init, Idle, Placed, PlacedIn, Placing
<1> QED
  BY <1>1, DocInit, NextKeepsDocuments, QInit, NextKeepsQueues, NextKeepsPlaces, PTL DEF Spec

(* InsertsFollowTheirAnchor: an inserted or copied cell appears directly   *)
(* behind the cell its call named, whatever was queued before the call,    *)
(* ran beside it, or was answered late.                                    *)
THEOREM InsertsInPlace == Spec => InsertsFollowTheirAnchor
<1>1. ASSUME DocInv, QInv, Placed, Unanswered, [Next]_vars, NEW o \in Ops,
             At(o, "landed"), op[o].req.kind \in {"insert", "copy"}, op[o].req.id # 0,
             op'[o].res = "ok"
      PROVE  \E i \in DOMAIN proj.cells :
                /\ proj'.cells[i].id = op[o].req.id
                /\ proj'.cells[i + 1].id = op[o].newId
  <2> DEFINE c == op[o]
             i == IndexOf(proj.cells, c.req.id)
  <2>1. TypeOK /\ proj.cells \in Seq(Cell) /\ c \in CallRecord
    BY <1>1 DEF DocInv, TypeOK
  <2>2. proj'.cells = Fold(c.ev, proj.cells)
    BY <1>1, <2>1, CommitShows
  <2>3. /\ c.ev.kind = "create" /\ c.ev.cell.id = c.newId
        /\ c.ev.at = InsertPosition(c.req, proj.cells) /\ Has(proj.cells, c.req.id)
    BY <1>1 DEF Placed, PlacedIn, Placing, At
  <2>4. c.ev.at = i + 1 /\ proj'.cells = InsertAt(proj.cells, i + 1, c.ev.cell) /\ c.ev.cell \in Cell
    BY <1>1, <2>1, <2>2, <2>3, RequestFields DEF InsertPosition, Fold, Event
  <2>5. i \in 1..Len(proj.cells) /\ proj.cells[i].id = c.req.id
    BY <2>1, <2>3, IndexOfIsThere
  <2>6. Len(proj.cells) \in Nat /\ DOMAIN proj.cells = 1..Len(proj.cells)
    BY <2>1
  <2> HIDE DEF i, c
  <2>7. i + 1 \in 1..(Len(proj.cells) + 1) /\ i \in 1..(Len(proj.cells) + 1) /\ i < i + 1
    BY <2>5, <2>6
  <2>8. proj'.cells[i] = proj.cells[i] /\ proj'.cells[i + 1] = c.ev.cell
    BY <2>1, <2>4, <2>7, InsertedAt
  <2> QED
    BY <2>3, <2>5, <2>6, <2>8 DEF c
<1>2. DocInv /\ QInv /\ Placed /\ Unanswered /\ [Next]_vars =>
        [\A o \in Ops :
            /\ At(o, "landed") /\ op[o].req.kind \in {"insert", "copy"} /\ op[o].req.id # 0
            /\ op'[o].res = "ok"
            => \E i \in DOMAIN proj.cells :
                  /\ proj'.cells[i].id = op[o].req.id
                  /\ proj'.cells[i + 1].id = op[o].newId]_vars
  BY <1>1
<1> QED
  BY <1>2, PlacedInvariant, UnansweredInvariant, PTL DEF Spec, InsertsFollowTheirAnchor

-----------------------------------------------------------------------------
(* What the file holds and the projection does not show is accounted for,  *)
(* whatever fails, whoever else writes and whatever order replies come in. *)

Told == {"failed", "unavailable"}
WriteOut(o) == op[o].pc \in {"writing", "landed"}

(* What a call started on is not newer than the projection, an event that  *)
(* was accepted fits as long as the projection has not moved on, and it    *)
(* cannot move on while a write waits for its reply.                       *)
InStep(o) ==
    /\ op[o].ver \in Nat /\ op[o].ver =< Len(files)
    /\ op[o].pc \in {"admitting", "statted"} => IsReload(o)
    /\ op[o].pc \in {"running", "ended"} => IsRun(o)
    /\ WriteOut(o) => ~IsReload(o)
    /\ op[o].pc \notin {"landed", "settled"} => IsReload(o) \/ op[o].ver = 0
    /\ op[o].pc \in Active /\ ~IsReload(o) =>
          op[o].base \in Nat \ {0} /\ op[o].base =< proj.ver
    /\ WriteOut(o) /\ op[o].base = proj.ver => Foldable(op[o].ev, proj.cells)
    /\ At(o, "landed") => op[o].base = proj.ver /\ proj.ver < op[o].ver

(* The property for one call, as long as nothing has been reloaded.        *)
Accounted(o) ==
    ~IsReload(o) /\ op[o].ver = onDisk /\ onDisk \notin {0, proj.ver}
    => At(o, "landed") \/ op[o].res \in Told

Apart ==
    /\ onDisk = 0 \/ onDisk = Len(files)
    /\ \A o \in Ops : InStep(o) /\ Accounted(o)
    /\ \A o, p \in Ops : At(o, "landed") /\ At(p, "landed") => o = p

LEMMA OneMore ==
    ASSUME NEW s, \E S : s \in Seq(S), NEW e
    PROVE  /\ \E S : Append(s, e) \in Seq(S)
           /\ Len(Append(s, e)) = Len(s) + 1 /\ Len(s) \in Nat
<1>1. PICK S : s \in Seq(S)
  OBVIOUS
<1>2. s \in Seq(S \cup {e}) /\ e \in S \cup {e}
  <2>1. Len(s) \in Nat /\ s \in [1 .. Len(s) -> S]
    BY <1>1
  <2>2. s \in [1 .. Len(s) -> S \cup {e}]
    BY <2>1
  <2> DEFINE T == S \cup {e}
  <2>3. s \in Seq(T)
    <3> HIDE DEF T
    <3>1. \A i \in 1 .. Len(s) : s[i] \in T
      BY <2>2 DEF T
    <3>2. QED
      BY <2>1, <3>1
  <2>4. QED
    BY <2>3
<1>3. Append(s, e) \in Seq(S \cup {e}) /\ Len(Append(s, e)) = Len(s) + 1 /\ Len(s) \in Nat
  BY <1>2
<1>4. QED
  BY <1>3

LEMMA ApartAtFirst == Init => Apart
<1> SUFFICES ASSUME Init PROVE Apart
  OBVIOUS
<1>1. OpenedCells \in Seq(Cell)
  BY ConstantsAssumption
<1>2. files \in Seq(Seq(Cell)) /\ Len(files) = 1
  BY <1>1 DEF Init
<1>3. \A o \in Ops : op[o] = Idle
  BY DEF Init
<1>4. \A o \in Ops : InStep(o) /\ ~At(o, "landed") /\ op[o].ver = 0
  BY <1>2, <1>3 DEF Idle, InStep, WriteOut, At
<1>5. onDisk = 1
  BY DEF Init
<1>6. QED
  BY <1>2, <1>4, <1>5 DEF Apart, Accounted

(* What a step that neither writes nor shows anything makes of a call: it  *)
(* goes on waiting, it is told that its write failed, or it never wrote.   *)
Same(p) ==
    /\ op'[p].pc = op[p].pc /\ op'[p].req = op[p].req /\ op'[p].base = op[p].base
    /\ op'[p].ev = op[p].ev /\ op'[p].ver = op[p].ver /\ op'[p].res = op[p].res

Tells(p) ==
    /\ op'[p].pc = "settled" /\ op'[p].req = op[p].req
    /\ op'[p].ver = op[p].ver /\ op'[p].res \in Told

Wrote0(p) == op'[p].pc # "landed" /\ (op'[p].req.kind = "reload" \/ op'[p].ver = 0)

LEMMA StillInStep ==
    ASSUME NEW p \in Ops, InStep(p), UNCHANGED <<files, proj>>, Same(p) \/ Tells(p)
    PROVE  InStep(p)'
<1>1. CASE Same(p)
  BY <1>1 DEF Same, InStep, WriteOut, At, IsRun, IsReload
<1>2. CASE Tells(p)
  BY <1>2 DEF Tells, InStep, WriteOut, At
<1>3. QED
  BY <1>1, <1>2

LEMMA QuietKeepsApart ==
    ASSUME Apart, UNCHANGED <<files, onDisk, proj>>,
           \A p \in Ops : Same(p) \/ Tells(p) \/ (Wrote0(p) /\ InStep(p)')
    PROVE  Apart'
<1>1. ASSUME NEW p \in Ops
      PROVE  InStep(p)' /\ Accounted(p)' /\ (At(p, "landed")' => At(p, "landed"))
  <2>1. InStep(p) /\ Accounted(p)
    BY DEF Apart
  <2>2. CASE Same(p)
    BY <2>1, <2>2, StillInStep DEF Same, Accounted, At, IsReload
  <2>3. CASE Tells(p)
    BY <2>1, <2>3, StillInStep DEF Tells, Accounted, At
  <2>4. CASE Wrote0(p) /\ InStep(p)'
    BY <2>4 DEF Wrote0, Accounted, At, IsReload
  <2>5. QED
    BY <2>2, <2>3, <2>4
<1>2. (onDisk = 0 \/ onDisk = Len(files))'
  BY DEF Apart
<1>3. QED
  BY <1>1, <1>2 DEF Apart

LEMMA SettledTells ==
    ASSUME NEW o \in Ops, NEW result, op'[o] = Settled(o, result)
    PROVE  /\ op'[o].pc = "settled" /\ op'[o].req = op[o].req
           /\ op'[o].ver = op[o].ver /\ op'[o].res = result
BY DEF Settled, Idle

(* The answer of a call whose write is not out: it has written nothing.    *)
LEMMA AnswerWroteNothing ==
    ASSUME Apart, NEW o \in Ops, op[o].pc \notin {"landed", "settled"}, UNCHANGED files,
           NEW result, op'[o] = Settled(o, result)
    PROVE  Wrote0(o) /\ InStep(o)'
<1>1. InStep(o)
  BY DEF Apart
<1>2. /\ op'[o].pc = "settled" /\ op'[o].req = op[o].req /\ op'[o].ver = op[o].ver
  BY SettledTells
<1>3. QED
  BY <1>1, <1>2 DEF Wrote0, InStep, WriteOut, At, IsReload

LEMMA RetirementTells ==
    ASSUME QInv, NEW p \in Ops, op'[p] = op[p] \/ op'[p] = AfterRetirement(p)
    PROVE  Same(p) \/ Tells(p)
<1>1. Shaped(op[p])
  BY DEF QInv, Shape
<1>2. CASE op'[p] = op[p]
  BY <1>2 DEF Same
<1>3. CASE op'[p] = [op[p] EXCEPT !.cut = TRUE]
  BY <1>1, <1>3 DEF Same, Shaped
<1>4. CASE op'[p] = Settled(p, "unavailable")
  BY <1>4, SettledTells DEF Tells, Told
<1>5. QED
  BY <1>2, <1>3, <1>4 DEF AfterRetirement

LEMMA OthersWhenSettled ==
    ASSUME QInv, NEW o \in Ops, NEW result,
           Fail(o, result) \/ SettleAndRetire(o, result) \/ Settle(o, result)
    PROVE  /\ op'[o] = Settled(o, result)
           /\ \A p \in Ops : p # o => Same(p) \/ Tells(p)
<1>1. DOMAIN op = Ops
  BY DEF QInv, Shape
<1>2. /\ op'[o] = Settled(o, result)
      /\ \A p \in Ops : p # o => op'[p] = op[p] \/ op'[p] = AfterRetirement(p)
  BY <1>1 DEF Fail, Settle, SettleAndRetire
<1>3. QED
  BY <1>2, RetirementTells

LEMMA AnswersKeepApart ==
    ASSUME QInv, Apart, NEW o \in Ops, NEW result,
           op[o].pc \notin {"landed", "settled"} \/ result \in Told,
           Fail(o, result) \/ SettleAndRetire(o, result) \/ Settle(o, result),
           UNCHANGED <<files, onDisk, proj>>
    PROVE  Apart'
<1>1. /\ op'[o] = Settled(o, result)
      /\ \A p \in Ops : p # o => Same(p) \/ Tells(p)
  BY OthersWhenSettled
<1>2. CASE op[o].pc \notin {"landed", "settled"}
  BY <1>1, <1>2, AnswerWroteNothing, QuietKeepsApart
<1>3. CASE result \in Told
  <2>1. Tells(o)
    BY <1>1, <1>3, SettledTells DEF Tells
  <2>2. QED
    BY <1>1, <2>1, QuietKeepsApart
<1>4. QED
  BY <1>2, <1>3

(* The write of a call puts the file ahead.  It can only land when no other *)
(* write of the service waits for its reply, and no call has written this   *)
(* revision before.                                                         *)
LEMMA LandingKeepsApart ==
    ASSUME TypeOK, QInv, Apart, NEW o \in Ops, Land(o)
    PROVE  Apart'
<1> DEFINE next == Len(files) + 1
<1>1. /\ At(o, "writing") /\ onDisk = op[o].base /\ files' = Append(files, op[o].doc)
      /\ onDisk' = next /\ op' = [op EXCEPT ![o] = [@ EXCEPT !.pc = "landed", !.ver = next]]
      /\ UNCHANGED proj
  BY DEF Land, Current, Replace
<1>2. Shaped(op[o]) /\ DOMAIN op = Ops /\ InStep(o)
  BY DEF QInv, Shape, Apart
<1>3. /\ op'[o].pc = "landed" /\ op'[o].ver = next /\ op'[o].base = op[o].base
      /\ op'[o].ev = op[o].ev /\ op'[o].req = op[o].req
      /\ \A p \in Ops : p # o => op'[p] = op[p]
  BY <1>1, <1>2 DEF Shaped
<1>4. Len(files') = next /\ Len(files) \in Nat /\ proj.ver \in Nat /\ proj.ver =< Len(files)
  <2>1. files \in Seq(Seq(Cell)) /\ proj \in [ver : 1..Len(files), cells : Seq(Cell)]
    BY DEF TypeOK
  <2>2. Len(files') = next /\ Len(files) \in Nat
    BY <1>1, <2>1, OneMore
  <2>3. QED
    BY <2>1, <2>2
<1> HIDE DEF next
<1>5. next \in Nat /\ next > Len(files)
  BY <1>4 DEF next
<1>6. proj.ver = Len(files) /\ op[o].base = proj.ver
  <2>1. op[o].base \in Nat \ {0} /\ op[o].base =< proj.ver /\ ~IsReload(o)
    BY <1>1, <1>2 DEF InStep, At, WriteOut
  <2>2. onDisk = Len(files)
    BY <1>1, <2>1 DEF Apart
  <2>3. QED
    BY <1>1, <1>4, <2>1, <2>2
<1>7. \A p \in Ops : ~At(p, "landed")
  <2>1. \A p \in Ops : InStep(p)
    BY DEF Apart
  <2>2. QED
    BY <1>4, <1>6, <2>1 DEF InStep
<1>8. InStep(o)'
  <2>1. /\ op'[o].ver \in Nat /\ op'[o].ver =< Len(files') /\ proj'.ver < op'[o].ver
        /\ op'[o].base = proj'.ver /\ op'[o].base \in Nat \ {0} /\ op'[o].base =< proj'.ver
    BY <1>1, <1>2, <1>3, <1>4, <1>5, <1>6 DEF InStep, At, WriteOut
  <2>2. op'[o].req.kind # "reload" /\ Foldable(op'[o].ev, proj'.cells)
    BY <1>1, <1>2, <1>3, <1>6 DEF InStep, At, WriteOut, IsReload
  <2>3. QED
    BY <1>3, <2>1, <2>2 DEF InStep, WriteOut, At, IsReload
<1>9. ASSUME NEW p \in Ops, p # o  PROVE InStep(p)' /\ ~At(p, "landed")' /\ op'[p].ver # next
  <2>1. InStep(p) /\ op'[p] = op[p]
    BY <1>3, <1>9 DEF Apart
  <2>2. op[p].ver \in Nat /\ op[p].ver =< Len(files')
    BY <1>4, <1>5, <2>1 DEF InStep
  <2>3. InStep(p)'
    BY <1>1, <2>1, <2>2 DEF InStep, WriteOut, At, IsRun, IsReload
  <2>4. op[p].ver # next
    BY <1>4, <1>5, <2>1 DEF InStep
  <2>5. QED
    BY <1>7, <2>1, <2>3, <2>4 DEF At
<1>10. \A p \in Ops : Accounted(p)'
  BY <1>1, <1>3, <1>9 DEF Accounted, At
<1>11. QED
  BY <1>1, <1>4, <1>8, <1>9, <1>10 DEF Apart

(* Somebody else puts the file ahead, or takes it away.                     *)
LEMMA OthersWritesKeepApart ==
    ASSUME TypeOK, Apart, UNCHANGED proj,
           \/ (\E d : files' = Append(files, d)) /\ onDisk' = Len(files) + 1
           \/ UNCHANGED files /\ onDisk' = 0,
           \A p \in Ops : \/ op'[p] = op[p]
                          \/ /\ op'[p].pc = "settled" /\ op'[p].req = op[p].req
                             /\ op'[p].ver = op[p].ver
    PROVE  Apart'
<1>1. files \in Seq(Seq(Cell)) /\ Len(files) \in Nat
  BY DEF TypeOK
<1>2. Len(files') \in Nat /\ Len(files) =< Len(files') /\ (onDisk' = 0 \/ onDisk' = Len(files'))
      /\ (onDisk' # 0 => onDisk' > Len(files))
  <2>1. ASSUME NEW d, files' = Append(files, d)  PROVE Len(files') = Len(files) + 1
    BY <1>1, <2>1, OneMore
  <2>2. QED
    BY <1>1, <2>1
<1>3. ASSUME NEW p \in Ops
      PROVE  InStep(p)' /\ Accounted(p)' /\ (At(p, "landed")' => At(p, "landed"))
  <2>1. InStep(p)
    BY DEF Apart
  <2>2. op'[p].ver = op[p].ver
    OBVIOUS
  <2>3. op[p].ver \in Nat /\ op[p].ver =< Len(files') /\ op[p].ver =< Len(files)
    BY <1>1, <1>2, <2>1 DEF InStep
  <2>4. Accounted(p)'
    BY <1>1, <1>2, <2>2, <2>3 DEF Accounted
  <2>5. CASE op'[p] = op[p]
    BY <2>1, <2>3, <2>4, <2>5 DEF InStep, WriteOut, At, IsRun, IsReload
  <2>6. CASE op'[p].pc = "settled"
    BY <2>2, <2>3, <2>4, <2>6 DEF InStep, WriteOut, At
  <2>7. QED
    BY <2>5, <2>6
<1>4. (onDisk = 0 \/ onDisk = Len(files))'
  BY <1>2
<1>5. QED
  BY <1>3, <1>4 DEF Apart

(* The event of a write that landed fits, and the projection catches up:    *)
(* whoever had written what the file holds now had been told of a failure.  *)
LEMMA CommitsKeepApart ==
    ASSUME TypeOK, QInv, Apart, NEW o \in Ops, Commit(o)
    PROVE  Apart'
<1>1. At(o, "landed") /\ WriteOut(o) /\ InStep(o)
  BY DEF Commit, At, WriteOut, Apart
<1>2. /\ Foldable(op[o].ev, proj.cells) /\ op[o].base = proj.ver /\ proj.ver < op[o].ver
      /\ op[o].ver \in Nat /\ op[o].ver =< Len(files) /\ proj.ver \in Nat /\ Len(files) \in Nat
  <2>1. files \in Seq(Seq(Cell)) /\ proj \in [ver : 1..Len(files), cells : Seq(Cell)]
    BY DEF TypeOK
  <2>2. proj.ver \in Nat /\ Len(files) \in Nat
    BY <2>1
  <2>3. QED
    BY <1>1, <2>2 DEF InStep
<1>3. proj'.ver = op[o].ver /\ UNCHANGED <<files, onDisk>>
  BY <1>2 DEF Commit
<1>4. /\ op'[o] = Settled(o, "ok")
      /\ \A p \in Ops : p # o => Same(p) \/ Tells(p)
  <2>1. SettleAndRetire(o, "ok") \/ Settle(o, "ok")
    BY <1>2 DEF Commit
  <2>2. QED
    BY <2>1, OthersWhenSettled
<1>5. /\ op'[o].pc = "settled" /\ op'[o].req = op[o].req /\ op'[o].ver = op[o].ver
  BY <1>4, SettledTells
<1>6. InStep(o)' /\ Accounted(o)' /\ ~At(o, "landed")'
  BY <1>2, <1>3, <1>5 DEF InStep, WriteOut, At, Accounted
<1>7. ASSUME NEW p \in Ops, p # o  PROVE InStep(p)' /\ Accounted(p)' /\ ~At(p, "landed")'
  <2>1. InStep(p) /\ Accounted(p) /\ ~At(p, "landed")
    BY <1>1, <1>7 DEF Apart
  <2>2. op[p].pc \in Active /\ ~IsReload(p) =>
           op[p].base \in Nat \ {0} /\ op[p].base =< proj'.ver /\ op[p].base # proj'.ver
    BY <1>2, <1>3, <2>1 DEF InStep
  <2>3. ~IsReload(p) /\ op[p].ver = onDisk /\ onDisk \notin {0, proj'.ver} => op[p].res \in Told
    <3>1. onDisk \in {0, Len(files)}
      BY DEF Apart
    <3>2. onDisk \notin {0, proj'.ver} => onDisk # proj.ver
      BY <1>2, <1>3, <3>1
    <3>3. QED
      BY <2>1, <3>2 DEF Accounted
  <2>4. CASE Same(p)
    <3>1. InStep(p)'
      BY <1>3, <2>1, <2>2, <2>4 DEF Same, InStep, WriteOut, At, IsRun, IsReload
    <3>2. QED
      BY <1>3, <2>1, <2>3, <2>4, <3>1 DEF Same, Accounted, At, IsReload
  <2>5. CASE Tells(p)
    BY <1>3, <2>1, <2>5 DEF Tells, InStep, WriteOut, At, Accounted
  <2>6. QED
    BY <1>4, <1>7, <2>4, <2>5
<1>8. (onDisk = 0 \/ onDisk = Len(files))'
  BY <1>3 DEF Apart
<1>9. QED
  BY <1>6, <1>7, <1>8 DEF Apart

(* Calls that start or go on have written nothing. *)
LEMMA StartsKeepApart ==
    ASSUME TypeOK, QInv, Apart, NEW o \in Ops,
           \/ \E r \in Requests, n \in CellIds \cup {0} : Call(o, r, n)
           \/ MutationStart(o) \/ RunStart(o) \/ RunConfirm(o) \/ MutationConfirm(o)
           \/ \E out \in Outputs \ {NoOutput} : RunEnds(o, out)
           \/ RunPrepare(o)
           \/ ReloadStart(o) \/ ReloadConfirm(o) \/ ReloadStat(o)
    PROVE  Apart'
<1>1. Shaped(op[o]) /\ DOMAIN op = Ops /\ InStep(o)
  BY DEF QInv, Shape, Apart
<1>2. UNCHANGED <<files, onDisk, proj>> /\ op[o].pc \notin {"landed", "settled", "writing"}
  BY DEF Call, MutationStart, RunStart, RunConfirm, MutationConfirm, RunEnds, RunPrepare,
         ReloadStart, ReloadConfirm, ReloadStat, At
<1>3. CASE \E result : Settle(o, result)
  BY <1>2, <1>3, AnswersKeepApart
<1>4. ASSUME NEW c, op' = [op EXCEPT ![o] = c], c.pc # "landed",
             c.req.kind = "reload" \/ c.ver = 0, InStep(o)'
      PROVE  Apart'
  <2>1. op'[o] = c /\ \A p \in Ops : p # o => op'[p] = op[p]
    BY <1>1, <1>4
  <2>2. Wrote0(o) /\ \A p \in Ops : p # o => Same(p)
    BY <1>4, <2>1 DEF Wrote0, Same
  <2>3. QED
    BY <1>2, <1>4, <2>2, QuietKeepsApart
<1>5. /\ proj.ver \in Nat \ {0} /\ Len(files) \in Nat /\ onDisk \in Nat /\ onDisk =< Len(files)
      /\ proj.ver =< proj.ver
  <2>1. files \in Seq(Seq(Cell)) /\ proj \in [ver : 1..Len(files), cells : Seq(Cell)]
        /\ onDisk \in 0..Len(files)
    BY DEF TypeOK
  <2>2. QED
    BY <2>1
(* A step that goes on from an earlier await with what it was given there. *)
<1>6. ASSUME NEW c, op' = [op EXCEPT ![o] = c], Shaped(op[o]),
             c.pc \in {"reading", "running", "ended", "writing"},
             c.req = op[o].req, c.ver = op[o].ver,
             c.pc \in {"running", "ended"} => IsRun(o),
             c.pc = "writing" => ~IsReload(o) /\ Foldable(c.ev, proj.cells),
             c.base = proj.ver \/ IsReload(o) \/ (c.base = op[o].base /\ op[o].pc \in Active)
      PROVE  Apart'
  <2>1. op'[o] = c
    BY <1>1, <1>6
  <2>2. /\ op[o].ver \in Nat /\ op[o].ver =< Len(files)
        /\ IsReload(o) \/ op[o].ver = 0
    BY <1>1, <1>2 DEF InStep
  <2>3. IsReload(o) \/ (c.base \in Nat \ {0} /\ c.base =< proj.ver)
    BY <1>1, <1>5, <1>6 DEF InStep
  <2>4. InStep(o)'
    BY <1>2, <1>6, <2>1, <2>2, <2>3 DEF InStep, WriteOut, At, IsRun, IsReload
  <2>5. QED
    BY <1>4, <1>6, <2>2, <2>4 DEF IsReload
<1>7. CASE \E r \in Requests, n \in CellIds \cup {0} : Call(o, r, n)
  <2>1. PICK r \in Requests, n \in CellIds \cup {0} : Call(o, r, n)
    BY <1>7
  <2> DEFINE c == [Idle EXCEPT !.pc = IF r.kind = "run" /\ ~kernel THEN "waiting" ELSE "queued",
                               !.req = r, !.newId = n, !.ahead = Ahead(r.kind),
                               !.was = IF r.kind \in {"delete", "move", "copy"}
                                       THEN CellOf(proj.cells, r.id) ELSE AnyCell]
  <2>2. op' = [op EXCEPT ![o] = c]
    BY <2>1 DEF Call
  <2>3. c.pc \in {"waiting", "queued"} /\ c.ver = 0
    BY DEF Idle
  <2> HIDE DEF c
  <2>4. op'[o] = c
    BY <1>1, <2>2
  <2>5. InStep(o)'
    BY <1>2, <1>5, <2>3, <2>4 DEF InStep, WriteOut, At
  <2>6. QED
    BY <1>4, <2>2, <2>3, <2>5
<1>8. CASE MutationStart(o) /\ ~\E result : Settle(o, result)
  <2> DEFINE c == [op[o] EXCEPT !.pc = "reading", !.base = proj.ver,
                                !.ev = EventOf(op[o], proj.cells)]
  <2>1. op' = [op EXCEPT ![o] = c]
    BY <1>8 DEF MutationStart
  <2>2. c.pc = "reading" /\ c.base = proj.ver /\ c.req = op[o].req /\ c.ver = op[o].ver
    BY <1>1 DEF Shaped
  <2> HIDE DEF c
  <2>3. QED
    BY <1>1, <1>6, <2>1, <2>2
<1>9. CASE RunStart(o) /\ ~\E result : Settle(o, result)
  <2> DEFINE c == [op[o] EXCEPT !.pc = "reading", !.base = proj.ver,
                                !.was = CellOf(proj.cells, op[o].req.id)]
  <2>1. op' = [op EXCEPT ![o] = c]
    BY <1>9 DEF RunStart
  <2>2. c.pc = "reading" /\ c.base = proj.ver /\ c.req = op[o].req /\ c.ver = op[o].ver
    BY <1>1 DEF Shaped
  <2> HIDE DEF c
  <2>3. QED
    BY <1>1, <1>6, <2>1, <2>2
<1>10. CASE RunConfirm(o) /\ ~\E result : Settle(o, result)
  <2> DEFINE c == [op[o] EXCEPT !.pc = "running", !.doc = files[onDisk]]
  <2>1. op' = [op EXCEPT ![o] = c] /\ IsRun(o) /\ op[o].pc = "reading"
    BY <1>10 DEF RunConfirm, At
  <2>2. c.pc = "running" /\ c.base = op[o].base /\ c.req = op[o].req /\ c.ver = op[o].ver
    BY <1>1 DEF Shaped
  <2> HIDE DEF c
  <2>3. QED
    BY <1>1, <1>6, <2>1, <2>2
<1>11. CASE MutationConfirm(o) /\ ~\E result : Settle(o, result)
  <2> DEFINE c == [op[o] EXCEPT !.pc = "writing", !.doc = Rewrite(op[o], files[onDisk])]
  <2>1. op' = [op EXCEPT ![o] = c] /\ Foldable(op[o].ev, proj.cells)
    BY <1>11 DEF MutationConfirm
  <2>2. op[o].pc = "reading" /\ ~IsReload(o)
    BY <1>11 DEF MutationConfirm, At, Mutates, Mutations, IsReload
  <2>3. /\ c.pc = "writing" /\ c.base = op[o].base /\ c.req = op[o].req /\ c.ver = op[o].ver
        /\ c.ev = op[o].ev
    BY <1>1 DEF Shaped
  <2> HIDE DEF c
  <2>4. QED
    BY <1>1, <1>6, <2>1, <2>2, <2>3
<1>12. CASE \E out \in Outputs \ {NoOutput} : RunEnds(o, out)
  <2>1. PICK out : RunEnds(o, out)
    BY <1>12
  <2> DEFINE e == [kind |-> "execute", at |-> 0, to |-> 0,
                   cell |-> [op[o].was EXCEPT !.out = out]]
             c == [op[o] EXCEPT !.pc = "ended", !.ev = e]
  <2>2. op' = [op EXCEPT ![o] = c] /\ op[o].pc = "running"
    BY <2>1 DEF RunEnds, At
  <2>3. c.pc = "ended" /\ c.base = op[o].base /\ c.req = op[o].req /\ c.ver = op[o].ver
    BY <1>1 DEF Shaped
  <2> HIDE DEF c
  <2>4. IsRun(o)
    BY <1>1, <2>2 DEF InStep
  <2>5. QED
    BY <1>1, <1>6, <2>2, <2>3, <2>4
<1>13. CASE RunPrepare(o) /\ ~\E result : Settle(o, result)
  <2>1. /\ Foldable(op[o].ev, proj.cells) /\ op[o].pc = "ended"
        /\ \E doc : op' = [op EXCEPT ![o] = [@ EXCEPT !.pc = "writing", !.doc = doc]]
    BY <1>13 DEF RunPrepare, At
  <2>2. PICK doc : op' = [op EXCEPT ![o] = [@ EXCEPT !.pc = "writing", !.doc = doc]]
    BY <2>1
  <2> DEFINE c == [op[o] EXCEPT !.pc = "writing", !.doc = doc]
  <2>3. op' = [op EXCEPT ![o] = c]
    BY <2>2
  <2>4. /\ c.pc = "writing" /\ c.base = op[o].base /\ c.req = op[o].req /\ c.ver = op[o].ver
        /\ c.ev = op[o].ev
    BY <1>1 DEF Shaped
  <2> HIDE DEF c
  <2>5. IsRun(o) /\ ~IsReload(o)
    BY <1>1, <2>1 DEF InStep, IsRun, IsReload
  <2>6. QED
    BY <1>1, <1>6, <2>1, <2>3, <2>4, <2>5
<1>14. CASE ReloadStart(o) /\ ~\E result : Settle(o, result)
  <2> DEFINE c == [op[o] EXCEPT !.pc = "reading"]
  <2>1. op' = [op EXCEPT ![o] = c] /\ IsReload(o)
    BY <1>14 DEF ReloadStart
  <2>2. c.pc = "reading" /\ c.req = op[o].req /\ c.ver = op[o].ver
    BY <1>1 DEF Shaped
  <2> HIDE DEF c
  <2>3. QED
    BY <1>1, <1>6, <2>1, <2>2
(* A reload remembers what it read; the answer it may take is its own.     *)
<1>15. ASSUME NEW c, op' = [op EXCEPT ![o] = c], c.pc \in {"admitting", "statted"},
              c.req = op[o].req, IsReload(o), c.ver \in Nat, c.ver =< Len(files)
       PROVE  Apart'
  <2>1. op'[o] = c
    BY <1>1, <1>15
  <2>2. InStep(o)'
    BY <1>2, <1>15, <2>1 DEF InStep, WriteOut, At, IsReload
  <2>3. QED
    BY <1>4, <1>15, <2>2 DEF IsReload
<1>16. CASE ReloadConfirm(o) /\ ~\E result : Settle(o, result)
  <2> DEFINE c == [op[o] EXCEPT !.pc = "admitting", !.ver = onDisk, !.doc = files[onDisk]]
  <2>1. op' = [op EXCEPT ![o] = c] /\ IsReload(o)
    BY <1>16 DEF ReloadConfirm
  <2>2. c.pc = "admitting" /\ c.req = op[o].req /\ c.ver = onDisk
    BY <1>1 DEF Shaped
  <2> HIDE DEF c
  <2>3. QED
    BY <1>5, <1>15, <2>1, <2>2
<1>17. CASE ReloadStat(o) /\ ~\E result : Settle(o, result)
  <2> DEFINE c == [op[o] EXCEPT !.pc = "statted"]
  <2>1. op' = [op EXCEPT ![o] = c] /\ op[o].pc = "admitting"
    BY <1>17 DEF ReloadStat, At
  <2>2. c.pc = "statted" /\ c.req = op[o].req /\ c.ver = op[o].ver
    BY <1>1 DEF Shaped
  <2> HIDE DEF c
  <2>3. IsReload(o) /\ op[o].ver \in Nat /\ op[o].ver =< Len(files)
    BY <1>1, <2>1 DEF InStep
  <2>4. QED
    BY <1>15, <2>1, <2>2, <2>3
<1>18. QED
  BY <1>3, <1>7, <1>8, <1>9, <1>10, <1>11, <1>12, <1>13, <1>14, <1>16, <1>17

(* A kernel that starts or is retired, and the restart of the service.     *)
LEMMA KernelsKeepApart ==
    ASSUME QInv, Apart, StartKernel \/ RetireKernel
    PROVE  Apart'
<1>1. UNCHANGED <<files, onDisk, proj>>
  BY DEF StartKernel, RetireKernel
<1>2. ASSUME NEW p \in Ops  PROVE Same(p) \/ Tells(p) \/ (Wrote0(p) /\ InStep(p)')
  <2>1. Shaped(op[p]) /\ InStep(p)
    BY DEF QInv, Shape, Apart
  <2>2. CASE op'[p] = op[p] \/ op'[p] = AfterRetirement(p)
    BY <2>2, RetirementTells
  <2>3. CASE op'[p] = Settled(p, "unavailable")
    BY <2>3, SettledTells DEF Tells, Told
  <2>4. CASE At(p, "waiting") /\ op'[p] = [op[p] EXCEPT !.pc = "queued"]
    <3>1. op'[p].pc = "queued" /\ op'[p].req = op[p].req /\ op'[p].ver = op[p].ver
      BY <2>1, <2>4 DEF Shaped
    <3>2. QED
      BY <1>1, <2>1, <2>4, <3>1 DEF InStep, Wrote0, WriteOut, At, IsReload
  <2>5. QED
    BY <2>2, <2>3, <2>4 DEF StartKernel, RetireKernel
<1>3. QED
  BY <1>1, <1>2, QuietKeepsApart

LEMMA RestartKeepsApart ==
    ASSUME QInv, Apart, Restart
    PROVE  Apart'
<1>1. UNCHANGED <<files, onDisk, proj>>
  BY DEF Restart
<1>2. ASSUME NEW p \in Ops  PROVE Same(p) \/ Tells(p) \/ (Wrote0(p) /\ InStep(p)')
  <2>1. Shaped(op[p]) /\ InStep(p)
    BY DEF QInv, Shape, Apart
  <2>2. CASE op'[p] = op[p]
    BY <2>2 DEF Same
  <2>3. CASE op'[p] = Settled(p, "unavailable")
    BY <2>3, SettledTells DEF Tells, Told
  <2>4. CASE At(p, "writing") /\ op'[p] = [op[p] EXCEPT !.pc = "adrift"]
    <3>1. op'[p].pc = "adrift" /\ op'[p].req = op[p].req /\ op'[p].ver = op[p].ver
      BY <2>1, <2>4 DEF Shaped
    <3>2. QED
      BY <1>1, <2>1, <2>4, <3>1 DEF InStep, Wrote0, WriteOut, At, IsReload
  <2>5. QED
    BY <2>2, <2>3, <2>4 DEF Restart
<1>3. QED
  BY <1>1, <1>2, QuietKeepsApart

(* A reload that shows what it read has been answered "ok". *)
LEMMA ReloadsAreKnown ==
    ASSUME QInv, Apart, NEW o \in Ops, ReloadAppend(o)
    PROVE  Apart' \/ Reloaded'
<1>1. At(o, "statted") /\ UNCHANGED <<files, onDisk>> /\ InStep(o)
  BY DEF ReloadAppend, Apart
<1>2. CASE Settle(o, "refused") /\ UNCHANGED proj
  BY <1>1, <1>2, AnswersKeepApart DEF At
<1>3. CASE SettleAndRetire(o, "ok")
  <2>1. op'[o].req = op[o].req /\ op'[o].res = "ok"
    BY <1>3, OthersWhenSettled, SettledTells
  <2>2. op[o].req.kind = "reload"
    BY <1>1 DEF InStep, At, IsReload
  <2>3. QED
    BY <2>1, <2>2 DEF Reloaded, IsReload
<1>4. QED
  BY <1>2, <1>3 DEF ReloadAppend

(* An answer is final. *)
LEMMA SettledStays ==
    ASSUME QInv, [Next]_vars, NEW p \in Ops, op[p].pc = "settled"
    PROVE  op'[p] = op[p]
<1>1. DOMAIN op = Ops /\ AfterRetirement(p) = op[p]
  BY DEF QInv, Shape, AfterRetirement
<1>2. ASSUME NEW o \in Ops, o # p, NEW result,
             Fail(o, result) \/ SettleAndRetire(o, result) \/ Settle(o, result)
      PROVE  op'[p] = op[p]
  BY <1>1, <1>2 DEF Fail, SettleAndRetire, Settle
<1>3. ASSUME NEW o \in Ops, Step(o)  PROVE op'[p] = op[p]
  <2>1. o # p
    BY <1>3 DEF Step, MutationStart, MutationConfirm, Land, WriteConflict, Commit, ReloadStart,
       ReloadConfirm, ReloadStat, ReloadAppend, RunStart, RunConfirm, RunPrepare, RunEnds, Drift, At
  <2>2. CASE \E result : Fail(o, result) \/ SettleAndRetire(o, result) \/ Settle(o, result)
    BY <1>2, <2>1, <2>2
  <2>3. CASE \E c : op' = [op EXCEPT ![o] = c]
    BY <1>1, <2>1, <2>3
  <2>4. QED
    BY <1>3, <2>2, <2>3 DEF Step, MutationStart, MutationConfirm, Land, WriteConflict, Commit,
       ReloadStart, ReloadConfirm, ReloadStat, ReloadAppend, RunStart, RunConfirm, RunPrepare,
       RunEnds, Drift
<1>4. ASSUME NEW o \in Ops, WriteFails(o) \/ Abort(o)  PROVE op'[p] = op[p]
  <2>1. o # p /\ \E result : Fail(o, result) \/ Settle(o, result)
    BY <1>4 DEF WriteFails, Abort
  <2>2. QED
    BY <1>2, <2>1
<1>5. ASSUME NEW o \in Ops, \E r \in Requests, n \in CellIds \cup {0} : Call(o, r, n)
      PROVE  op'[p] = op[p]
  <2>1. o # p /\ \E c : op' = [op EXCEPT ![o] = c]
    BY <1>5 DEF Call, At
  <2>2. QED
    BY <1>1, <2>1
<1>6. ASSUME StartKernel \/ RetireKernel \/ Restart  PROVE op'[p] = op[p]
  BY <1>1, <1>6 DEF StartKernel, RetireKernel, Restart, At, Pending
<1>7. CASE (\E d \in ExternalDocs : ExternalWrite(d)) \/ ExternalUnlink \/ UNCHANGED vars
  BY <1>7 DEF ExternalWrite, ExternalUnlink, vars
<1>8. QED
  BY <1>3, <1>4, <1>5, <1>6, <1>7 DEF Next

LEMMA ReloadedStays == ASSUME QInv, Unanswered, [Next]_vars, Reloaded PROVE Reloaded'
<1>1. PICK o \in Ops : IsReload(o) /\ op[o].res = "ok"
  BY DEF Reloaded
<1>2. op'[o] = op[o]
  BY <1>1, SettledStays DEF Unanswered
<1>3. QED
  BY <1>1, <1>2 DEF Reloaded, IsReload

LEMMA NextKeepsApart ==
    ASSUME TypeOK, QInv, Apart, [Next]_vars
    PROVE  Apart' \/ Reloaded'
<1>1. ASSUME NEW o \in Ops, WriteConflict(o)  PROVE Apart'
  <2>1. op[o].pc = "writing" /\ Fail(o, "conflict") /\ UNCHANGED <<files, onDisk, proj>>
    BY <1>1 DEF WriteConflict, At
  <2>2. QED
    BY <2>1, AnswersKeepApart
<1>2. ASSUME NEW o \in Ops, Drift(o)  PROVE Apart'
  <2>1. op[o].pc = "adrift" /\ Settle(o, "unavailable") /\ UNCHANGED proj
    BY <1>2 DEF Drift, At
  <2>2. CASE Replace(o)
    <3>1. /\ \A p \in Ops : p # o => op'[p] = op[p]
          /\ op'[o].pc = "settled" /\ op'[o].req = op[o].req /\ op'[o].ver = op[o].ver
      <4>1. DOMAIN op = Ops
        BY DEF QInv, Shape
      <4>2. op'[o] = Settled(o, "unavailable") /\ \A p \in Ops : p # o => op'[p] = op[p]
        BY <2>1, <4>1 DEF Settle
      <4>3. QED
        BY <4>2, SettledTells
    <3>2. QED
      BY <2>1, <2>2, <3>1, OthersWritesKeepApart DEF Replace
  <2>3. CASE UNCHANGED <<files, onDisk>>
    BY <2>1, <2>3, AnswersKeepApart
  <2>4. QED
    BY <1>2, <2>2, <2>3 DEF Drift
<1>3. ASSUME NEW o \in Ops, WriteFails(o)  PROVE Apart'
  <2>1. Fail(o, "failed") /\ "failed" \in Told /\ UNCHANGED <<files, onDisk, proj>>
    BY <1>3 DEF WriteFails, Told
  <2>2. QED
    BY <2>1, AnswersKeepApart
<1>4. ASSUME NEW o \in Ops, Abort(o)  PROVE Apart'
  <2>1. /\ op[o].pc \notin {"landed", "settled"} /\ Settle(o, "aborted")
        /\ UNCHANGED <<files, onDisk, proj>>
    BY <1>4 DEF Abort
  <2>2. QED
    BY <2>1, AnswersKeepApart
<1>5. ASSUME NEW o \in Ops, Step(o)  PROVE Apart' \/ Reloaded'
  BY <1>1, <1>2, <1>5, StartsKeepApart, LandingKeepsApart, CommitsKeepApart, ReloadsAreKnown
  DEF Step
<1>6. ASSUME NEW o \in Ops, \E r \in Requests, n \in CellIds \cup {0} : Call(o, r, n)
      PROVE  Apart'
  BY <1>6, StartsKeepApart
<1>7. ASSUME (\E d \in ExternalDocs : ExternalWrite(d)) \/ ExternalUnlink
      PROVE  Apart'
  <2>1. /\ UNCHANGED <<proj, op>>
        /\ \/ (\E d : files' = Append(files, d)) /\ onDisk' = Len(files) + 1
           \/ UNCHANGED files /\ onDisk' = 0
    BY <1>7 DEF ExternalWrite, ExternalUnlink
  <2>2. QED
    BY <2>1, OthersWritesKeepApart
<1>8. CASE UNCHANGED vars
  <2>1. UNCHANGED <<files, onDisk, proj, op>>
    BY <1>8 DEF vars
  <2>2. QED
    BY <2>1, QuietKeepsApart DEF Same
<1>9. CASE Next
  BY <1>3, <1>4, <1>5, <1>6, <1>7, <1>9, KernelsKeepApart, RestartKeepsApart DEF Next
<1>10. QED
  BY <1>8, <1>9

(* When the file holds a write of the service that the projection does not *)
(* show, its caller still waits for the reply or was told that it failed:  *)
(* UnshownWritesAreAccountedFor, with copies, late replies and all faults. *)
THEOREM UnshownWritesAccountedFor == Spec => []UnshownWritesAreAccountedFor
<1>1. Init => Apart \/ Reloaded
  BY ApartAtFirst
<1>2. TypeOK /\ QInv /\ Unanswered /\ (Apart \/ Reloaded) /\ [Next]_vars => (Apart \/ Reloaded)'
  BY NextKeepsApart, ReloadedStays
<1>3. Apart \/ Reloaded => UnshownWritesAreAccountedFor
  BY DEF Apart, Accounted, UnshownWritesAreAccountedFor, Told
<1>4. QInv /\ [Next]_vars => QInv'
  BY NextKeepsQueues
<1>5. Spec => []QInv
  BY <1>4, QInit, PTL DEF Spec
<1>6. Spec => [](Apart \/ Reloaded)
  BY <1>1, <1>2, <1>5, TypeCorrect, UnansweredInvariant, PTL DEF Spec
<1> QED
  BY <1>3, <1>6, PTL
=============================================================================
