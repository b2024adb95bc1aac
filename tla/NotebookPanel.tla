---------------------------- MODULE NotebookPanel ----------------------------
(***************************************************************************)
(* The Notebook panel of the browser (client-ui-notebook, NotebookView and *)
(* NotebookDocumentView), the Remote handlers it calls (notebook-remote)   *)
(* and, behind them, one notebook of the Host as those handlers see it.    *)
(* The panel keeps a copy of the document, which follows the session's     *)
(* events until an answer to a request of its own brings the document and  *)
(* only such answers after that, the drafts of what was typed, a lock per  *)
(* operation, and the sources a "Run all" captured when it was clicked.    *)
(*                                                                         *)
(* One step of the panel is an event handler or the continuation of an     *)
(* answer together with the rendering that follows: the updates a          *)
(* continuation makes are batched into one rendering and its effects.      *)
(* The order of the cells, their outputs and the wording of notices are    *)
(* left out. NotebookDocument models the Host's side in full.              *)
(***************************************************************************)
EXTENDS Naturals, Sequences, SequencesExt

CONSTANTS
  Cells,      \* cell identities, the ones not in use yet included
  Sources,    \* source texts
  Empty,      \* the source of a cell that is inserted
  Paths,      \* names of the one file
  None,
  MaxKeys,    \* bound: values typed
  MaxCalls,   \* bound: requests of the panel
  MaxFaults   \* bound: steps of the agent and of other programs, requests and
              \* answers that fail for no reason of theirs

ASSUME PanelAssumption ==
  /\ Empty \in Sources /\ None \notin Sources
  /\ None \notin Cells /\ None \notin Paths

VARIABLES
  host,   \* the notebook in the Host's session, and its file
  wire,   \* answers on their way to the panel, in the order they were sent
  pane,   \* the panel
  work,   \* history: the last value typed in each cell and whether it is safe
  spent   \* what was used of the bounds

vars == <<host, wire, pane, work, spent>>

Kinds == {"open", "create", "edit", "insert", "delete", "move", "copy", "run",
          "restart", "reload", "interrupt"}
Request == [kind : Kinds, cell : Cells \cup {None}, arg : Sources \cup Paths \cup {None}]

\* What excludes another request while one is in flight: runs, restarts and
\* reloads share one lock.
LockOf(r) == IF r.kind \in {"run", "restart", "reload"} THEN <<"kernel", None>>
             ELSE <<r.kind, r.cell>>
KeyOf(r) == <<r.kind, r.cell>>
Locked(p, lock) == \E r \in p.calls : LockOf(r) = lock

NoDraft == [value |-> None, saved |-> None]
NoDocument == [path |-> None, rev |-> 0, src |-> [c \in Cells |-> None]]
NoWork == [value |-> None, safe |-> TRUE]
Document(h) == [path |-> h.path, rev |-> h.rev, src |-> h.src]

\* The panel starts empty, or with the document its session's events show.
Init ==
  /\ \E present \in SUBSET Cells \ {{}}, path \in Paths \cup {None}, exists \in BOOLEAN :
       /\ path # None => exists
       /\ host = [path |-> path, rev |-> 1, exists |-> exists, outside |-> None,
                  src |-> [c \in Cells |-> IF c \in present THEN Empty ELSE None],
                  run |-> None, cut |-> FALSE]
       /\ pane = [shown |-> IF path = None THEN NoDocument ELSE Document(host),
                  drafts |-> [c \in Cells |-> NoDraft],
                  calls |-> {}, busy |-> {}, out |-> <<>>, pending |-> None,
                  waiting |-> {}, all |-> None, owns |-> FALSE, dropped |-> FALSE]
  /\ wire = <<>>
  /\ work = [c \in Cells |-> NoWork]
  /\ spent = [keys |-> 0, calls |-> 0, faults |-> 0]

-----------------------------------------------------------------------------
(* The panel: requests, drafts and rendering *)

Shows(p, c) == p.shown.src[c] # None
Seen(p, c) == IF p.drafts[c] # NoDraft THEN p.drafts[c].value ELSE p.shown.src[c]

Submit(p, r) ==
  IF Locked(p, LockOf(r)) THEN p
  ELSE [p EXCEPT !.calls = @ \cup {r}, !.busy = @ \cup {KeyOf(r)}, !.out = Append(@, r)]

\* A run waits for the edit of its cell that is in flight; a run of "Run all"
\* that is refused ends it.
RunCell(p, c, source, all) ==
  LET r == [kind |-> "run", cell |-> c, arg |-> source]
  IN  IF Locked(p, <<"edit", c>>)
      THEN [p EXCEPT !.waiting = @ \cup {[cell |-> c, arg |-> source, all |-> all]}]
      ELSE IF all /\ Locked(p, LockOf(r)) THEN [p EXCEPT !.all = None]
      ELSE Submit(p, r)

\* The next cell of "Run all" runs with the source it had when all were asked for.
RunNext(p, c) == RunCell([p EXCEPT !.all.left = @ \ {c}], c, p.all.sources[c], TRUE)

\* The effect after a rendering with a new document: drafts the document has
\* caught up with go.
CaughtUp(p, c) ==
  \/ p.drafts[c].saved = p.shown.src[c]
  \/ /\ p.drafts[c].saved = None
     /\ p.drafts[c].value = p.shown.src[c]
     /\ ~Locked(p, <<"edit", c>>)
Stays(p, c) == Shows(p, c) /\ ~CaughtUp(p, c)
Awaited(p) == p.pending # None /\ p.shown.path # p.pending
Render(p) ==
  [p EXCEPT !.drafts = [c \in Cells |-> IF Stays(p, c) THEN @[c] ELSE NoDraft],
            !.pending = IF Awaited(p) THEN @ ELSE None]

\* Mutant: a document that is shown already is not replaced.
Published_FirstOnly(p, doc) ==
  [p EXCEPT !.shown = IF @ = NoDocument THEN doc ELSE @, !.owns = TRUE, !.dropped = FALSE]
Published(p, doc) == [p EXCEPT !.shown = doc, !.owns = TRUE, !.dropped = FALSE]
\* Mutant: an answer acknowledges whatever was typed meanwhile.
Acknowledges_Anyway(draft, source) == TRUE
Acknowledges(draft, source) == draft.value = source
Acknowledged(p, c, source) ==
  IF p.drafts[c] # NoDraft /\ Acknowledges(p.drafts[c], source)
  THEN [p EXCEPT !.drafts[c].saved = source] ELSE p

\* What was typed is safe when the document shown or the Host has it; it is
\* given up with its cell and by a reload.
Kept(p) ==
  [c \in Cells |->
     IF ~Shows(p, c) THEN NoWork
     ELSE [work[c] EXCEPT !.safe = @ \/ p.shown.src[c] = work[c].value]]

Asks(p) ==
  /\ pane' = p
  /\ spent' = [spent EXCEPT !.calls = @ + Len(p.out) - Len(pane.out)]
  /\ spent.calls + Len(p.out) - Len(pane.out) =< MaxCalls
  /\ UNCHANGED <<host, wire>>

-----------------------------------------------------------------------------
(* What the user does *)

\* An editor is locked while its edit is shown as pending.
Typed(c, value) ==
  IF value = pane.shown.src[c] /\ ~Locked(pane, <<"edit", c>>) THEN NoDraft
  ELSE [value |-> value, saved |-> None]
UserTypes(c, value) ==
  /\ spent.keys < MaxKeys
  /\ Shows(pane, c)
  /\ <<"edit", c>> \notin pane.busy
  /\ value # Seen(pane, c)
  /\ pane' = [pane EXCEPT !.drafts[c] = Typed(c, value)]
  /\ work' = [work EXCEPT ![c] = [value |-> value, safe |-> value = pane.shown.src[c]]]
  /\ spent' = [spent EXCEPT !.keys = @ + 1]
  /\ UNCHANGED <<host, wire>>

UserLeaves(c) ==
  /\ pane.drafts[c] # NoDraft
  /\ LET value == pane.drafts[c].value
     IN  IF value = pane.shown.src[c] /\ ~Locked(pane, <<"edit", c>>)
         THEN Asks([pane EXCEPT !.drafts[c] = NoDraft])
         ELSE Asks(Submit(pane, [kind |-> "edit", cell |-> c, arg |-> value]))
  /\ UNCHANGED work

Running(p) == \E c \in Cells : <<"run", c>> \in p.busy
OperationBusy(p) ==
  Running(p) \/ p.busy \cap {<<k, None>> : k \in {"restart", "reload", "interrupt"}} # {}

\* The keyboard asks for a run whatever is under way; the lock decides.
UserRuns(c) ==
  /\ Shows(pane, c)
  /\ Asks(RunCell(pane, c, Seen(pane, c), FALSE))
  /\ UNCHANGED work

UserRunsAll ==
  /\ ~OperationBusy(pane)
  /\ pane.all = None
  /\ LET codeCells == {c \in Cells : Shows(pane, c)}
         sources == [c \in Cells |-> Seen(pane, c)]
     IN  \E c \in codeCells :
           Asks(RunNext([pane EXCEPT !.all = [left |-> codeCells, sources |-> sources]], c))
  /\ UNCHANGED work

Mutating(c) == \E k \in {"edit", "run", "copy", "move", "delete"} : <<k, c>> \in pane.busy
UserMutates(kind, c) ==
  /\ Shows(pane, c)
  /\ ~Mutating(c)
  /\ kind = "delete" => \E d \in Cells \ {c} : Shows(pane, d)
  /\ Asks(Submit(pane, [kind |-> kind, cell |-> c, arg |-> None]))
  /\ UNCHANGED work

MayAsk(kind) ==
  CASE kind = "insert" -> <<"insert", None>> \notin pane.busy
    [] kind = "interrupt" -> Running(pane) /\ <<"interrupt", None>> \notin pane.busy
    [] OTHER -> ~OperationBusy(pane)
UserAsks(kind) ==
  /\ pane.shown # NoDocument
  /\ MayAsk(kind)
  /\ Asks(Submit(pane, [kind |-> kind, cell |-> None, arg |-> None]))
  /\ UNCHANGED work

\* Opening what is shown already only brings it to the front.
UserSubmits(kind, path) ==
  /\ pane.pending = None
  /\ kind = "open" => pane.shown.path # path
  /\ Asks(Submit([pane EXCEPT !.pending = path],
                 [kind |-> kind, cell |-> None, arg |-> path]))
  /\ UNCHANGED work

-----------------------------------------------------------------------------
(* The Host: requests are served in the order of the document queue, except *)
(* those that do not pass through it                                        *)

Unqueued == {"interrupt", "restart", "open", "create"}
Due(i) == pane.out[i].kind \in Unqueued
          \/ \A j \in 1 .. i - 1 : pane.out[j].kind \in Unqueued

Answer(r, ok, h) ==
  wire' = Append(wire, [request |-> r, ok |-> ok, ended |-> "ok", doc |-> Document(h)])
Refuse(r) == Answer(r, FALSE, host) /\ UNCHANGED <<host, work>>

\* Another program wrote the file since the document was read.
Conflict == host.outside # None
Committed(src) == [host EXCEPT !.rev = @ + 1, !.src = src]
Safe(c, source) == [work EXCEPT ![c].safe = @ \/ work[c].value = source]
Addressed(r) == r.cell # None => host.src[r.cell] # None

\* A file that is open already is answered under the name it has.
Open(r) ==
  IF ~host.exists THEN Refuse(r)
  ELSE /\ host' = [host EXCEPT !.path = IF @ = None THEN r.arg ELSE @]
       /\ Answer(r, TRUE, host')
       /\ UNCHANGED work

Create(r) ==
  IF host.exists THEN Refuse(r)
  ELSE /\ host' = [host EXCEPT !.path = r.arg, !.exists = TRUE]
       /\ Answer(r, TRUE, host')
       /\ UNCHANGED work

Fresh == {c \in Cells : host.src[c] = None}
Mutations(r) ==   \* the sources after a request that changes the document
  CASE r.kind = "edit" -> {[host.src EXCEPT ![r.cell] = r.arg]}
    [] r.kind = "insert" -> {[host.src EXCEPT ![c] = Empty] : c \in Fresh}
    [] r.kind = "delete" -> {[host.src EXCEPT ![r.cell] = None]}
    [] r.kind = "move" -> {host.src}
    [] r.kind = "copy" -> {[host.src EXCEPT ![c] = host.src[r.cell]] : c \in Fresh}
Mutate(r) ==
  IF Conflict \/ ~Addressed(r) \/ Mutations(r) = {} THEN Refuse(r)
  ELSE \E src \in Mutations(r) :
         /\ host' = Committed(src)
         /\ Answer(r, TRUE, host')
         /\ work' = IF r.kind = "edit" THEN Safe(r.cell, r.arg) ELSE work

\* The edit a run begins with; the run itself waits for the kernel.
Run(r) ==
  IF Conflict \/ ~Addressed(r) THEN Refuse(r)
  ELSE /\ host' = [Committed([host.src EXCEPT ![r.cell] = r.arg]) EXCEPT
                     !.run = [request |-> r, base |-> None], !.cut = FALSE]
       /\ work' = Safe(r.cell, r.arg)
       /\ UNCHANGED wire

\* What another program wrote becomes the document.
Reload(r) ==
  /\ host' = [Committed(IF Conflict THEN host.outside ELSE host.src) EXCEPT !.outside = None]
  /\ Answer(r, TRUE, host')
  /\ UNCHANGED work

Restart(r) ==
  /\ host' = [host EXCEPT !.rev = @ + 1]
  /\ Answer(r, TRUE, host')
  /\ UNCHANGED work

Interrupt(r) ==
  /\ host' = [host EXCEPT !.cut = host.run # None]
  /\ Answer(r, TRUE, host)
  /\ UNCHANGED work

Serve(i) ==
  LET r == pane.out[i]
  IN  /\ Due(i)
      /\ pane' = [pane EXCEPT !.out = RemoveAt(@, i)]
      /\ UNCHANGED spent
      /\ CASE r.kind = "open" -> Open(r)
           [] r.kind = "create" -> Create(r)
           [] r.kind = "run" -> Run(r)
           [] r.kind = "reload" -> Reload(r)
           [] r.kind = "restart" -> Restart(r)
           [] r.kind = "interrupt" -> Interrupt(r)
           [] OTHER -> Mutate(r)

\* The run gets its turn on the kernel: whatever was committed since its edit
\* is the code it executes.
RunStarts ==
  /\ host.run # None
  /\ host.run.base = None
  /\ UNCHANGED <<pane, work, spent>>
  /\ IF Conflict \/ host.src[host.run.request.cell] = None
     THEN /\ host' = [host EXCEPT !.run = None]
          /\ Answer(host.run.request, FALSE, host)
     ELSE /\ host' = [host EXCEPT !.run.base = host.rev]
          /\ UNCHANGED wire

\* The outputs are committed if nobody wrote meanwhile; a run that finished is
\* answered with the document as it is now.
RunEnds(ended) ==
  /\ host.run # None
  /\ host.run.base # None
  /\ host.cut => ended = "cancelled"
  /\ ended = "cancelled" => host.cut
  /\ UNCHANGED <<pane, work, spent>>
  /\ IF Conflict \/ host.rev # host.run.base
     THEN /\ host' = [host EXCEPT !.run = None]
          /\ Answer(host.run.request, FALSE, host)
     ELSE /\ host' = [host EXCEPT !.run = None, !.rev = @ + 1]
          /\ wire' = Append(wire, [request |-> host.run.request, ok |-> TRUE,
                                   ended |-> ended, doc |-> Document(host')])

-----------------------------------------------------------------------------
(* The panel: an answer arrives *)

\* The runs that waited for an edit go on in the order they came; one of them
\* gets the kernel.
Resumed(p, c) ==
  LET due == {w \in p.waiting : w.cell = c}
      rest == [p EXCEPT !.waiting = @ \ due]
      dropped == [rest EXCEPT !.all = IF \E w \in due : w.all THEN None ELSE @]
  IN  IF due = {} THEN {p}
      ELSE {RunCell(IF w.all THEN rest ELSE dropped, c, w.arg, w.all) : w \in due}

Settled(r) == [pane EXCEPT !.calls = @ \ {r}, !.busy = @ \ {KeyOf(r)}]

\* A reload drops every draft and forgets which edits and insertions it showed
\* as pending.
Reloaded(p) ==
  [p EXCEPT !.drafts = [c \in Cells |-> NoDraft],
            !.busy = {k \in @ : k[1] \notin {"edit", "run", "insert"}}]

\* "Run all" goes on after a run that ended well.
Continued(p, r, ended) ==
  IF p.all = None \/ r.kind # "run" THEN {p}
  ELSE IF ended # "ok" \/ p.all.left = {} THEN {[p EXCEPT !.all = None]}
  ELSE {RunNext(p, c) : c \in p.all.left}

Succeeds(r, doc, ended) ==
  LET p == Published(Settled(r), doc)
  IN  CASE r.kind = "edit" -> Resumed(Acknowledged(p, r.cell, r.arg), r.cell)
        [] r.kind = "run" -> Continued(Acknowledged(p, r.cell, r.arg), r, ended)
        [] r.kind = "reload" -> {Reloaded(p)}
        [] r.kind = "interrupt" -> {Settled(r)}
        [] OTHER -> {p}

\* Mutant: runs that wait for an edit do not go on when it fails.
Fails_LeavesWaiting(r) ==
  CASE r.kind = "run" -> Continued([Settled(r) EXCEPT !.dropped = TRUE], r, "error")
    [] r.kind \in {"open", "create"} -> {[Settled(r) EXCEPT !.pending = None]}
    [] OTHER -> {Settled(r)}
Fails(r) ==
  CASE r.kind = "edit" -> Resumed(Settled(r), r.cell)
    [] r.kind = "run" -> Continued([Settled(r) EXCEPT !.dropped = TRUE], r, "error")
    [] r.kind \in {"open", "create"} -> {[Settled(r) EXCEPT !.pending = None]}
    [] OTHER -> {Settled(r)}

\* A refusal is thrown, and so is the answer of a run that ended with an error,
\* its document with it.
Thrown(a) == ~a.ok \/ a.ended = "error"

Receive ==
  /\ wire # <<>>
  /\ LET a == Head(wire)
     IN  \E p \in IF Thrown(a) THEN Fails(a.request) ELSE Succeeds(a.request, a.doc, a.ended) :
           /\ pane' = IF Thrown(a) \/ a.request.kind = "interrupt" THEN p ELSE Render(p)
           /\ work' = IF ~Thrown(a) /\ a.request.kind = "reload" THEN [c \in Cells |-> NoWork]
                      ELSE Kept(pane')
           /\ spent' = [spent EXCEPT !.calls = @ + Len(p.out) - Len(pane.out)]
  /\ wire' = Tail(wire)
  /\ UNCHANGED host

\* Until then the session's events renew what is shown.
EventsArrive ==
  /\ ~pane.owns
  /\ host.path # None
  /\ pane.shown # Document(host)
  /\ pane' = Render([pane EXCEPT !.shown = Document(host)])
  /\ work' = Kept(pane')
  /\ UNCHANGED <<host, wire, spent>>

-----------------------------------------------------------------------------
(* Everybody else *)

AgentOpens(path) ==
  /\ host.exists
  /\ host.path = None
  /\ host' = [host EXCEPT !.path = path]

AgentEdits(c, source) ==
  /\ host.path # None
  /\ ~Conflict
  /\ host.src[c] \notin {None, source}
  /\ host' = Committed([host.src EXCEPT ![c] = source])

AgentDeletes(c) ==
  /\ host.path # None
  /\ ~Conflict
  /\ host.src[c] # None
  /\ host' = Committed([host.src EXCEPT ![c] = None])

OthersWrite ==
  /\ host.exists
  /\ ~Conflict
  /\ \E c \in Cells, source \in Sources :
       /\ host.src[c] \notin {None, source}
       /\ host' = [host EXCEPT !.outside = [host.src EXCEPT ![c] = source]]

Others ==
  /\ spent.faults < MaxFaults
  /\ spent' = [spent EXCEPT !.faults = @ + 1]
  /\ UNCHANGED <<wire, pane, work>>
  /\ \/ \E path \in Paths : AgentOpens(path)
     \/ \E c \in Cells, source \in Sources : AgentEdits(c, source)
     \/ \E c \in Cells : AgentDeletes(c)
     \/ OthersWrite

\* A request that fails at the Host for a reason of its own, and an answer
\* that does not arrive: the panel is told that its call failed.
CallFails(i) ==
  /\ spent.faults < MaxFaults
  /\ spent' = [spent EXCEPT !.faults = @ + 1]
  /\ pane' = [pane EXCEPT !.out = RemoveAt(@, i)]
  /\ Answer(pane.out[i], FALSE, host)
  /\ UNCHANGED <<host, work>>
AnswerLost(i) ==
  /\ spent.faults < MaxFaults
  /\ wire[i].ok
  /\ spent' = [spent EXCEPT !.faults = @ + 1]
  /\ wire' = [wire EXCEPT ![i].ok = FALSE]
  /\ UNCHANGED <<host, pane, work>>

User ==
  \/ \E c \in Cells : UserLeaves(c) \/ UserRuns(c)
  \/ \E c \in Cells, value \in Sources : UserTypes(c, value)
  \/ \E c \in Cells, kind \in {"delete", "move", "copy"} : UserMutates(kind, c)
  \/ \E kind \in {"insert", "restart", "reload", "interrupt"} : UserAsks(kind)
  \/ \E kind \in {"open", "create"}, path \in Paths : UserSubmits(kind, path)
  \/ UserRunsAll
Host == \/ \E i \in DOMAIN pane.out : Serve(i)
        \/ RunStarts
        \/ \E ended \in {"ok", "error", "cancelled"} : RunEnds(ended)
Next == \/ User \/ Host \/ Receive \/ EventsArrive \/ Others
        \/ \E i \in DOMAIN pane.out : CallFails(i)
        \/ \E i \in DOMAIN wire : AnswerLost(i)

Spec == Init /\ [][Next]_vars

\* The Host serves what it receives, a run ends (the core's execution timeout
\* sees to it), answers arrive. The user, the agent and failures owe nothing.
FairSpec == Spec /\ WF_vars(\E i \in DOMAIN pane.out : Serve(i))
                 /\ WF_vars(RunStarts)
                 /\ WF_vars(\E ended \in {"ok", "error", "cancelled"} : RunEnds(ended))
                 /\ WF_vars(Receive)

-----------------------------------------------------------------------------
(* Properties *)

Draft == [value : Sources, saved : Sources \cup {None}] \cup {NoDraft}
Doc == [path : Paths \cup {None}, rev : Nat, src : [Cells -> Sources \cup {None}]]

\* The state has its types, no two requests in flight hold one lock, and what is
\* on its way belongs to a request in flight.
TypeOK ==
  /\ pane.shown \in Doc
  /\ pane.drafts \in [Cells -> Draft]
  /\ pane.calls \subseteq Request
  /\ \A r, q \in pane.calls : LockOf(r) = LockOf(q) => r = q
  /\ pane.busy \subseteq {KeyOf(r) : r \in pane.calls}
  /\ \A i \in DOMAIN pane.out : pane.out[i] \in pane.calls
  /\ \A i \in DOMAIN wire : wire[i].request \in pane.calls /\ wire[i].doc \in Doc
  /\ host.rev \in Nat /\ host.src \in [Cells -> Sources \cup {None}]

\* What the user typed last in a cell is in its draft until the Host or the
\* document shown has it: no answer that arrives meanwhile, for whichever
\* request and with whichever document, drops it (the effect on drafts,
\* acknowledgeDraft, commit).
TypedWorkIsKept ==
  /\ TypeOK
  /\ \A c \in Cells : work[c].safe \/ pane.drafts[c].value = work[c].value

\* When everything is answered, nothing failed and nobody else wrote, the cells
\* the user has no draft of are the Host's: every request that changed the
\* document brought it back (publishDocument), except a run that did not end
\* well, whose document the panel throws away with its error.
SettledPanesAgree ==
  (/\ pane.shown # NoDocument
   /\ pane.calls = {} /\ pane.all = None
   /\ spent.faults = 0 /\ ~pane.dropped)
  => \A c \in Cells : pane.drafts[c] = NoDraft => pane.shown.src[c] = host.src[c]

\* Once the user asks for nothing more, every lock is released, no run waits,
\* "Run all" has ended, and the launcher is free again after an open or a
\* creation, unless the Host has the file open under another name than the
\* panel asked for (perform, run, the effect on documents).
PanelSettles ==
  <>[](/\ pane.calls = {} /\ pane.waiting = {} /\ pane.all = None
       /\ pane.pending = None \/ host.path # pane.pending)
=============================================================================
