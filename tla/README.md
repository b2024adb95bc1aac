# TLA+ models of dsh-notebook

dsh-notebook lets an agent session and a browser work on Jupyter notebooks in a
workspace. This directory holds TLA+ models of its concurrent and stateful
parts, TLC configurations that check them on small instances, and TLAPS proofs
about some of them for every instance. Paths below are relative to
`src/packages/`.

## The system

| Component | State | Operations | Modelled in |
|---|---|---|---|
| **Notebook service**, document part (`notebook-core/src/index.ts`, `persistence.ts`, `ipynb.ts`, `fold.ts`) | the `.ipynb` file with its `FsVersion`; the process-local events from which the projection is folded; one promise chain per notebook for document calls, one per kernel for runs; reserved cell ids | `editCell`, `insertCell`, `deleteCell`, `moveCell`, `copyCell`, `reload`, `execute`, disposal | `NotebookDocument` |
| **Notebook service**, openings (`index.ts`) | open notebooks of each session, canonical target -> owner, openings in flight | `open`, `create` | `NotebookOpenings` |
| **Notebook service**, output mutations (`index.ts`, `ipynb.ts`, `fold.ts`) | the mutations collected by a run; outputs in the file and in the projection | append, clear, update of a display, failure output | `OutputMutations` |
| **Notebook service**, kernel records (`index.ts`) | one record per notebook (starting, active, closing, shutdown-failed), its generation, the retirement under way, the shared recovery | `attachEnvironment`, `restart`, `inspect`, recovery in `ensureKernel`, retirement, sandbox policy changes, disposal | `KernelLifecycle` |
| **uv provisioning** (`notebook-environment-uv`) | the store on disk: lock files, staging directories, markers, environments, backups | create or rebuild an environment; `catalog`, install uv, install Python, resolve a launch | `EnvironmentProvisioning`; the others in one step each in `EnvironmentCard` |
| **Environment seam** (`notebook-environment`) | the registered provider | forwards to it | `EnvironmentCard` |
| **Jupyter backend** (`notebook-kernel-jupyter/src`) | the supervisor process, pending requests by id, the line buffer | start, execute, inspect, shutdown; timeouts and aborts | `SupervisorConnection` |
| **Supervisor** (`notebook-kernel-jupyter/supervisor`) | the kernel client, the message it waits for, the outputs collected | matches the shell reply and the idle message of each request, interrupts | `SupervisorConnection` |
| **Workspace discovery** (`notebook-core/src/discovery.ts`) | none: each page walks the workspace again, up to where the last one ended | pages of the workspace's notebooks | `WorkspaceDiscovery` |
| **Output admission** (`notebook-core/src/output-admission.ts`) | none of its own; the images it saves | checks all images of an execution or of a document, then saves them | `NotebookImages` |
| **Remote service** (`notebook-remote`) | the session a call is for, live or stored | browser calls mapped to service calls | `NotebookPanel`, `EnvironmentCard`; discovery in `WorkspaceDiscovery`, attachments in `NotebookImages` |
| **Client snapshot builder** (`client-ui-notebook/src/client/notebook-snapshot-builder.ts`) | the browser's own fold of the events | upserts in any order, rebuild | `NotebookViews` |
| **User interface** (`client-ui-notebook/src/client`) | document, drafts, locks, waiting runs, "Run all", the flow of the environment card, the launcher's list, one loading per image element | editing, running, opening, environment operations, listing, showing images | `NotebookPanel`, `EnvironmentCard`, `WorkspaceDiscovery` (launcher), `NotebookImages` (image element) |
| **Model tools**, **bundle**, **build scripts** | none kept between calls | | not modelled |

Tools and remote calls reach the notebook service in any order and number; the
service reads and writes the file through the file system service, starts and
uses kernels through a registered backend, and appends events to a process-local
log. The browser folds the same events again and also adopts the document that
comes with the answers to its own requests. Another program, or another session,
may write or remove the file at any moment. The environment provider works on a
workspace that other processes share.

### What is hard, and what makes each part correct

* **Document.** Document calls and runs wait in *different* queues, so a run and
  an edit interleave at every `await`; the file is statted, read, statted again
  and only later written, and the events are appended after the write was
  answered. Correct means: the projection is exactly the file revision it names;
  no write destroys content the session was not shown; runs are serialized even
  across kernels; outputs land beside the source that ran; the projection never
  goes back; queued calls cannot deadlock each other.
* **Openings.** Calls by different names for one file look for an owner while
  other openings complete. Correct means one notebook per file, one winner among
  creations, fresh content for every caller, an answer for every caller.
* **Output mutations.** One list is interpreted twice, by different code.
  Correct means both give the outputs the list describes, a failed run shows its
  error, and the limit holds.
* **Kernel records.** Retirement, start, replacement and policy changes overlap.
  Correct means a live kernel that is usable, no process leaked, generations that
  are kernels, runs that do not overlap, and an answer for every call although
  the provider may never give one.
* **Provisioning.** Crashes between renames and recovery of stale locks by
  several processes. Correct means mutual exclusion, and an environment that is
  complete wherever it is visible and is never lost.
* **Connection and supervisor.** Late replies, two channels in either order,
  one timeout that ends everything. Correct means each request gets its own
  result, and a call that throws has seen its process stop.
* **Discovery.** A list is put together from several walks of a disk that
  changes, by a launcher that refreshes it and hides it meanwhile. Correct means
  one list in order, with every notebook that was there all along, or the note
  that it is partial; once, while the disk is at rest; and late pages of an
  earlier list do not count.
* **Images.** An admission of several images can fail or be cancelled between any
  two of them. Correct means: nothing of a bad batch is stored, no document refers
  to an image the store does not have, an element never shows the late image of
  another output, and no object URL is left open.
* **Browser.** Two sources for one document, drafts typed while answers are on
  their way, operations that overtake each other. Correct means: what was typed
  is kept, the panel ends up with the host's document, every lock is released,
  and the incremental fold equals the fold in order.

`PROJECT.json` lists the single hazards with their lines.

## Modules

| Module | What it is |
|---|---|
| `NotebookDocument` | one open notebook: file, projection, calls, queues, kernel as runs see it, other programs, faults, restart |
| `RevisionedDocument` | what a session promises of a file that anybody may write; `NotebookDocument` implements it |
| `NotebookDocumentProofs` | proofs about it in three parts: agreement, no lost updates and the refinement; what documents contain; runs are serialized, and when the file may be ahead |
| `NotebookOpenings`, `NotebookOpeningsProofs` | `open` and `create` of several paths of one session; one winner, one notebook per file, fresh content |
| `OutputMutations` | runs that emit mutations, and the two interpreters |
| `KernelLifecycle`, `KernelLifecycleProofs` | the kernels of one notebook: starts, recoveries, replacements, retirements, policy, disposal; all its safety properties and the refinement are proved |
| `KernelGenerations` | what a notebook promises of its kernels; `KernelLifecycle` implements it |
| `EnvironmentProvisioning`, `EnvironmentProvisioningProofs` | managers of several processes that provision one workspace; they exclude each other; no environment is lost, the user's is left alone, staging is put away |
| `SupervisorConnection`, `SupervisorConnectionProofs` | one kernel handle: event loop, JSON-RPC connection, supervisor loop, kernel channels |
| `NotebookViews` | the host's fold and the browser's builder over one log |
| `NotebookFoldsProofs` | proofs about what the folds of these two compute, for lists and logs of any length: all properties of both |
| `NotebookPanel`, `NotebookPanelProofs` | the panel of one notebook with the remote handlers and a host behind them; typed work is kept, settled panels agree |
| `EnvironmentCard` | the environment card, its remote handlers, uv, Python and the environment |
| `WorkspaceDiscovery` | the walks of discovery over a disk that changes, and the launcher that asks for pages |
| `NotebookImages` | images: admission, the Remote's answer to a read, the image element |
| `PanelParts`, `PanelPartsProofs` | images, launcher and environment card beside each other, and proofs about them: documents stay whole and the element follows its output (`NotebookImages`); the list is always one walk (`WorkspaceDiscovery`); the card tells the truth and reads use the resident session (`EnvironmentCard`) |
| `MC*` | constants of the instances TLC checks |

Modules compose at these seams: `KernelLifecycle` says what `NotebookDocument`'s
Boolean `kernel` and `KernelWorkJoined` stand for and takes a run's document work
as one step; `SupervisorConnection` is one of its kernels; `NotebookPanel` has a
host that `NotebookDocument` models in full; `EnvironmentCard` takes `provision`
as one step that `EnvironmentProvisioning` takes apart; `NotebookViews` reads the
log that `NotebookDocument`'s events come from; `NotebookImages` takes apart the
admission that is the step from `ended` to `admitting` of a run, or `admitting` of a
reload, in `NotebookDocument`.

An operator named `X_` and a word is `X` with a plausible mistake. Nothing uses
these: they are put in the place of `X` to see that a property notices it.

### NotebookDocument

`files` is every content the file has had; a revision (the `FsVersion`) is its
index, `onDisk` the current one or 0. `proj` is the projection with its
`fileVersion`. `op` holds the calls; `pc` is the await at which a call stands:

| `pc` | the call | what ends it |
|---|---|---|
| `waiting` | a run without a kernel, in `ensureKernel` | `StartKernel` |
| `queued` | in its promise chain | `MutationStart`, `RunStart`, `ReloadStart` |
| `reading` | in `prepareIpynbFile` | `MutationConfirm`, `RunConfirm`, `ReloadConfirm` |
| `running` | the kernel executes | `RunEnds` |
| `ended` | outputs are being admitted | `RunPrepare` |
| `admitting`, `statted` | a reload admits attachments, stats once more | `ReloadStat`, `ReloadAppend` |
| `writing` | the compare-and-swap write is submitted | `Land`, `WriteConflict`, `WriteFails` |
| `landed` | the write took effect, its reply is on its way | `Commit`, `WriteFails` |
| `adrift` | the write of a disposed service is still out | `Drift` |

Everything between two awaits is one action, because JavaScript runs it without
interruption. The file is fenced three times in the code (stat, read, stat; stat
before the write; the write itself). What the read returns can only be used when
the fences agree, so reading is one step, at the *last* stat of the read, and
writing is one step in which the compare-and-swap decides.

A promise chain is the set `ahead` of the calls that had not settled when the
call joined: `enqueue` awaits its predecessor whatever its outcome. Each kernel
has a chain of its own, so a run whose write is still out when its kernel is
retired is in nobody's chain any more; the join before the next start is what
keeps the next run behind it. That join is `KernelWorkJoined`; it is faithful as
long as no `restart` or `attachEnvironment` replaces a kernel that is alive,
which `KernelLifecycle` takes up.

The event a call builds from the projection (`EventOf`, then `Fold`) and the
document it writes to the file (`Rewrite`) are separate, as in the code
(`fold.ts` against `ipynb.ts`). That the two agree is the heart of the model,
and not an assumption of it.

Cancellation (`Abort`) rejects a call that waits or reads. The kernel record is
a Boolean, true while the record is active: `SettleAndRetire` and `RetireKernel`
reject what is bound to it. Cell contents are opaque; MIME bundles, attachments,
metadata and execution counts are part of an output; kernel names and
environments are left out.

`PromptReplies` is a parameter about the file system service. If TRUE, no call
reaches the file system while the answer to an earlier one, which decides what
the projection shows next, is on its way: replies arrive in the order of the
effects. The file system service is a dependency of the repository and its
interface does not promise it. With FALSE every reordering of replies is
possible, and `ProjectionIsItsRevision` fails: a run's write lands, another
program writes, a reload reads that and is answered first; the event of the run
then meets a projection it was not built for and puts it back. What is left then
is checked by `document_late_replies` and proved by `RunsSerialized`,
`DocumentsWellFormed`, `InsertsInPlace` and `UnshownWritesAccountedFor`.

A call keeps in `ver`, as history, the revision it wrote when it has been answered;
`UnshownWritesAreAccountedFor` compares it with the file and the answer. A reload
that succeeded ends that promise: with late replies it can put the projection
back, or let the event of a run do so.

### NotebookOpenings

A call is answered after: reading the file (`Observe`), looking for the owner of
its canonical target (`Look`; `Walk` resolves one open notebook per step, since
each resolution is an await over a snapshot of the table), joining or starting an
opening (`JoinOrStart`, one step: no await lies between the check and the
registration), and, when a notebook owns the file already, reading it again for
that notebook (`Answer`). An opening is created, confirmed and published
independently of the callers, which may leave. `Restart` loses `owners` and
`opening` and keeps the notebooks, which live in the process's events.

An open notebook itself only follows its file (`Follow`) or is reloaded
(`Accept`). `removed` is a history variable: a file that was removed is free to
be created again, and then to belong to another notebook.

### OutputMutations

`FileStep`/`Rewritten` translate `replaceIpynbCellExecution`, `FoldStep`/`Folded`
the event fold, `WithFailure` the failure output that a failed run gets.
`FileStates` and `FoldStates` are the states of the two loops, one for each prefix
of the list. `Stays` and `Latest` say without executing anything which outputs should
be there and with which datum, and `AreVisible` that a cell has them in their order.
Both interpreters let an update of a display carry out a clear that waits,
and so does the declarative reading; the comment at
`notebook-core/src/output-types.ts:134` speaks of the next append only.

### KernelLifecycle

A call that needs a kernel either uses `live`, joins the retirement in
`retiring`, or shares the start in `recovery`; `call[c].pc` is the await at which
it stands. `attempt[c]` is the start a call made and goes on by itself when its
callers give up: a start that timed out still owns the handle that arrives
(`Late`), a start whose policy is no longer the current one is closed again, and
a start that is published replaces the kernel it names as `prior`. `kernel[k]` is
the process and the record of one kernel, `queue[k]` its tasks. `retiring` is the
*one* slot `kernelRetirements` has per notebook.

A change of policy, a reload, a disposal of the session or the backend are the
actions of `Outside`. The policy handler runs synchronously with the change.
Promise continuations that run without awaiting anything else are one step;
`JoinedCallsWentOn` says that those of a join run before a later start of the
provider is answered. A kernel whose shutdown fails leaves a join
that rejects for good: every later start of the notebook then fails
(`"unjoined"`); this is what the code does, and such calls settle.
`RunsDoNotOverlap` allows two runs on two kernels only where a `restart` or an
`attachEnvironment` has begun to start a kernel of its own (`StartsBeside`): such a
start does not wait for the recovery beside it, and the kernel that it replaces
takes the slot `retiring`, so that a second retirement is not waited for (see the
observations below). Never are two runs on one kernel. The runtime status (568-596), the `kernelFailures` flag and the disposal of
the whole service (2266-2293) are left out.

### EnvironmentProvisioning

A directory is known by who made it; `dir[d]` is its place (`.venv`, staging,
backup, residue), whether an environment in it would be found ready, and its
ownership sidecar. An operation's `pc` is the system call that comes next;
a crash (`Crash`) kills a manager between any two and leaves its lock, its marker and
its directories. `lock` distinguishes a lock file that was created and not yet
written, which nobody may remove. `ExamineLock`, `VerifyLock` and `UnlinkLock` are the
recovery of a stale lock (read it, read it again, unlink it by name); `Survey`,
`RecoverStaging` and `RecoverBackups` are what a call does about the staging
directories and backups of earlier ones. That a staging directory is renamed to a
residue and that its marker is unlinked are one step: a crash between the two leaves
a marker without a directory, which the next recovery removes and nothing else reads.

### SupervisorConnection

`micro` is the queue of continuations of the Node process; events (a line, a
timer, an abort, the exit of the process) are taken when it is empty. `sup` is
where the supervisor's loop stands, `iopub` and `shell` the two channels of the
kernel, which deliver in order each and in any order together. `kernel` runs
beside it, may ignore an interrupt or never end. Before it answers a run the
supervisor waits for the kernel's idle message and its reply, after an interrupt
too (`CollectInterrupted`, `CollectLast`), or it gives the kernel up
(`GivesUp`), which ends the process.

### NotebookViews

`Lawful` and `HostApply` are the host (`foldNotebooks`), which rejects what does not
fit; `folded` is its fold of the whole log, `HostStates` those of the prefixes.
`Record` appends one event that the fold accepts, since `preflight` folds what is
about to be appended, and none into the middle of a run of its notebook
(`InItsRun`), since the events of a run are pushed together (`executionSpecs`,
`appendSpecs`). `Apply` hands the builder a batch of events, some again, some late; the
builder either goes on from where it is or rebuilds (`ViewStates`). `Replace` gives
it a tail of the log. What an event carries is named by its place in the log, so
that two events never look alike. `ViewsAssumption` asks of the logs TLC starts from
that they could have been recorded (`Foldable`).

### NotebookPanel

The panel shows what the session's events say until an answer of its own brings a
document, and from then on what its own requests bring back (`EventsArrive`). `calls` are its requests,
with a lock each; `drafts` what was typed; `waiting` the runs behind an edit;
`all` the sources "Run all" captured. One step is a handler or a continuation
with the rendering that follows, because React batches the updates of a
continuation. Answers arrive in the order they were sent. A kernel is attached.
`work` is a history variable: what the user typed last in each cell, and whether
it has reached the host or the screen.

### EnvironmentCard

An operation aborts the one before it, and the host may finish that one all the
same. `session` is where the host has the session while the remote handlers look
for it (resident, stored, or a subagent's), which changes at their awaits. The
policy permits what the user asks; the manager is missing or ready; each host
operation is one step at the end of its stage.

### WorkspaceDiscovery

`disk` is a set of directory entries, so that a file or a directory may have
several names; `requests[i].walk` is a walk of the host with its stack of
directories (`Frame`), which awaits the listing of each (`List`) and then goes
through it (`Scan`, one entry per step; nobody else moves between two scans,
since there is no await). A walk counts entries, remembers the canonical
directories and files it has seen, passes over everything up to the path the last
page ended with (`passed`), and stops one notebook after the page is full.
`Outdated` is the epoch of `requestDiscovery`, `Shown` what the launcher makes of
a page. `past` is history, for the properties: the entries that have been there
since the listing began (`steady`), all that were there meanwhile (`was`), and
those that came (`appeared`). A path is the sequence of its names, and the
entries of a directory are visited in the order of theirs (a name is a natural
number; JavaScript's order of strings is total as well).

`ListIsOneWalk` promises order whatever happens, and the rest with two exceptions
the code has. A list that ends and is not partial has every notebook that was
there all along, except one for which another way has come since the listing
began (`Renamed`): a later page can meet it on that way before the continuation.
And each notebook is listed once while the disk is at rest, unless the
list is partial: a directory that could be read for one page and not for the next
lets a notebook in it come again under another name.

### NotebookImages

`work` is the admission under way: it collects (`Collect`), validates every image
(`Validate`), then saves them (`Save`), each an await in which it can be cancelled or
the store can fail; `Commit` stands for the rest of the run or reload, in which the
result may still be too large or the file changed. `batches` and the batch of a
saved image are history. `Render`, `Retry` and `Deliver` are the effect of the
image element, its cleanup and its continuation; `Find` and `Read` are
`readAttachment`: the reference is looked up in the open document before the store
is read.

## Runs

| Run | Instance | Question | Distinct states |
|---|---|---|---|
| `document` | 2 calls of any kind but copy, 2 cells; other programs' writes and removals, cancellation, lost writes and replies, kernels that die, one restart; fair | is what is shown a revision of the file, is no update lost, are runs serialized, do outputs stay with their source, is every call answered; implements `RevisionedDocument` | 260,184 |
| `document_late_replies` | 3 calls of every kind, copies and positions that do not exist included, either cell deleted, replies in any order; two documents of other programs, lost writes and replies, kernels that die, one restart | are documents well formed and never empty, insertions in place, and is a write that is not shown awaiting its reply or told as failed | 1,757,151 |
| `openings` | 2 calls, one file with two names; writers, removals, cancellation, lost replies, a restart; fair | one notebook per file, one winner, fresh content, an answer for every caller | 364,170 |
| `outputs_of_any_kernel` | every list of up to 3 mutations, 2 runs in 2 cells | are the outputs what the list says, in the projection and in the file | 208,023 |
| `kernels` | 2 calls of any kind, 2 policies, one event from outside, every fault; fair | is the live kernel usable, nothing leaked, runs one after the other, an answer for every call; implements `KernelGenerations` | 377,581 |
| `provisioning` | 3 calls of 2 managers, crashes, failing commands, a user | exclusion, survival of the environment, the user's directory, no staging left | 1,536,080 |
| `supervisor` | 2 runs, a start, a shutdown, outputs up to 1 and the limit, every fault; fair | own results, runs over when answered, processes stopped when calls throw | 454,921 |
| `snapshots` | logs of four beginnings and 2 new events, two notebooks, batches up to 2 | does the builder show what a fold in order shows, and the host's documents | 47,901 |
| `panel` | 2 cells, one value typed, 2 requests, one fault or foreign step; fair | typed work is kept, settled panels agree with the host, every lock is released | 449,998 |
| `panel_parts` | three parts that share nothing, each moving while the others rest; fair. *Images*: 7 lists of outputs, 2 admissions, limits 1 and 2, 3 loadings. *Launcher*: two disks (a cycle; a directory that is too deep under one of its names), pages of one, 3 requests or changes. *Card*: 3 operations, one fault or foreign step, every state of uv, Python and environment | are documents whole, does the element show its own output, is the list one walk, does the card tell the truth, do reads use the resident session, does each settle | 596,019 |
| `aliases_coalesce` | 2 opens by two names beside another notebook | *fails*: two notebooks for one file | |
| `stale_locks` | 3 managers of one call each, crashes | *fails*: the lock of a live manager is removed | |

**Bounds.** The properties of the document relate at most two calls and one
writer that is not the service; with late replies there are three calls, a
reload and two others. Two
cells are enough for a run and an edit to meet or to miss each other, for moves,
and for the last cell to be deleted: two deletions that were each called while
there were two cells, of which the second must be refused when its turn comes, also
on a document that a reload brought in. Six ids are more than calls and other
programs can use up; one of the other programs' documents has `cell-3`, which the
service then mints as well. `MaxRevisions` and `MaxVersion` stop only other programs.
`MaxRestarts` 1: nothing counts restarts. Three mutations are the shortest lists
in which a clear lies between an output and the next thing. In `kernels`, two
calls and the kernel that may be there at the start are three kernels: one given
up, one replacing it, one after; `MaxEvents` bounds changes of policy, reloads
and disposals. In `provisioning`, one manager may crash and leave everything it
can leave to two calls of the other; only one of two managers can find the
other's lock stale. `supervisor`: a second run is what
can be taken for the first, `MaxOutput` 1 makes the second output the one over
the limit. `snapshots` starts from logs that hold a run, a pending clear or a
kernel already, so that two new events reach the ends of them. `panel` and
`panel_parts` count what users and others do with `MaxKeys`, `MaxCalls`,
`MaxOps`, `MaxFaults`, `MaxEvents`, `MaxAdmissions`, `MaxEffects`; hosts and answers
are not counted. In `panel_parts`, three requests or changes are a page, a change
and the next page, or a page overtaken by a refresh; with one notebook per page
every seam is met, and with `MaxDepth` 1 and `MaxEntries` 6 both limits. Two
admissions and three loadings are an image, one that replaces it, and a retry of
either. The three parts are in one run because none reads what another
writes: interleaving them would multiply their states and show nothing. `CHECK_DEADLOCK` is off
everywhere: the system may stop when every slot for a call has been used.

**Symmetry** is used on the slots for calls of `document_late_replies` and
`aliases_coalesce`, which check no liveness; no definition chooses among slots.

**Fairness** is weak and of the program only. Document and openings: each call's
own steps and the start of a kernel; every await of the service is bounded by a
deadline (`shutdownTimeoutMs`, the start, execution and inspection deadlines, the
file system's own) and an event loop serves every settled promise. `kernels`:
continuations and deadlines, and nothing of the provider, which may never answer.
`supervisor`: Node's continuations, its timers and the end of a process tree that
is being killed; nothing of the supervisor and the kernel. `panel` and
`panel_parts`: the host serves what it received and answers arrive; a run
ends because the core's execution timeout ends it, and each environment operation
has a deadline in `runOperation`; the file system answers a walk, which visits
each directory once and is bounded by `MaxEntries`; the element renders and its
reads are answered. Nothing is assumed of users, agents, other
programs, cancellations or restarts.

## Proofs

The assumptions are those on the constants (`ConstantsAssumption`,
`OpeningsAssumption`, `OutputsAssumption`, `LifecycleAssumption`,
`ProvisioningAssumption`, `ConnectionAssumption`, `PanelAssumption`,
`ImagesAssumption`, `DiscoveryAssumption`, `ViewsAssumption`), which every run of the module evaluates,
and the premises named here.

**`NotebookDocumentProofs`**, in its Part I, holds for any number of calls, cells, ids,
revisions, contents, faults and restarts, under two `Premises` (replies are
prompt, nobody copies a cell): `ProjectionAgrees`
(`ProjectionIsItsRevision`), `ProjectionAdvances`, `NoLostUpdates`
(`ReplacesOnlyWhatIsShown`) and `Refinement` (`ImplementsRevisionedDocument`).
Both premises are needed for agreement: the model violates
`ProjectionIsItsRevision` without either of them.

`ProjectionIsItsRevision` is not inductive. A commit folds the event into the
projection and names the revision the write made, so one must know, of a call
that is `landed`, that (1) what it wrote is what its event folds to on the
revision it started from, and (2) the projection still *is* that revision.
`IInv` (theorem `InductiveInvariant`) carries this through the life of a call
(`CallInv`): from `reading` on the call's `base` is not newer than the
projection; its event was built from revision `base`; what it writes is the fold
of its event over revision `base`; while `landed` the projection stands at
`base`, and while `statted` it is not ahead of what was read. (2) survives
because at most one call is `landed` or `statted` (`RepliesAlone`), which is what
prompt replies give: the compare-and-swap admits a write only at `base`, and
`base` is at most the projection's revision, which is at most the file's.

The lemmas beneath say that rewriting the parsed file and folding the event give
the same cells, one for each kind of call, and what an insertion, a removal and a
replacement do to a sequence. `NoLostUpdates` follows from the fence (`onDisk =
base`), `CallInv` and `ProjectionIsItsRevision`; the refinement maps each write
to `Publish`, each commit and reload to `Adopt`.

*Part II* needs no premise for what it says of types and documents: copies, late
replies and every fault are included. `DocInv` says that every revision and the
projection are documents, and of one call (`CallDoc`) that it has reserved an id
if it inserts, that it compares the file with a revision the file has had, and
that what it has read and what it has submitted are documents, of a run with an
event of the cell it was asked to run. It gives `TypeCorrect` and
`DocumentsWellFormed`. Both are inductive only together: that the fold is typed
rests on where the cell stands, and that a rewritten file keeps its ids apart
rests on the check of the id in the file, not on the projection, which late
replies may leave behind. `OutputsStayWithTheirSource` adds `IInv` and has its
premises, since a reply that comes late can put outputs beside an edited source.

*Part III* proves `RunsSerialized` and `InsertsInPlace` with no premise at all:
late replies, copies and every fault included. `QInv` says that of two document
calls, or two runs on one kernel, one has joined the chain behind the other
(`Chained`), and that
without a kernel every run waits for one or is cut off from its own, while with a
kernel nothing of an earlier one is under way (`Bound`). A chain alone does not
suffice, because it ends with its kernel. `InsertsInPlace`
(`InsertsFollowTheirAnchor`) is not a matter of the call alone: its position was
computed when its turn came, and the cells it refers to must still be there when
it commits. `Placed` says so of every insertion under way; the other document
calls wait for it (`OneDocumentCall`), and a run that commits meanwhile leaves
every id where it is (`OutputKeepsPlaces`). On top of the same invariant,
`UnshownWritesAccountedFor` (`UnshownWritesAreAccountedFor`) needs no premise either.
Its invariant is `Apart`, until a reload has succeeded (`Reloaded`, which stays so,
as answers are final: `SettledStays`). `Apart` is weaker than `IInv`, which needs
prompt replies: what a call started on is not newer than the projection; an
accepted event fits as long as the projection has not moved on, so that no write
that landed is refused by the fold; no two calls have written one revision; and
at most one write has landed unanswered, because the second would have to replace
what the first wrote, and so to have started on a projection that is not there yet.

**`NotebookOpeningsProofs`** holds for any number of calls, paths, targets, open
notebooks and restarts. Its `OpeningsInv` gives `CreationIsWonOnce`
(`CreateWinsOnce`) with no premise: it is the file that arbitrates, not the
tables of owners and openings, which a restart forgets. A creation has won, or is
about to, only where a write over nothing took effect, and from then on the file is
there until somebody removes it. `AliasesCoalesce` (`OneNotebookPerTarget`) has the
premise `OneFile`: with a second file open the run `aliases_coalesce` refutes it.
`OpenIsFresh` (`OpenShowsFreshContent`) has the premise `PromptReplies`: what is
read during a call is not older than the call, a confirmed opening that a call
waits for is not older than that call either, and an owner answers with what it read for
the call.

**`NotebookPanelProofs`** holds for any cells, values, names of the file, requests
and faults, without premises. `PanelInv` says of a cell that what is shown already
is safe, and that a draft is acknowledged only with the value it has now
(`WorkSound`); that a request in flight is at one place only, on its way, at the
host, at the kernel or on its way back (`Placed`), so that a lock is released by the
answer it belongs to; and that no two requests have one lock (`PaneSound`). This gives
`TypedWorkStays` (`TypedWorkIsKept`): a rendering drops a draft only when the document has caught up
with it. `PanesAgree` (`SettledPanesAgree`) adds `AgreeInv`: while nothing has
failed and nobody else has written, either the panel shows the host's document, or the last answer on its
way that matters brings that document or throws the result of a run away
(`LastWord`), and while a run is at the host its answer is still to come.

**`NotebookFoldsProofs`** holds for lists of mutations and logs of any length and is
without premises. The folds are recursive functions on the prefixes of their input.
The library's induction rules take an operator as a parameter and cannot be
used; instead, the set of the prefixes for which a claim holds is shown to
contain 0 and the successor of each of its members, and is then all of `Nat`
(`SetInduction`, from the least member of the rest).

Of the outputs it proves `FailuresAreShown` (`FailedRunsShowAnError`) and
`OutputsAreAsSaid` (`OutputsAreWhatTheMutationsSay`). The declarative reading looks
*behind* an output, at the clears and updates to come, and the loops go forward, so
the induction is about a prefix: `StaysBy` and `LatestBy` are `Stays` and `Latest` of
the first n mutations, in which a clear that waits does not count yet. One more
mutation either leaves the outputs that stay and adds its own at the end, or
carries out a clear, which leaves none, or renews the data of one display. That
the interpreters agree is an invariant of both loops: before the end
the cell has what the rewrite has, and the pending clears are the same.
A run that fails adds its failure to the list before both interpret it; the file
adds one more if none is left.

Of the readers it proves `BatchesNeverMatter` (`BatchesDoNotMatter`) and
`ShownDocumentsStayTrue` (`ShownDocumentsAreTrue`). `ReadersInv` says that the log is
lawful, that `folded` is its fold, and that the builder's state is the fold, from
nothing, of the events it has. A batch behind everything it has
folded keeps this, because folding two sets of places one after
the other is folding their union when the first ends before the second begins;
every other batch rebuilds. The second theorem is a simulation: along a tail of the
log, `Tracks(v, h, k)` says that the builder's documents `v` are the host's `h` but for the
first `k`, with the same runs under way, and that it has said `incomplete` only
if `k` is not 0. Each kind of event keeps it (`OpenStep`, `CellAlike`,
`ExecuteAlike`, `OutputAlike`, `EndAlike`, `KernelAlike`, `ReloadAlike`), and an event of a
document it does not have changes nothing but `incomplete` (`UnknownStep`). What
makes it work is the host's: a fold of a lawful log has each
document once, each cell once, and in a cell that runs the outputs of its run
(`HostSound`). For a whole log `k` is 0.

**`EnvironmentProvisioningProofs`** proves `ProvisioningExcludes`
(`ProvisioningIsExclusive`) for any number of calls, under the premise that there
are at most two managers (`TwoManagers`); `stale_locks` shows that it fails with
three. `PInv` has three parts. `Typed`. `OnePlace`: one directory is at `.venv`,
because every step clears it or fills it while it is vacant (`WorksKeepOnePlace`).
`LockInv`: a manager that lives makes one call at a time, a call that works has
the lock, and a call that removes a lock has found its owner dead. The lock alone
does not exclude anybody, since others remove it by name; the argument is that
whoever removes it is the only one left (`RecoversAlone`).

Its second half proves the other three properties of provisioning
on top of `PInv` and with its premise: `EnvironmentIsNotLost`
(`EnvironmentSurvives`), `UserDirectoryStays` (`UserDirectoryIsLeftAlone`) and
`SuccessCleansUp` (`SuccessLeavesNoStaging`). `EnvironmentSurvives` is not
inductive: it says what is there while `.venv` is vacant, and a displacement
makes it vacant. `DirInv` adds `WorkInv`, what the call that has the lock has made
sure of and nobody can undo since it is alone: it has surveyed every backup
(`recovering`), so that past recovery no owned backup stands beside an owned
environment (`Settling`), which makes the backup a displacement creates the only
one. `BuildInv` follows what a call builds (nowhere, verified, marked, placed) and
`UserInv` who allowed a claim. A step either leaves `.venv` and the backups where
they are (`RestsStill`) or moves one directory in one of four ways
(`Relocations`). `StagingInv` says that every staging directory has its marker
and that a call past recovery finds no marker but its own.

**`KernelLifecycleProofs`** holds for any number of calls, policies and events, and
every set of faults. `Sound` says what is known of a kernel from how far the call
has come that starts it: before its handle has arrived it has no record
(`AttemptSound`); an active one is up, and is live or about to be published
(`KernelSound`); the live one is published, not retired and of the policy of now
(`LiveSound`, `CurrentPolicy`); a call that waits in a queue is in it, and the one
that has its turn is in front (`CallSound`). This gives `LifecycleTypes`,
`LiveKernels` (`LiveKernelIsUsable`) and, with the phases of session and backend,
`NoKernelLeaks` (`KernelsAreAccountedFor`). `Refinement` (`GenerationsAreKernels`)
splits the steps in two: one that publishes nothing is `Steady` (nothing that was
out of use serves again, and what leaves `live` is retired), and one that publishes
is a `Publish` of the abstract specification, where `past` is every published kernel
but the live one. `RunsApart` (`RunsDoNotOverlap`) is the hard one: two runs on
different kernels need two kernels in use, and that only one is in use is kept by the slot
`retiring`. `Orderly` adds to `Sound` that one kernel is in use at most (or
`StartsBeside`), that a run which goes on has its kernel in use (`TurnSound`), and
that the slot names the kernel that is closing, while calls joined to it have not
gone on (`Slot`); a recovery then begins only when no kernel is in use, and nothing
can come into use before it publishes.

**`SupervisorConnectionProofs`** holds for any number of runs, any outputs and every set
of faults. The inductive invariant has three layers. `Table`: a request that was made is pending
or has its answer among the continuations, and a retirement runs behind the
rejections of the runs it aborts; this gives `ThrownCalls`
(`ThrownCallsAreJoined`) and `UncutShutdown` (`RunsDoNotCutTheShutdown`). `Service`:
a request is in the inbox, at hand, or done with; of what the kernel printed for
the request at hand, the ledger is a beginning and the channel holds exactly the
rest, behind messages of earlier ones (`LedgerInv`). `Answers`: an answer, wherever it
is on its way, is one of a run that the kernel has finished and that the supervisor
will not touch again, with that run's outputs; `AnsweredRuns`
(`AnsweredRunsAreOver`) and `RunsOwnResults` (`ResultsAreTheRunsOwn`) are what it
says when the answer has arrived.

**`PanelPartsProofs`** proves, of the images, `DocumentsStayWhole` (`DocumentsAreWhole`),
`ElementFollows` (`ElementShowsItsOutput`) and `ReadsAreReferenced`
(`OnlyReferencedIsRead`) for any outputs, limits and numbers of admissions and
loadings. An admission that validates still has to do every image of its batch
that is not known to be valid, and one that saves has a batch without a bad one
(`AdmissionInv`); the loading that may change the element is the last one, is of
its image, and has the only object URL that is open (`ElementInv`).

Of the card it proves `CardIsTrue` (`CardTellsTheTruth`) and `ReadsAreResident`
(`ReadsUseTheLiveSession`) for any number of operations and faults; the only premise
is that the constant `None` is not a catalog. That the catalog the card offers is
the host's is not inductive. `CardInv` adds that, as long as no operation failed or
was given up, every operation but the latest has ended or only reads (`Undone`), so
that nobody else can change the host while the latest is under way or after it, and
that an answer on its way then is how the host is (`Offers`). Which operation the
phase speaks of is `Says`: an operation that was aborted is never the one the phase
names.

Of the launcher it proves `ListIsAlwaysOneWalk` (`ListIsOneWalk`), for every
workspace - directories that form cycles, any number of names - every page
size and limit, and any number of requests and changes of the disk. The limits on
events are bounds of the actions only; no proof uses them. The difficulty is
that a page does not keep its walk: the next one starts over, on another disk, and what
it passes over must be what was listed before. The proof has four layers:

1. `Shape`: the frames of a walk go down along one path, and of each directory above
   the last the entries behind that path are to come.
2. `Ordered`: what was found lies behind the place the walk has reached, and
   that lies before all that is to come.
3. `Sound`: what a walk that leaves nothing out *knows*. For each level of its stack
   there is the set of what it had seen when it went down there, and for everything
   seen the way it came. A directory the walk is through with has no entry to
   something unseen (`Knows`), and every way was gone in order (`Came`). So a
   walk that ends has seen all that was there (`AllIsSeen`).
4. `Marked`: the knowledge of a walk when it comes to a notebook, kept as a *mark*
   of that path. `MarksAgree` compares the marks two walks have of one path: what
   the one saw, by a way made of entries the other had too, the other has seen. It
   is an induction on the length of that way (`SetInduction`). Hence
   a walk that reaches the continuation has seen the notebooks that are listed and
   no others, but for those with a new way (`PassedAreSaid`, `NewWayRenames`).

`LauncherInv` holds the mark of the page that is shown (`ListFits`), what the walk
of the live request has found relative to it (`WalkFits`), what an answer on its
way promises (`PageFits`), and what the list says (`ViewFits`). An aborted request
may be anywhere: it cannot reach the list any more (`Live`). A change of the
disk or a later history weakens nothing that is promised (`ListStays`,
`WalkStays`, `PageStays`).

Stating the invariant showed that `ListIsOneWalk` as it was checked before
promised too much. It counted aliases once also in partial lists and after entries had
been removed, and it did not except notebooks with a new way to a *directory* above
them; TLC had not found this because no instance had such a disk. The
properties now say what the code does, and `MCPanelParts` has a second name for a
notebook inside a directory with two names.

An update of several fields at one place of a function is written as one nested
record update, `![o] = [@ EXCEPT !.pc = ..., !.doc = ...]`. It means the same as a
list of updates `![o].pc = ..., ![o].doc = ...`, which the prover's translation to
SMT does not render faithfully.

Only model-checked: all liveness (`CallsAreAnswered`, `CallsEnd`, `CallsSettle`,
`PanelSettles`, `PartsSettle`), which is out of the prover's reach, like
ENABLED. Where outputs land is proved for calls that do not copy a cell and for prompt
replies: a late reply to a run, a reload and an edit can together put
outputs beside another source.

## What the checks show

The parts keep their promises under the interleavings and faults considered,
except for what two runs show:

* **Aliases** (`aliases_coalesce`): two opens of one file by different names make
  two notebooks if a third notebook is open and the first open completes
  while the second looks for an owner.
* **Stale locks** (`stale_locks`): of two managers that find the lock of a dead
  one, the slower unlinks by name what is by then the lock of the faster, and
  both provision the workspace. `ProvisioningIsExclusive` holds with two
  managers, where only one can survive to find a stale lock.

Modelling also met behaviour that differs from what a document or a comment says,
or that a reviewer may want to know of. No run is about these:

* `notebook-core/src/index.ts:846`: `copyCell` announces the cell as it was when
  the call was made (comment at 827), and writes the one the file has when its
  turn comes; an edit or a run in between makes projection and file differ under
  one `fileVersion`.
* `index.ts:1594`: editing any cell while code runs makes the run's write
  conflict; the run fails and its kernel is retired
  (`notebook-core/README.md:18` promises a commit).
* `index.ts:2186`: cells a reload brought in are not counted as used ids until an
  event of theirs is appended (`brand.ts:11`).
* `persistence.ts:245`: if the reply to a run's write comes after that to a reload
  that read it, and another write follows, the run's event puts the projection back.
* `index.ts:1640`: an error that was appended and cleared counts as an error for
  the events, and not for the file (`docs/notebook.md:15`).
* `index.ts:1524`: a failed or cancelled run whose cell was deleted meanwhile
  keeps its kernel, which is retired in every other such case.
* `index.ts:1988`: with one slot for retirements, a start can wait for the
  retirement of a replaced kernel and not for the later one of its successor. An
  attachment or a restart may also start its kernel beside a recovery that is under way: both are
  published, one after the other, and a run on the second may begin while one on the
  first still commits. A shutdown that failed once (2029) makes every later start of
  the notebook fail.
* `notebook-kernel-jupyter/supervisor/dsh_notebook_supervisor.py:652`: a run whose
  idle message was taken before its deadline, and whose reply is late, is
  interrupted, and the supervisor then waits for a second idle message of that
  run, which no kernel sends: a kernel that is quiet is given up.
* `client-ui-notebook/src/client/NotebookView.tsx:399`: a notebook the host has
  open under another name than the panel asked for leaves the launcher locked
  (`PanelSettles` exempts it); `client/index.ts:40` against `NotebookView.tsx:93`:
  `failureDetails` accepts the code `notebook-error` only, with details
  that the adapter does not pass on, so that write conflicts, stale continuations
  and environment categories are never told apart from other failures
  (`client-ui-notebook/README.md:13` promises that a conflict offers "Reload from
  disk"); `client/index.ts:192`:
  the error of a run reaches the notice, not its cell.
* `NotebookDocumentView.tsx:179`: "Run all" sends what was rendered when it was
  clicked, not what was typed since; `notebook-remote/src/index.ts:650`: the edit and the run
  it stands for are two calls, between which others come; 553: the id returned
  for an inserted cell may be that of a cell another call inserted.
* `NotebookDocumentView.tsx:258`: the state of a cell's earlier run hides that of a
  later edit that failed; a reload forgets the states of edits under way.
* `discovery.ts:99`: the limit on entries counts from the root again for each page,
  so that the last notebooks of a large workspace are on no page (it is said to be
  partial); a directory that is too deep under its first name is not visited under a
  shallower one either (115, also partial). A new name for a notebook that appears
  between two pages, before the continuation, hides it from the list; a directory
  that cannot be read for a later page lets a notebook in it come again under
  another name (91, partial).
  `NotebookLauncher.tsx:149`: when every notebook of the pages so far is open
  already there is no "Load more", although there are more pages.
* `NotebookEnvironmentCard.tsx:148`: the card asks for permission to enable an
  existing environment also when the workspace has none
  (`notebook-environment/README.md:7`); after an attachment its flow stays
  "attaching".

* `notebook-environment-uv/src/index.ts:1502`: a crash between the creation of the
  lock file and its content leaves a lock that is never found stale: somebody has to
  remove it.

## Plan

1. Theorems: the content of documents for calls that copy a cell and for replies in
   any order.
2. Line framing of the connection as a function checked against splitting the
   whole stream, and the supervisor's interpreter mode.
3. The panel with several notebooks and the history gate.

## Not modelled

* The **operation notices** of the panel only say what happened; two observations
  above are about them.
* **Model tools** and rendering turn answers into text; **types and brands** have
  no behaviour; the **bundle** re-exports; **build scripts** run outside the
  product; `notebook-remote/lib` is generated.
* Downloads, archive extraction, command lines and process spawning are the
  environment of the provisioning model, kernels that of the connection.
* Of modelled parts: runtime status and disposal of the whole service
  (`KernelLifecycle`); interpreter mode, value validation and line framing
  (`SupervisorConnection`); runtime status, the history gate, several
  notebooks and the injection of user actions into the conversation (`NotebookPanel`).
