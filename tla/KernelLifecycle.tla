-------------------------- MODULE KernelLifecycle --------------------------
(***************************************************************************)
(* The kernels of one notebook: how runs, inspections, restarts and        *)
(* attachments obtain one, how a start is published, how kernels are       *)
(* retired, and what ends them from outside (the sandbox policy, a reload, *)
(* the disposal of the session or of the backend).                         *)
(*                                                                         *)
(* A call starts at most one kernel, and the kernel has the call's name;   *)
(* First is a kernel that is live at the start.  The provider starts and   *)
(* stops processes when it likes, or never.  The continuations of one      *)
(* promise chain that run without an await on anything else are one step.  *)
(***************************************************************************)
EXTENDS Naturals, FiniteSets, SequencesExt

CONSTANTS
    Calls,         \* slots for calls of execute, inspect, restart, attach
    First,         \* a kernel that may be live at the start
    NoKernel,
    Kinds,         \* which kinds of call are made
    Policies,      \* sandbox policies
    MaxEvents,     \* bound on changes of policy, reloads and disposals
    Faults         \* which of "reload", "deleted", "session", "backend", "stuck"

Kernels == Calls \cup {First}

ASSUME LifecycleAssumption ==
    /\ First \notin Calls /\ NoKernel \notin Kernels
    /\ Kinds \subseteq {"run", "inspect", "restart", "attach"}
    /\ Policies # {} /\ MaxEvents \in Nat
    /\ Faults \subseteq {"reload", "deleted", "session", "backend", "stuck"}

VARIABLES
    policy, events,
    live,        \* the kernel of the notebook, NoKernel while it has none
    retiring,    \* the one kernel whose retirement later starts wait for
    recovery,    \* the call whose start every run shares, NoKernel if none
    kernel,      \* the process and the record of each kernel
    retired,     \* the kernels whose retirement has begun
    queue,       \* the tasks of each kernel, first come first served
    generation,
    call,
    attempt,     \* the start made by each call
    session, backend,
    doomed       \* the kernel that was live when the session was disposed

vars == <<policy, events, live, retiring, recovery, kernel, retired, queue,
          generation, call, attempt, session, backend, doomed>>

slots == <<live, retiring, recovery>>
outside == <<policy, events, session, backend, doomed>>

NoAttempt == [pc |-> "none", prior |-> NoKernel, cut |-> FALSE]
Idle(p) == [pc |-> "idle", kind |-> "run", on |-> NoKernel, policy |-> p, cut |-> FALSE,
            bad |-> FALSE, res |-> "none"]

Init ==
    /\ policy = (CHOOSE p \in Policies : TRUE) /\ events = 0
    /\ live \in {First, NoKernel}
    /\ retiring = NoKernel /\ recovery = NoKernel
    /\ kernel = [k \in Kernels |->
                    [proc   |-> IF k = live THEN "up" ELSE "none",
                     state  |-> IF k = live THEN "active" ELSE "none",
                     policy |-> policy]]
    /\ retired = {}
    /\ queue = [k \in Kernels |-> <<>>]
    /\ generation = IF live = NoKernel THEN 0 ELSE 1
    /\ call = [c \in Calls |-> Idle(policy)]
    /\ attempt = [c \in Calls |-> NoAttempt]
    /\ session = "open" /\ backend = "registered" /\ doomed = NoKernel

-----------------------------------------------------------------------------
(* Signals. *)

CallCut(c) == call[c].cut \/ session # "open"
RecordCut(k) == k \in retired \/ session # "open" \/ backend # "registered"
TaskCut(c) == CallCut(c) \/ RecordCut(call[c].on)
StartCut(c) == \/ CallCut(c) \/ attempt[c].cut \/ backend # "registered"
               \/ attempt[c].prior # NoKernel /\ RecordCut(attempt[c].prior)

Shared(kind) == kind \in {"run", "inspect"}
Asked(c)  == call[c].pc \notin {"idle", "settled"}
OnTask(c) == call[c].pc \in {"running", "committing", "inspecting", "replacing"}
Late(k)   == k \in Calls /\ attempt[k].pc = "failed" /\ kernel[k].state = "none"

Settle(c, result) ==
    call' = [call EXCEPT ![c] = [Idle(call[c].policy) EXCEPT !.pc = "settled",
                                    !.kind = call[c].kind, !.res = result]]

-----------------------------------------------------------------------------
(* Retirement.  markClosing takes kernels out of use; retireKernel also    *)
(* begins their shutdown, and keeps the first of them where later starts   *)
(* look for one to wait for; a kernel that was never published is closed   *)
(* without being kept there.                                               *)

MarkClosing(ks) ==
    /\ kernel' = [k \in Kernels |-> IF k \in ks /\ kernel[k].state = "active"
                                    THEN [kernel[k] EXCEPT !.state = "closing"] ELSE kernel[k]]
    /\ live' = IF live \in ks THEN NoKernel ELSE live

BeginRetirement(ks) == MarkClosing(ks) /\ retired' = retired \cup ks

Register(k) == retiring' = IF retiring = NoKernel /\ kernel[k].state # "closed"
                           THEN k ELSE retiring

Retire(k) == BeginRetirement({k}) /\ Register(k)
NoRetirement == UNCHANGED <<kernel, live, retired, retiring>>

Leave(k, c) == queue' = [queue EXCEPT ![k] = RemoveFirst(@, c)]

(* The provider stops the process of a retired kernel, or fails to. *)
ShutDown(k) ==
    /\ k \in retired /\ kernel[k].proc = "up"
    /\ \E p \in {"down"} \cup ({"stuck"} \cap Faults) :
          kernel' = [kernel EXCEPT ![k].proc = p]
    /\ UNCHANGED <<outside, slots, retired, queue, generation, call, attempt>>

(* The join of its queue and its shutdown: only a clean one frees the slot. *)
Join(k) ==
    /\ k \in retired /\ kernel[k].state = "closing"
    /\ kernel[k].proc \in {"down", "stuck"} /\ queue[k] = <<>>
    /\ LET clean == kernel[k].proc = "down"
       IN  /\ kernel' = [kernel EXCEPT ![k].state = IF clean THEN "closed"
                                                    ELSE "shutdown-failed"]
           /\ retiring' = IF clean /\ retiring = k THEN NoKernel ELSE retiring
    /\ UNCHANGED <<outside, live, recovery, retired, queue, generation, call, attempt>>

-----------------------------------------------------------------------------
(* Calls obtain a kernel. *)

Enqueue(c, k, next) ==
    /\ call' = [call EXCEPT ![c] = [next EXCEPT !.pc = "queued", !.on = k]]
    /\ queue' = [queue EXCEPT ![k] = Append(@, c)]

(* A start: with a prior kernel from inside its queue, otherwise alone. *)
Begin(c, prior, next) ==
    /\ attempt' = [attempt EXCEPT ![c] = [NoAttempt EXCEPT !.pc = "starting", !.prior = prior]]
    /\ kernel' = [kernel EXCEPT ![c] = [@ EXCEPT !.proc = "starting", !.policy = next.policy]]
    /\ call' = [call EXCEPT ![c] = next]

(* Without a kernel to wait for: join the recovery under way, or start.    *)
(* Restart and attach neither look at the recovery nor register as one.    *)
StartOrShare(c, next) ==
    LET shares == Shared(next.kind)
    IN  \/ /\ shares /\ recovery # NoKernel
           /\ call' = [call EXCEPT ![c] = [next EXCEPT !.pc = "sharing", !.on = recovery]]
           /\ UNCHANGED <<kernel, attempt, recovery>>
        \/ /\ ~(shares /\ recovery # NoKernel) /\ backend # "registered"
           /\ Settle(c, "no-backend")
           /\ UNCHANGED <<kernel, attempt, recovery>>
        \/ /\ ~(shares /\ recovery # NoKernel) /\ backend = "registered"
           /\ Begin(c, NoKernel, [next EXCEPT !.pc = IF shares THEN "sharing" ELSE "replacing",
                                             !.on = IF shares THEN c ELSE NoKernel])
           /\ recovery' = IF shares THEN c ELSE recovery

Waits_Never == FALSE
Waits == retiring # NoKernel

(* The part of a call before its first await.  A live kernel is active and *)
(* follows the policy (LiveKernelIsUsable), so the checks for one that     *)
(* does not are never taken.                                               *)
Ask(c, kind) ==
    /\ call[c].pc = "idle"
    /\ LET next == [Idle(policy) EXCEPT !.kind = kind]
           refused == session # "open" \/ (kind # "attach" /\ generation = 0)
       IN  \/ /\ refused
              /\ call' = [call EXCEPT ![c] = [next EXCEPT !.pc = "settled", !.res = "refused"]]
              /\ UNCHANGED <<queue, kernel, attempt, recovery>>
           \/ ~refused /\ live # NoKernel /\ Enqueue(c, live, next)
              /\ UNCHANGED <<kernel, attempt, recovery>>
           \/ /\ ~refused /\ live = NoKernel /\ Waits
              /\ call' = [call EXCEPT ![c] = [next EXCEPT !.pc = "joining", !.on = retiring]]
              /\ UNCHANGED <<queue, kernel, attempt, recovery>>
           \/ ~refused /\ live = NoKernel /\ ~Waits /\ StartOrShare(c, next) /\ UNCHANGED queue
    /\ UNCHANGED <<outside, live, retiring, retired, generation>>

(* The retiring kernel has been joined.  Nothing is looked at again, so a  *)
(* kernel that was published meanwhile is not seen.  A join that failed    *)
(* fails the call.                                                         *)
Joined(c) ==
    /\ call[c].pc = "joining" /\ ~CallCut(c)
    /\ \/ /\ kernel[call[c].on].state = "closed"
          /\ StartOrShare(c, call[c])
       \/ /\ kernel[call[c].on].state = "shutdown-failed"
          /\ Settle(c, "unjoined")
          /\ UNCHANGED <<kernel, attempt, recovery>>
    /\ UNCHANGED <<outside, live, retiring, retired, queue, generation>>

(* The shared start has ended. *)
Recovered(c) ==
    /\ call[c].pc = "sharing" /\ ~CallCut(c)
    /\ \/ attempt[call[c].on].pc = "done" /\ Enqueue(c, call[c].on, call[c])
       \/ attempt[call[c].on].pc = "failed" /\ Settle(c, "failed") /\ UNCHANGED queue
    /\ UNCHANGED <<outside, slots, kernel, retired, generation, attempt>>

(* The caller goes away or the deadline of the call passes. *)
Abort(c) ==
    /\ Asked(c) /\ ~call[c].cut
    /\ call' = [call EXCEPT ![c].cut = TRUE]
    /\ UNCHANGED <<outside, slots, kernel, retired, queue, generation, attempt>>

Interrupt(c) ==
    /\ call[c].pc = "running" /\ call[c].on = live /\ session = "open" /\ ~call[c].cut
    /\ call' = [call EXCEPT ![c].cut = TRUE]
    /\ UNCHANGED <<outside, slots, kernel, retired, queue, generation, attempt>>

(* A wait that the call's signal ends. *)
GivesUp_SharedOnly(c) == call[c].pc = "sharing" /\ CallCut(c)
GivesUp(c) == call[c].pc \in {"joining", "sharing"} /\ CallCut(c)

GiveUp(c) ==
    /\ GivesUp(c)
    /\ Settle(c, "aborted")
    /\ UNCHANGED <<outside, slots, kernel, retired, queue, generation, attempt>>

-----------------------------------------------------------------------------
(* Tasks of a kernel. *)

AtHead(c) == call[c].pc = "queued" /\ Head(queue[call[c].on]) = c
Usable_AnyKernel(k) == TRUE
Usable(k) == kernel[k].state = "active" /\ kernel[k].policy = policy

StartTask(c) ==
    /\ AtHead(c) /\ ~TaskCut(c) /\ Usable(call[c].on)
    /\ IF Shared(call[c].kind)
       THEN /\ call' = [call EXCEPT ![c].pc = IF call[c].kind = "run" THEN "running"
                                              ELSE "inspecting"]
            /\ UNCHANGED <<kernel, attempt>>
       ELSE Begin(c, call[c].on, [call[c] EXCEPT !.pc = "replacing"])
    /\ UNCHANGED <<outside, slots, retired, queue, generation>>

(* A task that does not start leaves the queue; a run or an inspection     *)
(* then sees to it that a kernel out of use is retired.                    *)
RejectTask(c) ==
    LET k == call[c].on
    IN  /\ call[c].pc = "queued"
        /\ TaskCut(c) \/ (AtHead(c) /\ ~Usable(k))
        /\ Leave(k, c)
        /\ Settle(c, "rejected")
        /\ IF Shared(call[c].kind) /\ kernel[k].state # "active" THEN Retire(k) ELSE NoRetirement
        /\ UNCHANGED <<outside, recovery, generation, attempt>>

(* The execution ends; one that was cut or failed is to retire its kernel. *)
EndExecution(c) ==
    /\ call[c].pc = "running"
    /\ \E bad \in BOOLEAN :
          /\ TaskCut(c) => bad
          /\ call' = [call EXCEPT ![c] = [@ EXCEPT !.pc = "committing", !.bad = bad]]
    /\ UNCHANGED <<outside, slots, kernel, retired, queue, generation, attempt>>

(* A task ends with its kernel spoiled or not. *)
EndTask(c, spoils, result) ==
    LET k == call[c].on
    IN  /\ Leave(k, c)
        /\ Settle(c, result)
        /\ IF spoils \/ kernel[k].state # "active" THEN Retire(k) ELSE NoRetirement
        /\ UNCHANGED <<outside, recovery, generation, attempt>>

(* The outputs of a run are written; a failed write spoils the kernel too. *)
(* A run whose cell was deleted meanwhile fails before either is looked at.*)
CommitRun(c) ==
    /\ call[c].pc = "committing"
    /\ \/ ~RecordCut(call[c].on) /\ EndTask(c, call[c].bad, IF call[c].bad THEN "failed" ELSE "ok")
       \/ EndTask(c, TRUE, "failed")
       \/ "deleted" \in Faults /\ EndTask(c, FALSE, "failed")

EndInspection(c) ==
    /\ call[c].pc = "inspecting"
    /\ \E spoils \in BOOLEAN :
          /\ TaskCut(c) => spoils
          /\ EndTask(c, spoils, IF spoils THEN "failed" ELSE "ok")

-----------------------------------------------------------------------------
(* Starts. *)

(* The provider answers; by then the calls whose wait for a join is over   *)
(* have gone on.                                                           *)
JoinedCallsWentOn ==
    \A c \in Calls : call[c].pc = "joining" =>
        kernel[call[c].on].state \notin {"closed", "shutdown-failed"}

ProcessStarts(k) ==
    /\ kernel[k].proc = "starting" /\ JoinedCallsWentOn
    /\ \E p \in {"up", "down"} : kernel' = [kernel EXCEPT ![k].proc = p]
    /\ UNCHANGED <<outside, slots, retired, queue, generation, call, attempt>>

(* The deadline of the start passes. *)
StartTimesOut(c) ==
    /\ attempt[c].pc = "starting" /\ ~attempt[c].cut
    /\ attempt' = [attempt EXCEPT ![c].cut = TRUE]
    /\ UNCHANGED <<outside, slots, kernel, retired, queue, generation, call>>

FreeRecovery(c) == recovery' = IF recovery = c THEN NoKernel ELSE recovery

(* What ends a replacement ends the call and its task in the prior's queue;*)
(* a recovery is waited for by the calls that share it.                    *)
EndReplacement(c, result) ==
    IF call[c].pc = "replacing"
    THEN /\ Settle(c, result)
         /\ IF attempt[c].prior = NoKernel THEN UNCHANGED queue ELSE Leave(attempt[c].prior, c)
    ELSE UNCHANGED <<call, queue>>

FailStart(c) ==
    /\ attempt' = [attempt EXCEPT ![c] = [NoAttempt EXCEPT !.pc = "failed"]]
    /\ FreeRecovery(c)
    /\ EndReplacement(c, "failed")

(* The start failed, or is not waited for any longer: its kernel is late.  *)
AbandonStart(c) ==
    /\ attempt[c].pc = "starting"
    /\ kernel[c].proc = "down" \/ StartCut(c)
    /\ FailStart(c)
    /\ UNCHANGED <<outside, live, retiring, kernel, retired, generation>>

(* A late kernel is closed when it comes. *)
CloseLate(k) ==
    /\ Late(k) /\ kernel[k].proc = "up"
    /\ kernel' = [kernel EXCEPT ![k].state = "closing"]
    /\ retired' = retired \cup {k}
    /\ UNCHANGED <<outside, slots, queue, generation, call, attempt>>

(* A handle that came in time is kept if nothing has changed meanwhile. *)
Wanted(c) == ~StartCut(c) /\ kernel[c].policy = policy

Receive(c) ==
    /\ attempt[c].pc = "starting" /\ kernel[c].proc = "up"
    /\ attempt' = [attempt EXCEPT ![c] = [@ EXCEPT !.pc = IF Wanted(c) THEN "publishing" ELSE "closing",
                                                   !.cut = FALSE]]
    /\ kernel' = [kernel EXCEPT ![c].state = IF Wanted(c) THEN "active" ELSE "closing"]
    /\ retired' = IF Wanted(c) THEN retired ELSE retired \cup {c}
    /\ UNCHANGED <<outside, slots, queue, generation, call>>

(* The started kernel takes the place of the prior one, which is retired;  *)
(* if another kernel has taken it, the started one is closed.              *)
InPlace_Unchecked(c) == TRUE
InPlace(c) == live = attempt[c].prior
PriorRetired_Dropped(c) == NoKernel
PriorRetired(c) == attempt[c].prior

Publish(c) ==
    /\ attempt[c].pc = "publishing"
    /\ IF Usable(c) /\ InPlace(c) /\ session = "open"
       THEN /\ attempt' = [attempt EXCEPT ![c].pc = "done"]
            /\ generation' = generation + 1
            /\ FreeRecovery(c)
            /\ EndReplacement(c, "ok")
            /\ LET prior == PriorRetired(c)
               IN  IF prior = NoKernel
                   THEN live' = c /\ UNCHANGED <<kernel, retired, retiring>>
                   ELSE /\ live' = c
                        /\ kernel' = [kernel EXCEPT ![prior].state = "closing"]
                        /\ retired' = retired \cup {prior}
                        /\ Register(prior)
       ELSE /\ attempt' = [attempt EXCEPT ![c].pc = "rollback"]
            /\ BeginRetirement({c})
            /\ UNCHANGED <<retiring, recovery, queue, generation, call>>
    /\ UNCHANGED outside

(* The close of an unpublished kernel is waited for, within its deadline. *)
EndClose(c) ==
    /\ attempt[c].pc \in {"closing", "rollback"}
    /\ FailStart(c)
    /\ UNCHANGED <<outside, live, retiring, kernel, retired, generation>>

-----------------------------------------------------------------------------
(* From outside. *)

Happens == events < MaxEvents /\ events' = events + 1

(* The handler of sandbox/mode runs in the step that changes the policy.   *)
Stale_None(p) == {}
Stale(p) == {k \in Kernels : kernel[k].state = "active" /\ kernel[k].policy # p}

ChangePolicy(p) ==
    /\ p # policy /\ Happens
    /\ policy' = p
    /\ IF session = "open" /\ backend = "registered"
       THEN /\ attempt' = [c \in Calls |->
                             IF attempt[c].pc = "starting" /\ kernel[c].policy # p
                             THEN [attempt[c] EXCEPT !.cut = TRUE] ELSE attempt[c]]
            /\ BeginRetirement(Stale(p))
            /\ IF Stale(p) = {} THEN UNCHANGED retiring
               ELSE \E k \in Stale(p) : (live \in Stale(p) => k = live) /\ Register(k)
       ELSE UNCHANGED <<attempt, kernel, live, retired, retiring>>
    /\ UNCHANGED <<recovery, queue, generation, call, session, backend, doomed>>

(* A reload retires the live kernel; it is refused during an execution. *)
Reload ==
    /\ "reload" \in Faults /\ live # NoKernel /\ session = "open"
    /\ ~\E c \in Calls : call[c].pc = "running" /\ call[c].on = live
    /\ Happens
    /\ Retire(live)
    /\ UNCHANGED <<policy, session, backend, doomed, recovery, queue, generation, call, attempt>>

(* The session is disposed: no more work, the live kernel goes out of use. *)
(* Once no start is pending it is retired, and once the retirements are    *)
(* over, or their deadline has passed, the tables are emptied.             *)
DisposeSession ==
    /\ "session" \in Faults /\ session = "open" /\ Happens
    /\ session' = "disposing"
    /\ MarkClosing({live})
    /\ doomed' = live
    /\ UNCHANGED <<policy, backend, retiring, recovery, retired, queue, generation,
                   call, attempt>>

NoStartPending == \A c \in Calls : attempt[c].pc \notin {"starting", "closing"}

SessionDisposed ==
    /\ session = "disposing" /\ NoStartPending
    /\ session' = "closing"
    /\ BeginRetirement({doomed} \ {NoKernel})
    /\ IF doomed = NoKernel THEN UNCHANGED retiring ELSE Register(doomed)
    /\ UNCHANGED <<policy, events, backend, doomed, recovery, queue, generation, call, attempt>>

SessionForgotten ==
    /\ session = "closing"
    /\ session' = "disposed"
    /\ live' = NoKernel /\ retiring' = NoKernel /\ recovery' = NoKernel
    /\ UNCHANGED <<policy, events, backend, doomed, kernel, retired, queue, generation, call, attempt>>

(* The same for the backend, whose every kernel goes out of use. *)
Records == {k \in Kernels : kernel[k].state \in {"active", "closing", "shutdown-failed"}}

DisposeBackend ==
    /\ "backend" \in Faults /\ backend = "registered" /\ Happens
    /\ backend' = "disposing"
    /\ MarkClosing(Records)
    /\ UNCHANGED <<policy, session, doomed, retiring, recovery, retired, queue, generation,
                   call, attempt>>

BackendDisposed ==
    /\ backend = "disposing" /\ NoStartPending
    /\ backend' = "disposed"
    /\ BeginRetirement(Records)
    /\ IF Records = {} \/ session = "disposed" THEN UNCHANGED retiring
       ELSE \E k \in Records : Register(k)
    /\ UNCHANGED <<policy, events, session, doomed, recovery, queue, generation, call, attempt>>

-----------------------------------------------------------------------------
CallStep(c) ==
    \/ \E kind \in Kinds : Ask(c, kind)
    \/ Joined(c) \/ Recovered(c) \/ Abort(c) \/ Interrupt(c) \/ GiveUp(c)
    \/ StartTask(c) \/ RejectTask(c) \/ EndExecution(c) \/ CommitRun(c) \/ EndInspection(c)
    \/ StartTimesOut(c) \/ AbandonStart(c) \/ Receive(c) \/ Publish(c) \/ EndClose(c)

KernelStep(k) == ShutDown(k) \/ Join(k) \/ ProcessStarts(k) \/ CloseLate(k)

Outside ==
    \/ \E p \in Policies : ChangePolicy(p)
    \/ Reload \/ DisposeSession \/ SessionDisposed \/ SessionForgotten
    \/ DisposeBackend \/ BackendDisposed

Next ==
    \/ \E c \in Calls : CallStep(c)
    \/ \E k \in Kernels : KernelStep(k)
    \/ Outside

Spec == Init /\ [][Next]_vars

(* Continuations run and deadlines pass.  Nothing is assumed of the        *)
(* provider: it may never answer a start or a shutdown.                    *)
Fairness ==
    \A c \in Calls :
        /\ WF_vars(Joined(c)) /\ WF_vars(Recovered(c)) /\ WF_vars(Abort(c)) /\ WF_vars(GiveUp(c))
        /\ WF_vars(StartTask(c) \/ RejectTask(c)) /\ WF_vars(EndExecution(c))
        /\ WF_vars(CommitRun(c)) /\ WF_vars(EndInspection(c))
        /\ WF_vars(StartTimesOut(c)) /\ WF_vars(AbandonStart(c)) /\ WF_vars(Receive(c))
        /\ WF_vars(Publish(c)) /\ WF_vars(EndClose(c))

FairSpec == Spec /\ Fairness
-----------------------------------------------------------------------------
(* Properties. *)

States == {"none", "active", "closing", "closed", "shutdown-failed"}
CallSteps == {"idle", "joining", "sharing", "queued", "running", "committing", "inspecting",
              "replacing", "settled"}
Results == {"none", "ok", "failed", "aborted", "rejected", "refused", "unjoined", "no-backend"}

(* Types of the state; a call that waits has something to wait for. *)
TypeOK ==
    /\ policy \in Policies /\ events \in 0..MaxEvents /\ generation \in Nat
    /\ {live, retiring, doomed} \subseteq Kernels \cup {NoKernel}
    /\ recovery \in Calls \cup {NoKernel}
    /\ kernel \in [Kernels -> [proc : {"none", "starting", "up", "down", "stuck"},
                              state : States, policy : Policies]]
    /\ retired \subseteq Kernels
    /\ queue \in [Kernels -> Seq(Calls)]
    /\ call \in [Calls -> [pc : CallSteps, kind : {"run", "inspect", "restart", "attach"},
                           on : Kernels \cup {NoKernel}, policy : Policies, cut : BOOLEAN,
                           bad : BOOLEAN, res : Results]]
    /\ \A c \in Calls : call[c].pc \in {"joining", "sharing", "queued"} => call[c].on # NoKernel
    /\ attempt \in [Calls -> [pc : {"none", "starting", "publishing", "closing", "rollback",
                                   "done", "failed"},
                              prior : Kernels \cup {NoKernel}, cut : BOOLEAN]]
    /\ session \in {"open", "disposing", "closing", "disposed"}
    /\ backend \in {"registered", "disposing", "disposed"}

(* The kernel a run may be given is running, not being retired, started    *)
(* under the policy of now, of an open session and a registered backend,   *)
(* whatever happened between its start and its publication; and a run      *)
(* executes under the policy of now, or its kernel is being retired.       *)
Executing(c) == call[c].pc \in {"running", "inspecting"}
LiveKernelIsUsable ==
    /\ live # NoKernel =>
          /\ kernel[live] = [proc |-> "up", state |-> "active", policy |-> policy]
          /\ live \notin retired
          /\ session = "open" /\ backend = "registered"
    /\ \A c \in Calls : Executing(c) =>
          kernel[call[c].on].policy = policy \/ RecordCut(call[c].on)

(* No process is leaked: one that is up is the live kernel, is being shut  *)
(* down, or someone is still to publish or to close it, also when its      *)
(* start was given up before the handle came.                              *)
KernelsAreAccountedFor ==
    /\ TypeOK
    /\ \A k \in Kernels : kernel[k].proc = "up" =>
          \/ k = live \/ k \in retired
          \/ k \in Calls /\ (attempt[k].pc \in {"starting", "publishing"} \/ Late(k))
          \/ session = "disposing" /\ k = doomed
          \/ backend = "disposing" /\ k \in Records

(* Two runs are never on one kernel at once, and of one notebook they do   *)
(* not overlap on different kernels either: a recovery waits until the     *)
(* runs of the kernel that is being retired have ended.  Only a restart or *)
(* an attachment starts a kernel beside a recovery, and puts a second      *)
(* kernel away while the slot for the first is taken.                      *)
StartsBeside == \E c \in Calls : ~Shared(call[c].kind) /\ attempt[c].pc # "none"
OnKernel(c) == call[c].pc \in {"running", "committing"}
RunsDoNotOverlap ==
    \A c, d \in Calls : OnKernel(c) /\ OnKernel(d) /\ c # d =>
        call[c].on # call[d].on /\ StartsBeside

(* Each generation the notebook shows is one new kernel, and a kernel that *)
(* was replaced or retired never serves again.                             *)
Published == {k \in Calls : attempt[k].pc = "done"} \cup
             {k \in {First} : kernel[k].state # "none"}
Generations == INSTANCE KernelGenerations WITH
    current <- live, past <- {k \in Published : kernel[k].state # "active"}
GenerationsAreKernels == Generations!Spec

(* Every call settles, even if the provider never answers.                 *)
CallsSettle == \A c \in Calls : Asked(c) ~> ~Asked(c)
=============================================================================
