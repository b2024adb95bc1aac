------------------------ MODULE SupervisorConnection ------------------------
(***************************************************************************)
(* One kernel handle of the Jupyter provider: the JSON-RPC connection to   *)
(* the supervisor process, the supervisor's loop, and the kernel behind it *)
(* with its iopub and shell channels.                                      *)
(*                                                                         *)
(* The Node side is an event loop.  micro is its queue of continuations,   *)
(* first come first served; an event (a line, a timer, an abort, the exit  *)
(* of the process) is taken only when that queue is empty.  The supervisor *)
(* and the kernel run beside it.  A caller makes one request, so a request *)
(* has its caller's name for an id; a run is one call of execute or        *)
(* inspect, and the core makes one of them at a time.                      *)
(***************************************************************************)
EXTENDS Naturals, SequencesExt

CONSTANTS
    Runs,        \* calls of execute and inspect
    Start,       \* the call that starts the kernel
    Shutdown,    \* the call that ends it
    Nobody,
    MaxOutput,   \* outputs that fit in one result
    Faults       \* which of "crash", "garbage", "limit", "stuck"

Callers == Runs \cup {Start, Shutdown}

ASSUME ConnectionAssumption ==
    /\ Start # Shutdown /\ Start \notin Runs /\ Shutdown \notin Runs
    /\ Nobody \notin Callers
    /\ MaxOutput \in Nat
    /\ Faults \subseteq {"crash", "garbage", "limit", "stuck"}

VARIABLES
    call,       \* the provider's calls
    pending,    \* the requests without an answer
    closed,     \* who closed the connection, Nobody while it is open
    stop,       \* the termination of the process
    micro,      \* continuations ready to run
    inbox,      \* requests on the way to the supervisor
    outbox,     \* responses on the way back
    sup,        \* the supervisor: where it is, for which request, its ledger
    kernel,     \* the message the kernel works on, and what it has sent for it
    iopub, shell,
    made        \* what the kernel has printed for each run

vars == <<call, pending, closed, stop, micro, inbox, outbox, sup, kernel, iopub, shell, made>>
node == <<call, pending, closed, stop, micro>>
python == <<sup, kernel, iopub, shell, made>>

Off  == [msg |-> Nobody, idled |-> FALSE, replied |-> FALSE]
Reading == [at |-> "reading", who |-> Nobody, ledger |-> <<>>, failed |-> FALSE, code |-> "none"]

Init ==
    /\ call = [c \in Callers |-> [pc |-> "idle", kind |-> "none", res |-> "none",
                                  outs |-> <<>>, why |-> Nobody]]
    /\ pending = {} /\ closed = Nobody /\ stop = "no"
    /\ micro = <<>> /\ inbox = <<>> /\ outbox = <<>>
    /\ sup = Reading /\ kernel = Off
    /\ iopub = <<>> /\ shell = <<>>
    /\ made = [r \in Runs |-> <<>>]

-----------------------------------------------------------------------------
(* The connection.  A request that leaves the table is answered once, and  *)
(* what its caller does then is a continuation.                            *)

Failed == closed # Nobody
Alive == sup.at # "gone"

Rejection(c, why) == [who |-> c, what |-> "reject", why |-> why, reply |-> Nobody]
Resolution(reply) == [who |-> reply.id, what |-> "resolve", why |-> Nobody, reply |-> reply]
Beginning(c) == [who |-> c, what |-> "begin", why |-> Nobody, reply |-> Nobody]

(* fail: the first reason stays, nothing more is read, and every pending   *)
(* request is rejected.                                                    *)
FirstReason(why) == IF Failed THEN closed ELSE why
Rejections(cs, why) == [i \in 1 .. Len(SetToSeq(cs)) |-> Rejection(SetToSeq(cs)[i], why)]

Fail(why, rest) ==
    /\ closed' = FirstReason(why)
    /\ pending' = {} /\ outbox' = <<>>
    /\ micro' = rest \o Rejections(pending, FirstReason(why))

(* request: refused when the connection has failed, otherwise written.     *)
Request(c, rest) ==
    IF Failed THEN /\ micro' = Append(rest, Rejection(c, closed))
                   /\ UNCHANGED <<pending, inbox>>
    ELSE /\ pending' = pending \cup {c}
         /\ micro' = rest
         /\ inbox' = IF Alive THEN Append(inbox, c) ELSE inbox

Event == micro = <<>>

(* The deadline of one request ends the connection.                        *)
Timed_Start(c) == c \in pending \ Runs   \* mutant
Timed(c) == c \in pending
Deadline(c) ==
    /\ Event /\ Timed(c)
    /\ closed' = FirstReason(c) /\ pending' = {} /\ outbox' = <<>>
    /\ micro' = <<Rejection(c, c)>> \o Rejections(pending \ {c}, FirstReason(c))
    /\ UNCHANGED <<call, stop, inbox, python>>

(* An aborted request is rejected; the connection stays open.              *)
Aborted == Rejections(pending \cap (Runs \cup {Start}), Nobody)
Cancel(c) ==
    /\ Event /\ c \in pending
    /\ micro' = <<Rejection(c, Nobody)>> /\ pending' = pending \ {c}
    /\ UNCHANGED <<call, closed, stop, inbox, outbox, python>>

(* One line of the supervisor's output.                                    *)
Garbage == [id |-> Nobody, kind |-> "garbage", outs |-> <<>>]
Deliver ==
    /\ Event /\ ~Failed /\ outbox # <<>>
    /\ LET reply == Head(outbox)
       IN  IF reply.kind = "garbage"
           THEN Fail(Start, <<>>)
           ELSE /\ outbox' = Tail(outbox)
                /\ pending' = pending \ {reply.id}
                /\ micro' = IF reply.id \notin pending THEN <<>>
                            ELSE IF reply.kind = "rpc-error" THEN <<Rejection(reply.id, Nobody)>>
                            ELSE <<Resolution(reply)>>
                /\ UNCHANGED closed
    /\ UNCHANGED <<call, stop, inbox, python>>

(* The exit of the process ends the connection, once its output is read.   *)
ProcessDone ==
    /\ Event /\ ~Alive /\ ~Failed /\ outbox = <<>>
    /\ Fail(Start, <<>>)
    /\ UNCHANGED <<call, stop, inbox, python>>

-----------------------------------------------------------------------------
(* The provider's calls. *)

Begin(c, kind) ==
    /\ call[c].pc = "idle"
    /\ call' = [call EXCEPT ![c] = [@ EXCEPT !.pc = "waiting", !.kind = kind]]
    /\ Request(c, <<>>)
    /\ UNCHANGED <<closed, stop, outbox, python>>

StartKernel == Event /\ Begin(Start, "start")

Ready == call[Start].res = "ok" /\ call[Shutdown].pc = "idle"
Run(r, kind) ==
    /\ Event /\ Ready
    /\ \A q \in Runs : call[q].pc # "waiting"
    /\ Begin(r, kind)

(* The core retires a kernel: it aborts the run under way, and calls       *)
(* shutdown in a continuation queued after that.                           *)
Retirement_AtOnce == <<Beginning(Shutdown)>> \o Aborted   \* mutant
Retirement == Append(Aborted, Beginning(Shutdown))
Retire ==
    /\ Event /\ Ready
    /\ call' = [call EXCEPT ![Shutdown] = [@ EXCEPT !.pc = "asked", !.kind = "shutdown"]]
    /\ micro' = Retirement
    /\ pending' = pending \ Runs
    /\ UNCHANGED <<closed, stop, inbox, outbox, python>>

(* stopHandle: once, closes the connection and terminates the process;     *)
(* every caller waits for that one termination.                            *)
StopHandle(c, rest, to) ==
    /\ call' = [call EXCEPT ![c] = to]
    /\ IF stop = "no" THEN stop' = "terminating" /\ Fail(c, rest)
                      ELSE micro' = rest /\ UNCHANGED <<stop, closed, pending, outbox>>
    /\ UNCHANGED inbox

Continue ==
    /\ micro # <<>>
    /\ LET now == Head(micro)  rest == Tail(micro)  c == now.who
       IN  CASE now.what = "begin" ->
                  IF Failed
                  THEN StopHandle(c, rest, [call[c] EXCEPT !.pc = "stopping", !.res = "ok"])
                  ELSE /\ Request(c, rest)
                       /\ call' = [call EXCEPT ![c].pc = "waiting"]
                       /\ UNCHANGED <<closed, stop, outbox>>
             [] now.what = "reject" ->
                  StopHandle(c, rest, [call[c] EXCEPT !.pc = "stopping", !.res = "thrown",
                                                      !.why = now.why])
             [] now.what = "resolve" /\ c = Shutdown ->
                  StopHandle(c, rest, [call[c] EXCEPT !.pc = "stopping", !.res = "ok"])
             [] now.what = "resolve" /\ c # Shutdown ->
                  /\ call' = [call EXCEPT ![c] = [@ EXCEPT !.pc = "settled", !.res = now.reply.kind,
                                                           !.outs = now.reply.outs]]
                  /\ micro' = rest
                  /\ UNCHANGED <<pending, closed, stop, inbox, outbox>>
    /\ UNCHANGED <<sup, kernel, iopub, shell, made>>

(* The termination of the process tree has an end, clean or not.           *)
Killed ==
    /\ sup' = [Reading EXCEPT !.at = "gone"] /\ kernel' = Off
    /\ inbox' = <<>> /\ iopub' = <<>> /\ shell' = <<>>
Join ==
    /\ stop = "terminating"
    /\ \/ stop' = "joined" /\ Killed
       \/ "stuck" \in Faults /\ stop' = "failed" /\ UNCHANGED <<sup, kernel, inbox, iopub, shell>>
    /\ UNCHANGED <<call, pending, closed, micro, outbox, made>>

Joined_Asked == stop # "no"   \* mutant
Joined == stop \in {"joined", "failed"}
Finish(c) ==
    /\ Event /\ call[c].pc = "stopping" /\ Joined
    /\ call' = [call EXCEPT ![c] = [@ EXCEPT !.pc = "settled",
                                             !.res = IF stop = "failed" THEN "thrown" ELSE call[c].res]]
    /\ UNCHANGED <<pending, closed, stop, micro, inbox, outbox, python>>

-----------------------------------------------------------------------------
(* The supervisor: one request at a time, and one response to each.  What  *)
(* it and the kernel do for a connection that has failed reaches nobody,   *)
(* and is left out.                                                        *)

Reply(c, kind, outs) == [id |-> c, kind |-> kind, outs |-> outs]

Respond(reply) ==
    /\ outbox' = Append(outbox, reply)
    /\ sup' = Reading
    /\ UNCHANGED <<node, inbox>>

Read ==
    /\ sup.at = "reading" /\ inbox # <<>>
    /\ inbox' = Tail(inbox)
    /\ sup' = [Reading EXCEPT !.at = call[Head(inbox)].kind, !.who = Head(inbox)]
    /\ UNCHANGED <<node, outbox, kernel, iopub, shell, made>>

SupStart ==
    /\ sup.at = "start"
    /\ \E kind \in {"ok", "rpc-error"} : Respond(Reply(sup.who, kind, <<>>))
    /\ UNCHANGED <<kernel, iopub, shell, made>>

(* stop_kernel: only a clean one ends the loop, and the process with it.   *)
SupShutdown ==
    /\ sup.at = "shutdown"
    /\ \/ outbox' = Append(outbox, Reply(sup.who, "ok", <<>>)) /\ Killed
       \/ /\ outbox' = Append(outbox, Reply(sup.who, "rpc-error", <<>>))
          /\ sup' = Reading /\ kernel' = Off /\ UNCHANGED <<inbox, iopub, shell>>
    /\ UNCHANGED <<node, made>>

Send(to) ==
    /\ sup' = [sup EXCEPT !.at = to]
    /\ kernel' = [Off EXCEPT !.msg = sup.who]
    /\ UNCHANGED <<node, inbox, outbox, iopub, shell, made>>
SupExecute == sup.at = "execute" /\ Send("collect")
SupInspect == sup.at = "inspect" /\ Send("inspecting")

(* matching_message passes over what belongs to another request.           *)
Matches_Any(message) == sup.who \in Runs   \* mutant
Matches(message) == message.of = sup.who
Skip ==
    \/ /\ sup.at \in {"collect", "interrupted"} /\ iopub # <<>> /\ ~Matches(Head(iopub))
       /\ iopub' = Tail(iopub) /\ UNCHANGED shell
       /\ UNCHANGED <<node, inbox, outbox, sup, kernel, made>>
    \/ /\ sup.at \in {"reply", "last", "inspecting"} /\ shell # <<>> /\ ~Matches(Head(shell))
       /\ shell' = Tail(shell) /\ UNCHANGED iopub
       /\ UNCHANGED <<node, inbox, outbox, sup, kernel, made>>

FromIopub(at) == sup.at = at /\ iopub # <<>> /\ Matches(Head(iopub)) /\ iopub' = Tail(iopub)
FromShell(at) == sup.at = at /\ shell # <<>> /\ Matches(Head(shell)) /\ shell' = Tail(shell)

Fits == Len(sup.ledger) < MaxOutput
Interrupted(code) == [sup EXCEPT !.at = "interrupted", !.code = code]

Collect ==
    /\ FromIopub("collect")
    /\ LET what == Head(iopub).what
       IN  sup' = IF what = "idle" THEN [sup EXCEPT !.at = "reply"]
                  ELSE IF ~Fits THEN Interrupted("limit")
                  ELSE [sup EXCEPT !.ledger = Append(@, what),
                                   !.failed = @ \/ what = "error"]
    /\ UNCHANGED <<node, inbox, outbox, kernel, shell, made>>

(* The reply of a failed cell that printed no error adds one, if it fits.  *)
Ended(what) ==
    IF sup.failed \/ what = "ok" THEN Reply(sup.who, IF sup.failed THEN "error" ELSE "ok", sup.ledger)
    ELSE Reply(sup.who, "error", IF Fits THEN Append(sup.ledger, "error") ELSE sup.ledger)

CollectReply ==
    /\ FromShell("reply") /\ Respond(Ended(Head(shell).what))
    /\ UNCHANGED <<kernel, iopub, made>>

(* Output or a reply of the wrong form is an error of the request.         *)
Malformed ==
    /\ "garbage" \in Faults /\ sup.at \in {"collect", "reply"}
    /\ Respond(Reply(sup.who, "rpc-error", <<>>))
    /\ UNCHANGED <<kernel, iopub, shell, made>>

(* The deadline of the cell interrupts the kernel, and so does the limit.  *)
TimesOut ==
    /\ sup.at \in {"collect", "reply"}
    /\ sup' = Interrupted("timeout")
    /\ UNCHANGED <<node, inbox, outbox, kernel, iopub, shell, made>>

(* What is printed after that is dropped; the idle status and then the     *)
(* reply of the cell must come before the second deadline.                 *)
CollectInterrupted ==
    /\ FromIopub("interrupted")
    /\ sup' = IF Head(iopub).what = "idle" THEN [sup EXCEPT !.at = "last"] ELSE sup
    /\ UNCHANGED <<node, inbox, outbox, kernel, shell, made>>
CollectLast ==
    /\ FromShell("last") /\ Respond(Reply(sup.who, "error", sup.ledger))
    /\ UNCHANGED <<kernel, iopub, made>>

Verdict_Terminal == Reply(sup.who, "error", sup.ledger)   \* mutant
Verdict == Reply(sup.who, "rpc-error", <<>>)
GivesUp ==
    /\ sup.at \in {"interrupted", "last"} /\ Respond(Verdict)
    /\ UNCHANGED <<kernel, iopub, shell, made>>

Inspected ==
    \/ FromShell("inspecting") /\ Respond(Reply(sup.who, "ok", <<>>))
       /\ UNCHANGED <<kernel, iopub, made>>
    \/ sup.at = "inspecting" /\ Respond(Reply(sup.who, "rpc-error", <<>>))
       /\ UNCHANGED <<kernel, iopub, shell, made>>

(* An answer over the response limit is replaced by an error.              *)
OverLimit ==
    /\ "limit" \in Faults
    /\ outbox # <<>> /\ Last(outbox).kind \in {"ok", "error"} /\ Last(outbox).id \in Runs
    /\ outbox' = [outbox EXCEPT ![Len(outbox)] = Reply(@.id, "rpc-error", <<>>)]
    /\ UNCHANGED <<node, inbox, python>>

Crash ==
    /\ "crash" \in Faults /\ Alive /\ Killed
    /\ UNCHANGED <<node, outbox, made>>

WritesGarbage ==
    /\ "garbage" \in Faults /\ Alive /\ outbox = <<>>
    /\ outbox' = <<Garbage>>
    /\ UNCHANGED <<node, inbox, python>>

-----------------------------------------------------------------------------
(* The kernel works on one message.  It answers on two channels, and which *)
(* of the answers arrives first is open.                                   *)

Working == kernel.msg # Nobody /\ Alive
KernelRest == UNCHANGED <<node, inbox, outbox, sup>>

PrintedError(r) == \E i \in DOMAIN made[r] : made[r][i] = "error"
Prints ==
    /\ Working /\ call[kernel.msg].kind = "execute" /\ ~kernel.idled /\ ~kernel.replied
    /\ Len(made[kernel.msg]) <= MaxOutput
    /\ \E what \in {"text", "error"} :
          /\ ~PrintedError(kernel.msg)
          /\ made' = [made EXCEPT ![kernel.msg] = Append(@, what)]
          /\ iopub' = Append(iopub, [of |-> kernel.msg, what |-> what])
    /\ KernelRest /\ UNCHANGED <<kernel, shell>>

Idles ==
    /\ Working /\ ~kernel.idled
    /\ iopub' = Append(iopub, [of |-> kernel.msg, what |-> "idle"])
    /\ kernel' = [kernel EXCEPT !.idled = TRUE]
    /\ KernelRest /\ UNCHANGED <<shell, made>>

Replies ==
    /\ Working /\ ~kernel.replied
    /\ \E what \in {"ok", "error"} :
          /\ PrintedError(kernel.msg) => what = "error"
          /\ shell' = Append(shell, [of |-> kernel.msg, what |-> what])
    /\ kernel' = [kernel EXCEPT !.replied = TRUE]
    /\ KernelRest /\ UNCHANGED <<iopub, made>>

-----------------------------------------------------------------------------

Provider ==
    \/ StartKernel \/ Retire \/ Continue \/ Deliver \/ ProcessDone \/ Join
    \/ \E r \in Runs : \E kind \in {"execute", "inspect"} : Run(r, kind)
    \/ \E c \in Callers : Deadline(c) \/ Cancel(c) \/ Finish(c)

Supervisor ==
    \/ Read \/ SupStart \/ SupShutdown \/ SupExecute \/ SupInspect
    \/ Skip \/ Collect \/ CollectReply \/ TimesOut \/ CollectInterrupted \/ CollectLast
    \/ GivesUp \/ Malformed \/ Inspected \/ OverLimit \/ Crash \/ WritesGarbage

Kernel == Prints \/ Idles \/ Replies

Next == Provider \/ (~Failed /\ (Supervisor \/ Kernel))

Spec == Init /\ [][Next]_vars

(* Node runs its continuations and its timers, and the termination of a    *)
(* process tree ends.  Nothing is assumed of the supervisor or the kernel. *)
Fairness ==
    /\ WF_vars(Continue) /\ WF_vars(Join)
    /\ \A c \in Callers : WF_vars(Deadline(c)) /\ WF_vars(Finish(c))

FairSpec == Spec /\ Fairness

-----------------------------------------------------------------------------
(* Properties. *)

TypeOK ==
    /\ pending \subseteq Callers /\ closed \in Callers \cup {Nobody}
    /\ stop \in {"no", "terminating", "joined", "failed"}
    /\ \A c \in Callers :
          /\ call[c].pc \in {"idle", "asked", "waiting", "stopping", "settled"}
          /\ call[c].pc = "waiting" => \/ c \in pending
                                       \/ \E i \in DOMAIN micro : micro[i].who = c
          /\ c \in pending => call[c].pc = "waiting"
    /\ stop # "no" => Failed

(* The supervisor proves the kernel idle before it answers a run, also     *)
(* after an interrupt: a run that has a result is one the kernel has       *)
(* finished, so that the next run has the kernel for itself                *)
(* (interrupted_terminal, handle_execute).                                 *)
Over(r) == kernel.msg = r => kernel.idled /\ kernel.replied
AnsweredRunsAreOver ==
    /\ TypeOK
    /\ \A r \in Runs : call[r].kind = "execute" /\ call[r].res \in {"ok", "error"} => Over(r)

(* A result holds what the kernel printed for that very run, in order and  *)
(* from the first; a run that succeeded holds all of it, and no error      *)
(* (matching_message, MutationLedger): nothing of an inspection or of an   *)
(* interrupted run before it is taken for it.                              *)
ResultsAreTheRunsOwn ==
    \A r \in Runs : call[r].kind = "execute" =>
       /\ call[r].res = "ok" => call[r].outs = made[r] /\ ~PrintedError(r)
       /\ call[r].res = "error" => \/ IsPrefix(call[r].outs, made[r])
                                   \/ call[r].outs = Append(made[r], "error")

(* A call that throws has seen its process stop, or reports that it did    *)
(* not (README of the package: cancellation and protocol failure terminate *)
(* the supervisor and wait for it).                                        *)
ThrownCallsAreJoined ==
    \A c \in Callers : call[c].pc = "settled" /\ (call[c].res = "thrown" \/ c = Shutdown) =>
        ~Alive \/ stop = "failed"

(* The shutdown that retires a kernel is not failed by the run it ends:    *)
(* the run closes the connection first, and shutdown then sends nothing    *)
(* (beginKernelRetirement queues the call of shutdown behind the abort).   *)
RunsDoNotCutTheShutdown == call[Shutdown].why \notin Runs

(* Every call of the provider comes to an end, whatever the supervisor and *)
(* the kernel do.                                                          *)
CallsEnd == \A c \in Callers :
    call[c].pc \in {"asked", "waiting", "stopping"} ~> call[c].pc = "settled"
=============================================================================
