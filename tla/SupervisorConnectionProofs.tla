---------------------- MODULE SupervisorConnectionProofs ----------------------
(***************************************************************************)
(* Proofs about SupervisorConnection, for any number of runs and outputs   *)
(* and every set of faults.                                                *)
(*                                                                         *)
(* Table is what Node knows of its requests: one that was made is either   *)
(* pending or has its answer among the continuations, and a retirement     *)
(* runs behind the rejections of the runs it aborts.  Service follows a    *)
(* request through the supervisor: in the inbox, at hand, or answered, and *)
(* what the kernel has printed for it against what has been read of that.  *)
(* Answers says that an answer, wherever it is, is one of a run the kernel *)
(* has finished, with that run's outputs.                                  *)
(***************************************************************************)
EXTENDS SupervisorConnection, SequenceTheorems, FiniteSetTheorems, TLAPS

-----------------------------------------------------------------------------
(* Types. *)

Texts == {"text", "error"}
ReplyRecords == [id : Callers \cup {Nobody}, kind : {"ok", "error", "rpc-error", "garbage"},
            outs : Seq(Texts)]
EntryRecords == [who : Callers, what : {"begin", "reject", "resolve"},
            why : Callers \cup {Nobody}, reply : ReplyRecords \cup {Nobody}]
CallRecords == [pc : {"idle", "asked", "waiting", "stopping", "settled"},
                kind : {"none", "start", "execute", "inspect", "shutdown"},
                res : {"none", "ok", "error", "thrown"},
                outs : Seq(Texts), why : Callers \cup {Nobody}]
SupRecords == [at : {"reading", "start", "execute", "inspect", "shutdown", "collect", "reply",
                     "interrupted", "last", "inspecting", "gone"},
               who : Callers \cup {Nobody}, ledger : Seq(Texts), failed : BOOLEAN,
               code : {"none", "limit", "timeout"}]
KernelRecords == [msg : Runs \cup {Nobody}, idled : BOOLEAN, replied : BOOLEAN]
IopubRecords == [of : Runs, what : Texts \cup {"idle"}]
ShellRecords == [of : Runs, what : {"ok", "error"}]

NodeTyped ==
    /\ call \in [Callers -> CallRecords]
    /\ pending \subseteq Callers /\ IsFiniteSet(pending)
    /\ closed \in Callers \cup {Nobody}
    /\ stop \in {"no", "terminating", "joined", "failed"}
    /\ micro \in Seq(EntryRecords)
    /\ inbox \in Seq(Callers) /\ outbox \in Seq(ReplyRecords)

PythonTyped ==
    /\ sup \in SupRecords /\ kernel \in KernelRecords
    /\ iopub \in Seq(IopubRecords) /\ shell \in Seq(ShellRecords)
    /\ made \in [Runs -> Seq(Texts)]

-----------------------------------------------------------------------------
(* Node's requests. *)

Made(c) == call[c].pc \notin {"idle", "asked"}

(* What is known of a call by how far it has come. *)
CallInv ==
    /\ \A c \in Callers :
          /\ c \in pending => call[c].pc = "waiting"
          /\ call[c].pc = "waiting" => \/ c \in pending
                                       \/ \E i \in 1 .. Len(micro) : micro[i].who = c
          /\ call[c].res # "none" => call[c].pc \in {"stopping", "settled"}
          /\ call[c].pc = "settled" /\ (call[c].res = "thrown" \/ c = Shutdown) =>
                stop \in {"joined", "failed"}
    /\ call[Start].pc # "idle" => call[Start].kind = "start"
    /\ call[Shutdown].pc # "idle" => call[Shutdown].kind = "shutdown"
    /\ \A r \in Runs : call[r].pc # "idle" => call[r].kind \in {"execute", "inspect"}

(* Continuations: those of answers, and the one shutdown that was asked    *)
(* for, which comes behind what it aborts.                                 *)
MicroInv ==
    \A i \in 1 .. Len(micro) :
        /\ micro[i].what = "begin" =>
              /\ micro[i].who = Shutdown /\ call[Shutdown].pc = "asked"
              /\ \A j \in 1 .. Len(micro) :
                    /\ micro[j].what = "begin" => j = i
                    /\ j > i => micro[j].who \notin Runs
        /\ micro[i].what # "begin" => Made(micro[i].who) /\ micro[i].who \notin pending
        /\ micro[i].what = "reject" /\ micro[i].who = Shutdown => micro[i].why \notin Runs
        /\ micro[i].what = "resolve" => /\ micro[i].reply \in ReplyRecords
                                        /\ micro[i].reply.kind \in {"ok", "error"}
                                        /\ micro[i].reply.id = micro[i].who

(* Once the shutdown is asked for no run is pending, and once it has begun *)
(* none is being rejected.                                                 *)
ShutdownInv ==
    /\ call[Shutdown].pc # "idle" => pending \cap Runs = {}
    /\ Made(Shutdown) => \A i \in 1 .. Len(micro) : micro[i].who \notin Runs
    /\ call[Shutdown].why \notin Runs

StopInv ==
    /\ Failed => pending = {}
    /\ stop # "no" => Failed
    /\ stop = "joined" => ~Alive

Table == NodeTyped /\ CallInv /\ MicroInv /\ ShutdownInv /\ StopInv

-----------------------------------------------------------------------------
(* The supervisor and the kernel. *)

InInbox(c) == \E i \in 1 .. Len(inbox) : inbox[i] = c
InboxInv ==
    /\ \A i \in 1 .. Len(inbox) : Made(inbox[i])
    /\ \A i, j \in 1 .. Len(inbox) : inbox[i] = inbox[j] => i = j

AtKernel == {"collect", "reply", "interrupted", "last", "inspecting"}
Executes == {"execute", "collect", "reply", "interrupted", "last"}

(* The request at hand. *)
SupInv ==
    /\ sup.at \in {"reading", "gone"} <=> sup.who = Nobody
    /\ sup.who # Nobody => Made(sup.who) /\ ~InInbox(sup.who)
    /\ sup.at \in {"start", "shutdown"} => sup.who \notin Runs
    /\ sup.at \in Executes => sup.who \in Runs /\ call[sup.who].kind = "execute"
    /\ sup.at \in {"inspect", "inspecting"} => sup.who \in Runs /\ call[sup.who].kind = "inspect"
    /\ sup.at \in AtKernel => kernel.msg = sup.who

(* A run the kernel has not been given. *)
Unsent(r) == \/ call[r].pc = "idle" \/ InInbox(r)
             \/ sup.who = r /\ sup.at \in {"execute", "inspect"}

(* Its messages come after the run was sent, the idle status after         *)
(* everything it prints, and its reply tells whether it failed.            *)
KernelInv ==
    /\ \A r \in Runs : Unsent(r) =>
          /\ kernel.msg # r /\ made[r] = <<>>
          /\ \A i \in 1 .. Len(iopub) : iopub[i].of # r
          /\ \A i \in 1 .. Len(shell) : shell[i].of # r
    /\ \A i \in 1 .. Len(iopub) : iopub[i].of = kernel.msg /\ iopub[i].what = "idle" => kernel.idled
    /\ \A i \in 1 .. Len(shell) : shell[i].of = kernel.msg =>
          kernel.replied /\ (shell[i].what = "ok" => ~PrintedError(kernel.msg))

Began(l, m) == Len(l) =< Len(m) /\ \A j \in 1 .. Len(l) : m[j] = l[j]

(* The first n messages are not of the request at hand, the others are     *)
(* what it has printed beyond the ledger, and its idle status at the end.  *)
Unread(n) ==
    LET r == sup.who  l == Len(sup.ledger)  m == Len(made[r])
    IN  /\ Len(iopub) = n + (m - l) + (IF kernel.idled THEN 1 ELSE 0)
        /\ \A i \in 1 .. n : iopub[i].of # r
        /\ \A i \in (n + 1) .. Len(iopub) :
              /\ iopub[i].of = r
              /\ i - n + l =< m => iopub[i].what = made[r][i - n + l]
              /\ i - n + l > m => iopub[i].what = "idle"

LedgerInv ==
    /\ sup.at = "execute" => sup.ledger = <<>> /\ ~sup.failed
    /\ sup.at \in {"collect", "reply", "interrupted", "last"} => Began(sup.ledger, made[sup.who])
    /\ sup.at \in {"collect", "reply"} =>
          (sup.failed <=> \E j \in 1 .. Len(sup.ledger) : sup.ledger[j] = "error")
    /\ sup.at = "collect" => \E n \in Nat : Unread(n)
    /\ sup.at = "reply" => Len(sup.ledger) = Len(made[sup.who])
    /\ sup.at \in {"reply", "last"} => kernel.idled

Service == PythonTyped /\ InboxInv /\ SupInv /\ KernelInv /\ LedgerInv

-----------------------------------------------------------------------------
(* Answers on their way, and those that have arrived. *)

IsAnswer(a) ==
    \/ \E i \in 1 .. Len(outbox) : outbox[i] = a
    \/ \E i \in 1 .. Len(micro) : micro[i].what = "resolve" /\ micro[i].reply = a
    \/ a.kind = call[a.id].res /\ a.outs = call[a.id].outs

Sealed(r) == Made(r) /\ ~InInbox(r) /\ sup.who # r

Right(a) ==
    /\ a.kind = "ok" => a.outs = made[a.id] /\ ~PrintedError(a.id)
    /\ a.kind = "error" => Began(a.outs, made[a.id]) \/ a.outs = Append(made[a.id], "error")

Sound(a) == Sealed(a.id) /\ (call[a.id].kind = "execute" => Over(a.id) /\ Right(a))

ResultsOfRuns == {a \in ReplyRecords : a.id \in Runs /\ a.kind \in {"ok", "error"}}
Answers == \A a \in ResultsOfRuns : IsAnswer(a) => Sound(a)

Inv == Table /\ Service /\ Answers

-----------------------------------------------------------------------------
(* The continuations a failure adds, and updates of a call. *)

(* Every pending request is rejected, and nobody else (RpcConnection.fail). *)
LEMMA Rejecting ==
    ASSUME NEW cs, cs \subseteq Callers, IsFiniteSet(cs), NEW why \in Callers \cup {Nobody}
    PROVE  /\ Rejections(cs, why) \in Seq(EntryRecords)
           /\ \A i \in 1 .. Len(Rejections(cs, why)) :
                 /\ Rejections(cs, why)[i].who \in cs
                 /\ Rejections(cs, why)[i].what = "reject"
                 /\ Rejections(cs, why)[i].why = why
           /\ \A c \in cs : \E i \in 1 .. Len(Rejections(cs, why)) :
                 Rejections(cs, why)[i].who = c
<1> DEFINE n == Cardinality(cs)
           f == SetToSeq(cs)
<1>1. n \in Nat /\ ExistsBijection(1 .. n, cs)
  BY FS_CardinalityType
<1>2. PICK g : g \in Bijection(1 .. n, cs)
  BY <1>1 DEF ExistsBijection
<1>3. g \in [1 .. n -> cs] /\ IsInjective(g)
  BY <1>2 DEF Bijection, Injection
<1>4. f \in [1 .. n -> cs] /\ IsInjective(f)
  BY <1>3 DEF SetToSeq
<1>5. f \in Injection(1 .. n, cs)
  BY <1>4 DEF Injection
<1>6. Cardinality(1 .. n) = n
  BY <1>1, FS_Interval
<1>7. f \in Surjection(1 .. n, cs)
  BY <1>5, <1>6, FS_Injection
<1>8. \A c \in cs : \E i \in 1 .. n : f[i] = c
  BY <1>7 DEF Surjection
<1>9. Len(f) = n
  BY <1>1, <1>4
<1>10. Rejections(cs, why) = [i \in 1 .. n |-> Rejection(f[i], why)]
  BY <1>9 DEF Rejections
<1>11. \A i \in 1 .. n : f[i] \in cs
  BY <1>4
<1> HIDE DEF f, n
<1>12. \A i \in 1 .. n : /\ Rejection(f[i], why) \in EntryRecords
                         /\ Rejection(f[i], why).who = f[i]
                         /\ Rejection(f[i], why).what = "reject"
                         /\ Rejection(f[i], why).why = why
  BY <1>11 DEF Rejection, EntryRecords
<1>13. /\ Rejections(cs, why) \in Seq(EntryRecords)
       /\ Len(Rejections(cs, why)) = n
       /\ \A i \in 1 .. n : Rejections(cs, why)[i] = Rejection(f[i], why)
  BY <1>1, <1>10, <1>12
<1>14. QED
  BY <1>8, <1>11, <1>12, <1>13

(* The connection fails: it has a reason, and the pending requests are     *)
(* rejected behind the continuations that were waiting (fail).             *)
LEMMA Failing ==
    ASSUME NodeTyped, NEW why \in Callers, NEW rest \in Seq(EntryRecords), Fail(why, rest)
    PROVE  /\ closed' \in Callers /\ closed' = FirstReason(why)
           /\ pending' = {} /\ outbox' = <<>>
           /\ micro' \in Seq(EntryRecords) /\ Len(micro') >= Len(rest)
           /\ \A i \in 1 .. Len(rest) : micro'[i] = rest[i]
           /\ \A i \in 1 .. Len(micro') : i > Len(rest) =>
                 /\ micro'[i].who \in pending /\ micro'[i].what = "reject"
                 /\ micro'[i].why = closed'
           /\ \A c \in pending : \E i \in 1 .. Len(micro') : micro'[i].who = c
<1> DEFINE R == Rejections(pending, FirstReason(why))
<1>1. FirstReason(why) \in Callers
  BY DEF NodeTyped, FirstReason, Failed
<1>2. /\ R \in Seq(EntryRecords)
      /\ \A i \in 1 .. Len(R) : R[i].who \in pending /\ R[i].what = "reject"
                                /\ R[i].why = FirstReason(why)
      /\ \A c \in pending : \E i \in 1 .. Len(R) : R[i].who = c
  BY <1>1, Rejecting DEF NodeTyped
<1>3. micro' = rest \o R /\ closed' = FirstReason(why) /\ pending' = {} /\ outbox' = <<>>
  BY DEF Fail
<1> HIDE DEF R
<1>4. /\ micro' \in Seq(EntryRecords) /\ Len(micro') = Len(rest) + Len(R)
      /\ \A i \in 1 .. Len(rest) : micro'[i] = rest[i]
      /\ \A i \in 1 .. Len(R) : micro'[Len(rest) + i] = R[i]
  BY <1>2, <1>3
<1>5. Len(rest) \in Nat /\ Len(R) \in Nat
  BY <1>2
<1>6. ASSUME NEW i \in 1 .. Len(micro'), i > Len(rest)
      PROVE  micro'[i].who \in pending /\ micro'[i].what = "reject" /\ micro'[i].why = closed'
  <2>1. i - Len(rest) \in 1 .. Len(R) /\ i = Len(rest) + (i - Len(rest))
    BY <1>4, <1>5, <1>6
  <2>2. micro'[i] = R[i - Len(rest)]
    BY <1>4, <2>1
  <2>3. QED
    BY <1>2, <1>3, <2>1, <2>2
<1>7. ASSUME NEW c \in pending  PROVE \E i \in 1 .. Len(micro') : micro'[i].who = c
  <2>1. PICK i \in 1 .. Len(R) : R[i].who = c
    BY <1>2
  <2>2. Len(rest) + i \in 1 .. Len(micro') /\ micro'[Len(rest) + i] = R[i]
    BY <1>4, <1>5
  <2>3. QED
    BY <2>1, <2>2
<1>8. Len(micro') >= Len(rest)
  BY <1>4, <1>5
<1>9. QED
  BY <1>1, <1>3, <1>4, <1>6, <1>7, <1>8, Zenon

LEMMA CallUpdate ==
    ASSUME call \in [Callers -> CallRecords], NEW c \in Callers, NEW r \in CallRecords,
           call' = [call EXCEPT ![c] = r]
    PROVE  /\ call' \in [Callers -> CallRecords] /\ call'[c] = r
           /\ \A d \in Callers : d # c => call'[d] = call[d]
OBVIOUS

-----------------------------------------------------------------------------
(* Node keeps its table: one lemma for each of the provider's steps. *)

LEMMA CallFields ==
    ASSUME NodeTyped, NEW c \in Callers
    PROVE  /\ call[c] \in CallRecords
           /\ call[c].pc \in {"idle", "asked", "waiting", "stopping", "settled"}
           /\ call[c].res \in {"none", "ok", "error", "thrown"}
           /\ call[c].kind \in {"none", "start", "execute", "inspect", "shutdown"}
BY DEF NodeTyped, CallRecords

LEMMA CallersAreCallers ==
    /\ Start \in Callers /\ Shutdown \in Callers /\ Start # Shutdown
    /\ Start \notin Runs /\ Shutdown \notin Runs /\ Runs \subseteq Callers
    /\ Nobody \notin Callers /\ Nobody \notin Runs /\ Nobody # Start /\ Nobody # Shutdown
BY ConnectionAssumption DEF Callers

(* A request that the failed connection refuses, or that is written. *)
LEMMA Requesting ==
    ASSUME NodeTyped, NEW c \in Callers, NEW rest \in Seq(EntryRecords), Request(c, rest)
    PROVE  \/ /\ Failed /\ pending' = pending /\ inbox' = inbox
              /\ micro' \in Seq(EntryRecords) /\ Len(micro') = Len(rest) + 1
              /\ \A i \in 1 .. Len(rest) : micro'[i] = rest[i]
              /\ micro'[Len(rest) + 1] = Rejection(c, closed)
           \/ /\ ~Failed /\ pending' = pending \cup {c} /\ micro' = rest
              /\ inbox' \in Seq(Callers)
              /\ \/ inbox' = inbox
                 \/ inbox' = Append(inbox, c)
<1>1. CASE Failed
  <2>1. Rejection(c, closed) \in EntryRecords
    BY DEF NodeTyped, Rejection, EntryRecords
  <2>2. micro' = Append(rest, Rejection(c, closed)) /\ pending' = pending /\ inbox' = inbox
    BY <1>1 DEF Request
  <2>3. /\ Append(rest, Rejection(c, closed)) \in Seq(EntryRecords)
        /\ Len(Append(rest, Rejection(c, closed))) = Len(rest) + 1
        /\ \A i \in 1 .. Len(rest) : Append(rest, Rejection(c, closed))[i] = rest[i]
        /\ Append(rest, Rejection(c, closed))[Len(rest) + 1] = Rejection(c, closed)
    BY <2>1, AppendProperties
  <2> DEFINE a == Append(rest, Rejection(c, closed))
  <2>4. /\ a \in Seq(EntryRecords) /\ Len(a) = Len(rest) + 1
        /\ \A i \in 1 .. Len(rest) : a[i] = rest[i]
        /\ a[Len(rest) + 1] = Rejection(c, closed)
    BY <2>3
  <2>5. micro' = a
    BY <2>2
  <2> HIDE DEF a
  <2>6. /\ micro' \in Seq(EntryRecords) /\ Len(micro') = Len(rest) + 1
        /\ \A i \in 1 .. Len(rest) : micro'[i] = rest[i]
        /\ micro'[Len(rest) + 1] = Rejection(c, closed)
    BY <2>4, <2>5
  <2>7. QED
    BY <1>1, <2>2, <2>6, Zenon
<1>2. CASE ~Failed
  <2>1. /\ pending' = pending \cup {c} /\ micro' = rest
        /\ inbox' = IF Alive THEN Append(inbox, c) ELSE inbox
    BY <1>2 DEF Request
  <2>2. inbox \in Seq(Callers) /\ Append(inbox, c) \in Seq(Callers)
    BY DEF NodeTyped
  <2>3. inbox' = inbox \/ inbox' = Append(inbox, c)
    BY <2>1, Zenon
  <2>4. QED
    BY <1>2, <2>1, <2>2, <2>3
<1>3. QED
  BY <1>1, <1>2

LEMMA BeginTable ==
    ASSUME Table, Event, NEW c \in Runs \cup {Start}, NEW kind \in {"start", "execute", "inspect"},
           c = Start <=> kind = "start", c \in Runs => call[Shutdown].pc = "idle",
           Begin(c, kind)
    PROVE  Table'
<1> DEFINE r == [call[c] EXCEPT !.pc = "waiting", !.kind = kind]
<1> USE CallersAreCallers
<1>1. c \in Callers /\ NodeTyped /\ call[c].pc = "idle"
  BY DEF Table, Begin
<1>2. /\ r \in CallRecords /\ r.pc = "waiting" /\ r.kind = kind /\ r.res = call[c].res
      /\ r.why = call[c].why
  BY <1>1, CallFields DEF CallRecords
<1>3. call' = [call EXCEPT ![c] = r]
  BY <1>1 DEF Begin, NodeTyped
<1> HIDE DEF r
<1>4. /\ call' \in [Callers -> CallRecords] /\ call'[c] = r
      /\ \A d \in Callers : d # c => call'[d] = call[d]
  BY <1>1, <1>2, <1>3, CallUpdate DEF NodeTyped
<1>5. micro = <<>> /\ <<>> \in Seq(EntryRecords)
  BY DEF Event
<1>6. \/ /\ Failed /\ pending' = pending /\ inbox' = inbox
         /\ micro' \in Seq(EntryRecords) /\ Len(micro') = 1
         /\ micro'[1] = Rejection(c, closed)
      \/ /\ ~Failed /\ pending' = pending \cup {c} /\ micro' = <<>>
         /\ inbox' \in Seq(Callers)
  <2>1. Request(c, <<>>) /\ Len(<<>>) + 1 = 1
    BY DEF Begin
  <2>2. \/ /\ Failed /\ pending' = pending /\ inbox' = inbox
           /\ micro' \in Seq(EntryRecords) /\ Len(micro') = Len(<<>>) + 1
           /\ micro'[Len(<<>>) + 1] = Rejection(c, closed)
        \/ /\ ~Failed /\ pending' = pending \cup {c} /\ micro' = <<>>
           /\ inbox' \in Seq(Callers)
           /\ inbox' = inbox \/ inbox' = Append(inbox, c)
    BY <1>1, <1>5, <2>1, Requesting, Zenon
  <2>3. QED
    BY <2>1, <2>2
<1>7. closed' = closed /\ stop' = stop /\ outbox' = outbox /\ sup' = sup
  BY DEF Begin, python
<1>8. pending' \subseteq Callers /\ IsFiniteSet(pending') /\ micro' \in Seq(EntryRecords)
      /\ inbox' \in Seq(Callers)
  <2>1. IsFiniteSet(pending \cup {c})
    BY <1>1, FS_AddElement DEF NodeTyped
  <2>2. QED
    BY <1>1, <1>5, <1>6, <2>1 DEF NodeTyped
<1>9. NodeTyped'
  BY <1>1, <1>4, <1>7, <1>8 DEF NodeTyped
<1>10. /\ Rejection(c, closed).who = c /\ Rejection(c, closed).what = "reject"
  BY DEF Rejection
<1>11. CallInv'
  <2>1. CallInv
    BY DEF Table
  <2>2. r.res = "none"
    BY <1>1, <1>2, <2>1 DEF CallInv
  <2>3. r.pc # "settled" /\ r.pc # "idle"
    BY <1>2
  <2>4. ASSUME NEW d \in Callers
        PROVE  /\ d \in pending' => call'[d].pc = "waiting"
               /\ call'[d].pc = "waiting" => \/ d \in pending'
                                             \/ \E i \in 1 .. Len(micro') : micro'[i].who = d
               /\ call'[d].res # "none" => call'[d].pc \in {"stopping", "settled"}
               /\ call'[d].pc = "settled" /\ (call'[d].res = "thrown" \/ d = Shutdown) =>
                      stop' \in {"joined", "failed"}
    <3>1. CASE d = c
      <4>1. c \in pending => call[c].pc = "waiting"
        BY <1>1, <2>1 DEF CallInv
      <4>2. c \notin pending
        BY <1>1, <4>1
      <4>3. c \in pending' \/ \E i \in 1 .. Len(micro') : micro'[i].who = c
        BY <1>6, <1>10
      <4>4. QED
        BY <1>2, <1>4, <2>2, <3>1, <4>3
    <3>2. CASE d # c
      BY <1>4, <1>5, <1>6, <1>7, <2>1, <3>2 DEF CallInv
    <3>3. QED
      BY <3>1, <3>2
  <2>5. /\ call'[Start].pc # "idle" => call'[Start].kind = "start"
        /\ call'[Shutdown].pc # "idle" => call'[Shutdown].kind = "shutdown"
        /\ \A q \in Runs : call'[q].pc # "idle" => call'[q].kind \in {"execute", "inspect"}
    BY <1>2, <1>4, <2>1 DEF CallInv
  <2>6. QED
    BY <2>4, <2>5 DEF CallInv
<1>12. MicroInv'
  BY <1>1, <1>2, <1>4, <1>5, <1>6, <1>10 DEF MicroInv, Made, Table, CallInv
<1>13. ShutdownInv'
  <2>1. ShutdownInv /\ StopInv /\ CallInv
    BY DEF Table
  <2>2. call'[Shutdown] = call[Shutdown]
    BY <1>4
  <2>3. CASE c = Start
    BY <1>5, <1>6, <1>10, <2>1, <2>2, <2>3 DEF ShutdownInv, Made
  <2>4. CASE c # Start
    BY <2>1, <2>2, <2>4 DEF ShutdownInv, Made
  <2>5. QED
    BY <2>3, <2>4
<1>14. StopInv'
  BY <1>6, <1>7 DEF Table, StopInv, Failed, Alive
<1>15. QED
  BY <1>9, <1>11, <1>12, <1>13, <1>14 DEF Table

(* An event that takes requests from the table queues a continuation for   *)
(* each of them, and changes no call yet.                                  *)
LEMMA EventTable ==
    ASSUME Table, Event, UNCHANGED <<call, stop, inbox, sup>>,
           pending' \subseteq pending, closed' \in Callers \cup {Nobody},
           micro' \in Seq(EntryRecords), outbox' \in Seq(ReplyRecords),
           closed' # closed => pending' = {} /\ closed' # Nobody,
           \A i \in 1 .. Len(micro') :
              /\ micro'[i].who \in pending \ pending' /\ micro'[i].what # "begin"
              /\ micro'[i].what = "reject" /\ micro'[i].who = Shutdown => micro'[i].why \notin Runs
              /\ micro'[i].what = "resolve" => /\ micro'[i].reply \in ReplyRecords
                                               /\ micro'[i].reply.kind \in {"ok", "error"}
                                               /\ micro'[i].reply.id = micro'[i].who,
           \A c \in pending \ pending' : \E i \in 1 .. Len(micro') : micro'[i].who = c
    PROVE  Table'
<1>1. NodeTyped /\ CallInv /\ MicroInv /\ ShutdownInv /\ StopInv /\ micro = <<>>
  BY DEF Table, Event
<1>2. IsFiniteSet(pending')
  BY <1>1, FS_Subset DEF NodeTyped
<1>3. NodeTyped'
  BY <1>1, <1>2 DEF NodeTyped
<1>4. CallInv'
  <2>1. ASSUME NEW c \in Callers
        PROVE  /\ c \in pending' => call[c].pc = "waiting"
               /\ call[c].pc = "waiting" => \/ c \in pending'
                                            \/ \E i \in 1 .. Len(micro') : micro'[i].who = c
    BY <1>1 DEF CallInv
  <2>2. QED
    BY <1>1, <2>1 DEF CallInv
<1>5. \A i \in 1 .. Len(micro') : micro'[i].who \in pending /\ call[micro'[i].who].pc = "waiting"
  BY <1>1 DEF CallInv, NodeTyped
<1>6. MicroInv'
  BY <1>5 DEF MicroInv, Made
<1>7. ShutdownInv'
  <2>1. pending' \cap Runs \subseteq pending \cap Runs
    OBVIOUS
  <2>2. Made(Shutdown) => \A i \in 1 .. Len(micro') : micro'[i].who \notin Runs
    BY <1>1, <1>5 DEF ShutdownInv, Made
  <2>3. QED
    BY <1>1, <2>1, <2>2 DEF ShutdownInv, Made
<1>8. StopInv'
  BY <1>1 DEF StopInv, Failed, Alive
<1>9. QED
  BY <1>3, <1>4, <1>6, <1>7, <1>8 DEF Table

LEMMA OneEntry ==
    ASSUME NEW e \in EntryRecords
    PROVE  /\ <<e>> \in Seq(EntryRecords) /\ Len(<<e>>) = 1
           /\ \A i \in 1 .. Len(<<e>>) : <<e>>[i] = e
OBVIOUS

LEMMA CancelTable ==
    ASSUME Table, NEW c \in Callers, Cancel(c)
    PROVE  Table'
<1> DEFINE e == Rejection(c, Nobody)
<1>1. e \in EntryRecords /\ e.who = c /\ e.what = "reject" /\ e.why = Nobody
  BY DEF Rejection, EntryRecords
<1>2. e.what # "begin" /\ e.what # "resolve" /\ e.why \notin Runs
  BY <1>1, CallersAreCallers
<1> HIDE DEF e
<1>3. /\ Event /\ c \in pending /\ micro' = <<e>> /\ pending' = pending \ {c}
      /\ UNCHANGED <<call, stop, inbox, sup>> /\ closed' = closed /\ outbox' = outbox
  BY DEF Cancel, e, python
<1>4. closed \in Callers \cup {Nobody} /\ outbox \in Seq(ReplyRecords)
  BY DEF Table, NodeTyped
<1>5. micro' \in Seq(EntryRecords) /\ Len(micro') = 1 /\ \A i \in 1 .. Len(micro') : micro'[i] = e
  BY <1>1, <1>3, OneEntry
<1>6. pending \ pending' = {c} /\ pending' \subseteq pending
  BY <1>3
<1>7. \A i \in 1 .. Len(micro') :
         /\ micro'[i].who \in pending \ pending' /\ micro'[i].what # "begin"
         /\ micro'[i].what = "reject" /\ micro'[i].who = Shutdown => micro'[i].why \notin Runs
         /\ micro'[i].what = "resolve" => /\ micro'[i].reply \in ReplyRecords
                                          /\ micro'[i].reply.kind \in {"ok", "error"}
                                          /\ micro'[i].reply.id = micro'[i].who
  BY <1>1, <1>2, <1>5, <1>6
<1>8. \A d \in pending \ pending' : \E i \in 1 .. Len(micro') : micro'[i].who = d
  BY <1>1, <1>5, <1>6
<1>9. QED
  BY <1>3, <1>4, <1>5, <1>6, <1>7, <1>8, EventTable

(* While a shutdown is pending no run is, so no run's deadline fails it.   *)
LEMMA DeadlineTable ==
    ASSUME Table, NEW c \in Callers, Deadline(c)
    PROVE  Table'
<1> DEFINE e == Rejection(c, c)
           R == Rejections(pending \ {c}, c)
<1>1. NodeTyped /\ CallInv /\ ShutdownInv /\ StopInv /\ c \in pending /\ Event
  BY DEF Table, Deadline, Timed
<1>2. closed = Nobody /\ FirstReason(c) = c
  BY <1>1 DEF StopInv, FirstReason, Failed
<1>3. e \in EntryRecords /\ e.who = c /\ e.what = "reject" /\ e.why = c
  BY DEF Rejection, EntryRecords
<1>4. IsFiniteSet(pending \ {c}) /\ pending \ {c} \subseteq Callers
  BY <1>1, FS_RemoveElement DEF NodeTyped
<1>5. /\ R \in Seq(EntryRecords)
      /\ \A i \in 1 .. Len(R) : R[i].who \in pending \ {c} /\ R[i].what = "reject" /\ R[i].why = c
      /\ \A d \in pending \ {c} : \E i \in 1 .. Len(R) : R[i].who = d
  <2>1. c \in Callers \cup {Nobody}
    OBVIOUS
  <2> DEFINE S == pending \ {c}
             Q == Rejections(S, c)
  <2>2. IsFiniteSet(S) /\ S \subseteq Callers
    BY <1>4
  <2> HIDE DEF S
  <2>3. /\ Q \in Seq(EntryRecords)
        /\ \A i \in 1 .. Len(Q) : Q[i].who \in S /\ Q[i].what = "reject" /\ Q[i].why = c
        /\ \A d \in S : \E i \in 1 .. Len(Q) : Q[i].who = d
    BY <2>1, <2>2, Rejecting
  <2>4. QED
    BY <2>3, Zenon DEF S
<1>6. /\ closed' = c /\ pending' = {} /\ outbox' = <<>> /\ micro' = <<e>> \o R
      /\ UNCHANGED <<call, stop, inbox, sup>>
  BY <1>2 DEF Deadline, python
<1> HIDE DEF e, R
<1>7. /\ micro' \in Seq(EntryRecords) /\ Len(micro') = 1 + Len(R) /\ micro'[1] = e
      /\ \A i \in 1 .. Len(R) : micro'[1 + i] = R[i]
  BY <1>3, <1>5, <1>6
<1>8. Len(R) \in Nat
  BY <1>5
<1>9. \A i \in 1 .. Len(micro') : /\ micro'[i].who \in pending /\ micro'[i].what = "reject"
                                  /\ micro'[i].why = c
  <2>1. ASSUME NEW i \in 1 .. Len(micro')
        PROVE  /\ micro'[i].who \in pending /\ micro'[i].what = "reject" /\ micro'[i].why = c
    <3>1. CASE i = 1
      BY <1>1, <1>3, <1>7, <3>1
    <3>2. CASE i # 1
      <4>1. i - 1 \in 1 .. Len(R) /\ 1 + (i - 1) = i
        BY <1>7, <1>8, <3>2
      <4>2. micro'[i] = R[i - 1]
        BY <1>7, <4>1
      <4>3. QED
        BY <1>5, <4>1, <4>2
    <3>3. QED
      BY <3>1, <3>2
  <2>2. QED
    BY <2>1
<1>10. \A d \in pending : \E i \in 1 .. Len(micro') : micro'[i].who = d
  <2>1. ASSUME NEW d \in pending  PROVE \E i \in 1 .. Len(micro') : micro'[i].who = d
    <3>1. CASE d = c
      <4>1. 1 \in 1 .. Len(micro')
        BY <1>7, <1>8
      <4>2. QED
        BY <1>3, <1>7, <3>1, <4>1
    <3>2. CASE d # c
      <4>1. PICK i \in 1 .. Len(R) : R[i].who = d
        BY <1>5, <3>2
      <4>2. 1 + i \in 1 .. Len(micro') /\ micro'[1 + i] = R[i]
        BY <1>7, <1>8
      <4>3. QED
        BY <4>1, <4>2
    <3>3. QED
      BY <3>1, <3>2
  <2>2. QED
    BY <2>1
<1>11. Shutdown \in pending => c \notin Runs
  BY <1>1, CallersAreCallers DEF CallInv, ShutdownInv
<1>12. \A i \in 1 .. Len(micro') :
          /\ micro'[i].who \in pending \ pending' /\ micro'[i].what # "begin"
          /\ micro'[i].what = "reject" /\ micro'[i].who = Shutdown => micro'[i].why \notin Runs
          /\ micro'[i].what = "resolve" => /\ micro'[i].reply \in ReplyRecords
                                           /\ micro'[i].reply.kind \in {"ok", "error"}
                                           /\ micro'[i].reply.id = micro'[i].who
  BY <1>6, <1>9, <1>11
<1>13. pending' \subseteq pending /\ outbox' \in Seq(ReplyRecords) /\ closed' \in Callers \cup {Nobody}
       /\ closed' # Nobody
  BY <1>6, CallersAreCallers
<1>14. QED
  BY <1>1, <1>6, <1>7, <1>10, <1>12, <1>13, EventTable

(* The connection fails with no call to blame (garbage, exit).             *)
LEMMA LostTable ==
    ASSUME Table, Event, ~Failed, Fail(Start, <<>>), UNCHANGED <<call, stop, inbox, sup>>
    PROVE  Table'
<1>1. NodeTyped /\ Start \in Callers /\ Start \notin Runs /\ <<>> \in Seq(EntryRecords)
      /\ Len(<<>>) = 0
  BY CallersAreCallers DEF Table
<1>2. FirstReason(Start) = Start /\ Start # Nobody
  BY CallersAreCallers DEF FirstReason
<1>3. /\ closed' = Start /\ pending' = {} /\ outbox' = <<>> /\ micro' \in Seq(EntryRecords)
      /\ \A i \in 1 .. Len(micro') : i > 0 =>
            /\ micro'[i].who \in pending /\ micro'[i].what = "reject" /\ micro'[i].why = closed'
      /\ \A c \in pending : \E i \in 1 .. Len(micro') : micro'[i].who = c
  BY <1>1, <1>2, Failing
<1>4. \A i \in 1 .. Len(micro') :
         /\ micro'[i].who \in pending \ pending' /\ micro'[i].what # "begin"
         /\ micro'[i].what = "reject" /\ micro'[i].who = Shutdown => micro'[i].why \notin Runs
         /\ micro'[i].what = "resolve" => /\ micro'[i].reply \in ReplyRecords
                                          /\ micro'[i].reply.kind \in {"ok", "error"}
                                          /\ micro'[i].reply.id = micro'[i].who
  BY <1>1, <1>3
<1>5. pending' \subseteq pending /\ outbox' \in Seq(ReplyRecords)
      /\ closed' \in Callers \cup {Nobody} /\ closed' # Nobody
  BY <1>1, <1>2, <1>3
<1>6. QED
  BY <1>3, <1>4, <1>5, EventTable

LEMMA DeliverTable ==
    ASSUME Table, Deliver
    PROVE  Table'
<1> DEFINE reply == Head(outbox)
<1>1. NodeTyped /\ Event /\ ~Failed /\ outbox # <<>> /\ UNCHANGED <<call, stop, inbox, sup>>
  BY DEF Table, Deliver, python
<1>2. reply \in ReplyRecords /\ Tail(outbox) \in Seq(ReplyRecords)
  BY <1>1, HeadTailProperties DEF NodeTyped
<1>3. CASE reply.kind = "garbage"
  BY <1>1, <1>3, LostTable DEF Deliver
<1>4. CASE reply.kind # "garbage"
  <2>1. /\ outbox' = Tail(outbox) /\ pending' = pending \ {reply.id} /\ closed' = closed
        /\ micro' = IF reply.id \notin pending THEN <<>>
                    ELSE IF reply.kind = "rpc-error" THEN <<Rejection(reply.id, Nobody)>>
                    ELSE <<Resolution(reply)>>
    BY <1>4 DEF Deliver
  <2> HIDE DEF reply
  <2>2. closed' \in Callers \cup {Nobody} /\ pending' \subseteq pending
    BY <1>1, <2>1 DEF NodeTyped
  <2>3. CASE reply.id \notin pending
    <3>1. micro' = <<>> /\ pending \ pending' = {} /\ <<>> \in Seq(EntryRecords) /\ Len(<<>>) = 0
      BY <2>1, <2>3
    <3>2. QED
      BY <1>1, <1>2, <2>1, <2>2, <3>1, EventTable
  <2>4. CASE reply.id \in pending /\ reply.kind = "rpc-error"
    <3> DEFINE e == Rejection(reply.id, Nobody)
    <3>1. reply.id \in Callers
      BY <1>1, <2>4 DEF NodeTyped
    <3>2. e \in EntryRecords /\ e.who = reply.id /\ e.what = "reject" /\ e.why = Nobody
      BY <3>1 DEF Rejection, EntryRecords
    <3>3. e.what # "begin" /\ e.what # "resolve" /\ e.why \notin Runs
      BY <3>2, CallersAreCallers
    <3>4. micro' = <<e>>
      BY <2>1, <2>4
    <3> HIDE DEF e
    <3>5. micro' \in Seq(EntryRecords) /\ Len(micro') = 1 /\ \A i \in 1 .. Len(micro') : micro'[i] = e
      BY <3>2, <3>4, OneEntry
    <3>6. pending \ pending' = {reply.id}
      BY <2>1, <2>4
    <3>7. \A i \in 1 .. Len(micro') :
             /\ micro'[i].who \in pending \ pending' /\ micro'[i].what # "begin"
             /\ micro'[i].what = "reject" /\ micro'[i].who = Shutdown => micro'[i].why \notin Runs
             /\ micro'[i].what = "resolve" => /\ micro'[i].reply \in ReplyRecords
                                              /\ micro'[i].reply.kind \in {"ok", "error"}
                                              /\ micro'[i].reply.id = micro'[i].who
      BY <3>2, <3>3, <3>5, <3>6
    <3>8. \A d \in pending \ pending' : \E i \in 1 .. Len(micro') : micro'[i].who = d
      BY <3>2, <3>5, <3>6
    <3>9. QED
      BY <1>1, <1>2, <2>1, <2>2, <3>5, <3>7, <3>8, EventTable
  <2>5. CASE reply.id \in pending /\ reply.kind # "rpc-error"
    <3> DEFINE e == Resolution(reply)
    <3>1. reply.id \in Callers /\ reply.kind \in {"ok", "error"}
      BY <1>1, <1>2, <1>4, <2>5 DEF NodeTyped, ReplyRecords, reply
    <3>2. e \in EntryRecords /\ e.who = reply.id /\ e.what = "resolve" /\ e.reply = reply
      BY <1>2, <3>1 DEF Resolution, EntryRecords
    <3>3. e.what # "begin" /\ e.what # "reject"
      BY <3>2
    <3>4. micro' = <<e>>
      BY <2>1, <2>5
    <3> HIDE DEF e
    <3>5. micro' \in Seq(EntryRecords) /\ Len(micro') = 1 /\ \A i \in 1 .. Len(micro') : micro'[i] = e
      BY <3>2, <3>4, OneEntry
    <3>6. pending \ pending' = {reply.id}
      BY <2>1, <2>5
    <3>7. \A i \in 1 .. Len(micro') :
             /\ micro'[i].who \in pending \ pending' /\ micro'[i].what # "begin"
             /\ micro'[i].what = "reject" /\ micro'[i].who = Shutdown => micro'[i].why \notin Runs
             /\ micro'[i].what = "resolve" => /\ micro'[i].reply \in ReplyRecords
                                              /\ micro'[i].reply.kind \in {"ok", "error"}
                                              /\ micro'[i].reply.id = micro'[i].who
      BY <1>2, <3>1, <3>2, <3>3, <3>5, <3>6
    <3>8. \A d \in pending \ pending' : \E i \in 1 .. Len(micro') : micro'[i].who = d
      BY <3>2, <3>5, <3>6
    <3>9. QED
      BY <1>1, <1>2, <2>1, <2>2, <3>5, <3>7, <3>8, EventTable
  <2>6. QED
    BY <2>3, <2>4, <2>5
<1>5. QED
  BY <1>3, <1>4

(* A retirement rejects every run that is pending, and then asks for the   *)
(* shutdown (beginKernelRetirement).                                       *)
LEMMA RetireTable ==
    ASSUME Table, Retire
    PROVE  Table'
<1> DEFINE r == [call[Shutdown] EXCEPT !.pc = "asked", !.kind = "shutdown"]
           S == pending \cap (Runs \cup {Start})
           A == Rejections(S, Nobody)
           b == Beginning(Shutdown)
<1> USE CallersAreCallers
<1>1. /\ NodeTyped /\ CallInv /\ MicroInv /\ ShutdownInv /\ StopInv /\ micro = <<>>
      /\ call[Start].res = "ok" /\ call[Shutdown].pc = "idle"
  BY DEF Table, Retire, Event, Ready
<1>2. /\ r \in CallRecords /\ r.pc = "asked" /\ r.kind = "shutdown"
      /\ r.res = call[Shutdown].res /\ r.why = call[Shutdown].why
  BY <1>1, CallFields DEF CallRecords
<1>3. call' = [call EXCEPT ![Shutdown] = r]
  BY <1>1 DEF Retire, NodeTyped
<1> HIDE DEF r
<1>4. /\ call' \in [Callers -> CallRecords] /\ call'[Shutdown] = r
      /\ \A d \in Callers : d # Shutdown => call'[d] = call[d]
  BY <1>1, <1>2, <1>3, CallUpdate DEF NodeTyped
<1>5. Start \notin pending /\ Shutdown \notin pending
  BY <1>1 DEF CallInv
<1>6. S = pending \cap Runs /\ S \subseteq Callers /\ IsFiniteSet(S)
  BY <1>1, <1>5, FS_Subset DEF NodeTyped
<1>7. Aborted = A
  BY DEF Aborted
<1> HIDE DEF S
<1>8. /\ A \in Seq(EntryRecords)
      /\ \A i \in 1 .. Len(A) : A[i].who \in S /\ A[i].what = "reject" /\ A[i].why = Nobody
      /\ \A d \in S : \E i \in 1 .. Len(A) : A[i].who = d
  <2>1. Nobody \in Callers \cup {Nobody}
    OBVIOUS
  <2>2. S \subseteq Callers /\ IsFiniteSet(S)
    BY <1>6
  <2>3. /\ Rejections(S, Nobody) \in Seq(EntryRecords)
        /\ \A i \in 1 .. Len(Rejections(S, Nobody)) :
              /\ Rejections(S, Nobody)[i].who \in S /\ Rejections(S, Nobody)[i].what = "reject"
              /\ Rejections(S, Nobody)[i].why = Nobody
        /\ \A d \in S : \E i \in 1 .. Len(Rejections(S, Nobody)) : Rejections(S, Nobody)[i].who = d
    <3> HIDE DEF A
    <3>1. QED
      BY <2>1, <2>2, Rejecting
  <2>4. QED
    BY <2>3
<1> HIDE DEF A
<1>9. /\ b \in EntryRecords /\ b.what = "begin" /\ b.who = Shutdown
  BY DEF Beginning, EntryRecords
<1>10. micro' = Append(A, b) /\ pending' = pending \ Runs
       /\ closed' = closed /\ stop' = stop /\ inbox' = inbox /\ outbox' = outbox /\ sup' = sup
  BY <1>7 DEF Retire, Retirement, python
<1> HIDE DEF b
<1>11. /\ micro' \in Seq(EntryRecords) /\ Len(micro') = Len(A) + 1 /\ Len(A) \in Nat
       /\ \A i \in 1 .. Len(A) : micro'[i] = A[i]
       /\ micro'[Len(A) + 1] = b
  BY <1>8, <1>9, <1>10, AppendProperties
<1>12. IsFiniteSet(pending') /\ pending' \subseteq Callers
  BY <1>1, <1>10, FS_Subset DEF NodeTyped
<1>13. NodeTyped'
  BY <1>1, <1>4, <1>10, <1>11, <1>12 DEF NodeTyped
<1>14. CallInv'
  <2>1. ASSUME NEW d \in Callers
        PROVE  /\ d \in pending' => call'[d].pc = "waiting"
               /\ call'[d].pc = "waiting" => \/ d \in pending'
                                             \/ \E i \in 1 .. Len(micro') : micro'[i].who = d
               /\ call'[d].res # "none" => call'[d].pc \in {"stopping", "settled"}
               /\ call'[d].pc = "settled" /\ (call'[d].res = "thrown" \/ d = Shutdown) =>
                      stop' \in {"joined", "failed"}
    <3>1. CASE d = Shutdown
      BY <1>1, <1>2, <1>4, <1>5, <1>10, <3>1 DEF CallInv
    <3>2. CASE d # Shutdown
      <4>1. call[d].pc = "waiting" => d \in pending
        BY <1>1 DEF CallInv
      <4>2. d \in pending => d \in pending' \/ d \in S
        BY <1>6, <1>10
      <4>3. d \in S => \E i \in 1 .. Len(micro') : micro'[i].who = d
        BY <1>8, <1>11
      <4>4. QED
        BY <1>1, <1>4, <1>10, <3>2, <4>1, <4>2, <4>3 DEF CallInv
    <3>3. QED
      BY <3>1, <3>2
  <2>2. /\ call'[Start].pc # "idle" => call'[Start].kind = "start"
        /\ call'[Shutdown].pc # "idle" => call'[Shutdown].kind = "shutdown"
        /\ \A q \in Runs : call'[q].pc # "idle" => call'[q].kind \in {"execute", "inspect"}
    BY <1>1, <1>2, <1>4 DEF CallInv
  <2>3. QED
    BY <2>1, <2>2 DEF CallInv
<1>15. \A i \in 1 .. Len(micro') :
          \/ /\ i =< Len(A) /\ micro'[i].who \in S /\ micro'[i].what = "reject"
          \/ /\ i = Len(A) + 1 /\ micro'[i].who = Shutdown /\ micro'[i].what = "begin"
  <2>1. ASSUME NEW i \in 1 .. Len(micro')
        PROVE  \/ /\ i =< Len(A) /\ micro'[i].who \in S /\ micro'[i].what = "reject"
               \/ /\ i = Len(A) + 1 /\ micro'[i].who = Shutdown /\ micro'[i].what = "begin"
    <3>1. i \in 1 .. Len(A) \/ i = Len(A) + 1
      BY <1>11
    <3>2. QED
      BY <1>8, <1>9, <1>11, <3>1
  <2>2. QED
    BY <2>1
<1>16. \A d \in S : d # Shutdown /\ call[d].pc = "waiting" /\ d \notin pending' /\ d \in Callers
  BY <1>1, <1>5, <1>6, <1>10 DEF CallInv
<1>17. MicroInv'
  <2>1. ASSUME NEW i \in 1 .. Len(micro')
        PROVE  /\ micro'[i].what = "begin" =>
                     /\ micro'[i].who = Shutdown /\ call'[Shutdown].pc = "asked"
                     /\ \A j \in 1 .. Len(micro') :
                           /\ micro'[j].what = "begin" => j = i
                           /\ j > i => micro'[j].who \notin Runs
               /\ micro'[i].what # "begin" =>
                     call'[micro'[i].who].pc \notin {"idle", "asked"} /\ micro'[i].who \notin pending'
               /\ ~(micro'[i].what = "reject" /\ micro'[i].who = Shutdown)
               /\ micro'[i].what # "resolve"
    <3>1. CASE micro'[i].what = "begin"
      <4>1. i = Len(A) + 1 /\ micro'[i].who = Shutdown
        BY <1>15, <3>1
      <4>2. \A j \in 1 .. Len(micro') : ~(j > i) /\ (micro'[j].what = "begin" => j = i)
        BY <1>11, <1>15, <4>1
      <4>3. QED
        BY <1>2, <1>4, <3>1, <4>1, <4>2
    <3>2. CASE micro'[i].what # "begin"
      <4>1. micro'[i].who \in S /\ micro'[i].what = "reject"
        BY <1>15, <3>2
      <4>2. QED
        BY <1>4, <1>16, <3>2, <4>1
    <3>3. QED
      BY <3>1, <3>2
  <2>2. QED
    BY <2>1 DEF MicroInv, Made
<1>18. ShutdownInv'
  BY <1>1, <1>2, <1>4, <1>10 DEF ShutdownInv, Made
<1>19. StopInv'
  BY <1>1, <1>10 DEF StopInv, Failed, Alive
<1>20. QED
  BY <1>13, <1>14, <1>17, <1>18, <1>19 DEF Table

(* The first continuation, and those behind it. *)
LEMMA FirstEntry ==
    ASSUME Table, micro # <<>>
    PROVE  /\ Head(micro) \in EntryRecords /\ Head(micro) = micro[1]
           /\ 1 \in 1 .. Len(micro) /\ Head(micro).who \in Callers
           /\ Tail(micro) \in Seq(EntryRecords) /\ Len(Tail(micro)) = Len(micro) - 1
           /\ Len(micro) \in Nat
           /\ \A i \in 1 .. Len(Tail(micro)) :
                 Tail(micro)[i] = micro[i + 1] /\ i + 1 \in 1 .. Len(micro)
           /\ \A i \in 1 .. Len(micro) : i # 1 =>
                 i - 1 \in 1 .. Len(Tail(micro)) /\ Tail(micro)[i - 1] = micro[i]
<1>1. micro \in Seq(EntryRecords)
  BY DEF Table, NodeTyped
<1>2. /\ Head(micro) \in EntryRecords /\ Head(micro) = micro[1] /\ Len(micro) \in Nat
      /\ Len(micro) > 0 /\ Tail(micro) \in Seq(EntryRecords) /\ Len(Tail(micro)) = Len(micro) - 1
      /\ \A i \in 1 .. Len(Tail(micro)) : Tail(micro)[i] = micro[i + 1]
  BY <1>1
<1>3. Head(micro).who \in Callers
  BY <1>2 DEF EntryRecords
<1>4. \A i \in 1 .. Len(Tail(micro)) : i + 1 \in 1 .. Len(micro)
  BY <1>2
<1>5. ASSUME NEW i \in 1 .. Len(micro), i # 1
      PROVE  i - 1 \in 1 .. Len(Tail(micro)) /\ Tail(micro)[i - 1] = micro[i]
  <2>1. i - 1 \in 1 .. Len(Tail(micro)) /\ (i - 1) + 1 = i
    BY <1>2, <1>5
  <2>2. QED
    BY <1>2, <2>1
<1>6. QED
  BY <1>2, <1>3, <1>4, <1>5

(* The call at the front stops the handle; what is pending is rejected     *)
(* behind the other continuations, so that no run comes behind a shutdown  *)
(* that is asked for (stopHandle).                                         *)
LEMMA StopTable ==
    ASSUME Table, micro # <<>>, NEW to \in CallRecords, to.pc = "stopping",
           to.kind = call[Head(micro).who].kind,
           Head(micro).who = Shutdown => to.why \notin Runs,
           StopHandle(Head(micro).who, Tail(micro), to), sup' = sup
    PROVE  Table'
<1> DEFINE c == Head(micro).who
           rest == Tail(micro)
<1> USE CallersAreCallers
<1>1. NodeTyped /\ CallInv /\ MicroInv /\ ShutdownInv /\ StopInv /\ c \in Callers
      /\ rest \in Seq(EntryRecords)
  BY FirstEntry DEF Table
<1>2. call' = [call EXCEPT ![c] = to] /\ inbox' = inbox
  BY DEF StopHandle
<1>3. /\ call' \in [Callers -> CallRecords] /\ call'[c] = to
      /\ \A d \in Callers : d # c => call'[d] = call[d]
  BY <1>1, <1>2, CallUpdate DEF NodeTyped
<1>4. c \notin pending /\ call[c].pc # "idle"
  BY <1>1, FirstEntry DEF MicroInv, CallInv, Made
<1>5. /\ stop' \in {"no", "terminating", "joined", "failed"} /\ stop' # "no"
      /\ stop' = "joined" => stop = "joined"
      /\ stop \in {"joined", "failed"} => stop' = stop
      /\ closed' \in Callers
      /\ pending' \in {pending, {}} /\ outbox' \in Seq(ReplyRecords)
      /\ micro' \in Seq(EntryRecords) /\ Len(micro') >= Len(rest)
      /\ \A i \in 1 .. Len(rest) : micro'[i] = rest[i]
      /\ \A i \in 1 .. Len(micro') : i > Len(rest) =>
            /\ ~Failed /\ micro'[i].who \in pending /\ micro'[i].what = "reject"
            /\ micro'[i].why = c /\ pending' = {}
      /\ \A d \in pending : d \in pending' \/ \E i \in 1 .. Len(micro') : micro'[i].who = d
      /\ pending' = {}
  <2>1. CASE stop = "no"
    <3>1. stop' = "terminating" /\ Fail(c, rest)
      BY <2>1 DEF StopHandle
    <3>2. /\ closed' \in Callers /\ closed' = FirstReason(c)
          /\ pending' = {} /\ outbox' = <<>>
          /\ micro' \in Seq(EntryRecords) /\ Len(micro') >= Len(rest)
          /\ \A i \in 1 .. Len(rest) : micro'[i] = rest[i]
          /\ \A i \in 1 .. Len(micro') : i > Len(rest) =>
                /\ micro'[i].who \in pending /\ micro'[i].what = "reject"
                /\ micro'[i].why = closed'
          /\ \A d \in pending : \E i \in 1 .. Len(micro') : micro'[i].who = d
      BY <1>1, <3>1, Failing
    <3>3. Failed => pending = {}
      BY <1>1 DEF StopInv
    <3>4. ~Failed => FirstReason(c) = c
      BY DEF FirstReason
    <3>5. outbox' \in Seq(ReplyRecords)
      BY <3>2
    <3> HIDE DEF c, rest
    <3>6. QED
      BY <2>1, <3>1, <3>2, <3>3, <3>4, <3>5
  <2>2. CASE stop # "no"
    <3>1. micro' = rest /\ stop' = stop /\ closed' = closed /\ pending' = pending /\ outbox' = outbox
      BY <2>2 DEF StopHandle
    <3>2. Failed /\ pending = {} /\ closed \in Callers
      BY <1>1, <2>2 DEF StopInv, NodeTyped, Failed
    <3> HIDE DEF c, rest
    <3>3. QED
      BY <1>1, <2>2, <3>1, <3>2 DEF NodeTyped
  <2>3. QED
    BY <2>1, <2>2
<1>6. NodeTyped'
  <2>1. IsFiniteSet(pending')
    BY <1>5, FS_EmptySet
  <2>2. QED
    BY <1>1, <1>2, <1>3, <1>5, <2>1 DEF NodeTyped
<1>7. /\ micro[1].who = c
      /\ \A i \in 1 .. Len(rest) : micro'[i] = micro[i + 1] /\ i + 1 \in 1 .. Len(micro)
      /\ \A i \in 1 .. Len(micro) : i # 1 =>
            i - 1 \in 1 .. Len(rest) /\ i - 1 \in 1 .. Len(micro') /\ micro'[i - 1] = micro[i]
      /\ Len(rest) \in Nat /\ 1 \in 1 .. Len(micro) /\ Len(micro') \in Nat
  BY <1>1, <1>5, FirstEntry
<1>8. c = Shutdown /\ micro[1].what # "begin" => Made(Shutdown)
  BY <1>1, <1>7 DEF MicroInv
<1> HIDE DEF c, rest
<1>9. \A i \in 1 .. Len(micro') :
         \/ i \in 1 .. Len(rest)
         \/ /\ i > Len(rest) /\ ~Failed /\ micro'[i].who \in pending /\ micro'[i].what = "reject"
            /\ micro'[i].why = c
  BY <1>5, <1>7
<1>10. CallInv'
  <2>1. ASSUME NEW d \in Callers
        PROVE  /\ d \in pending' => call'[d].pc = "waiting"
               /\ call'[d].pc = "waiting" => \/ d \in pending'
                                             \/ \E i \in 1 .. Len(micro') : micro'[i].who = d
               /\ call'[d].res # "none" => call'[d].pc \in {"stopping", "settled"}
               /\ call'[d].pc = "settled" /\ (call'[d].res = "thrown" \/ d = Shutdown) =>
                      stop' \in {"joined", "failed"}
    <3>1. CASE d = c
      BY <1>3, <1>5, <3>1
    <3>2. CASE d # c
      <4>1. ASSUME NEW i \in 1 .. Len(micro), micro[i].who = d
            PROVE  \E j \in 1 .. Len(micro') : micro'[j].who = d
        <5>1. i # 1
          BY <1>7, <3>2, <4>1
        <5>2. QED
          BY <1>7, <4>1, <5>1
      <4>2. call[d].pc = "waiting" => \E j \in 1 .. Len(micro') : micro'[j].who = d
        BY <1>1, <1>5, <4>1 DEF CallInv
      <4>3. QED
        BY <1>1, <1>3, <1>5, <3>2, <4>2 DEF CallInv
    <3>3. QED
      BY <3>1, <3>2
  <2>2. /\ call'[Start].pc # "idle" => call'[Start].kind = "start"
        /\ call'[Shutdown].pc # "idle" => call'[Shutdown].kind = "shutdown"
        /\ \A q \in Runs : call'[q].pc # "idle" => call'[q].kind \in {"execute", "inspect"}
    BY <1>1, <1>3, <1>4 DEF CallInv, c
  <2>3. QED
    BY <2>1, <2>2 DEF CallInv
<1>11. \A d \in Callers : Made(d) => call'[d].pc \notin {"idle", "asked"}
  BY <1>3 DEF Made
<1>12. \A d \in pending : call[d].pc = "waiting" /\ d \in Callers
  BY <1>1 DEF CallInv, NodeTyped
<1>13. MicroInv'
  <2>1. ASSUME NEW i \in 1 .. Len(micro'), micro'[i].what = "begin"
        PROVE  /\ micro'[i].who = Shutdown /\ call'[Shutdown].pc = "asked"
               /\ \A j \in 1 .. Len(micro') :
                      /\ micro'[j].what = "begin" => j = i
                      /\ j > i => micro'[j].who \notin Runs
    <3>1. i \in 1 .. Len(rest) /\ micro[i + 1].what = "begin" /\ i + 1 \in 1 .. Len(micro)
          /\ micro'[i] = micro[i + 1]
      BY <1>7, <1>9, <2>1
    <3>2. /\ micro[i + 1].who = Shutdown /\ call[Shutdown].pc = "asked"
          /\ \A j \in 1 .. Len(micro) :
                 /\ micro[j].what = "begin" => j = i + 1
                 /\ j > i + 1 => micro[j].who \notin Runs
      BY <1>1, <3>1 DEF MicroInv
    <3>3. micro[1].what # "begin"
      BY <1>7, <3>1, <3>2
    <3>4. c # Shutdown
      BY <1>8, <3>2, <3>3 DEF Made
    <3>5. ASSUME NEW j \in 1 .. Len(micro')
          PROVE  /\ micro'[j].what = "begin" => j = i
                 /\ j > i => micro'[j].who \notin Runs
      <4>1. CASE j \in 1 .. Len(rest)
        <5>1. micro'[j] = micro[j + 1] /\ j + 1 \in 1 .. Len(micro)
          BY <1>7, <4>1
        <5>2. micro[j + 1].what = "begin" => j + 1 = i + 1
          BY <3>2, <5>1
        <5>3. j + 1 > i + 1 => micro[j + 1].who \notin Runs
          BY <3>2, <5>1
        <5>4. QED
          BY <3>1, <4>1, <5>1, <5>2, <5>3
      <4>2. CASE j \notin 1 .. Len(rest)
        <5>1. micro'[j].who \in pending /\ micro'[j].what = "reject"
          BY <1>9, <4>2
        <5>2. pending \cap Runs = {}
          BY <1>1, <3>2 DEF ShutdownInv
        <5>3. QED
          BY <5>1, <5>2
      <4>3. QED
        BY <4>1, <4>2
    <3>6. QED
      BY <1>3, <3>1, <3>2, <3>4, <3>5
  <2>2. ASSUME NEW i \in 1 .. Len(micro')
        PROVE  /\ micro'[i].what # "begin" =>
                    call'[micro'[i].who].pc \notin {"idle", "asked"} /\ micro'[i].who \notin pending'
               /\ micro'[i].what = "reject" /\ micro'[i].who = Shutdown => micro'[i].why \notin Runs
               /\ micro'[i].what = "resolve" => /\ micro'[i].reply \in ReplyRecords
                                                /\ micro'[i].reply.kind \in {"ok", "error"}
                                                /\ micro'[i].reply.id = micro'[i].who
    <3>1. CASE i \in 1 .. Len(rest)
      <4>1. micro'[i] = micro[i + 1] /\ i + 1 \in 1 .. Len(micro)
        BY <1>7, <3>1
      <4>2. micro[i + 1].who \in Callers
        <5>1. micro \in Seq(EntryRecords)
          BY <1>1 DEF NodeTyped
        <5>2. micro[i + 1] \in EntryRecords
          BY <4>1, <5>1
        <5>3. QED
          BY <5>2 DEF EntryRecords
      <4>3. QED
        BY <1>1, <1>5, <1>11, <4>1, <4>2 DEF MicroInv
    <3>2. CASE i \notin 1 .. Len(rest)
      <4>1. micro'[i].who \in pending /\ micro'[i].what = "reject" /\ micro'[i].why = c
        BY <1>9, <3>2
      <4>2. call'[micro'[i].who].pc \notin {"idle", "asked"}
        BY <1>11, <1>12, <4>1 DEF Made
      <4>3. micro'[i].who = Shutdown => c \notin Runs
        BY <1>1, <1>7, <1>12, <4>1 DEF ShutdownInv, Made
      <4>4. QED
        BY <1>5, <4>1, <4>2, <4>3
    <3>3. QED
      BY <3>1, <3>2
  <2>3. QED
    BY <2>1, <2>2 DEF MicroInv, Made
<1>14. ShutdownInv'
  <2>1. call'[Shutdown].why \notin Runs
    BY <1>1, <1>3 DEF ShutdownInv, c
  <2>2. ASSUME call'[Shutdown].pc \notin {"idle", "asked"}, NEW i \in 1 .. Len(micro')
        PROVE  micro'[i].who \notin Runs
    <3>1. call[Shutdown].pc # "idle"
      BY <1>3, <1>4, <2>2
    <3>2. CASE i \in 1 .. Len(rest)
      <4>1. micro'[i] = micro[i + 1] /\ i + 1 \in 1 .. Len(micro) /\ i + 1 > 1
        BY <1>7, <3>2
      <4>2. CASE Made(Shutdown)
        BY <1>1, <4>1, <4>2 DEF ShutdownInv
      <4>3. CASE ~Made(Shutdown)
        <5>1. c = Shutdown /\ micro[1].what = "begin"
          BY <1>3, <1>8, <2>2, <4>3 DEF Made
        <5>2. QED
          BY <1>1, <1>7, <4>1, <5>1 DEF MicroInv
      <4>4. QED
        BY <4>2, <4>3
    <3>3. CASE i \notin 1 .. Len(rest)
      BY <1>1, <1>9, <3>1, <3>3 DEF ShutdownInv
    <3>4. QED
      BY <3>2, <3>3
  <2>3. QED
    BY <1>5, <2>1, <2>2 DEF ShutdownInv, Made
<1>15. StopInv'
  BY <1>1, <1>5 DEF StopInv, Failed, Alive
<1>16. QED
  BY <1>6, <1>10, <1>13, <1>14, <1>15 DEF Table

(* The shutdown that was asked for is requested, unless the connection has *)
(* failed meanwhile.                                                       *)
LEMMA ShutdownTable ==
    ASSUME Table, micro # <<>>, Head(micro).what = "begin", ~Failed,
           Request(Shutdown, Tail(micro)),
           call' = [call EXCEPT ![Shutdown].pc = "waiting"],
           UNCHANGED <<closed, stop, outbox, sup>>
    PROVE  Table'
<1> DEFINE r == [call[Shutdown] EXCEPT !.pc = "waiting"]
           rest == Tail(micro)
<1> USE CallersAreCallers
<1>1. /\ NodeTyped /\ CallInv /\ MicroInv /\ ShutdownInv /\ StopInv
      /\ rest \in Seq(EntryRecords)
  BY FirstEntry DEF Table
<1>2. /\ r \in CallRecords /\ r.pc = "waiting" /\ r.kind = call[Shutdown].kind
      /\ r.res = call[Shutdown].res /\ r.why = call[Shutdown].why
  BY <1>1, CallFields DEF CallRecords
<1>3. call' = [call EXCEPT ![Shutdown] = r]
  BY <1>1 DEF NodeTyped
<1> HIDE DEF r
<1>4. /\ call' \in [Callers -> CallRecords] /\ call'[Shutdown] = r
      /\ \A d \in Callers : d # Shutdown => call'[d] = call[d]
  BY ZenonT(60), <1>1, <1>2, <1>3, CallUpdate DEF NodeTyped
<1>5. /\ micro[1].what = "begin" /\ 1 \in 1 .. Len(micro)
      /\ \A i \in 1 .. Len(rest) : rest[i] = micro[i + 1] /\ i + 1 \in 1 .. Len(micro)
      /\ \A i \in 1 .. Len(micro) : i # 1 => i - 1 \in 1 .. Len(rest) /\ rest[i - 1] = micro[i]
      /\ Len(rest) \in Nat
  BY <1>1, FirstEntry
<1>6. /\ micro[1].who = Shutdown /\ call[Shutdown].pc = "asked"
      /\ \A j \in 1 .. Len(micro) : /\ micro[j].what = "begin" => j = 1
                                    /\ j > 1 => micro[j].who \notin Runs
  BY <1>1, <1>5 DEF MicroInv
<1>7. pending' = pending \cup {Shutdown} /\ micro' = rest /\ inbox' \in Seq(Callers)
  BY <1>1, Requesting
<1> HIDE DEF rest
<1>8. NodeTyped'
  <2>1. IsFiniteSet(pending \cup {Shutdown})
    BY <1>1, FS_AddElement DEF NodeTyped
  <2>2. QED
    BY <1>1, <1>4, <1>7, <2>1 DEF NodeTyped
<1>9. \A i \in 1 .. Len(micro') :
         /\ micro'[i] = micro[i + 1] /\ i + 1 \in 1 .. Len(micro) /\ i + 1 > 1
         /\ micro[i + 1].what # "begin" /\ micro[i + 1].who \in Callers
         /\ micro[i + 1].who # Shutdown
  <2>1. ASSUME NEW i \in 1 .. Len(micro')
        PROVE  /\ micro'[i] = micro[i + 1] /\ i + 1 \in 1 .. Len(micro) /\ i + 1 > 1
               /\ micro[i + 1].what # "begin" /\ micro[i + 1].who \in Callers
               /\ micro[i + 1].who # Shutdown
    <3>1. micro'[i] = micro[i + 1] /\ i + 1 \in 1 .. Len(micro) /\ i + 1 > 1
      BY <1>5, <1>7
    <3>2. i + 1 # 1
      BY <3>1
    <3>3. micro[i + 1].what # "begin"
      BY <1>6, <3>1, <3>2
    <3>4. Made(micro[i + 1].who)
      BY <1>1, <3>1, <3>3 DEF MicroInv
    <3>5. micro \in Seq(EntryRecords)
      BY <1>1 DEF NodeTyped
    <3>6. micro[i + 1] \in EntryRecords
      BY <3>1, <3>5
    <3>7. micro[i + 1].who \in Callers
      BY <3>6 DEF EntryRecords
    <3>8. QED
      BY <1>6, <3>1, <3>3, <3>4, <3>7 DEF Made
  <2>2. QED
    BY <2>1
<1>10. CallInv'
  <2>1. ASSUME NEW d \in Callers
        PROVE  /\ d \in pending' => call'[d].pc = "waiting"
               /\ call'[d].pc = "waiting" => \/ d \in pending'
                                             \/ \E i \in 1 .. Len(micro') : micro'[i].who = d
               /\ call'[d].res # "none" => call'[d].pc \in {"stopping", "settled"}
               /\ call'[d].pc = "settled" /\ (call'[d].res = "thrown" \/ d = Shutdown) =>
                      stop' \in {"joined", "failed"}
    <3>1. CASE d = Shutdown
      BY <1>1, <1>2, <1>4, <1>6, <1>7, <3>1 DEF CallInv
    <3>2. CASE d # Shutdown
      <4>1. ASSUME NEW i \in 1 .. Len(micro), micro[i].who = d
            PROVE  \E j \in 1 .. Len(micro') : micro'[j].who = d
        <5>1. i # 1
          BY <1>6, <3>2, <4>1
        <5>2. QED
          BY <1>5, <1>7, <4>1, <5>1
      <4>2. QED
        BY <1>1, <1>4, <1>7, <3>2, <4>1 DEF CallInv
    <3>3. QED
      BY <3>1, <3>2
  <2>2. /\ call'[Start].pc # "idle" => call'[Start].kind = "start"
        /\ call'[Shutdown].pc # "idle" => call'[Shutdown].kind = "shutdown"
        /\ \A q \in Runs : call'[q].pc # "idle" => call'[q].kind \in {"execute", "inspect"}
    BY <1>1, <1>2, <1>4, <1>6 DEF CallInv
  <2>3. QED
    BY <2>1, <2>2 DEF CallInv
<1>11. MicroInv'
  BY <1>1, <1>4, <1>7, <1>9 DEF MicroInv, Made
<1>12. ShutdownInv'
  <2>1. pending' \cap Runs = {}
    BY <1>1, <1>6, <1>7 DEF ShutdownInv
  <2>2. \A i \in 1 .. Len(micro') : micro'[i].who \notin Runs
    BY <1>6, <1>9
  <2>3. QED
    BY <1>1, <1>2, <1>4, <2>1, <2>2 DEF ShutdownInv
<1>13. StopInv'
  BY <1>1 DEF StopInv, Failed, Alive
<1>14. QED
  BY <1>8, <1>10, <1>11, <1>12, <1>13 DEF Table

(* A call that is answered settles. *)
LEMMA ResolveTable ==
    ASSUME Table, micro # <<>>, NEW to \in CallRecords, to.pc = "settled",
           Head(micro).who # Shutdown, Head(micro).what = "resolve", to.res \in {"ok", "error"},
           to.kind = call[Head(micro).who].kind,
           call' = [call EXCEPT ![Head(micro).who] = to], micro' = Tail(micro),
           UNCHANGED <<pending, closed, stop, inbox, outbox, sup>>
    PROVE  Table'
<1> DEFINE c == Head(micro).who
           rest == Tail(micro)
<1> USE CallersAreCallers
<1>1. NodeTyped /\ CallInv /\ MicroInv /\ ShutdownInv /\ StopInv /\ c \in Callers
      /\ rest \in Seq(EntryRecords)
  BY FirstEntry DEF Table
<1>2. /\ call' \in [Callers -> CallRecords] /\ call'[c] = to
      /\ \A d \in Callers : d # c => call'[d] = call[d]
  BY <1>1, CallUpdate DEF NodeTyped
<1>3. c \notin pending /\ Made(c)
  BY <1>1, FirstEntry DEF MicroInv
<1>4. /\ micro[1].who = c
      /\ \A i \in 1 .. Len(micro') :
            micro'[i] = micro[i + 1] /\ i + 1 \in 1 .. Len(micro) /\ i + 1 > i
      /\ \A i \in 1 .. Len(micro) : i # 1 => i - 1 \in 1 .. Len(micro') /\ micro'[i - 1] = micro[i]
  BY <1>1, FirstEntry
<1>5. c # Shutdown /\ micro' \in Seq(EntryRecords) /\ to.kind = call[c].kind
  BY <1>1
<1> HIDE DEF c, rest
<1>6. NodeTyped'
  BY <1>1, <1>2, <1>5 DEF NodeTyped
<1>7. CallInv'
  <2>1. ASSUME NEW d \in Callers
        PROVE  /\ d \in pending' => call'[d].pc = "waiting"
               /\ call'[d].pc = "waiting" => \/ d \in pending'
                                             \/ \E i \in 1 .. Len(micro') : micro'[i].who = d
               /\ call'[d].res # "none" => call'[d].pc \in {"stopping", "settled"}
               /\ call'[d].pc = "settled" /\ (call'[d].res = "thrown" \/ d = Shutdown) =>
                      stop' \in {"joined", "failed"}
    <3>1. CASE d = c
      BY <1>2, <1>3, <1>5, <3>1
    <3>2. CASE d # c
      <4>1. ASSUME NEW i \in 1 .. Len(micro), micro[i].who = d
            PROVE  \E j \in 1 .. Len(micro') : micro'[j].who = d
        <5>1. i # 1
          BY <1>4, <3>2, <4>1
        <5>2. QED
          BY <1>4, <4>1, <5>1
      <4>2. QED
        BY <1>1, <1>2, <3>2, <4>1 DEF CallInv
    <3>3. QED
      BY <3>1, <3>2
  <2>2. /\ call'[Start].pc # "idle" => call'[Start].kind = "start"
        /\ call'[Shutdown].pc # "idle" => call'[Shutdown].kind = "shutdown"
        /\ \A q \in Runs : call'[q].pc # "idle" => call'[q].kind \in {"execute", "inspect"}
    BY <1>1, <1>2, <1>3, <1>5 DEF CallInv, Made
  <2>3. QED
    BY <2>1, <2>2 DEF CallInv
<1>8. \A d \in Callers : Made(d) => call'[d].pc \notin {"idle", "asked"}
  BY <1>2 DEF Made
<1>9. call'[Shutdown] = call[Shutdown]
  BY <1>2, <1>5
<1>10. \A i \in 1 .. Len(micro') : micro[i + 1].who \in Callers
  <2>1. ASSUME NEW i \in 1 .. Len(micro')  PROVE micro[i + 1].who \in Callers
    <3>1. micro \in Seq(EntryRecords) /\ i + 1 \in 1 .. Len(micro)
      BY <1>1, <1>4 DEF NodeTyped
    <3>2. micro[i + 1] \in EntryRecords
      BY <3>1
    <3>3. QED
      BY <3>2 DEF EntryRecords
  <2>2. QED
    BY <2>1
<1>11. MicroInv'
  <2>1. ASSUME NEW i \in 1 .. Len(micro'), micro'[i].what = "begin"
        PROVE  /\ micro'[i].who = Shutdown /\ call'[Shutdown].pc = "asked"
               /\ \A j \in 1 .. Len(micro') :
                      /\ micro'[j].what = "begin" => j = i
                      /\ j > i => micro'[j].who \notin Runs
    <3>1. i + 1 \in 1 .. Len(micro) /\ micro[i + 1].what = "begin" /\ micro'[i] = micro[i + 1]
      BY <1>4, <2>1
    <3>2. /\ micro[i + 1].who = Shutdown /\ call[Shutdown].pc = "asked"
          /\ \A j \in 1 .. Len(micro) :
                 /\ micro[j].what = "begin" => j = i + 1
                 /\ j > i + 1 => micro[j].who \notin Runs
      BY <1>1, <3>1 DEF MicroInv
    <3>3. ASSUME NEW j \in 1 .. Len(micro')
          PROVE  /\ micro'[j].what = "begin" => j = i
                 /\ j > i => micro'[j].who \notin Runs
      <4>1. micro'[j] = micro[j + 1] /\ j + 1 \in 1 .. Len(micro)
        BY <1>4
      <4>2. micro[j + 1].what = "begin" => j + 1 = i + 1
        BY <3>2, <4>1
      <4>3. j + 1 > i + 1 => micro[j + 1].who \notin Runs
        BY <3>2, <4>1
      <4>4. QED
        BY <4>1, <4>2, <4>3
    <3>4. QED
      BY <1>9, <3>1, <3>2, <3>3
  <2>2. ASSUME NEW i \in 1 .. Len(micro')
        PROVE  /\ micro'[i].what # "begin" =>
                    call'[micro'[i].who].pc \notin {"idle", "asked"} /\ micro'[i].who \notin pending'
               /\ micro'[i].what = "reject" /\ micro'[i].who = Shutdown => micro'[i].why \notin Runs
               /\ micro'[i].what = "resolve" => /\ micro'[i].reply \in ReplyRecords
                                                /\ micro'[i].reply.kind \in {"ok", "error"}
                                                /\ micro'[i].reply.id = micro'[i].who
    BY <1>1, <1>4, <1>8, <1>10 DEF MicroInv
  <2>3. QED
    BY <2>1, <2>2 DEF MicroInv, Made
<1>12. ShutdownInv'
  BY <1>1, <1>4, <1>9 DEF ShutdownInv, Made
<1>13. StopInv'
  BY <1>1 DEF StopInv, Failed, Alive
<1>14. QED
  BY <1>6, <1>7, <1>11, <1>12, <1>13 DEF Table

Stopped(c, result, reason) ==
    [call[c] EXCEPT !.pc = "stopping", !.res = result, !.why = reason]
Settled(c, reply) == [call[c] EXCEPT !.pc = "settled", !.res = reply.kind, !.outs = reply.outs]

LEMMA StoppedRecord ==
    ASSUME NodeTyped, NEW c \in Callers, NEW result \in {"ok", "thrown"},
           NEW reason \in Callers \cup {Nobody}
    PROVE  /\ Stopped(c, result, reason) \in CallRecords
           /\ Stopped(c, result, reason).pc = "stopping"
           /\ Stopped(c, result, reason).res = result
           /\ Stopped(c, result, reason).why = reason
           /\ Stopped(c, result, reason).kind = call[c].kind
           /\ Stopped(c, result, reason).outs = call[c].outs
BY CallFields DEF Stopped, CallRecords

(* What a continuation does. *)
ShutsDown(now) ==
    /\ now.what = "begin" /\ now.who = Shutdown /\ ~Failed /\ Request(Shutdown, Tail(micro))
    /\ call' = [call EXCEPT ![Shutdown].pc = "waiting"]
    /\ UNCHANGED <<closed, stop, outbox>>
Stops(now) ==
    \E result \in {"ok", "thrown"}, reason \in Callers \cup {Nobody} :
       /\ result = "ok" => now.who = Shutdown
       /\ now.who = Shutdown => reason \notin Runs
       /\ StopHandle(now.who, Tail(micro), Stopped(now.who, result, reason))
Settles(now) ==
    /\ now.what = "resolve" /\ now.who # Shutdown
    /\ call' = [call EXCEPT ![now.who] = Settled(now.who, now.reply)]
    /\ micro' = Tail(micro)
    /\ UNCHANGED <<pending, closed, stop, inbox, outbox>>

LEMMA ContinueCases ==
    ASSUME Table, Continue
    PROVE  /\ micro # <<>> /\ UNCHANGED python
           /\ ShutsDown(Head(micro)) \/ Stops(Head(micro)) \/ Settles(Head(micro))
<1> DEFINE now == Head(micro)
           c == now.who
<1>1. /\ micro # <<>> /\ now = micro[1] /\ 1 \in 1 .. Len(micro) /\ c \in Callers
      /\ now \in EntryRecords
  BY FirstEntry DEF Continue
<1>2. UNCHANGED python
  BY DEF Continue, python
<1>3. /\ NodeTyped /\ MicroInv /\ ShutdownInv
  BY DEF Table
<1>4. now.what \in {"begin", "reject", "resolve"} /\ now.why \in Callers \cup {Nobody}
  BY <1>1 DEF EntryRecords
<1>5. call[c].why \in Callers \cup {Nobody}
  BY <1>1, <1>3 DEF NodeTyped, CallRecords
<1>6. CASE now.what = "begin"
  <2>1. c = Shutdown
    BY <1>1, <1>3, <1>6 DEF MicroInv
  <2>2. IF Failed
        THEN StopHandle(c, Tail(micro), [call[c] EXCEPT !.pc = "stopping", !.res = "ok"])
        ELSE /\ Request(c, Tail(micro))
             /\ call' = [call EXCEPT ![c].pc = "waiting"]
             /\ UNCHANGED <<closed, stop, outbox>>
    BY <1>6 DEF Continue
  <2>3. CASE Failed
    <3>1. call[c] \in CallRecords
      BY <1>1, <1>3, CallFields
    <3>2. [call[c] EXCEPT !.pc = "stopping", !.res = "ok"] = Stopped(c, "ok", call[c].why)
      BY <3>1 DEF Stopped, CallRecords
    <3>3. call[c].why \notin Runs
      BY <1>3, <2>1 DEF ShutdownInv
    <3>4. StopHandle(c, Tail(micro), Stopped(c, "ok", call[c].why))
      BY <2>2, <2>3, <3>2
    <3>5. Stops(now)
      BY <1>5, <2>1, <3>3, <3>4 DEF Stops
    <3>6. QED
      BY <1>1, <1>2, <3>5
  <2>4. CASE ~Failed
    BY <1>1, <1>2, <1>6, <2>1, <2>2, <2>4 DEF ShutsDown
  <2>5. QED
    BY <2>3, <2>4
<1>7. CASE now.what = "reject"
  <2>1. StopHandle(c, Tail(micro), Stopped(c, "thrown", now.why))
    BY <1>7 DEF Continue, Stopped
  <2>2. c = Shutdown => now.why \notin Runs
    BY <1>1, <1>3, <1>7 DEF MicroInv
  <2>3. Stops(now)
    BY <1>4, <2>1, <2>2 DEF Stops
  <2>4. QED
    BY <1>1, <1>2, <2>3
<1>8. CASE now.what = "resolve" /\ c = Shutdown
  <2>1. StopHandle(c, Tail(micro), [call[c] EXCEPT !.pc = "stopping", !.res = "ok"])
    BY <1>8 DEF Continue
  <2>2. call[c] \in CallRecords
    BY <1>1, <1>3, CallFields
  <2>3. [call[c] EXCEPT !.pc = "stopping", !.res = "ok"] = Stopped(c, "ok", call[c].why)
    BY <2>2 DEF Stopped, CallRecords
  <2>4. call[c].why \notin Runs
    BY <1>3, <1>8 DEF ShutdownInv
  <2>5. StopHandle(c, Tail(micro), Stopped(c, "ok", call[c].why))
    BY <2>1, <2>3
  <2>6. Stops(now)
    BY <1>5, <1>8, <2>4, <2>5 DEF Stops
  <2>7. QED
    BY <1>1, <1>2, <2>6
<1>9. CASE now.what = "resolve" /\ c # Shutdown
  <2>1. /\ call' = [call EXCEPT ![c] = [@ EXCEPT !.pc = "settled", !.res = now.reply.kind,
                                                 !.outs = now.reply.outs]]
        /\ micro' = Tail(micro)
        /\ UNCHANGED <<pending, closed, stop, inbox, outbox>>
    BY <1>9 DEF Continue
  <2>2. call' = [call EXCEPT ![c] = Settled(c, now.reply)]
    BY <1>1, <1>3, <2>1 DEF Settled, NodeTyped
  <2>3. QED
    BY <1>1, <1>2, <1>9, <2>1, <2>2 DEF Settles
<1>10. QED
  BY <1>4, <1>6, <1>7, <1>8, <1>9

LEMMA SettledRecord ==
    ASSUME Table, micro # <<>>, Settles(Head(micro))
    PROVE  LET now == Head(micro)
           IN  /\ now.reply \in ReplyRecords /\ now.reply.kind \in {"ok", "error"}
               /\ now.reply.id = now.who /\ now.who \in Callers
               /\ Settled(now.who, now.reply) \in CallRecords
               /\ Settled(now.who, now.reply).pc = "settled"
               /\ Settled(now.who, now.reply).res = now.reply.kind
               /\ Settled(now.who, now.reply).outs = now.reply.outs
               /\ Settled(now.who, now.reply).kind = call[now.who].kind
<1> DEFINE now == Head(micro)
<1>1. /\ now = micro[1] /\ 1 \in 1 .. Len(micro) /\ now.who \in Callers
  BY FirstEntry
<1>2. /\ now.reply \in ReplyRecords /\ now.reply.kind \in {"ok", "error"}
      /\ now.reply.id = now.who
  BY <1>1 DEF Settles, Table, MicroInv
<1>3. now.reply.outs \in Seq(Texts)
  BY <1>2 DEF ReplyRecords
<1>4. call[now.who] \in CallRecords
  BY <1>1, CallFields DEF Table
<1> HIDE DEF now
<1>5. QED
  BY <1>1, <1>2, <1>3, <1>4 DEF Settled, CallRecords, now

LEMMA ContinueTable ==
    ASSUME Table, Continue
    PROVE  Table'
<1> DEFINE now == Head(micro)
           c == now.who
<1>1. micro # <<>> /\ UNCHANGED python /\ c \in Callers /\ NodeTyped
  BY ContinueCases, FirstEntry DEF Table
<1>2. sup' = sup
  BY <1>1 DEF python
<1>3. CASE ShutsDown(now)
  BY <1>1, <1>2, <1>3, ShutdownTable DEF ShutsDown
<1>4. CASE Stops(now)
  <2>1. PICK result \in {"ok", "thrown"}, reason \in Callers \cup {Nobody} :
           /\ c = Shutdown => reason \notin Runs
           /\ StopHandle(c, Tail(micro), Stopped(c, result, reason))
    BY <1>4 DEF Stops
  <2>2. /\ Stopped(c, result, reason) \in CallRecords
        /\ Stopped(c, result, reason).pc = "stopping"
        /\ Stopped(c, result, reason).why = reason
        /\ Stopped(c, result, reason).kind = call[c].kind
    BY <1>1, StoppedRecord
  <2>3. QED
    BY <1>1, <1>2, <2>1, <2>2, StopTable
<1>5. CASE Settles(now)
  <2>1. /\ Settled(c, now.reply) \in CallRecords /\ Settled(c, now.reply).pc = "settled"
        /\ Settled(c, now.reply).res \in {"ok", "error"}
        /\ Settled(c, now.reply).kind = call[c].kind
    BY <1>1, <1>5, SettledRecord
  <2>2. QED
    BY <1>1, <1>2, <1>5, <2>1, ResolveTable DEF Settles
<1>6. QED
  BY <1>3, <1>4, <1>5, ContinueCases

(* The end of the termination, and the calls that waited for it. *)
LEMMA JoinTable ==
    ASSUME Table, Join
    PROVE  Table'
<1>1. /\ NodeTyped /\ CallInv /\ MicroInv /\ ShutdownInv /\ StopInv
      /\ UNCHANGED <<call, pending, closed, micro, outbox>> /\ stop = "terminating"
      /\ stop' \in {"joined", "failed"} /\ inbox' \in {inbox, <<>>}
      /\ stop' = "joined" => Killed
  BY DEF Table, Join, Killed
<1>2. NodeTyped'
  <2>1. inbox' \in Seq(Callers)
    <3>1. inbox \in Seq(Callers) /\ <<>> \in Seq(Callers)
      BY <1>1 DEF NodeTyped
    <3>2. inbox' = inbox \/ inbox' = <<>>
      BY <1>1
    <3>3. QED
      BY <3>1, <3>2
  <2>2. stop' \in {"no", "terminating", "joined", "failed"}
    BY <1>1
  <2>3. QED
    BY <1>1, <2>1, <2>2 DEF NodeTyped
<1>3. CallInv'
  BY <1>1 DEF CallInv
<1>4. MicroInv' /\ ShutdownInv'
  BY <1>1 DEF MicroInv, ShutdownInv, Made
<1>5. stop' = "joined" => sup'.at = "gone"
  <2>1. [Reading EXCEPT !.at = "gone"].at = "gone"
    BY DEF Reading
  <2>2. QED
    BY <1>1, <2>1 DEF Killed
<1>6. StopInv'
  BY <1>1, <1>5 DEF StopInv, Failed, Alive
<1>7. QED
  BY <1>2, <1>3, <1>4, <1>6 DEF Table

LEMMA FinishTable ==
    ASSUME Table, NEW c \in Callers, Finish(c)
    PROVE  Table'
<1> DEFINE r == [call[c] EXCEPT !.pc = "settled", !.res = IF stop = "failed" THEN "thrown" ELSE call[c].res]
<1>1. /\ NodeTyped /\ CallInv /\ MicroInv /\ ShutdownInv /\ StopInv /\ micro = <<>>
      /\ call[c].pc = "stopping" /\ stop \in {"joined", "failed"}
      /\ UNCHANGED <<pending, closed, stop, micro, inbox, outbox, sup>>
  BY DEF Table, Finish, Event, Joined, python
<1>2. /\ r \in CallRecords /\ r.pc = "settled" /\ r.kind = call[c].kind /\ r.why = call[c].why
  BY <1>1, CallFields DEF CallRecords
<1>3. call' = [call EXCEPT ![c] = r]
  BY <1>1 DEF Finish, NodeTyped
<1> HIDE DEF r
<1>4. /\ call' \in [Callers -> CallRecords] /\ call'[c] = r
      /\ \A d \in Callers : d # c => call'[d] = call[d]
  BY <1>1, <1>2, <1>3, CallUpdate DEF NodeTyped
<1>5. NodeTyped'
  BY <1>1, <1>4 DEF NodeTyped
<1>6. CallInv'
  <2>1. ASSUME NEW d \in Callers
        PROVE  /\ d \in pending' => call'[d].pc = "waiting"
               /\ call'[d].pc = "waiting" => \/ d \in pending'
                                             \/ \E i \in 1 .. Len(micro') : micro'[i].who = d
               /\ call'[d].res # "none" => call'[d].pc \in {"stopping", "settled"}
               /\ call'[d].pc = "settled" /\ (call'[d].res = "thrown" \/ d = Shutdown) =>
                      stop' \in {"joined", "failed"}
    <3>1. CASE d = c
      BY <1>1, <1>2, <1>4, <3>1 DEF CallInv
    <3>2. CASE d # c
      BY <1>1, <1>4, <3>2 DEF CallInv
    <3>3. QED
      BY <3>1, <3>2
  <2>2. /\ call'[Start].pc # "idle" => call'[Start].kind = "start"
        /\ call'[Shutdown].pc # "idle" => call'[Shutdown].kind = "shutdown"
        /\ \A q \in Runs : call'[q].pc # "idle" => call'[q].kind \in {"execute", "inspect"}
    BY <1>1, <1>2, <1>4, CallersAreCallers DEF CallInv
  <2>3. QED
    BY <2>1, <2>2 DEF CallInv
<1>7. MicroInv'
  BY <1>1 DEF MicroInv
<1>8. ShutdownInv'
  <2>1. call'[Shutdown].why = call[Shutdown].why /\ (call'[Shutdown].pc # "idle" => call[Shutdown].pc # "idle")
    BY <1>1, <1>2, <1>4, CallersAreCallers
  <2>2. QED
    BY <1>1, <2>1 DEF ShutdownInv, Made
<1>9. StopInv'
  BY <1>1 DEF StopInv, Failed, Alive
<1>10. QED
  BY <1>5, <1>6, <1>7, <1>8, <1>9 DEF Table

-----------------------------------------------------------------------------
(* What the provider's steps leave to the supervisor: requests that were   *)
(* made stay what they are, at most a new one is sent, and no answer comes *)
(* from anywhere but the supervisor.                                       *)

CallsGoOn ==
    /\ \A c \in Callers : call[c].pc # "idle" => call'[c].pc # "idle" /\ call'[c].kind = call[c].kind
    /\ \A c \in Callers : Made(c) => call'[c].pc \notin {"idle", "asked"}

InboxGrows ==
    \/ inbox' = inbox
    \/ \E c \in Callers : /\ inbox' = Append(inbox, c) /\ ~Made(c)
                          /\ call'[c].pc \notin {"idle", "asked"}
                          /\ c \in Runs => call[c].pc = "idle"

OutboxShrinks == outbox' = outbox \/ outbox' = <<>> \/ (outbox # <<>> /\ outbox' = Tail(outbox))

ResolutionsStay ==
    \A i \in 1 .. Len(micro') : micro'[i].what = "resolve" =>
        \/ \E j \in 1 .. Len(micro) : micro'[i] = micro[j]
        \/ \E j \in 1 .. Len(outbox) : micro'[i].reply = outbox[j]

ResultsStay ==
    \A r \in Runs : call'[r].res \in {"ok", "error"} =>
        \/ call'[r].res = call[r].res /\ call'[r].outs = call[r].outs
        \/ \E j \in 1 .. Len(micro) :
              /\ micro[j].what = "resolve" /\ micro[j].reply \in ReplyRecords
              /\ micro[j].reply.id = r
              /\ call'[r].res = micro[j].reply.kind /\ call'[r].outs = micro[j].reply.outs

Goes == CallsGoOn /\ InboxGrows /\ OutboxShrinks /\ ResolutionsStay /\ ResultsStay

(* The steps that change no call. *)
LEMMA EventGoes ==
    ASSUME Table, Event, UNCHANGED <<call, inbox>>, OutboxShrinks,
           \A i \in 1 .. Len(micro') : micro'[i].what = "resolve" =>
               \E j \in 1 .. Len(outbox) : micro'[i].reply = outbox[j]
    PROVE  Goes
BY DEF Goes, CallsGoOn, InboxGrows, ResolutionsStay, ResultsStay, Made

LEMMA FailingAlone ==
    ASSUME Table, NEW why \in Callers, Fail(why, <<>>)
    PROVE  \A i \in 1 .. Len(micro') : micro'[i].what = "reject"
<1>1. NodeTyped /\ <<>> \in Seq(EntryRecords) /\ Len(<<>>) = 0
  BY DEF Table
<1>2. \A i \in 1 .. Len(micro') : i > Len(<<>>) => micro'[i].what = "reject"
  BY <1>1, Failing
<1>3. QED
  BY <1>1, <1>2

LEMMA DeliverGoes ==
    ASSUME Table, Deliver
    PROVE  Goes
<1> DEFINE reply == Head(outbox)
<1>1. NodeTyped /\ Event /\ outbox # <<>> /\ UNCHANGED <<call, inbox>>
  BY DEF Table, Deliver
<1>2. reply = outbox[1] /\ 1 \in 1 .. Len(outbox)
  BY <1>1 DEF NodeTyped
<1>3. CASE reply.kind = "garbage"
  <2>1. Fail(Start, <<>>)
    BY <1>3 DEF Deliver
  <2>2. outbox' = <<>>
    BY <2>1 DEF Fail
  <2>3. \A i \in 1 .. Len(micro') : micro'[i].what = "reject"
    BY <2>1, FailingAlone, CallersAreCallers
  <2>4. QED
    BY <1>1, <2>2, <2>3, EventGoes DEF OutboxShrinks
<1>4. CASE reply.kind # "garbage"
  <2>1. /\ outbox' = Tail(outbox)
        /\ micro' = IF reply.id \notin pending THEN <<>>
                    ELSE IF reply.kind = "rpc-error" THEN <<Rejection(reply.id, Nobody)>>
                    ELSE <<Resolution(reply)>>
    BY <1>4 DEF Deliver
  <2> HIDE DEF reply
  <2>2. Rejection(reply.id, Nobody).what = "reject" /\ Resolution(reply).reply = reply
    BY DEF Rejection, Resolution
  <2>3. \A i \in 1 .. Len(micro') : micro'[i].what = "resolve" => micro'[i].reply = outbox[1]
    <3>1. CASE reply.id \notin pending
      BY <2>1, <3>1
    <3>2. CASE reply.id \in pending /\ reply.kind = "rpc-error"
      <4>1. micro' = <<Rejection(reply.id, Nobody)>>
        BY <2>1, <3>2
      <4>2. QED
        BY <2>2, <4>1
    <3>3. CASE reply.id \in pending /\ reply.kind # "rpc-error"
      <4>1. micro' = <<Resolution(reply)>>
        BY <2>1, <3>3
      <4>2. \A i \in 1 .. Len(micro') : micro'[i] = Resolution(reply)
        BY <4>1
      <4>3. QED
        BY <1>2, <2>2, <4>2
    <3>4. QED
      BY <3>1, <3>2, <3>3
  <2>4. QED
    BY <1>1, <1>2, <2>1, <2>3, EventGoes DEF OutboxShrinks
<1>5. QED
  BY <1>3, <1>4

LEMMA TimerGoes ==
    ASSUME Table, NEW c \in Callers, Deadline(c) \/ Cancel(c)
    PROVE  Goes
<1>1. Event /\ UNCHANGED <<call, inbox>> /\ NodeTyped
  BY DEF Deadline, Cancel, Table
<1>2. OutboxShrinks
  BY DEF Deadline, Cancel, OutboxShrinks
<1>3. CASE Cancel(c)
  <2>1. micro' = <<Rejection(c, Nobody)>> /\ Rejection(c, Nobody).what = "reject"
    BY <1>3 DEF Cancel, Rejection
  <2>2. \A i \in 1 .. Len(micro') : micro'[i] = Rejection(c, Nobody)
    BY <2>1
  <2>3. \A i \in 1 .. Len(micro') : micro'[i].what # "resolve"
    BY <2>1, <2>2
  <2>4. QED
    BY <1>1, <1>2, <2>3, EventGoes
<1>4. CASE Deadline(c)
  <2> DEFINE S == pending \ {c}
             R == Rejections(S, FirstReason(c))
  <2>1. micro' = <<Rejection(c, c)>> \o R /\ Rejection(c, c).what = "reject"
    BY <1>4 DEF Deadline, Rejection
  <2>2. FirstReason(c) \in Callers \cup {Nobody}
    BY <1>1 DEF FirstReason, NodeTyped
  <2>3. S \subseteq Callers /\ IsFiniteSet(S)
    BY <1>1, FS_RemoveElement DEF NodeTyped
  <2> HIDE DEF S
  <2>4. R \in Seq(EntryRecords) /\ \A i \in 1 .. Len(R) : R[i].what = "reject"
    BY <2>2, <2>3, Rejecting
  <2> HIDE DEF R
  <2>5. ASSUME NEW i \in 1 .. Len(micro')  PROVE micro'[i].what = "reject"
    <3>1. /\ Len(micro') = 1 + Len(R) /\ Len(R) \in Nat /\ micro'[1] = Rejection(c, c)
          /\ \A j \in 1 .. Len(R) : micro'[1 + j] = R[j]
      BY <2>1, <2>4
    <3>2. CASE i = 1
      BY <2>1, <3>1, <3>2
    <3>3. CASE i # 1
      <4>1. i - 1 \in 1 .. Len(R) /\ 1 + (i - 1) = i
        BY <3>1, <3>3
      <4>2. micro'[i] = R[i - 1]
        BY <3>1, <4>1
      <4>3. QED
        BY <2>4, <4>1, <4>2
    <3>4. QED
      BY <3>2, <3>3
  <2>6. QED
    BY <1>1, <1>2, <2>5, EventGoes
<1>5. QED
  BY <1>3, <1>4

LEMMA BeginGoes ==
    ASSUME Table, Event, NEW c \in Runs \cup {Start}, NEW kind \in {"start", "execute", "inspect"},
           Begin(c, kind)
    PROVE  Goes
<1> DEFINE r == [call[c] EXCEPT !.pc = "waiting", !.kind = kind]
<1> USE CallersAreCallers
<1>1. c \in Callers /\ NodeTyped /\ call[c].pc = "idle" /\ micro = <<>>
  BY DEF Table, Begin, Event
<1>2. /\ r \in CallRecords /\ r.pc = "waiting" /\ r.kind = kind /\ r.res = call[c].res
      /\ r.outs = call[c].outs
  BY ZenonT(60), <1>1, CallFields DEF CallRecords
<1>3. call' = [call EXCEPT ![c] = r]
  BY <1>1 DEF Begin, NodeTyped
<1> HIDE DEF r
<1>4. /\ call' \in [Callers -> CallRecords] /\ call'[c] = r
      /\ \A d \in Callers : d # c => call'[d] = call[d]
  BY <1>1, <1>2, <1>3, CallUpdate DEF NodeTyped
<1>5. CallsGoOn
  BY <1>1, <1>2, <1>4 DEF CallsGoOn, Made
<1>6. Request(c, <<>>) /\ outbox' = outbox
  BY DEF Begin
<1>7. inbox' = inbox \/ inbox' = Append(inbox, c)
  BY <1>6, Zenon DEF Request
<1>8. ~Made(c) /\ call'[c].pc \notin {"idle", "asked"}
  BY <1>1, <1>2, <1>4 DEF Made
<1>9. InboxGrows
  BY <1>1, <1>7, <1>8 DEF InboxGrows
<1>10. micro' = <<>> \/ micro' = Append(<<>>, Rejection(c, closed))
  BY <1>6, Zenon DEF Request
<1>11. Rejection(c, closed).what = "reject"
  BY DEF Rejection
<1>12. \A i \in 1 .. Len(micro') : micro'[i].what # "resolve"
  BY <1>10, <1>11
<1>13. ResultsStay
  BY <1>1, <1>2, <1>4 DEF ResultsStay
<1>14. QED
  BY <1>5, <1>6, <1>9, <1>12, <1>13 DEF Goes, OutboxShrinks, ResolutionsStay

LEMMA RetireGoes ==
    ASSUME Table, Retire
    PROVE  Goes
<1> DEFINE r == [call[Shutdown] EXCEPT !.pc = "asked", !.kind = "shutdown"]
           S == pending \cap (Runs \cup {Start})
           A == Rejections(S, Nobody)
<1> USE CallersAreCallers
<1>1. /\ NodeTyped /\ micro = <<>> /\ call[Shutdown].pc = "idle" /\ inbox' = inbox /\ outbox' = outbox
  BY DEF Table, Retire, Event, Ready
<1>2. r \in CallRecords
  BY <1>1, CallFields DEF CallRecords
<1>3. call' = [call EXCEPT ![Shutdown] = r]
  BY <1>1 DEF Retire, NodeTyped
<1> HIDE DEF r
<1>4. \A d \in Callers : d # Shutdown => call'[d] = call[d]
  BY <1>1, <1>2, <1>3, CallUpdate DEF NodeTyped
<1>5. CallsGoOn
  BY <1>1, <1>4 DEF CallsGoOn, Made
<1>6. ResultsStay
  BY <1>4 DEF ResultsStay
<1>7. Nobody \in Callers \cup {Nobody} /\ S \subseteq Callers /\ IsFiniteSet(S)
  BY <1>1, FS_Subset DEF NodeTyped
<1>8. micro' = Append(A, Beginning(Shutdown))
  BY DEF Retire, Retirement, Aborted
<1> HIDE DEF S
<1>9. A \in Seq(EntryRecords) /\ \A i \in 1 .. Len(A) : A[i].what = "reject"
  BY <1>7, Rejecting
<1>10. Beginning(Shutdown).what = "begin" /\ Beginning(Shutdown) \in EntryRecords
  BY DEF Beginning, EntryRecords
<1> HIDE DEF A
<1>11. \A i \in 1 .. Len(micro') : micro'[i].what # "resolve"
  <2>1. /\ Len(micro') = Len(A) + 1 /\ Len(A) \in Nat
        /\ \A i \in 1 .. Len(A) : micro'[i] = A[i]
        /\ micro'[Len(A) + 1] = Beginning(Shutdown)
    BY <1>8, <1>9, <1>10, AppendProperties
  <2>2. \A i \in 1 .. Len(micro') : i \in 1 .. Len(A) \/ i = Len(A) + 1
    BY <2>1
  <2>3. QED
    BY <1>9, <1>10, <2>1, <2>2
<1>12. QED
  BY <1>1, <1>5, <1>6, <1>11 DEF Goes, InboxGrows, OutboxShrinks, ResolutionsStay

LEMMA ContinueGoes ==
    ASSUME Table, Continue
    PROVE  Goes
<1> DEFINE now == Head(micro)
           c == now.who
           rest == Tail(micro)
<1> USE CallersAreCallers
<1>1. micro # <<>> /\ c \in Callers /\ NodeTyped /\ MicroInv
  BY ContinueCases, FirstEntry DEF Table
<1>2. /\ rest \in Seq(EntryRecords) /\ now = micro[1] /\ 1 \in 1 .. Len(micro)
      /\ \A i \in 1 .. Len(rest) : rest[i] = micro[i + 1] /\ i + 1 \in 1 .. Len(micro)
  BY <1>1, FirstEntry
<1>3. \A i \in 1 .. Len(rest) : \E j \in 1 .. Len(micro) : rest[i] = micro[j]
  BY <1>2
<1>4. CASE ShutsDown(now)
  <2> DEFINE r == [call[Shutdown] EXCEPT !.pc = "waiting"]
  <2>1. /\ Request(Shutdown, rest) /\ ~Failed /\ outbox' = outbox /\ c = Shutdown
        /\ now.what = "begin" /\ call' = [call EXCEPT ![Shutdown].pc = "waiting"]
    BY <1>4 DEF ShutsDown
  <2>2. call[Shutdown].pc = "asked"
    BY <1>1, <1>2, <2>1 DEF MicroInv
  <2>3. /\ r \in CallRecords /\ r.pc = "waiting" /\ r.kind = call[Shutdown].kind
    BY <1>1, CallFields DEF CallRecords
  <2>4. call' = [call EXCEPT ![Shutdown] = r]
    BY <1>1, <2>1 DEF NodeTyped
  <2> HIDE DEF r
  <2>5. call'[Shutdown] = r /\ \A d \in Callers : d # Shutdown => call'[d] = call[d]
    BY <1>1, <2>3, <2>4, CallUpdate DEF NodeTyped
  <2>6. CallsGoOn /\ ResultsStay
    BY <2>3, <2>5 DEF CallsGoOn, ResultsStay, Made
  <2>7. micro' = rest /\ (inbox' = inbox \/ inbox' = Append(inbox, Shutdown))
    BY <1>1, <1>2, <2>1, Requesting
  <2>8. InboxGrows
    BY <2>2, <2>3, <2>5, <2>7 DEF InboxGrows, Made
  <2>9. ResolutionsStay
    BY <1>3, <2>7 DEF ResolutionsStay
  <2>10. QED
    BY <2>1, <2>6, <2>8, <2>9 DEF Goes, OutboxShrinks
<1>5. CASE Stops(now)
  <2>1. PICK result \in {"ok", "thrown"}, reason \in Callers \cup {Nobody} :
           /\ result = "ok" => c = Shutdown
           /\ StopHandle(c, rest, Stopped(c, result, reason))
    BY <1>5 DEF Stops
  <2> DEFINE r == Stopped(c, result, reason)
  <2>2. /\ r \in CallRecords /\ r.pc = "stopping" /\ r.res = result /\ r.kind = call[c].kind
    BY <1>1, StoppedRecord
  <2>3. call' = [call EXCEPT ![c] = r] /\ inbox' = inbox
    BY <2>1 DEF StopHandle
  <2> HIDE DEF r
  <2>4. call'[c] = r /\ \A d \in Callers : d # c => call'[d] = call[d]
    BY <1>1, <2>2, <2>3, CallUpdate DEF NodeTyped
  <2>5. CallsGoOn
    BY <2>2, <2>4 DEF CallsGoOn, Made
  <2>6. result # "ok" => result = "thrown"
    OBVIOUS
  <2>7. ResultsStay
    BY <2>1, <2>2, <2>4, <2>6 DEF ResultsStay
  <2>8. InboxGrows
    BY <2>3 DEF InboxGrows
  <2>9. OutboxShrinks /\ ResolutionsStay
    <3>1. CASE stop = "no"
      <4>1. Fail(c, rest)
        BY <2>1, <3>1 DEF StopHandle
      <4>2. /\ outbox' = <<>>
            /\ \A i \in 1 .. Len(rest) : micro'[i] = rest[i]
            /\ \A i \in 1 .. Len(micro') : i > Len(rest) => micro'[i].what = "reject"
            /\ micro' \in Seq(EntryRecords)
        BY ZenonT(60), <1>1, <1>2, <4>1, Failing
      <4>3. \A i \in 1 .. Len(micro') : i > Len(rest) \/ i \in 1 .. Len(rest)
        BY <1>2, <4>2
      <4>4. \A i \in 1 .. Len(micro') : micro'[i].what = "resolve" => i \in 1 .. Len(rest)
        BY <4>2, <4>3
      <4>5. QED
        BY <1>3, <4>2, <4>4 DEF OutboxShrinks, ResolutionsStay
    <3>2. CASE stop # "no"
      BY <1>3, <2>1, <3>2 DEF StopHandle, OutboxShrinks, ResolutionsStay
    <3>3. QED
      BY <3>1, <3>2
  <2>10. QED
    BY <2>5, <2>7, <2>8, <2>9 DEF Goes
<1>6. CASE Settles(now)
  <2> DEFINE r == Settled(c, now.reply)
  <2>1. /\ now.reply \in ReplyRecords /\ now.reply.id = c
        /\ r \in CallRecords /\ r.pc = "settled" /\ r.res = now.reply.kind
        /\ r.outs = now.reply.outs /\ r.kind = call[c].kind
    BY <1>1, <1>6, SettledRecord
  <2>2. /\ call' = [call EXCEPT ![c] = r] /\ inbox' = inbox /\ outbox' = outbox /\ micro' = rest
        /\ now.what = "resolve"
    BY <1>6 DEF Settles
  <2> HIDE DEF r
  <2>3. call'[c] = r /\ \A d \in Callers : d # c => call'[d] = call[d]
    BY <1>1, <2>1, <2>2, CallUpdate DEF NodeTyped
  <2>4. CallsGoOn
    BY <2>1, <2>3 DEF CallsGoOn, Made
  <2>5. ResultsStay
    BY <1>2, <2>1, <2>2, <2>3 DEF ResultsStay
  <2>6. ResolutionsStay
    BY <1>3, <2>2 DEF ResolutionsStay
  <2>7. QED
    BY <2>2, <2>4, <2>5, <2>6 DEF Goes, InboxGrows, OutboxShrinks
<1>7. QED
  BY <1>4, <1>5, <1>6, ContinueCases

LEMMA FinishGoes ==
    ASSUME Table, NEW c \in Callers, Finish(c)
    PROVE  Goes
<1> DEFINE r == [call[c] EXCEPT !.pc = "settled", !.res = IF stop = "failed" THEN "thrown" ELSE call[c].res]
<1>1. NodeTyped /\ micro = <<>> /\ UNCHANGED <<micro, inbox, outbox>>
  BY DEF Table, Finish, Event
<1>2. /\ r \in CallRecords /\ r.pc = "settled" /\ r.kind = call[c].kind /\ r.outs = call[c].outs
      /\ r.res = call[c].res \/ r.res = "thrown"
  BY <1>1, CallFields DEF CallRecords
<1>3. call' = [call EXCEPT ![c] = r]
  BY <1>1 DEF Finish, NodeTyped
<1> HIDE DEF r
<1>4. call'[c] = r /\ \A d \in Callers : d # c => call'[d] = call[d]
  BY <1>1, <1>2, <1>3, CallUpdate DEF NodeTyped
<1>5. CallsGoOn
  BY <1>2, <1>4 DEF CallsGoOn, Made
<1>6. ResultsStay
  BY <1>2, <1>4, CallersAreCallers DEF ResultsStay
<1>7. QED
  BY <1>1, <1>5, <1>6 DEF Goes, InboxGrows, OutboxShrinks, ResolutionsStay

(* Together: the provider's steps but the end of a termination. *)
LEMMA ProviderStep ==
    ASSUME Table, Provider, ~Join
    PROVE  Table' /\ Goes /\ UNCHANGED python
<1> USE CallersAreCallers
<1>1. CASE StartKernel
  BY <1>1, BeginTable, BeginGoes DEF StartKernel, Begin
<1>2. CASE Retire
  BY <1>2, RetireTable, RetireGoes DEF Retire
<1>3. CASE Continue
  BY <1>3, ContinueTable, ContinueGoes, ContinueCases
<1>4. CASE Deliver
  BY <1>4, DeliverTable, DeliverGoes DEF Deliver
<1>5. CASE ProcessDone
  <2>1. Event /\ ~Failed /\ Fail(Start, <<>>) /\ UNCHANGED <<call, stop, inbox, python>>
    BY <1>5 DEF ProcessDone
  <2>2. sup' = sup /\ outbox' = <<>>
    BY <2>1 DEF python, Fail
  <2>3. \A i \in 1 .. Len(micro') : micro'[i].what = "reject"
    BY <2>1, FailingAlone
  <2>4. Goes
    BY <2>1, <2>2, <2>3, EventGoes DEF OutboxShrinks
  <2>5. QED
    BY <2>1, <2>2, <2>4, LostTable
<1>6. ASSUME NEW r \in Runs, NEW kind \in {"execute", "inspect"}, Run(r, kind)
      PROVE  Table' /\ Goes /\ UNCHANGED python
  <2>1. Event /\ Begin(r, kind) /\ call[Shutdown].pc = "idle" /\ r # Start /\ kind # "start"
    BY <1>6 DEF Run, Ready
  <2>2. Table'
    BY <2>1, BeginTable
  <2>3. Goes
    BY <2>1, BeginGoes
  <2>4. QED
    BY <2>1, <2>2, <2>3 DEF Begin
<1>7. ASSUME NEW c \in Callers, Deadline(c) \/ Cancel(c) \/ Finish(c)
      PROVE  Table' /\ Goes /\ UNCHANGED python
  <2>1. UNCHANGED python
    BY <1>7 DEF Deadline, Cancel, Finish
  <2>2. QED
    BY <1>7, <2>1, DeadlineTable, CancelTable, FinishTable, TimerGoes, FinishGoes
<1>8. QED
  BY <1>1, <1>2, <1>3, <1>4, <1>5, <1>6, <1>7 DEF Provider

(* The supervisor and the kernel work only for an open connection, take a  *)
(* request or put an answer, and leave Node alone.                         *)
LEMMA OutsideTable ==
    ASSUME Table, ~Failed, UNCHANGED node, inbox' \in Seq(Callers), outbox' \in Seq(ReplyRecords)
    PROVE  Table'
<1>1. /\ NodeTyped /\ CallInv /\ MicroInv /\ ShutdownInv /\ StopInv
      /\ UNCHANGED <<call, pending, closed, stop, micro>>
  BY DEF Table, node
<1>2. NodeTyped'
  BY <1>1 DEF NodeTyped
<1>3. CallInv' /\ MicroInv' /\ ShutdownInv'
  BY <1>1 DEF CallInv, MicroInv, ShutdownInv, Made
<1>4. StopInv'
  <2>1. stop = "no"
    BY <1>1 DEF StopInv
  <2>2. QED
    BY <1>1, <2>1 DEF StopInv, Failed
<1>5. QED
  BY <1>2, <1>3, <1>4 DEF Table

-----------------------------------------------------------------------------
(* The supervisor's part and the answers, while only the provider moves. *)

LEMMA MadeIsNotIdle == \A c \in Callers : Made(c) => call[c].pc # "idle"
BY DEF Made

LEMMA GoesService ==
    ASSUME Table, Service, Goes, UNCHANGED python
    PROVE  Service'
<1>1. /\ PythonTyped /\ InboxInv /\ SupInv /\ KernelInv /\ LedgerInv /\ NodeTyped
      /\ UNCHANGED <<sup, kernel, iopub, shell, made>>
      /\ CallsGoOn /\ InboxGrows
  BY DEF Service, python, Table, Goes
<1>2. \A c \in Callers : Made(c) => /\ call'[c].pc \notin {"idle", "asked"} /\ call'[c].kind = call[c].kind
  BY <1>1, MadeIsNotIdle DEF CallsGoOn
<1>3. \A i \in 1 .. Len(inbox) : inbox[i] \in Callers
  BY <1>1 DEF NodeTyped
<1>4. PythonTyped'
  BY <1>1 DEF PythonTyped
<1>5. /\ InboxInv'
      /\ \A c \in Callers : Made(c) /\ ~InInbox(c) => ~InInbox(c)'
      /\ \A r \in Runs : InInbox(r)' => InInbox(r) \/ call[r].pc = "idle"
  <2>1. CASE inbox' = inbox
    BY <1>1, <1>2, <1>3, <2>1 DEF InboxInv, InInbox, Made
  <2>2. CASE inbox' # inbox
    <3>1. PICK c \in Callers : /\ inbox' = Append(inbox, c) /\ ~Made(c)
                               /\ call'[c].pc \notin {"idle", "asked"}
                               /\ c \in Runs => call[c].pc = "idle"
      BY <1>1, <2>2 DEF InboxGrows
    <3>2. /\ Len(inbox') = Len(inbox) + 1 /\ Len(inbox) \in Nat
          /\ \A i \in 1 .. Len(inbox) : inbox'[i] = inbox[i]
          /\ inbox'[Len(inbox) + 1] = c
      BY <1>1, <3>1, AppendProperties DEF NodeTyped
    <3>3. \A i \in 1 .. Len(inbox') : i \in 1 .. Len(inbox) \/ i = Len(inbox) + 1
      BY <3>2
    <3>4. \A i \in 1 .. Len(inbox) : inbox[i] # c
      BY <1>1, <3>1 DEF InboxInv
    <3>5. \A i \in 1 .. Len(inbox') : call'[inbox'[i]].pc \notin {"idle", "asked"}
      BY <1>1, <1>2, <1>3, <3>1, <3>2, <3>3 DEF InboxInv
    <3>6. \A i, j \in 1 .. Len(inbox') : inbox'[i] = inbox'[j] => i = j
      BY <1>1, <3>2, <3>3, <3>4 DEF InboxInv
    <3>7. \A d \in Callers : InInbox(d)' => InInbox(d) \/ d = c
      BY <3>2, <3>3 DEF InInbox
    <3>8. QED
      BY <3>1, <3>5, <3>6, <3>7, CallersAreCallers DEF InboxInv, Made
  <2>3. QED
    BY <2>1, <2>2
<1>6. sup.who \in Callers \cup {Nobody}
  BY <1>1 DEF PythonTyped, SupRecords
<1>7. SupInv'
  <2>1. sup.who # Nobody => sup.who \in Callers /\ Made(sup.who) /\ ~InInbox(sup.who)
    BY <1>1, <1>6 DEF SupInv
  <2>2. sup.who # Nobody => /\ call'[sup.who].pc \notin {"idle", "asked"}
                            /\ call'[sup.who].kind = call[sup.who].kind
    BY <1>2, <2>1
  <2>3. /\ sup.at \in Executes => sup.who \in Runs /\ call[sup.who].kind = "execute"
        /\ sup.at \in {"inspect", "inspecting"} => sup.who \in Runs /\ call[sup.who].kind = "inspect"
    BY <1>1 DEF SupInv
  <2>4. \A r \in Runs : r # Nobody
    BY CallersAreCallers
  <2>5. sup.who # Nobody => ~(\E i \in 1 .. Len(inbox') : inbox'[i] = sup.who)
    BY <1>5, <2>1 DEF InInbox
  <2>6. /\ sup.at \in Executes => sup.who \in Runs /\ call'[sup.who].kind = "execute"
        /\ sup.at \in {"inspect", "inspecting"} => sup.who \in Runs /\ call'[sup.who].kind = "inspect"
    BY <2>2, <2>3, <2>4
  <2>7. QED
    BY <1>1, <2>2, <2>5, <2>6 DEF SupInv, Made, InInbox
<1>8. \A r \in Runs : Unsent(r)' => Unsent(r)
  BY <1>1, <1>5, CallersAreCallers DEF Unsent, CallsGoOn
<1>9. KernelInv'
  BY <1>1, <1>8 DEF KernelInv, PrintedError
<1>10. LedgerInv'
  BY <1>1 DEF LedgerInv, Unread, Began
<1>11. QED
  BY <1>4, <1>5, <1>7, <1>9, <1>10 DEF Service

(* An answer comes from an answer. *)
LEMMA GoesKeepsAnswers ==
    ASSUME Table, Goes, NEW a \in ResultsOfRuns, IsAnswer(a)'
    PROVE  IsAnswer(a)
<1>1. /\ NodeTyped /\ OutboxShrinks /\ ResolutionsStay /\ ResultsStay
  BY DEF Table, Goes
<1>2. CASE \E i \in 1 .. Len(outbox') : outbox'[i] = a
  <2>1. PICK i \in 1 .. Len(outbox') : outbox'[i] = a
    BY <1>2
  <2>2. CASE outbox' = outbox
    BY <2>1, <2>2 DEF IsAnswer
  <2>3. CASE outbox' = <<>>
    BY <2>1, <2>3
  <2>4. CASE outbox # <<>> /\ outbox' = Tail(outbox)
    <3>1. i + 1 \in 1 .. Len(outbox) /\ outbox[i + 1] = a
      BY <1>1, <2>1, <2>4 DEF NodeTyped
    <3>2. QED
      BY <3>1 DEF IsAnswer
  <2>5. QED
    BY <1>1, <2>2, <2>3, <2>4 DEF OutboxShrinks
<1>3. CASE \E i \in 1 .. Len(micro') : micro'[i].what = "resolve" /\ micro'[i].reply = a
  BY <1>1, <1>3 DEF ResolutionsStay, IsAnswer
<1>4. CASE a.kind = call'[a.id].res /\ a.outs = call'[a.id].outs
  <2>1. a.id \in Runs /\ a.kind \in {"ok", "error"} /\ a \in ReplyRecords
    BY DEF ResultsOfRuns
  <2>2. CASE call'[a.id].res = call[a.id].res /\ call'[a.id].outs = call[a.id].outs
    BY <1>4, <2>2 DEF IsAnswer
  <2>3. CASE \E j \in 1 .. Len(micro) :
               /\ micro[j].what = "resolve" /\ micro[j].reply \in ReplyRecords
               /\ micro[j].reply.id = a.id
               /\ call'[a.id].res = micro[j].reply.kind
               /\ call'[a.id].outs = micro[j].reply.outs
    <3>1. PICK j \in 1 .. Len(micro) :
               /\ micro[j].what = "resolve" /\ micro[j].reply \in ReplyRecords
               /\ micro[j].reply.id = a.id
               /\ call'[a.id].res = micro[j].reply.kind
               /\ call'[a.id].outs = micro[j].reply.outs
      BY <2>3
    <3> DEFINE b == micro[j].reply
    <3>2. b \in ReplyRecords /\ b.id = a.id /\ b.kind = a.kind /\ b.outs = a.outs
      BY <1>4, <3>1
    <3> HIDE DEF b
    <3>3. b = a
      BY <2>1, <3>2 DEF ReplyRecords
    <3>4. micro[j].reply = a
      BY <3>3 DEF b
    <3>5. QED
      BY <3>1, <3>4 DEF IsAnswer
  <2>4. QED
    BY <1>1, <1>4, <2>1, <2>2, <2>3 DEF ResultsStay
<1>5. QED
  BY <1>2, <1>3, <1>4 DEF IsAnswer

LEMMA GoesAnswers ==
    ASSUME Inv, Goes, UNCHANGED python, Service'
    PROVE  Answers'
<1>1. /\ Table /\ Service /\ Answers /\ CallsGoOn /\ InboxGrows
      /\ UNCHANGED <<sup, kernel, iopub, shell, made>> /\ NodeTyped
  BY DEF Inv, python, Goes, Table
<1>2. SUFFICES ASSUME NEW a \in ResultsOfRuns, IsAnswer(a)'
               PROVE  Sound(a)'
  BY DEF Answers
<1>3. a.id \in Runs /\ a.id \in Callers
  BY CallersAreCallers DEF ResultsOfRuns
<1>4. IsAnswer(a)
  BY <1>1, <1>2, GoesKeepsAnswers
<1>5. Sound(a)
  BY <1>1, <1>4 DEF Answers
<1>6. call'[a.id].pc \notin {"idle", "asked"} /\ call'[a.id].kind = call[a.id].kind
  BY <1>1, <1>3, <1>5, MadeIsNotIdle DEF Sound, Sealed, CallsGoOn
<1>7. ~InInbox(a.id)'
  <2>1. ~InInbox(a.id) /\ Made(a.id)
    BY <1>5 DEF Sound, Sealed
  <2>2. CASE inbox' = inbox
    BY <2>1, <2>2 DEF InInbox
  <2>3. CASE inbox' # inbox
    <3>1. PICK c \in Callers : inbox' = Append(inbox, c) /\ ~Made(c)
      BY <1>1, <2>3 DEF InboxGrows
    <3>2. \A i \in 1 .. Len(inbox') : inbox'[i] = c \/ \E j \in 1 .. Len(inbox) : inbox'[i] = inbox[j]
      BY <1>1, <3>1 DEF NodeTyped
    <3>3. QED
      BY <2>1, <3>1, <3>2 DEF InInbox
  <2>4. QED
    BY <2>2, <2>3
<1>8. Over(a.id)' <=> Over(a.id)
  BY <1>1 DEF Over
<1>9. Right(a)' <=> Right(a)
  BY <1>1 DEF Right, Began, PrintedError
<1>10. QED
  BY <1>1, <1>5, <1>6, <1>7, <1>8, <1>9 DEF Sound, Sealed, Made

-----------------------------------------------------------------------------
(* The supervisor's steps. *)

LEMMA TailOf ==
    ASSUME NEW S, NEW q \in Seq(S), q # <<>>
    PROVE  /\ Tail(q) \in Seq(S) /\ Len(Tail(q)) = Len(q) - 1 /\ Len(q) \in Nat
           /\ Head(q) = q[1] /\ 1 \in 1 .. Len(q) /\ Head(q) \in S
           /\ \A i \in 1 .. Len(Tail(q)) : Tail(q)[i] = q[i + 1] /\ i + 1 \in 1 .. Len(q)
<1>1. /\ Tail(q) \in Seq(S) /\ Len(Tail(q)) = Len(q) - 1 /\ Len(q) \in Nat
      /\ Head(q) = q[1] /\ Len(q) > 0 /\ Head(q) \in S
      /\ \A i \in 1 .. Len(Tail(q)) : Tail(q)[i] = q[i + 1]
  OBVIOUS
<1>2. \A i \in 1 .. Len(Tail(q)) : i + 1 \in 1 .. Len(q)
  BY <1>1
<1>3. QED
  BY <1>1, <1>2

LEMMA PythonFields ==
    ASSUME PythonTyped
    PROVE  /\ sup.at \in {"reading", "start", "execute", "inspect", "shutdown", "collect", "reply",
                          "interrupted", "last", "inspecting", "gone"}
           /\ sup.who \in Callers \cup {Nobody} /\ sup.ledger \in Seq(Texts)
           /\ sup.failed \in BOOLEAN /\ sup.code \in {"none", "limit", "timeout"}
           /\ kernel.msg \in Runs \cup {Nobody}
           /\ kernel.idled \in BOOLEAN /\ kernel.replied \in BOOLEAN
           /\ \A i \in 1 .. Len(iopub) : iopub[i] \in IopubRecords
           /\ \A i \in 1 .. Len(shell) : shell[i] \in ShellRecords
           /\ \A r \in Runs : made[r] \in Seq(Texts)
           /\ Len(sup.ledger) \in Nat
BY DEF PythonTyped, SupRecords, KernelRecords

LEMMA ReadingFields ==
    /\ Reading.at = "reading" /\ Reading.who = Nobody /\ Reading.ledger = <<>>
    /\ Reading.failed = FALSE /\ Reading \in SupRecords
    /\ Off.msg = Nobody /\ Off.idled = FALSE /\ Off.replied = FALSE /\ Off \in KernelRecords
    /\ [Reading EXCEPT !.at = "gone"].at = "gone" /\ [Reading EXCEPT !.at = "gone"].who = Nobody
    /\ [Reading EXCEPT !.at = "gone"] \in SupRecords
<1>1. <<>> \in Seq(Texts)
  OBVIOUS
<1>2. QED
  BY <1>1 DEF Reading, Off, SupRecords, KernelRecords

(* The answers stay what they were if nothing unseals one, and a new one   *)
(* is sound.                                                               *)
LEMMA OutsideAnswers ==
    ASSUME Inv, UNCHANGED <<call, micro>>,
           \A r \in Runs : Sealed(r) => Sealed(r)',
           \A r \in Runs : Sealed(r) /\ Over(r) /\ call[r].kind = "execute" =>
               Over(r)' /\ made'[r] = made[r],
           \A b \in ResultsOfRuns : (\E i \in 1 .. Len(outbox') : outbox'[i] = b) =>
               \/ \E j \in 1 .. Len(outbox) : outbox[j] = b
               \/ Sound(b)'
    PROVE  Answers'
<1>1. SUFFICES ASSUME NEW a \in ResultsOfRuns, IsAnswer(a)'
               PROVE  Sound(a)'
  BY DEF Answers
<1>2. a.id \in Runs
  BY DEF ResultsOfRuns
<1>3. CASE IsAnswer(a)
  <2>1. Sound(a)
    BY <1>3 DEF Inv, Answers
  <2>2. Sealed(a.id) /\ Sealed(a.id)'
    BY <1>2, <2>1 DEF Sound
  <2>3. ASSUME call[a.id].kind = "execute"  PROVE Over(a.id)' /\ Right(a)'
    <3>1. Over(a.id)' /\ made'[a.id] = made[a.id] /\ Right(a)
      BY <1>2, <2>1, <2>2, <2>3 DEF Sound
    <3>2. QED
      BY <3>1 DEF Right, PrintedError, Began
  <2>4. QED
    BY <2>2, <2>3 DEF Sound
<1>4. CASE ~IsAnswer(a)
  <2>1. \E i \in 1 .. Len(outbox') : outbox'[i] = a
    BY <1>1, <1>4 DEF IsAnswer
  <2>2. \A j \in 1 .. Len(outbox) : outbox[j] # a
    BY <1>4 DEF IsAnswer
  <2>3. QED
    BY <2>1, <2>2
<1>5. QED
  BY <1>3, <1>4

(* Messages that are read or lost, and a kernel that is not given another  *)
(* run, disturb nothing that is known of the others.                       *)
LEMMA KernelRests ==
    ASSUME KernelInv, made' = made, \A r \in Runs : Unsent(r)' => Unsent(r),
           kernel' = kernel,
           \A i \in 1 .. Len(iopub') : \E j \in 1 .. Len(iopub) : iopub'[i] = iopub[j],
           \A i \in 1 .. Len(shell') : \E j \in 1 .. Len(shell) : shell'[i] = shell[j]
    PROVE  KernelInv'
BY DEF KernelInv, PrintedError

(* A response: the request at hand is answered, and the loop reads on.     *)
LEMMA RespondStep ==
    ASSUME Inv, ~Failed, NEW reply \in ReplyRecords, Respond(reply), UNCHANGED <<kernel, made>>,
           iopub' = iopub,
           shell' = shell \/ (shell # <<>> /\ shell' = Tail(shell)),
           sup.who # Nobody, reply.id = sup.who,
           reply.kind \in {"ok", "error"} /\ sup.who \in Runs /\ call[sup.who].kind = "execute" =>
               Over(sup.who) /\ Right(reply)
    PROVE  Inv'
<1> USE CallersAreCallers
<1>1. /\ Table /\ Service /\ PythonTyped /\ InboxInv /\ SupInv /\ KernelInv /\ NodeTyped
      /\ outbox' = Append(outbox, reply) /\ sup' = Reading /\ inbox' = inbox
      /\ UNCHANGED node /\ UNCHANGED <<call, micro>>
  BY DEF Inv, Table, Service, Respond, node
<1>2. /\ outbox' \in Seq(ReplyRecords) /\ Len(outbox') = Len(outbox) + 1 /\ Len(outbox) \in Nat
      /\ \A i \in 1 .. Len(outbox) : outbox'[i] = outbox[i]
      /\ outbox'[Len(outbox) + 1] = reply
  BY <1>1, AppendProperties DEF NodeTyped
<1>3. Table'
  <2>1. inbox' \in Seq(Callers)
    BY <1>1 DEF NodeTyped
  <2>2. QED
    BY <1>1, <1>2, <2>1, OutsideTable
<1>4. /\ shell' \in Seq(ShellRecords)
      /\ \A i \in 1 .. Len(shell') : \E j \in 1 .. Len(shell) : shell'[i] = shell[j]
  <2>1. CASE shell' = shell
    BY <1>1, <2>1 DEF PythonTyped
  <2>2. CASE shell # <<>> /\ shell' = Tail(shell)
    <3>1. shell \in Seq(ShellRecords)
      BY <1>1 DEF PythonTyped
    <3>2. QED
      BY <2>2, <3>1, TailOf
  <2>3. QED
    BY <2>1, <2>2
<1>5. PythonTyped'
  BY <1>1, <1>4, ReadingFields DEF PythonTyped
<1>6. InboxInv'
  BY <1>1 DEF InboxInv, Made
<1>7. SupInv'
  BY <1>1, ReadingFields DEF SupInv, AtKernel, Executes
<1>8. \A r \in Runs : Unsent(r)' => Unsent(r)
  BY <1>1, ReadingFields DEF Unsent, InInbox
<1>9. KernelInv'
  <2>1. \A i \in 1 .. Len(iopub') : \E j \in 1 .. Len(iopub) : iopub'[i] = iopub[j]
    OBVIOUS
  <2>2. QED
    BY <1>1, <1>4, <1>8, <2>1, KernelRests
<1>10. LedgerInv'
  BY <1>1, ReadingFields DEF LedgerInv
<1>11. Service'
  BY <1>5, <1>6, <1>7, <1>9, <1>10 DEF Service
<1>12. \A r \in Runs : Made(r) /\ ~InInbox(r) => Sealed(r)'
  BY <1>1, ReadingFields DEF Sealed, Made, InInbox
<1>13. Answers'
  <2>1. \A r \in Runs : Sealed(r) => Sealed(r)'
    BY <1>12 DEF Sealed
  <2>2. \A r \in Runs : Over(r)' <=> Over(r)
    BY DEF Over
  <2>3. ASSUME reply \in ResultsOfRuns  PROVE Sound(reply)'
    <3>1. reply.id \in Runs /\ reply.kind \in {"ok", "error"}
      BY <2>3 DEF ResultsOfRuns
    <3>2. Sealed(reply.id)'
      BY <1>1, <1>12, <3>1 DEF SupInv
    <3>3. call[reply.id].kind = "execute" => Over(reply.id)' /\ Right(reply)'
      BY <2>2, <3>1 DEF Right, PrintedError, Began
    <3>4. QED
      BY <1>1, <3>2, <3>3 DEF Sound
  <2>4. \A b \in ResultsOfRuns : (\E i \in 1 .. Len(outbox') : outbox'[i] = b) =>
            \/ \E j \in 1 .. Len(outbox) : outbox[j] = b
            \/ Sound(b)'
    <3>1. \A i \in 1 .. Len(outbox') : i \in 1 .. Len(outbox) \/ i = Len(outbox) + 1
      BY <1>2
    <3>2. \A i \in 1 .. Len(outbox') :
             (\E j \in 1 .. Len(outbox) : outbox[j] = outbox'[i]) \/ outbox'[i] = reply
      BY <1>2, <3>1
    <3>3. QED
      BY <2>3, <3>2
  <2>5. \A r \in Runs : Sealed(r) /\ Over(r) /\ call[r].kind = "execute" =>
            Over(r)' /\ made'[r] = made[r]
    BY <2>2
  <2>6. QED
    BY <1>1, <2>1, <2>4, <2>5, OutsideAnswers
<1>14. QED
  BY <1>3, <1>11, <1>13 DEF Inv

(* The process is gone, and with it what was on the way to the kernel.     *)
LEMMA KilledService ==
    ASSUME Inv, Killed, UNCHANGED <<call, made>>
    PROVE  /\ Service'
           /\ \A r \in Runs : Sealed(r) => Sealed(r)'
           /\ \A r \in Runs : Over(r)'
<1> USE CallersAreCallers
<1>1. /\ sup' = [Reading EXCEPT !.at = "gone"] /\ kernel' = Off
      /\ inbox' = <<>> /\ iopub' = <<>> /\ shell' = <<>>
      /\ PythonTyped /\ KernelInv
  BY DEF Killed, Inv, Service
<1>2. /\ sup' \in SupRecords /\ sup'.at = "gone" /\ sup'.who = Nobody
      /\ kernel' \in KernelRecords /\ kernel'.msg = Nobody
  BY <1>1, ReadingFields
<1>3. PythonTyped'
  BY <1>1, <1>2 DEF PythonTyped
<1>4. InboxInv' /\ \A c : ~InInbox(c)'
  BY <1>1 DEF InboxInv, InInbox
<1>5. SupInv'
  BY <1>2 DEF SupInv, AtKernel, Executes
<1>6. \A r \in Runs : Unsent(r)' => Unsent(r) /\ kernel'.msg # r
  BY <1>2, <1>4 DEF Unsent
<1>7. KernelInv'
  BY <1>1, <1>6 DEF KernelInv
<1>8. LedgerInv'
  BY <1>2 DEF LedgerInv
<1>9. \A r \in Runs : Sealed(r) => Sealed(r)'
  BY <1>2, <1>4 DEF Sealed, Made
<1>10. \A r \in Runs : Over(r)'
  BY <1>2 DEF Over
<1>11. QED
  BY <1>3, <1>4, <1>5, <1>7, <1>8, <1>9, <1>10 DEF Service

(* Steps between a request and its response. *)
LEMMA MovesOn ==
    ASSUME Inv, ~Failed, UNCHANGED <<node, inbox, outbox>>, Service', sup'.who = sup.who,
           \A r \in Runs : Sealed(r) /\ Over(r) /\ call[r].kind = "execute" =>
               Over(r)' /\ made'[r] = made[r]
    PROVE  Inv'
<1>1. Table /\ NodeTyped /\ UNCHANGED <<call, micro>>
  BY DEF Inv, Table, node
<1>2. Table'
  <2>1. inbox' \in Seq(Callers) /\ outbox' \in Seq(ReplyRecords)
    BY <1>1 DEF NodeTyped
  <2>2. QED
    BY <1>1, <2>1, OutsideTable
<1>3. \A r \in Runs : Sealed(r) => Sealed(r)'
  BY <1>1 DEF Sealed, Made, InInbox
<1>4. Answers'
  <2>1. \A b \in ResultsOfRuns : (\E i \in 1 .. Len(outbox') : outbox'[i] = b) =>
            \/ \E j \in 1 .. Len(outbox) : outbox[j] = b
            \/ Sound(b)'
    OBVIOUS
  <2>2. QED
    BY <1>1, <1>3, <2>1, OutsideAnswers
<1>5. QED
  BY <1>2, <1>4 DEF Inv

(* The request is read from the inbox, where it was alone (run).           *)
LEMMA ReadStep ==
    ASSUME Inv, ~Failed, Read
    PROVE  Inv'
<1> DEFINE h == Head(inbox)
           s == [Reading EXCEPT !.at = call[h].kind, !.who = h]
<1> USE CallersAreCallers
<1>1. /\ Table /\ NodeTyped /\ CallInv /\ PythonTyped /\ InboxInv /\ SupInv /\ KernelInv
      /\ inbox # <<>> /\ inbox' = Tail(inbox) /\ sup' = s /\ sup.at = "reading"
      /\ UNCHANGED <<node, outbox, kernel, iopub, shell, made>>
      /\ UNCHANGED <<call, micro>>
  BY DEF Inv, Table, Service, Read, node
<1>2. inbox \in Seq(Callers)
  BY <1>1 DEF NodeTyped
<1>3. /\ inbox' \in Seq(Callers) /\ h = inbox[1] /\ 1 \in 1 .. Len(inbox) /\ h \in Callers
      /\ \A i \in 1 .. Len(inbox') : inbox'[i] = inbox[i + 1] /\ i + 1 \in 1 .. Len(inbox)
      /\ Len(inbox') \in Nat
  BY <1>1, <1>2, TailOf
<1>4. Made(h) /\ call[h].pc # "idle"
  BY <1>1, <1>3, MadeIsNotIdle DEF InboxInv
<1>5. /\ h = Start => call[h].kind = "start"
      /\ h = Shutdown => call[h].kind = "shutdown"
      /\ h \in Runs => call[h].kind \in {"execute", "inspect"}
  BY <1>1, <1>4 DEF CallInv
<1>6. /\ call[h].kind \in {"start", "shutdown", "execute", "inspect"}
      /\ call[h].kind \in {"execute", "inspect"} => h \in Runs
  <2>1. h = Start \/ h = Shutdown \/ h \in Runs
    BY <1>3 DEF Callers
  <2>2. QED
    BY <1>5, <2>1
<1> HIDE DEF h
<1>7. /\ s \in SupRecords /\ s.at = call[h].kind /\ s.who = h /\ s.ledger = <<>> /\ s.failed = FALSE
  BY <1>3, <1>6, ReadingFields DEF SupRecords
<1> HIDE DEF s
<1>8. PythonTyped'
  BY <1>1, <1>7 DEF PythonTyped
<1>9. InboxInv' /\ \A i \in 1 .. Len(inbox') : inbox'[i] # h
  <2>1. \A i \in 1 .. Len(inbox') : Made(inbox'[i])
    BY <1>1, <1>3 DEF InboxInv
  <2>2. ASSUME NEW i \in 1 .. Len(inbox'), NEW j \in 1 .. Len(inbox'), inbox'[i] = inbox'[j]
        PROVE  i = j
    <3>1. inbox[i + 1] = inbox[j + 1] /\ i + 1 \in 1 .. Len(inbox) /\ j + 1 \in 1 .. Len(inbox)
      BY <1>3, <2>2
    <3>2. i + 1 = j + 1
      BY <1>1, <3>1 DEF InboxInv
    <3>3. QED
      BY <3>2
  <2>3. \A i \in 1 .. Len(inbox') : inbox'[i] # h
    <3>1. SUFFICES ASSUME NEW i \in 1 .. Len(inbox'), inbox'[i] = h  PROVE FALSE
      OBVIOUS
    <3>2. inbox[i + 1] = inbox[1] /\ i + 1 \in 1 .. Len(inbox)
      BY <1>3, <3>1
    <3>3. i + 1 = 1
      BY <1>1, <1>3, <3>2 DEF InboxInv
    <3>4. QED
      BY <3>3
  <2>4. QED
    BY <1>1, <2>1, <2>2, <2>3 DEF InboxInv, InInbox, Made
<1>10. SupInv'
  <2>1. h # Nobody
    BY <1>3
  <2>2. h \in Runs => call[h].kind \in {"execute", "inspect"}
    BY <1>5
  <2>3. call[h].kind \notin {"reading", "gone", "inspecting"} \cup AtKernel
    BY <1>6 DEF AtKernel
  <2>4. UNCHANGED call /\ sup'.at = call[h].kind /\ sup'.who = h
    BY <1>1, <1>7
  <2>5. QED
    BY <1>4, <1>6, <1>9, <2>1, <2>2, <2>3, <2>4 DEF SupInv, Made, Executes, InInbox
<1>11. \A r \in Runs : InInbox(r)' => InInbox(r)
  BY <1>3 DEF InInbox
<1>12. InInbox(h)
  BY <1>3 DEF InInbox
<1>13. \A r \in Runs : Unsent(r)' => Unsent(r)
  BY <1>1, <1>7, <1>11, <1>12 DEF Unsent
<1>14. KernelInv'
  BY <1>1, <1>13, KernelRests
<1>15. LedgerInv'
  BY <1>1, <1>6, <1>7 DEF LedgerInv
<1>16. Service'
  BY <1>8, <1>9, <1>10, <1>14, <1>15 DEF Service
<1>17. Table'
  <2>1. outbox' \in Seq(ReplyRecords)
    BY <1>1 DEF NodeTyped
  <2>2. QED
    BY <1>1, <1>3, <2>1, OutsideTable
<1>18. Answers'
  <2>1. \A r \in Runs : Sealed(r) => Sealed(r)'
    BY <1>1, <1>7, <1>11, <1>12 DEF Sealed, Made
  <2>2. \A r \in Runs : Over(r)' <=> Over(r)
    BY <1>1 DEF Over
  <2>3. \A b \in ResultsOfRuns : (\E i \in 1 .. Len(outbox') : outbox'[i] = b) =>
            \/ \E j \in 1 .. Len(outbox) : outbox[j] = b
            \/ Sound(b)'
    BY <1>1
  <2>4. \A r \in Runs : Sealed(r) /\ Over(r) /\ call[r].kind = "execute" =>
            Over(r)' /\ made'[r] = made[r]
    BY <1>1, <2>2
  <2>5. QED
    BY <1>1, <2>1, <2>3, <2>4, OutsideAnswers
<1>19. QED
  BY <1>16, <1>17, <1>18 DEF Inv

(* The run is sent to the kernel, which has seen nothing of it before.     *)
LEMMA SendStep ==
    ASSUME Inv, ~Failed, SupExecute \/ SupInspect
    PROVE  Inv'
<1> USE CallersAreCallers
<1>1. /\ Table /\ NodeTyped /\ PythonTyped /\ InboxInv /\ SupInv /\ KernelInv /\ LedgerInv
  BY DEF Inv, Table, Service
<1>2. PICK to \in {"collect", "inspecting"} :
          /\ sup.at = IF to = "collect" THEN "execute" ELSE "inspect"
          /\ Send(to)
  BY DEF SupExecute, SupInspect
<1> DEFINE s == [sup EXCEPT !.at = to]
           k == [Off EXCEPT !.msg = sup.who]
<1>3. /\ sup.at \in {"execute", "inspect"} /\ (to = "collect" <=> sup.at = "execute")
      /\ sup' = s /\ kernel' = k /\ UNCHANGED <<node, inbox, outbox, iopub, shell, made>>
      /\ call' = call
  BY <1>2 DEF Send, node
<1>4. sup.who \in Runs /\ Made(sup.who) /\ ~InInbox(sup.who)
      /\ call[sup.who].kind = IF to = "collect" THEN "execute" ELSE "inspect"
  BY <1>1, <1>3 DEF SupInv, Executes
<1>5. /\ s \in SupRecords /\ s.at = to /\ s.who = sup.who /\ s.ledger = sup.ledger
      /\ s.failed = sup.failed
  BY <1>1 DEF PythonTyped, SupRecords
<1>6. k \in KernelRecords /\ k.msg = sup.who /\ k.idled = FALSE /\ k.replied = FALSE
  BY <1>4 DEF Off, KernelRecords
<1> HIDE DEF s, k
<1>7. Unsent(sup.who)
  BY <1>3 DEF Unsent
<1>8. /\ made[sup.who] = <<>>
      /\ \A i \in 1 .. Len(iopub) : iopub[i].of # sup.who
      /\ \A i \in 1 .. Len(shell) : shell[i].of # sup.who
  BY <1>1, <1>4, <1>7 DEF KernelInv
<1>9. PythonTyped'
  BY <1>1, <1>3, <1>5, <1>6 DEF PythonTyped
<1>10. InboxInv'
  BY <1>1, <1>3 DEF InboxInv, Made
<1>11. SupInv'
  <2>1. \A i \in 1 .. Len(inbox') : inbox'[i] # sup.who
    BY <1>3, <1>4 DEF InInbox
  <2>2. sup.who # Nobody /\ sup'.at \notin {"reading", "gone", "start", "shutdown"}
    BY <1>3, <1>4, <1>5
  <2>3. /\ sup'.who = sup.who /\ kernel'.msg = sup.who /\ UNCHANGED <<call, inbox>>
        /\ sup'.at \in {"collect", "inspecting"}
        /\ sup'.at = "collect" => call[sup.who].kind = "execute"
        /\ sup'.at = "inspecting" => call[sup.who].kind = "inspect"
    BY <1>3, <1>4, <1>5, <1>6
  <2>4. sup'.at \in {"reading", "gone"} <=> sup'.who = Nobody
    BY <2>2, <2>3
  <2>5. call'[sup'.who].pc \notin {"idle", "asked"} /\ ~(\E i \in 1 .. Len(inbox') : inbox'[i] = sup'.who)
    BY <1>4, <2>1, <2>3 DEF Made
  <2>6. /\ sup'.at \in Executes => sup'.who \in Runs /\ call'[sup'.who].kind = "execute"
        /\ sup'.at \in {"inspect", "inspecting"} =>
              sup'.who \in Runs /\ call'[sup'.who].kind = "inspect"
    BY <1>4, <2>3 DEF Executes
  <2>7. sup'.at \in AtKernel => kernel'.msg = sup'.who
    BY <2>3
  <2>8. QED
    BY <2>2, <2>4, <2>5, <2>6, <2>7 DEF SupInv, Made, InInbox
<1>12. \A r \in Runs : Unsent(r)' => Unsent(r) /\ r # sup.who
  BY <1>3, <1>4, <1>5 DEF Unsent, Made, InInbox
<1>13. KernelInv'
  BY <1>1, <1>3, <1>6, <1>8, <1>12 DEF KernelInv
<1>14. LedgerInv'
  <2>1. CASE to = "inspecting"
    BY <1>3, <1>5, <2>1 DEF LedgerInv
  <2>2. CASE to = "collect"
    <3>1. sup.ledger = <<>> /\ sup.failed = FALSE
      BY <1>1, <1>3, <2>2, PythonFields DEF LedgerInv
    <3>2. Len(iopub) \in Nat
      BY <1>1 DEF PythonTyped
    <3>3. /\ sup'.ledger = <<>> /\ sup'.who = sup.who /\ sup'.at = "collect" /\ sup'.failed = FALSE
          /\ made'[sup'.who] = <<>> /\ kernel'.idled = FALSE /\ iopub' = iopub
      BY <1>3, <1>5, <1>6, <1>8, <2>2, <3>1
    <3>4. Unread(Len(iopub))'
      BY <1>8, <3>2, <3>3 DEF Unread
    <3>5. QED
      BY <3>2, <3>3, <3>4 DEF LedgerInv, Began
  <2>3. QED
    BY <2>1, <2>2
<1>15. Service'
  BY <1>9, <1>10, <1>11, <1>13, <1>14 DEF Service
<1>16. \A r \in Runs : Sealed(r) => Over(r)'
  BY <1>3, <1>6 DEF Sealed, Over
<1>17. QED
  BY <1>3, <1>5, <1>15, <1>16, MovesOn

(* Steps that read a message for the run at hand, or give up waiting.      *)
LEMMA ReadsOn ==
    ASSUME Inv, ~Failed, UNCHANGED <<node, inbox, outbox, kernel, made>>,
           sup' \in SupRecords, sup'.who = sup.who,
           sup.at \in AtKernel, sup'.at \in AtKernel,
           sup'.at = "inspecting" <=> sup.at = "inspecting",
           iopub' = iopub \/ (iopub # <<>> /\ iopub' = Tail(iopub)),
           shell' = shell \/ (shell # <<>> /\ shell' = Tail(shell)),
           LedgerInv'
    PROVE  Inv'
<1>1. /\ PythonTyped /\ InboxInv /\ SupInv /\ KernelInv /\ call' = call
      /\ iopub \in Seq(IopubRecords) /\ shell \in Seq(ShellRecords)
  BY DEF Inv, Service, PythonTyped, node
<1>2. /\ iopub' \in Seq(IopubRecords)
      /\ \A i \in 1 .. Len(iopub') : \E j \in 1 .. Len(iopub) : iopub'[i] = iopub[j]
  <2>1. CASE iopub' = iopub
    BY <1>1, <2>1
  <2>2. CASE iopub # <<>> /\ iopub' = Tail(iopub)
    BY <1>1, <2>2, TailOf
  <2>3. QED
    BY <2>1, <2>2
<1>3. /\ shell' \in Seq(ShellRecords)
      /\ \A i \in 1 .. Len(shell') : \E j \in 1 .. Len(shell) : shell'[i] = shell[j]
  <2>1. CASE shell' = shell
    BY <1>1, <2>1
  <2>2. CASE shell # <<>> /\ shell' = Tail(shell)
    BY <1>1, <2>2, TailOf
  <2>3. QED
    BY <2>1, <2>2
<1>4. PythonTyped'
  BY <1>1, <1>2, <1>3 DEF PythonTyped
<1>5. InboxInv'
  BY <1>1 DEF InboxInv, Made
<1>6. SupInv'
  <2>1. sup.at # "inspecting" => sup.at \in Executes /\ sup'.at \in Executes
    BY DEF AtKernel, Executes
  <2>2. sup'.at \notin {"reading", "gone", "inspect", "start", "shutdown"} /\ sup.at \notin {"reading", "gone"}
    BY DEF AtKernel
  <2>3. sup'.at = "inspecting" => sup'.at \notin Executes
    BY DEF Executes
  <2>4. QED
    BY <1>1, <2>1, <2>2, <2>3 DEF SupInv, Made, InInbox
<1>7. \A r \in Runs : Unsent(r)' => Unsent(r)
  BY <1>1 DEF Unsent, AtKernel, InInbox
<1>8. KernelInv'
  BY <1>1, <1>2, <1>3, <1>7, KernelRests
<1>9. Service'
  BY <1>4, <1>5, <1>6, <1>8 DEF Service
<1>10. \A r \in Runs : Over(r)' <=> Over(r)
  BY DEF Over
<1>11. QED
  BY <1>9, <1>10, MovesOn

LEMMA SkipStep ==
    ASSUME Inv, ~Failed, Skip
    PROVE  Inv'
<1>1. /\ PythonTyped /\ SupInv /\ LedgerInv /\ UNCHANGED <<node, inbox, outbox, sup, kernel, made>>
      /\ sup' \in SupRecords /\ sup.at \in AtKernel
  BY DEF Inv, Service, Skip, PythonTyped, AtKernel
<1>2. CASE iopub' = iopub
  <2>1. shell' = shell \/ (shell # <<>> /\ shell' = Tail(shell))
    BY <1>2 DEF Skip
  <2>2. LedgerInv'
    BY <1>1, <1>2 DEF LedgerInv, Began, Unread
  <2>3. QED
    BY <1>1, <1>2, <2>1, <2>2, ReadsOn
<1>3. CASE iopub' # iopub
  <2>1. /\ sup.at \in {"collect", "interrupted"} /\ iopub # <<>> /\ Head(iopub).of # sup.who
        /\ iopub' = Tail(iopub) /\ shell' = shell
    BY <1>3 DEF Skip, Matches
  <2>2. iopub \in Seq(IopubRecords)
    BY <1>1 DEF PythonTyped
  <2>3. /\ Len(iopub') = Len(iopub) - 1 /\ Len(iopub) \in Nat /\ Head(iopub) = iopub[1]
        /\ 1 \in 1 .. Len(iopub)
        /\ \A i \in 1 .. Len(iopub') : iopub'[i] = iopub[i + 1] /\ i + 1 \in 1 .. Len(iopub)
    BY <2>1, <2>2, TailOf
  <2>4. sup.at = "collect" => \E n \in Nat : Unread(n)'
    <3>1. SUFFICES ASSUME sup.at = "collect"  PROVE \E n \in Nat : Unread(n)'
      OBVIOUS
    <3>2. PICK n \in Nat : Unread(n)
      BY <1>1, <3>1 DEF LedgerInv
    <3> DEFINE r == sup.who
               l == Len(sup.ledger)
               m == Len(made[r])
    <3>3. sup.who \in Runs
      BY <1>1, <3>1 DEF SupInv, Executes
    <3>4. l \in Nat /\ m \in Nat
      BY <1>1, <3>3, PythonFields
    <3>5. /\ Len(iopub) = n + (m - l) + (IF kernel.idled THEN 1 ELSE 0)
          /\ \A i \in 1 .. n : iopub[i].of # r
          /\ \A i \in (n + 1) .. Len(iopub) :
                /\ iopub[i].of = r
                /\ i - n + l =< m => iopub[i].what = made[r][i - n + l]
                /\ i - n + l > m => iopub[i].what = "idle"
      BY <3>2 DEF Unread
    <3> HIDE DEF l, m, r
    <3>6. n # 0
      <4>1. SUFFICES ASSUME n = 0  PROVE FALSE
        OBVIOUS
      <4>2. 1 \in (n + 1) .. Len(iopub)
        BY <2>3, <4>1
      <4>3. QED
        BY <2>1, <2>3, <3>5, <4>2 DEF r
    <3>7. n - 1 \in Nat
      BY <3>6
    <3>8. Len(iopub') = (n - 1) + (m - l) + (IF kernel.idled THEN 1 ELSE 0)
      <4>1. (IF kernel.idled THEN 1 ELSE 0) \in Nat
        OBVIOUS
      <4> DEFINE x == IF kernel.idled THEN 1 ELSE 0
      <4> HIDE DEF x
      <4>2. Len(iopub') = (n - 1) + (m - l) + x
        BY <2>3, <3>4, <3>5, <4>1 DEF x
      <4>3. QED
        BY <4>2 DEF x
    <3>9. \A i \in 1 .. (n - 1) : iopub'[i].of # r
      <4>1. ASSUME NEW i \in 1 .. (n - 1)  PROVE iopub'[i].of # r
        <5>1. n =< Len(iopub) \/ Len(iopub) < n
          BY <2>3
        <5>2. i + 1 \in 1 .. n
          BY <4>1
        <5>3. CASE i \in 1 .. Len(iopub')
          BY <2>3, <3>5, <5>2, <5>3
        <5>4. CASE i \notin 1 .. Len(iopub')
          <6>1. m < l
            BY <2>3, <3>4, <3>5, <4>1, <5>4
          <6>2. l =< m
            BY <1>1, <3>1 DEF LedgerInv, Began, l, m, r
          <6>3. QED
            BY <3>4, <6>1, <6>2
        <5>5. QED
          BY <5>3, <5>4
      <4>2. QED
        BY <4>1
    <3>10. \A i \in ((n - 1) + 1) .. Len(iopub') :
              /\ iopub'[i].of = r
              /\ i - (n - 1) + l =< m => iopub'[i].what = made[r][i - (n - 1) + l]
              /\ i - (n - 1) + l > m => iopub'[i].what = "idle"
      <4>1. ASSUME NEW i \in ((n - 1) + 1) .. Len(iopub')
            PROVE  /\ iopub'[i].of = r
                   /\ i - (n - 1) + l =< m => iopub'[i].what = made[r][i - (n - 1) + l]
                   /\ i - (n - 1) + l > m => iopub'[i].what = "idle"
        <5>1. /\ i \in 1 .. Len(iopub') /\ i + 1 \in (n + 1) .. Len(iopub)
              /\ (i + 1) - n + l = i - (n - 1) + l
          BY <2>3, <3>4, <3>6, <4>1
        <5>2. iopub'[i] = iopub[i + 1]
          BY <2>3, <5>1
        <5>3. QED
          BY <3>5, <5>1, <5>2
      <4>2. QED
        BY <4>1
    <3>11. Unread(n - 1)'
      BY <1>1, <3>8, <3>9, <3>10 DEF Unread, r, l, m
    <3>12. QED
      BY <3>7, <3>11
  <2>5. LedgerInv'
    BY <1>1, <2>1, <2>4 DEF LedgerInv, Began
  <2>6. QED
    BY <1>1, <2>1, <2>5, ReadsOn
<1>4. QED
  BY <1>2, <1>3

LEMMA InterruptedRecord ==
    ASSUME PythonTyped, NEW code \in {"limit", "timeout"}
    PROVE  /\ Interrupted(code) \in SupRecords /\ Interrupted(code).at = "interrupted"
           /\ Interrupted(code).who = sup.who /\ Interrupted(code).ledger = sup.ledger
BY DEF PythonTyped, SupRecords, Interrupted

LEMMA TimesOutStep ==
    ASSUME Inv, ~Failed, TimesOut
    PROVE  Inv'
<1>1. /\ PythonTyped /\ SupInv /\ LedgerInv /\ sup.at \in {"collect", "reply"}
      /\ sup' = Interrupted("timeout")
      /\ UNCHANGED <<node, inbox, outbox, kernel, iopub, shell, made>>
  BY DEF Inv, Service, TimesOut
<1>2. /\ sup' \in SupRecords /\ sup'.at = "interrupted" /\ sup'.who = sup.who
      /\ sup'.ledger = sup.ledger
  BY <1>1, InterruptedRecord
<1>3. LedgerInv'
  BY <1>1, <1>2 DEF LedgerInv, Began
<1>4. QED
  BY <1>1, <1>2, <1>3, ReadsOn DEF AtKernel

LEMMA CollectInterruptedStep ==
    ASSUME Inv, ~Failed, CollectInterrupted
    PROVE  Inv'
<1> DEFINE s == [sup EXCEPT !.at = "last"]
<1>1. /\ PythonTyped /\ SupInv /\ LedgerInv /\ KernelInv /\ sup.at = "interrupted"
      /\ iopub # <<>> /\ Head(iopub).of = sup.who /\ iopub' = Tail(iopub)
      /\ sup' = IF Head(iopub).what = "idle" THEN s ELSE sup
      /\ UNCHANGED <<node, inbox, outbox, kernel, shell, made>>
  BY DEF Inv, Service, CollectInterrupted, FromIopub, Matches
<1>2. /\ s \in SupRecords /\ s.at = "last" /\ s.who = sup.who /\ s.ledger = sup.ledger
      /\ sup \in SupRecords
  BY <1>1 DEF PythonTyped, SupRecords
<1> HIDE DEF s
<1>3. Head(iopub) = iopub[1] /\ 1 \in 1 .. Len(iopub)
  BY <1>1, TailOf DEF PythonTyped
<1>4. kernel.msg = sup.who
  BY <1>1 DEF SupInv, AtKernel
<1>5. Head(iopub).what = "idle" => kernel.idled
  BY <1>1, <1>3, <1>4 DEF KernelInv
<1>6. LedgerInv'
  BY <1>1, <1>2, <1>5 DEF LedgerInv, Began
<1>7. QED
  BY <1>1, <1>2, <1>6, ReadsOn DEF AtKernel

(* While the ledger is filled, the message at the front is the next one    *)
(* the kernel printed, or the idle status after all of them.               *)
LEMMA FrontMessage ==
    ASSUME PythonTyped, SupInv, LedgerInv, sup.at = "collect", iopub # <<>>,
           Head(iopub).of = sup.who
    PROVE  LET l == Len(sup.ledger)  m == Len(made[sup.who])
           IN  /\ Head(iopub).what = "idle" => l = m /\ kernel.idled
               /\ Head(iopub).what # "idle" => /\ l < m
                                               /\ Head(iopub).what = made[sup.who][l + 1]
                                               /\ Head(iopub).what \in Texts
               /\ Unread(0)
<1> DEFINE r == sup.who
           l == Len(sup.ledger)
           m == Len(made[r])
           x == IF kernel.idled THEN 1 ELSE 0
<1>1. PICK n \in Nat : Unread(n)
  BY DEF LedgerInv
<1>2. /\ Len(iopub) = n + (m - l) + x
      /\ \A i \in 1 .. n : iopub[i].of # r
      /\ \A i \in (n + 1) .. Len(iopub) :
            /\ iopub[i].of = r
            /\ i - n + l =< m => iopub[i].what = made[r][i - n + l]
            /\ i - n + l > m => iopub[i].what = "idle"
  BY <1>1 DEF Unread
<1>3. /\ r \in Runs /\ made[r] \in Seq(Texts) /\ l \in Nat /\ m \in Nat /\ l =< m
  BY PythonFields DEF SupInv, Executes, LedgerInv, Began
<1>4. Head(iopub) = iopub[1] /\ 1 \in 1 .. Len(iopub) /\ Len(iopub) \in Nat
  BY TailOf DEF PythonTyped
<1>5. n = 0
  <2>1. SUFFICES ASSUME n > 0  PROVE FALSE
    OBVIOUS
  <2>2. 1 \in 1 .. n
    BY <2>1
  <2>3. QED
    BY <1>2, <1>4, <2>2 DEF r
<1>6. made[r] \in Seq({"text", "error"})
  BY <1>3 DEF Texts
<1>7. \A i \in 1 .. m : made[r][i] \in Texts /\ made[r][i] # "idle"
  BY <1>6 DEF Texts, m
<1>8. x \in {0, 1} /\ (x = 1 => kernel.idled)
  OBVIOUS
<1>9. Unread(0)
  BY <1>1, <1>5
<1> HIDE DEF r, l, m, x
<1>10. /\ 1 + l =< m => Head(iopub).what = made[r][1 + l]
       /\ 1 + l > m => Head(iopub).what = "idle"
  <2>1. 1 \in (n + 1) .. Len(iopub) /\ 1 - n + l = 1 + l
    BY <1>3, <1>4, <1>5
  <2>2. QED
    BY <1>2, <1>4, <2>1
<1>11. 1 + l =< m \/ (1 + l > m /\ l = m)
  BY <1>3
<1>12. l = m => x = 1
  BY <1>2, <1>3, <1>4, <1>5, <1>8
<1>13. 1 + l =< m => 1 + l \in 1 .. m
  BY <1>3
<1>14. 1 + l = l + 1 /\ (1 + l =< m <=> l < m)
  BY <1>3
<1>15. /\ Head(iopub).what = "idle" => l = m /\ kernel.idled
       /\ Head(iopub).what # "idle" => /\ l < m /\ Head(iopub).what = made[r][l + 1]
                                       /\ Head(iopub).what \in Texts
  BY <1>7, <1>8, <1>10, <1>11, <1>12, <1>13, <1>14
<1>16. QED
  BY <1>9, <1>15 DEF r, l, m

LEMMA CollectStep ==
    ASSUME Inv, ~Failed, Collect
    PROVE  Inv'
<1> DEFINE what == Head(iopub).what
           r == sup.who
           l == Len(sup.ledger)
           m == Len(made[r])
           s == [sup EXCEPT !.at = "reply"]
           t == [sup EXCEPT !.ledger = Append(@, what), !.failed = @ \/ what = "error"]
<1>1. /\ PythonTyped /\ SupInv /\ LedgerInv /\ sup.at = "collect"
      /\ iopub # <<>> /\ Head(iopub).of = r /\ iopub' = Tail(iopub)
      /\ sup' = IF what = "idle" THEN s
                ELSE IF ~Fits THEN Interrupted("limit") ELSE t
      /\ UNCHANGED <<node, inbox, outbox, kernel, shell, made>>
  BY DEF Inv, Service, Collect, FromIopub, Matches
<1>2. /\ what = "idle" => l = m /\ kernel.idled
      /\ what # "idle" => l < m /\ what = made[r][l + 1] /\ what \in Texts
      /\ Unread(0)
  BY <1>1, FrontMessage
<1>3. r \in Runs /\ made[r] \in Seq(Texts) /\ l \in Nat /\ m \in Nat /\ sup.ledger \in Seq(Texts)
      /\ sup.failed \in BOOLEAN
  BY <1>1, PythonFields DEF SupInv, Executes
<1>4. Began(sup.ledger, made[r]) /\ (sup.failed <=> \E j \in 1 .. l : sup.ledger[j] = "error")
  BY <1>1 DEF LedgerInv
<1>5. CASE what = "idle"
  <2>1. /\ s \in SupRecords /\ s.at = "reply" /\ s.who = r /\ s.ledger = sup.ledger
        /\ s.failed = sup.failed
    BY <1>1 DEF PythonTyped, SupRecords
  <2>2. sup' = s
    BY <1>1, <1>5
  <2> HIDE DEF s
  <2>3. LedgerInv'
    BY <1>1, <1>2, <1>4, <1>5, <2>1, <2>2 DEF LedgerInv, Began
  <2>4. QED
    BY <1>1, <2>1, <2>2, <2>3, ReadsOn DEF AtKernel
<1>6. CASE what # "idle" /\ ~Fits
  <2>1. sup' = Interrupted("limit")
    BY <1>1, <1>6
  <2>2. /\ sup' \in SupRecords /\ sup'.at = "interrupted" /\ sup'.who = r
        /\ sup'.ledger = sup.ledger
    BY <1>1, <2>1, InterruptedRecord
  <2>3. LedgerInv'
    BY <1>1, <1>4, <2>2 DEF LedgerInv, Began
  <2>4. QED
    BY <1>1, <2>2, <2>3, ReadsOn DEF AtKernel
<1>7. CASE what # "idle" /\ Fits
  <2> DEFINE w == Append(sup.ledger, what)
             f == sup.failed \/ what = "error"
  <2>1. /\ w \in Seq(Texts) /\ Len(w) = l + 1 /\ w[l + 1] = what
        /\ \A j \in 1 .. l : w[j] = sup.ledger[j]
    BY <1>2, <1>3, <1>7, AppendProperties
  <2>2. t = [sup EXCEPT !.ledger = w, !.failed = f]
    OBVIOUS
  <2>3. f \in BOOLEAN
    OBVIOUS
  <2> HIDE DEF w, f
  <2>4. /\ t \in SupRecords /\ t.at = "collect" /\ t.who = r /\ t.ledger = w /\ t.failed = f
    BY <1>1, <2>1, <2>2, <2>3 DEF PythonTyped, SupRecords
  <2>5. sup' = t
    BY <1>1, <1>7
  <2> HIDE DEF t
  <2>6. \A j \in 1 .. Len(w) : j \in 1 .. l \/ j = l + 1
    BY <1>3, <2>1
  <2>7. Began(w, made[r])
    <3>1. Len(w) =< Len(made[r])
      BY <1>2, <1>3, <1>7, <2>1
    <3>2. \A j \in 1 .. Len(w) : made[r][j] = w[j]
      BY <1>2, <1>4, <1>7, <2>1, <2>6 DEF Began
    <3>3. QED
      BY <3>1, <3>2 DEF Began
  <2>8. f <=> \E j \in 1 .. Len(w) : w[j] = "error"
    <3>1. l + 1 \in 1 .. Len(w) /\ \A j \in 1 .. l : j \in 1 .. Len(w)
      BY <1>3, <2>1
    <3>2. (\E j \in 1 .. Len(w) : w[j] = "error") <=>
              ((\E j \in 1 .. l : sup.ledger[j] = "error") \/ what = "error")
      BY <2>1, <2>6, <3>1
    <3>3. QED
      BY <1>4, <3>2 DEF f
  <2>9. Unread(0)'
    <3> DEFINE x == IF kernel.idled THEN 1 ELSE 0
    <3>1. /\ Len(iopub) = 0 + (m - l) + x
          /\ \A i \in (0 + 1) .. Len(iopub) :
                /\ iopub[i].of = r
                /\ i - 0 + l =< m => iopub[i].what = made[r][i - 0 + l]
                /\ i - 0 + l > m => iopub[i].what = "idle"
      BY <1>2 DEF Unread
    <3>2. /\ Len(iopub') = Len(iopub) - 1 /\ Len(iopub) \in Nat
          /\ \A i \in 1 .. Len(iopub') : iopub'[i] = iopub[i + 1] /\ i + 1 \in 1 .. Len(iopub)
      BY <1>1, TailOf DEF PythonTyped
    <3>3. x \in Nat
      OBVIOUS
    <3> HIDE DEF x
    <3> HIDE DEF what, r, l, m
    <3>4. Len(iopub') = 0 + (m - (l + 1)) + x
      BY <1>3, <3>1, <3>2, <3>3
    <3>5. ASSUME NEW i \in (0 + 1) .. Len(iopub')
          PROVE  /\ iopub'[i].of = r
                 /\ i - 0 + (l + 1) =< m => iopub'[i].what = made[r][i - 0 + (l + 1)]
                 /\ i - 0 + (l + 1) > m => iopub'[i].what = "idle"
      <4>1. /\ i + 1 \in (0 + 1) .. Len(iopub) /\ i \in 1 .. Len(iopub')
            /\ (i + 1) - 0 + l = i - 0 + (l + 1)
        BY <1>3, <3>2, <3>5
      <4>2. iopub'[i] = iopub[i + 1]
        BY <3>2, <4>1
      <4>3. QED
        BY <3>1, <4>1, <4>2
    <3>6. \A i \in 1 .. 0 : iopub'[i].of # r
      OBVIOUS
    <3>7. sup'.who = r /\ Len(sup'.ledger) = l + 1 /\ made' = made /\ kernel' = kernel
      BY <1>1, <2>1, <2>4, <2>5
    <3>8. QED
      BY <3>4, <3>5, <3>6, <3>7 DEF Unread, m, x
  <2>10. LedgerInv'
    <3>1. \E n \in Nat : Unread(n)'
      BY <2>9
    <3>2. made' = made /\ kernel' = kernel /\ sup'.at = "collect" /\ sup'.who = r
          /\ sup'.ledger = w /\ sup'.failed = f
      BY <1>1, <2>4, <2>5
    <3> HIDE DEF r
    <3>3. QED
      BY <2>7, <2>8, <3>1, <3>2 DEF LedgerInv
  <2>11. QED
    BY <1>1, <2>4, <2>5, <2>10, ReadsOn DEF AtKernel
<1>8. QED
  BY <1>5, <1>6, <1>7

(* Two ledgers of the same length, one the beginning of the other. *)
LEMMA WholeLedger ==
    ASSUME NEW l \in Seq(Texts), NEW m \in Seq(Texts), Began(l, m), Len(l) = Len(m)
    PROVE  l = m
BY DEF Began

(* The reply of the run at hand, at the front of the shell channel.        *)
LEMMA FrontReply ==
    ASSUME PythonTyped, SupInv, KernelInv, LedgerInv, sup.at \in {"reply", "last"},
           shell # <<>>, Head(shell).of = sup.who
    PROVE  /\ Over(sup.who) /\ Head(shell).what \in {"ok", "error"}
           /\ Head(shell).what = "ok" => ~PrintedError(sup.who)
<1>1. Head(shell) = shell[1] /\ 1 \in 1 .. Len(shell) /\ Head(shell) \in ShellRecords
  BY TailOf DEF PythonTyped
<1>2. kernel.msg = sup.who /\ kernel.idled
  BY DEF SupInv, AtKernel, LedgerInv
<1>3. QED
  BY <1>1, <1>2 DEF KernelInv, Over, ShellRecords

(* What is reported of a run whose reply has come. *)
LEMMA EndedIsRight ==
    ASSUME PythonTyped, SupInv, LedgerInv, sup.at = "reply", NEW what \in {"ok", "error"},
           what = "ok" => ~PrintedError(sup.who)
    PROVE  /\ Ended(what) \in ReplyRecords /\ Ended(what).id = sup.who
           /\ Right(Ended(what))
<1> USE CallersAreCallers
<1> DEFINE r == sup.who
           l == sup.ledger
<1>1. /\ r \in Runs /\ l \in Seq(Texts) /\ made[r] \in Seq(Texts) /\ sup.failed \in BOOLEAN
      /\ Began(l, made[r]) /\ Len(l) = Len(made[r])
      /\ sup.failed <=> \E j \in 1 .. Len(l) : l[j] = "error"
  BY PythonFields DEF SupInv, Executes, LedgerInv
<1>2. l = made[r]
  BY <1>1, WholeLedger
<1>3. sup.failed <=> PrintedError(r)
  BY <1>1, <1>2 DEF PrintedError
<1> HIDE DEF r, l
<1>4. CASE sup.failed \/ what = "ok"
  <2> DEFINE a == Reply(r, IF sup.failed THEN "error" ELSE "ok", l)
  <2>1. Ended(what) = a
    BY <1>4 DEF Ended, r, l
  <2>2. /\ a \in ReplyRecords /\ a.id = r /\ a.outs = l /\ a.kind = IF sup.failed THEN "error" ELSE "ok"
    BY <1>1 DEF Reply, ReplyRecords
  <2> HIDE DEF a
  <2>3. a.kind = "ok" => ~PrintedError(r)
    BY <1>3, <2>2
  <2>4. a.kind = "error" => Began(a.outs, made[r])
    BY <1>1, <2>2
  <2>5. Right(a)
    BY <1>2, <2>2, <2>3, <2>4 DEF Right
  <2>6. QED
    BY <2>1, <2>2, <2>5 DEF r
<1>5. CASE ~(sup.failed \/ what = "ok")
  <2> DEFINE w == IF Fits THEN Append(l, "error") ELSE l
             a == Reply(r, "error", w)
  <2>1. Ended(what) = a
    BY <1>5 DEF Ended, r, l
  <2>2. w \in Seq(Texts) /\ (w = l \/ w = Append(l, "error"))
    <3>1. "error" \in Texts
      BY DEF Texts
    <3>2. Append(l, "error") \in Seq(Texts)
      BY <1>1, <3>1, AppendProperties
    <3>3. QED
      BY <1>1, <3>2
  <2> HIDE DEF w
  <2>3. a \in ReplyRecords /\ a.id = r /\ a.outs = w /\ a.kind = "error"
    BY <1>1, <2>2 DEF Reply, ReplyRecords
  <2> HIDE DEF a
  <2>4. Right(a)
    BY <1>1, <1>2, <2>2, <2>3 DEF Right
  <2>5. QED
    BY <2>1, <2>3, <2>4 DEF r
<1>6. QED
  BY <1>4, <1>5

LEMMA CollectReplyStep ==
    ASSUME Inv, ~Failed, CollectReply
    PROVE  Inv'
<1> DEFINE a == Ended(Head(shell).what)
<1>1. /\ PythonTyped /\ SupInv /\ KernelInv /\ LedgerInv /\ sup.at = "reply" /\ shell # <<>>
      /\ Head(shell).of = sup.who /\ shell' = Tail(shell) /\ UNCHANGED <<kernel, iopub, made>>
      /\ Respond(a)
  BY DEF Inv, Service, CollectReply, FromShell, Matches
<1>2. Over(sup.who) /\ a \in ReplyRecords /\ a.id = sup.who /\ Right(a)
  BY <1>1, FrontReply, EndedIsRight
<1>3. sup.who # Nobody
  BY <1>1, CallersAreCallers DEF SupInv, Executes
<1> HIDE DEF a
<1>4. QED
  BY <1>1, <1>2, <1>3, RespondStep

LEMMA CollectLastStep ==
    ASSUME Inv, ~Failed, CollectLast
    PROVE  Inv'
<1> USE CallersAreCallers
<1> DEFINE a == Reply(sup.who, "error", sup.ledger)
<1>1. /\ PythonTyped /\ SupInv /\ KernelInv /\ LedgerInv /\ sup.at = "last" /\ shell # <<>>
      /\ Head(shell).of = sup.who /\ shell' = Tail(shell) /\ UNCHANGED <<kernel, iopub, made>>
      /\ Respond(a)
  BY DEF Inv, Service, CollectLast, FromShell, Matches
<1>2. Over(sup.who)
  BY <1>1, FrontReply
<1>3. sup.who \in Runs /\ Began(sup.ledger, made[sup.who])
  BY <1>1 DEF SupInv, Executes, LedgerInv
<1>4. a \in ReplyRecords /\ a.id = sup.who /\ a.kind = "error" /\ a.outs = sup.ledger
  BY <1>1, <1>3, PythonFields DEF Reply, ReplyRecords
<1> HIDE DEF a
<1>5. Right(a)
  BY <1>3, <1>4 DEF Right
<1>6. QED
  BY <1>1, <1>2, <1>3, <1>4, <1>5, RespondStep

(* A response that is no result. *)
LEMMA PlainReply ==
    ASSUME Inv, ~Failed, NEW kind \in {"ok", "rpc-error"}, Respond(Reply(sup.who, kind, <<>>)),
           UNCHANGED <<kernel, iopub, made>>,
           shell' = shell \/ (shell # <<>> /\ shell' = Tail(shell)),
           sup.at \notin {"reading", "gone"},
           kind = "ok" => sup.at \in {"start", "inspecting"}
    PROVE  Inv'
<1> USE CallersAreCallers
<1> DEFINE a == Reply(sup.who, kind, <<>>)
<1>1. PythonTyped /\ SupInv
  BY DEF Inv, Service
<1>2. sup.who \in Callers /\ sup.who # Nobody
  BY <1>1, PythonFields DEF SupInv
<1>3. <<>> \in Seq(Texts)
  OBVIOUS
<1>4. a \in ReplyRecords /\ a.id = sup.who /\ a.kind = kind
  BY <1>2, <1>3 DEF Reply, ReplyRecords
<1>5. Respond(a) /\ iopub' = iopub
  OBVIOUS
<1> HIDE DEF a
<1>6. ~(a.kind \in {"ok", "error"} /\ sup.who \in Runs /\ call[sup.who].kind = "execute")
  BY <1>1, <1>4 DEF SupInv
<1>7. QED
  BY <1>2, <1>4, <1>5, <1>6, RespondStep

LEMMA PlainReplies ==
    ASSUME Inv, ~Failed, SupStart \/ Malformed \/ GivesUp \/ Inspected
    PROVE  Inv'
<1>1. CASE SupStart
  <2>1. PICK kind \in {"ok", "rpc-error"} : Respond(Reply(sup.who, kind, <<>>))
    BY <1>1 DEF SupStart
  <2>2. QED
    BY <1>1, <2>1, PlainReply DEF SupStart
<1>2. CASE Malformed
  BY <1>2, PlainReply DEF Malformed
<1>3. CASE GivesUp
  BY <1>3, PlainReply DEF GivesUp, Verdict
<1>4. CASE Inspected
  BY <1>4, PlainReply DEF Inspected, FromShell
<1>5. QED
  BY <1>1, <1>2, <1>3, <1>4

LEMMA ServiceRests ==
    ASSUME Service, UNCHANGED <<call, inbox, sup, kernel, iopub, shell, made>>
    PROVE  Service'
<1>1. PythonTyped /\ InboxInv /\ SupInv /\ KernelInv /\ LedgerInv
  BY DEF Service
<1>2. PythonTyped' /\ InboxInv' /\ SupInv'
  BY <1>1 DEF PythonTyped, InboxInv, SupInv, Made, InInbox
<1>3. \A r \in Runs : Unsent(r)' => Unsent(r)
  BY DEF Unsent, InInbox
<1>4. KernelInv'
  BY <1>1, <1>3, KernelRests
<1>5. \A n \in Nat : Unread(n)' <=> Unread(n)
  BY DEF Unread
<1>6. LedgerInv'
  BY <1>1, <1>5 DEF LedgerInv, Began
<1>7. QED
  BY <1>2, <1>4, <1>6 DEF Service

(* The responses may change while the rest of the supervisor rests: what   *)
(* is then in the outbox was there, or is no result.                       *)
LEMMA OutboxStep ==
    ASSUME Inv, ~Failed, UNCHANGED <<node, inbox, python>>, outbox' \in Seq(ReplyRecords),
           \A i \in 1 .. Len(outbox') : \/ outbox'[i].kind \notin {"ok", "error"}
                                        \/ \E j \in 1 .. Len(outbox) : outbox[j] = outbox'[i]
    PROVE  Inv'
<1>1. /\ Table /\ Service /\ UNCHANGED <<call, micro, sup, kernel, iopub, shell, made>>
      /\ inbox \in Seq(Callers)
  BY DEF Inv, Table, NodeTyped, node, python
<1>2. Table'
  BY <1>1, OutsideTable
<1>3. Service'
  BY <1>1, ServiceRests
<1>4. \A r \in Runs : Sealed(r) => Sealed(r)'
  BY <1>1 DEF Sealed, Made, InInbox
<1>5. \A r \in Runs : Sealed(r) /\ Over(r) /\ call[r].kind = "execute" =>
          Over(r)' /\ made'[r] = made[r]
  BY <1>1 DEF Over
<1>6. \A b \in ResultsOfRuns : (\E i \in 1 .. Len(outbox') : outbox'[i] = b) =>
          \/ \E j \in 1 .. Len(outbox) : outbox[j] = b
          \/ Sound(b)'
  BY DEF ResultsOfRuns
<1>7. Answers'
  BY <1>1, <1>4, <1>5, <1>6, OutsideAnswers
<1>8. QED
  BY <1>2, <1>3, <1>7 DEF Inv

LEMMA OverLimitStep ==
    ASSUME Inv, ~Failed, OverLimit
    PROVE  Inv'
<1> DEFINE n == Len(outbox)
           a == Reply(outbox[n].id, "rpc-error", <<>>)
<1>1. /\ outbox \in Seq(ReplyRecords) /\ outbox # <<>> /\ UNCHANGED <<node, inbox, python>>
  BY DEF Inv, Table, NodeTyped, OverLimit
<1>2. n \in Nat /\ n \in 1 .. n /\ outbox[n] \in ReplyRecords /\ <<>> \in Seq(Texts)
  BY <1>1
<1>3. outbox' = [outbox EXCEPT ![n] = a]
  BY <1>1, <1>2 DEF OverLimit
<1>4. a \in ReplyRecords /\ a.kind = "rpc-error"
  BY <1>2 DEF Reply, ReplyRecords
<1> HIDE DEF a
<1>5. outbox' \in Seq(ReplyRecords) /\ Len(outbox') = n
  BY <1>1, <1>2, <1>3, <1>4
<1>6. \A i \in 1 .. n : outbox'[i] = a \/ outbox'[i] = outbox[i]
  BY <1>1, <1>2, <1>3, <1>4
<1>7. \A i \in 1 .. Len(outbox') : \/ outbox'[i].kind \notin {"ok", "error"}
                                   \/ \E j \in 1 .. Len(outbox) : outbox[j] = outbox'[i]
  BY <1>4, <1>5, <1>6
<1>8. QED
  BY <1>1, <1>5, <1>7, OutboxStep

LEMMA WritesGarbageStep ==
    ASSUME Inv, ~Failed, WritesGarbage
    PROVE  Inv'
<1>1. outbox' = <<Garbage>> /\ UNCHANGED <<node, inbox, python>>
  BY DEF WritesGarbage
<1>2. <<>> \in Seq(Texts)
  OBVIOUS
<1>3. Garbage \in ReplyRecords /\ Garbage.kind = "garbage"
  BY <1>2 DEF Garbage, ReplyRecords
<1>4. outbox' \in Seq(ReplyRecords) /\ \A i \in 1 .. Len(outbox') : outbox'[i] = Garbage
  BY <1>1, <1>3
<1>5. QED
  BY <1>1, <1>3, <1>4, OutboxStep

(* The process dies, or the shutdown ends it. *)
LEMMA KilledStep ==
    ASSUME Inv, ~Failed, Killed, UNCHANGED <<node, made>>, outbox' \in Seq(ReplyRecords),
           \A i \in 1 .. Len(outbox') : \/ outbox'[i].id \notin Runs
                                        \/ \E j \in 1 .. Len(outbox) : outbox[j] = outbox'[i]
    PROVE  Inv'
<1>1. Table /\ UNCHANGED <<call, micro>> /\ made' = made
  BY DEF Inv, node
<1>2. inbox' \in Seq(Callers)
  BY DEF Killed
<1>3. Table'
  BY <1>1, <1>2, OutsideTable
<1>4. Service' /\ (\A r \in Runs : Sealed(r) => Sealed(r)') /\ (\A r \in Runs : Over(r)')
  BY <1>1, KilledService
<1>5. \A b \in ResultsOfRuns : (\E i \in 1 .. Len(outbox') : outbox'[i] = b) =>
          \/ \E j \in 1 .. Len(outbox) : outbox[j] = b
          \/ Sound(b)'
  BY DEF ResultsOfRuns
<1>6. Answers'
  BY <1>1, <1>4, <1>5, OutsideAnswers
<1>7. QED
  BY <1>3, <1>4, <1>6 DEF Inv

LEMMA CrashStep ==
    ASSUME Inv, ~Failed, Crash
    PROVE  Inv'
<1>1. outbox \in Seq(ReplyRecords) /\ outbox' = outbox
  BY DEF Inv, Table, NodeTyped, Crash
<1>2. QED
  BY <1>1, KilledStep DEF Crash

LEMMA JoinStep ==
    ASSUME Inv, Join
    PROVE  Inv'
<1>1. Table' /\ Table /\ Service /\ UNCHANGED <<call, micro, outbox, made>>
  BY JoinTable DEF Inv, Join
<1>2. \A b \in ResultsOfRuns : (\E i \in 1 .. Len(outbox') : outbox'[i] = b) =>
          \/ \E j \in 1 .. Len(outbox) : outbox[j] = b
          \/ Sound(b)'
  BY <1>1
<1>3. CASE Killed
  <2>1. Service' /\ (\A r \in Runs : Sealed(r) => Sealed(r)') /\ (\A r \in Runs : Over(r)')
    BY <1>1, <1>3, KilledService
  <2>2. Answers'
    BY <1>1, <1>2, <2>1, OutsideAnswers
  <2>3. QED
    BY <1>1, <2>1, <2>2 DEF Inv
<1>4. CASE UNCHANGED <<sup, kernel, inbox, iopub, shell>>
  <2>1. Service'
    BY <1>1, <1>4, ServiceRests
  <2>2. \A r \in Runs : Sealed(r) => Sealed(r)'
    BY <1>1, <1>4 DEF Sealed, Made, InInbox
  <2>3. \A r \in Runs : Sealed(r) /\ Over(r) /\ call[r].kind = "execute" =>
            Over(r)' /\ made'[r] = made[r]
    BY <1>1, <1>4 DEF Over
  <2>4. Answers'
    BY <1>1, <1>2, <2>2, <2>3, OutsideAnswers
  <2>5. QED
    BY <1>1, <2>1, <2>4 DEF Inv
<1>5. QED
  BY <1>3, <1>4 DEF Join

(* stop_kernel, clean or not. *)
LEMMA SupShutdownStep ==
    ASSUME Inv, ~Failed, SupShutdown
    PROVE  Inv'
<1> USE CallersAreCallers
<1>1. /\ PythonTyped /\ SupInv /\ InboxInv /\ KernelInv /\ Table /\ sup.at = "shutdown"
      /\ outbox \in Seq(ReplyRecords) /\ inbox \in Seq(Callers)
      /\ UNCHANGED <<node, made>> /\ UNCHANGED <<call, micro>>
  BY DEF Inv, Service, Table, NodeTyped, SupShutdown, node
<1>2. sup.who \in Callers /\ sup.who \notin Runs
  BY <1>1, PythonFields DEF SupInv
<1>3. <<>> \in Seq(Texts)
  OBVIOUS
<1>4. ASSUME NEW kind \in {"ok", "rpc-error"}, outbox' = Append(outbox, Reply(sup.who, kind, <<>>))
      PROVE  /\ outbox' \in Seq(ReplyRecords)
             /\ \A i \in 1 .. Len(outbox') : \/ outbox'[i].id \notin Runs
                                             \/ \E j \in 1 .. Len(outbox) : outbox[j] = outbox'[i]
  <2> DEFINE a == Reply(sup.who, kind, <<>>)
  <2>1. a \in ReplyRecords /\ a.id \notin Runs
    BY <1>2, <1>3 DEF Reply, ReplyRecords
  <2>2. outbox' = Append(outbox, a)
    BY <1>4
  <2> HIDE DEF a
  <2>3. /\ outbox' \in Seq(ReplyRecords) /\ Len(outbox') = Len(outbox) + 1 /\ Len(outbox) \in Nat
        /\ \A i \in 1 .. Len(outbox) : outbox'[i] = outbox[i]
        /\ outbox'[Len(outbox) + 1] = a
    BY <1>1, <2>1, <2>2, AppendProperties
  <2>4. \A i \in 1 .. Len(outbox') : i \in 1 .. Len(outbox) \/ i = Len(outbox) + 1
    BY <2>3
  <2>5. QED
    BY <2>1, <2>3, <2>4
<1>5. CASE outbox' = Append(outbox, Reply(sup.who, "ok", <<>>)) /\ Killed
  BY <1>1, <1>4, <1>5, KilledStep
<1>6. CASE /\ outbox' = Append(outbox, Reply(sup.who, "rpc-error", <<>>))
           /\ sup' = Reading /\ kernel' = Off /\ UNCHANGED <<inbox, iopub, shell>>
  <2>1. /\ outbox' \in Seq(ReplyRecords)
        /\ \A i \in 1 .. Len(outbox') : \/ outbox'[i].id \notin Runs
                                        \/ \E j \in 1 .. Len(outbox) : outbox[j] = outbox'[i]
    BY <1>4, <1>6
  <2>2. Table'
    BY <1>1, <1>6, <2>1, OutsideTable
  <2>3. /\ sup' \in SupRecords /\ sup'.at = "reading" /\ sup'.who = Nobody
        /\ kernel' \in KernelRecords /\ kernel'.msg = Nobody
    BY <1>6, ReadingFields
  <2>4. PythonTyped'
    BY <1>1, <1>6, <2>3 DEF PythonTyped
  <2>5. InboxInv'
    BY <1>1, <1>6 DEF InboxInv, Made
  <2>6. SupInv'
    BY <2>3 DEF SupInv, AtKernel, Executes
  <2>7. \A r \in Runs : Unsent(r)' => Unsent(r)
    BY <1>1, <1>6, <2>3 DEF Unsent, InInbox
  <2>8. /\ \A i \in 1 .. Len(iopub) : iopub[i].of # Nobody
        /\ \A i \in 1 .. Len(shell) : shell[i].of # Nobody
    BY <1>1, PythonFields DEF IopubRecords, ShellRecords
  <2>9. KernelInv'
    BY <1>1, <1>6, <2>3, <2>7, <2>8 DEF KernelInv
  <2>10. LedgerInv'
    BY <2>3 DEF LedgerInv
  <2>11. \A r \in Runs : Sealed(r) => Sealed(r)'
    BY <1>1, <1>6, <2>3 DEF Sealed, Made, InInbox
  <2>12. \A r \in Runs : Over(r)'
    BY <2>3 DEF Over
  <2>13. \A b \in ResultsOfRuns : (\E i \in 1 .. Len(outbox') : outbox'[i] = b) =>
             \/ \E j \in 1 .. Len(outbox) : outbox[j] = b
             \/ Sound(b)'
    BY <2>1 DEF ResultsOfRuns
  <2>14. Answers'
    BY <1>1, <2>11, <2>12, <2>13, OutsideAnswers
  <2>15. QED
    BY <2>2, <2>4, <2>5, <2>6, <2>9, <2>10, <2>14 DEF Inv, Service
<1>7. QED
  BY <1>5, <1>6 DEF SupShutdown

(* The kernel's steps leave the supervisor alone. *)
LEMMA KernelMoves ==
    ASSUME Inv, ~Failed, KernelRest, PythonTyped', KernelInv', LedgerInv', kernel'.msg = kernel.msg,
           \A r \in Runs : Over(r) => Over(r)' /\ made'[r] = made[r]
    PROVE  Inv'
<1>1. InboxInv /\ SupInv /\ UNCHANGED <<node, inbox, outbox, sup, call>>
  BY DEF Inv, Service, KernelRest, node
<1>2. InboxInv' /\ SupInv'
  BY <1>1 DEF InboxInv, SupInv, Made, InInbox, AtKernel, Executes
<1>3. Service'
  BY <1>2 DEF Service
<1>4. QED
  BY <1>1, <1>3, MovesOn

LEMMA PrintsStep ==
    ASSUME Inv, ~Failed, Prints
    PROVE  Inv'
<1> DEFINE r == kernel.msg
<1>1. /\ PythonTyped /\ SupInv /\ KernelInv /\ LedgerInv
      /\ KernelRest /\ UNCHANGED <<kernel, shell>> /\ UNCHANGED <<call, inbox, sup>>
      /\ ~kernel.idled /\ ~kernel.replied
  BY DEF Inv, Service, Prints, KernelRest, node
<1>2. r \in Runs
  BY <1>1, PythonFields DEF Prints, Working
<1>3. PICK what \in Texts : /\ made' = [made EXCEPT ![r] = Append(@, what)]
                            /\ iopub' = Append(iopub, [of |-> r, what |-> what])
  BY DEF Prints, Texts
<1> DEFINE x == [of |-> r, what |-> what]
           w == Append(made[r], what)
           m == Len(made[r])
<1>4. x \in IopubRecords /\ x.of = r /\ x.what = what /\ what # "idle"
  BY <1>2 DEF IopubRecords, Texts
<1>5. iopub' = Append(iopub, x) /\ iopub \in Seq(IopubRecords)
  BY <1>1, <1>3 DEF PythonTyped
<1> HIDE DEF x
<1>6. /\ iopub' \in Seq(IopubRecords) /\ Len(iopub') = Len(iopub) + 1 /\ Len(iopub) \in Nat
      /\ \A i \in 1 .. Len(iopub) : iopub'[i] = iopub[i]
      /\ iopub'[Len(iopub) + 1] = x
  BY <1>4, <1>5, AppendProperties
<1>7. /\ made[r] \in Seq(Texts) /\ w \in Seq(Texts) /\ Len(w) = m + 1 /\ m \in Nat
      /\ \A j \in 1 .. m : w[j] = made[r][j]
      /\ w[m + 1] = what
  BY <1>1, <1>2, PythonFields, AppendProperties
<1>8. made' = [made EXCEPT ![r] = w] /\ made \in [Runs -> Seq(Texts)]
  BY <1>1, <1>3 DEF PythonTyped
<1> HIDE DEF w, m
<1>9. /\ made' \in [Runs -> Seq(Texts)] /\ made'[r] = w
      /\ \A q \in Runs : q # r => made'[q] = made[q]
  BY <1>2, <1>7, <1>8
<1>10. PythonTyped'
  BY <1>1, <1>6, <1>9 DEF PythonTyped
<1>11. \A i \in 1 .. Len(iopub') : i \in 1 .. Len(iopub) \/ i = Len(iopub) + 1
  BY <1>6
<1>12. KernelInv'
  <2>1. \A q \in Runs : Unsent(q)' => Unsent(q)
    BY <1>1 DEF Unsent, InInbox
  <2>2. \A q \in Runs : Unsent(q) => q # r
    BY <1>1 DEF KernelInv
  <2>3. \A q \in Runs : Unsent(q)' =>
            /\ kernel'.msg # q /\ made'[q] = <<>>
            /\ \A i \in 1 .. Len(iopub') : iopub'[i].of # q
            /\ \A i \in 1 .. Len(shell') : shell'[i].of # q
    BY <1>1, <1>4, <1>6, <1>9, <1>11, <2>1, <2>2 DEF KernelInv
  <2>4. \A i \in 1 .. Len(iopub') : iopub'[i].of = kernel'.msg /\ iopub'[i].what = "idle" =>
            kernel'.idled
    BY <1>1, <1>4, <1>6, <1>11 DEF KernelInv
  <2>5. \A i \in 1 .. Len(shell) : shell[i].of # kernel.msg
    BY <1>1 DEF KernelInv
  <2>6. QED
    BY <1>1, <2>3, <2>4, <2>5 DEF KernelInv
<1>13. LedgerInv'
  <2>1. sup.at \notin {"reply", "last"}
    BY <1>1 DEF LedgerInv
  <2>2. sup.at \in {"collect", "interrupted"} => sup.who = r
    BY <1>1 DEF SupInv, AtKernel
  <2>3. ASSUME sup.at \in {"collect", "interrupted"}  PROVE Began(sup.ledger, w)
    <3>1. Began(sup.ledger, made[r]) /\ Len(sup.ledger) \in Nat
      BY <1>1, <2>2, <2>3, PythonFields DEF LedgerInv
    <3>2. Len(sup.ledger) =< Len(w) /\ \A j \in 1 .. Len(sup.ledger) : j \in 1 .. m
      BY <1>7, <3>1 DEF Began, m
    <3>3. QED
      BY <1>7, <3>1, <3>2 DEF Began
  <2>4. ASSUME sup.at = "collect"  PROVE \E n \in Nat : Unread(n)'
    <3> DEFINE l == Len(sup.ledger)
    <3>1. sup.who = r /\ l \in Nat /\ l =< m
      BY <1>1, <2>2, <2>4, PythonFields DEF LedgerInv, Began, m
    <3>2. PICK n \in Nat : Unread(n)
      BY <1>1, <2>4 DEF LedgerInv
    <3>3. /\ Len(iopub) = n + (m - l) + 0
          /\ \A i \in 1 .. n : iopub[i].of # r
          /\ \A i \in (n + 1) .. Len(iopub) :
                /\ iopub[i].of = r
                /\ i - n + l =< m => iopub[i].what = made[r][i - n + l]
                /\ i - n + l > m => iopub[i].what = "idle"
      BY <1>1, <3>1, <3>2 DEF Unread, m
    <3> HIDE DEF l, r
    <3>4. Len(iopub') = n + ((m + 1) - l) + 0
      BY <1>6, <1>7, <3>1, <3>3
    <3>5. \A i \in 1 .. n : iopub'[i].of # r
      <4>1. \A i \in 1 .. n : i \in 1 .. Len(iopub)
        BY <1>7, <3>1, <3>3
      <4>2. QED
        BY <1>6, <3>3, <4>1
    <3>6. ASSUME NEW i \in (n + 1) .. Len(iopub')
          PROVE  /\ iopub'[i].of = r
                 /\ i - n + l =< m + 1 => iopub'[i].what = w[i - n + l]
                 /\ i - n + l > m + 1 => iopub'[i].what = "idle"
      <4>1. CASE i = Len(iopub) + 1
        <5>1. i - n + l = m + 1
          BY <1>6, <1>7, <3>1, <3>3, <4>1
        <5>2. QED
          BY <1>4, <1>6, <1>7, <4>1, <5>1
      <4>2. CASE i \in (n + 1) .. Len(iopub)
        <5>1. i - n + l =< m /\ i - n + l \in 1 .. m /\ i \in 1 .. Len(iopub)
          BY <1>6, <1>7, <3>1, <3>3, <4>2
        <5>2. ~(i - n + l > m + 1)
          BY <1>7, <3>1, <5>1
        <5>3. QED
          BY <1>6, <1>7, <3>3, <4>2, <5>1, <5>2
      <4>3. QED
        BY <1>6, <3>6, <4>1, <4>2
    <3>7. /\ Len(made'[r]) = m + 1 /\ made'[r] = w /\ sup' = sup /\ ~kernel'.idled
      BY <1>1, <1>7, <1>9
    <3>8. Unread(n)'
      BY <3>1, <3>4, <3>5, <3>6, <3>7 DEF Unread, l
    <3>9. QED
      BY <3>8
  <2>5. sup.at \in {"collect", "interrupted"} => made'[sup.who] = w
    BY <1>9, <2>2
  <2>6. sup.at = "collect" => (sup.failed <=> \E j \in 1 .. Len(sup.ledger) : sup.ledger[j] = "error")
    BY <1>1 DEF LedgerInv
  <2>7. sup.at = "execute" => sup.ledger = <<>> /\ ~sup.failed
    BY <1>1 DEF LedgerInv
  <2>8. sup' = sup
    BY <1>1
  <2>9. QED
    BY <2>1, <2>3, <2>4, <2>5, <2>6, <2>7, <2>8 DEF LedgerInv
<1>14. \A q \in Runs : Over(q) => Over(q)' /\ made'[q] = made[q]
  BY <1>1, <1>9 DEF Over
<1>15. QED
  BY <1>1, <1>10, <1>12, <1>13, <1>14, KernelMoves

LEMMA IdlesStep ==
    ASSUME Inv, ~Failed, Idles
    PROVE  Inv'
<1> DEFINE r == kernel.msg
           x == [of |-> r, what |-> "idle"]
           k == [kernel EXCEPT !.idled = TRUE]
<1>1. /\ PythonTyped /\ SupInv /\ KernelInv /\ LedgerInv
      /\ KernelRest /\ UNCHANGED <<shell, made>> /\ UNCHANGED <<call, inbox, sup>>
      /\ ~kernel.idled /\ iopub' = Append(iopub, x) /\ kernel' = k
      /\ iopub \in Seq(IopubRecords)
  BY DEF Inv, Service, Idles, KernelRest, node, PythonTyped
<1>2. r \in Runs
  BY <1>1, PythonFields DEF Idles, Working
<1>3. x \in IopubRecords /\ x.of = r /\ x.what = "idle"
  BY <1>2 DEF IopubRecords
<1>4. /\ k \in KernelRecords /\ k.msg = r /\ k.idled = TRUE /\ k.replied = kernel.replied
  BY <1>1 DEF PythonTyped, KernelRecords
<1> HIDE DEF x, k
<1>5. /\ iopub' \in Seq(IopubRecords) /\ Len(iopub') = Len(iopub) + 1 /\ Len(iopub) \in Nat
      /\ \A i \in 1 .. Len(iopub) : iopub'[i] = iopub[i]
      /\ iopub'[Len(iopub) + 1] = x
  BY <1>1, <1>3, AppendProperties
<1>6. PythonTyped'
  BY <1>1, <1>4, <1>5 DEF PythonTyped
<1>7. \A i \in 1 .. Len(iopub') : i \in 1 .. Len(iopub) \/ i = Len(iopub) + 1
  BY <1>5
<1>8. KernelInv'
  <2>1. \A q \in Runs : Unsent(q)' => Unsent(q)
    BY <1>1 DEF Unsent, InInbox
  <2>2. \A q \in Runs : Unsent(q) => q # r
    BY <1>1 DEF KernelInv
  <2>3. \A q \in Runs : Unsent(q)' =>
            /\ kernel'.msg # q /\ made'[q] = <<>>
            /\ \A i \in 1 .. Len(iopub') : iopub'[i].of # q
            /\ \A i \in 1 .. Len(shell') : shell'[i].of # q
    BY <1>1, <1>3, <1>4, <1>5, <1>7, <2>1, <2>2 DEF KernelInv
  <2>4. kernel'.idled /\ kernel'.msg = kernel.msg /\ kernel'.replied = kernel.replied
    BY <1>1, <1>4
  <2>5. \A i \in 1 .. Len(shell') : shell'[i].of = kernel'.msg =>
            kernel'.replied /\ (shell'[i].what = "ok" => ~PrintedError(kernel.msg))
    BY <1>1, <2>4 DEF KernelInv
  <2>6. PrintedError(kernel.msg)' <=> PrintedError(kernel.msg)
    BY <1>1, <2>4 DEF PrintedError
  <2>7. QED
    BY <2>3, <2>4, <2>5, <2>6 DEF KernelInv
<1>9. LedgerInv'
  <2>1. ASSUME sup.at = "collect"  PROVE \E n \in Nat : Unread(n)'
    <3> DEFINE l == Len(sup.ledger)
               m == Len(made[r])
    <3>1. sup.who = r /\ l \in Nat /\ m \in Nat /\ l =< m
      BY <1>1, <1>2, <2>1, PythonFields DEF SupInv, AtKernel, LedgerInv, Began
    <3>2. PICK n \in Nat : Unread(n)
      BY <1>1, <2>1 DEF LedgerInv
    <3>3. /\ Len(iopub) = n + (m - l) + 0
          /\ \A i \in 1 .. n : iopub[i].of # r
          /\ \A i \in (n + 1) .. Len(iopub) :
                /\ iopub[i].of = r
                /\ i - n + l =< m => iopub[i].what = made[r][i - n + l]
                /\ i - n + l > m => iopub[i].what = "idle"
      BY <1>1, <3>1, <3>2 DEF Unread
    <3> HIDE DEF l, m, r
    <3>4. Len(iopub') = n + (m - l) + 1
      BY <1>5, <3>1, <3>3
    <3>5. \A i \in 1 .. n : iopub'[i].of # r
      <4>1. \A i \in 1 .. n : i \in 1 .. Len(iopub)
        BY <3>1, <3>3
      <4>2. QED
        BY <1>5, <3>3, <4>1
    <3>6. ASSUME NEW i \in (n + 1) .. Len(iopub')
          PROVE  /\ iopub'[i].of = r
                 /\ i - n + l =< m => iopub'[i].what = made[r][i - n + l]
                 /\ i - n + l > m => iopub'[i].what = "idle"
      <4>1. CASE i = Len(iopub) + 1
        <5>1. i - n + l = m + 1 /\ ~(i - n + l =< m)
          BY <1>5, <3>1, <3>3, <4>1
        <5>2. QED
          BY <1>3, <1>5, <4>1, <5>1
      <4>2. CASE i \in (n + 1) .. Len(iopub)
        <5>1. i \in 1 .. Len(iopub)
          BY <1>5, <4>2
        <5>2. QED
          BY <1>5, <3>3, <4>2, <5>1
      <4>3. QED
        BY <1>5, <3>6, <4>1, <4>2
    <3>7. made' = made /\ sup' = sup /\ kernel'.idled = TRUE
      BY <1>1, <1>4
    <3>8. Unread(n)'
      BY <3>1, <3>4, <3>5, <3>6, <3>7 DEF Unread, l, m
    <3>9. QED
      BY <3>8
  <2>2. sup' = sup /\ made' = made /\ kernel'.idled
    BY <1>1, <1>4
  <2>3. QED
    BY <1>1, <2>1, <2>2 DEF LedgerInv, Began
<1>10. kernel'.msg = kernel.msg
  BY <1>1, <1>4
<1>11. \A q \in Runs : Over(q) => Over(q)' /\ made'[q] = made[q]
  BY <1>1, <1>10 DEF Over
<1>12. QED
  BY <1>1, <1>6, <1>8, <1>9, <1>10, <1>11, KernelMoves

LEMMA RepliesStep ==
    ASSUME Inv, ~Failed, Replies
    PROVE  Inv'
<1> DEFINE r == kernel.msg
           k == [kernel EXCEPT !.replied = TRUE]
<1>1. /\ PythonTyped /\ SupInv /\ KernelInv /\ LedgerInv
      /\ KernelRest /\ UNCHANGED <<iopub, made>> /\ UNCHANGED <<call, inbox, sup>>
      /\ ~kernel.replied /\ kernel' = k
      /\ shell \in Seq(ShellRecords)
  BY DEF Inv, Service, Replies, KernelRest, node, PythonTyped
<1>2. r \in Runs
  BY <1>1, PythonFields DEF Replies, Working
<1>3. PICK what \in {"ok", "error"} :
          /\ PrintedError(kernel.msg) => what = "error"
          /\ shell' = Append(shell, [of |-> r, what |-> what])
  BY DEF Replies
<1> DEFINE x == [of |-> r, what |-> what]
<1>4. x \in ShellRecords /\ x.of = r /\ (x.what = "ok" => ~PrintedError(kernel.msg))
  BY <1>2, <1>3 DEF ShellRecords
<1>5. /\ k \in KernelRecords /\ k.msg = r /\ k.idled = kernel.idled /\ k.replied = TRUE
  BY <1>1 DEF PythonTyped, KernelRecords
<1>6. shell' = Append(shell, x)
  BY <1>3
<1> HIDE DEF x, k
<1>7. /\ shell' \in Seq(ShellRecords) /\ Len(shell') = Len(shell) + 1 /\ Len(shell) \in Nat
      /\ \A i \in 1 .. Len(shell) : shell'[i] = shell[i]
      /\ shell'[Len(shell) + 1] = x
  BY <1>1, <1>4, <1>6, AppendProperties
<1>8. PythonTyped'
  BY <1>1, <1>5, <1>7 DEF PythonTyped
<1>9. \A i \in 1 .. Len(shell') : i \in 1 .. Len(shell) \/ i = Len(shell) + 1
  BY <1>7
<1>10. kernel'.idled = kernel.idled /\ kernel'.msg = kernel.msg /\ kernel'.replied = TRUE
  BY <1>1, <1>5
<1>11. KernelInv'
  <2>1. \A q \in Runs : Unsent(q)' => Unsent(q)
    BY <1>1 DEF Unsent, InInbox
  <2>2. \A q \in Runs : Unsent(q) => q # r
    BY <1>1 DEF KernelInv
  <2>3. \A q \in Runs : Unsent(q)' =>
            /\ kernel'.msg # q /\ made'[q] = <<>>
            /\ \A i \in 1 .. Len(iopub') : iopub'[i].of # q
            /\ \A i \in 1 .. Len(shell') : shell'[i].of # q
    BY <1>1, <1>4, <1>7, <1>9, <1>10, <2>1, <2>2 DEF KernelInv
  <2>4. \A i \in 1 .. Len(iopub') : iopub'[i].of = kernel'.msg /\ iopub'[i].what = "idle" =>
            kernel'.idled
    BY <1>1, <1>10 DEF KernelInv
  <2>5. \A i \in 1 .. Len(shell) : shell[i].of # kernel.msg
    BY <1>1 DEF KernelInv
  <2>6. PrintedError(kernel.msg)' <=> PrintedError(kernel.msg)
    BY <1>1, <1>10 DEF PrintedError
  <2>7. \A i \in 1 .. Len(shell') : shell'[i].of = kernel'.msg =>
            kernel'.replied /\ (shell'[i].what = "ok" => ~PrintedError(kernel.msg))
    BY <1>4, <1>7, <1>9, <1>10, <2>5
  <2>8. QED
    BY <2>3, <2>4, <2>6, <2>7 DEF KernelInv
<1>12. LedgerInv'
  <2>1. sup' = sup /\ made' = made /\ iopub' = iopub
    BY <1>1
  <2>2. \A n \in Nat : Unread(n)' <=> Unread(n)
    BY <1>10, <2>1 DEF Unread
  <2>3. QED
    BY <1>1, <1>10, <2>1, <2>2 DEF LedgerInv, Began
<1>13. \A q \in Runs : Over(q) => Over(q)' /\ made'[q] = made[q]
  BY <1>1, <1>10 DEF Over
<1>14. QED
  BY <1>1, <1>8, <1>10, <1>11, <1>12, <1>13, KernelMoves

-----------------------------------------------------------------------------
(* The invariant, and the properties of the model.                         *)

LEMMA InitInv ==
    ASSUME Init
    PROVE  Inv
<1> USE CallersAreCallers
<1> DEFINE none == [pc |-> "idle", kind |-> "none", res |-> "none", outs |-> <<>>, why |-> Nobody]
<1>1. /\ call = [c \in Callers |-> none]
      /\ pending = {} /\ closed = Nobody /\ stop = "no"
      /\ micro = <<>> /\ inbox = <<>> /\ outbox = <<>>
      /\ sup = Reading /\ kernel = Off
      /\ iopub = <<>> /\ shell = <<>>
      /\ made = [r \in Runs |-> <<>>]
  BY DEF Init
<1>2. <<>> \in Seq(Texts)
  OBVIOUS
<1>3. none \in CallRecords /\ none.pc = "idle" /\ none.res = "none" /\ none.why = Nobody
  BY <1>2 DEF CallRecords
<1> HIDE DEF none
<1>4. \A c \in Callers : call[c].pc = "idle" /\ call[c].res = "none" /\ call[c].why = Nobody
  BY <1>1, <1>3
<1>5. IsFiniteSet(pending)
  BY <1>1, FS_EmptySet
<1>6. NodeTyped
  BY <1>1, <1>3, <1>5 DEF NodeTyped
<1>7. CallInv /\ MicroInv /\ ShutdownInv /\ StopInv
  BY <1>1, <1>4 DEF CallInv, MicroInv, ShutdownInv, StopInv, Made, Failed
<1>8. sup.at = "reading" /\ sup.who = Nobody /\ kernel.msg = Nobody
  BY <1>1, ReadingFields
<1>9. PythonTyped
  BY <1>1, <1>2, ReadingFields DEF PythonTyped
<1>10. InboxInv /\ SupInv
  BY <1>1, <1>8 DEF InboxInv, SupInv, AtKernel, Executes
<1>11. KernelInv /\ LedgerInv
  BY <1>1, <1>8 DEF KernelInv, LedgerInv
<1>12. ASSUME NEW a \in ResultsOfRuns  PROVE ~IsAnswer(a)
  <2>1. a.id \in Callers /\ a.kind # "none"
    BY DEF ResultsOfRuns
  <2>2. QED
    BY <1>1, <1>4, <2>1 DEF IsAnswer
<1>13. QED
  BY <1>6, <1>7, <1>9, <1>10, <1>11, <1>12 DEF Inv, Table, Service, Answers

LEMMA NextInv ==
    ASSUME Inv, [Next]_vars
    PROVE  Inv'
<1>1. CASE Provider /\ ~Join
  <2>1. Table' /\ Goes /\ UNCHANGED python
    BY <1>1, ProviderStep DEF Inv
  <2>2. Service'
    BY <2>1, GoesService DEF Inv
  <2>3. Answers'
    BY <2>1, <2>2, GoesAnswers
  <2>4. QED
    BY <2>1, <2>2, <2>3 DEF Inv
<1>2. CASE Join
  BY <1>2, JoinStep
<1>3. CASE ~Failed /\ Supervisor
  BY <1>3, ReadStep, PlainReplies, SupShutdownStep, SendStep, SkipStep, CollectStep,
     CollectReplyStep, TimesOutStep, CollectInterruptedStep, CollectLastStep, OverLimitStep,
     CrashStep, WritesGarbageStep DEF Supervisor
<1>4. CASE ~Failed /\ Kernel
  BY <1>4, PrintsStep, IdlesStep, RepliesStep DEF Kernel
<1>5. CASE UNCHANGED vars
  <2>1. UNCHANGED <<call, pending, closed, stop, micro, inbox, outbox, sup, kernel, iopub, shell, made>>
    BY <1>5 DEF vars
  <2>2. Table'
    BY <2>1 DEF Inv, Table, NodeTyped, CallInv, MicroInv, ShutdownInv, StopInv, Made, Failed, Alive
  <2>3. Service'
    BY <2>1, ServiceRests DEF Inv
  <2>4. \A r \in Runs : Sealed(r) => Sealed(r)'
    BY <2>1 DEF Sealed, Made, InInbox
  <2>5. \A r \in Runs : Sealed(r) /\ Over(r) /\ call[r].kind = "execute" =>
            Over(r)' /\ made'[r] = made[r]
    BY <2>1 DEF Over
  <2>6. Answers'
    BY <2>1, <2>4, <2>5, OutsideAnswers
  <2>7. QED
    BY <2>2, <2>3, <2>6 DEF Inv
<1>6. QED
  BY <1>1, <1>2, <1>3, <1>4, <1>5 DEF Next

(* What is known of the connection in every state. *)
THEOREM ConnectionInvariant == Spec => []Inv
<1>1. Init => Inv
  BY InitInv
<1>2. Inv /\ [Next]_vars => Inv'
  BY NextInv
<1>3. QED
  BY <1>1, <1>2, PTL DEF Spec

(* The result of a run, once it has one. *)
LEMMA ResultsAreSound ==
    ASSUME Inv, NEW r \in Runs, call[r].kind = "execute", call[r].res \in {"ok", "error"}
    PROVE  /\ Over(r)
           /\ call[r].res = "ok" => call[r].outs = made[r] /\ ~PrintedError(r)
           /\ call[r].res = "error" => \/ Began(call[r].outs, made[r])
                                       \/ call[r].outs = Append(made[r], "error")
<1> DEFINE a == [id |-> r, kind |-> call[r].res, outs |-> call[r].outs]
<1>1. call[r].outs \in Seq(Texts) /\ r \in Callers
  BY CallersAreCallers DEF Inv, Table, NodeTyped, CallRecords
<1>2. a \in ReplyRecords /\ a.id = r /\ a.kind = call[r].res /\ a.outs = call[r].outs
  BY <1>1 DEF ReplyRecords
<1> HIDE DEF a
<1>3. a \in ResultsOfRuns /\ IsAnswer(a)
  BY <1>2 DEF ResultsOfRuns, IsAnswer
<1>4. Sound(a)
  BY <1>3 DEF Inv, Answers
<1>5. Over(r) /\ Right(a)
  BY <1>2, <1>4 DEF Sound
<1>6. QED
  BY <1>2, <1>5 DEF Right

(* A run that was answered is one the kernel has finished.                 *)
THEOREM AnsweredRuns == Spec => []AnsweredRunsAreOver
<1>1. ASSUME Inv  PROVE AnsweredRunsAreOver
  <2>1. NodeTyped /\ CallInv /\ StopInv /\ Len(micro) \in Nat /\ DOMAIN micro = 1 .. Len(micro)
    BY <1>1 DEF Inv, Table, NodeTyped
  <2>2. \A c \in Callers : call[c].pc \in {"idle", "asked", "waiting", "stopping", "settled"}
    BY <2>1, CallFields
  <2>3. TypeOK
    BY SMTT(40), <2>1, <2>2 DEF TypeOK, NodeTyped, CallInv, StopInv
  <2>4. QED
    BY <1>1, <2>3, ResultsAreSound DEF AnsweredRunsAreOver
<1>2. QED
  BY <1>1, ConnectionInvariant, PTL

(* A result holds what the kernel printed for that very run, from the      *)
(* first message on, and all of it with no error if the run succeeded.     *)
THEOREM RunsOwnResults == Spec => []ResultsAreTheRunsOwn
<1>1. ASSUME NEW l \in Seq(Texts), NEW m \in Seq(Texts), Began(l, m)
      PROVE  IsPrefix(l, m)
  BY <1>1 DEF IsPrefix, Began
<1>2. ASSUME Inv  PROVE ResultsAreTheRunsOwn
  <2>1. SUFFICES ASSUME NEW r \in Runs, call[r].kind = "execute"
                 PROVE  /\ call[r].res = "ok" => call[r].outs = made[r] /\ ~PrintedError(r)
                        /\ call[r].res = "error" => \/ IsPrefix(call[r].outs, made[r])
                                                    \/ call[r].outs = Append(made[r], "error")
    BY DEF ResultsAreTheRunsOwn
  <2>2. call[r].outs \in Seq(Texts) /\ made[r] \in Seq(Texts)
    BY <1>2, CallersAreCallers DEF Inv, Table, Service, NodeTyped, CallRecords, PythonTyped
  <2>3. QED
    BY <1>1, <1>2, <2>1, <2>2, ResultsAreSound
<1>3. QED
  BY <1>2, ConnectionInvariant, PTL

(* A call that throws has seen the process stop, or says that it did not.  *)
THEOREM ThrownCalls == Spec => []ThrownCallsAreJoined
<1>1. Inv => ThrownCallsAreJoined
  BY DEF Inv, Table, CallInv, StopInv, ThrownCallsAreJoined
<1>2. QED
  BY <1>1, ConnectionInvariant, PTL

(* The shutdown that retires a kernel is not failed by the run it ends.    *)
THEOREM UncutShutdown == Spec => []RunsDoNotCutTheShutdown
<1>1. Inv => RunsDoNotCutTheShutdown
  BY DEF Inv, Table, ShutdownInv, RunsDoNotCutTheShutdown
<1>2. QED
  BY <1>1, ConnectionInvariant, PTL
=============================================================================
