----------------------- MODULE KernelLifecycleProofs -----------------------
(***************************************************************************)
(* The kernels of a notebook, for any number of calls, policies and events *)
(* from outside and every set of faults: types, the live kernel, no kernel *)
(* leaked (Sound), the refinement of KernelGenerations (Steady and         *)
(* Published), and runs that do not overlap (Orderly).                     *)
(***************************************************************************)
EXTENDS KernelLifecycle, SequenceTheorems, WellFoundedInduction, TLAPS

-----------------------------------------------------------------------------
(* Sequences a call is in, in front or behind. *)

In(c, q) == \E i \in 1 .. Len(q) : q[i] = c
InFront(c, q) == q # <<>> /\ Head(q) = c

(* A set of natural numbers that is not empty has a least element. *)
LEMMA LeastElement ==
    ASSUME NEW I, I \subseteq Nat, I # {}
    PROVE  \E n \in I : \A m \in I : n =< m
<1>1. \A a, b \in Nat : a < b => <<a, b>> \in OpToRel(<, Nat)
  BY Zenon DEF OpToRel
<1>2. PICK R : R = OpToRel(<, Nat)
  OBVIOUS
<1>3. IsWellFoundedOn(R, Nat)
  BY <1>2, NatLessThanWellFounded, Zenon
<1>4. \A a, b \in Nat : a < b => <<a, b>> \in R
  BY <1>1, <1>2, Zenon
<1>5. \E x \in I : \A y \in I : ~(<<y, x>> \in R)
  BY <1>3, WFMin, Zenon
<1>6. PICK x \in I : \A y \in I : ~(<<y, x>> \in R)
  BY <1>5
<1>7. ASSUME NEW y \in I  PROVE x =< y
  <2>1. x \in Nat /\ y \in Nat
    OBVIOUS
  <2>2. ~(y < x)
    BY <1>4, <1>6, <2>1
  <2>3. QED
    BY <2>1, <2>2
<1>8. QED
  BY <1>7

(* A call that leaves a queue leaves the others in it, in the same order   *)
(* as far as the first of them goes (enqueue).                             *)
LEMMA LeavingKeepsTheRest ==
    ASSUME NEW q \in Seq(Calls), NEW c \in Calls
    PROVE  /\ RemoveFirst(q, c) \in Seq(Calls)
           /\ \A d \in Calls : d # c /\ In(d, q) => In(d, RemoveFirst(q, c))
           /\ \A d \in Calls : d # c /\ InFront(d, q) => InFront(d, RemoveFirst(q, c))
<1>1. CASE ~\E i \in 1 .. Len(q) : q[i] = c
  BY <1>1 DEF RemoveFirst
<1>2. CASE \E i \in 1 .. Len(q) : q[i] = c
  <2> DEFINE I == {i \in 1 .. Len(q) : q[i] = c}
             n == SelectInSeq(q, LAMBDA v : v = c)
  <2>1. I \subseteq Nat /\ I # {}
    BY <1>2
  <2>2. \E n0 \in I : \A m \in I : n0 =< m
    BY <2>1, LeastElement
  <2>3. n \in I
    BY <2>1, <2>2 DEF SelectInSeq, Min
  <2>4. n \in 1 .. Len(q) /\ q[n] = c
    BY <2>3
  <2>5. RemoveFirst(q, c) = SubSeq(q, 1, n - 1) \o SubSeq(q, n + 1, Len(q))
    BY <1>2 DEF RemoveFirst, RemoveAt
  <2> HIDE DEF n
  <2>6. RemoveFirst(q, c) \in Seq(Calls)
    BY <2>4, <2>5
  <2>7. /\ Len(RemoveFirst(q, c)) = Len(q) - 1
        /\ \A i \in 1 .. Len(q) - 1 : RemoveFirst(q, c)[i] = IF i < n THEN q[i] ELSE q[i + 1]
    <3> DEFINE l == SubSeq(q, 1, n - 1)  r == SubSeq(q, n + 1, Len(q))
    <3>1. /\ l \in Seq(Calls) /\ Len(l) = n - 1
          /\ \A i \in 1 .. n - 1 : l[i] = q[i]
      BY <2>4
    <3>2. /\ r \in Seq(Calls) /\ Len(r) = Len(q) - n
          /\ \A i \in 1 .. Len(q) - n : r[i] = q[n + i]
      BY <2>4
    <3> HIDE DEF l, r
    <3>5. Len(l \o r) = Len(l) + Len(r)
      BY <3>1, <3>2
    <3>3. \A i \in 1 .. Len(l) + Len(r) :
             (l \o r)[i] = IF i <= Len(l) THEN l[i] ELSE r[i - Len(l)]
      BY <3>1, <3>2, ConcatProperties
    <3>4. \A i \in 1 .. Len(q) - 1 : (l \o r)[i] = IF i < n THEN q[i] ELSE q[i + 1]
      <4> SUFFICES ASSUME NEW i \in 1 .. Len(q) - 1
                   PROVE  (l \o r)[i] = IF i < n THEN q[i] ELSE q[i + 1]
        OBVIOUS
      <4>1. CASE i < n
        BY <2>4, <3>1, <3>2, <3>3, <4>1
      <4>2. CASE ~(i < n)
        <5>1. (l \o r)[i] = r[i - (n - 1)]
          BY <2>4, <3>1, <3>2, <3>3, <4>2
        <5>2. i - (n - 1) \in 1 .. Len(q) - n /\ n + (i - (n - 1)) = i + 1
          BY <2>4, <4>2
        <5>3. QED
          BY <3>2, <4>2, <5>1, <5>2
      <4>3. QED
        BY <4>1, <4>2
    <3>6. RemoveFirst(q, c) = l \o r
      BY <2>5 DEF l, r
    <3>7. Len(l \o r) = Len(q) - 1
      BY <2>4, <3>1, <3>2, <3>5
    <3>8. QED
      BY <3>4, <3>6, <3>7, Zenon
  <2>8. ASSUME NEW d \in Calls, d # c, In(d, q)
        PROVE  In(d, RemoveFirst(q, c))
    <3>1. PICK i \in 1 .. Len(q) : q[i] = d
      BY <2>8 DEF In
    <3>2. CASE i < n
      BY <2>4, <2>7, <3>1, <3>2 DEF In
    <3>3. CASE i > n
      <4>1. i - 1 \in 1 .. Len(q) - 1 /\ RemoveFirst(q, c)[i - 1] = d
        BY <2>4, <2>7, <3>1, <3>3
      <4>2. QED
        BY <2>7, <4>1 DEF In
    <3>4. QED
      BY <2>4, <2>8, <3>1, <3>2, <3>3
  <2>9. ASSUME NEW d \in Calls, d # c, InFront(d, q)
        PROVE  InFront(d, RemoveFirst(q, c))
    BY <2>4, <2>6, <2>7, <2>9 DEF InFront
  <2>10. QED
    BY <2>6, <2>8, <2>9
<1>3. QED
  BY <1>1, <1>2

-----------------------------------------------------------------------------
(* The invariant.  What is known of a kernel follows from how far the call *)
(* that starts it has come: before the handle has arrived it has no record,*)
(* an active one is live or about to be published, and one that is out of  *)
(* use is being retired, or will be once the disposal under way goes on.   *)
(* A call that waits in a queue is in it, and the one that has its turn is *)
(* in front.                                                               *)

CallRecords == [pc : CallSteps, kind : {"run", "inspect", "restart", "attach"},
                on : Kernels \cup {NoKernel}, policy : Policies, cut : BOOLEAN,
                bad : BOOLEAN, res : Results]
KernelRecords == [proc : {"none", "starting", "up", "down", "stuck"},
                  state : States, policy : Policies]
AttemptRecords == [pc : {"none", "starting", "publishing", "closing", "rollback", "done", "failed"},
                   prior : Kernels \cup {NoKernel}, cut : BOOLEAN]

Typed ==
    /\ call \in [Calls -> CallRecords]
    /\ kernel \in [Kernels -> KernelRecords]
    /\ attempt \in [Calls -> AttemptRecords]
    /\ queue \in [Kernels -> Seq(Calls)]
    /\ live \in Kernels \cup {NoKernel}
    /\ retiring \in Kernels \cup {NoKernel}
    /\ doomed \in Kernels \cup {NoKernel}
    /\ recovery \in Calls \cup {NoKernel}
    /\ retired \subseteq Kernels
    /\ policy \in Policies

Phases ==
    /\ session \in {"open", "disposing", "closing", "disposed"}
    /\ backend \in {"registered", "disposing", "disposed"}
    /\ events \in 0 .. MaxEvents /\ generation \in Nat

AttemptSound(c) ==
    /\ attempt[c].pc = "none" => kernel[c].proc = "none" /\ kernel[c].state = "none"
    /\ attempt[c].pc = "starting" => kernel[c].state = "none"
    /\ attempt[c].pc \in {"publishing", "done"} => kernel[c].state # "none"
    /\ attempt[c].pc \in {"closing", "rollback"} => kernel[c].state \notin {"none", "active"}

OutOfUse == {"closing", "closed", "shutdown-failed"}
Dropped(k) ==
    \/ k \in retired
    \/ session = "disposing" /\ k = doomed
    \/ backend = "disposing" /\ kernel[k].state \in {"active", "closing", "shutdown-failed"}

KernelSound(k) ==
    /\ kernel[k].state = "none" => k \notin retired /\ k # doomed
    /\ kernel[k].state = "none" /\ k = First => kernel[k].proc = "none"
    /\ kernel[k].state = "active" =>
          /\ kernel[k].proc = "up" /\ k \notin retired /\ backend = "registered"
          /\ k = live \/ (k \in Calls /\ attempt[k].pc = "publishing")
    /\ kernel[k].state \in OutOfUse => Dropped(k)

LiveSound ==
    live # NoKernel =>
        /\ kernel[live].state = "active" /\ kernel[live].policy = policy
        /\ session = "open"
        /\ live \in Calls => attempt[live].pc = "done"

HasTurn == {"running", "committing", "inspecting"}
CallSound(c) ==
    /\ call[c].pc \in {"idle", "joining"} => attempt[c].pc = "none"
    /\ call[c].pc = "queued" /\ ~Shared(call[c].kind) => attempt[c].pc = "none"
    /\ call[c].pc \in {"sharing"} \cup HasTurn => Shared(call[c].kind)
    /\ call[c].pc = "sharing" => call[c].on \in Calls
    /\ call[c].pc \in {"joining", "queued"} \cup HasTurn => call[c].on # NoKernel
    /\ call[c].pc \in {"queued"} \cup HasTurn => In(c, queue[call[c].on])
    /\ call[c].pc \in HasTurn => InFront(c, queue[call[c].on])
    /\ call[c].pc \in {"queued"} \cup HasTurn => kernel[call[c].on].state # "none"

CurrentPolicy(c) ==
    Executing(c) => kernel[call[c].on].policy = policy \/ RecordCut(call[c].on)

Sound ==
    /\ Typed
    /\ \A c \in Calls : AttemptSound(c)
    /\ \A k \in Kernels : KernelSound(k)
    /\ LiveSound
    /\ \A c \in Calls : CallSound(c)
    /\ \A c \in Calls : CurrentPolicy(c)

-----------------------------------------------------------------------------
(* What the operators that actions are built from do to one call, kernel,  *)
(* attempt or queue.                                                       *)

OthersKept(c) == \A d \in Calls : d # c => call'[d] = call[d]
QueuesKept(c) ==
    /\ queue' \in [Kernels -> Seq(Calls)]
    /\ \A k \in Kernels, d \in Calls : d # c =>
          /\ In(d, queue[k]) => In(d, queue'[k])
          /\ InFront(d, queue[k]) => InFront(d, queue'[k])

LEMMA CallBecomes ==
    ASSUME Typed, NEW c \in Calls, NEW r \in CallRecords, call' = [call EXCEPT ![c] = r]
    PROVE  /\ call' \in [Calls -> CallRecords]
           /\ call'[c] = r /\ OthersKept(c)
BY DEF Typed, OthersKept

LEMMA Settling ==
    ASSUME Typed, NEW c \in Calls, NEW result \in Results, Settle(c, result)
    PROVE  /\ call' \in [Calls -> CallRecords]
           /\ call'[c].pc = "settled" /\ call'[c].kind = call[c].kind /\ OthersKept(c)
<1> DEFINE r == [Idle(call[c].policy) EXCEPT !.pc = "settled", !.kind = call[c].kind, !.res = result]
<1>1. r \in CallRecords /\ r.pc = "settled" /\ r.kind = call[c].kind
  BY DEF Typed, CallRecords, CallSteps, Idle
<1>2. call' = [call EXCEPT ![c] = r]
  BY DEF Settle
<1>3. QED
  BY <1>1, <1>2, CallBecomes

LEMMA Closing ==
    ASSUME Typed, NEW ks \in SUBSET (Kernels \cup {NoKernel}), MarkClosing(ks)
    PROVE  /\ kernel' \in [Kernels -> KernelRecords]
           /\ \A k \in Kernels :
                 /\ kernel'[k].proc = kernel[k].proc /\ kernel'[k].policy = kernel[k].policy
                 /\ kernel'[k].state = IF k \in ks /\ kernel[k].state = "active"
                                       THEN "closing" ELSE kernel[k].state
           /\ live' = IF live \in ks THEN NoKernel ELSE live
           /\ live' \in Kernels \cup {NoKernel}
BY DEF Typed, MarkClosing, KernelRecords, States

LEMMA Registering ==
    ASSUME Typed, NEW k \in Kernels, Register(k)
    PROVE  retiring' \in Kernels \cup {NoKernel}
BY DEF Typed, Register

LEMMA Leaving ==
    ASSUME Typed, NEW c \in Calls, NEW k \in Kernels, Leave(k, c)
    PROVE  QueuesKept(c)
<1>1. queue' \in [Kernels -> Seq(Calls)]
  BY LeavingKeepsTheRest DEF Typed, Leave
<1>2. ASSUME NEW j \in Kernels
      PROVE  queue'[j] = queue[j] \/ queue'[j] = RemoveFirst(queue[j], c)
  BY DEF Typed, Leave
<1>3. QED
  BY <1>1, <1>2, LeavingKeepsTheRest DEF Typed, QueuesKept

LEMMA Enqueuing ==
    ASSUME Typed, NEW c \in Calls, NEW k \in Kernels, NEW next \in CallRecords,
           Enqueue(c, k, next)
    PROVE  /\ call' \in [Calls -> CallRecords] /\ OthersKept(c)
           /\ call'[c].pc = "queued" /\ call'[c].on = k /\ call'[c].kind = next.kind
           /\ queue' \in [Kernels -> Seq(Calls)]
           /\ In(c, queue'[k])
           /\ \A j \in Kernels, d \in Calls :
                 /\ In(d, queue[j]) => In(d, queue'[j])
                 /\ InFront(d, queue[j]) => InFront(d, queue'[j])
<1> DEFINE r == [next EXCEPT !.pc = "queued", !.on = k]
<1>1. r \in CallRecords /\ r.pc = "queued" /\ r.on = k /\ r.kind = next.kind
  BY DEF CallRecords, CallSteps
<1>2. call' = [call EXCEPT ![c] = r]
  BY DEF Enqueue
<1>3. ASSUME NEW q \in Seq(Calls)
      PROVE  /\ Append(q, c) \in Seq(Calls) /\ In(c, Append(q, c))
             /\ \A d \in Calls : /\ In(d, q) => In(d, Append(q, c))
                                 /\ InFront(d, q) => InFront(d, Append(q, c))
  BY DEF In, InFront
<1>4. /\ queue' \in [Kernels -> Seq(Calls)] /\ queue'[k] = Append(queue[k], c)
      /\ \A j \in Kernels : j # k => queue'[j] = queue[j]
  BY <1>3 DEF Enqueue, Typed
<1>5. /\ call' \in [Calls -> CallRecords] /\ call'[c] = r /\ OthersKept(c)
  BY <1>1, <1>2, CallBecomes
<1>6. In(c, queue'[k])
  BY <1>3, <1>4 DEF Typed
<1>7. ASSUME NEW j \in Kernels, NEW d \in Calls
      PROVE  /\ In(d, queue[j]) => In(d, queue'[j])
             /\ InFront(d, queue[j]) => InFront(d, queue'[j])
  <2>1. queue[j] \in Seq(Calls)
    BY DEF Typed
  <2>2. QED
    BY <1>3, <1>4, <2>1
<1>8. QED
  BY <1>1, <1>4, <1>5, <1>6, <1>7

LEMMA Beginning ==
    ASSUME Typed, NEW c \in Calls, NEW prior \in Kernels \cup {NoKernel},
           NEW next \in CallRecords, Begin(c, prior, next)
    PROVE  /\ call' \in [Calls -> CallRecords] /\ call'[c] = next /\ OthersKept(c)
           /\ attempt' \in [Calls -> AttemptRecords]
           /\ attempt'[c].pc = "starting" /\ attempt'[c].prior = prior
           /\ \A d \in Calls : d # c => attempt'[d] = attempt[d]
           /\ kernel' \in [Kernels -> KernelRecords]
           /\ kernel'[c].proc = "starting" /\ kernel'[c].state = kernel[c].state
           /\ \A k \in Kernels : k # c => kernel'[k] = kernel[k]
<1>1. call' \in [Calls -> CallRecords] /\ call'[c] = next /\ OthersKept(c)
  BY CallBecomes DEF Begin
<1>2. /\ attempt' \in [Calls -> AttemptRecords]
      /\ attempt'[c].pc = "starting" /\ attempt'[c].prior = prior
      /\ \A d \in Calls : d # c => attempt'[d] = attempt[d]
  BY DEF Typed, Begin, NoAttempt, AttemptRecords
<1>3. /\ kernel' \in [Kernels -> KernelRecords]
      /\ kernel'[c].proc = "starting" /\ kernel'[c].state = kernel[c].state
      /\ \A k \in Kernels : k # c => kernel'[k] = kernel[k]
  <2>1. c \in Kernels /\ next.policy \in Policies
    BY DEF Kernels, CallRecords
  <2>2. kernel' = [kernel EXCEPT ![c] = [@ EXCEPT !.proc = "starting", !.policy = next.policy]]
    BY DEF Begin
  <2>3. kernel[c] \in KernelRecords
    BY <2>1 DEF Typed
  <2>4. kernel' = [kernel EXCEPT ![c] = [kernel[c] EXCEPT !.proc = "starting", !.policy = next.policy]]
    BY <2>1, <2>2, <2>3 DEF Typed, KernelRecords
  <2>5. [kernel[c] EXCEPT !.proc = "starting", !.policy = next.policy] \in KernelRecords
    BY <2>1, <2>3 DEF KernelRecords
  <2>6. QED
    BY <2>1, <2>4, <2>5 DEF Typed, KernelRecords
<1>4. QED
  BY <1>1, <1>2, <1>3

LEMMA Failing ==
    ASSUME Typed, NEW c \in Calls, FailStart(c)
    PROVE  /\ attempt' \in [Calls -> AttemptRecords] /\ attempt'[c].pc = "failed"
           /\ \A d \in Calls : d # c => attempt'[d] = attempt[d]
           /\ recovery' = IF recovery = c THEN NoKernel ELSE recovery
           /\ call' \in [Calls -> CallRecords] /\ OthersKept(c) /\ QueuesKept(c)
           /\ IF call[c].pc = "replacing"
              THEN call'[c].pc = "settled" /\ call'[c].kind = call[c].kind
              ELSE call' = call /\ queue' = queue
<1>1. /\ attempt' \in [Calls -> AttemptRecords] /\ attempt'[c].pc = "failed"
      /\ \A d \in Calls : d # c => attempt'[d] = attempt[d]
  BY DEF Typed, FailStart, NoAttempt, AttemptRecords
<1>2. CASE call[c].pc = "replacing"
  <2>1. Settle(c, "failed")
    BY <1>2 DEF FailStart, EndReplacement
  <2>2. UNCHANGED queue \/ (Leave(attempt[c].prior, c) /\ attempt[c].prior \in Kernels)
    <3>1. attempt[c].prior \in Kernels \cup {NoKernel}
      BY DEF Typed, AttemptRecords
    <3>2. CASE attempt[c].prior = NoKernel
      BY <1>2, <3>2 DEF FailStart, EndReplacement
    <3>3. CASE attempt[c].prior # NoKernel
      BY <1>2, <3>1, <3>3 DEF FailStart, EndReplacement
    <3>4. QED
      BY <3>2, <3>3
  <2>3. QueuesKept(c)
    BY <2>2, Leaving DEF QueuesKept, Typed
  <2>4. QED
    BY <1>1, <1>2, <2>1, <2>3, Settling DEF FailStart, FreeRecovery, Results
<1>3. CASE call[c].pc # "replacing"
  BY <1>1, <1>3 DEF FailStart, FreeRecovery, EndReplacement, OthersKept, QueuesKept, Typed
<1>4. QED
  BY <1>2, <1>3

-----------------------------------------------------------------------------
LEMMA SoundInit == Init => Sound /\ Phases
<1> SUFFICES ASSUME Init PROVE Sound /\ Phases
  OBVIOUS
<1> USE LifecycleAssumption DEF Init, Kernels
<1>1. policy \in Policies
  OBVIOUS
<1>2. Typed
  BY <1>1 DEF Typed, CallRecords, KernelRecords, AttemptRecords, NoAttempt, Idle, States,
              CallSteps, Results
<1>3. Phases
  BY DEF Phases
<1>4. \A c \in Calls : AttemptSound(c) /\ CallSound(c) /\ CurrentPolicy(c)
  BY DEF AttemptSound, CallSound, CurrentPolicy, NoAttempt, Idle, HasTurn, Executing
<1>5. (\A k \in Kernels : KernelSound(k)) /\ LiveSound
  BY DEF KernelSound, LiveSound, OutOfUse, NoAttempt
<1>6. QED
  BY <1>2, <1>3, <1>4, <1>5 DEF Sound

LEMMA SoundTypes == Sound /\ Phases => TypeOK
<1>1. ASSUME Sound, NEW c \in Calls, call[c].pc \in {"joining", "sharing", "queued"}
      PROVE  call[c].on # NoKernel
  BY <1>1, LifecycleAssumption DEF Sound, CallSound, HasTurn, Kernels
<1>2. QED
  BY <1>1 DEF Sound, Phases, Typed, TypeOK, CallRecords, KernelRecords, AttemptRecords

-----------------------------------------------------------------------------
(* What a step leaves sound.  RecordsStay says of the records of kernels   *)
(* what every step but a new start keeps.                                  *)

RecordsStay ==
    \A k \in Kernels : kernel[k].state # "none" =>
        /\ kernel'[k].state # "none" /\ kernel'[k].policy = kernel[k].policy
        /\ RecordCut(k) => RecordCut(k)'

LEMMA QueuesUntouched ==
    ASSUME Sound, UNCHANGED queue, NEW c
    PROVE  QueuesKept(c)
BY DEF Sound, Typed, QueuesKept

LEMMA CallsStaySound ==
    ASSUME Sound, NEW c, OthersKept(c), QueuesKept(c), RecordsStay,
           \A d \in Calls : d # c /\ attempt[d].pc = "none" => attempt'[d].pc = "none",
           NEW d \in Calls, d # c
    PROVE  CallSound(d)' /\ (policy' = policy => CurrentPolicy(d)')
<1>1. /\ CallSound(d) /\ CurrentPolicy(d) /\ call'[d] = call[d]
      /\ attempt[d].pc = "none" => attempt'[d].pc = "none"
  BY DEF Sound, OthersKept
<1>2. call[d] \in CallRecords
  BY DEF Sound, Typed
<1>3. CallSound(d)'
  <2>1. CASE call[d].pc \in {"joining", "queued"} \cup HasTurn
    <3>1. call[d].on \in Kernels
      BY <1>1, <1>2, <2>1 DEF CallSound, CallRecords
    <3>2. QED
      BY <1>1, <3>1 DEF CallSound, HasTurn, Executing, RecordsStay, QueuesKept
  <2>2. CASE call[d].pc \notin {"joining", "queued"} \cup HasTurn
    BY <1>1, <2>2 DEF CallSound, HasTurn, Executing
  <2>3. QED
    BY <2>1, <2>2
<1>4. ASSUME policy' = policy
      PROVE  CurrentPolicy(d)'
  <2>1. CASE Executing(d)
    <3>1. call[d].on \in Kernels /\ kernel[call[d].on].state # "none"
      BY <1>1, <1>2, <2>1 DEF CallSound, CallRecords, Executing, HasTurn
    <3>2. QED
      BY <1>1, <1>4, <2>1, <3>1 DEF CurrentPolicy, Executing, RecordsStay
  <2>2. CASE ~Executing(d)
    BY <1>1, <2>2 DEF CurrentPolicy, Executing
  <2>3. QED
    BY <2>1, <2>2
<1>5. QED
  BY <1>3, <1>4

(* The same of a step of no call. *)
LEMMA AllCallsStaySound ==
    ASSUME Sound, UNCHANGED <<call, queue>>, RecordsStay,
           \A d \in Calls : attempt[d].pc = "none" => attempt'[d].pc = "none"
    PROVE  \A d \in Calls : CallSound(d)' /\ (policy' = policy => CurrentPolicy(d)')
<1>1. OthersKept(NoKernel) /\ QueuesKept(NoKernel)
  BY QueuesUntouched DEF OthersKept
<1>2. NoKernel \notin Calls
  BY LifecycleAssumption DEF Kernels
<1>3. QED
  BY <1>1, <1>2, CallsStaySound

(* A step of one call that touches no kernel and no start. *)
LEMMA CallMoves ==
    ASSUME Sound, NEW c \in Calls, call' \in [Calls -> CallRecords], OthersKept(c), QueuesKept(c),
           UNCHANGED <<outside, slots, kernel, retired, attempt>>,
           CallSound(c)', CurrentPolicy(c)'
    PROVE  Sound'
<1>1. RecordsStay
  BY DEF RecordsStay, RecordCut, outside
<1>2. \A d \in Calls : CallSound(d)' /\ CurrentPolicy(d)'
  BY <1>1, CallsStaySound DEF outside
<1>3. Typed'
  BY DEF Sound, Typed, QueuesKept, outside, slots
<1>4. \A d \in Calls : AttemptSound(d)'
  BY DEF Sound, AttemptSound
<1>5. (\A k \in Kernels : KernelSound(k)') /\ LiveSound'
  BY DEF Sound, KernelSound, LiveSound, Dropped, outside, slots
<1>6. QED
  BY <1>2, <1>3, <1>4, <1>5 DEF Sound

LEMMA AbortSound == ASSUME Sound, NEW c \in Calls, Abort(c) \/ Interrupt(c) PROVE Sound'
<1> DEFINE r == [call[c] EXCEPT !.cut = TRUE]
<1>1. call[c] \in CallRecords /\ CallSound(c) /\ CurrentPolicy(c)
  BY DEF Sound, Typed
<1>2. r \in CallRecords /\ r.pc = call[c].pc /\ r.kind = call[c].kind /\ r.on = call[c].on
  BY <1>1 DEF CallRecords
<1>3. call' = [call EXCEPT ![c] = r] /\ UNCHANGED <<outside, slots, kernel, retired, queue, attempt>>
  BY DEF Abort, Interrupt
<1> HIDE DEF r
<1>4. call' \in [Calls -> CallRecords] /\ call'[c] = r /\ OthersKept(c)
  BY <1>2, <1>3, CallBecomes DEF Sound
<1>5. CallSound(c)' /\ CurrentPolicy(c)'
  BY <1>1, <1>2, <1>3, <1>4 DEF CallSound, CurrentPolicy, Executing, RecordCut, outside, slots
<1>6. QED
  BY <1>3, <1>4, <1>5, CallMoves, QueuesUntouched

LEMMA GiveUpSound == ASSUME Sound, NEW c \in Calls, GiveUp(c) PROVE Sound'
<1>1. /\ call' \in [Calls -> CallRecords] /\ call'[c].pc = "settled" /\ OthersKept(c)
      /\ UNCHANGED <<outside, slots, kernel, retired, queue, attempt>>
  BY Settling DEF GiveUp, Sound, Results
<1>2. CallSound(c)' /\ CurrentPolicy(c)'
  BY <1>1 DEF CallSound, CurrentPolicy, Executing, HasTurn
<1>3. QED
  BY <1>1, <1>2, CallMoves, QueuesUntouched

LEMMA EndExecutionSound == ASSUME Sound, NEW c \in Calls, EndExecution(c) PROVE Sound'
<1>1. PICK b \in BOOLEAN : call' = [call EXCEPT ![c] = [@ EXCEPT !.pc = "committing", !.bad = b]]
  BY DEF EndExecution
<1> DEFINE r == [call[c] EXCEPT !.pc = "committing", !.bad = b]
<1>2. call[c] \in CallRecords /\ CallSound(c) /\ call[c].pc = "running"
  BY DEF Sound, Typed, EndExecution
<1>3. r \in CallRecords /\ r.pc = "committing" /\ r.kind = call[c].kind /\ r.on = call[c].on
  BY <1>2 DEF CallRecords, CallSteps
<1>4. call' = [call EXCEPT ![c] = r] /\ UNCHANGED <<outside, slots, kernel, retired, queue, attempt>>
  BY <1>1 DEF EndExecution, Sound, Typed
<1> HIDE DEF r
<1>5. call' \in [Calls -> CallRecords] /\ call'[c] = r /\ OthersKept(c)
  BY <1>3, <1>4, CallBecomes DEF Sound
<1>6. CallSound(c)' /\ CurrentPolicy(c)'
  BY <1>2, <1>3, <1>4, <1>5 DEF CallSound, CurrentPolicy, Executing, HasTurn
<1>7. QED
  BY <1>4, <1>5, <1>6, CallMoves, QueuesUntouched

LEMMA RecoveredSound == ASSUME Sound, NEW c \in Calls, Recovered(c) PROVE Sound'
<1>1. call[c] \in CallRecords /\ CallSound(c) /\ call[c].pc = "sharing" /\ call[c].on \in Kernels
      /\ UNCHANGED <<outside, slots, kernel, retired, attempt>>
  BY DEF Sound, Typed, Recovered, CallSound, Kernels
<1>2. CASE attempt[call[c].on].pc = "done" /\ Enqueue(c, call[c].on, call[c])
  <2>1. /\ call' \in [Calls -> CallRecords] /\ OthersKept(c)
        /\ call'[c].pc = "queued" /\ call'[c].on = call[c].on /\ call'[c].kind = call[c].kind
        /\ QueuesKept(c) /\ In(c, queue'[call[c].on])
    BY <1>1, <1>2, Enqueuing DEF Sound, QueuesKept
  <2>2. call[c].on # NoKernel /\ kernel[call[c].on].state # "none"
    BY <1>1, <1>2, LifecycleAssumption DEF Sound, CallSound, AttemptSound
  <2>3. CallSound(c)' /\ CurrentPolicy(c)'
    BY <1>1, <2>1, <2>2 DEF CallSound, CurrentPolicy, Executing, HasTurn
  <2>4. QED
    BY <1>1, <1>2, <2>1, <2>3, CallMoves
<1>3. CASE Settle(c, "failed") /\ UNCHANGED queue
  <2>1. call' \in [Calls -> CallRecords] /\ call'[c].pc = "settled" /\ OthersKept(c)
    BY <1>3, Settling DEF Sound, Results
  <2>2. CallSound(c)' /\ CurrentPolicy(c)'
    BY <2>1 DEF CallSound, CurrentPolicy, Executing, HasTurn
  <2>3. QED
    BY <1>1, <1>3, <2>1, <2>2, CallMoves, QueuesUntouched
<1>4. QED
  BY <1>2, <1>3 DEF Recovered


-----------------------------------------------------------------------------
(* Steps of a kernel. *)

LEMMA ShutDownSound == ASSUME Sound, NEW k \in Kernels, ShutDown(k) PROVE Sound'
<1>1. /\ kernel' \in [Kernels -> KernelRecords]
      /\ \A j \in Kernels : /\ kernel'[j].state = kernel[j].state
                            /\ kernel'[j].policy = kernel[j].policy
                            /\ j # k => kernel'[j] = kernel[j]
  BY DEF ShutDown, Sound, Typed, KernelRecords
<1>2. k \in retired /\ kernel[k].proc = "up" /\ UNCHANGED <<outside, slots, retired, queue, call, attempt>>
  BY DEF ShutDown
<1>3. RecordsStay
  BY <1>1, <1>2 DEF RecordsStay, RecordCut, outside
<1>4. \A d \in Calls : CallSound(d)' /\ CurrentPolicy(d)'
  BY <1>2, <1>3, AllCallsStaySound DEF outside
<1>5. Typed'
  BY <1>1, <1>2 DEF Sound, Typed, outside, slots
<1>6. \A j \in Kernels : KernelSound(j)'
  BY <1>1, <1>2 DEF Sound, KernelSound, Dropped, outside, slots
<1>7. \A d \in Calls : AttemptSound(d)'
  BY <1>1, <1>2 DEF Sound, AttemptSound, KernelSound, Kernels
<1>8. LiveSound'
  BY <1>1, <1>2 DEF Sound, Typed, LiveSound, outside, slots
<1>9. QED
  BY <1>4, <1>5, <1>6, <1>7, <1>8 DEF Sound

LEMMA ProcessStartsSound == ASSUME Sound, NEW k \in Kernels, ProcessStarts(k) PROVE Sound'
<1>1. /\ kernel' \in [Kernels -> KernelRecords]
      /\ \A j \in Kernels : /\ kernel'[j].state = kernel[j].state
                            /\ kernel'[j].policy = kernel[j].policy
                            /\ j # k => kernel'[j] = kernel[j]
  BY DEF ProcessStarts, Sound, Typed, KernelRecords
<1>2. kernel[k].proc = "starting" /\ UNCHANGED <<outside, slots, retired, queue, call, attempt>>
  BY DEF ProcessStarts
<1>3. RecordsStay
  BY <1>1, <1>2 DEF RecordsStay, RecordCut, outside
<1>4. \A d \in Calls : CallSound(d)' /\ CurrentPolicy(d)'
  BY <1>2, <1>3, AllCallsStaySound DEF outside
<1>5. Typed'
  BY <1>1, <1>2 DEF Sound, Typed, outside, slots
<1>6. \A j \in Kernels : KernelSound(j)'
  BY <1>1, <1>2 DEF Sound, KernelSound, Dropped, outside, slots
<1>7. \A d \in Calls : AttemptSound(d)'
  BY <1>1, <1>2 DEF Sound, AttemptSound, Kernels
<1>8. LiveSound'
  BY <1>1, <1>2 DEF Sound, Typed, LiveSound, outside, slots
<1>9. QED
  BY <1>4, <1>5, <1>6, <1>7, <1>8 DEF Sound

LEMMA JoinSound == ASSUME Sound, NEW k \in Kernels, Join(k) PROVE Sound'
<1>1. /\ kernel' \in [Kernels -> KernelRecords]
      /\ kernel'[k].state \in {"closed", "shutdown-failed"}
      /\ \A j \in Kernels : /\ kernel'[j].proc = kernel[j].proc
                            /\ kernel'[j].policy = kernel[j].policy
                            /\ j # k => kernel'[j] = kernel[j]
  BY DEF Join, Sound, Typed, KernelRecords, States
<1>2. /\ k \in retired /\ kernel[k].state = "closing"
      /\ UNCHANGED <<outside, live, recovery, retired, queue, call, attempt>>
      /\ retiring' \in {retiring, NoKernel}
  BY DEF Join
<1>3. RecordsStay
  BY <1>1, <1>2 DEF RecordsStay, RecordCut, outside
<1>4. \A d \in Calls : CallSound(d)' /\ CurrentPolicy(d)'
  BY <1>2, <1>3, AllCallsStaySound DEF outside
<1>5. Typed'
  BY <1>1, <1>2 DEF Sound, Typed, outside
<1>6. \A j \in Kernels : KernelSound(j)'
  BY <1>1, <1>2 DEF Sound, KernelSound, Dropped, OutOfUse, outside
<1>7. \A d \in Calls : AttemptSound(d)'
  BY <1>1, <1>2 DEF Sound, AttemptSound, Kernels
<1>8. LiveSound'
  BY <1>1, <1>2 DEF Sound, Typed, LiveSound, outside
<1>9. QED
  BY <1>4, <1>5, <1>6, <1>7, <1>8 DEF Sound

LEMMA CloseLateSound == ASSUME Sound, NEW k \in Kernels, CloseLate(k) PROVE Sound'
<1>1. /\ kernel' \in [Kernels -> KernelRecords]
      /\ kernel'[k].state = "closing"
      /\ \A j \in Kernels : /\ kernel'[j].proc = kernel[j].proc
                            /\ kernel'[j].policy = kernel[j].policy
                            /\ j # k => kernel'[j] = kernel[j]
  BY DEF CloseLate, Sound, Typed, KernelRecords, States
<1>2. /\ k \in Calls /\ attempt[k].pc = "failed" /\ kernel[k].state = "none"
      /\ retired' = retired \cup {k}
      /\ UNCHANGED <<outside, slots, queue, call, attempt>>
  BY DEF CloseLate, Late
<1>3. RecordsStay
  BY <1>1, <1>2 DEF RecordsStay, RecordCut, outside
<1>4. \A d \in Calls : CallSound(d)' /\ CurrentPolicy(d)'
  BY <1>2, <1>3, AllCallsStaySound DEF outside
<1>5. Typed'
  BY <1>1, <1>2 DEF Sound, Typed, outside, slots
<1>6. \A j \in Kernels : KernelSound(j)'
  BY <1>1, <1>2 DEF Sound, KernelSound, Dropped, OutOfUse, outside, slots
<1>7. \A d \in Calls : AttemptSound(d)'
  BY <1>1, <1>2 DEF Sound, AttemptSound, Kernels
<1>8. LiveSound'
  BY <1>1, <1>2 DEF Sound, Typed, LiveSound, outside, slots
<1>9. QED
  BY <1>4, <1>5, <1>6, <1>7, <1>8 DEF Sound

-----------------------------------------------------------------------------
(* Steps of a start. *)

LEMMA StartTimesOutSound == ASSUME Sound, NEW c \in Calls, StartTimesOut(c) PROVE Sound'
<1> DEFINE r == [attempt[c] EXCEPT !.cut = TRUE]
<1>1. r \in AttemptRecords /\ r.pc = attempt[c].pc
  BY DEF Sound, Typed, AttemptRecords
<1>2. attempt' = [attempt EXCEPT ![c] = r] /\ UNCHANGED <<outside, slots, kernel, retired, queue, call>>
  BY DEF StartTimesOut
<1> HIDE DEF r
<1>3. attempt' \in [Calls -> AttemptRecords] /\ \A d \in Calls : attempt'[d].pc = attempt[d].pc
  BY <1>1, <1>2 DEF Sound, Typed
<1>4. RecordsStay
  BY <1>2 DEF RecordsStay, RecordCut, outside
<1>5. \A d \in Calls : CallSound(d)' /\ CurrentPolicy(d)'
  BY <1>2, <1>3, <1>4, AllCallsStaySound DEF outside
<1>6. Typed'
  BY <1>2, <1>3 DEF Sound, Typed, outside, slots
<1>7. \A k \in Kernels : KernelSound(k)'
  BY <1>2, <1>3 DEF Sound, KernelSound, Dropped, outside, slots
<1>8. (\A d \in Calls : AttemptSound(d)') /\ LiveSound'
  BY <1>2, <1>3 DEF Sound, AttemptSound, LiveSound, outside, slots
<1>9. QED
  BY <1>5, <1>6, <1>7, <1>8 DEF Sound

LEMMA ReceiveSound == ASSUME Sound, NEW c \in Calls, Receive(c) PROVE Sound'
<1> DEFINE w == Wanted(c)
<1>1. /\ attempt' \in [Calls -> AttemptRecords]
      /\ attempt'[c].pc = IF w THEN "publishing" ELSE "closing"
      /\ \A d \in Calls : d # c => attempt'[d] = attempt[d]
  <2> DEFINE r == [attempt[c] EXCEPT !.pc = IF w THEN "publishing" ELSE "closing", !.cut = FALSE]
  <2>1. r \in AttemptRecords /\ r.pc = IF w THEN "publishing" ELSE "closing"
    BY DEF Sound, Typed, AttemptRecords
  <2>2. attempt' = [attempt EXCEPT ![c] = r]
    BY DEF Receive, Sound, Typed
  <2> HIDE DEF r
  <2>3. QED
    BY <2>1, <2>2 DEF Sound, Typed
<1>2. /\ kernel' \in [Kernels -> KernelRecords]
      /\ kernel'[c].state = (IF w THEN "active" ELSE "closing")
      /\ \A j \in Kernels : /\ kernel'[j].proc = kernel[j].proc
                            /\ kernel'[j].policy = kernel[j].policy
                            /\ j # c => kernel'[j] = kernel[j]
  BY DEF Receive, Sound, Typed, KernelRecords, States, Kernels
<1>3. /\ attempt[c].pc = "starting" /\ kernel[c].proc = "up" /\ c \in Kernels
      /\ w => backend = "registered"
      /\ retired' = IF w THEN retired ELSE retired \cup {c}
      /\ UNCHANGED <<outside, slots, queue, call>>
  BY DEF Receive, Wanted, StartCut, Kernels
<1> HIDE DEF w
<1>4. kernel[c].state = "none" /\ c \notin retired
  BY <1>3 DEF Sound, AttemptSound, KernelSound
<1>5. RecordsStay
  BY <1>2, <1>3, <1>4 DEF RecordsStay, RecordCut, outside
<1>6. \A d \in Calls : CallSound(d)' /\ CurrentPolicy(d)'
  BY <1>1, <1>3, <1>5, AllCallsStaySound DEF outside
<1>7. Typed'
  BY <1>1, <1>2, <1>3 DEF Sound, Typed, outside, slots
<1>8. \A k \in Kernels : KernelSound(k)'
  BY <1>1, <1>2, <1>3, <1>4 DEF Sound, KernelSound, Dropped, OutOfUse, outside, slots
<1>9. \A d \in Calls : AttemptSound(d)'
  BY <1>1, <1>2 DEF Sound, AttemptSound, Kernels
<1>10. LiveSound'
  BY <1>1, <1>2, <1>3, <1>4 DEF Sound, Typed, LiveSound, outside, slots
<1>11. QED
  BY <1>6, <1>7, <1>8, <1>9, <1>10 DEF Sound
(* A start that fails: its kernel has no record, or one that is out of use.*)
LEMMA FailingSound ==
    ASSUME Sound, NEW c \in Calls, FailStart(c),
           attempt[c].pc \in {"starting", "closing", "rollback"},
           UNCHANGED <<outside, live, retiring, kernel, retired>>
    PROVE  Sound'
<1>1. /\ attempt' \in [Calls -> AttemptRecords] /\ attempt'[c].pc = "failed"
      /\ \A d \in Calls : d # c => attempt'[d] = attempt[d]
      /\ recovery' \in {recovery, NoKernel}
      /\ call' \in [Calls -> CallRecords] /\ OthersKept(c) /\ QueuesKept(c)
      /\ IF call[c].pc = "replacing" THEN call'[c].pc = "settled" ELSE call' = call /\ queue' = queue
  BY Failing DEF Sound
<1>2. RecordsStay
  BY DEF RecordsStay, RecordCut, outside
<1>3. \A d \in Calls : CallSound(d)' /\ CurrentPolicy(d)'
  <2>1. CASE call[c].pc = "replacing"
    <3>1. CallSound(c)' /\ CurrentPolicy(c)'
      BY <1>1, <2>1 DEF CallSound, CurrentPolicy, Executing, HasTurn
    <3>2. QED
      BY <1>1, <1>2, <3>1, CallsStaySound DEF outside
  <2>2. CASE call[c].pc # "replacing"
    BY <1>1, <1>2, <2>2, AllCallsStaySound DEF outside
  <2>3. QED
    BY <2>1, <2>2
<1>4. Typed'
  BY <1>1 DEF Sound, Typed, QueuesKept, outside
<1>5. \A k \in Kernels : KernelSound(k)'
  BY <1>1 DEF Sound, KernelSound, Dropped, outside
<1>6. \A d \in Calls : AttemptSound(d)'
  BY <1>1 DEF Sound, AttemptSound
<1>7. LiveSound'
  BY <1>1 DEF Sound, LiveSound, outside
<1>8. QED
  BY <1>3, <1>4, <1>5, <1>6, <1>7 DEF Sound

LEMMA AbandonStartSound == ASSUME Sound, NEW c \in Calls, AbandonStart(c) \/ EndClose(c) PROVE Sound'
BY FailingSound DEF AbandonStart, EndClose

(* A start that begins. *)
LEMMA BeginningSound ==
    ASSUME Sound, NEW c \in Calls, NEW prior \in Kernels \cup {NoKernel}, NEW next \in CallRecords,
           Begin(c, prior, next), attempt[c].pc = "none",
           UNCHANGED <<outside, live, retiring, retired, queue>>,
           recovery' \in Calls \cup {NoKernel},
           next.pc = "replacing" \/ (next.pc = "sharing" /\ Shared(next.kind) /\ next.on = c)
    PROVE  Sound'
<1>1. /\ call' \in [Calls -> CallRecords] /\ call'[c] = next /\ OthersKept(c)
      /\ attempt' \in [Calls -> AttemptRecords] /\ attempt'[c].pc = "starting"
      /\ \A d \in Calls : d # c => attempt'[d] = attempt[d]
      /\ kernel' \in [Kernels -> KernelRecords]
      /\ kernel'[c].state = kernel[c].state
      /\ \A k \in Kernels : k # c => kernel'[k] = kernel[k]
  BY Beginning DEF Sound
<1>2. kernel[c].state = "none" /\ c \in Kernels /\ c # First
  BY LifecycleAssumption DEF Sound, AttemptSound, Kernels
<1>3. RecordsStay
  BY <1>1, <1>2 DEF RecordsStay, RecordCut, outside
<1>4. CallSound(c)' /\ CurrentPolicy(c)'
  BY <1>1 DEF CallSound, CurrentPolicy, Executing, HasTurn
<1>5. \A d \in Calls : CallSound(d)' /\ CurrentPolicy(d)'
  BY <1>1, <1>3, <1>4, CallsStaySound, QueuesUntouched DEF outside
<1>6. Typed'
  BY <1>1 DEF Sound, Typed, outside
<1>7. \A k \in Kernels : KernelSound(k)'
  BY <1>1, <1>2 DEF Sound, KernelSound, Dropped, OutOfUse, outside
<1>8. \A d \in Calls : AttemptSound(d)'
  BY <1>1, <1>2, LifecycleAssumption DEF Sound, AttemptSound, Kernels
<1>9. LiveSound'
  BY <1>1, <1>2 DEF Sound, Typed, LiveSound, outside
<1>10. QED
  BY <1>5, <1>6, <1>7, <1>8, <1>9 DEF Sound

LEMMA StartOrShareSound ==
    ASSUME Sound, NEW c \in Calls, NEW next \in CallRecords, StartOrShare(c, next),
           attempt[c].pc = "none",
           UNCHANGED <<outside, live, retiring, retired, queue>>
    PROVE  Sound'
<1>1. CASE Shared(next.kind) /\ recovery # NoKernel
  <2> DEFINE r == [next EXCEPT !.pc = "sharing", !.on = recovery]
  <2>1. r \in CallRecords /\ r.pc = "sharing" /\ r.kind = next.kind /\ r.on \in Calls
    BY <1>1 DEF Sound, Typed, CallRecords, CallSteps, Kernels
  <2>2. call' = [call EXCEPT ![c] = r] /\ UNCHANGED <<kernel, attempt, recovery>>
    BY <1>1 DEF StartOrShare
  <2> HIDE DEF r
  <2>3. call' \in [Calls -> CallRecords] /\ call'[c] = r /\ OthersKept(c)
    BY <2>1, <2>2, CallBecomes DEF Sound
  <2>4. CallSound(c)' /\ CurrentPolicy(c)'
    BY <1>1, <2>1, <2>3 DEF CallSound, CurrentPolicy, Executing, HasTurn
  <2>5. QED
    BY <2>2, <2>3, <2>4, CallMoves, QueuesUntouched DEF slots
<1>2. CASE ~(Shared(next.kind) /\ recovery # NoKernel) /\ backend # "registered"
  <2>1. Settle(c, "no-backend") /\ UNCHANGED <<kernel, attempt, recovery>>
    BY <1>2 DEF StartOrShare
  <2>2. call' \in [Calls -> CallRecords] /\ call'[c].pc = "settled" /\ OthersKept(c)
    BY <2>1, Settling DEF Sound, Results
  <2>3. CallSound(c)' /\ CurrentPolicy(c)'
    BY <2>2 DEF CallSound, CurrentPolicy, Executing, HasTurn
  <2>4. QED
    BY <2>1, <2>2, <2>3, CallMoves, QueuesUntouched DEF slots
<1>3. CASE ~(Shared(next.kind) /\ recovery # NoKernel) /\ backend = "registered"
  <2> DEFINE r == [next EXCEPT !.pc = IF Shared(next.kind) THEN "sharing" ELSE "replacing",
                               !.on = IF Shared(next.kind) THEN c ELSE NoKernel]
  <2>1. /\ r \in CallRecords /\ r.kind = next.kind
        /\ r.pc = "replacing" \/ (r.pc = "sharing" /\ Shared(next.kind) /\ r.on = c)
    BY DEF CallRecords, CallSteps, Kernels
  <2>2. /\ Begin(c, NoKernel, r)
        /\ recovery' = IF Shared(next.kind) THEN c ELSE recovery
    BY <1>3 DEF StartOrShare
  <2> HIDE DEF r
  <2>3. recovery' \in Calls \cup {NoKernel}
    BY <2>2 DEF Sound, Typed
  <2>4. QED
    BY <2>1, <2>2, <2>3, BeginningSound
<1>4. QED
  BY <1>1, <1>2, <1>3

-----------------------------------------------------------------------------
(* Calls obtain a kernel. *)

LEMMA AskSound ==
    ASSUME Sound, NEW c \in Calls, NEW kind \in Kinds, Ask(c, kind)
    PROVE  Sound'
<1> DEFINE next == [Idle(policy) EXCEPT !.kind = kind]
<1>1. next \in CallRecords /\ next.kind = kind
  BY LifecycleAssumption DEF CallRecords, CallSteps, Results, Idle, Sound, Typed
<1>2. attempt[c].pc = "none" /\ UNCHANGED <<outside, live, retiring, retired, generation>>
  BY DEF Ask, Sound, CallSound
<1>3. \/ /\ call' = [call EXCEPT ![c] = [next EXCEPT !.pc = "settled", !.res = "refused"]]
         /\ UNCHANGED <<queue, kernel, attempt, recovery>>
      \/ live # NoKernel /\ Enqueue(c, live, next) /\ UNCHANGED <<kernel, attempt, recovery>>
      \/ /\ retiring # NoKernel
         /\ call' = [call EXCEPT ![c] = [next EXCEPT !.pc = "joining", !.on = retiring]]
         /\ UNCHANGED <<queue, kernel, attempt, recovery>>
      \/ StartOrShare(c, next) /\ UNCHANGED queue
  BY Zenon DEF Ask, Waits
<1> HIDE DEF next
<1>4. ASSUME call' = [call EXCEPT ![c] = [next EXCEPT !.pc = "settled", !.res = "refused"]],
             UNCHANGED <<queue, kernel, attempt, recovery>>
      PROVE  Sound'
  <2> DEFINE r == [next EXCEPT !.pc = "settled", !.res = "refused"]
  <2>1. r \in CallRecords /\ r.pc = "settled"
    BY <1>1 DEF CallRecords, CallSteps, Results
  <2>2. call' = [call EXCEPT ![c] = r]
    BY <1>4
  <2> HIDE DEF r
  <2>3. call' \in [Calls -> CallRecords] /\ call'[c] = r /\ OthersKept(c)
    BY <2>1, <2>2, CallBecomes DEF Sound
  <2>4. CallSound(c)' /\ CurrentPolicy(c)'
    BY <2>1, <2>3 DEF CallSound, CurrentPolicy, Executing, HasTurn
  <2>5. QED
    BY <1>2, <1>4, <2>3, <2>4, CallMoves, QueuesUntouched DEF slots
<1>5. ASSUME live # NoKernel, Enqueue(c, live, next), UNCHANGED <<kernel, attempt, recovery>>
      PROVE  Sound'
  <2>1. live \in Kernels /\ kernel[live].state # "none"
    BY <1>5 DEF Sound, Typed, LiveSound
  <2>2. /\ call' \in [Calls -> CallRecords] /\ OthersKept(c)
        /\ call'[c].pc = "queued" /\ call'[c].on = live
        /\ QueuesKept(c) /\ In(c, queue'[live])
    BY <1>1, <1>5, <2>1, Enqueuing DEF Sound, QueuesKept
  <2>3. CallSound(c)' /\ CurrentPolicy(c)'
    BY <1>2, <1>5, <2>1, <2>2 DEF CallSound, CurrentPolicy, Executing, HasTurn
  <2>4. QED
    BY <1>2, <1>5, <2>2, <2>3, CallMoves DEF slots
<1>6. ASSUME retiring # NoKernel,
             call' = [call EXCEPT ![c] = [next EXCEPT !.pc = "joining", !.on = retiring]],
             UNCHANGED <<queue, kernel, attempt, recovery>>
      PROVE  Sound'
  <2> DEFINE r == [next EXCEPT !.pc = "joining", !.on = retiring]
  <2>1. r \in CallRecords /\ r.pc = "joining" /\ r.on = retiring
    BY <1>1 DEF CallRecords, CallSteps, Sound, Typed
  <2>2. call' = [call EXCEPT ![c] = r]
    BY <1>6
  <2> HIDE DEF r
  <2>3. call' \in [Calls -> CallRecords] /\ call'[c] = r /\ OthersKept(c)
    BY <2>1, <2>2, CallBecomes DEF Sound
  <2>4. CallSound(c)' /\ CurrentPolicy(c)'
    BY <1>2, <1>6, <2>1, <2>3 DEF CallSound, CurrentPolicy, Executing, HasTurn
  <2>5. QED
    BY <1>2, <1>6, <2>3, <2>4, CallMoves, QueuesUntouched DEF slots
<1>7. ASSUME StartOrShare(c, next), UNCHANGED queue
      PROVE  Sound'
  BY <1>1, <1>2, <1>7, StartOrShareSound
<1>8. QED
  BY <1>3, <1>4, <1>5, <1>6, <1>7

LEMMA JoinedSound == ASSUME Sound, NEW c \in Calls, Joined(c) PROVE Sound'
<1>1. /\ call[c] \in CallRecords /\ attempt[c].pc = "none"
      /\ UNCHANGED <<outside, live, retiring, retired, queue, generation>>
  BY DEF Joined, Sound, Typed, CallSound
<1>2. CASE StartOrShare(c, call[c])
  BY <1>1, <1>2, StartOrShareSound
<1>3. CASE Settle(c, "unjoined") /\ UNCHANGED <<kernel, attempt, recovery>>
  <2>1. call' \in [Calls -> CallRecords] /\ call'[c].pc = "settled" /\ OthersKept(c)
    BY <1>3, Settling DEF Sound, Results
  <2>2. CallSound(c)' /\ CurrentPolicy(c)'
    BY <2>1 DEF CallSound, CurrentPolicy, Executing, HasTurn
  <2>3. QED
    BY <1>1, <1>3, <2>1, <2>2, CallMoves, QueuesUntouched DEF slots
<1>4. QED
  BY <1>2, <1>3 DEF Joined

LEMMA StartTaskSound == ASSUME Sound, NEW c \in Calls, StartTask(c) PROVE Sound'
<1> DEFINE k == call[c].on
<1>1. /\ call[c] \in CallRecords /\ CallSound(c) /\ call[c].pc = "queued" /\ k \in Kernels
      /\ Head(queue[k]) = c /\ kernel[k].state = "active" /\ kernel[k].policy = policy
      /\ UNCHANGED <<outside, slots, retired, queue>>
  BY DEF Sound, Typed, StartTask, CallSound, AtHead, Usable, CallRecords
<1>2. InFront(c, queue[k])
  BY <1>1 DEF Sound, Typed, CallSound, In, InFront
<1>3. CASE Shared(call[c].kind)
  <2> DEFINE r == [call[c] EXCEPT !.pc = IF call[c].kind = "run" THEN "running" ELSE "inspecting"]
  <2>1. r \in CallRecords /\ r.pc \in {"running", "inspecting"} /\ r.kind = call[c].kind /\ r.on = k
    BY <1>1 DEF CallRecords, CallSteps
  <2>2. call' = [call EXCEPT ![c] = r] /\ UNCHANGED <<kernel, attempt>>
    BY <1>3 DEF StartTask
  <2> HIDE DEF r
  <2>3. call' \in [Calls -> CallRecords] /\ call'[c] = r /\ OthersKept(c)
    BY <2>1, <2>2, CallBecomes DEF Sound
  <2>4. CallSound(c)' /\ CurrentPolicy(c)'
    BY <1>1, <1>2, <1>3, <2>1, <2>2, <2>3 DEF CallSound, CurrentPolicy, Executing, HasTurn, outside
  <2>5. QED
    BY <1>1, <2>2, <2>3, <2>4, CallMoves, QueuesUntouched
<1>4. CASE ~Shared(call[c].kind)
  <2> DEFINE r == [call[c] EXCEPT !.pc = "replacing"]
  <2>1. r \in CallRecords /\ r.pc = "replacing"
    BY <1>1 DEF CallRecords, CallSteps
  <2>2. Begin(c, k, r) /\ attempt[c].pc = "none"
    BY <1>1, <1>4 DEF StartTask, CallSound
  <2> HIDE DEF r
  <2>3. QED
    BY <1>1, <2>1, <2>2, BeginningSound DEF slots, Sound, Typed
<1>5. QED
  BY <1>3, <1>4
-----------------------------------------------------------------------------
(* Steps that take kernels out of use. *)

LEMMA KernelsStaySound ==
    ASSUME Sound,
           kernel' \in [Kernels -> KernelRecords], attempt' \in [Calls -> AttemptRecords],
           \A k \in Kernels :
              /\ kernel'[k].proc = kernel[k].proc /\ kernel'[k].policy = kernel[k].policy
              /\ kernel'[k].state # kernel[k].state =>
                    kernel[k].state = "active" /\ kernel'[k].state = "closing"
              /\ kernel'[k].state = "active" =>
                    k \notin retired' /\ backend' = "registered" /\ (k = live => k = live')
              /\ kernel'[k].state \in OutOfUse => Dropped(k)'
              /\ k \in retired' /\ k \notin retired => kernel[k].state # "none"
           ,
           retired \subseteq retired', live' \in {live, NoKernel},
           \A d \in Calls : attempt'[d].pc # attempt[d].pc =>
              /\ attempt[d].pc = "publishing" /\ attempt'[d].pc = "rollback"
              /\ kernel'[d].state # "active"
           ,
           live' # NoKernel =>
              kernel'[live].state = "active" /\ kernel[live].policy = policy' /\ session' = "open",
           session # "open" => session' # "open",
           backend # "registered" => backend' # "registered",
           doomed' \in {doomed, live}
    PROVE  /\ RecordsStay
           /\ \A d \in Calls : AttemptSound(d)' /\ (attempt[d].pc = "none" => attempt'[d].pc = "none")
           /\ \A k \in Kernels : KernelSound(k)'
           /\ LiveSound'
<1>1. RecordsStay
  BY DEF RecordsStay, RecordCut
<1>2. ASSUME NEW d \in Calls
      PROVE  AttemptSound(d)' /\ (attempt[d].pc = "none" => attempt'[d].pc = "none")
  <2>1. AttemptSound(d) /\ d \in Kernels
    BY DEF Sound, Kernels
  <2>2. QED
    BY <2>1 DEF AttemptSound
<1>3. ASSUME NEW k \in Kernels
      PROVE  KernelSound(k)'
  <2>1. KernelSound(k) /\ (k = doomed' => kernel[k].state # "none")
    BY LifecycleAssumption DEF Sound, KernelSound, LiveSound
  <2>2. kernel'[k].state = "none" => kernel[k].state = "none"
    OBVIOUS
  <2>3. kernel'[k].state = "active" =>
           /\ kernel[k].state = "active"
           /\ attempt'[k].pc # attempt[k].pc => k \notin Calls
    BY DEF Kernels
  <2>4. QED
    BY <2>1, <2>2, <2>3 DEF KernelSound
<1>4. LiveSound'
  BY DEF Sound, Typed, LiveSound
<1>5. QED
  BY <1>1, <1>2, <1>3, <1>4

LEMMA RetiringOne ==
    ASSUME Sound, NEW k \in Kernels, Retire(k) \/ NoRetirement, kernel[k].state # "none",
           UNCHANGED <<outside, attempt>>
    PROVE  /\ RecordsStay
           /\ \A d \in Calls : AttemptSound(d)' /\ (attempt[d].pc = "none" => attempt'[d].pc = "none")
           /\ \A j \in Kernels : KernelSound(j)'
           /\ LiveSound'
           /\ kernel' \in [Kernels -> KernelRecords] /\ retired' \subseteq Kernels
           /\ live' \in Kernels \cup {NoKernel} /\ retiring' \in Kernels \cup {NoKernel}
<1>1. CASE Retire(k)
  <2>1. MarkClosing({k}) /\ retired' = retired \cup {k} /\ Register(k)
    BY <1>1 DEF Retire, BeginRetirement
  <2>2. /\ kernel' \in [Kernels -> KernelRecords]
        /\ \A j \in Kernels :
              /\ kernel'[j].proc = kernel[j].proc /\ kernel'[j].policy = kernel[j].policy
              /\ kernel'[j].state = IF j = k /\ kernel[j].state = "active"
                                    THEN "closing" ELSE kernel[j].state
        /\ live' = (IF live = k THEN NoKernel ELSE live)
        /\ live' \in Kernels \cup {NoKernel}
    BY <2>1, Closing DEF Sound
  <2>3. retired' \subseteq Kernels /\ retiring' \in Kernels \cup {NoKernel}
    BY <2>1, Registering DEF Sound, Typed
  <2>4. \A j \in Kernels :
           /\ kernel'[j].state # kernel[j].state =>
                 kernel[j].state = "active" /\ kernel'[j].state = "closing"
           /\ kernel'[j].state = "active" =>
                 j \notin retired' /\ backend' = "registered" /\ (j = live => j = live')
           /\ kernel'[j].state \in OutOfUse => Dropped(j)'
           /\ j \in retired' /\ j \notin retired => kernel[j].state # "none"
    BY <2>1, <2>2 DEF Sound, KernelSound, Dropped, OutOfUse, outside
  <2>5. live' # NoKernel =>
          kernel'[live].state = "active" /\ kernel[live].policy = policy' /\ session' = "open"
    BY <2>2 DEF Sound, LiveSound, outside, Typed
  <2>6. attempt' \in [Calls -> AttemptRecords] /\ live' \in {live, NoKernel} /\ retired \subseteq retired'
    BY <2>1, <2>2 DEF Sound, Typed
  <2>7. QED
    BY <2>2, <2>3, <2>4, <2>5, <2>6, KernelsStaySound DEF outside
<1>2. CASE NoRetirement
  <2>1. RecordsStay
    BY <1>2 DEF NoRetirement, RecordsStay, RecordCut, outside
  <2>2. \A d \in Calls : AttemptSound(d)'
    BY <1>2 DEF NoRetirement, Sound, AttemptSound
  <2>3. (\A j \in Kernels : KernelSound(j)') /\ LiveSound'
    BY <1>2 DEF NoRetirement, Sound, KernelSound, LiveSound, Dropped, outside
  <2>4. QED
    BY <1>2, <2>1, <2>2, <2>3 DEF NoRetirement, Sound, Typed
<1>3. QED
  BY <1>1, <1>2

(* A task that leaves its queue, with its kernel retired or not. *)
LEMMA EndingSound ==
    ASSUME Sound, NEW c \in Calls, NEW result \in Results,
           Leave(call[c].on, c), Settle(c, result), call[c].on \in Kernels,
           \/ Retire(call[c].on) /\ kernel[call[c].on].state # "none"
           \/ NoRetirement
           ,
           UNCHANGED <<outside, recovery, generation, attempt>>
    PROVE  Sound'
<1>1. /\ call' \in [Calls -> CallRecords] /\ call'[c].pc = "settled" /\ OthersKept(c)
      /\ QueuesKept(c)
  BY Settling, Leaving DEF Sound
<1>2. CASE Retire(call[c].on) /\ kernel[call[c].on].state # "none"
  <2>1. /\ RecordsStay
        /\ \A d \in Calls : AttemptSound(d)' /\ (attempt[d].pc = "none" => attempt'[d].pc = "none")
        /\ \A j \in Kernels : KernelSound(j)'
        /\ LiveSound'
        /\ kernel' \in [Kernels -> KernelRecords] /\ retired' \subseteq Kernels
        /\ live' \in Kernels \cup {NoKernel} /\ retiring' \in Kernels \cup {NoKernel}
    BY <1>2, RetiringOne
  <2>2. CallSound(c)' /\ CurrentPolicy(c)'
    BY <1>1 DEF CallSound, CurrentPolicy, Executing, HasTurn
  <2>3. \A d \in Calls : CallSound(d)' /\ CurrentPolicy(d)'
    BY <1>1, <2>1, <2>2, CallsStaySound DEF outside
  <2>4. Typed'
    BY <1>1, <2>1 DEF Sound, Typed, QueuesKept, outside
  <2>5. QED
    BY <2>1, <2>3, <2>4 DEF Sound
<1>3. CASE NoRetirement
  <2>1. CallSound(c)' /\ CurrentPolicy(c)'
    BY <1>1 DEF CallSound, CurrentPolicy, Executing, HasTurn
  <2>2. QED
    BY <1>1, <1>3, <2>1, CallMoves DEF NoRetirement, slots
<1>4. QED
  BY <1>2, <1>3

LEMMA EndTaskSound ==
    ASSUME Sound, NEW c \in Calls, NEW spoils \in BOOLEAN, NEW result \in Results,
           call[c].on \in Kernels, kernel[call[c].on].state # "none",
           EndTask(c, spoils, result)
    PROVE  Sound'
<1>1. Retire(call[c].on) \/ NoRetirement
  BY DEF EndTask
<1>2. QED
  BY <1>1, EndingSound DEF EndTask

LEMMA RejectTaskSound == ASSUME Sound, NEW c \in Calls, RejectTask(c) PROVE Sound'
<1>1. call[c].on \in Kernels /\ kernel[call[c].on].state # "none"
  BY DEF Sound, Typed, CallSound, CallRecords, RejectTask
<1>2. QED
  BY <1>1, EndingSound DEF RejectTask, Results

LEMMA CommitRunSound == ASSUME Sound, NEW c \in Calls, CommitRun(c) PROVE Sound'
<1>1. /\ call[c].on \in Kernels /\ kernel[call[c].on].state # "none"
      /\ call[c].bad \in BOOLEAN
  BY DEF Sound, Typed, CallSound, CallRecords, CommitRun, HasTurn
<1>2. \E spoils \in BOOLEAN, result \in Results : EndTask(c, spoils, result)
  BY <1>1, Zenon DEF CommitRun, Results
<1>3. QED
  BY <1>1, <1>2, EndTaskSound

LEMMA EndInspectionSound == ASSUME Sound, NEW c \in Calls, EndInspection(c) PROVE Sound'
<1>1. call[c].on \in Kernels /\ kernel[call[c].on].state # "none"
  BY DEF Sound, Typed, CallSound, CallRecords, EndInspection, HasTurn
<1>2. QED
  BY <1>1, EndTaskSound DEF EndInspection, Results

(* The end of a replacement, which the publication of its kernel brings. *)
LEMMA ReplacementEnds ==
    ASSUME Sound, NEW c \in Calls, NEW result \in Results, EndReplacement(c, result)
    PROVE  /\ call' \in [Calls -> CallRecords] /\ OthersKept(c) /\ QueuesKept(c)
           /\ IF call[c].pc = "replacing"
              THEN call'[c].pc = "settled" /\ call'[c].kind = call[c].kind
              ELSE call' = call /\ queue' = queue
<1>1. CASE call[c].pc = "replacing"
  <2>1. Settle(c, result) /\ (UNCHANGED queue \/ (Leave(attempt[c].prior, c) /\ attempt[c].prior \in Kernels))
    BY <1>1 DEF EndReplacement, Sound, Typed, AttemptRecords
  <2>2. QueuesKept(c)
    BY <2>1, Leaving, QueuesUntouched DEF Sound
  <2>3. QED
    BY <1>1, <2>1, <2>2, Settling DEF Sound
<1>2. CASE call[c].pc # "replacing"
  BY <1>2 DEF EndReplacement, OthersKept, QueuesKept, Sound, Typed
<1>3. QED
  BY <1>1, <1>2

(* What a publication does to the kernels: the started one is live, the    *)
(* one that was live before is retired.                                    *)
LEMMA Publishing ==
    ASSUME Sound, NEW c \in Calls, Publish(c), Usable(c), InPlace(c), session = "open"
    PROVE  /\ attempt[c].pc = "publishing" /\ live # c /\ c \notin retired
           /\ live' = c /\ generation' = generation + 1
           /\ attempt' \in [Calls -> AttemptRecords] /\ attempt'[c].pc = "done"
           /\ \A d \in Calls : d # c => attempt'[d] = attempt[d]
           /\ kernel' \in [Kernels -> KernelRecords]
           /\ \A k \in Kernels :
                 /\ kernel'[k].proc = kernel[k].proc /\ kernel'[k].policy = kernel[k].policy
                 /\ kernel'[k].state = IF k = live THEN "closing" ELSE kernel[k].state
           /\ retired' = retired \cup ({live} \ {NoKernel})
           /\ retiring' = IF live # NoKernel /\ retiring = NoKernel THEN live ELSE retiring
           /\ FreeRecovery(c) /\ EndReplacement(c, "ok")
           /\ UNCHANGED outside
<1>1. /\ attempt[c].pc = "publishing" /\ live = attempt[c].prior
      /\ attempt' = [attempt EXCEPT ![c].pc = "done"]
      /\ generation' = generation + 1 /\ live' = c
      /\ FreeRecovery(c) /\ EndReplacement(c, "ok") /\ UNCHANGED outside
      /\ IF live = NoKernel
         THEN UNCHANGED <<kernel, retired, retiring>>
         ELSE /\ kernel' = [kernel EXCEPT ![live].state = "closing"]
              /\ retired' = retired \cup {live} /\ Register(live)
  BY DEF Publish, InPlace, PriorRetired
<1>2. /\ live \in Kernels \cup {NoKernel} /\ NoKernel \notin Kernels /\ c \in Kernels
      /\ live \in Calls => attempt[live].pc = "done"
      /\ live # NoKernel => kernel[live].state = "active"
      /\ kernel[c].state = "active" /\ c \notin retired
  BY LifecycleAssumption DEF Sound, Typed, LiveSound, Kernels, Usable, KernelSound
<1>3. live # c
  BY <1>1, <1>2
<1>4. attempt' \in [Calls -> AttemptRecords] /\ attempt'[c].pc = "done"
      /\ \A d \in Calls : d # c => attempt'[d] = attempt[d]
  BY <1>1 DEF Sound, Typed, AttemptRecords
<1>5. CASE live = NoKernel
  BY <1>1, <1>2, <1>3, <1>4, <1>5 DEF Sound, Typed
<1>6. CASE live # NoKernel
  <2>1. /\ kernel' \in [Kernels -> KernelRecords]
        /\ \A k \in Kernels :
              /\ kernel'[k].proc = kernel[k].proc /\ kernel'[k].policy = kernel[k].policy
              /\ kernel'[k].state = IF k = live THEN "closing" ELSE kernel[k].state
    <3> DEFINE r == [kernel[live] EXCEPT !.state = "closing"]
    <3>1. live \in Kernels /\ kernel[live] \in KernelRecords /\ kernel \in [Kernels -> KernelRecords]
      BY <1>2, <1>6 DEF Sound, Typed
    <3>2. /\ r \in KernelRecords /\ r.state = "closing"
          /\ r.proc = kernel[live].proc /\ r.policy = kernel[live].policy
      BY <3>1 DEF KernelRecords, States
    <3>3. kernel' = [kernel EXCEPT ![live] = r]
      BY <1>1, <1>6
    <3> HIDE DEF r
    <3>4. QED
      BY <3>1, <3>2, <3>3
  <2>2. /\ retired' = retired \cup ({live} \ {NoKernel})
        /\ retiring' = IF live # NoKernel /\ retiring = NoKernel THEN live ELSE retiring
    BY <1>1, <1>2, <1>6 DEF Register
  <2>3. QED
    BY <1>1, <1>2, <1>3, <1>4, <2>1, <2>2
<1>7. QED
  BY <1>5, <1>6

LEMMA PublishedSound ==
    ASSUME Sound, NEW c \in Calls, Publish(c), Usable(c), InPlace(c), session = "open"
    PROVE  Sound'
<1>1. /\ attempt[c].pc = "publishing" /\ live # c /\ c \notin retired /\ live' = c
      /\ attempt' \in [Calls -> AttemptRecords] /\ attempt'[c].pc = "done"
      /\ \A d \in Calls : d # c => attempt'[d] = attempt[d]
      /\ kernel' \in [Kernels -> KernelRecords]
      /\ \A k \in Kernels :
            /\ kernel'[k].proc = kernel[k].proc /\ kernel'[k].policy = kernel[k].policy
            /\ kernel'[k].state = IF k = live THEN "closing" ELSE kernel[k].state
      /\ retired' = retired \cup ({live} \ {NoKernel})
      /\ retiring' = (IF live # NoKernel /\ retiring = NoKernel THEN live ELSE retiring)
      /\ UNCHANGED outside
  BY Publishing
<1>2. /\ call' \in [Calls -> CallRecords] /\ OthersKept(c) /\ QueuesKept(c)
      /\ IF call[c].pc = "replacing" THEN call'[c].pc = "settled" ELSE call' = call /\ queue' = queue
      /\ FreeRecovery(c)
  BY Publishing, ReplacementEnds DEF Results
<1>3. /\ live \in Kernels \cup {NoKernel} /\ NoKernel \notin Kernels /\ c \in Kernels
      /\ live \in Calls => attempt[live].pc = "done"
      /\ live # NoKernel => kernel[live].state = "active"
      /\ kernel[c].state = "active" /\ kernel[c].policy = policy
      /\ backend = "registered" /\ kernel[c].proc = "up"
  BY LifecycleAssumption DEF Sound, Typed, LiveSound, Kernels, Usable, KernelSound
<1>4. RecordsStay
  BY <1>1, <1>3 DEF RecordsStay, RecordCut, outside
<1>5. \A d \in Calls : CallSound(d)' /\ CurrentPolicy(d)'
  <2>1. CASE call[c].pc = "replacing"
    <3>1. CallSound(c)' /\ CurrentPolicy(c)'
      BY <1>2, <2>1 DEF CallSound, CurrentPolicy, Executing, HasTurn
    <3>2. QED
      BY <1>1, <1>2, <1>4, <3>1, CallsStaySound DEF outside
  <2>2. CASE call[c].pc # "replacing"
    BY <1>1, <1>2, <1>4, <2>2, AllCallsStaySound DEF outside
  <2>3. QED
    BY <2>1, <2>2
<1>6. Typed'
  <2>1. retired' \subseteq Kernels /\ retiring' \in Kernels \cup {NoKernel} /\ recovery' \in Calls \cup {NoKernel}
    BY <1>1, <1>2, <1>3 DEF Sound, Typed, FreeRecovery
  <2>2. QED
    BY <1>1, <1>2, <1>3, <2>1 DEF Sound, Typed, QueuesKept, outside
<1>7. ASSUME NEW k \in Kernels
      PROVE  KernelSound(k)'
  <2>1. KernelSound(k)
    BY DEF Sound
  <2>2. CASE k = live
    BY <1>1, <1>3, <2>1, <2>2 DEF KernelSound, Dropped, OutOfUse
  <2>3. CASE k # live
    BY <1>1, <1>3, <2>1, <2>3 DEF KernelSound, Dropped, OutOfUse, outside
  <2>4. QED
    BY <2>2, <2>3
<1>8. ASSUME NEW d \in Calls
      PROVE  AttemptSound(d)'
  <2>1. AttemptSound(d) /\ d \in Kernels
    BY DEF Sound, Kernels
  <2>2. CASE d = c
    BY <1>1, <1>3, <2>2 DEF AttemptSound
  <2>3. CASE d # c
    BY <1>1, <1>3, <2>1, <2>3 DEF AttemptSound
  <2>4. QED
    BY <2>2, <2>3
<1>9. LiveSound'
  BY <1>1, <1>3 DEF LiveSound, outside
<1>10. QED
  BY <1>5, <1>6, <1>7, <1>8, <1>9 DEF Sound

(* Steps that take kernels out of use without ending a call. *)
LEMMA TakingOutSound ==
    ASSUME Sound, NEW ks \in SUBSET (Kernels \cup {NoKernel}), MarkClosing(ks),
           UNCHANGED <<queue, call>>, policy' \in Policies,
           policy' = policy \/ \A d \in Calls : CurrentPolicy(d)',
           attempt' \in [Calls -> AttemptRecords],
           \A d \in Calls : attempt'[d].pc # attempt[d].pc =>
              attempt[d].pc = "publishing" /\ attempt'[d].pc = "rollback" /\ d \in ks
           ,
           retired \subseteq retired', retired' \subseteq Kernels, retired' \subseteq retired \cup ks,
           \A k \in Kernels :
              /\ k \in retired' /\ k \notin retired => kernel[k].state # "none"
              /\ kernel[k].state = "active" /\ k \notin ks => backend' = "registered"
              /\ kernel'[k].state \in OutOfUse => Dropped(k)'
           ,
           live' # NoKernel => kernel[live].policy = policy' /\ session' = "open",
           session # "open" => session' # "open",
           backend # "registered" => backend' # "registered",
           doomed' \in {doomed, live},
           retiring' \in Kernels \cup {NoKernel}, recovery' \in Calls \cup {NoKernel}
    PROVE  Sound'
<1>1. /\ kernel' \in [Kernels -> KernelRecords]
      /\ \A k \in Kernels :
            /\ kernel'[k].proc = kernel[k].proc /\ kernel'[k].policy = kernel[k].policy
            /\ kernel'[k].state = IF k \in ks /\ kernel[k].state = "active"
                                  THEN "closing" ELSE kernel[k].state
      /\ live' = IF live \in ks THEN NoKernel ELSE live
      /\ live' \in Kernels \cup {NoKernel}
  BY Closing DEF Sound
<1>2. \A k \in Kernels :
         /\ kernel'[k].state # kernel[k].state =>
               kernel[k].state = "active" /\ kernel'[k].state = "closing"
         /\ kernel'[k].state = "active" =>
               k \notin retired' /\ backend' = "registered" /\ (k = live => k = live')
  BY <1>1 DEF Sound, KernelSound
<1>3. live' # NoKernel =>
        kernel'[live].state = "active" /\ kernel[live].policy = policy' /\ session' = "open"
  BY <1>1 DEF Sound, Typed, LiveSound
<1>4. \A d \in Calls : attempt'[d].pc # attempt[d].pc =>
         /\ attempt[d].pc = "publishing" /\ attempt'[d].pc = "rollback"
         /\ kernel'[d].state # "active"
  BY <1>1 DEF Kernels
<1>5. /\ RecordsStay
      /\ \A d \in Calls : AttemptSound(d)' /\ (attempt[d].pc = "none" => attempt'[d].pc = "none")
      /\ \A k \in Kernels : KernelSound(k)'
      /\ LiveSound'
  BY <1>1, <1>2, <1>3, <1>4, KernelsStaySound
<1>6. \A d \in Calls : CallSound(d)' /\ CurrentPolicy(d)'
  BY <1>5, AllCallsStaySound
<1>7. Typed'
  BY <1>1 DEF Sound, Typed
<1>8. QED
  BY <1>5, <1>6, <1>7 DEF Sound

LEMMA PublishSound == ASSUME Sound, NEW c \in Calls, Publish(c) PROVE Sound'
<1>1. CASE Usable(c) /\ InPlace(c) /\ session = "open"
  BY <1>1, PublishedSound
<1>2. CASE ~(Usable(c) /\ InPlace(c) /\ session = "open")
  <2>1. /\ attempt[c].pc = "publishing"
        /\ attempt' = [attempt EXCEPT ![c].pc = "rollback"]
        /\ MarkClosing({c}) /\ retired' = retired \cup {c}
        /\ UNCHANGED <<retiring, recovery, queue, call, outside>>
    BY <1>2, Zenon DEF Publish, BeginRetirement
  <2>2. c \in Kernels /\ kernel[c].state # "none" /\ {c} \in SUBSET (Kernels \cup {NoKernel})
    BY <2>1 DEF Sound, AttemptSound, Kernels
  <2>3. /\ attempt' \in [Calls -> AttemptRecords]
        /\ \A d \in Calls : attempt'[d].pc # attempt[d].pc =>
              attempt[d].pc = "publishing" /\ attempt'[d].pc = "rollback" /\ d \in {c}
    BY <2>1 DEF Sound, Typed, AttemptRecords
  <2>4. live' # NoKernel => kernel[live].policy = policy' /\ session' = "open"
    BY <2>1, <2>2, Closing DEF Sound, LiveSound, outside
  <2>5. \A k \in Kernels :
           /\ k \in retired' /\ k \notin retired => kernel[k].state # "none"
           /\ kernel[k].state = "active" /\ k \notin {c} => backend' = "registered"
           /\ kernel'[k].state \in OutOfUse => Dropped(k)'
    BY <2>1, <2>2, Closing DEF Sound, KernelSound, Dropped, OutOfUse, outside
  <2>6. QED
    BY <2>1, <2>2, <2>3, <2>4, <2>5, TakingOutSound DEF Sound, Typed, outside
<1>3. QED
  BY <1>1, <1>2

-----------------------------------------------------------------------------
(* From outside. *)

LEMMA ReloadSound == ASSUME Sound, Reload PROVE Sound'
<1>1. /\ live \in Kernels /\ kernel[live].state # "none"
      /\ Retire(live)
      /\ UNCHANGED <<policy, session, backend, doomed, recovery, queue, call, attempt>>
  BY DEF Reload, Sound, Typed, LiveSound
<1>2. /\ MarkClosing({live}) /\ retired' = retired \cup {live} /\ Register(live)
      /\ {live} \in SUBSET (Kernels \cup {NoKernel})
  BY <1>1 DEF Retire, BeginRetirement
<1>3. retiring' \in Kernels \cup {NoKernel}
  BY <1>1, <1>2, Registering DEF Sound
<1>4. \A k \in Kernels :
         /\ k \in retired' /\ k \notin retired => kernel[k].state # "none"
         /\ kernel[k].state = "active" /\ k \notin {live} => backend' = "registered"
         /\ kernel'[k].state \in OutOfUse => Dropped(k)'
  BY <1>1, <1>2, Closing DEF Sound, KernelSound, Dropped, OutOfUse
<1>5. live' = NoKernel
  BY <1>1, <1>2, Closing DEF Sound
<1>6. QED
  BY <1>1, <1>2, <1>3, <1>4, <1>5, TakingOutSound DEF Sound, Typed

LEMMA DisposeSessionSound == ASSUME Sound, DisposeSession PROVE Sound'
<1>1. /\ session = "open" /\ session' = "disposing" /\ doomed' = live
      /\ MarkClosing({live}) /\ {live} \in SUBSET (Kernels \cup {NoKernel})
      /\ UNCHANGED <<policy, backend, retiring, recovery, retired, queue, call, attempt>>
  BY DEF DisposeSession, Sound, Typed
<1>2. \A k \in Kernels :
         /\ kernel[k].state = "active" /\ k \notin {live} => backend' = "registered"
         /\ kernel'[k].state \in OutOfUse => Dropped(k)'
  BY <1>1, Closing DEF Sound, KernelSound, Dropped, OutOfUse
<1>3. live' = NoKernel
  BY <1>1, Closing DEF Sound
<1>4. QED
  BY <1>1, <1>2, <1>3, TakingOutSound DEF Sound, Typed

LEMMA SessionDisposedSound == ASSUME Sound, SessionDisposed PROVE Sound'
<1> DEFINE ks == {doomed} \ {NoKernel}
<1>1. /\ session = "disposing" /\ session' = "closing"
      /\ MarkClosing(ks) /\ retired' = retired \cup ks
      /\ UNCHANGED <<policy, backend, doomed, recovery, queue, call, attempt>>
      /\ ks \in SUBSET Kernels /\ ks \in SUBSET (Kernels \cup {NoKernel})
  BY DEF SessionDisposed, Sound, Typed, BeginRetirement
<1>2. retiring' \in Kernels \cup {NoKernel}
  BY Registering DEF SessionDisposed, Sound, Typed
<1>3. \A k \in Kernels :
         /\ k \in retired' /\ k \notin retired => kernel[k].state # "none"
         /\ kernel[k].state = "active" /\ k \notin ks => backend' = "registered"
         /\ kernel'[k].state \in OutOfUse => Dropped(k)'
  <2>1. ASSUME NEW k \in Kernels PROVE k \in ks <=> k = doomed
    BY LifecycleAssumption
  <2>2. QED
    BY <1>1, <2>1, Closing DEF Sound, KernelSound, Dropped, OutOfUse
<1>4. live' = NoKernel
  BY <1>1, Closing DEF Sound, LiveSound
<1>5. QED
  BY <1>1, <1>2, <1>3, <1>4, TakingOutSound DEF Sound, Typed

LEMMA SessionForgottenSound == ASSUME Sound, SessionForgotten PROVE Sound'
<1>1. /\ session = "closing" /\ session' = "disposed" /\ live = NoKernel
      /\ live' = NoKernel /\ retiring' = NoKernel /\ recovery' = NoKernel
      /\ UNCHANGED <<policy, backend, doomed, kernel, retired, queue, call, attempt>>
  BY DEF SessionForgotten, Sound, LiveSound
<1>2. MarkClosing({})
  BY <1>1 DEF MarkClosing, Sound, Typed
<1>3. \A k \in Kernels :
         /\ kernel[k].state = "active" => backend' = "registered"
         /\ kernel'[k].state \in OutOfUse => Dropped(k)'
  BY <1>1 DEF Sound, KernelSound, Dropped
<1>4. QED
  BY <1>1, <1>2, <1>3, TakingOutSound DEF Sound, Typed

LEMMA DisposeBackendSound == ASSUME Sound, DisposeBackend PROVE Sound'
<1>1. /\ backend = "registered" /\ backend' = "disposing"
      /\ MarkClosing(Records) /\ Records \in SUBSET (Kernels \cup {NoKernel})
      /\ UNCHANGED <<policy, session, doomed, retiring, recovery, retired, queue, call, attempt>>
  BY DEF DisposeBackend, Records
<1>2. \A k \in Kernels :
         /\ kernel[k].state = "active" /\ k \notin Records => backend' = "registered"
         /\ kernel'[k].state \in OutOfUse => Dropped(k)'
  BY <1>1, Closing DEF Sound, KernelSound, Dropped, OutOfUse, Records
<1>3. live' = NoKernel
  BY <1>1, Closing DEF Sound, Typed, LiveSound, Records
<1>4. QED
  BY <1>1, <1>2, <1>3, TakingOutSound DEF Sound, Typed

LEMMA BackendDisposedSound == ASSUME Sound, BackendDisposed PROVE Sound'
<1>1. /\ backend = "disposing" /\ backend' = "disposed"
      /\ MarkClosing(Records) /\ retired' = retired \cup Records
      /\ Records \in SUBSET Kernels /\ Records \in SUBSET (Kernels \cup {NoKernel})
      /\ UNCHANGED <<policy, session, doomed, recovery, queue, call, attempt>>
  BY DEF BackendDisposed, BeginRetirement, Records
<1>2. retiring' \in Kernels \cup {NoKernel}
  BY <1>1, Registering DEF BackendDisposed, Sound, Typed
<1>3. \A k \in Kernels :
         /\ k \in retired' /\ k \notin retired => kernel[k].state # "none"
         /\ kernel[k].state = "active" /\ k \notin Records => backend' = "registered"
         /\ kernel'[k].state \in OutOfUse => Dropped(k)'
  BY <1>1, Closing DEF Sound, KernelSound, Dropped, OutOfUse, Records
<1>4. live' = NoKernel
  BY <1>1, Closing DEF Sound, Typed, LiveSound, Records
<1>5. QED
  BY <1>1, <1>2, <1>3, <1>4, TakingOutSound DEF Sound, Typed

LEMMA PolicyCutsStarts ==
    ASSUME Sound, NEW p \in Policies, ChangePolicy(p)
    PROVE  /\ attempt' \in [Calls -> AttemptRecords]
           /\ \A d \in Calls : attempt'[d].pc = attempt[d].pc
<1>1. ASSUME NEW d \in Calls
      PROVE  /\ attempt[d] \in AttemptRecords /\ [attempt[d] EXCEPT !.cut = TRUE] \in AttemptRecords
             /\ [attempt[d] EXCEPT !.cut = TRUE].pc = attempt[d].pc
  BY DEF Sound, Typed, AttemptRecords
<1>2. CASE session = "open" /\ backend = "registered"
  <2>1. attempt' = [c \in Calls |-> IF attempt[c].pc = "starting" /\ kernel[c].policy # p
                                    THEN [attempt[c] EXCEPT !.cut = TRUE] ELSE attempt[c]]
    BY <1>2 DEF ChangePolicy
  <2>2. QED
    BY <1>1, <2>1
<1>3. CASE ~(session = "open" /\ backend = "registered")
  BY <1>3 DEF ChangePolicy, Sound, Typed
<1>4. QED
  BY <1>2, <1>3

LEMMA ChangePolicySound == ASSUME Sound, NEW p \in Policies, ChangePolicy(p) PROVE Sound'
<1> DEFINE ks == IF session = "open" /\ backend = "registered" THEN Stale(p) ELSE {}
<1>1. /\ policy' = p
      /\ UNCHANGED <<recovery, queue, generation, call, session, backend, doomed>>
  BY DEF ChangePolicy
<1>2. session # "open" \/ backend # "registered" => live = NoKernel
  BY DEF Sound, Typed, LiveSound, KernelSound
<1>3. ks \in SUBSET Kernels /\ ks \in SUBSET (Kernels \cup {NoKernel})
  BY DEF Stale
<1>4. MarkClosing(ks) /\ retired' = retired \cup ks
  BY <1>2 DEF ChangePolicy, BeginRetirement, MarkClosing, Sound, Typed
<1>5. retiring' \in Kernels \cup {NoKernel}
  BY <1>3, Registering DEF ChangePolicy, Sound, Typed
<1>6. /\ attempt' \in [Calls -> AttemptRecords]
      /\ \A d \in Calls : attempt'[d].pc = attempt[d].pc
  BY PolicyCutsStarts
<1>7. \A k \in Kernels : k \in ks <=>
         /\ session = "open" /\ backend = "registered"
         /\ kernel[k].state = "active" /\ kernel[k].policy # p
  BY DEF Stale
<1> HIDE DEF ks
<1>8. \A k \in Kernels :
         /\ k \in retired' /\ k \notin retired => kernel[k].state # "none"
         /\ kernel[k].state = "active" /\ k \notin ks => backend' = "registered"
         /\ kernel'[k].state \in OutOfUse => Dropped(k)'
  BY <1>1, <1>3, <1>4, <1>7, Closing DEF Sound, KernelSound, Dropped, OutOfUse
<1>9. live' # NoKernel => kernel[live].policy = policy' /\ session' = "open"
  BY <1>1, <1>2, <1>3, <1>4, <1>7, Closing DEF Sound, Typed, LiveSound
<1>10. ASSUME NEW d \in Calls
       PROVE  CurrentPolicy(d)'
  <2> SUFFICES ASSUME Executing(d)'
               PROVE  kernel'[call[d].on].policy = policy' \/ RecordCut(call[d].on)'
    BY <1>1 DEF CurrentPolicy
  <2> DEFINE k == call[d].on
  <2>1. k \in Kernels /\ kernel[k].state # "none" /\ kernel[k] \in KernelRecords
    BY <1>1 DEF Sound, Typed, CallSound, CallRecords, Executing, HasTurn
  <2>2. kernel[k].state \in {"active"} \cup OutOfUse
    BY <2>1 DEF KernelRecords, States, OutOfUse
  <2>3. kernel[k].state \in OutOfUse => RecordCut(k)'
    BY <1>1, <1>4, <2>1 DEF Sound, KernelSound, Dropped, RecordCut
  <2>4. kernel[k].state = "active" => kernel'[k].policy = p \/ RecordCut(k)'
    BY <1>1, <1>3, <1>4, <1>7, <2>1, Closing DEF Sound, RecordCut
  <2>5. QED
    BY <1>1, <2>2, <2>3, <2>4
<1>11. QED
  BY <1>1, <1>3, <1>4, <1>5, <1>6, <1>8, <1>9, <1>10, TakingOutSound DEF Sound, Typed

-----------------------------------------------------------------------------
(* Every step keeps the invariant. *)

LEMMA CallStepSound == ASSUME Sound, NEW c \in Calls, CallStep(c) PROVE Sound'
<1>1. CASE \E kind \in Kinds : Ask(c, kind)
  BY <1>1, AskSound
<1>2. CASE Joined(c) \/ Recovered(c)
  BY <1>2, JoinedSound, RecoveredSound
<1>3. CASE Abort(c) \/ Interrupt(c) \/ GiveUp(c)
  BY <1>3, AbortSound, GiveUpSound
<1>4. CASE StartTask(c) \/ RejectTask(c)
  BY <1>4, StartTaskSound, RejectTaskSound
<1>5. CASE EndExecution(c) \/ CommitRun(c) \/ EndInspection(c)
  BY <1>5, EndExecutionSound, CommitRunSound, EndInspectionSound
<1>6. CASE StartTimesOut(c) \/ AbandonStart(c) \/ EndClose(c)
  BY <1>6, StartTimesOutSound, AbandonStartSound
<1>7. CASE Receive(c) \/ Publish(c)
  BY <1>7, ReceiveSound, PublishSound
<1>8. QED
  BY <1>1, <1>2, <1>3, <1>4, <1>5, <1>6, <1>7 DEF CallStep

LEMMA OutsideSound == ASSUME Sound, Outside PROVE Sound'
BY ChangePolicySound, ReloadSound, DisposeSessionSound, SessionDisposedSound,
   SessionForgottenSound, DisposeBackendSound, BackendDisposedSound DEF Outside

LEMMA StutterSound == ASSUME Sound, UNCHANGED vars PROVE Sound'
<1> USE DEF vars
<1>1. Typed' /\ LiveSound'
  BY DEF Sound, Typed, LiveSound
<1>2. \A c \in Calls : AttemptSound(c)' /\ CallSound(c)' /\ CurrentPolicy(c)'
  BY DEF Sound, AttemptSound, CallSound, CurrentPolicy, Executing, RecordCut
<1>3. \A k \in Kernels : KernelSound(k)'
  BY DEF Sound, KernelSound, Dropped
<1>4. QED
  BY <1>1, <1>2, <1>3 DEF Sound

LEMMA NextSound == Sound /\ [Next]_vars => Sound'
<1> SUFFICES ASSUME Sound, [Next]_vars
             PROVE  Sound'
  OBVIOUS
<1>1. ASSUME NEW c \in Calls, CallStep(c)
      PROVE  Sound'
  BY <1>1, CallStepSound
<1>2. ASSUME NEW k \in Kernels, KernelStep(k)
      PROVE  Sound'
  BY <1>2, ShutDownSound, JoinSound, ProcessStartsSound, CloseLateSound DEF KernelStep
<1>3. CASE Outside
  BY <1>3, OutsideSound
<1>4. CASE UNCHANGED vars
  BY <1>4, StutterSound
<1>5. QED
  BY <1>1, <1>2, <1>3, <1>4 DEF Next

(* The phases of the session and of the backend, and the counters. *)
LEMMA PhasesStay == Phases /\ [Next]_vars => Phases'
<1> SUFFICES ASSUME Phases, [Next]_vars
             PROVE  Phases'
  OBVIOUS
<1> USE LifecycleAssumption DEF Phases
<1>1. ASSUME NEW c \in Calls, CallStep(c)
      PROVE  Phases'
  <2>1. UNCHANGED <<session, backend, events>> /\ generation' \in {generation, generation + 1}
    BY <1>1 DEF CallStep, Ask, Joined, Recovered, Abort, Interrupt, GiveUp, StartTask, RejectTask,
                EndExecution, CommitRun, EndTask, EndInspection, StartTimesOut, AbandonStart,
                Receive, Publish, EndClose, outside
  <2>2. QED
    BY <2>1
<1>2. ASSUME NEW k \in Kernels, KernelStep(k)
      PROVE  Phases'
  BY <1>2 DEF KernelStep, ShutDown, Join, ProcessStarts, CloseLate, outside
<1>3. CASE Outside
  BY <1>3 DEF Outside, Happens, ChangePolicy, Reload, DisposeSession, SessionDisposed,
              SessionForgotten, DisposeBackend, BackendDisposed
<1>4. CASE UNCHANGED vars
  BY <1>4 DEF vars
<1>5. QED
  BY <1>1, <1>2, <1>3, <1>4 DEF Next

LEMMA SoundAlways == Spec => [](Sound /\ Phases)
<1>1. Sound /\ Phases /\ [Next]_vars => Sound' /\ Phases'
  BY NextSound, PhasesStay
<1>2. QED
  BY SoundInit, <1>1, PTL DEF Spec

(* Every variable keeps its type, and a call that waits has something to   *)
(* wait for.                                                               *)
THEOREM LifecycleTypes == Spec => []TypeOK
BY SoundAlways, SoundTypes, PTL

(* The kernel that a run may be given is up, of the policy of now and not  *)
(* about to be retired, and no run goes on under another policy.           *)
THEOREM LiveKernels == Spec => []LiveKernelIsUsable
<1>1. ASSUME Sound, Phases
      PROVE  LiveKernelIsUsable
  <2>1. ASSUME live # NoKernel
        PROVE  /\ kernel[live] = [proc |-> "up", state |-> "active", policy |-> policy]
               /\ live \notin retired /\ session = "open" /\ backend = "registered"
    <3>1. live \in Kernels /\ kernel[live] \in KernelRecords
      BY <1>1, <2>1 DEF Sound, Typed
    <3>2. QED
      BY <1>1, <2>1, <3>1 DEF Sound, LiveSound, KernelSound, KernelRecords
  <2>2. QED
    BY <1>1, <2>1 DEF LiveKernelIsUsable, Sound, CurrentPolicy
<1>2. QED
  BY <1>1, SoundAlways, PTL

(* No process is leaked: one that is up is in use, is being shut down, or  *)
(* someone is still to publish or to close it.                             *)
THEOREM NoKernelLeaks == Spec => []KernelsAreAccountedFor
<1>1. ASSUME Sound, Phases
      PROVE  KernelsAreAccountedFor
  <2>1. ASSUME NEW k \in Kernels, kernel[k].proc = "up"
        PROVE  \/ k = live \/ k \in retired
               \/ k \in Calls /\ (attempt[k].pc \in {"starting", "publishing"} \/ Late(k))
               \/ session = "disposing" /\ k = doomed
               \/ backend = "disposing" /\ k \in Records
    <3>1. kernel[k].state \in {"none", "active"} \cup OutOfUse /\ KernelSound(k)
      BY <1>1 DEF Sound, Typed, KernelRecords, States, OutOfUse
    <3>2. CASE kernel[k].state = "none"
      <4>1. k \in Calls /\ attempt[k] \in AttemptRecords /\ AttemptSound(k)
        BY <1>1, <2>1, <3>1, <3>2 DEF KernelSound, Kernels, Sound, Typed
      <4>2. attempt[k].pc \in {"starting", "failed"}
        BY <2>1, <3>2, <4>1 DEF AttemptSound, AttemptRecords
      <4>3. QED
        BY <3>2, <4>1, <4>2 DEF Late
    <3>3. CASE kernel[k].state = "active"
      BY <3>1, <3>3 DEF KernelSound
    <3>4. CASE kernel[k].state \in OutOfUse
      BY <3>1, <3>4 DEF KernelSound, Dropped, Records
    <3>5. QED
      BY <3>1, <3>2, <3>3, <3>4
  <2>2. QED
    BY <1>1, <2>1, SoundTypes DEF KernelsAreAccountedFor
<1>2. QED
  BY <1>1, SoundAlways, PTL

-----------------------------------------------------------------------------
(* What a step that publishes nothing does to the kernels: Steady says that*)
(* none is published, none serves again that was out of use, and one is    *)
(* joined only when its queue is empty.                                    *)

StateMoves(k) ==
    \/ kernel'[k].state = kernel[k].state
    \/ kernel[k].state = "none" /\ k # First
    \/ kernel[k].state = "active" /\ kernel'[k].state = "closing"
    \/ /\ kernel[k].state = "closing" /\ queue[k] = <<>>
       /\ kernel'[k].state \in {"closed", "shutdown-failed"}
Steady ==
    /\ generation' = generation /\ live' \in {live, NoKernel}
    /\ \A d \in Calls : attempt'[d].pc = "done" <=> attempt[d].pc = "done"
    /\ \A k \in Kernels : StateMoves(k)

LEMMA ClosingSteady ==
    ASSUME Sound, NEW ks \in SUBSET (Kernels \cup {NoKernel}), MarkClosing(ks),
           UNCHANGED generation,
           \A d \in Calls : attempt'[d].pc = "done" <=> attempt[d].pc = "done"
    PROVE  Steady
BY Closing DEF Sound, Steady, StateMoves

LEMMA RetiringSteady ==
    ASSUME Sound, NEW k \in Kernels, Retire(k) \/ NoRetirement, UNCHANGED <<generation, attempt>>
    PROVE  Steady
<1>1. CASE Retire(k)
  BY <1>1, ClosingSteady DEF Retire, BeginRetirement
<1>2. CASE NoRetirement
  BY <1>2 DEF NoRetirement, Steady, StateMoves
<1>3. QED
  BY <1>1, <1>2

LEMMA BeginningSteady ==
    ASSUME Sound, NEW c \in Calls, NEW prior \in Kernels \cup {NoKernel}, NEW next \in CallRecords,
           Begin(c, prior, next), attempt[c].pc = "none", UNCHANGED <<live, generation>>
    PROVE  Steady
<1>1. /\ attempt'[c].pc = "starting" /\ \A d \in Calls : d # c => attempt'[d] = attempt[d]
      /\ kernel'[c].state = kernel[c].state
      /\ \A k \in Kernels : k # c => kernel'[k] = kernel[k]
  BY Beginning DEF Sound
<1>2. QED
  BY <1>1 DEF Steady, StateMoves

LEMMA StartOrShareSteady ==
    ASSUME Sound, NEW c \in Calls, NEW next \in CallRecords, StartOrShare(c, next),
           attempt[c].pc = "none", UNCHANGED <<live, generation>>
    PROVE  Steady
<1>1. CASE UNCHANGED <<kernel, attempt>>
  BY <1>1 DEF Steady, StateMoves
<1>2. CASE ~UNCHANGED <<kernel, attempt>>
  <2> DEFINE r == [next EXCEPT !.pc = IF Shared(next.kind) THEN "sharing" ELSE "replacing",
                               !.on = IF Shared(next.kind) THEN c ELSE NoKernel]
  <2>1. r \in CallRecords
    BY DEF CallRecords, CallSteps, Kernels
  <2>2. Begin(c, NoKernel, r)
    BY <1>2 DEF StartOrShare
  <2> HIDE DEF r
  <2>3. QED
    BY <2>1, <2>2, BeginningSteady
<1>3. QED
  BY <1>1, <1>2

LEMMA CallStepSteady ==
    ASSUME Sound, NEW c \in Calls, CallStep(c),
           ~(Publish(c) /\ Usable(c) /\ InPlace(c) /\ session = "open")
    PROVE  Steady
<1> DEFINE Quiet == UNCHANGED <<live, kernel, attempt, generation>>
<1>1. Quiet => Steady
  BY DEF Steady, StateMoves
<1>2. call[c] \in CallRecords /\ CallSound(c)
  BY DEF Sound, Typed
<1>3. ASSUME NEW kind \in Kinds, Ask(c, kind)
      PROVE  Steady
  <2> DEFINE next == [Idle(policy) EXCEPT !.kind = kind]
  <2>1. next \in CallRecords /\ attempt[c].pc = "none" /\ UNCHANGED <<live, generation>>
    BY <1>2, <1>3, LifecycleAssumption
       DEF CallRecords, CallSteps, Results, Idle, Sound, Typed, Ask, CallSound
  <2>2. Quiet \/ StartOrShare(c, next)
    BY <1>3 DEF Ask
  <2> HIDE DEF next
  <2>3. QED
    BY <1>1, <2>1, <2>2, StartOrShareSteady
<1>4. CASE Joined(c)
  <2>1. attempt[c].pc = "none" /\ UNCHANGED <<live, generation>>
    BY <1>2, <1>4 DEF Joined, CallSound
  <2>2. Quiet \/ StartOrShare(c, call[c])
    BY <1>4 DEF Joined
  <2>3. QED
    BY <1>1, <1>2, <2>1, <2>2, StartOrShareSteady
<1>5. CASE Recovered(c) \/ Abort(c) \/ Interrupt(c) \/ GiveUp(c) \/ EndExecution(c)
  BY <1>1, <1>5 DEF Recovered, Abort, Interrupt, GiveUp, EndExecution, slots
<1>6. CASE StartTask(c)
  <2>1. CASE Shared(call[c].kind)
    BY <1>1, <1>6, <2>1 DEF StartTask, slots
  <2>2. CASE ~Shared(call[c].kind)
    <3> DEFINE r == [call[c] EXCEPT !.pc = "replacing"]
    <3>1. /\ r \in CallRecords /\ call[c].on \in Kernels \cup {NoKernel} /\ attempt[c].pc = "none"
          /\ UNCHANGED <<live, generation>>
      BY <1>2, <1>6, <2>2 DEF CallRecords, CallSteps, StartTask, AtHead, CallSound, slots
    <3>2. Begin(c, call[c].on, r)
      BY <1>6, <2>2 DEF StartTask
    <3> HIDE DEF r
    <3>3. QED
      BY <3>1, <3>2, BeginningSteady
  <2>3. QED
    BY <2>1, <2>2
<1>7. CASE RejectTask(c) \/ CommitRun(c) \/ EndInspection(c)
  <2>1. call[c].pc \in {"queued"} \cup HasTurn
    BY <1>7 DEF RejectTask, CommitRun, EndInspection, HasTurn
  <2>2. call[c].on \in Kernels
    BY <1>2, <2>1 DEF CallSound, CallRecords
  <2>3. Retire(call[c].on) \/ NoRetirement
    BY <1>7 DEF RejectTask, CommitRun, EndInspection, EndTask
  <2>4. UNCHANGED <<generation, attempt>>
    BY <1>7 DEF RejectTask, CommitRun, EndInspection, EndTask
  <2>5. QED
    BY <2>2, <2>3, <2>4, RetiringSteady
<1>8. CASE StartTimesOut(c)
  <2>1. \A d \in Calls : attempt'[d].pc = attempt[d].pc
    BY <1>8 DEF StartTimesOut, Sound, Typed, AttemptRecords
  <2>2. QED
    BY <1>8, <2>1 DEF StartTimesOut, slots, Steady, StateMoves
<1>9. CASE AbandonStart(c) \/ EndClose(c)
  <2>1. FailStart(c) /\ attempt[c].pc # "done" /\ UNCHANGED <<live, kernel, generation>>
    BY <1>9 DEF AbandonStart, EndClose
  <2>2. attempt'[c].pc = "failed" /\ \A d \in Calls : d # c => attempt'[d] = attempt[d]
    BY <2>1, Failing DEF Sound
  <2>3. QED
    BY <2>1, <2>2 DEF Steady, StateMoves
<1>10. CASE Receive(c)
  <2>1. /\ attempt[c].pc = "starting" /\ c \in Kernels /\ kernel[c].state = "none" /\ c # First
        /\ UNCHANGED <<live, generation>>
    BY <1>10, LifecycleAssumption DEF Receive, slots, Sound, AttemptSound, Kernels
  <2>2. \A d \in Calls : attempt'[d].pc = "done" <=> attempt[d].pc = "done"
    BY <1>10, <2>1 DEF Receive, Sound, Typed, AttemptRecords
  <2>3. \A k \in Kernels : k # c => kernel'[k] = kernel[k]
    BY <1>10 DEF Receive, Sound, Typed
  <2>4. QED
    BY <2>1, <2>2, <2>3 DEF Steady, StateMoves
<1>11. CASE Publish(c)
  <2>1. /\ attempt[c].pc = "publishing" /\ attempt' = [attempt EXCEPT ![c].pc = "rollback"]
        /\ MarkClosing({c}) /\ UNCHANGED generation
    BY <1>11, Zenon DEF Publish, BeginRetirement
  <2>2. \A d \in Calls : attempt'[d].pc = "done" <=> attempt[d].pc = "done"
    BY <2>1 DEF Sound, Typed, AttemptRecords
  <2>3. {c} \in SUBSET (Kernels \cup {NoKernel})
    BY DEF Kernels
  <2>4. QED
    BY <2>1, <2>2, <2>3, ClosingSteady
<1>12. QED
  BY <1>3, <1>4, <1>5, <1>6, <1>7, <1>8, <1>9, <1>10, <1>11 DEF CallStep

LEMMA KernelStepSteady == ASSUME Sound, NEW k \in Kernels, KernelStep(k) PROVE Steady
<1>1. CASE ShutDown(k) \/ ProcessStarts(k)
  <2>1. ShutDown(k) => \A j \in Kernels : kernel'[j].state = kernel[j].state
    BY DEF ShutDown, Sound, Typed, KernelRecords
  <2>2. ProcessStarts(k) => \A j \in Kernels : kernel'[j].state = kernel[j].state
    BY DEF ProcessStarts, Sound, Typed, KernelRecords
  <2>3. QED
    BY <1>1, <2>1, <2>2 DEF ShutDown, ProcessStarts, slots, Steady, StateMoves
<1>2. CASE Join(k)
  <2>1. /\ kernel[k].state = "closing" /\ queue[k] = <<>>
        /\ kernel'[k].state \in {"closed", "shutdown-failed"}
        /\ \A j \in Kernels : j # k => kernel'[j] = kernel[j]
    BY <1>2 DEF Join, Sound, Typed, KernelRecords
  <2>2. QED
    BY <1>2, <2>1 DEF Join, Steady, StateMoves
<1>3. CASE CloseLate(k)
  <2>1. /\ kernel[k].state = "none" /\ k # First
        /\ \A j \in Kernels : j # k => kernel'[j] = kernel[j]
    BY <1>3, LifecycleAssumption DEF CloseLate, Late, Sound, Typed
  <2>2. QED
    BY <1>3, <2>1 DEF CloseLate, slots, Steady, StateMoves
<1>4. QED
  BY <1>1, <1>2, <1>3 DEF KernelStep

LEMMA OutsideSteady == ASSUME Sound, Outside PROVE Steady
<1>1. ASSUME NEW p \in Policies, ChangePolicy(p)
      PROVE  Steady
  <2>1. \A d \in Calls : attempt'[d].pc = attempt[d].pc
    BY <1>1, PolicyCutsStarts
  <2>2. UNCHANGED generation /\ (MarkClosing(Stale(p)) \/ UNCHANGED <<kernel, live>>)
    BY <1>1 DEF ChangePolicy, BeginRetirement
  <2>3. Stale(p) \in SUBSET (Kernels \cup {NoKernel})
    BY DEF Stale
  <2>4. CASE MarkClosing(Stale(p))
    BY <2>1, <2>2, <2>3, <2>4, ClosingSteady
  <2>5. CASE UNCHANGED <<kernel, live>>
    BY <2>1, <2>2, <2>5 DEF Steady, StateMoves
  <2>6. QED
    BY <2>2, <2>4, <2>5
<1>2. CASE Reload
  BY <1>2, RetiringSteady DEF Reload, Sound, Typed
<1>3. CASE DisposeSession
  BY <1>3, ClosingSteady DEF DisposeSession, Sound, Typed
<1>4. CASE SessionDisposed
  BY <1>4, ClosingSteady DEF SessionDisposed, BeginRetirement, Sound, Typed
<1>5. CASE SessionForgotten
  BY <1>5 DEF SessionForgotten, Steady, StateMoves
<1>6. CASE DisposeBackend \/ BackendDisposed
  BY <1>6, ClosingSteady DEF DisposeBackend, BackendDisposed, BeginRetirement, Records
<1>7. QED
  BY <1>1, <1>2, <1>3, <1>4, <1>5, <1>6 DEF Outside

LEMMA StutterSteady == ASSUME Sound, UNCHANGED vars PROVE Steady
BY DEF vars, Steady, StateMoves

(* So there are two sorts of steps. *)
LEMMA PublishesOrSteady ==
    ASSUME Sound, [Next]_vars
    PROVE  Steady \/ \E c \in Calls : Publish(c) /\ Usable(c) /\ InPlace(c) /\ session = "open"
<1>1. ASSUME NEW c \in Calls, CallStep(c)
      PROVE  Steady \/ (Publish(c) /\ Usable(c) /\ InPlace(c) /\ session = "open")
  BY <1>1, CallStepSteady
<1>2. ASSUME NEW k \in Kernels, KernelStep(k)
      PROVE  Steady
  BY <1>2, KernelStepSteady
<1>3. QED
  BY <1>1, <1>2, OutsideSteady, StutterSteady DEF Next

-----------------------------------------------------------------------------
(* The kernels of a notebook are its generations. *)

OnlyTheLiveOneIsActive ==
    /\ {k \in Published : kernel[k].state # "active"} = Published \ {live}
    /\ live \in Published \cup {NoKernel} /\ NoKernel \notin Published

LEMMA OldKernels == Sound => OnlyTheLiveOneIsActive
<1> SUFFICES ASSUME Sound
             PROVE  OnlyTheLiveOneIsActive
  OBVIOUS
<1>1. ASSUME NEW k \in Published
      PROVE  kernel[k].state = "active" <=> k = live
  BY LifecycleAssumption DEF Sound, KernelSound, LiveSound, Published, Kernels
<1>2. live \in Published \cup {NoKernel} /\ NoKernel \notin Published
  BY LifecycleAssumption DEF Sound, Typed, LiveSound, Published, Kernels
<1>3. QED
  BY <1>1, <1>2 DEF OnlyTheLiveOneIsActive

LEMMA SteadyPublished == ASSUME Sound, Steady PROVE Published' = Published
<1>1. kernel'[First].state = "none" <=> kernel[First].state = "none"
  BY DEF Steady, StateMoves, Kernels
<1>2. QED
  BY <1>1 DEF Steady, Published

LEMMA PublishedGrows ==
    ASSUME Sound, NEW c \in Calls, Publish(c), Usable(c), InPlace(c), session = "open"
    PROVE  c \notin Published /\ Published' = Published \cup {c}
<1>1. /\ attempt[c].pc = "publishing" /\ attempt'[c].pc = "done"
      /\ \A d \in Calls : d # c => attempt'[d] = attempt[d]
      /\ kernel'[First].state = IF First = live THEN "closing" ELSE kernel[First].state
  BY Publishing DEF Kernels
<1>2. First = live => kernel[First].state = "active"
  BY LifecycleAssumption DEF Sound, LiveSound, Kernels
<1>3. c # First
  BY LifecycleAssumption
<1>4. QED
  BY <1>1, <1>2, <1>3 DEF Published

LEMMA GenerationStep ==
    ASSUME Sound, Sound', [Next]_vars
    PROVE  [Generations!Next]_<<live, generation, {k \in Published : kernel[k].state # "active"}>>
<1> DEFINE old == {k \in Published : kernel[k].state # "active"}
<1>1. /\ old = Published \ {live} /\ live \in Published \cup {NoKernel} /\ NoKernel \notin Published
      /\ old' = Published' \ {live'} /\ NoKernel \notin Published'
  <2>1. OnlyTheLiveOneIsActive /\ OnlyTheLiveOneIsActive'
    BY OldKernels, PTL
  <2>2. QED
    BY <2>1 DEF OnlyTheLiveOneIsActive
<1>2. ASSUME Steady
      PROVE  \/ live # NoKernel /\ live' = NoKernel /\ old' = old \cup {live} /\ generation' = generation
             \/ live' = live /\ generation' = generation /\ old' = old
  BY <1>1, <1>2, SteadyPublished DEF Steady
<1>3. ASSUME NEW c \in Calls, Publish(c), Usable(c), InPlace(c), session = "open"
      PROVE  /\ c \in Kernels /\ c # live /\ c \notin old
             /\ live' = c /\ generation' = generation + 1 /\ old' = old \cup ({live} \ {NoKernel})
  <2>1. c # live /\ live' = c /\ generation' = generation + 1 /\ c \in Kernels
    BY <1>3, Publishing DEF Kernels
  <2>2. QED
    BY <1>1, <1>3, <2>1, PublishedGrows
<1> HIDE DEF old
<1>4. \/ (live # NoKernel /\ live' = NoKernel /\ old' = old \cup {live} /\ generation' = generation)
      \/ (live' = live /\ generation' = generation /\ old' = old)
      \/ \E c \in Kernels : /\ c # live /\ c \notin old /\ live' = c
                            /\ generation' = generation + 1
                            /\ old' = old \cup ({live} \ {NoKernel})
  BY <1>2, <1>3, PublishesOrSteady
<1>5. QED
  BY <1>4 DEF old, Generations!Next, Generations!Publish, Generations!Retire

(* The generations of a notebook: each is one new kernel, they advance by  *)
(* one, and a kernel that was replaced or retired never serves again.      *)
THEOREM Refinement == Spec => GenerationsAreKernels
<1>1. Init => Generations!Init
  <2>1. ASSUME Init
        PROVE  {k \in Published : kernel[k].state # "active"} = {}
    BY <2>1, LifecycleAssumption DEF Init, Published, NoAttempt, Kernels
  <2>2. QED
    BY <2>1, LifecycleAssumption DEF Init, Generations!Init, Kernels
<1>2. QED
  BY <1>1, SoundAlways, GenerationStep, PTL DEF Spec, GenerationsAreKernels, Generations!Spec

-----------------------------------------------------------------------------
(* Runs of one notebook do not overlap.  While no restart or attachment    *)
(* starts a kernel of its own, at most one kernel is in use: a recovery    *)
(* begins when none is, and publishes while that is still so.  This rests  *)
(* on the slot for the kernel that is retired: until that one is closed    *)
(* the slot names it, and calls that find it there wait for it.            *)

InUse(k) == k \in Published /\ kernel[k].state \in {"active", "closing", "shutdown-failed"}
NoneInUse == \A k \in Kernels : ~InUse(k)
OneInUse == \A j, k \in Kernels : InUse(j) /\ InUse(k) => j = k

Calm == session = "open" /\ backend = "registered" /\ ~StartsBeside
Held == {"closing", "shutdown-failed"}
Pending(c) == attempt[c].pc \in {"starting", "publishing", "closing", "rollback"}

SlotNamesTheRetired ==
    /\ \A k \in Kernels : InUse(k) /\ k # live => retiring = k
    /\ retiring # NoKernel => live = NoKernel /\ kernel[retiring].state \in Held
StartsAlone(c) ==
    Pending(c) => recovery = c /\ NoneInUse /\ retiring \in {NoKernel, c}
NotOnTheWay(d) ==
    Pending(d) => /\ kernel[d].state # "active"
                  /\ attempt[d].pc = "starting" => kernel[d].proc = "starting"
JoinsTheRetired(c) ==
    call[c].pc = "joining" =>
        /\ kernel[call[c].on].state \in {"closed"} \cup Held
        /\ kernel[call[c].on].state \in Held => retiring = call[c].on
        /\ kernel[call[c].on].state = "closed" =>
              /\ retiring = NoKernel /\ NoneInUse
              /\ \A d \in Calls : NotOnTheWay(d)
Slot ==
    Calm => /\ SlotNamesTheRetired
            /\ \A c \in Calls : StartsAlone(c) /\ JoinsTheRetired(c)

TurnSound(c) ==
    /\ call[c].pc \in {"queued"} \cup HasTurn => call[c].on \in Published
    /\ OnKernel(c) => kernel[call[c].on].state \in {"active", "closing"}

Orderly ==
    /\ Sound
    /\ StartsBeside \/ OneInUse
    /\ \A c \in Calls : TurnSound(c)
    /\ Slot

(* A restart or an attachment that has begun to start a kernel has done so *)
(* for good.                                                               *)
KindsStay ==
    \A d \in Calls : attempt[d].pc # "none" => attempt'[d].pc # "none" /\ call'[d].kind = call[d].kind

LEMMA BesideStays == ASSUME KindsStay, StartsBeside PROVE StartsBeside'
BY DEF KindsStay, StartsBeside

LEMMA OtherKindsStay ==
    ASSUME NEW c \in Calls, OthersKept(c),
           \A d \in Calls : d # c => attempt'[d] = attempt[d],
           attempt[c].pc # "none" => attempt'[c].pc # "none" /\ call'[c].kind = call[c].kind
    PROVE  KindsStay
BY DEF OthersKept, KindsStay

LEMMA SteadyInUse == ASSUME Sound, Steady, NEW k \in Kernels, InUse(k)' PROVE InUse(k)
<1>1. k \in Published /\ StateMoves(k)
  BY SteadyPublished DEF InUse, Steady
<1>2. kernel[k].state # "none"
  BY <1>1, LifecycleAssumption DEF Sound, AttemptSound, Published
<1>3. QED
  BY <1>1, <1>2 DEF StateMoves, InUse

(* The turns of the other calls. *)
LEMMA TurnsStay ==
    ASSUME Sound, NEW c, OthersKept(c), Steady, NEW d \in Calls, d # c, TurnSound(d)
    PROVE  TurnSound(d)'
<1>1. call'[d] = call[d] /\ call[d] \in CallRecords /\ CallSound(d)
  BY DEF OthersKept, Sound, Typed
<1>2. Published' = Published
  BY SteadyPublished
<1>3. ASSUME OnKernel(d)
      PROVE  kernel'[call[d].on].state \in {"active", "closing"}
  <2>1. call[d].on \in Kernels /\ InFront(d, queue[call[d].on])
    BY <1>1, <1>3 DEF CallSound, CallRecords, OnKernel, HasTurn
  <2>2. kernel[call[d].on].state \in {"active", "closing"} /\ StateMoves(call[d].on)
    BY <1>3, <2>1 DEF TurnSound, Steady
  <2>3. QED
    BY <2>1, <2>2 DEF StateMoves, InFront
<1>4. QED
  BY <1>1, <1>2, <1>3 DEF TurnSound, OnKernel

(* A step that leaves the slot, the starts and the states of kernels alone.*)
LEMMA SlotUntouched ==
    ASSUME Sound, Slot, Steady, UNCHANGED <<slots, session, backend>>, StartsBeside => StartsBeside',
           \A k \in Kernels : kernel'[k].state = kernel[k].state,
           \A d \in Calls :
              /\ attempt'[d].pc = attempt[d].pc
              /\ attempt[d].pc = "starting" /\ kernel[d].proc = "starting" => kernel'[d].proc = "starting"
              /\ call'[d].pc = "joining" =>
                    (call[d].pc = "joining" /\ call'[d].on = call[d].on)
                    \/ (retiring # NoKernel /\ call'[d].on = retiring)
    PROVE  Slot'
<1> SUFFICES ASSUME Calm'
             PROVE  /\ SlotNamesTheRetired'
                    /\ \A c \in Calls : StartsAlone(c)' /\ JoinsTheRetired(c)'
  BY DEF Slot
<1>1. /\ SlotNamesTheRetired
      /\ \A c \in Calls : StartsAlone(c) /\ JoinsTheRetired(c)
  BY DEF Slot, Calm
<1>2. \A k \in Kernels : InUse(k)' => InUse(k)
  BY SteadyInUse
<1>3. retiring \in Kernels \cup {NoKernel}
  BY DEF Sound, Typed
<1>4. SlotNamesTheRetired'
  BY <1>1, <1>2, <1>3 DEF SlotNamesTheRetired, slots
<1>5. ASSUME NEW c \in Calls
      PROVE  StartsAlone(c)'
  BY <1>1, <1>2 DEF StartsAlone, Pending, NoneInUse, slots
<1>6. ASSUME NEW c \in Calls, (call[c].pc = "joining")'
      PROVE  JoinsTheRetired(c)'
  <2>1. CASE call[c].pc = "joining" /\ call'[c].on = call[c].on
    <3>1. call[c].on \in Kernels
      BY <2>1 DEF Sound, Typed, CallSound, CallRecords
    <3>2. kernel[call[c].on].state = "closed" => \A d \in Calls : NotOnTheWay(d)'
      BY <1>1, <2>1 DEF JoinsTheRetired, NotOnTheWay, Pending, Kernels
    <3>3. NoneInUse => NoneInUse'
      BY <1>2 DEF NoneInUse
    <3>4. QED
      BY <1>1, <2>1, <3>1, <3>2, <3>3 DEF JoinsTheRetired, slots
  <2>2. CASE retiring # NoKernel /\ call'[c].on = retiring
    BY <1>1, <1>3, <2>2 DEF SlotNamesTheRetired, JoinsTheRetired, Held, slots
  <2>3. QED
    BY <1>6, <2>1, <2>2
<1>7. QED
  BY <1>4, <1>5, <1>6 DEF JoinsTheRetired

(* What every step of a call c is to keep. *)
Keeps(c) == OthersKept(c) /\ Steady /\ KindsStay /\ (c \in Calls => TurnSound(c)') /\ Slot'

LEMMA KeepsOrderly == ASSUME Orderly, Sound', NEW c, Keeps(c) PROVE Orderly'
<1>1. StartsBeside' \/ OneInUse'
  BY BesideStays, SteadyInUse DEF Orderly, Keeps, OneInUse
<1>2. \A d \in Calls : TurnSound(d)'
  BY TurnsStay DEF Orderly, Keeps
<1>3. QED
  BY <1>1, <1>2 DEF Orderly, Keeps

(* A step of one call that touches no kernel and no start. *)
LEMMA QuietKeeps ==
    ASSUME Orderly, NEW c \in Calls, OthersKept(c), TurnSound(c)',
           UNCHANGED <<outside, slots, kernel, attempt, generation>>,
           call'[c].kind = call[c].kind \/ attempt[c].pc = "none",
           call'[c].pc = "joining" =>
              (call[c].pc = "joining" /\ call'[c].on = call[c].on)
              \/ (retiring # NoKernel /\ call'[c].on = retiring)
    PROVE  Keeps(c)
<1>1. Steady /\ KindsStay
  BY OtherKindsStay DEF Steady, StateMoves, slots
<1>2. \A d \in Calls : call'[d].pc = "joining" =>
         (call[d].pc = "joining" /\ call'[d].on = call[d].on)
         \/ (retiring # NoKernel /\ call'[d].on = retiring)
  BY DEF OthersKept
<1>3. Slot'
  BY <1>1, <1>2, SlotUntouched, BesideStays DEF Orderly, outside
<1>4. QED
  BY <1>1, <1>3 DEF Keeps

LEMMA SettledKeeps ==
    ASSUME Orderly, NEW c \in Calls, NEW result \in Results, Settle(c, result),
           UNCHANGED <<outside, slots, kernel, attempt, generation>>
    PROVE  Keeps(c)
<1>1. call'[c].pc = "settled" /\ call'[c].kind = call[c].kind /\ OthersKept(c)
  BY Settling DEF Orderly, Sound
<1>2. TurnSound(c)'
  BY <1>1 DEF TurnSound, OnKernel, HasTurn
<1>3. QED
  BY <1>1, <1>2, QuietKeeps

LEMMA EnqueuedKeeps ==
    ASSUME Orderly, NEW c \in Calls, NEW k \in Kernels, NEW next \in CallRecords, Enqueue(c, k, next),
           UNCHANGED <<outside, slots, kernel, attempt, generation>>,
           next.kind = call[c].kind \/ attempt[c].pc = "none", k \in Published
    PROVE  Keeps(c)
<1>1. /\ OthersKept(c) /\ call'[c].pc = "queued" /\ call'[c].on = k /\ call'[c].kind = next.kind
  BY Enqueuing DEF Orderly, Sound
<1>2. Published' = Published
  BY DEF Published
<1>3. TurnSound(c)'
  BY <1>1, <1>2 DEF TurnSound, OnKernel
<1>4. QED
  BY <1>1, <1>3, QuietKeeps

(* A start that begins: beside the others, or when no kernel is in use. *)
LEMMA BegunKeeps ==
    ASSUME Orderly, NEW c \in Calls, NEW prior \in Kernels \cup {NoKernel}, NEW next \in CallRecords,
           Begin(c, prior, next), attempt[c].pc = "none",
           UNCHANGED <<outside, live, retiring, generation>>,
           \/ next.pc = "replacing" /\ ~Shared(next.kind)
           \/ /\ next.pc = "sharing" /\ recovery = NoKernel /\ recovery' = c
              /\ Calm => retiring = NoKernel /\ NoneInUse
    PROVE  Keeps(c)
<1>1. /\ call'[c] = next /\ OthersKept(c)
      /\ attempt'[c].pc = "starting"
      /\ \A d \in Calls : d # c => attempt'[d] = attempt[d]
      /\ kernel'[c].proc = "starting" /\ kernel'[c].state = kernel[c].state
      /\ \A k \in Kernels : k # c => kernel'[k] = kernel[k]
  BY Beginning DEF Orderly, Sound
<1>2. kernel[c].state = "none" /\ c \in Kernels
  BY DEF Orderly, Sound, AttemptSound, Kernels
<1>3. Steady /\ KindsStay
  BY <1>1, BeginningSteady, OtherKindsStay DEF Orderly
<1>4. TurnSound(c)'
  BY <1>1 DEF TurnSound, OnKernel, HasTurn
<1>5. CASE ~Shared(next.kind)
  <2>1. StartsBeside'
    BY <1>1, <1>5 DEF StartsBeside
  <2>2. QED
    BY <1>1, <1>3, <1>4, <2>1 DEF Keeps, Slot, Calm
<1>6. CASE Shared(next.kind)
  <2> SUFFICES ASSUME Calm'
               PROVE  /\ SlotNamesTheRetired'
                      /\ \A d \in Calls : StartsAlone(d)' /\ JoinsTheRetired(d)'
    BY <1>1, <1>3, <1>4 DEF Keeps, Slot
  <2>1. /\ SlotNamesTheRetired /\ retiring = NoKernel /\ NoneInUse
        /\ \A d \in Calls : StartsAlone(d) /\ JoinsTheRetired(d)
        /\ recovery = NoKernel /\ recovery' = c /\ next.pc = "sharing"
    BY <1>3, <1>6, BesideStays DEF Calm, Orderly, Slot, outside
  <2>2. NoneInUse'
    BY <1>3, <2>1, SteadyInUse DEF Orderly, NoneInUse
  <2>3. SlotNamesTheRetired'
    BY <2>1, <2>2 DEF SlotNamesTheRetired, NoneInUse
  <2>4. ASSUME NEW d \in Calls
        PROVE  StartsAlone(d)'
    <3>1. d # c => ~Pending(d)'
      BY <1>1, <2>1, LifecycleAssumption DEF StartsAlone, Pending, Kernels
    <3>2. QED
      BY <2>1, <2>2, <3>1 DEF StartsAlone
  <2>5. ASSUME NEW d \in Calls, (call[d].pc = "joining")'
        PROVE  JoinsTheRetired(d)'
    <3>1. d # c /\ call'[d] = call[d] /\ call[d].pc = "joining" /\ call[d].on \in Kernels
      BY <1>1, <2>1, <2>5 DEF OthersKept, Orderly, Sound, Typed, CallSound, CallRecords
    <3>2. kernel'[call[d].on].state = kernel[call[d].on].state
      BY <1>1, <3>1
    <3>3. \A e \in Calls : NotOnTheWay(e)'
      <4>1. NotOnTheWay(c)'
        BY <1>1, <1>2 DEF NotOnTheWay
      <4>2. ASSUME NEW e \in Calls, e # c PROVE ~Pending(e)'
        BY <1>1, <2>1, <4>2, LifecycleAssumption DEF StartsAlone, Pending, Kernels
      <4>3. QED
        BY <4>1, <4>2 DEF NotOnTheWay
    <3>4. QED
      BY <2>1, <2>2, <3>1, <3>2, <3>3 DEF JoinsTheRetired
  <2>6. QED
    BY <2>3, <2>4, <2>5 DEF JoinsTheRetired
<1>7. QED
  BY <1>5, <1>6

LEMMA StartOrShareKeeps ==
    ASSUME Orderly, NEW c \in Calls, NEW next \in CallRecords, StartOrShare(c, next),
           attempt[c].pc = "none",
           UNCHANGED <<outside, live, retiring, queue, generation>>,
           Calm => retiring = NoKernel /\ NoneInUse
    PROVE  Keeps(c)
<1>1. CASE Shared(next.kind) /\ recovery # NoKernel
  <2> DEFINE r == [next EXCEPT !.pc = "sharing", !.on = recovery]
  <2>1. r \in CallRecords /\ r.pc = "sharing"
    BY <1>1 DEF Orderly, Sound, Typed, CallRecords, CallSteps, Kernels
  <2>2. call' = [call EXCEPT ![c] = r] /\ UNCHANGED <<kernel, attempt, recovery>>
    BY <1>1 DEF StartOrShare
  <2> HIDE DEF r
  <2>3. call'[c] = r /\ OthersKept(c)
    BY <2>1, <2>2, CallBecomes DEF Orderly, Sound
  <2>4. TurnSound(c)'
    BY <2>1, <2>3 DEF TurnSound, OnKernel, HasTurn
  <2>5. QED
    BY <2>1, <2>2, <2>3, <2>4, QuietKeeps DEF slots
<1>2. CASE ~(Shared(next.kind) /\ recovery # NoKernel) /\ backend # "registered"
  <2>1. Settle(c, "no-backend") /\ UNCHANGED <<kernel, attempt, recovery>>
    BY <1>2 DEF StartOrShare
  <2>2. QED
    BY <2>1, SettledKeeps DEF Results, slots
<1>3. CASE ~(Shared(next.kind) /\ recovery # NoKernel) /\ backend = "registered"
  <2> DEFINE r == [next EXCEPT !.pc = IF Shared(next.kind) THEN "sharing" ELSE "replacing",
                               !.on = IF Shared(next.kind) THEN c ELSE NoKernel]
  <2>1. /\ r \in CallRecords /\ r.kind = next.kind
        /\ r.pc = IF Shared(next.kind) THEN "sharing" ELSE "replacing"
    BY DEF CallRecords, CallSteps, Kernels
  <2>2. /\ Begin(c, NoKernel, r)
        /\ Shared(next.kind) => recovery = NoKernel /\ recovery' = c
    BY <1>3 DEF StartOrShare
  <2> HIDE DEF r
  <2>3. QED
    BY <2>1, <2>2, BegunKeeps
<1>4. QED
  BY <1>1, <1>2, <1>3

-----------------------------------------------------------------------------
(* The steps of a call keep the order. *)

LEMMA AskKeeps == ASSUME Orderly, NEW c \in Calls, NEW kind \in Kinds, Ask(c, kind) PROVE Keeps(c)
<1> DEFINE next == [Idle(policy) EXCEPT !.kind = kind]
<1>1. next \in CallRecords /\ next.kind = kind
  BY LifecycleAssumption DEF CallRecords, CallSteps, Results, Idle, Orderly, Sound, Typed
<1>2. attempt[c].pc = "none" /\ UNCHANGED <<outside, live, retiring, retired, generation>>
  BY DEF Ask, Orderly, Sound, CallSound
<1>3. \/ /\ call' = [call EXCEPT ![c] = [next EXCEPT !.pc = "settled", !.res = "refused"]]
         /\ UNCHANGED <<queue, kernel, attempt, recovery>>
      \/ live # NoKernel /\ Enqueue(c, live, next) /\ UNCHANGED <<kernel, attempt, recovery>>
      \/ /\ retiring # NoKernel
         /\ call' = [call EXCEPT ![c] = [next EXCEPT !.pc = "joining", !.on = retiring]]
         /\ UNCHANGED <<queue, kernel, attempt, recovery>>
      \/ live = NoKernel /\ retiring = NoKernel /\ StartOrShare(c, next) /\ UNCHANGED queue
  BY Zenon DEF Ask, Waits
<1> HIDE DEF next
<1>4. ASSUME call' = [call EXCEPT ![c] = [next EXCEPT !.pc = "settled", !.res = "refused"]],
             UNCHANGED <<queue, kernel, attempt, recovery>>
      PROVE  Keeps(c)
  <2> DEFINE r == [next EXCEPT !.pc = "settled", !.res = "refused"]
  <2>1. r \in CallRecords /\ r.pc = "settled"
    BY <1>1 DEF CallRecords, CallSteps, Results
  <2>2. call' = [call EXCEPT ![c] = r]
    BY <1>4
  <2> HIDE DEF r
  <2>3. call'[c] = r /\ OthersKept(c)
    BY <2>1, <2>2, CallBecomes DEF Orderly, Sound
  <2>4. TurnSound(c)'
    BY <2>1, <2>3 DEF TurnSound, OnKernel, HasTurn
  <2>5. QED
    BY <1>2, <1>4, <2>1, <2>3, <2>4, QuietKeeps DEF slots
<1>5. ASSUME live # NoKernel, Enqueue(c, live, next), UNCHANGED <<kernel, attempt, recovery>>
      PROVE  Keeps(c)
  <2>1. live \in Kernels /\ live \in Published
    BY <1>5, OldKernels DEF Orderly, Sound, Typed, OnlyTheLiveOneIsActive
  <2>2. QED
    BY <1>1, <1>2, <1>5, <2>1, EnqueuedKeeps DEF slots
<1>6. ASSUME retiring # NoKernel,
             call' = [call EXCEPT ![c] = [next EXCEPT !.pc = "joining", !.on = retiring]],
             UNCHANGED <<queue, kernel, attempt, recovery>>
      PROVE  Keeps(c)
  <2> DEFINE r == [next EXCEPT !.pc = "joining", !.on = retiring]
  <2>1. r \in CallRecords /\ r.pc = "joining" /\ r.on = retiring
    BY <1>1 DEF CallRecords, CallSteps, Orderly, Sound, Typed
  <2>2. call' = [call EXCEPT ![c] = r]
    BY <1>6
  <2> HIDE DEF r
  <2>3. call'[c] = r /\ OthersKept(c)
    BY <2>1, <2>2, CallBecomes DEF Orderly, Sound
  <2>4. TurnSound(c)'
    BY <2>1, <2>3 DEF TurnSound, OnKernel, HasTurn
  <2>5. QED
    BY <1>2, <1>6, <2>1, <2>3, <2>4, QuietKeeps DEF slots
<1>7. ASSUME live = NoKernel, retiring = NoKernel, StartOrShare(c, next), UNCHANGED queue
      PROVE  Keeps(c)
  <2>1. Calm => NoneInUse
    BY <1>7, LifecycleAssumption DEF Orderly, Slot, SlotNamesTheRetired, NoneInUse, Kernels
  <2>2. QED
    BY <1>1, <1>2, <1>7, <2>1, StartOrShareKeeps
<1>8. QED
  BY <1>3, <1>4, <1>5, <1>6, <1>7

LEMMA JoinedKeeps == ASSUME Orderly, NEW c \in Calls, Joined(c) PROVE Keeps(c)
<1>1. /\ call[c] \in CallRecords /\ attempt[c].pc = "none" /\ call[c].pc = "joining"
      /\ UNCHANGED <<outside, live, retiring, retired, queue, generation>>
  BY DEF Joined, Orderly, Sound, Typed, CallSound
<1>2. CASE kernel[call[c].on].state = "closed" /\ StartOrShare(c, call[c])
  <2>1. Calm => retiring = NoKernel /\ NoneInUse
    BY <1>1, <1>2 DEF Orderly, Slot, JoinsTheRetired
  <2>2. QED
    BY <1>1, <1>2, <2>1, StartOrShareKeeps
<1>3. CASE Settle(c, "unjoined") /\ UNCHANGED <<kernel, attempt, recovery>>
  BY <1>1, <1>3, SettledKeeps DEF Results, slots
<1>4. QED
  BY <1>2, <1>3 DEF Joined

LEMMA RecoveredKeeps == ASSUME Orderly, NEW c \in Calls, Recovered(c) PROVE Keeps(c)
<1>1. /\ call[c] \in CallRecords /\ call[c].on \in Calls /\ call[c].on \in Kernels
      /\ UNCHANGED <<outside, slots, kernel, attempt, generation>>
  BY DEF Recovered, Orderly, Sound, Typed, CallSound, Kernels
<1>2. CASE attempt[call[c].on].pc = "done" /\ Enqueue(c, call[c].on, call[c])
  <2>1. call[c].on \in Published
    BY <1>1, <1>2 DEF Published
  <2>2. QED
    BY <1>1, <1>2, <2>1, EnqueuedKeeps
<1>3. CASE Settle(c, "failed")
  BY <1>1, <1>3, SettledKeeps DEF Results
<1>4. QED
  BY <1>2, <1>3 DEF Recovered

LEMMA AbortKeeps == ASSUME Orderly, NEW c \in Calls, Abort(c) \/ Interrupt(c) PROVE Keeps(c)
<1> DEFINE r == [call[c] EXCEPT !.cut = TRUE]
<1>1. r \in CallRecords /\ r.pc = call[c].pc /\ r.kind = call[c].kind /\ r.on = call[c].on
  BY DEF Orderly, Sound, Typed, CallRecords
<1>2. call' = [call EXCEPT ![c] = r] /\ UNCHANGED <<outside, slots, kernel, attempt, generation>>
  BY DEF Abort, Interrupt
<1> HIDE DEF r
<1>3. call'[c] = r /\ OthersKept(c)
  BY <1>1, <1>2, CallBecomes DEF Orderly, Sound
<1>4. TurnSound(c)'
  BY <1>1, <1>2, <1>3 DEF Orderly, TurnSound, OnKernel, Published
<1>5. QED
  BY <1>1, <1>2, <1>3, <1>4, QuietKeeps

LEMMA GiveUpKeeps == ASSUME Orderly, NEW c \in Calls, GiveUp(c) PROVE Keeps(c)
BY SettledKeeps DEF GiveUp, Results

LEMMA EndExecutionKeeps == ASSUME Orderly, NEW c \in Calls, EndExecution(c) PROVE Keeps(c)
<1>1. PICK b \in BOOLEAN : call' = [call EXCEPT ![c] = [@ EXCEPT !.pc = "committing", !.bad = b]]
  BY DEF EndExecution
<1> DEFINE r == [call[c] EXCEPT !.pc = "committing", !.bad = b]
<1>2. call[c] \in CallRecords /\ call[c].pc = "running"
  BY DEF Orderly, Sound, Typed, EndExecution
<1>3. r \in CallRecords /\ r.pc = "committing" /\ r.kind = call[c].kind /\ r.on = call[c].on
  BY <1>2 DEF CallRecords, CallSteps
<1>4. call' = [call EXCEPT ![c] = r] /\ UNCHANGED <<outside, slots, kernel, attempt, generation>>
  BY <1>1 DEF EndExecution, Orderly, Sound, Typed
<1> HIDE DEF r
<1>5. call'[c] = r /\ OthersKept(c)
  BY <1>3, <1>4, CallBecomes DEF Orderly, Sound
<1>6. TurnSound(c)'
  BY <1>2, <1>3, <1>4, <1>5 DEF Orderly, TurnSound, OnKernel, HasTurn, Published
<1>7. QED
  BY <1>3, <1>4, <1>5, <1>6, QuietKeeps

LEMMA StartTaskKeeps == ASSUME Orderly, NEW c \in Calls, StartTask(c) PROVE Keeps(c)
<1>1. /\ call[c] \in CallRecords /\ call[c].pc = "queued" /\ kernel[call[c].on].state = "active"
      /\ UNCHANGED <<outside, slots, generation>>
  BY DEF Orderly, Sound, Typed, StartTask, AtHead, Usable
<1>2. CASE Shared(call[c].kind)
  <2> DEFINE r == [call[c] EXCEPT !.pc = IF call[c].kind = "run" THEN "running" ELSE "inspecting"]
  <2>1. /\ r \in CallRecords /\ r.pc \in {"running", "inspecting"}
        /\ r.kind = call[c].kind /\ r.on = call[c].on
    BY <1>1 DEF CallRecords, CallSteps
  <2>2. call' = [call EXCEPT ![c] = r] /\ UNCHANGED <<kernel, attempt>>
    BY <1>2 DEF StartTask
  <2> HIDE DEF r
  <2>3. call'[c] = r /\ OthersKept(c)
    BY <2>1, <2>2, CallBecomes DEF Orderly, Sound
  <2>4. TurnSound(c)'
    BY <1>1, <2>1, <2>2, <2>3 DEF Orderly, TurnSound, OnKernel, HasTurn, Published
  <2>5. QED
    BY <1>1, <2>1, <2>2, <2>3, <2>4, QuietKeeps
<1>3. CASE ~Shared(call[c].kind)
  <2> DEFINE r == [call[c] EXCEPT !.pc = "replacing"]
  <2>1. r \in CallRecords /\ r.pc = "replacing" /\ r.kind = call[c].kind
    BY <1>1 DEF CallRecords, CallSteps
  <2>2. Begin(c, call[c].on, r) /\ attempt[c].pc = "none" /\ call[c].on \in Kernels \cup {NoKernel}
    BY <1>1, <1>3 DEF StartTask, Orderly, Sound, CallSound, CallRecords
  <2> HIDE DEF r
  <2>3. QED
    BY <1>1, <1>3, <2>1, <2>2, BegunKeeps DEF slots
<1>4. QED
  BY <1>2, <1>3

(* A published kernel that is retired takes the slot, if it is free. *)
LEMMA RetiringKeepsSlot ==
    ASSUME Orderly, NEW k \in Kernels, Retire(k), k \in Published, Steady, KindsStay,
           UNCHANGED <<session, backend, recovery, attempt>>,
           \A d \in Calls : call'[d].pc = "joining" => call'[d] = call[d]
    PROVE  Slot'
<1> SUFFICES ASSUME Calm'
             PROVE  /\ SlotNamesTheRetired'
                    /\ \A c \in Calls : StartsAlone(c)' /\ JoinsTheRetired(c)'
  BY DEF Slot
<1>1. /\ SlotNamesTheRetired
      /\ \A c \in Calls : StartsAlone(c) /\ JoinsTheRetired(c)
  BY BesideStays DEF Orderly, Slot, Calm
<1>2. /\ \A j \in Kernels :
            /\ kernel'[j].proc = kernel[j].proc
            /\ kernel'[j].state = IF j = k /\ kernel[j].state = "active"
                                  THEN "closing" ELSE kernel[j].state
      /\ live' = IF live = k THEN NoKernel ELSE live
      /\ retiring' = IF retiring = NoKernel /\ kernel[k].state # "closed" THEN k ELSE retiring
  BY Closing DEF Orderly, Sound, Retire, BeginRetirement, Register
<1>3. /\ \A j \in Kernels : InUse(j)' => InUse(j)
      /\ Published' = Published
  BY SteadyInUse, SteadyPublished DEF Orderly
<1>4. kernel[k].state # "closed" => InUse(k)
  <2>1. kernel[k].state \in States /\ kernel[k].state # "none"
    BY LifecycleAssumption DEF Orderly, Sound, Typed, KernelRecords, AttemptSound, Published
  <2>2. QED
    BY <2>1 DEF InUse, States
<1>5. /\ retiring \in Kernels \cup {NoKernel} /\ live \in Kernels \cup {NoKernel}
      /\ NoKernel \notin Kernels
      /\ live # NoKernel => kernel[live].state = "active"
  BY LifecycleAssumption DEF Orderly, Sound, Typed, LiveSound
<1>6. SlotNamesTheRetired'
  <2>1. ASSUME NEW j \in Kernels, InUse(j)', j # live'
        PROVE  retiring' = j
    <3>1. CASE j = live
      <4>1. k = live /\ k = j
        BY <1>2, <2>1, <3>1
      <4>2. kernel[k].state = "active" /\ retiring = NoKernel
        BY <1>1, <1>5, <4>1 DEF SlotNamesTheRetired
      <4>3. QED
        BY <1>2, <4>1, <4>2
    <3>2. CASE j # live
      BY <1>1, <1>2, <1>3, <1>5, <2>1, <3>2 DEF SlotNamesTheRetired
    <3>3. QED
      BY <3>1, <3>2
  <2>2. ASSUME retiring' # NoKernel
        PROVE  live' = NoKernel /\ kernel'[retiring'].state \in Held
    <3>1. CASE retiring # NoKernel
      BY <1>1, <1>2, <1>5, <3>1 DEF SlotNamesTheRetired, Held
    <3>2. CASE retiring = NoKernel
      <4>1. k = live /\ kernel[k].state = "active"
        BY <1>1, <1>2, <1>4, <1>5, <2>2, <3>2 DEF SlotNamesTheRetired
      <4>2. QED
        BY <1>2, <3>2, <4>1 DEF Held
    <3>3. QED
      BY <3>1, <3>2
  <2>3. QED
    BY <2>1, <2>2 DEF SlotNamesTheRetired
<1>7. NoneInUse => NoneInUse' /\ retiring' = retiring
  BY <1>2, <1>3, <1>4 DEF NoneInUse
<1>8. ASSUME NEW c \in Calls
      PROVE  StartsAlone(c)'
  BY <1>1, <1>7 DEF StartsAlone, Pending
<1>9. ASSUME NEW c \in Calls, (call[c].pc = "joining")'
      PROVE  JoinsTheRetired(c)'
  <2>1. call'[c] = call[c] /\ call[c].on \in Kernels
    BY <1>9 DEF Orderly, Sound, Typed, CallSound, CallRecords
  <2>2. /\ kernel[call[c].on].state \in {"closed"} \cup Held
        /\ kernel'[call[c].on].state = kernel[call[c].on].state
    BY <1>1, <1>2, <1>9, <2>1 DEF JoinsTheRetired, Held
  <2>3. kernel[call[c].on].state \in Held => retiring' = call[c].on
    BY <1>1, <1>2, <1>5, <1>9, <2>1, LifecycleAssumption DEF JoinsTheRetired
  <2>4. kernel[call[c].on].state = "closed" => \A d \in Calls : NotOnTheWay(d)'
    BY <1>1, <1>2, <1>9, <2>1 DEF JoinsTheRetired, NotOnTheWay, Pending, Kernels
  <2>5. QED
    BY <1>1, <1>7, <1>9, <2>1, <2>2, <2>3, <2>4 DEF JoinsTheRetired
<1>10. QED
  BY <1>6, <1>8, <1>9 DEF JoinsTheRetired

LEMMA EndingKeeps ==
    ASSUME Orderly, NEW c \in Calls, NEW result \in Results,
           Settle(c, result), call[c].pc \in {"queued"} \cup HasTurn,
           Retire(call[c].on) \/ NoRetirement,
           UNCHANGED <<outside, recovery, generation, attempt>>
    PROVE  Keeps(c)
<1>1. call[c].on \in Kernels /\ call[c].on \in Published
  BY DEF Orderly, Sound, Typed, CallSound, CallRecords, TurnSound
<1>2. call'[c].pc = "settled" /\ call'[c].kind = call[c].kind /\ OthersKept(c)
  BY Settling DEF Orderly, Sound
<1>3. CASE Retire(call[c].on)
  <2>1. Steady /\ KindsStay
    BY <1>1, <1>2, <1>3, RetiringSteady, OtherKindsStay DEF Orderly
  <2>2. \A d \in Calls : call'[d].pc = "joining" => call'[d] = call[d]
    BY <1>2 DEF OthersKept
  <2>3. Slot'
    BY <1>1, <1>3, <2>1, <2>2, RetiringKeepsSlot DEF outside
  <2>4. TurnSound(c)'
    BY <1>2 DEF TurnSound, OnKernel, HasTurn
  <2>5. QED
    BY <1>2, <2>1, <2>3, <2>4 DEF Keeps
<1>4. CASE NoRetirement
  BY <1>4, SettledKeeps DEF NoRetirement, slots
<1>5. QED
  BY <1>3, <1>4

LEMMA EndOfTaskKeeps ==
    ASSUME Orderly, NEW c \in Calls, RejectTask(c) \/ CommitRun(c) \/ EndInspection(c)
    PROVE  Keeps(c)
<1>1. call[c].pc \in {"queued"} \cup HasTurn
  BY DEF RejectTask, CommitRun, EndInspection, HasTurn
<1>2. \E result \in Results : Settle(c, result)
  <2>1. CASE RejectTask(c)
    BY <2>1 DEF RejectTask, Results
  <2>2. CASE CommitRun(c)
    BY <2>2, Zenon DEF CommitRun, EndTask, Results
  <2>3. CASE EndInspection(c)
    BY <2>3 DEF EndInspection, EndTask, Results
  <2>4. QED
    BY <2>1, <2>2, <2>3
<1>3. Retire(call[c].on) \/ NoRetirement
  BY DEF RejectTask, CommitRun, EndInspection, EndTask
<1>4. UNCHANGED <<outside, recovery, generation, attempt>>
  BY DEF RejectTask, CommitRun, EndInspection, EndTask
<1>5. QED
  BY <1>1, <1>2, <1>3, <1>4, EndingKeeps

-----------------------------------------------------------------------------
(* The steps of a start. *)

LEMMA StartTimesOutKeeps == ASSUME Orderly, NEW c \in Calls, StartTimesOut(c) PROVE Keeps(c)
<1>1. \A d \in Calls : attempt'[d].pc = attempt[d].pc
  BY DEF StartTimesOut, Orderly, Sound, Typed, AttemptRecords
<1>2. UNCHANGED <<outside, slots, kernel, call, generation>>
  BY DEF StartTimesOut
<1>3. Steady /\ KindsStay /\ OthersKept(c)
  BY <1>1, <1>2 DEF Steady, StateMoves, KindsStay, OthersKept, slots
<1>4. Slot'
  BY <1>1, <1>2, <1>3, SlotUntouched, BesideStays DEF Orderly, outside
<1>5. TurnSound(c)'
  BY <1>2, <1>3, SteadyPublished DEF Orderly, TurnSound, OnKernel
<1>6. QED
  BY <1>3, <1>4, <1>5 DEF Keeps

LEMMA FailingKeeps ==
    ASSUME Orderly, NEW c \in Calls, FailStart(c),
           attempt[c].pc \in {"starting", "closing", "rollback"},
           UNCHANGED <<outside, live, retiring, kernel, retired, generation>>
    PROVE  Keeps(c)
<1>1. /\ attempt'[c].pc = "failed"
      /\ \A d \in Calls : d # c => attempt'[d] = attempt[d]
      /\ recovery' = (IF recovery = c THEN NoKernel ELSE recovery)
      /\ OthersKept(c)
      /\ IF call[c].pc = "replacing"
         THEN call'[c].pc = "settled" /\ call'[c].kind = call[c].kind ELSE call' = call
  BY Failing DEF Orderly, Sound
<1>2. Steady /\ KindsStay
  BY <1>1, OtherKindsStay DEF Steady, StateMoves
<1>3. Published' = Published
  BY <1>2, SteadyPublished DEF Orderly
<1>4. TurnSound(c)'
  BY <1>1, <1>3 DEF Orderly, TurnSound, OnKernel, HasTurn
<1>5. ASSUME Calm'
      PROVE  /\ SlotNamesTheRetired'
             /\ \A d \in Calls : StartsAlone(d)' /\ JoinsTheRetired(d)'
  <2>1. /\ SlotNamesTheRetired
        /\ \A d \in Calls : StartsAlone(d) /\ JoinsTheRetired(d)
    BY <1>2, <1>5, BesideStays DEF Orderly, Slot, Calm, outside
  <2>2. \A k \in Kernels : InUse(k)' <=> InUse(k)
    BY <1>3 DEF InUse
  <2>3. SlotNamesTheRetired'
    BY <2>1, <2>2 DEF SlotNamesTheRetired
  <2>4. ASSUME NEW d \in Calls
        PROVE  ~Pending(d)'
    <3>1. CASE d = c
      BY <1>1, <3>1 DEF Pending
    <3>2. CASE d # c
      BY <1>1, <2>1, <3>2 DEF Pending, StartsAlone
    <3>3. QED
      BY <3>1, <3>2
  <2>5. ASSUME NEW d \in Calls, (call[d].pc = "joining")'
        PROVE  JoinsTheRetired(d)'
    <3>1. call'[d] = call[d]
      BY <1>1, <2>5 DEF OthersKept
    <3>2. QED
      BY <2>1, <2>2, <2>4, <2>5, <3>1 DEF JoinsTheRetired, NoneInUse, NotOnTheWay
  <2>6. QED
    BY <2>3, <2>4, <2>5 DEF StartsAlone, JoinsTheRetired
<1>6. QED
  BY <1>1, <1>2, <1>4, <1>5 DEF Keeps, Slot

LEMMA ReceiveKeeps == ASSUME Orderly, NEW c \in Calls, Receive(c) PROVE Keeps(c)
<1>1. /\ attempt[c].pc = "starting" /\ kernel[c].proc = "up" /\ c \in Kernels
      /\ UNCHANGED <<outside, slots, call, generation>>
  BY DEF Receive, Kernels
<1>2. kernel[c].state = "none" /\ c \notin Published
  BY <1>1, LifecycleAssumption DEF Orderly, Sound, AttemptSound, Published
<1>3. /\ Pending(c)' /\ attempt'[c].pc # "starting"
      /\ \A d \in Calls : d # c => attempt'[d] = attempt[d]
      /\ \A k \in Kernels : k # c => kernel'[k] = kernel[k]
  <2>1. attempt' = [attempt EXCEPT ![c] = [@ EXCEPT !.pc = IF Wanted(c) THEN "publishing" ELSE "closing",
                                                    !.cut = FALSE]]
    BY DEF Receive
  <2>2. attempt'[c].pc \in {"publishing", "closing"}
    BY <2>1 DEF Orderly, Sound, Typed, AttemptRecords
  <2>3. QED
    BY <2>1, <2>2 DEF Receive, Orderly, Sound, Typed, Pending
<1>4. Steady /\ KindsStay /\ OthersKept(c)
  <2>1. CallStep(c) /\ ~(Publish(c) /\ Usable(c) /\ InPlace(c) /\ session = "open")
    BY <1>1 DEF CallStep, Publish
  <2>2. QED
    BY <1>1, <1>3, <2>1, CallStepSteady DEF Orderly, KindsStay, OthersKept, Pending
<1>5. Published' = Published
  BY <1>4, SteadyPublished DEF Orderly
<1>6. TurnSound(c)'
  <2>1. call[c].pc \in {"queued"} \cup HasTurn => call[c].on # c
    BY <1>2 DEF Orderly, TurnSound
  <2>2. OnKernel(c) => call[c].on \in Kernels
    BY DEF Orderly, Sound, Typed, CallSound, CallRecords, OnKernel, HasTurn
  <2>3. QED
    BY <1>1, <1>3, <1>5, <2>1, <2>2 DEF Orderly, TurnSound, OnKernel, HasTurn
<1>7. ASSUME Calm'
      PROVE  /\ SlotNamesTheRetired'
             /\ \A d \in Calls : StartsAlone(d)' /\ JoinsTheRetired(d)'
  <2>1. /\ SlotNamesTheRetired
        /\ \A d \in Calls : StartsAlone(d) /\ JoinsTheRetired(d)
    BY <1>1, <1>4, <1>7, BesideStays DEF Orderly, Slot, Calm, outside
  <2>2. ASSUME NEW k \in Kernels
        PROVE  InUse(k)' <=> InUse(k)
    BY <1>2, <1>3, <1>5 DEF InUse
  <2>3. retiring \in Kernels \cup {NoKernel} /\ (retiring # NoKernel => retiring # c)
    BY <1>2, <2>1 DEF SlotNamesTheRetired, Held, Orderly, Sound, Typed
  <2>4. SlotNamesTheRetired'
    BY <1>1, <1>3, <2>1, <2>2, <2>3 DEF SlotNamesTheRetired, slots
  <2>5. ASSUME NEW d \in Calls
        PROVE  StartsAlone(d)'
    <3>1. Pending(d)' => Pending(d)
      BY <1>1, <1>3 DEF Pending
    <3>2. QED
      BY <1>1, <2>1, <2>2, <3>1 DEF StartsAlone, NoneInUse, slots
  <2>6. ASSUME NEW d \in Calls, call[d].pc = "joining"
        PROVE  JoinsTheRetired(d)'
    <3>1. /\ call[d].on \in Kernels /\ call[d].on # c
          /\ kernel[call[d].on].state \in Held
      <4>1. call[d].on \in Kernels
        BY <2>6 DEF Orderly, Sound, Typed, CallSound, CallRecords
      <4>2. ~NotOnTheWay(c)
        BY <1>1 DEF NotOnTheWay, Pending
      <4>3. QED
        BY <1>2, <2>1, <2>6, <4>1, <4>2 DEF JoinsTheRetired, Held
    <3>2. QED
      BY <1>1, <1>3, <2>1, <2>6, <3>1 DEF JoinsTheRetired, Held, slots
  <2>7. QED
    BY <1>1, <2>4, <2>5, <2>6 DEF JoinsTheRetired
<1>8. QED
  BY <1>4, <1>6, <1>7 DEF Keeps, Slot

LEMMA RollbackKeeps ==
    ASSUME Orderly, NEW c \in Calls, Publish(c),
           ~(Usable(c) /\ InPlace(c) /\ session = "open")
    PROVE  Keeps(c)
<1>1. /\ attempt[c].pc = "publishing" /\ c \in Kernels
      /\ attempt' = [attempt EXCEPT ![c].pc = "rollback"]
      /\ MarkClosing({c}) /\ {c} \in SUBSET (Kernels \cup {NoKernel})
      /\ UNCHANGED <<outside, retiring, recovery, call, generation>>
  BY Zenon DEF Publish, BeginRetirement, Kernels
<1>2. /\ attempt'[c].pc = "rollback"
      /\ \A d \in Calls : d # c => attempt'[d] = attempt[d]
  BY <1>1 DEF Orderly, Sound, Typed, AttemptRecords
<1>3. /\ \A k \in Kernels :
            /\ kernel'[k].proc = kernel[k].proc
            /\ kernel'[k].state = IF k = c /\ kernel[k].state = "active"
                                  THEN "closing" ELSE kernel[k].state
      /\ live' = live
  <2>1. live # c
    BY <1>1, LifecycleAssumption DEF Orderly, Sound, LiveSound
  <2>2. QED
    BY <1>1, <2>1, Closing DEF Orderly, Sound
<1>4. Steady /\ KindsStay /\ OthersKept(c)
  <2>1. Steady
    BY CallStepSteady DEF CallStep, Orderly
  <2>2. QED
    BY <1>1, <1>2, <2>1 DEF KindsStay, OthersKept
<1>5. Published' = Published /\ c \notin Published
  BY <1>1, <1>4, SteadyPublished, LifecycleAssumption DEF Orderly, Published
<1>6. TurnSound(c)'
  <2>1. call[c].pc \in {"queued"} \cup HasTurn => call[c].on # c
    BY <1>5 DEF Orderly, TurnSound
  <2>2. OnKernel(c) => call[c].on \in Kernels
    BY DEF Orderly, Sound, Typed, CallSound, CallRecords, OnKernel, HasTurn
  <2>3. QED
    BY <1>1, <1>3, <1>5, <2>1, <2>2 DEF Orderly, TurnSound, OnKernel, HasTurn
<1>7. ASSUME Calm'
      PROVE  /\ SlotNamesTheRetired'
             /\ \A d \in Calls : StartsAlone(d)' /\ JoinsTheRetired(d)'
  <2>1. /\ SlotNamesTheRetired
        /\ \A d \in Calls : StartsAlone(d) /\ JoinsTheRetired(d)
    BY <1>1, <1>4, <1>7, BesideStays DEF Orderly, Slot, Calm, outside
  <2>2. ASSUME NEW k \in Kernels
        PROVE  InUse(k)' <=> InUse(k)
    BY <1>3, <1>5 DEF InUse
  <2>3. retiring \in Kernels \cup {NoKernel}
    BY DEF Orderly, Sound, Typed
  <2>4. SlotNamesTheRetired'
    BY <1>1, <1>3, <2>1, <2>2, <2>3 DEF SlotNamesTheRetired, Held
  <2>5. ASSUME NEW d \in Calls
        PROVE  StartsAlone(d)'
    <3>1. Pending(d)' => Pending(d)
      BY <1>1, <1>2 DEF Pending
    <3>2. QED
      BY <1>1, <2>1, <2>2, <3>1 DEF StartsAlone, NoneInUse
  <2>6. ASSUME NEW d \in Calls, call[d].pc = "joining"
        PROVE  JoinsTheRetired(d)'
    <3>1. call[d].on \in Kernels
      BY <2>6 DEF Orderly, Sound, Typed, CallSound, CallRecords
    <3>2. kernel'[call[d].on].state = kernel[call[d].on].state
      BY <1>3, <2>1, <2>6, <3>1 DEF JoinsTheRetired, Held
    <3>3. \A e \in Calls : NotOnTheWay(e) => NotOnTheWay(e)'
      BY <1>1, <1>2, <1>3 DEF NotOnTheWay, Pending, Kernels
    <3>4. QED
      BY <1>1, <2>1, <2>2, <2>6, <3>1, <3>2, <3>3 DEF JoinsTheRetired, NoneInUse
  <2>7. QED
    BY <1>1, <2>4, <2>5, <2>6 DEF JoinsTheRetired
<1>8. QED
  BY <1>4, <1>6, <1>7 DEF Keeps, Slot

(* A kernel that is published when no other is in use. *)
LEMMA PublishKeepsOrder ==
    ASSUME Orderly, Sound', NEW c \in Calls, Publish(c), Usable(c), InPlace(c), session = "open"
    PROVE  Orderly'
<1>1. /\ attempt[c].pc = "publishing" /\ live # c /\ live' = c /\ c \in Kernels
      /\ attempt'[c].pc = "done"
      /\ \A d \in Calls : d # c => attempt'[d] = attempt[d]
      /\ \A k \in Kernels : kernel'[k].state = IF k = live THEN "closing" ELSE kernel[k].state
      /\ retiring' = (IF live # NoKernel /\ retiring = NoKernel THEN live ELSE retiring)
      /\ UNCHANGED outside
  BY Publishing DEF Orderly, Kernels
<1>2. /\ OthersKept(c)
      /\ IF call[c].pc = "replacing"
         THEN call'[c].pc = "settled" /\ call'[c].kind = call[c].kind ELSE call' = call
      /\ recovery' = IF recovery = c THEN NoKernel ELSE recovery
  BY Publishing, ReplacementEnds DEF Orderly, Results, FreeRecovery
<1>3. Published' = Published \cup {c} /\ c \notin Published
  BY PublishedGrows DEF Orderly
<1>4. KindsStay
  BY <1>1, <1>2, OtherKindsStay
<1>5. backend = "registered" /\ kernel[c].state = "active"
      /\ (live # NoKernel => live \in Published /\ kernel[live].state = "active")
  BY <1>1, OldKernels DEF Orderly, Sound, KernelSound, LiveSound, Usable, OnlyTheLiveOneIsActive
<1>6. ASSUME ~StartsBeside
      PROVE  /\ NoneInUse /\ live = NoKernel /\ retiring = NoKernel /\ recovery = c
             /\ \A d \in Calls : d # c => ~Pending(d)
             /\ \A d \in Calls : call[d].pc # "joining"
  <2>1. /\ SlotNamesTheRetired
        /\ \A d \in Calls : StartsAlone(d) /\ JoinsTheRetired(d)
    BY <1>5, <1>6 DEF Orderly, Slot, Calm
  <2>2. NoneInUse /\ recovery = c /\ retiring \in {NoKernel, c}
    BY <1>1, <2>1 DEF StartsAlone, Pending
  <2>3. live = NoKernel
    BY <1>5, <2>2 DEF Orderly, Sound, Typed, NoneInUse, InUse
  <2>4. retiring = NoKernel
    BY <1>1, <1>5, <2>1, <2>2 DEF SlotNamesTheRetired, Held
  <2>5. ASSUME NEW d \in Calls, call[d].pc = "joining"
        PROVE  FALSE
    <3>1. call[d].on \in Kernels
      BY <2>5 DEF Orderly, Sound, Typed, CallSound, CallRecords
    <3>2. ~NotOnTheWay(c)
      BY <1>1, <1>5 DEF NotOnTheWay, Pending
    <3>3. QED
      BY <2>1, <2>4, <2>5, <3>1, <3>2, LifecycleAssumption DEF JoinsTheRetired
  <2>6. \A d \in Calls : d # c => ~Pending(d)
    BY <2>1, <2>2 DEF StartsAlone
  <2>7. QED
    BY <2>2, <2>3, <2>4, <2>5, <2>6
<1>7. ASSUME ~StartsBeside
      PROVE  \A k \in Kernels : InUse(k)' => k = c
  BY <1>1, <1>3, <1>6, <1>7, LifecycleAssumption DEF InUse, NoneInUse
<1>8. StartsBeside' \/ OneInUse'
  BY <1>4, <1>7, BesideStays DEF OneInUse
<1>9. ASSUME NEW d \in Calls
      PROVE  TurnSound(d)'
  <2>1. CASE call'[d] = call[d]
    <3>1. OnKernel(d) => call[d].on \in Kernels
      BY DEF Orderly, Sound, Typed, CallSound, CallRecords, OnKernel, HasTurn
    <3>2. OnKernel(d) => kernel'[call[d].on].state \in {"active", "closing"}
      BY <1>1, <3>1 DEF Orderly, TurnSound
    <3>3. QED
      BY <1>3, <2>1, <3>2 DEF Orderly, TurnSound, OnKernel
  <2>2. CASE call'[d].pc = "settled"
    BY <2>2 DEF TurnSound, OnKernel, HasTurn
  <2>3. QED
    BY <1>2, <2>1, <2>2 DEF OthersKept
<1>10. ASSUME Calm'
       PROVE  /\ SlotNamesTheRetired'
              /\ \A d \in Calls : StartsAlone(d)' /\ JoinsTheRetired(d)'
  <2>1. ~StartsBeside
    BY <1>4, <1>10, BesideStays DEF Calm
  <2>2. SlotNamesTheRetired'
    BY <1>1, <1>6, <1>7, <2>1 DEF SlotNamesTheRetired
  <2>3. \A d \in Calls : ~Pending(d)'
    BY <1>1, <1>6, <2>1 DEF Pending
  <2>4. \A d \in Calls : (call[d].pc # "joining")'
    BY <1>2, <1>6, <2>1 DEF OthersKept
  <2>5. QED
    BY <2>2, <2>3, <2>4 DEF StartsAlone, JoinsTheRetired
<1>11. QED
  BY <1>8, <1>9, <1>10 DEF Orderly, Slot

LEMMA CallStepKeeps ==
    ASSUME Orderly, NEW c \in Calls, CallStep(c),
           ~(Publish(c) /\ Usable(c) /\ InPlace(c) /\ session = "open")
    PROVE  Keeps(c)
<1>1. CASE \E kind \in Kinds : Ask(c, kind)
  BY <1>1, AskKeeps
<1>2. CASE Joined(c) \/ Recovered(c)
  BY <1>2, JoinedKeeps, RecoveredKeeps
<1>3. CASE Abort(c) \/ Interrupt(c) \/ GiveUp(c)
  BY <1>3, AbortKeeps, GiveUpKeeps
<1>4. CASE StartTask(c) \/ EndExecution(c)
  BY <1>4, StartTaskKeeps, EndExecutionKeeps
<1>5. CASE RejectTask(c) \/ CommitRun(c) \/ EndInspection(c)
  BY <1>5, EndOfTaskKeeps
<1>6. CASE StartTimesOut(c) \/ Receive(c)
  BY <1>6, StartTimesOutKeeps, ReceiveKeeps
<1>7. CASE AbandonStart(c) \/ EndClose(c)
  BY <1>7, FailingKeeps DEF AbandonStart, EndClose
<1>8. CASE Publish(c)
  BY <1>8, RollbackKeeps
<1>9. QED
  BY <1>1, <1>2, <1>3, <1>4, <1>5, <1>6, <1>7, <1>8 DEF CallStep

-----------------------------------------------------------------------------
(* The steps of the provider and those from outside. *)

LEMMA NoCallKeeps ==
    ASSUME Orderly, UNCHANGED call, Steady, Slot',
           \A d \in Calls : attempt[d].pc # "none" => attempt'[d].pc # "none"
    PROVE  Keeps(NoKernel)
BY LifecycleAssumption DEF Keeps, KindsStay, OthersKept, Kernels

LEMMA JoinKeepsSlot == ASSUME Orderly, NEW k \in Kernels, Join(k) PROVE Slot'
<1>1. /\ kernel[k].state = "closing"
      /\ kernel'[k].state \in {"closed", "shutdown-failed"}
      /\ \A j \in Kernels : j # k => kernel'[j] = kernel[j]
      /\ UNCHANGED <<outside, live, recovery, call, attempt>>
      /\ retiring' = IF kernel'[k].state = "closed" /\ retiring = k THEN NoKernel ELSE retiring
  BY DEF Join, Orderly, Sound, Typed, KernelRecords
<1>2. Steady /\ KindsStay
  BY <1>1, KernelStepSteady DEF KernelStep, Orderly, KindsStay
<1>3. \A j \in Kernels : InUse(j)' => InUse(j)
  BY <1>2, SteadyInUse DEF Orderly
<1>4. ASSUME Calm'
      PROVE  /\ SlotNamesTheRetired'
             /\ \A d \in Calls : StartsAlone(d)' /\ JoinsTheRetired(d)'
  <2>1. /\ SlotNamesTheRetired
        /\ \A d \in Calls : StartsAlone(d) /\ JoinsTheRetired(d)
    BY <1>1, <1>2, <1>4, BesideStays DEF Orderly, Slot, Calm, outside
  <2>2. retiring \in Kernels \cup {NoKernel} /\ live \in Kernels \cup {NoKernel}
        /\ NoKernel \notin Kernels
    BY LifecycleAssumption DEF Orderly, Sound, Typed
  <2>3. InUse(k)' => kernel'[k].state = "shutdown-failed"
    BY <1>1 DEF InUse
  <2>4. SlotNamesTheRetired'
    <3>1. ASSUME NEW j \in Kernels, InUse(j)', j # live'
          PROVE  retiring' = j
      <4>1. retiring = j
        BY <1>1, <1>3, <2>1, <3>1 DEF SlotNamesTheRetired
      <4>2. QED
        BY <1>1, <2>3, <3>1, <4>1
    <3>2. retiring' # NoKernel => live' = NoKernel /\ kernel'[retiring'].state \in Held
      BY <1>1, <2>1, <2>2 DEF SlotNamesTheRetired, Held
    <3>3. QED
      BY <3>1, <3>2 DEF SlotNamesTheRetired
  <2>5. ASSUME NEW d \in Calls
        PROVE  StartsAlone(d)'
    BY <1>1, <1>3, <2>1 DEF StartsAlone, Pending, NoneInUse
  <2>6. ASSUME NEW d \in Calls, call[d].pc = "joining"
        PROVE  JoinsTheRetired(d)'
    <3>1. call[d].on \in Kernels
      BY <2>6 DEF Orderly, Sound, Typed, CallSound, CallRecords
    <3>2. CASE call[d].on # k
      <4>1. NoneInUse => NoneInUse'
        BY <1>3 DEF NoneInUse
      <4>2. \A e \in Calls : NotOnTheWay(e) => NotOnTheWay(e)'
        <5>1. \A e \in Calls : e = k => attempt[e].pc # "starting"
          BY <1>1 DEF Orderly, Sound, AttemptSound
        <5>2. QED
          BY <1>1, <5>1 DEF NotOnTheWay, Pending, Kernels
      <4>3. QED
        BY <1>1, <2>1, <2>6, <3>1, <3>2, <4>1, <4>2 DEF JoinsTheRetired, Held
    <3>3. CASE call[d].on = k
      <4>1. retiring = k /\ live = NoKernel
        BY <1>1, <2>1, <2>2, <2>6, <3>3 DEF JoinsTheRetired, SlotNamesTheRetired, Held
      <4>2. CASE kernel'[k].state = "shutdown-failed"
        BY <1>1, <3>3, <4>1, <4>2 DEF JoinsTheRetired, Held
      <4>3. CASE kernel'[k].state = "closed"
        <5>1. NoneInUse'
          <6>1. ASSUME NEW j \in Kernels, InUse(j)'
                PROVE  FALSE
            <7>1. j # k /\ j # live /\ InUse(j)
              BY <1>3, <2>2, <2>3, <4>1, <4>3, <6>1
            <7>2. QED
              BY <2>1, <4>1, <7>1 DEF SlotNamesTheRetired
          <6>2. QED
            BY <6>1 DEF NoneInUse
        <5>2. ASSUME NEW e \in Calls
              PROVE  NotOnTheWay(e)'
          <6>1. Pending(e) => e = k
            BY <2>1, <2>2, <4>1 DEF StartsAlone
          <6>2. attempt[e].pc = "starting" => kernel[e].state = "none"
            BY DEF Orderly, Sound, AttemptSound
          <6>3. QED
            BY <1>1, <4>3, <6>1, <6>2 DEF NotOnTheWay, Pending
        <5>3. QED
          BY <1>1, <3>3, <4>1, <4>3, <5>1, <5>2 DEF JoinsTheRetired, Held
      <4>4. QED
        BY <1>1, <4>2, <4>3
    <3>4. QED
      BY <3>2, <3>3
  <2>7. QED
    BY <1>1, <2>4, <2>5, <2>6 DEF JoinsTheRetired
<1>5. QED
  BY <1>4 DEF Slot

(* A process that starts, or a late kernel that is closed: no call has     *)
(* joined a kernel and not gone on yet, or none is looked at.              *)
LEMMA UnpublishedKeepsSlot ==
    ASSUME Orderly, Steady, UNCHANGED <<outside, slots, call, attempt>>,
           NEW k \in Kernels, \A j \in Kernels : j # k => kernel'[j] = kernel[j],
           \/ kernel'[k].state = kernel[k].state /\ JoinedCallsWentOn
           \/ k \in Calls /\ kernel[k].state = "none" /\ ~Pending(k)
    PROVE  Slot'
<1>1. KindsStay
  BY DEF KindsStay
<1>2. \A j \in Kernels : InUse(j)' => InUse(j)
  BY SteadyInUse DEF Orderly
<1>3. ASSUME Calm'
      PROVE  /\ SlotNamesTheRetired'
             /\ \A d \in Calls : StartsAlone(d)' /\ JoinsTheRetired(d)'
  <2>1. /\ SlotNamesTheRetired
        /\ \A d \in Calls : StartsAlone(d) /\ JoinsTheRetired(d)
    BY <1>1, <1>3, BesideStays DEF Orderly, Slot, Calm, outside
  <2>2. retiring \in Kernels \cup {NoKernel}
    BY DEF Orderly, Sound, Typed
  <2>3. \A j \in Kernels : kernel[j].state # "none" => kernel'[j].state = kernel[j].state
    OBVIOUS
  <2>4. SlotNamesTheRetired'
    BY <1>2, <2>1, <2>2, <2>3 DEF SlotNamesTheRetired, Held, slots
  <2>5. ASSUME NEW d \in Calls
        PROVE  StartsAlone(d)'
    BY <1>2, <2>1 DEF StartsAlone, Pending, NoneInUse, slots
  <2>6. ASSUME NEW d \in Calls, call[d].pc = "joining"
        PROVE  JoinsTheRetired(d)'
    <3>1. call[d].on \in Kernels
      BY <2>6 DEF Orderly, Sound, Typed, CallSound, CallRecords
    <3>2. kernel'[call[d].on].state = kernel[call[d].on].state
      BY <2>1, <2>3, <2>6, <3>1 DEF JoinsTheRetired, Held
    <3>3. kernel[call[d].on].state = "closed" => \A e \in Calls : NotOnTheWay(e)'
      <4>1. CASE JoinedCallsWentOn
        BY <2>6, <4>1 DEF JoinedCallsWentOn
      <4>2. CASE k \in Calls /\ kernel[k].state = "none" /\ ~Pending(k)
        BY <2>1, <2>6, <4>2 DEF JoinsTheRetired, NotOnTheWay, Pending, Kernels
      <4>3. QED
        BY <4>1, <4>2
    <3>4. QED
      BY <1>2, <2>1, <2>6, <3>1, <3>2, <3>3 DEF JoinsTheRetired, NoneInUse, slots
  <2>7. QED
    BY <2>4, <2>5, <2>6 DEF JoinsTheRetired
<1>4. QED
  BY <1>3 DEF Slot

LEMMA KernelStepKeeps == ASSUME Orderly, NEW k \in Kernels, KernelStep(k) PROVE Keeps(NoKernel)
<1>1. Steady /\ UNCHANGED <<call, attempt>>
  BY KernelStepSteady DEF Orderly, KernelStep, ShutDown, Join, ProcessStarts, CloseLate
<1>2. CASE ShutDown(k)
  <2>1. \A j \in Kernels : /\ kernel'[j].state = kernel[j].state
                           /\ j # k => kernel'[j] = kernel[j]
    BY <1>2 DEF ShutDown, Orderly, Sound, Typed, KernelRecords
  <2>2. kernel[k].proc = "up" /\ UNCHANGED <<outside, slots>>
    BY <1>2 DEF ShutDown
  <2>3. \A j \in Calls : kernel[j].proc = "starting" => kernel'[j].proc = "starting"
    BY <2>1, <2>2 DEF Kernels
  <2>4. StartsBeside => StartsBeside'
    BY <1>1 DEF StartsBeside
  <2>5. Slot'
    BY <1>1, <2>1, <2>2, <2>3, <2>4, SlotUntouched DEF Orderly, outside
  <2>6. QED
    BY <1>1, <2>5, NoCallKeeps
<1>3. CASE Join(k)
  BY <1>1, <1>3, JoinKeepsSlot, NoCallKeeps
<1>4. CASE ProcessStarts(k)
  <2>1. /\ kernel'[k].state = kernel[k].state
        /\ \A j \in Kernels : j # k => kernel'[j] = kernel[j]
    BY <1>4 DEF ProcessStarts, Orderly, Sound, Typed, KernelRecords
  <2>2. Slot'
    BY <1>1, <1>4, <2>1, UnpublishedKeepsSlot DEF ProcessStarts
  <2>3. QED
    BY <1>1, <2>2, NoCallKeeps
<1>5. CASE CloseLate(k)
  <2>1. \A j \in Kernels : j # k => kernel'[j] = kernel[j]
    BY <1>5 DEF CloseLate, Orderly, Sound, Typed
  <2>2. Slot'
    BY <1>1, <1>5, <2>1, UnpublishedKeepsSlot DEF CloseLate, Late, Pending
  <2>3. QED
    BY <1>1, <2>2, NoCallKeeps
<1>6. QED
  BY <1>2, <1>3, <1>4, <1>5 DEF KernelStep

LEMMA ChangePolicyKeepsSlot ==
    ASSUME Orderly, NEW p \in Policies, ChangePolicy(p), Steady
    PROVE  Slot'
<1>1. /\ UNCHANGED <<recovery, call, session, backend>>
      /\ \A d \in Calls : attempt'[d].pc = attempt[d].pc
  BY PolicyCutsStarts DEF ChangePolicy, Orderly
<1>2. KindsStay
  BY <1>1 DEF KindsStay
<1>3. \A j \in Kernels : InUse(j)' => InUse(j)
  BY SteadyInUse DEF Orderly
<1>4. ASSUME Calm'
      PROVE  /\ SlotNamesTheRetired'
             /\ \A d \in Calls : StartsAlone(d)' /\ JoinsTheRetired(d)'
  <2>1. /\ SlotNamesTheRetired /\ Calm
        /\ \A d \in Calls : StartsAlone(d) /\ JoinsTheRetired(d)
    BY <1>1, <1>2, <1>4, BesideStays DEF Orderly, Slot, Calm
  <2>2. /\ retiring \in Kernels \cup {NoKernel} /\ live \in Kernels \cup {NoKernel}
        /\ NoKernel \notin Kernels
    BY LifecycleAssumption DEF Orderly, Sound, Typed
  <2>3. Stale(p) \in SUBSET (Kernels \cup {NoKernel}) /\ Stale(p) \subseteq Kernels
    BY DEF Stale
  <2>4. /\ \A j \in Kernels :
              /\ kernel'[j].proc = kernel[j].proc
              /\ kernel'[j].state = IF j \in Stale(p) /\ kernel[j].state = "active"
                                    THEN "closing" ELSE kernel[j].state
        /\ live' = IF live \in Stale(p) THEN NoKernel ELSE live
    BY <2>1, <2>3, Closing DEF ChangePolicy, BeginRetirement, Calm, Orderly, Sound
  <2>5. \A j \in Stale(p) :
           /\ kernel[j].state = "active"
           /\ j = live \/ (j \in Calls /\ attempt[j].pc = "publishing")
    BY DEF Stale, Orderly, Sound, KernelSound
  <2>6. \/ Stale(p) = {} /\ retiring' = retiring
        \/ \E k \in Stale(p) :
              /\ live \in Stale(p) => k = live
              /\ retiring' = IF retiring = NoKernel THEN k ELSE retiring
    BY <2>1, <2>5 DEF ChangePolicy, Register, Calm
  <2>7. live # NoKernel => InUse(live) /\ kernel[live].state = "active"
    BY <2>2, OldKernels DEF Orderly, OnlyTheLiveOneIsActive, InUse, Sound, LiveSound
  <2>8. SlotNamesTheRetired'
    <3>1. ASSUME NEW j \in Kernels, InUse(j)', j # live'
          PROVE  retiring' = j
      <4>1. CASE j = live
        <5>1. live \in Stale(p) /\ retiring = NoKernel
          BY <2>1, <2>2, <2>4, <3>1, <4>1 DEF SlotNamesTheRetired
        <5>2. QED
          BY <2>6, <4>1, <5>1
      <4>2. CASE j # live
        <5>1. retiring = j
          BY <1>3, <2>1, <3>1, <4>2 DEF SlotNamesTheRetired
        <5>2. QED
          BY <2>2, <2>6, <5>1
      <4>3. QED
        BY <4>1, <4>2
    <3>2. ASSUME retiring' # NoKernel
          PROVE  live' = NoKernel /\ kernel'[retiring'].state \in Held
      <4>1. CASE retiring # NoKernel
        <5>1. retiring' = retiring /\ live = NoKernel /\ kernel[retiring].state \in Held
          BY <2>1, <2>6, <4>1 DEF SlotNamesTheRetired
        <5>2. QED
          BY <2>2, <2>4, <4>1, <5>1 DEF Held
      <4>2. CASE retiring = NoKernel
        <5>1. /\ retiring' \in Stale(p) /\ (live \in Stale(p) => retiring' = live)
          BY <2>6, <3>2, <4>2
        <5>2. kernel'[retiring'].state = "closing"
          BY <2>3, <2>4, <2>5, <5>1
        <5>3. live' = NoKernel
          <6>1. CASE retiring' = live
            BY <2>4, <5>1, <6>1
          <6>2. CASE retiring' # live
            <7>1. NoneInUse
              BY <2>1, <2>5, <5>1, <6>2 DEF StartsAlone, Pending
            <7>2. live = NoKernel
              BY <2>2, <2>7, <7>1 DEF NoneInUse
            <7>3. QED
              BY <2>4, <7>2
          <6>3. QED
            BY <6>1, <6>2
        <5>4. QED
          BY <5>2, <5>3 DEF Held
      <4>3. QED
        BY <4>1, <4>2
    <3>3. QED
      BY <3>1, <3>2 DEF SlotNamesTheRetired
  <2>9. ASSUME NEW d \in Calls, Pending(d)
        PROVE  StartsAlone(d)'
    <3>1. recovery = d /\ NoneInUse /\ retiring \in {NoKernel, d}
      BY <2>1, <2>9 DEF StartsAlone
    <3>2. \A j \in Stale(p) : j = d
      <4>1. live = NoKernel
        BY <2>2, <2>7, <3>1 DEF NoneInUse
      <4>2. QED
        BY <2>1, <2>2, <2>3, <2>5, <3>1, <4>1 DEF StartsAlone, Pending
    <3>3. QED
      BY <1>1, <1>3, <2>6, <3>1, <3>2 DEF StartsAlone, Pending, NoneInUse
  <2>10. ASSUME NEW d \in Calls, call[d].pc = "joining"
         PROVE  JoinsTheRetired(d)'
    <3>1. call[d].on \in Kernels
      BY <2>10 DEF Orderly, Sound, Typed, CallSound, CallRecords
    <3>2. kernel'[call[d].on].state = kernel[call[d].on].state
      BY <2>1, <2>4, <2>10, <3>1 DEF JoinsTheRetired, Held
    <3>3. CASE kernel[call[d].on].state \in Held
      BY <1>1, <2>1, <2>2, <2>6, <2>10, <3>1, <3>2, <3>3 DEF JoinsTheRetired, Held
    <3>4. CASE kernel[call[d].on].state = "closed"
      <4>1. /\ retiring = NoKernel /\ NoneInUse
            /\ \A e \in Calls : NotOnTheWay(e)
        BY <2>1, <2>10, <3>4 DEF JoinsTheRetired
      <4>2. Stale(p) = {}
        BY <2>2, <2>3, <2>5, <2>7, <4>1 DEF NoneInUse, NotOnTheWay, Pending
      <4>3. \A e \in Calls : NotOnTheWay(e)'
        BY <1>1, <2>4, <4>1 DEF NotOnTheWay, Pending, Kernels
      <4>4. QED
        BY <1>1, <1>3, <2>6, <3>2, <3>4, <4>1, <4>2, <4>3 DEF JoinsTheRetired, NoneInUse, Held
    <3>5. QED
      BY <2>1, <2>10, <3>3, <3>4 DEF JoinsTheRetired
  <2>11. QED
    BY <1>1, <2>8, <2>9, <2>10 DEF JoinsTheRetired, StartsAlone, Pending
<1>5. QED
  BY <1>4 DEF Slot

LEMMA OutsideKeeps == ASSUME Orderly, Outside PROVE Keeps(NoKernel)
<1>1. Steady /\ UNCHANGED call
  BY OutsideSteady DEF Orderly, Outside, ChangePolicy, Reload, DisposeSession, SessionDisposed,
                       SessionForgotten, DisposeBackend, BackendDisposed
<1>2. ASSUME NEW p \in Policies, ChangePolicy(p)
      PROVE  Keeps(NoKernel)
  BY <1>1, <1>2, ChangePolicyKeepsSlot, PolicyCutsStarts, NoCallKeeps DEF Orderly
<1>3. CASE Reload
  <2>1. /\ live \in Kernels /\ live \in Published /\ Retire(live)
        /\ UNCHANGED <<policy, session, backend, doomed, recovery, attempt>>
    BY <1>3, OldKernels DEF Reload, Orderly, Sound, Typed, OnlyTheLiveOneIsActive
  <2>2. KindsStay
    BY <1>1, <2>1 DEF KindsStay
  <2>3. Slot'
    BY <1>1, <2>1, <2>2, RetiringKeepsSlot
  <2>4. QED
    BY <1>1, <2>1, <2>3, NoCallKeeps
<1>4. CASE DisposeSession \/ SessionDisposed \/ SessionForgotten \/ DisposeBackend \/ BackendDisposed
  <2>1. ~Calm' /\ UNCHANGED attempt
    BY <1>4 DEF DisposeSession, SessionDisposed, SessionForgotten, DisposeBackend,
                BackendDisposed, Calm
  <2>2. QED
    BY <1>1, <2>1, NoCallKeeps DEF Slot
<1>5. QED
  BY <1>2, <1>3, <1>4 DEF Outside

LEMMA StutterKeeps == ASSUME Orderly, UNCHANGED vars PROVE Keeps(NoKernel)
<1>1. Steady /\ UNCHANGED <<call, attempt>>
  BY StutterSteady DEF Orderly, vars
<1>2. StartsBeside => StartsBeside'
  BY <1>1 DEF StartsBeside
<1>3. Slot'
  BY <1>1, <1>2, SlotUntouched DEF Orderly, vars, slots
<1>4. QED
  BY <1>1, <1>3, NoCallKeeps

LEMMA OrderlyInit == Init => Orderly
<1> SUFFICES ASSUME Init
             PROVE  Orderly
  OBVIOUS
<1>1. Sound
  BY SoundInit
<1>2. \A k \in Kernels : InUse(k) => k = live
  BY LifecycleAssumption DEF Init, InUse, Published, NoAttempt, Kernels
<1>3. OneInUse
  BY <1>2 DEF OneInUse
<1>4. \A c \in Calls : TurnSound(c) /\ StartsAlone(c) /\ JoinsTheRetired(c)
  BY DEF Init, TurnSound, StartsAlone, JoinsTheRetired, Pending, Idle, NoAttempt, HasTurn, OnKernel
<1>5. SlotNamesTheRetired
  BY <1>2 DEF Init, SlotNamesTheRetired
<1>6. QED
  BY <1>1, <1>3, <1>4, <1>5 DEF Orderly, Slot

LEMMA NextOrderly == Orderly /\ [Next]_vars => Orderly'
<1> SUFFICES ASSUME Orderly, [Next]_vars
             PROVE  Orderly'
  OBVIOUS
<1>1. Sound'
  BY NextSound DEF Orderly
<1>2. ASSUME NEW c \in Calls, CallStep(c)
      PROVE  Orderly'
  <2>1. CASE Publish(c) /\ Usable(c) /\ InPlace(c) /\ session = "open"
    BY <1>1, <2>1, PublishKeepsOrder
  <2>2. CASE ~(Publish(c) /\ Usable(c) /\ InPlace(c) /\ session = "open")
    BY <1>1, <1>2, <2>2, CallStepKeeps, KeepsOrderly
  <2>3. QED
    BY <2>1, <2>2
<1>3. ASSUME NEW k \in Kernels, KernelStep(k)
      PROVE  Orderly'
  BY <1>1, <1>3, KernelStepKeeps, KeepsOrderly
<1>4. QED
  BY <1>1, <1>2, <1>3, OutsideKeeps, StutterKeeps, KeepsOrderly DEF Next

(* Two runs are never on one kernel at once, and while no restart or       *)
(* attachment starts a kernel of its own they do not overlap on different  *)
(* kernels either.                                                         *)
THEOREM RunsApart == Spec => []RunsDoNotOverlap
<1>1. ASSUME Orderly
      PROVE  RunsDoNotOverlap
  <2>1. SUFFICES ASSUME NEW c \in Calls, NEW d \in Calls, OnKernel(c), OnKernel(d), c # d
                 PROVE  call[c].on # call[d].on /\ StartsBeside
    BY DEF RunsDoNotOverlap
  <2>2. /\ InFront(c, queue[call[c].on]) /\ InFront(d, queue[call[d].on])
        /\ call[c].on \in Kernels /\ call[d].on \in Kernels
    BY <1>1, <2>1 DEF Orderly, Sound, Typed, CallSound, CallRecords, OnKernel, HasTurn
  <2>3. call[c].on # call[d].on
    BY <2>1, <2>2 DEF InFront
  <2>4. InUse(call[c].on) /\ InUse(call[d].on)
    BY <1>1, <2>1 DEF Orderly, TurnSound, InUse, OnKernel, HasTurn
  <2>5. QED
    BY <1>1, <2>2, <2>3, <2>4 DEF Orderly, OneInUse
<1>2. QED
  BY <1>1, OrderlyInit, NextOrderly, PTL DEF Spec
=============================================================================
