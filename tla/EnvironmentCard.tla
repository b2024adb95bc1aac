--------------------------- MODULE EnvironmentCard ---------------------------
(***************************************************************************)
(* The environment card of one notebook: the operations its buttons start  *)
(* in the browser (NotebookView and NotebookEnvironmentCard), the Remote   *)
(* handlers that find a session for them (notebook-remote), and what they  *)
(* do to the uv manager, Python and the workspace's .venv, in one step     *)
(* each (notebook-environment-uv; EnvironmentProvisioning takes provision  *)
(* apart).                                                                 *)
(*                                                                         *)
(* An operation that starts aborts the one before it; the Host may finish  *)
(* an operation that was aborted all the same. The card keeps the catalog  *)
(* the last answer brought, and every handler works with the card as it    *)
(* was rendered when it was called.                                        *)
(***************************************************************************)
EXTENDS Naturals, Sequences

CONSTANTS
  None,
  MaxOps,     \* bound: operations started
  MaxFaults   \* bound: steps of others, and operations that fail

VARIABLES
  card,     \* the card: its flow, the latest operation, the document's kernel
  ops,      \* the operations, in the order they started
  host,     \* the uv manager, Python and the environment
  session,  \* where the Host has the session: "cold", "live" or "owned"
  spent     \* history: faults, and whether an operation failed or a change was given up

vars == <<card, ops, host, session, spent>>

Busy == {"installing-uv", "installing-python", "provisioning", "attaching"}
Phases == Busy \cup {"none", "checking", "required", "failed"}

\* The .venv: none, one without a sidecar (its Python usable or not), one that
\* DSH owns (without its dependencies, ready, or without a usable Python), and
\* one that is no environment of this workspace.
Environments == {"absent", "unmanaged", "unusable", "managed", "ready", "spoiled", "foreign"}

\* Discovery does not run a .venv that has no sidecar, and finds Python
\* whether there is a manager or not.
Provisioning == \E i \in DOMAIN ops : ops[i].kind = "provisioning" /\ ops[i].stage = "working"
Status(env) ==
  CASE Provisioning -> "provisioning"
    [] env \in {"spoiled", "foreign"} -> "broken"
    [] env = "ready" -> "ready"
    [] OTHER -> "setup-required"
Catalog(h) ==
  [manager |-> h.manager, python |-> h.python, status |-> Status(h.env),
   managed |-> h.env \in {"managed", "ready", "spoiled"}]

Operation(kind, allow, rebuild) ==
  [kind |-> kind, allow |-> allow, rebuild |-> rebuild, stage |-> "asked",
   answer |-> None, ok |-> FALSE, from |-> None, aborted |-> FALSE,
   previous |-> card.catalog]

Init ==
  /\ host \in [manager : {"missing", "ready"}, python : BOOLEAN, env : Environments]
  /\ session \in {"cold", "live", "owned"}
  /\ card \in [phase : {"none"}, catalog : {None}, current : {0}, picker : {FALSE}, attached : BOOLEAN]
  /\ ops = <<>>
  /\ spent = [faults |-> 0, failed |-> FALSE]

-----------------------------------------------------------------------------
(* The buttons *)

InFlight(op) == op.stage # "done"
AbortedBefore == [i \in DOMAIN ops |-> IF i = card.current THEN [ops[i] EXCEPT !.aborted = TRUE] ELSE ops[i]]
Overtakes == card.current # 0 /\ InFlight(ops[card.current]) /\ ops[card.current].kind # "checking"

Begin(kind, allow, rebuild) ==
  /\ Len(ops) < MaxOps
  /\ ops' = Append(AbortedBefore, Operation(kind, allow, rebuild))
  /\ card' = [card EXCEPT !.phase = kind, !.current = Len(ops) + 1]
  /\ spent' = [spent EXCEPT !.failed = @ \/ Overtakes]
  /\ UNCHANGED <<host, session>>

Shown == ~card.attached \/ card.picker
Idle == Shown /\ card.phase \notin Busy /\ card.catalog # None

\* A card that appears for the first time reads the catalog. The header's kernel
\* button reads it again as long as there is no kernel, and opens and closes
\* the card when there is one.
Appear == Shown /\ card.phase = "none" /\ Begin("checking", FALSE, FALSE)
Toggle ==
  IF ~card.attached THEN Begin("checking", FALSE, FALSE)
  ELSE /\ card' = [card EXCEPT !.picker = ~@]
       /\ UNCHANGED <<ops, host, session, spent>>
Retry == Shown /\ card.phase = "failed" /\ Begin("checking", FALSE, FALSE)

InstallUv == Idle /\ card.catalog.manager = "missing" /\ Begin("installing-uv", FALSE, FALSE)
InstallPython ==
  /\ Idle
  /\ card.catalog.manager = "ready"
  /\ ~card.catalog.python
  /\ Begin("installing-python", FALSE, FALSE)
Attach == Idle /\ card.catalog.status = "ready" /\ Begin("attaching", FALSE, FALSE)
\* Create the environment, or enable one that is there.
Setup ==
  /\ Idle
  /\ card.catalog.status = "setup-required"
  /\ card.catalog.manager = "ready"
  /\ card.catalog.python
  /\ Begin("provisioning", ~card.catalog.managed, FALSE)
Rebuild ==
  /\ Idle
  /\ card.catalog.status = "broken"
  /\ card.catalog.managed
  /\ card.catalog.manager = "ready"
  /\ Begin("provisioning", FALSE, TRUE)

Cancel ==
  /\ Shown
  /\ card.phase \in Busy
  /\ ops' = AbortedBefore
  /\ card' = [card EXCEPT !.phase = "required"]
  /\ spent' = [spent EXCEPT !.failed = TRUE]
  /\ UNCHANGED <<host, session>>

-----------------------------------------------------------------------------
(* The Host *)

Moves(i, op) == ops' = [ops EXCEPT ![i] = op] /\ UNCHANGED card
Goes(i, stage) == Moves(i, [ops[i] EXCEPT !.stage = stage])
Works(i, from) == Moves(i, [ops[i] EXCEPT !.stage = "working", !.from = from])
Fails(i) == Moves(i, [ops[i] EXCEPT !.stage = "answered", !.ok = FALSE])
Answers(i, h) ==
  Moves(i, [ops[i] EXCEPT !.stage = "answered", !.ok = TRUE, !.answer = Catalog(h)])

\* A resident session answers for itself; subagents' sessions are refused.
Resident(i, otherwise) ==
  CASE session = "live" -> Works(i, "live")
    [] session = "owned" -> Fails(i)
    [] session = "cold" -> otherwise

\* A read looks for the session's header among the stored ones and then for its
\* events, and looks again whether the session became resident meanwhile.
LookUp(i) ==
  /\ ops[i].kind = "checking"
  /\ ops[i].stage = "asked"
  /\ Resident(i, Goes(i, "listing"))
  /\ UNCHANGED <<host, session, spent>>
Listed(i) ==
  /\ ops[i].stage = "listing"
  /\ Resident(i, Goes(i, "inspecting"))
  /\ UNCHANGED <<host, session, spent>>
\* Mutant: the session is not looked for again after its events were read.
Inspected_Stored(i) ==
  /\ ops[i].stage = "inspecting"
  /\ Works(i, "stored")
  /\ UNCHANGED <<host, session, spent>>
Inspected(i) ==
  /\ ops[i].stage = "inspecting"
  /\ Resident(i, Works(i, "stored"))
  /\ UNCHANGED <<host, session, spent>>

\* The other operations resume the agent of the session.
Resume(i) ==
  /\ ops[i].kind # "checking"
  /\ ops[i].stage = "asked"
  /\ IF session = "owned" THEN Fails(i) /\ UNCHANGED session
     ELSE Works(i, "live") /\ session' = "live"
  /\ UNCHANGED <<host, spent>>

\* Only a ready environment that DSH owns launches a kernel.
Launchable == host.env = "ready"
HasUv == host.manager = "ready"

\* What provision does to each .venv, and whether it succeeds.
Provisioned(op, env, python) ==
  CASE env = "absent" -> IF python THEN "ready" ELSE None
    [] env = "unmanaged" -> IF op.allow /\ ~op.rebuild THEN "ready" ELSE None
    [] env = "managed" -> IF op.rebuild /\ ~python THEN None ELSE "ready"
    [] env = "ready" -> IF op.rebuild /\ ~python THEN None ELSE "ready"
    [] env = "spoiled" -> IF op.rebuild /\ python THEN "ready" ELSE None
    [] OTHER -> None

\* The provider refuses to provision an environment twice at a time. Both calls
\* await the workspace before they look, so either may be the one refused.
Taken(i) == \E j \in DOMAIN ops \ {i} : ops[j].kind = "provisioning" /\ ops[j].stage = "working"
Done(i) ==
  LET op == ops[i]
      env == Provisioned(op, host.env, host.python)
  IN  CASE op.kind = "checking" -> Answers(i, host) /\ UNCHANGED host
        [] op.kind = "installing-uv" ->
             host' = [host EXCEPT !.manager = "ready"] /\ Answers(i, host')
        [] op.kind = "installing-python" ->
             IF ~HasUv THEN Fails(i) /\ UNCHANGED host
             ELSE host' = [host EXCEPT !.python = TRUE] /\ Answers(i, host')
        [] op.kind = "provisioning" ->
             IF Taken(i) \/ ~HasUv \/ env = None THEN Fails(i) /\ UNCHANGED host
             ELSE host' = [host EXCEPT !.env = env] /\ Goes(i, "cataloguing")
        [] op.kind = "attaching" ->
             (IF Launchable THEN Answers(i, host) ELSE Fails(i)) /\ UNCHANGED host
Work(i) == ops[i].stage = "working" /\ Done(i) /\ UNCHANGED <<session, spent>>

\* A provisioning answers with the catalog it reads when it is over.
Catalogued(i) ==
  /\ ops[i].stage = "cataloguing"
  /\ Answers(i, host)
  /\ UNCHANGED <<host, session, spent>>

-----------------------------------------------------------------------------
(* The continuations of the card *)

\* Mutant: an answer counts whatever was started since.
Outdated_Never(i) == FALSE
Outdated(i) == ops[i].aborted \/ card.current # i

Ends(i) == ops' = [ops EXCEPT ![i].stage = "done"]
\* An environment that was provisioned is attached under the same controller,
\* by the handler of the card as it was before.
GoesOn(i) ==
  /\ ops' = [ops EXCEPT ![i] = [@ EXCEPT !.kind = "attaching", !.stage = "asked",
                                         !.ok = FALSE, !.answer = None, !.from = None]]
  /\ card' = [card EXCEPT !.phase = "attaching", !.catalog = ops[i].previous]

\* Mutant: a failure leaves the phase.
Failed_Unsaid(i) == card
Failed(i) == [card EXCEPT !.phase = "failed", !.catalog = ops[i].previous]

\* The document of an attachment is published even if it was given up.
Receive(i) ==
  LET op == ops[i]
  IN  /\ op.stage = "answered"
      /\ UNCHANGED <<host, session>>
      /\ spent' = [spent EXCEPT !.failed = @ \/ ~op.ok]
      /\ \/ /\ Outdated(i)
            /\ Ends(i)
            /\ card' \in {card, [card EXCEPT !.attached = @ \/ (op.ok /\ op.kind = "attaching")]}
         \/ /\ ~Outdated(i)
            /\ ~op.ok
            /\ Ends(i)
            /\ card' = Failed(i)
         \/ /\ ~Outdated(i)
            /\ op.ok
            /\ op.kind = "attaching"
            /\ Ends(i)
            /\ card' = [card EXCEPT !.attached = TRUE, !.picker = FALSE]
         \/ /\ ~Outdated(i)
            /\ op.ok
            /\ op.kind = "provisioning"
            /\ GoesOn(i)
         \/ /\ ~Outdated(i)
            /\ op.ok
            /\ op.kind \notin {"attaching", "provisioning"}
            /\ Ends(i)
            /\ card' = [card EXCEPT !.phase = "required", !.catalog = op.answer]

-----------------------------------------------------------------------------
(* Everybody else *)

\* An operation that was aborted may stop at the Host; any may fail there.
Stop(i) ==
  /\ ops[i].aborted
  /\ InFlight(ops[i])
  /\ Ends(i)
  /\ UNCHANGED <<card, host, session, spent>>
Break(i) ==
  /\ spent.faults < MaxFaults
  /\ ops[i].stage \in {"listing", "inspecting", "working", "cataloguing"}
  /\ Fails(i)
  /\ spent' = [spent EXCEPT !.faults = @ + 1]
  /\ UNCHANGED <<host, session>>

\* The agent is resumed, a subagent takes the session; somebody changes .venv.
Others ==
  /\ spent.faults < MaxFaults
  /\ spent' = [spent EXCEPT !.faults = @ + 1]
  /\ UNCHANGED <<card, ops>>
  /\ \/ session = "cold" /\ session' \in {"live", "owned"} /\ UNCHANGED host
     \/ /\ \E env \in {"absent", "unmanaged", "spoiled"} \ {host.env} : host' = [host EXCEPT !.env = env]
        /\ UNCHANGED session

User == \/ Appear \/ Toggle \/ Retry \/ InstallUv \/ InstallPython \/ Attach \/ Setup \/ Rebuild \/ Cancel
Serves(i) == LookUp(i) \/ Listed(i) \/ Inspected(i) \/ Resume(i) \/ Work(i) \/ Catalogued(i)
Next == \/ User
        \/ \E i \in DOMAIN ops : Serves(i) \/ Receive(i) \/ Stop(i) \/ Break(i)
        \/ Others

Spec == Init /\ [][Next]_vars

\* The Host goes on with every operation (each has a deadline in runOperation)
\* and answers arrive; the user and others owe nothing.
Fairness == \A i \in 1 .. MaxOps :
              /\ WF_vars(i \in DOMAIN ops /\ Serves(i))
              /\ WF_vars(i \in DOMAIN ops /\ Receive(i))
FairSpec == Spec /\ Fairness

-----------------------------------------------------------------------------
(* Properties *)

\* The state has its types.
TypeOK ==
  /\ card.phase \in Phases
  /\ card.current \in 0 .. Len(ops)
  /\ host.env \in Environments
  /\ \A i \in DOMAIN ops :
       /\ ops[i].kind \in Busy \cup {"checking"}
       /\ ops[i].from \in {None, "live", "stored"}
       /\ ops[i].answer = None => ops[i].stage = "done" \/ ~ops[i].ok

\* The card says that an operation is under way exactly when its latest one is,
\* and which: whatever was started, overtaken, given up or answered late in
\* between (beginEnvironmentOperation and the checks behind each await); after
\* an attachment that succeeded it goes on saying "attaching". The catalog that
\* it offers is the Host's, unless an operation failed, one that changes
\* something was given up, or others changed something.
CardTellsTheTruth ==
  /\ TypeOK
  /\ \A i \in DOMAIN ops : (i = card.current /\ InFlight(ops[i]) /\ ~ops[i].aborted) =>
       card.phase = ops[i].kind
  /\ card.phase \in Busy \cup {"checking"} =>
       LET op == ops[card.current]
       IN  ~op.aborted /\ (InFlight(op) \/ (op.ok /\ op.kind = "attaching"))
  /\ (card.phase = "required" /\ ~spent.failed /\ spent.faults = 0) => card.catalog = Catalog(host)

\* A read works with the stored copy of a session only if the session is not
\* resident at that moment, and never for a subagent's session: headerFor and
\* sessionFor look again after each await.
ReadsUseTheLiveSession ==
  [][\A i \in DOMAIN ops :
       (ops[i].from = None /\ ops'[i].from # None) =>
         /\ session # "owned"
         /\ ops'[i].from = "stored" => session = "cold"]_vars

\* Every operation has ended and the card says of none that it is under way,
\* unless a kernel was attached.
Settled ==
  /\ \A i \in DOMAIN ops : ~InFlight(ops[i])
  /\ card.phase \notin Busy \cup {"checking"} \/ card.attached
=============================================================================
