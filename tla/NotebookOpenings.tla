-------------------------- MODULE NotebookOpenings --------------------------
(***************************************************************************)
(* Opening and creating notebooks in one session: which path belongs to    *)
(* which open notebook when several paths name one file.                   *)
(*                                                                         *)
(* A call observes the file, looks for the notebook that owns its          *)
(* canonical target, joins an opening of the target that is under way, or  *)
(* starts one.  Openings outlive the calls that wait for them.  Notebooks  *)
(* live in the events of the process; the table of owners and the table of *)
(* openings belong to the service and are lost when it restarts.           *)
(*                                                                         *)
(* A notebook is its index in `notebooks`.  File versions are numbers that *)
(* no two writes share, 0 where there is no file.  What notebooks do once  *)
(* they are open is module NotebookDocument; here they only follow or      *)
(* accept the version of their file.                                       *)
(***************************************************************************)
EXTENDS Naturals, FiniteSets, SequencesExt

CONSTANTS
    Calls,          \* slots for calls of open and create
    Paths, Targets,
    TargetOf,       \* the canonical target of each path
    OpenPaths,      \* the notebooks that are open at the start
    MaxVersion,     \* bound: open notebooks and other programs stop writing here
    MaxRestarts,    \* bound on restarts of the service
    Faults,         \* which of "external", "unlink", "abort", "io"
    PromptReplies   \* file system replies arrive in the order of the effects

ASSUME OpeningsAssumption ==
    /\ TargetOf \in [Paths -> Targets] /\ Paths # {}
    /\ OpenPaths \in Seq(Paths)
    /\ \A i, j \in DOMAIN OpenPaths :
          TargetOf[OpenPaths[i]] = TargetOf[OpenPaths[j]] => i = j
    /\ MaxVersion \in Nat /\ MaxRestarts \in Nat /\ PromptReplies \in BOOLEAN

VARIABLES
    disk,       \* the version of each target
    clock,      \* the newest version
    notebooks,  \* the open notebooks: path and version shown
    owners,     \* target -> notebook, 0 where none is known
    opening,    \* target -> the opening under way
    adrift,     \* targets a disposed service may still create
    removed,    \* history: targets that were removed at some time
    call,
    restarts

vars == <<disk, clock, notebooks, owners, opening, adrift, removed, call, restarts>>

NoOpening == [pc |-> "none", path |-> CHOOSE p \in Paths : TRUE, ver |-> 0]
Idle == [pc |-> "idle", kind |-> "open", path |-> CHOOSE p \in Paths : TRUE,
         seen |-> 0, next |-> 0, last |-> 0, nb |-> 0, since |-> 0, res |-> "none"]

Target(c) == TargetOf[call[c].path]
Holder(n) == TargetOf[notebooks[n].path]
Asked(c)  == call[c].pc \notin {"idle", "settled"}

Init ==
    /\ disk = [t \in Targets |-> IF \E i \in DOMAIN OpenPaths : TargetOf[OpenPaths[i]] = t
                                 THEN 1 ELSE 0]
    /\ clock = 1
    /\ notebooks = [i \in DOMAIN OpenPaths |-> [path |-> OpenPaths[i], ver |-> 1]]
    /\ owners = [t \in Targets |->
                    IF \E i \in DOMAIN OpenPaths : TargetOf[OpenPaths[i]] = t
                    THEN CHOOSE i \in DOMAIN OpenPaths : TargetOf[OpenPaths[i]] = t ELSE 0]
    /\ opening = [t \in Targets |-> NoOpening]
    /\ adrift = {}
    /\ removed = {}
    /\ call = [c \in Calls |-> Idle]
    /\ restarts = 0

Settled(c, result, n) ==
    [Idle EXCEPT !.pc = "settled", !.kind = call[c].kind, !.path = call[c].path,
                 !.since = call[c].since, !.nb = n, !.res = result]
Settle(c, result) == call' = [call EXCEPT ![c] = Settled(c, result, 0)]

(* With prompt replies nothing is read or written while an opening is about *)
(* to publish what it has just confirmed.                                   *)
Quiet == PromptReplies => \A t \in Targets : opening[t].pc # "confirmed"

Write(t) == clock' = clock + 1 /\ disk' = [disk EXCEPT ![t] = clock + 1]

-----------------------------------------------------------------------------
(* Calls. *)

Call(c, kind, p) ==
    /\ call[c].pc = "idle"
    /\ call' = [call EXCEPT ![c] = [Idle EXCEPT !.pc = "asked", !.kind = kind, !.path = p,
                                               !.since = disk[TargetOf[p]]]]
    /\ UNCHANGED <<disk, clock, notebooks, owners, opening, adrift, restarts, removed>>

(* The fenced read of the file, for the call itself or for the notebook    *)
(* that turned out to own it.                                              *)
Observe(c) ==
    /\ call[c].pc \in {"asked", "refreshing"} /\ Quiet
    /\ call' = [call EXCEPT ![c] = [@ EXCEPT !.pc = IF call[c].pc = "asked" THEN "observed"
                                                                            ELSE "refreshed",
                                             !.seen = disk[Target(c)]]]
    /\ UNCHANGED <<disk, clock, notebooks, owners, opening, adrift, restarts, removed>>

(* A notebook adopts what was read of its file if it shows that version    *)
(* and no other notebook owns the target.                                  *)
Adoptable_AnyVersion(c, n) == call[c].seen # 0 /\ owners[Target(c)] \in {0, n}
Adoptable(c, n) == call[c].seen = notebooks[n].ver /\ owners[Target(c)] \in {0, n}

Adopt(c, n) ==
    IF Adoptable(c, n)
    THEN /\ owners' = [owners EXCEPT ![Target(c)] = n]
         /\ call' = [call EXCEPT ![c] = [@ EXCEPT !.pc = "refreshing", !.nb = n, !.seen = 0]]
    ELSE Settle(c, "conflict") /\ UNCHANGED owners

(* The check of the openings and the start of a new one are one step: no   *)
(* await lies between them.                                                *)
JoinOrStart(c) ==
    LET t == Target(c)
        first == IF call[c].kind = "open" THEN "confirming" ELSE "creating"
        joins == opening[t].pc # "none"
    IN  /\ call' = [call EXCEPT ![c].pc = IF joins THEN "joined" ELSE "opener"]
        /\ opening' = IF joins THEN opening
                      ELSE [opening EXCEPT ![t] = [pc |-> first, path |-> call[c].path,
                                                   ver |-> call[c].seen]]

(* Without open notebooks there is nothing to resolve. *)
NoneToResolve_OwnersOnly == \A t \in Targets : owners[t] = 0
NoneToResolve == notebooks = <<>>

Look(c) ==
    /\ call[c].pc = "observed"
    /\ LET opens == call[c].kind = "open"
           exists == call[c].seen # 0
           owner == owners[Target(c)]
       IN  \/ /\ exists # opens
              /\ Settle(c, IF opens THEN "missing" ELSE "exists")
              /\ UNCHANGED <<owners, opening>>
           \/ opens /\ exists /\ owner # 0 /\ Adopt(c, owner) /\ UNCHANGED opening
           \/ /\ opens /\ exists /\ owner = 0 /\ ~NoneToResolve
              /\ call' = [call EXCEPT ![c] = [@ EXCEPT !.pc = "walking", !.next = 1,
                                                       !.last = Len(notebooks)]]
              /\ UNCHANGED <<owners, opening>>
           \/ /\ exists = opens
              /\ opens => owner = 0 /\ NoneToResolve
              /\ JoinOrStart(c)
              /\ UNCHANGED owners
    /\ UNCHANGED <<disk, clock, notebooks, adrift, restarts, removed>>

(* Without a known owner the notebooks that were open when the walk began  *)
(* are resolved one after the other, each with an await.                   *)
Walk(c) ==
    /\ call[c].pc = "walking"
    /\ LET n == call[c].next
       IN  \/ Holder(n) = Target(c) /\ Adopt(c, n) /\ UNCHANGED opening
           \/ /\ Holder(n) # Target(c) /\ n < call[c].last
              /\ call' = [call EXCEPT ![c].next = n + 1]
              /\ UNCHANGED <<owners, opening>>
           \/ /\ Holder(n) # Target(c) /\ n = call[c].last
              /\ JoinOrStart(c)
              /\ UNCHANGED owners
    /\ UNCHANGED <<disk, clock, notebooks, adrift, restarts, removed>>

Answer(c) ==
    /\ call[c].pc = "refreshed"
    /\ LET n == call[c].nb
       IN  IF Adoptable(c, n)
           THEN /\ owners' = [owners EXCEPT ![Target(c)] = n]
                /\ call' = [call EXCEPT ![c] = Settled(c, "ok", n)]
           ELSE Settle(c, "conflict") /\ UNCHANGED owners
    /\ UNCHANGED <<disk, clock, notebooks, opening, adrift, restarts, removed>>

-----------------------------------------------------------------------------
(* Openings. *)

Waiters(t) == {c \in Calls : call[c].pc \in {"joined", "opener"} /\ Target(c) = t}

(* What a waiting call is answered when its opening succeeds: a create that *)
(* joined has lost.                                                         *)
AnswerOf(c, n) == IF call[c].kind = "create" /\ call[c].pc = "joined"
                  THEN Settled(c, "exists", 0) ELSE Settled(c, "ok", n)

Succeed(t, n) ==
    /\ opening' = [opening EXCEPT ![t] = NoOpening]
    /\ call' = [c \in Calls |-> IF c \in Waiters(t) THEN AnswerOf(c, n) ELSE call[c]]
Released_Forgotten(t) == opening
Released(t) == [opening EXCEPT ![t] = NoOpening]
OpeningFails(t, result) ==
    /\ opening' = Released(t)
    /\ call' = [c \in Calls |-> IF opening'[t].pc = "none" /\ c \in Waiters(t)
                                THEN Settled(c, result, 0) ELSE call[c]]

(* The absent-only write. *)
MayCreate_Always(t) == TRUE
MayCreate(t) == disk[t] = 0
CreateFile(t) ==
    /\ opening[t].pc = "creating" /\ Quiet
    /\ \/ /\ MayCreate(t) /\ Write(t)
          /\ opening' = [opening EXCEPT ![t] = [@ EXCEPT !.pc = "confirming", !.ver = clock + 1]]
          /\ UNCHANGED call
       \/ ~MayCreate(t) /\ OpeningFails(t, "exists") /\ UNCHANGED <<disk, clock>>
    /\ UNCHANGED <<notebooks, owners, adrift, restarts, removed>>

Confirms(t) == disk[t] = opening[t].ver
Confirm(t) ==
    /\ opening[t].pc = "confirming" /\ Quiet
    /\ IF Confirms(t)
       THEN opening' = [opening EXCEPT ![t].pc = "confirmed"] /\ UNCHANGED call
       ELSE OpeningFails(t, "conflict")
    /\ UNCHANGED <<disk, clock, notebooks, owners, adrift, restarts, removed>>

Publish(t) ==
    /\ opening[t].pc = "confirmed"
    /\ LET n == Len(notebooks) + 1
       IN  /\ notebooks' = Append(notebooks, [path |-> opening[t].path, ver |-> opening[t].ver])
           /\ owners' = [owners EXCEPT ![t] = n]
           /\ Succeed(t, n)
    /\ UNCHANGED <<disk, clock, adrift, restarts, removed>>

(* An I/O error or the deadline of the opening; a file it created stays. *)
OpeningLost(t) ==
    /\ "io" \in Faults
    /\ opening[t].pc # "none"
    /\ OpeningFails(t, "failed")
    /\ UNCHANGED <<disk, clock, notebooks, owners, adrift, restarts, removed>>

-----------------------------------------------------------------------------
(* Open notebooks, other programs, cancellation, restart. *)

Claimable(n) == disk[Holder(n)] # 0 /\ owners[Holder(n)] \in {0, n}

(* A call on the open notebook replaced the file and its event is appended. *)
Follow(n) ==
    /\ clock < MaxVersion
    /\ Claimable(n) /\ disk[Holder(n)] = notebooks[n].ver /\ Quiet
    /\ Write(Holder(n))
    /\ notebooks' = [notebooks EXCEPT ![n].ver = clock + 1]
    /\ owners' = [owners EXCEPT ![Holder(n)] = n]
    /\ UNCHANGED <<opening, adrift, call, restarts, removed>>

(* The notebook was reloaded from its file. *)
Accept(n) ==
    /\ Claimable(n) /\ Quiet
    /\ notebooks' = [notebooks EXCEPT ![n].ver = disk[Holder(n)]]
    /\ owners' = [owners EXCEPT ![Holder(n)] = n]
    /\ UNCHANGED <<disk, clock, opening, adrift, call, restarts, removed>>

ExternalWrite(t) ==
    /\ "external" \in Faults /\ clock < MaxVersion
    /\ Write(t)
    /\ UNCHANGED <<notebooks, owners, opening, adrift, call, restarts, removed>>

ExternalUnlink(t) ==
    /\ "unlink" \in Faults /\ disk[t] # 0
    /\ disk' = [disk EXCEPT ![t] = 0]
    /\ removed' = removed \cup {t}
    /\ UNCHANGED <<clock, notebooks, owners, opening, adrift, call, restarts>>

(* The caller gives up, or a read of its own fails; an opening it waits for *)
(* goes on.                                                                 *)
Abort(c) ==
    /\ "abort" \in Faults /\ Asked(c)
    /\ Settle(c, "aborted")
    /\ UNCHANGED <<disk, clock, notebooks, owners, opening, adrift, restarts, removed>>

Restart ==
    /\ restarts < MaxRestarts
    /\ restarts' = restarts + 1
    /\ owners' = [t \in Targets |-> 0]
    /\ opening' = [t \in Targets |-> NoOpening]
    /\ adrift' = adrift \cup {t \in Targets : opening[t].pc = "creating"}
    /\ call' = [c \in Calls |-> IF Asked(c) THEN Settled(c, "unavailable", 0) ELSE call[c]]
    /\ UNCHANGED <<disk, clock, notebooks, removed>>

Drift(t) ==
    /\ t \in adrift
    /\ adrift' = adrift \ {t}
    /\ (disk[t] = 0 /\ Write(t)) \/ UNCHANGED <<disk, clock>>
    /\ UNCHANGED <<notebooks, owners, opening, call, restarts, removed>>

Progress(t) == CreateFile(t) \/ Confirm(t) \/ Publish(t)
Step(c) == Observe(c) \/ Look(c) \/ Walk(c) \/ Answer(c)

Next ==
    \/ \E c \in Calls : \/ \E kind \in {"open", "create"}, p \in Paths : Call(c, kind, p)
                        \/ Step(c) \/ Abort(c)
    \/ \E t \in Targets : \/ Progress(t) \/ OpeningLost(t) \/ Drift(t)
                          \/ ExternalWrite(t) \/ ExternalUnlink(t)
    \/ \E n \in DOMAIN notebooks : Follow(n) \/ Accept(n)
    \/ Restart

Spec == Init /\ [][Next]_vars

(* Awaits end by their deadline, so calls and openings keep moving. *)
FairSpec == /\ Spec
            /\ \A c \in Calls : WF_vars(Step(c))
            /\ \A t \in Targets : WF_vars(Progress(t))

-----------------------------------------------------------------------------
(* Properties. *)

(* The types of the state; a successful answer names a notebook. *)
TypeOK ==
    /\ disk \in [Targets -> Nat] /\ clock \in Nat
    /\ notebooks \in Seq([path : Paths, ver : Nat \ {0}])
    /\ owners \in [Targets -> 0..Len(notebooks)]
    /\ opening \in [Targets -> [pc : {"none", "creating", "confirming", "confirmed"},
                                path : Paths, ver : Nat]]
    /\ adrift \subseteq Targets
    /\ call \in [Calls -> [pc : {"idle", "asked", "observed", "walking", "refreshing",
                                 "refreshed", "joined", "opener", "settled"},
                           kind : {"open", "create"}, path : Paths, seen : Nat,
                           next : Nat, last : 0..Len(notebooks), nb : 0..Len(notebooks),
                           since : Nat,
                           res : {"none", "ok", "missing", "exists", "conflict",
                                  "failed", "aborted", "unavailable"}]]
    /\ \A c \in Calls : call[c].res = "ok" => call[c].nb # 0
    /\ removed \subseteq Targets /\ restarts \in 0..MaxRestarts

(* Aliases coalesce: no two notebooks of the session stand for one file    *)
(* that nobody removed, whatever calls, joined openings and restarts came  *)
(* between.  It holds while the session opens a single file.               *)
OneNotebookPerTarget ==
    \A m, n \in DOMAIN notebooks :
        Holder(m) = Holder(n) /\ Holder(n) \notin removed => m = n

(* A call of open that succeeds shows the file as it was during the call,  *)
(* or newer, also when it is answered by a notebook that was open already  *)
(* or by an opening that began before the call.                            *)
OpenShowsFreshContent ==
    [][\A c \in Calls :
        Asked(c) /\ call'[c].res = "ok" /\ call[c].kind = "open"
        => LET nb == notebooks'[call'[c].nb]
           IN  TargetOf[nb.path] = Target(c) /\ nb.ver >= call[c].since]_vars

(* While nobody removes the file, at most one create of it succeeds, across *)
(* aliases, joined openings and restarts.                                   *)
CreateWinsOnce ==
    /\ TypeOK
    /\ \A c, d \in Calls :
          /\ call[c].kind = "create" /\ call[c].res = "ok"
          /\ call[d].kind = "create" /\ call[d].res = "ok"
          /\ Target(c) = Target(d) /\ Target(d) \notin removed
          => c = d

(* Every call is answered. *)
CallsAreAnswered == \A c \in Calls : Asked(c) ~> ~Asked(c)
=============================================================================
