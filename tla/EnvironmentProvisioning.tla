---------------------- MODULE EnvironmentProvisioning ----------------------
(***************************************************************************)
(* Provisioning of the workspace environment, the directory .venv, by      *)
(* managers of several processes that share nothing but the workspace: the *)
(* lock file and the recovery of one whose owner has died, the staging     *)
(* directory an environment is built in, its publication by rename, the    *)
(* rebuild that first moves the old environment to a backup, and what a    *)
(* later call does about the leftovers of one that failed or crashed.      *)
(*                                                                         *)
(* A directory is known by who made it: an operation, or one that is there *)
(* at the start (Old), or the user's (User).  Nothing is ever deleted, so  *)
(* a directory is in one place: at .venv, in staging, a backup, a residue. *)
(***************************************************************************)
EXTENDS Naturals, FiniteSets

CONSTANTS
    Ops,          \* operations: calls of provision
    Managers,     \* the processes that make them
    ManagerOf,    \* Ops -> Managers
    Old, User,    \* directories no operation has made
    NoDir, NoOp,
    Faults        \* which of "crash", "user", "fail"

Dirs == Ops \cup {Old, User}

ASSUME ProvisioningAssumption ==
    /\ ManagerOf \in [Ops -> Managers]
    /\ Old # User /\ {Old, User} \cap Ops = {} /\ NoDir \notin Dirs /\ NoOp \notin Ops
    /\ Faults \subseteq {"crash", "user", "fail"}

VARIABLES
    dir,      \* place, health and ownership sidecar of each directory
    marker,   \* the operations whose staging marker exists
    lock,     \* the lock file: whose, and whether it was written whole
    op,
    alive     \* the managers that have not crashed

vars == <<dir, marker, lock, op, alive>>

NoLock == [by |-> NoOp, whole |-> FALSE]
Nowhere == [place |-> "none", health |-> "unfit", owned |-> FALSE]
Idle == [pc |-> "idle", allow |-> FALSE, rebuild |-> FALSE, found |-> NoLock,
         markers |-> {}, backups |-> {}, backup |-> NoDir, res |-> "none"]

(* The workspace has no environment, one that was provisioned before and   *)
(* may have lost its packages or its Python, or one of the user's.         *)
Init ==
    /\ \E h \in {"ready", "unfit", "broken"}, d \in {NoDir, Old, User} :
          dir = [e \in Dirs |-> IF e = d THEN [place |-> "venv", health |-> h, owned |-> d = Old]
                                ELSE Nowhere]
    /\ marker = {}
    /\ lock = NoLock
    /\ op = [o \in Ops |-> Idle]
    /\ alive = Managers

-----------------------------------------------------------------------------
In(place) == {d \in Dirs : dir[d].place = place}
Vacant == In("venv") = {}
Owned(d) == dir[d].owned
OwnedEnvironment == \E d \in In("venv") : Owned(d)

Move(d, place) == dir' = [dir EXCEPT ![d].place = place]
Goto(o, pc) == op' = [op EXCEPT ![o].pc = pc]
Finish(o, result) == op' = [op EXCEPT ![o] = [@ EXCEPT !.pc = "releasing", !.res = result]]
Settle(o, result) == op' = [op EXCEPT ![o] = [Idle EXCEPT !.pc = "settled", !.allow = op[o].allow,
                                                         !.res = result]]

Busy(o) == op[o].pc \notin {"idle", "settled", "dead"}
At(o, pc) == op[o].pc = pc /\ ManagerOf[o] \in alive

-----------------------------------------------------------------------------
(* The lock. *)

(* One provision at a time in each manager, without waiting. *)
Provision(o, allow, rebuild) ==
    /\ At(o, "idle")
    /\ LET busy == \E p \in Ops \ {o} : ManagerOf[p] = ManagerOf[o] /\ Busy(p)
       IN  op' = [op EXCEPT ![o] = [Idle EXCEPT !.pc = IF busy THEN "settled" ELSE "locking",
                                                !.allow = allow, !.rebuild = rebuild,
                                                !.res = IF busy THEN "busy" ELSE "none"]]
    /\ UNCHANGED <<dir, marker, lock, alive>>

(* The lock file is created exclusively and written afterwards. *)
CreateLock(o) ==
    /\ At(o, "locking") \/ At(o, "relocking")
    /\ \/ /\ lock = NoLock
          /\ lock' = [by |-> o, whole |-> FALSE]
          /\ Goto(o, "writing")
       \/ /\ lock # NoLock
          /\ IF op[o].pc = "locking" THEN Goto(o, "examining") ELSE Settle(o, "busy")
          /\ UNCHANGED lock
    /\ UNCHANGED <<dir, marker, alive>>

WriteLock(o) ==
    /\ At(o, "writing")
    /\ lock' = IF lock.by = o THEN [lock EXCEPT !.whole = TRUE] ELSE lock
    /\ Goto(o, "locked")
    /\ UNCHANGED <<dir, marker, alive>>

(* A lock that can be read and whose owner is dead is stale.  It is read   *)
(* again and then removed, by name.                                        *)
Stale_Torn(l) == l.whole => ManagerOf[l.by] \notin alive
Stale(l) == l.whole /\ ManagerOf[l.by] \notin alive

ExamineLock(o) ==
    /\ At(o, "examining")
    /\ IF lock # NoLock /\ Stale(lock)
       THEN op' = [op EXCEPT ![o] = [@ EXCEPT !.pc = "verifying", !.found = lock]]
       ELSE Settle(o, "busy")
    /\ UNCHANGED <<dir, marker, lock, alive>>

VerifyLock(o) ==
    /\ At(o, "verifying")
    /\ \/ lock = NoLock /\ Goto(o, "relocking")
       \/ lock = op[o].found /\ Goto(o, "unlinking")
       \/ lock \notin {NoLock, op[o].found} /\ Settle(o, "busy")
    /\ UNCHANGED <<dir, marker, lock, alive>>

UnlinkLock(o) ==
    /\ At(o, "unlinking")
    /\ lock' = NoLock
    /\ Goto(o, "relocking")
    /\ UNCHANGED <<dir, marker, alive>>

Release(o) ==
    /\ At(o, "releasing")
    /\ lock' = IF lock.by = o /\ lock.whole THEN NoLock ELSE lock
    /\ Settle(o, op[o].res)
    /\ UNCHANGED <<dir, marker, alive>>

-----------------------------------------------------------------------------
(* Recovery of what earlier calls have left. *)

(* A staging directory becomes a residue, and loses its marker: two steps   *)
(* of the code in one, as a marker whose directory has gone is just removed *)
(* by the next recovery (retainOwnedStaging, on ENOENT).                    *)
RetainedIn(ds, d) == IF ds[d].place = "staging" THEN [ds EXCEPT ![d].place = "residue"] ELSE ds

Leftovers_None == {}
Leftovers == marker

Survey(o) ==
    /\ At(o, "locked")
    /\ op' = [op EXCEPT ![o] = [@ EXCEPT !.pc = "recovering", !.markers = Leftovers,
                                           !.backups = In("backup")]]
    /\ UNCHANGED <<dir, marker, lock, alive>>

RecoverStaging(o) ==
    /\ At(o, "recovering")
    /\ \E d \in op[o].markers :
          /\ op' = [op EXCEPT ![o].markers = @ \ {d}]
          /\ dir' = IF d \in marker THEN RetainedIn(dir, d) ELSE dir
          /\ marker' = marker \ {d}
    /\ UNCHANGED <<lock, alive>>

(* One owned backup restores a missing environment; next to an environment *)
(* of ours it is obsolete.                                                 *)
OwnedBackups(o) == {d \in op[o].backups : dir[d].place = "backup" /\ Owned(d)}
Obsolete_Anyway == TRUE
Obsolete == OwnedEnvironment

RecoverBackups(o) ==
    /\ At(o, "recovering") /\ op[o].markers = {}
    /\ \/ /\ Vacant /\ Cardinality(OwnedBackups(o)) > 1
          /\ Finish(o, "failed") /\ UNCHANGED dir
       \/ /\ Vacant /\ Cardinality(OwnedBackups(o)) = 1
          /\ \E d \in OwnedBackups(o) : Move(d, "venv")
          /\ Goto(o, "probing")
       \/ /\ Obsolete
          /\ \E d \in OwnedBackups(o) : Move(d, "residue")
          /\ UNCHANGED op
       \/ /\ OwnedBackups(o) = {} \/ (~Vacant /\ ~OwnedEnvironment)
          /\ Goto(o, "probing") /\ UNCHANGED dir
    /\ UNCHANGED <<marker, lock, alive>>

-----------------------------------------------------------------------------
(* What the call is to do about the environment it finds. *)

MayRebuild(o, d) == Owned(d) /\ op[o].rebuild
MayRepair_Unasked(o, d) ==
    ~op[o].rebuild /\ dir[d].health # "broken" /\ (Owned(d) => dir[d].health = "unfit")
MayRepair(o, d) ==
    /\ ~op[o].rebuild /\ dir[d].health # "broken"
    /\ IF Owned(d) THEN dir[d].health = "unfit" ELSE op[o].allow

Probe(o) ==
    /\ At(o, "probing")
    /\ \/ Vacant /\ op' = [op EXCEPT ![o] = [@ EXCEPT !.pc = "building", !.rebuild = FALSE]]
       \/ \E d \in In("venv") :
             \/ MayRebuild(o, d) /\ Goto(o, "building")
             \/ MayRepair(o, d) /\ Goto(o, "repairing")
             \/ /\ ~MayRebuild(o, d) /\ ~MayRepair(o, d)
                /\ Finish(o, IF Owned(d) /\ dir[d].health = "ready" THEN "ok" ELSE "failed")
    /\ UNCHANGED <<dir, marker, lock, alive>>

(* Packages are installed in place and verified, and only then is the      *)
(* environment marked as ours.                                             *)
Repair(o) ==
    /\ At(o, "repairing")
    /\ \/ \E d \in In("venv") :
             /\ dir[d].health # "broken"
             /\ dir' = [dir EXCEPT ![d].health = "ready"]
             /\ Goto(o, "claiming")
       \/ Finish(o, "failed") /\ UNCHANGED dir
    /\ UNCHANGED <<marker, lock, alive>>

Claim(o) ==
    /\ At(o, "claiming")
    /\ \/ \E d \in In("venv") : dir' = [dir EXCEPT ![d].owned = TRUE] /\ Goto(o, "checking")
       \/ Vacant /\ Finish(o, "failed") /\ UNCHANGED dir
    /\ UNCHANGED <<marker, lock, alive>>

(* The environment as the call leaves it. *)
Check(o) ==
    /\ At(o, "checking")
    /\ Finish(o, IF \E d \in In("venv") : Owned(d) /\ dir[d].health = "ready"
                 THEN "ok" ELSE "failed")
    /\ UNCHANGED <<dir, marker, lock, alive>>

-----------------------------------------------------------------------------
(* A new environment is built aside. *)

WriteMarker(o) ==
    /\ At(o, "building")
    /\ marker' = marker \cup {o}
    /\ Goto(o, "marked")
    /\ UNCHANGED <<dir, lock, alive>>

CreateStaging_InPlace(o) ==
    /\ At(o, "marked") /\ Vacant
    /\ dir' = [dir EXCEPT ![o] = [Nowhere EXCEPT !.place = "venv"]]
    /\ Goto(o, "staging")
    /\ UNCHANGED <<marker, lock, alive>>

CreateStaging(o) ==
    /\ At(o, "marked")
    /\ dir' = [dir EXCEPT ![o] = [Nowhere EXCEPT !.place = "staging"]]
    /\ Goto(o, "staging")
    /\ UNCHANGED <<marker, lock, alive>>

VerifyStaging(o) ==
    /\ At(o, "staging")
    /\ dir[o].place = "staging"
    /\ dir' = [dir EXCEPT ![o].health = "ready"]
    /\ Goto(o, "verified")
    /\ UNCHANGED <<marker, lock, alive>>

ClaimStaging(o) ==
    /\ At(o, "verified")
    /\ dir[o].place = "staging"
    /\ dir' = [dir EXCEPT ![o].owned = TRUE]
    /\ Goto(o, "staged")
    /\ UNCHANGED <<marker, lock, alive>>

(* A failure, also a timeout or a cancellation, retains what was staged;   *)
(* without a marker it is left where it is.                                *)
Retain(o, ds) ==
    /\ dir' = IF o \in marker THEN RetainedIn(ds, o) ELSE ds
    /\ marker' = marker \ {o}
    /\ Finish(o, "failed")

BuildFails(o) ==
    /\ \E pc \in {"marked", "staging", "verified"} : At(o, pc)
    /\ "fail" \in Faults \/ (op[o].pc # "marked" /\ dir[o].place # "staging")
    /\ Retain(o, dir)
    /\ UNCHANGED <<lock, alive>>

-----------------------------------------------------------------------------
(* Publication. *)

(* Renaming onto a directory that is not empty fails. *)
CheckAbsent(o) ==
    /\ At(o, "staged") /\ ~op[o].rebuild
    /\ IF Vacant THEN Goto(o, "placing") /\ UNCHANGED <<dir, marker>> ELSE Retain(o, dir)
    /\ UNCHANGED <<lock, alive>>

Placeable(o) == dir[o].place = "staging" /\ Vacant

Place(o) ==
    /\ At(o, "placing")
    /\ IF Placeable(o)
       THEN Move(o, "venv") /\ Goto(o, "published") /\ UNCHANGED marker
       ELSE Retain(o, dir)
    /\ UNCHANGED <<lock, alive>>

(* Only an environment that still has our sidecar is replaced. *)
Replaceable == OwnedEnvironment

CheckOwned(o) ==
    /\ At(o, "staged") /\ op[o].rebuild
    /\ IF Replaceable THEN Goto(o, "displacing") /\ UNCHANGED <<dir, marker>> ELSE Retain(o, dir)
    /\ UNCHANGED <<lock, alive>>

Displace(o) ==
    /\ At(o, "displacing")
    /\ \/ \E d \in In("venv") :
             /\ Move(d, "backup")
             /\ op' = [op EXCEPT ![o] = [@ EXCEPT !.pc = "replacing", !.backup = d]]
             /\ UNCHANGED marker
       \/ Vacant /\ Retain(o, dir)
    /\ UNCHANGED <<lock, alive>>

(* If the new environment cannot take its place the old one goes back,     *)
(* unless the place was taken meanwhile.                                   *)
Replace(o) ==
    /\ At(o, "replacing")
    /\ \/ Placeable(o) /\ Move(o, "venv") /\ Goto(o, "published") /\ UNCHANGED marker
       \/ /\ Placeable(o) => "fail" \in Faults
          /\ Retain(o, IF Vacant THEN [dir EXCEPT ![op[o].backup].place = "venv"] ELSE dir)
    /\ UNCHANGED <<lock, alive>>

RemoveMarker(o) ==
    /\ At(o, "published")
    /\ marker' = marker \ {o}
    /\ Goto(o, IF op[o].backup = NoDir THEN "checking" ELSE "obsoleting")
    /\ UNCHANGED <<dir, lock, alive>>

(* The backup becomes a residue; one that is not ours is put back. *)
ObsoleteBackup(o) ==
    /\ At(o, "obsoleting")
    /\ LET d == op[o].backup
       IN  dir' = IF dir[d].place = "backup" /\ Owned(d) THEN [dir EXCEPT ![d].place = "residue"]
                  ELSE dir
    /\ Goto(o, "checking")
    /\ UNCHANGED <<marker, lock, alive>>

-----------------------------------------------------------------------------
(* From outside. *)

(* uv or Python is missing, or the call is cancelled, before anything is   *)
(* built.                                                                  *)
GiveUp(o) ==
    /\ "fail" \in Faults
    /\ \E pc \in {"locked", "recovering", "probing", "building"} : At(o, pc)
    /\ Finish(o, "failed")
    /\ UNCHANGED <<dir, marker, lock, alive>>

Crash(m) ==
    /\ "crash" \in Faults /\ m \in alive
    /\ alive' = alive \ {m}
    /\ op' = [o \in Ops |-> IF ManagerOf[o] = m /\ Busy(o)
                            THEN [Idle EXCEPT !.pc = "dead", !.allow = op[o].allow] ELSE op[o]]
    /\ UNCHANGED <<dir, marker, lock>>

UserCreates ==
    /\ "user" \in Faults /\ Vacant /\ dir[User].place = "none"
    /\ dir' = [dir EXCEPT ![User].place = "venv"]
    /\ UNCHANGED <<marker, lock, op, alive>>

-----------------------------------------------------------------------------
Step(o) ==
    \/ \E allow, rebuild \in BOOLEAN : Provision(o, allow, rebuild)
    \/ CreateLock(o) \/ WriteLock(o) \/ ExamineLock(o) \/ VerifyLock(o) \/ UnlinkLock(o)
    \/ Survey(o) \/ RecoverStaging(o) \/ RecoverBackups(o)
    \/ Probe(o) \/ Repair(o) \/ Claim(o) \/ Check(o)
    \/ WriteMarker(o) \/ CreateStaging(o) \/ VerifyStaging(o) \/ ClaimStaging(o) \/ BuildFails(o)
    \/ CheckAbsent(o) \/ Place(o) \/ CheckOwned(o) \/ Displace(o) \/ Replace(o)
    \/ RemoveMarker(o) \/ ObsoleteBackup(o) \/ GiveUp(o) \/ Release(o)

Next == (\E o \in Ops : Step(o)) \/ (\E m \in Managers : Crash(m)) \/ UserCreates

Spec == Init /\ [][Next]_vars

-----------------------------------------------------------------------------
(* Properties. *)

Steps == {"idle", "locking", "relocking", "writing", "examining", "verifying", "unlinking",
          "locked", "recovering", "probing", "repairing", "claiming", "checking", "building",
          "marked", "staging", "verified", "staged", "placing", "displacing", "replacing",
          "published", "obsoleting", "releasing", "settled", "dead"}

(* Types of the state; at most one directory is at .venv. *)
TypeOK ==
    /\ dir \in [Dirs -> [place : {"none", "venv", "staging", "backup", "residue"},
                        health : {"ready", "unfit", "broken"}, owned : BOOLEAN]]
    /\ Cardinality(In("venv")) <= 1
    /\ marker \subseteq Ops
    /\ lock \in [by : Ops \cup {NoOp}, whole : BOOLEAN]
    /\ op \in [Ops -> [pc : Steps, allow : BOOLEAN, rebuild : BOOLEAN, found : [by : Ops \cup {NoOp}, whole : BOOLEAN],
                      markers : SUBSET Ops, backups : SUBSET Dirs, backup : Dirs \cup {NoDir},
                      res : {"none", "ok", "failed", "busy"}]]
    /\ alive \subseteq Managers

(* Between the lock and its release no other call is. *)
Holds(o) == Busy(o) /\ op[o].pc \notin {"locking", "relocking", "examining", "verifying", "unlinking"}
ProvisioningIsExclusive == TypeOK /\ \A o, p \in Ops : Holds(o) /\ Holds(p) => o = p

(* The environment the workspace had is not lost: at any time, also after  *)
(* a crash between the two renames of a rebuild, some environment is at    *)
(* .venv or exactly one owned backup is there to restore it.  What an      *)
(* operation has built is there only if it was verified and marked: a      *)
(* crash never leaves a half-built environment, and recovery never brings  *)
(* one back.                                                               *)
HadEnvironment == dir[Old].place # "none"
EnvironmentSurvives ==
    /\ HadEnvironment /\ Vacant => Cardinality({d \in In("backup") : Owned(d)}) = 1
    /\ \A o \in Ops : dir[o].place \in {"venv", "backup"} =>
          dir[o].owned /\ dir[o].health = "ready"

(* A directory of the user's stays where it is and is not claimed, unless  *)
(* a call asked to attach it.                                              *)
UserDirectoryIsLeftAlone ==
    /\ dir[User].place \notin {"none", "venv"} => dir[User].owned
    /\ dir[User].owned => \E o \in Ops : op[o].allow

(* A call that succeeds has put away every staging directory that failed   *)
(* or crashed calls have left behind.                                      *)
SuccessLeavesNoStaging ==
    [][\A o \in Ops : op[o].pc = "releasing" /\ op'[o].pc = "settled" /\ op[o].res = "ok"
          => In("staging") = {} /\ marker = {}]_vars

(* The lock of a live manager is preserved (README of the package, on the  *)
(* recovery of locks): it goes only when its own call releases it.  Two    *)
(* managers that recover one stale lock break this: the slower one removes *)
(* by name what is by then the lock of the other.                          *)
LiveLocksArePreserved ==
    [][lock.whole /\ ManagerOf[lock.by] \in alive /\ lock' # lock
       => op[lock.by].pc = "releasing" /\ op'[lock.by].pc = "settled"]_vars
=============================================================================
