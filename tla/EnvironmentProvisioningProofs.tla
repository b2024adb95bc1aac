-------------------- MODULE EnvironmentProvisioningProofs --------------------
(***************************************************************************)
(* Provisioning is exclusive, for any number of calls and directories, any *)
(* crash, failure and leftover, as long as there are at most two managers. *)
(* With three it is not: a stale lock that two managers recover together.  *)
(*                                                                         *)
(* The lock file alone does not exclude, since a manager may remove it.    *)
(* But a call that does has seen the owner dead, so that every other       *)
(* manager is dead, and no other call of its own is under way.             *)
(***************************************************************************)
EXTENDS EnvironmentProvisioning, FiniteSetTheorems, TLAPS

(* The premise: one manager beside the one that has died.                  *)
TwoManagers == \A k, m, n \in Managers : k = m \/ m = n \/ k = n

DirRecord == [place : {"none", "venv", "staging", "backup", "residue"},
              health : {"ready", "unfit", "broken"}, owned : BOOLEAN]
LockRecord == [by : Ops \cup {NoOp}, whole : BOOLEAN]
OpRecord == [pc : Steps, allow : BOOLEAN, rebuild : BOOLEAN, found : LockRecord,
             markers : SUBSET Ops, backups : SUBSET Dirs, backup : Dirs \cup {NoDir},
             res : {"none", "ok", "failed", "busy"}]

Typed ==
    /\ dir \in [Dirs -> DirRecord]
    /\ marker \subseteq Ops
    /\ lock \in LockRecord
    /\ op \in [Ops -> OpRecord]
    /\ alive \subseteq Managers

(* What a call does while it has the lock. *)
Works(o) ==
    \/ Survey(o) \/ RecoverStaging(o) \/ RecoverBackups(o)
    \/ Probe(o) \/ Repair(o) \/ Claim(o) \/ Check(o)
    \/ WriteMarker(o) \/ CreateStaging(o) \/ VerifyStaging(o) \/ ClaimStaging(o) \/ BuildFails(o)
    \/ CheckAbsent(o) \/ Place(o) \/ CheckOwned(o) \/ Displace(o) \/ Replace(o)
    \/ RemoveMarker(o) \/ ObsoleteBackup(o) \/ GiveUp(o)

(* How it gets the lock and gives it back. *)
Locks(o) ==
    \/ \E allow, rebuild \in BOOLEAN : Provision(o, allow, rebuild)
    \/ CreateLock(o) \/ WriteLock(o) \/ ExamineLock(o) \/ VerifyLock(o) \/ UnlinkLock(o)
    \/ Release(o)

LEMMA Split ==
    \A o \in Ops : Step(o) => Works(o) \/ Locks(o)
BY DEF Step, Works, Locks

LEMMA TypedInit == Init => Typed
<1> SUFFICES ASSUME Init PROVE Typed
  OBVIOUS
<1>1. dir \in [Dirs -> DirRecord]
  BY DEF Init, DirRecord, Nowhere
<1>2. NoLock \in LockRecord
  BY DEF NoLock, LockRecord
<1>3. Idle \in OpRecord
  BY <1>2 DEF Idle, OpRecord, Steps
<1> QED
  BY <1>1, <1>2, <1>3 DEF Init, Typed

LEMMA OpMoves ==
    ASSUME Typed, NEW o \in Ops
    PROVE  /\ \A pc \in Steps : Goto(o, pc) => op' \in [Ops -> OpRecord]
           /\ \A res \in {"ok", "failed", "busy"} : Finish(o, res) \/ Settle(o, res)
                => op' \in [Ops -> OpRecord]
<1>1. op[o] \in OpRecord
  BY DEF Typed
<1>2. ASSUME NEW pc \in Steps, Goto(o, pc) PROVE op' \in [Ops -> OpRecord]
  <2>1. [op[o] EXCEPT !.pc = pc] \in OpRecord
    BY <1>1 DEF OpRecord
  <2> QED
    BY <1>2, <2>1 DEF Goto, Typed
<1>3. ASSUME NEW res \in {"ok", "failed", "busy"}, Finish(o, res) PROVE op' \in [Ops -> OpRecord]
  <2>1. [op[o] EXCEPT !.pc = "releasing", !.res = res] \in OpRecord
    BY <1>1 DEF OpRecord, Steps
  <2> QED
    BY <1>3, <2>1 DEF Finish, Typed
<1>4. ASSUME NEW res \in {"ok", "failed", "busy"}, Settle(o, res) PROVE op' \in [Ops -> OpRecord]
  <2>1. [Idle EXCEPT !.pc = "settled", !.allow = op[o].allow, !.res = res] \in OpRecord
    BY ZenonT(60), <1>1 DEF OpRecord, Steps, Idle, NoLock, LockRecord
  <2> QED
    BY <1>4, <2>1 DEF Settle, Typed
<1> QED
  BY <1>2, <1>3, <1>4

(* What the call itself looks like after its step.                         *)
LEMMA CallBecomes ==
    ASSUME Typed, NEW o \in Ops
    PROVE  /\ \A pc : Goto(o, pc) =>
                 /\ op'[o].pc = pc /\ op'[o].found = op[o].found /\ op'[o].allow = op[o].allow
                 /\ op'[o].rebuild = op[o].rebuild /\ op'[o].markers = op[o].markers
                 /\ op'[o].backups = op[o].backups /\ op'[o].backup = op[o].backup
                 /\ op'[o].res = op[o].res
           /\ \A res : Finish(o, res) =>
                 op'[o].pc = "releasing" /\ op'[o].allow = op[o].allow /\ op'[o].res = res
           /\ \A res : Settle(o, res) =>
                 op'[o].pc = "settled" /\ op'[o].allow = op[o].allow /\ op'[o].res = res
<1>1. op[o] \in OpRecord /\ op \in [Ops -> OpRecord]
  BY DEF Typed
<1>2. ASSUME NEW pc, Goto(o, pc)
      PROVE  /\ op'[o].pc = pc /\ op'[o].found = op[o].found /\ op'[o].allow = op[o].allow
             /\ op'[o].rebuild = op[o].rebuild /\ op'[o].markers = op[o].markers
             /\ op'[o].backups = op[o].backups /\ op'[o].backup = op[o].backup
             /\ op'[o].res = op[o].res
  BY <1>1, <1>2 DEF Goto, OpRecord
<1>3. ASSUME NEW res, Finish(o, res)
      PROVE  op'[o].pc = "releasing" /\ op'[o].allow = op[o].allow /\ op'[o].res = res
  BY <1>1, <1>3 DEF Finish, OpRecord
<1>4. ASSUME NEW res, Settle(o, res)
      PROVE  op'[o].pc = "settled" /\ op'[o].allow = op[o].allow /\ op'[o].res = res
  BY <1>1, <1>4 DEF Settle, Idle
<1> QED
  BY <1>2, <1>3, <1>4

(* The same for the steps that change several fields at once.              *)
LEMMA CallFields ==
    ASSUME Typed, NEW o \in Ops
    PROVE  /\ \A l : op' = [op EXCEPT ![o] = [@ EXCEPT !.pc = "verifying", !.found = l]] =>
                 op'[o].pc = "verifying" /\ op'[o].found = l
           /\ op' = [op EXCEPT ![o] = [@ EXCEPT !.pc = "building", !.rebuild = FALSE]] =>
                 op'[o].pc = "building" /\ op'[o].allow = op[o].allow
           /\ Survey(o) => op'[o].pc = "recovering" /\ op'[o].allow = op[o].allow
           /\ RecoverStaging(o) =>
                 /\ op'[o].pc = op[o].pc /\ op'[o].allow = op[o].allow
                 /\ op'[o].backups = op[o].backups
           /\ Displace(o) =>
                 op'[o].pc \in {"replacing", "releasing"} /\ op'[o].allow = op[o].allow
<1>1. op[o] \in OpRecord /\ op \in [Ops -> OpRecord]
  BY DEF Typed
<1>2. ASSUME NEW l, op' = [op EXCEPT ![o] = [@ EXCEPT !.pc = "verifying", !.found = l]]
      PROVE  op'[o].pc = "verifying" /\ op'[o].found = l
  BY <1>1, <1>2 DEF OpRecord
<1>3. ASSUME op' = [op EXCEPT ![o] = [@ EXCEPT !.pc = "building", !.rebuild = FALSE]]
      PROVE  op'[o].pc = "building" /\ op'[o].allow = op[o].allow
  BY <1>1, <1>3 DEF OpRecord
<1>4. ASSUME Survey(o) PROVE op'[o].pc = "recovering" /\ op'[o].allow = op[o].allow
  BY <1>1, <1>4 DEF Survey, OpRecord
<1>5. ASSUME RecoverStaging(o)
      PROVE  /\ op'[o].pc = op[o].pc /\ op'[o].allow = op[o].allow
             /\ op'[o].backups = op[o].backups
  BY <1>1, <1>5 DEF RecoverStaging, OpRecord
<1>6. ASSUME Displace(o)
      PROVE  op'[o].pc \in {"replacing", "releasing"} /\ op'[o].allow = op[o].allow
  <2>1. ASSUME NEW d, op' = [op EXCEPT ![o] = [@ EXCEPT !.pc = "replacing", !.backup = d]]
        PROVE  op'[o].pc = "replacing" /\ op'[o].allow = op[o].allow
    BY <1>1, <2>1 DEF OpRecord
  <2> QED
    BY <1>6, <2>1, CallBecomes DEF Displace, Retain
<1> QED
  BY <1>2, <1>3, <1>4, <1>5, <1>6

LEMMA DirMoves ==
    ASSUME Typed, NEW d \in Dirs
    PROVE  /\ \A place \in {"venv", "backup", "residue"} : Move(d, place) => dir' \in [Dirs -> DirRecord]
           /\ [dir EXCEPT ![d].place = "venv"] \in [Dirs -> DirRecord]
           /\ [dir EXCEPT ![d].place = "residue"] \in [Dirs -> DirRecord]
           /\ [dir EXCEPT ![d].health = "ready"] \in [Dirs -> DirRecord]
           /\ [dir EXCEPT ![d].owned = TRUE] \in [Dirs -> DirRecord]
           /\ [dir EXCEPT ![d] = [Nowhere EXCEPT !.place = "staging"]] \in [Dirs -> DirRecord]
<1>1. dir[d] \in DirRecord /\ dir \in [Dirs -> DirRecord]
  BY DEF Typed
<1>2. /\ \A place \in {"venv", "backup", "residue"} : [dir[d] EXCEPT !.place = place] \in DirRecord
      /\ [dir[d] EXCEPT !.health = "ready"] \in DirRecord
      /\ [dir[d] EXCEPT !.owned = TRUE] \in DirRecord
      /\ [Nowhere EXCEPT !.place = "staging"] \in DirRecord
  BY <1>1 DEF DirRecord, Nowhere
<1> QED
  BY <1>1, <1>2 DEF Move

LEMMA RetainedType ==
    ASSUME NEW ds \in [Dirs -> DirRecord], NEW d \in Dirs
    PROVE  RetainedIn(ds, d) \in [Dirs -> DirRecord]
<1>1. [ds[d] EXCEPT !.place = "residue"] \in DirRecord
  BY DEF DirRecord
<1> QED
  BY <1>1 DEF RetainedIn

LEMMA RetainType ==
    ASSUME Typed, NEW o \in Ops, NEW ds \in [Dirs -> DirRecord], Retain(o, ds)
    PROVE  dir' \in [Dirs -> DirRecord] /\ marker' \subseteq Ops /\ op' \in [Ops -> OpRecord]
BY RetainedType, OpMoves DEF Retain, Typed, Dirs

LEMMA WorksTyped ==
    ASSUME Typed, NEW o \in Ops, Works(o)
    PROVE  Typed'
<1>1. op[o] \in OpRecord /\ o \in Dirs /\ lock' = lock /\ alive' = alive
  BY DEF Typed, Dirs, Works, Survey, RecoverStaging, RecoverBackups, Probe, Repair, Claim, Check,
     WriteMarker, CreateStaging, VerifyStaging, ClaimStaging, BuildFails, CheckAbsent, Place,
     CheckOwned, Displace, Replace, RemoveMarker, ObsoleteBackup, GiveUp
<1>2. In("venv") \subseteq Dirs /\ In("backup") \subseteq Dirs /\ OwnedBackups(o) \subseteq Dirs
  BY <1>1 DEF In, OwnedBackups, OpRecord
<1>3. ASSUME dir' \in [Dirs -> DirRecord], marker' \subseteq Ops, op' \in [Ops -> OpRecord]
      PROVE  Typed'
  BY <1>1, <1>3 DEF Typed
<1>4. CASE Survey(o)
  <2>1. [op[o] EXCEPT !.pc = "recovering", !.markers = Leftovers, !.backups = In("backup")] \in OpRecord
    BY <1>1, <1>2 DEF OpRecord, Steps, Leftovers, Typed
  <2> QED
    BY <1>3, <1>4, <2>1 DEF Survey, Typed
<1>5. CASE RecoverStaging(o)
  <2>1. PICK d \in op[o].markers : /\ op' = [op EXCEPT ![o].markers = @ \ {d}]
                                   /\ dir' = IF d \in marker THEN RetainedIn(dir, d) ELSE dir
                                   /\ marker' = marker \ {d}
    BY <1>5 DEF RecoverStaging
  <2>2. [op[o] EXCEPT !.markers = @ \ {d}] \in OpRecord /\ d \in Dirs
    BY <1>1 DEF OpRecord, Dirs
  <2> QED
    BY <1>3, <2>1, <2>2, RetainedType DEF Typed
<1>6. CASE RecoverBackups(o)
  BY <1>2, <1>3, <1>6, DirMoves, OpMoves DEF RecoverBackups, Typed, Steps
<1>7. CASE Probe(o)
  <2>1. [op[o] EXCEPT !.pc = "building", !.rebuild = FALSE] \in OpRecord
    BY <1>1 DEF OpRecord, Steps
  <2> QED
    BY <1>3, <1>7, <2>1, OpMoves DEF Probe, Typed, Steps
<1>8. CASE Repair(o) \/ Claim(o)
  <2>1. \/ \E d \in In("venv") : dir' = [dir EXCEPT ![d].health = "ready"]
        \/ \E d \in In("venv") : dir' = [dir EXCEPT ![d].owned = TRUE]
        \/ dir' = dir
    BY <1>8 DEF Repair, Claim
  <2>2. dir' \in [Dirs -> DirRecord]
    <3>1. ASSUME NEW d \in In("venv"), dir' = [dir EXCEPT ![d].health = "ready"]
          PROVE  dir' \in [Dirs -> DirRecord]
      <4>1. d \in Dirs
        BY <1>2
      <4> QED
        BY <3>1, <4>1, DirMoves
    <3>2. ASSUME NEW d \in In("venv"), dir' = [dir EXCEPT ![d].owned = TRUE]
          PROVE  dir' \in [Dirs -> DirRecord]
      <4>1. d \in Dirs
        BY <1>2
      <4> QED
        BY <3>2, <4>1, DirMoves
    <3>3. dir \in [Dirs -> DirRecord]
      BY DEF Typed
    <3> QED
      BY <2>1, <3>1, <3>2, <3>3
  <2>3. Goto(o, "claiming") \/ Goto(o, "checking") \/ Finish(o, "failed")
    BY <1>8 DEF Repair, Claim
  <2> QED
    BY <1>3, <1>8, <2>2, <2>3, OpMoves DEF Repair, Claim, Typed, Steps
<1>9. CASE WriteMarker(o) \/ CreateStaging(o) \/ VerifyStaging(o) \/ ClaimStaging(o) \/ RemoveMarker(o)
  BY ZenonT(60), <1>1, <1>3, <1>9, DirMoves, OpMoves
  DEF WriteMarker, CreateStaging, VerifyStaging, ClaimStaging, RemoveMarker, Typed, Steps
<1>10. CASE BuildFails(o) \/ CheckAbsent(o) \/ CheckOwned(o) \/ Place(o)
  BY <1>1, <1>3, <1>10, DirMoves, OpMoves, RetainType
  DEF BuildFails, CheckAbsent, CheckOwned, Place, Typed, Steps
<1>11. CASE Displace(o)
  <2>1. CASE Vacant /\ Retain(o, dir)
    BY <1>3, <2>1, RetainType DEF Typed
  <2>2. CASE \E d \in In("venv") : /\ Move(d, "backup")
                                   /\ op' = [op EXCEPT ![o] = [@ EXCEPT !.pc = "replacing", !.backup = d]]
                                   /\ UNCHANGED marker
    <3>1. PICK d \in In("venv") : /\ Move(d, "backup")
                                  /\ op' = [op EXCEPT ![o] = [@ EXCEPT !.pc = "replacing", !.backup = d]]
      BY <2>2
    <3>2. [op[o] EXCEPT !.pc = "replacing", !.backup = d] \in OpRecord /\ d \in Dirs
      BY <1>1, <1>2 DEF OpRecord, Steps
    <3> QED
      BY <1>3, <2>2, <3>1, <3>2, DirMoves DEF Typed
  <2> QED
    BY <1>11, <2>1, <2>2 DEF Displace
<1>12. CASE Replace(o)
  <2> DEFINE back == IF Vacant THEN [dir EXCEPT ![op[o].backup].place = "venv"] ELSE dir
  <2>1. back \in [Dirs -> DirRecord]
    <3>1. CASE op[o].backup \in Dirs
      BY <3>1, DirMoves DEF Typed
    <3>2. CASE op[o].backup \notin Dirs
      BY <3>2 DEF Typed
    <3> QED
      BY <3>1, <3>2
  <2>2. CASE Placeable(o) /\ Move(o, "venv") /\ Goto(o, "published") /\ UNCHANGED marker
    BY <1>1, <1>3, <2>2, DirMoves, OpMoves DEF Typed, Steps
  <2> HIDE DEF back
  <2>3. CASE Retain(o, back)
    BY <1>3, <2>1, <2>3, RetainType
  <2> QED
    BY <1>12, <2>2, <2>3 DEF Replace, back
<1>13. CASE ObsoleteBackup(o)
  <2>1. dir' \in [Dirs -> DirRecord]
    <3>1. CASE op[o].backup \in Dirs
      BY <1>13, <3>1, DirMoves DEF Typed, ObsoleteBackup
    <3>2. CASE op[o].backup \notin Dirs
      BY <1>13, <3>2 DEF Typed, ObsoleteBackup
    <3> QED
      BY <3>1, <3>2
  <2> QED
    BY <1>3, <1>13, <2>1, OpMoves DEF ObsoleteBackup, Typed, Steps
<1>14. CASE Check(o) \/ GiveUp(o)
  <2>1. Finish(o, "ok") \/ Finish(o, "failed")
    BY <1>14 DEF Check, GiveUp
  <2> QED
    BY <1>3, <1>14, <2>1, OpMoves DEF Check, GiveUp, Typed
<1> QED
  BY <1>4, <1>5, <1>6, <1>7, <1>8, <1>9, <1>10, <1>11, <1>12, <1>13, <1>14 DEF Works

LEMMA LocksTyped ==
    ASSUME Typed, NEW o \in Ops, Locks(o)
    PROVE  Typed' /\ dir' = dir /\ marker' = marker /\ alive' = alive
<1>1. op[o] \in OpRecord /\ NoLock \in LockRecord
  BY DEF Typed, NoLock, LockRecord
<1>2. dir' = dir /\ marker' = marker /\ alive' = alive
  BY DEF Locks, Provision, CreateLock, WriteLock, ExamineLock, VerifyLock, UnlinkLock, Release
<1>3. ASSUME lock' \in LockRecord, op' \in [Ops -> OpRecord] PROVE Typed'
  BY <1>2, <1>3 DEF Typed
<1>4. ASSUME NEW allow \in BOOLEAN, NEW rebuild \in BOOLEAN, Provision(o, allow, rebuild)
      PROVE  Typed'
  <2>1. \A pc \in {"settled", "locking"}, res \in {"busy", "none"} :
          [Idle EXCEPT !.pc = pc, !.allow = allow, !.rebuild = rebuild, !.res = res] \in OpRecord
    BY ZenonT(60), <1>1 DEF OpRecord, Steps, Idle
  <2> QED
    BY <1>3, <1>4, <2>1 DEF Provision, Typed
<1>5. CASE CreateLock(o)
  <2>1. [by |-> o, whole |-> FALSE] \in LockRecord
    BY DEF LockRecord
  <2>2. CASE lock = NoLock
    BY <1>3, <1>5, <2>1, <2>2, OpMoves DEF CreateLock, Steps
  <2>3. CASE lock # NoLock
    BY <1>3, <1>5, <2>3, OpMoves DEF CreateLock, Steps, Typed
  <2> QED
    BY <2>2, <2>3
<1>6. CASE WriteLock(o)
  <2>1. lock' \in LockRecord
    BY <1>6 DEF WriteLock, Typed, LockRecord
  <2> QED
    BY <1>3, <1>6, <2>1, OpMoves DEF WriteLock, Steps
<1>7. CASE ExamineLock(o)
  <2>1. [op[o] EXCEPT !.pc = "verifying", !.found = lock] \in OpRecord
    BY <1>1 DEF OpRecord, Steps, Typed
  <2> QED
    BY <1>3, <1>7, <2>1, OpMoves DEF ExamineLock, Typed
<1>8. CASE VerifyLock(o) \/ UnlinkLock(o)
  BY <1>1, <1>3, <1>8, OpMoves DEF VerifyLock, UnlinkLock, Typed, Steps
<1>9. CASE Release(o)
  <2>1. [Idle EXCEPT !.pc = "settled", !.allow = op[o].allow, !.res = op[o].res] \in OpRecord
    BY <1>1 DEF OpRecord, Steps, Idle
  <2>2. op' \in [Ops -> OpRecord]
    BY <1>9, <2>1 DEF Release, Settle, Typed
  <2> QED
    BY <1>1, <1>3, <1>9, <2>2 DEF Release, Typed
<1> QED
  BY <1>2, <1>4, <1>5, <1>6, <1>7, <1>8, <1>9 DEF Locks

LEMMA CrashTyped ==
    ASSUME Typed, NEW m \in Managers, Crash(m)
    PROVE  Typed'
<1>1. \A o \in Ops : [Idle EXCEPT !.pc = "dead", !.allow = op[o].allow] \in OpRecord
  <2> SUFFICES ASSUME NEW o \in Ops
               PROVE  [Idle EXCEPT !.pc = "dead", !.allow = op[o].allow] \in OpRecord
    OBVIOUS
  <2>1. op[o] \in OpRecord
    BY DEF Typed
  <2> QED
    BY <2>1 DEF OpRecord, Steps, Idle, NoLock, LockRecord
<1>2. op' \in [Ops -> OpRecord]
  BY <1>1 DEF Crash, Typed
<1> QED
  BY <1>2 DEF Crash, Typed

LEMMA UserTyped == Typed /\ UserCreates => Typed'
<1> SUFFICES ASSUME Typed, UserCreates PROVE Typed'
  OBVIOUS
<1>1. [dir[User] EXCEPT !.place = "venv"] \in DirRecord
  BY DEF Typed, DirRecord, Dirs
<1>2. dir' \in [Dirs -> DirRecord]
  BY <1>1 DEF Typed, UserCreates
<1> QED
  BY <1>2 DEF UserCreates, Typed

LEMMA TypedNext == Typed /\ [Next]_vars => Typed'
BY Split, WorksTyped, LocksTyped, CrashTyped, UserTyped DEF Next, vars, Typed

-----------------------------------------------------------------------------
(* The lock: a manager that lives makes one call at a time, a call that    *)
(* works has the lock, and one that removes a lock has found its owner     *)
(* dead.                                                                   *)

LockInv ==
    /\ lock.whole => lock.by \in Ops
    /\ \A o \in Ops : Busy(o) => ManagerOf[o] \in alive
    /\ \A o, p \in Ops : Busy(o) /\ Busy(p) /\ ManagerOf[o] = ManagerOf[p] => o = p
    /\ \A o \in Ops : Holds(o) => lock.by = o
    /\ \A o \in Ops : op[o].pc \in {"verifying", "unlinking"} =>
          /\ op[o].found.by \in Ops
          /\ ManagerOf[op[o].found.by] \notin alive

Exclusive == \A o, p \in Ops : Holds(o) /\ Holds(p) => o = p

LEMMA LockExcludes == LockInv => Exclusive
BY DEF LockInv, Exclusive

(* What a working call does to the calls. *)
LEMMA WorksFrame ==
    ASSUME Typed, NEW o \in Ops, Works(o)
    PROVE  /\ lock' = lock /\ alive' = alive
           /\ \A p \in Ops : p # o => op'[p] = op[p]
           /\ Holds(o) /\ Holds(o)' /\ op'[o].allow = op[o].allow
<1>1. op[o] \in OpRecord /\ op' \in [Ops -> OpRecord] /\ op \in [Ops -> OpRecord]
  BY WorksTyped DEF Typed
<1>2. lock' = lock /\ alive' = alive
  BY DEF Works, Survey, RecoverStaging, RecoverBackups, Probe, Repair, Claim, Check,
     WriteMarker, CreateStaging, VerifyStaging, ClaimStaging, BuildFails, CheckAbsent, Place,
     CheckOwned, Displace, Replace, RemoveMarker, ObsoleteBackup, GiveUp
<1>3. Holds(o)
  BY DEF Works, Survey, RecoverStaging, RecoverBackups, Probe, Repair, Claim, Check,
     WriteMarker, CreateStaging, VerifyStaging, ClaimStaging, BuildFails, CheckAbsent, Place,
     CheckOwned, Displace, Replace, RemoveMarker, ObsoleteBackup, GiveUp, At, Holds, Busy
<1>4. \E c : op' = [op EXCEPT ![o] = c]
  BY ZenonT(60), <1>1 DEF Works, Survey, RecoverStaging, RecoverBackups, Probe, Repair, Claim, Check,
     WriteMarker, CreateStaging, VerifyStaging, ClaimStaging, BuildFails, CheckAbsent, Place,
     CheckOwned, Displace, Replace, RemoveMarker, ObsoleteBackup, GiveUp, Goto, Finish, Retain
<1>5. op'[o].allow = op[o].allow /\ Holds(o)'
  <2>1. CASE Survey(o)
    BY <2>1, CallFields DEF Holds, Busy
  <2>2. CASE RecoverStaging(o)
    BY <1>3, <2>2, CallFields DEF Holds, Busy
  <2>3. CASE RecoverBackups(o)
    BY <1>3, <2>3, CallBecomes DEF RecoverBackups, Holds, Busy
  <2>4. CASE Probe(o)
    <3>1. /\ op'[o].pc \in {"building", "repairing", "releasing"}
          /\ op'[o].allow = op[o].allow
      BY <2>4, CallBecomes, CallFields DEF Probe
    <3> QED
      BY <3>1 DEF Holds, Busy
  <2>5. CASE Repair(o) \/ Claim(o) \/ Check(o)
    BY <2>5, CallBecomes DEF Repair, Claim, Check, Holds, Busy
  <2>6. CASE WriteMarker(o) \/ CreateStaging(o) \/ VerifyStaging(o) \/ ClaimStaging(o)
    BY <2>6, CallBecomes
    DEF WriteMarker, CreateStaging, VerifyStaging, ClaimStaging, Holds, Busy
  <2>7. CASE BuildFails(o) \/ CheckAbsent(o) \/ Place(o) \/ CheckOwned(o)
    BY <2>7, CallBecomes DEF BuildFails, CheckAbsent, Place, CheckOwned, Retain, Holds, Busy
  <2>8. CASE Displace(o)
    BY <2>8, CallFields DEF Holds, Busy
  <2>9. CASE Replace(o)
    BY <2>9, CallBecomes DEF Replace, Retain, Holds, Busy
  <2>10. CASE RemoveMarker(o)
    BY <2>10, CallBecomes DEF RemoveMarker, Holds, Busy
  <2>11. CASE ObsoleteBackup(o) \/ GiveUp(o)
    BY <1>3, <2>11, CallBecomes DEF ObsoleteBackup, GiveUp, Retain, Holds, Busy
  <2> QED
    BY <2>1, <2>2, <2>3, <2>4, <2>5, <2>6, <2>7, <2>8, <2>9, <2>10, <2>11 DEF Works
<1> QED
  BY <1>1, <1>2, <1>3, <1>4, <1>5

LEMMA LockInvInit == Init => LockInv
BY ProvisioningAssumption DEF Init, LockInv, Idle, NoLock, Busy, Holds

LEMMA WorksKeepLock ==
    ASSUME Typed, LockInv, NEW o \in Ops, Works(o)
    PROVE  LockInv'
<1>1. /\ lock' = lock /\ alive' = alive
      /\ \A p \in Ops : p # o => op'[p] = op[p]
      /\ Holds(o) /\ Holds(o)'
  BY WorksFrame
<1>2. \A p \in Ops : (Busy(p)' => Busy(p)) /\ (Holds(p)' => Holds(p))
  BY <1>1 DEF Busy, Holds
<1>3. op'[o].pc \notin {"verifying", "unlinking"}
  BY <1>1 DEF Holds
<1> QED
  BY <1>1, <1>2, <1>3 DEF LockInv

(* Only the recovering manager is left when it removes the stale lock. *)
LEMMA RecoversAlone ==
    ASSUME TwoManagers, Typed, LockInv, NEW o \in Ops, op[o].pc \in {"verifying", "unlinking"}
    PROVE  \A p \in Ops : Busy(p) => p = o
<1> SUFFICES ASSUME NEW p \in Ops, Busy(p) PROVE p = o
  OBVIOUS
<1> DEFINE q == op[o].found.by
<1>1. Busy(o)
  BY DEF Busy
<1>2. /\ q \in Ops /\ ManagerOf[q] \notin alive
      /\ ManagerOf[o] \in alive /\ ManagerOf[p] \in alive
  BY <1>1 DEF LockInv
<1>3. ManagerOf[o] \in Managers /\ ManagerOf[p] \in Managers /\ ManagerOf[q] \in Managers
  BY <1>2, ProvisioningAssumption
<1>4. ManagerOf[o] = ManagerOf[p]
  BY <1>2, <1>3 DEF TwoManagers
<1> QED
  BY <1>1, <1>4 DEF LockInv

(* What a call that takes or gives back the lock does to the calls.        *)
LEMMA LocksFrame ==
    ASSUME Typed, NEW o \in Ops, Locks(o)
    PROVE  /\ \A p \in Ops : p # o => op'[p] = op[p]
           /\ ManagerOf[o] \in alive
           /\ op[o].pc \in {"idle", "locking", "relocking", "examining", "verifying",
                            "unlinking", "writing", "releasing"}
           /\ op'[o].pc \in {"locking", "relocking", "examining", "verifying", "unlinking",
                             "writing", "locked", "settled"}
           /\ op[o].pc # "idle" => op'[o].allow = op[o].allow
<1>1. op[o] \in OpRecord /\ op' \in [Ops -> OpRecord] /\ op \in [Ops -> OpRecord]
  BY LocksTyped DEF Typed
<1>2. \E c : op' = [op EXCEPT ![o] = c]
  BY <1>1 DEF Locks, Provision, CreateLock, WriteLock, ExamineLock, VerifyLock, UnlinkLock, Release,
     Goto, Settle
<1>3. /\ ManagerOf[o] \in alive
      /\ op[o].pc \in {"idle", "locking", "relocking", "examining", "verifying",
                       "unlinking", "writing", "releasing"}
  BY DEF Locks, Provision, CreateLock, WriteLock, ExamineLock, VerifyLock, UnlinkLock, Release, At
<1>4. /\ op'[o].pc \in {"locking", "relocking", "examining", "verifying", "unlinking",
                        "writing", "locked", "settled"}
      /\ op[o].pc # "idle" => op'[o].allow = op[o].allow
  <2>1. ASSUME NEW allow \in BOOLEAN, NEW rebuild \in BOOLEAN, Provision(o, allow, rebuild)
        PROVE  op[o].pc = "idle" /\ op'[o].pc \in {"settled", "locking"}
    BY <1>1, <2>1 DEF Provision, At, Idle
  <2>2. CASE CreateLock(o) \/ WriteLock(o) \/ UnlinkLock(o)
    BY <2>2, CallBecomes DEF CreateLock, WriteLock, UnlinkLock
  <2>3. CASE ExamineLock(o)
    <3>1. CASE op' = [op EXCEPT ![o] = [@ EXCEPT !.pc = "verifying", !.found = lock]]
      BY <1>1, <3>1 DEF OpRecord
    <3>2. CASE Settle(o, "busy")
      BY <3>2, CallBecomes
    <3> QED
      BY <2>3, <3>1, <3>2 DEF ExamineLock
  <2>4. CASE VerifyLock(o)
    BY <2>4, CallBecomes DEF VerifyLock
  <2>5. CASE Release(o)
    BY <2>5, CallBecomes DEF Release
  <2> QED
    BY <2>1, <2>2, <2>3, <2>4, <2>5 DEF Locks
<1> QED
  BY <1>1, <1>2, <1>3, <1>4

LEMMA LocksKeepLock ==
    ASSUME TwoManagers, Typed, LockInv, NEW o \in Ops, Locks(o)
    PROVE  LockInv'
<1>1. /\ alive' = alive
      /\ \A p \in Ops : p # o => op'[p] = op[p]
      /\ ManagerOf[o] \in alive
      /\ op \in [Ops -> OpRecord] /\ op[o] \in OpRecord /\ lock \in LockRecord
  BY LocksTyped, LocksFrame DEF Typed
<1>2. \A p \in Ops : p # o => /\ Busy(p)' = Busy(p) /\ Holds(p)' = Holds(p)
  BY <1>1 DEF Busy, Holds
<1>3. (lock.whole => lock.by \in Ops)'
  <2>1. CASE CreateLock(o) \/ UnlinkLock(o) \/ Release(o)
    BY <2>1 DEF CreateLock, UnlinkLock, Release, LockInv, NoLock
  <2>2. CASE WriteLock(o)
    BY <1>1, <2>2 DEF WriteLock, LockInv, LockRecord
  <2>3. CASE lock' = lock
    BY <2>3 DEF LockInv
  <2> QED
    BY <2>1, <2>2, <2>3 DEF Locks, Provision, ExamineLock, VerifyLock
<1>4. Busy(o)' => Busy(o) \/ (op[o].pc = "idle" /\ ~\E p \in Ops \ {o} : ManagerOf[p] = ManagerOf[o] /\ Busy(p))
  <2>1. CASE op[o].pc = "idle"
    <3>1. PICK allow \in BOOLEAN, rebuild \in BOOLEAN : Provision(o, allow, rebuild)
      BY <2>1 DEF Locks, CreateLock, WriteLock, ExamineLock, VerifyLock, UnlinkLock, Release, At
    <3>2. CASE \E p \in Ops \ {o} : ManagerOf[p] = ManagerOf[o] /\ Busy(p)
      BY <1>1, <3>1, <3>2 DEF Provision, Busy, Idle
    <3> QED
      BY <2>1, <3>2
  <2>2. CASE op[o].pc # "idle"
    BY <2>2, LocksFrame DEF Busy
  <2> QED
    BY <2>1, <2>2
<1>5. (\A p \in Ops : Busy(p) => ManagerOf[p] \in alive)'
  BY <1>1, <1>2 DEF LockInv
<1>6. (\A p, r \in Ops : Busy(p) /\ Busy(r) /\ ManagerOf[p] = ManagerOf[r] => p = r)'
  BY <1>2, <1>4 DEF LockInv
<1>7. (\A p \in Ops : Holds(p) => lock.by = p)'
  <2>1. CASE op[o].pc = "unlinking"
    <3>1. \A p \in Ops : p # o => ~Holds(p)
      BY <2>1, RecoversAlone DEF Holds
    <3>2. op'[o].pc = "relocking"
      <4>1. UnlinkLock(o)
        BY <2>1 DEF Locks, Provision, CreateLock, WriteLock, ExamineLock, VerifyLock, Release, At
      <4> QED
        BY <4>1, CallBecomes DEF UnlinkLock
    <3> QED
      BY <1>2, <3>1, <3>2 DEF Holds
  <2>2. CASE op[o].pc \in {"locking", "relocking"}
    <3>1. CreateLock(o)
      BY <2>2 DEF Locks, Provision, WriteLock, ExamineLock, VerifyLock, UnlinkLock, Release, At
    <3>2. CASE lock = NoLock
      <4>1. \A p \in Ops : ~Holds(p)
        BY <3>2, ProvisioningAssumption DEF LockInv, NoLock
      <4>2. lock'.by = o
        BY <3>1, <3>2 DEF CreateLock
      <4> QED
        BY <1>2, <4>1, <4>2
    <3>3. CASE lock # NoLock
      <4>1. lock' = lock /\ (Goto(o, "examining") \/ Settle(o, "busy"))
        BY <3>1, <3>3 DEF CreateLock
      <4>2. op'[o].pc \in {"examining", "settled"}
        BY <4>1, CallBecomes
      <4> QED
        BY <1>2, <4>1, <4>2 DEF Holds, Busy, LockInv
    <3> QED
      BY <3>2, <3>3
  <2>3. CASE op[o].pc = "writing"
    <3>1. WriteLock(o)
      BY <2>3 DEF Locks, Provision, CreateLock, ExamineLock, VerifyLock, UnlinkLock, Release, At
    <3>2. Holds(o)
      BY <2>3 DEF Holds, Busy
    <3>3. lock'.by = lock.by
      BY <1>1, <3>1 DEF WriteLock, LockRecord
    <3> QED
      BY <1>2, <3>2, <3>3 DEF LockInv
  <2>4. CASE op[o].pc = "releasing"
    <3>1. Release(o)
      BY <2>4 DEF Locks, Provision, CreateLock, ExamineLock, VerifyLock, UnlinkLock, WriteLock, At
    <3>2. Holds(o)
      BY <2>4 DEF Holds, Busy
    <3>3. \A p \in Ops : p # o => ~Holds(p)
      BY <3>2, LockExcludes DEF Exclusive
    <3>4. op'[o].pc = "settled"
      BY <3>1, CallBecomes DEF Release
    <3> QED
      BY <1>2, <3>3, <3>4 DEF Holds, Busy
  <2>5. CASE op[o].pc \in {"idle", "examining", "verifying"}
    <3>1. lock' = lock
      BY <2>5 DEF Locks, Provision, CreateLock, WriteLock, ExamineLock, VerifyLock, UnlinkLock, Release, At
    <3>2. op'[o].pc \in {"settled", "locking", "verifying", "relocking", "unlinking"}
      <4>1. op'[o].pc \notin {"writing", "locked", "examining"}
        <5>1. ASSUME NEW allow \in BOOLEAN, NEW rebuild \in BOOLEAN, Provision(o, allow, rebuild)
              PROVE  op'[o].pc \in {"settled", "locking"}
          BY <1>1, <5>1 DEF Provision, Idle
        <5>2. CASE ExamineLock(o)
          <6>1. CASE op' = [op EXCEPT ![o] = [@ EXCEPT !.pc = "verifying", !.found = lock]]
            BY <1>1, <6>1 DEF OpRecord
          <6>2. CASE Settle(o, "busy")
            BY <6>2, CallBecomes
          <6> QED
            BY <5>2, <6>1, <6>2 DEF ExamineLock
        <5>3. CASE VerifyLock(o)
          BY <5>3, CallBecomes DEF VerifyLock
        <5> QED
          BY <2>5, <5>1, <5>2, <5>3 DEF Locks, CreateLock, WriteLock, UnlinkLock, Release, At
      <4> QED
        BY <4>1, LocksFrame
    <3> QED
      BY <1>2, <3>1, <3>2 DEF Holds, Busy, LockInv
  <2> QED
    BY <2>1, <2>2, <2>3, <2>4, <2>5, LocksFrame
<1>8. (\A p \in Ops : op[p].pc \in {"verifying", "unlinking"} =>
         op[p].found.by \in Ops /\ ManagerOf[op[p].found.by] \notin alive)'
  <2>1. ASSUME op'[o].pc \in {"verifying", "unlinking"}
        PROVE  op'[o].found.by \in Ops /\ ManagerOf[op'[o].found.by] \notin alive
    <3>1. CASE ExamineLock(o)
      <4>1. op'[o].found = lock /\ lock.whole /\ ManagerOf[lock.by] \notin alive
        <5>1. ~Settle(o, "busy")
          BY <2>1, CallBecomes
        <5> QED
          BY <3>1, <5>1, CallFields DEF ExamineLock, Stale
      <4> QED
        BY <4>1 DEF LockInv
    <3>2. CASE VerifyLock(o)
      <4>1. op[o].pc = "verifying" /\ op'[o].found = op[o].found
        BY <2>1, <3>2, CallBecomes DEF VerifyLock, At
      <4> QED
        BY <4>1 DEF LockInv
    <3>3. CASE ~ExamineLock(o) /\ ~VerifyLock(o)
      <4>1. ASSUME NEW allow \in BOOLEAN, NEW rebuild \in BOOLEAN, Provision(o, allow, rebuild)
            PROVE  FALSE
        BY <1>1, <2>1, <4>1 DEF Provision, Idle
      <4>2. CASE CreateLock(o) \/ WriteLock(o) \/ UnlinkLock(o) \/ Release(o)
        BY <2>1, <4>2, CallBecomes DEF CreateLock, WriteLock, UnlinkLock, Release
      <4> QED
        BY <3>3, <4>1, <4>2 DEF Locks
    <3> QED
      BY <3>1, <3>2, <3>3
  <2> QED
    BY <1>1, <2>1 DEF LockInv
<1> QED
  BY <1>3, <1>5, <1>6, <1>7, <1>8 DEF LockInv

LEMMA CrashKeepsLock ==
    ASSUME Typed, LockInv, NEW m \in Managers, Crash(m)
    PROVE  LockInv'
<1>1. /\ lock' = lock /\ alive' = alive \ {m}
      /\ \A o \in Ops : op'[o] = op[o] \/ op'[o].pc = "dead"
      /\ \A o \in Ops : ManagerOf[o] = m /\ Busy(o) => op'[o].pc = "dead"
  BY DEF Crash, Idle
<1>2. \A o \in Ops : /\ Busy(o)' => Busy(o) /\ ManagerOf[o] # m
                     /\ Holds(o)' => Holds(o)
                     /\ op'[o].pc \in {"verifying", "unlinking"} => op'[o] = op[o]
  BY <1>1 DEF Busy, Holds
<1> QED
  BY <1>1, <1>2 DEF LockInv

LEMMA LockInvNext == TwoManagers /\ Typed /\ LockInv /\ [Next]_vars => LockInv'
<1> SUFFICES ASSUME TwoManagers, Typed, LockInv, [Next]_vars PROVE LockInv'
  OBVIOUS
<1>1. CASE UNCHANGED vars
  BY <1>1 DEF vars, LockInv, Busy, Holds
<1>2. CASE UserCreates
  BY <1>2 DEF UserCreates, LockInv, Busy, Holds
<1> QED
  BY <1>1, <1>2, Split, WorksKeepLock, LocksKeepLock, CrashKeepsLock DEF Next

-----------------------------------------------------------------------------
(* There is one directory at .venv, because one is put there only while    *)
(* there is none.                                                          *)

OnePlace == \A d, e \in In("venv") : d = e

Cleared == In("venv")' \subseteq In("venv")
Filled  == Vacant /\ \E d \in Dirs : In("venv")' \subseteq {d}

LEMMA Placed ==
    ASSUME Typed, NEW d \in Dirs, NEW place, dir' = [dir EXCEPT ![d].place = place]
    PROVE  In("venv")' \subseteq In("venv") \cup {d}
<1>1. \A e \in Dirs : e # d => dir'[e] = dir[e]
  BY DEF Typed
<1> QED
  BY <1>1 DEF In

LEMMA Removed ==
    ASSUME Typed, NEW d \in Dirs, \/ dir' = [dir EXCEPT ![d].place = "residue"]
                                 \/ dir' = [dir EXCEPT ![d].place = "backup"]
    PROVE  Cleared
<1>1. \A e \in Dirs : e # d => dir'[e] = dir[e]
  BY DEF Typed
<1>2. dir'[d].place # "venv"
  BY DEF Typed, DirRecord
<1> QED
  BY <1>1, <1>2 DEF In, Cleared

LEMMA RetainClears ==
    ASSUME NEW ds \in [Dirs -> DirRecord], NEW o \in Ops, Retain(o, ds)
    PROVE  \A e \in In("venv")' : ds[e].place = "venv"
<1>1. o \in Dirs /\ DOMAIN ds = Dirs
  BY DEF Dirs
<1>2. \A e \in Dirs : dir'[e].place = "venv" => ds[e].place = "venv"
  <2>1. CASE dir' = ds
    BY <2>1
  <2>2. CASE dir' = [ds EXCEPT ![o].place = "residue"]
    <3>1. \A e \in Dirs : e # o => dir'[e] = ds[e]
      BY <2>2
    <3>2. dir'[o].place = "residue"
      BY <1>1, <2>2 DEF DirRecord
    <3> QED
      BY <3>1, <3>2
  <2> QED
    BY <2>1, <2>2 DEF Retain, RetainedIn
<1> QED
  BY <1>2 DEF In

(* A call that works clears .venv, or fills it where it is vacant.         *)
LEMMA WorksKeepOnePlace ==
    ASSUME Typed, NEW o \in Ops, Works(o)
    PROVE  Cleared \/ Filled
<1>1. o \in Dirs /\ dir \in [Dirs -> DirRecord] /\ op[o] \in OpRecord
  BY DEF Typed, Dirs
<1>2. CASE dir' = dir
  BY <1>2 DEF Cleared, In
<1>3. CASE Retain(o, dir)
  BY <1>1, <1>3, RetainClears DEF Cleared, In
<1>4. ASSUME NEW d \in Dirs, NEW ds, ds = dir \/ ds = RetainedIn(dir, d), dir' = ds
      PROVE  Cleared
  <2>1. CASE dir' = [dir EXCEPT ![d].place = "residue"]
    BY <2>1, Removed
  <2> QED
    BY <1>2, <1>4, <2>1 DEF RetainedIn, Cleared, In
<1>5. ASSUME NEW d \in Dirs, \/ dir' = [dir EXCEPT ![d].health = "ready"]
                             \/ dir' = [dir EXCEPT ![d].owned = TRUE]
      PROVE  Cleared
  <2>1. \A e \in Dirs : dir'[e].place = dir[e].place
    BY <1>1, <1>5 DEF DirRecord
  <2> QED
    BY <2>1 DEF Cleared, In
<1>6. CASE RecoverStaging(o)
  <2>1. PICK d \in op[o].markers : dir' = IF d \in marker THEN RetainedIn(dir, d) ELSE dir
    BY <1>6 DEF RecoverStaging
  <2>2. d \in Dirs
    BY <1>1 DEF OpRecord, Dirs
  <2> QED
    BY <1>4, <2>1, <2>2
<1>7. CASE RecoverBackups(o)
  <2>1. OwnedBackups(o) \subseteq Dirs
    BY <1>1 DEF OwnedBackups, OpRecord
  <2>2. ASSUME NEW d \in OwnedBackups(o), Vacant, Move(d, "venv") PROVE Filled
    BY <2>1, <2>2, Placed DEF Move, Filled, Vacant
  <2>3. ASSUME NEW d \in OwnedBackups(o), Move(d, "residue") PROVE Cleared
    BY <2>1, <2>3, Removed DEF Move
  <2> QED
    BY <1>2, <1>7, <2>2, <2>3 DEF RecoverBackups
<1>8. CASE Repair(o) \/ Claim(o)
  <2>1. In("venv") \subseteq Dirs
    BY DEF In
  <2> QED
    BY <1>2, <1>5, <1>8, <2>1 DEF Repair, Claim
<1>9. CASE CreateStaging(o)
  <2>1. \A e \in Dirs : e # o => dir'[e] = dir[e]
    BY <1>1, <1>9 DEF CreateStaging
  <2>2. dir'[o].place = "staging"
    BY <1>1, <1>9 DEF CreateStaging, Nowhere
  <2> QED
    BY <2>1, <2>2 DEF Cleared, In
<1>10. CASE VerifyStaging(o) \/ ClaimStaging(o)
  BY <1>1, <1>5, <1>10 DEF VerifyStaging, ClaimStaging
<1>11. CASE Place(o)
  <2>1. CASE Vacant /\ Move(o, "venv")
    BY <1>1, <2>1, Placed DEF Move, Filled, Vacant
  <2> QED
    BY <1>3, <1>11, <2>1 DEF Place, Placeable
<1>12. CASE Displace(o)
  <2>1. ASSUME NEW d \in In("venv"), Move(d, "backup") PROVE Cleared
    <3>1. d \in Dirs
      BY DEF In
    <3> QED
      BY <2>1, <3>1, Removed DEF Move
  <2> QED
    BY <1>3, <1>12, <2>1 DEF Displace
<1>13. CASE Replace(o)
  <2> DEFINE d == op[o].backup
             back == [dir EXCEPT ![d].place = "venv"]
  <2>1. CASE Vacant /\ Move(o, "venv")
    BY <1>1, <2>1, Placed DEF Move, Filled, Vacant
  <2>2. CASE Vacant /\ Retain(o, back)
    <3>1. CASE d \in Dirs
      <4>1. back \in [Dirs -> DirRecord]
        BY <3>1, DirMoves
      <4>2. \A e \in Dirs : e # d => back[e] = dir[e]
        BY <1>1
      <4> HIDE DEF back, d
      <4>3. \A e \in In("venv")' : back[e].place = "venv" /\ e \in Dirs
        BY <2>2, <4>1, RetainClears DEF In
      <4> QED
        BY <2>2, <3>1, <4>2, <4>3 DEF Filled, Vacant, In
    <3>2. CASE d \notin Dirs
      <4>1. back = dir
        BY <1>1, <3>2
      <4> QED
        BY <1>3, <2>2, <4>1
    <3> QED
      BY <3>1, <3>2
  <2> QED
    BY <1>3, <1>13, <2>1, <2>2 DEF Replace, Placeable
<1>14. CASE ObsoleteBackup(o)
  <2>1. op[o].backup \in Dirs \/ dir' = dir
    BY <1>1, <1>14 DEF ObsoleteBackup, OpRecord
  <2> QED
    BY <1>2, <1>14, <2>1, Removed DEF ObsoleteBackup
<1>15. CASE BuildFails(o) \/ CheckAbsent(o) \/ CheckOwned(o)
  BY <1>2, <1>3, <1>15 DEF BuildFails, CheckAbsent, CheckOwned
<1> QED
  BY <1>2, <1>6, <1>7, <1>8, <1>9, <1>10, <1>11, <1>12, <1>13, <1>14, <1>15
  DEF Works, Survey, Probe, Check, WriteMarker, RemoveMarker, GiveUp

LEMMA OnePlaceInit == Init => OnePlace
BY ProvisioningAssumption DEF Init, OnePlace, In, Nowhere, Dirs

LEMMA OnePlaceNext == Typed /\ OnePlace /\ [Next]_vars => OnePlace'
<1> SUFFICES ASSUME Typed, OnePlace, [Next]_vars PROVE OnePlace'
  OBVIOUS
<1>1. CASE dir' = dir
  BY <1>1 DEF OnePlace, In
<1>2. CASE Cleared \/ Filled
  BY <1>2 DEF Cleared, Filled, OnePlace
<1>3. CASE UserCreates
  <2>1. Filled
    BY <1>3, Placed DEF UserCreates, Filled, Vacant, Dirs
  <2> QED
    BY <1>2, <2>1
<1>4. ASSUME NEW o \in Ops, Locks(o) PROVE dir' = dir
  BY <1>4, LocksTyped
<1> QED
  BY <1>1, <1>2, <1>3, <1>4, Split, WorksKeepOnePlace DEF Next, Crash, vars

LEMMA OnePlaceCounts == OnePlace => Cardinality(In("venv")) <= 1
<1> SUFFICES ASSUME OnePlace PROVE Cardinality(In("venv")) <= 1
  OBVIOUS
<1>1. CASE In("venv") = {}
  BY <1>1, FS_EmptySet
<1>2. ASSUME NEW d \in In("venv") PROVE Cardinality(In("venv")) <= 1
  <2>1. In("venv") = {d}
    BY <1>2 DEF OnePlace
  <2>2. Cardinality({d}) = 1
    BY FS_Singleton
  <2> QED
    BY <2>1, <2>2
<1> QED
  BY <1>1, <1>2

-----------------------------------------------------------------------------
(* The theorems.                                                           *)

PInv == Typed /\ OnePlace /\ LockInv

(* The invariant is inductive if there are at most two managers.           *)
THEOREM ProvisioningInvariant == TwoManagers => (Spec => []PInv)
<1> SUFFICES ASSUME TwoManagers PROVE Spec => []PInv
  OBVIOUS
<1>1. Init => PInv
  BY TypedInit, OnePlaceInit, LockInvInit DEF PInv
<1>2. PInv /\ [Next]_vars => PInv'
  BY TypedNext, OnePlaceNext, LockInvNext DEF PInv
<1> QED
  BY <1>1, <1>2, PTL DEF Spec

(* The types, and that calls of provision exclude each other: between its  *)
(* lock and its release a call is alone in the workspace, whatever crashes *)
(* and whatever locks crashed managers have left, if at most one manager   *)
(* can be there to recover the lock of another.                            *)
THEOREM ProvisioningExcludes == TwoManagers => (Spec => []ProvisioningIsExclusive)
<1> SUFFICES ASSUME TwoManagers PROVE Spec => []ProvisioningIsExclusive
  OBVIOUS
<1>1. PInv => ProvisioningIsExclusive
  <2>1. PInv => TypeOK
    BY OnePlaceCounts DEF PInv, Typed, TypeOK, DirRecord, LockRecord, OpRecord
  <2> QED
    BY <2>1, LockExcludes DEF PInv, ProvisioningIsExclusive, Exclusive
<1> QED
  BY <1>1, ProvisioningInvariant, PTL

-----------------------------------------------------------------------------
(* What provisioning does to directories, on top of this exclusion and     *)
(* with its premise: the environment the workspace had is not lost,        *)
(* nothing half built is ever at .venv, a directory of the user's is       *)
(* neither moved nor claimed, and a call that succeeds leaves nothing in   *)
(* staging.                                                                *)


(* What a call has built so far.                                           *)
Early == {"idle", "locking", "relocking", "writing", "examining", "verifying", "unlinking",
          "locked", "recovering", "probing", "repairing", "claiming", "building", "marked"}
Ready == {"verified", "staged", "placing", "displacing", "replacing"}
Marked == {"staged", "placing", "displacing", "replacing"}

BuildInv ==
    \A o \in Ops :
        /\ op[o].pc \in Early => dir[o].place = "none"
        /\ op[o].pc \in Ready => dir[o].health = "ready"
        /\ op[o].pc \in Marked => Owned(o)
        /\ dir[o].place \in {"venv", "backup"} => Owned(o) /\ dir[o].health = "ready"

(* While .venv is vacant, there is one backup of ours to restore.          *)
OwnedBackup(d) == d \in In("backup") /\ Owned(d)
BackupInv ==
    Vacant => /\ \A d, e \in Dirs : OwnedBackup(d) /\ OwnedBackup(e) => d = e
              /\ HadEnvironment => \E d \in Dirs : OwnedBackup(d)

(* What the call that has the lock has made sure of, and nobody else can   *)
(* undo: from probing until it moves the environment away there is no      *)
(* backup of ours next to an environment of ours.                          *)
Settling == {"probing", "building", "marked", "staging", "verified", "staged", "displacing"}
WorkInv ==
    \A o \in Ops :
        /\ op[o].pc = "recovering" => In("backup") \subseteq op[o].backups
        /\ op[o].pc \in Settling /\ OwnedEnvironment => \A d \in Dirs : ~OwnedBackup(d)
        /\ op[o].pc = "displacing" => OwnedEnvironment
        /\ op[o].pc = "replacing" => op[o].backup \in In("backup")
        /\ op[o].pc \in {"published", "obsoleting"} => ~Vacant
        /\ op[o].pc \in {"repairing", "claiming"} => op[o].allow \/ OwnedEnvironment

UserInv ==
    /\ dir[User].place = "none" => ~Owned(User)
    /\ dir[User].place \notin {"none", "venv"} => Owned(User)
    /\ Owned(User) => \E o \in Ops : op[o].allow
    /\ \A o \in Ops : op[o].pc = "idle" => ~op[o].allow

DirInv == BuildInv /\ BackupInv /\ WorkInv /\ UserInv

USE DEF Early, Ready, Marked, Settling

-----------------------------------------------------------------------------
(* What the steps of a call do to the directories.                         *)

(* Nothing comes to .venv or the backups or leaves them.                   *)
Still ==
    \A d \in Dirs : /\ dir'[d].place = "venv" <=> dir[d].place = "venv"
                    /\ dir'[d].place = "backup" <=> dir[d].place = "backup"
                    /\ dir'[d].place = "none" => dir[d].place = "none"

(* No directory appears, comes to staging or loses its packages or sidecar. *)
Grows(d) ==
    /\ dir[d].place = "none" => dir'[d].place = "none"
    /\ dir'[d].place = "staging" => dir[d].place = "staging"
    /\ dir[d].owned => dir'[d].owned
    /\ dir[d].health = "ready" => dir'[d].health = "ready"

Same(d) == dir'[d].owned = dir[d].owned /\ dir'[d].health = dir[d].health

LEMMA MovedDir ==
    ASSUME Typed, NEW d \in Dirs, NEW place, dir' = [dir EXCEPT ![d].place = place]
    PROVE  /\ dir'[d].place = place /\ Same(d)
           /\ \A e \in Dirs : e # d => dir'[e] = dir[e]
<1>1. dir \in [Dirs -> DirRecord] /\ dir[d] \in DirRecord
  BY DEF Typed
<1> QED
  BY <1>1 DEF DirRecord, Same

LEMMA RetainedDir ==
    ASSUME Typed, NEW d \in Ops, dir' = RetainedIn(dir, d)
    PROVE  /\ Still /\ \A e \in Dirs : Same(e) /\ Grows(e)
           /\ \A e \in Dirs : e # d => dir'[e] = dir[e]
           /\ dir'[d].place # "staging"
<1>1. d \in Dirs /\ dir \in [Dirs -> DirRecord] /\ dir[d] \in DirRecord
  BY DEF Typed, Dirs
<1>2. CASE dir[d].place = "staging"
  <2>1. dir' = [dir EXCEPT ![d].place = "residue"]
    BY <1>2 DEF RetainedIn
  <2>2. dir'[d].place = "residue" /\ Same(d) /\ \A e \in Dirs : e # d => dir'[e] = dir[e]
    BY <1>1, <2>1, MovedDir
  <2> QED
    BY <1>2, <2>2 DEF Still, Same, Grows
<1>3. CASE dir[d].place # "staging"
  <2>1. dir' = dir
    BY <1>3 DEF RetainedIn
  <2> QED
    BY <1>3, <2>1 DEF Still, Same, Grows
<1> QED
  BY <1>2, <1>3

LEMMA RetainStill ==
    ASSUME Typed, NEW o \in Ops, Retain(o, dir)
    PROVE  /\ Still /\ \A e \in Dirs : Same(e) /\ Grows(e)
           /\ op'[o].pc = "releasing"
<1>1. CASE dir' = dir
  BY <1>1, CallBecomes DEF Retain, Still, Same, Grows
<1>2. CASE dir' = RetainedIn(dir, o)
  BY <1>2, RetainedDir, CallBecomes DEF Retain
<1> QED
  BY <1>1, <1>2 DEF Retain

(* The steps that leave .venv and the backups where they are.              *)
Rests(o) ==
    \/ Survey(o) \/ RecoverStaging(o) \/ Probe(o) \/ Repair(o) \/ Claim(o) \/ Check(o)
    \/ WriteMarker(o) \/ CreateStaging(o) \/ VerifyStaging(o) \/ ClaimStaging(o) \/ BuildFails(o)
    \/ CheckAbsent(o) \/ CheckOwned(o) \/ RemoveMarker(o) \/ GiveUp(o)

Kept == Still /\ \A e \in Dirs : Same(e) /\ Grows(e)

LEMMA Unchanged == dir' = dir => Kept
BY DEF Kept, Still, Same, Grows

LEMMA RestsStill ==
    ASSUME Typed, BuildInv, NEW o \in Ops, Rests(o)
    PROVE  /\ Still
           /\ \A d \in Dirs : (d # o \/ ~CreateStaging(o)) => Grows(d)
           /\ \A d \in Dirs : dir[d].place # "venv" /\ d # o => dir'[d].owned = dir[d].owned
           /\ ~Claim(o) => \A d \in Dirs : dir[d].place \in {"venv", "backup"} => dir'[d].owned = dir[d].owned
           /\ \A d \in Dirs : dir[d].place = "backup" => dir'[d].owned = dir[d].owned
<1> DEFINE Goal == /\ Still
                   /\ \A d \in Dirs : (d # o \/ ~CreateStaging(o)) => Grows(d)
                   /\ \A d \in Dirs : dir[d].place # "venv" /\ d # o => dir'[d].owned = dir[d].owned
                   /\ ~Claim(o) => \A d \in Dirs : dir[d].place \in {"venv", "backup"}
                                                   => dir'[d].owned = dir[d].owned
                   /\ \A d \in Dirs : dir[d].place = "backup" => dir'[d].owned = dir[d].owned
<1>1. o \in Dirs /\ dir \in [Dirs -> DirRecord] /\ op[o] \in OpRecord /\ dir[o] \in DirRecord
  BY DEF Typed, Dirs
<1>2. Kept => Goal
  BY DEF Kept, Same
<1>3. CASE dir' = dir
  BY <1>2, <1>3, Unchanged
<1>4. CASE RecoverStaging(o)
  <2>1. PICK d \in op[o].markers : dir' = IF d \in marker THEN RetainedIn(dir, d) ELSE dir
    BY <1>4 DEF RecoverStaging
  <2>2. d \in Ops
    BY <1>1 DEF OpRecord
  <2>3. dir' = RetainedIn(dir, d) => Kept
    BY <2>2, RetainedDir DEF Kept
  <2> QED
    BY <1>2, <1>3, <2>1, <2>3
<1>5. CASE Retain(o, dir)
  BY <1>2, <1>5, RetainStill DEF Kept
<1>6. ASSUME NEW d \in In("venv"), dir' = [dir EXCEPT ![d].health = "ready"]
      PROVE  Goal
  <2>1. d \in Dirs /\ dir[d] \in DirRecord
    BY <1>1 DEF In
  <2>2. /\ \A e \in Dirs : e # d => dir'[e] = dir[e]
        /\ dir'[d].health = "ready" /\ dir'[d].place = dir[d].place /\ dir'[d].owned = dir[d].owned
    BY <1>1, <1>6, <2>1 DEF DirRecord
  <2> QED
    BY <2>2 DEF Still, Grows
<1>7. ASSUME NEW d \in In("venv"), dir' = [dir EXCEPT ![d].owned = TRUE], Claim(o)
      PROVE  Goal
  <2>1. d \in Dirs /\ dir[d] \in DirRecord /\ dir[d].place = "venv"
    BY <1>1 DEF In
  <2>2. /\ \A e \in Dirs : e # d => dir'[e] = dir[e]
        /\ dir'[d].health = dir[d].health /\ dir'[d].place = dir[d].place /\ dir'[d].owned
    BY <1>1, <1>7, <2>1 DEF DirRecord
  <2> QED
    BY <1>7, <2>1, <2>2 DEF Still, Grows
<1>8. CASE CreateStaging(o)
  <2>1. dir[o].place = "none"
    BY <1>8 DEF CreateStaging, At, BuildInv
  <2>2. dir'[o].place = "staging" /\ \A e \in Dirs : e # o => dir'[e] = dir[e]
    BY <1>1, <1>8 DEF CreateStaging, Nowhere
  <2> QED
    BY <1>8, <2>1, <2>2 DEF Still, Grows
<1>9. CASE VerifyStaging(o)
  <2>1. /\ \A e \in Dirs : e # o => dir'[e] = dir[e]
        /\ dir'[o].health = "ready" /\ dir'[o].place = dir[o].place /\ dir'[o].owned = dir[o].owned
    BY <1>1, <1>9 DEF VerifyStaging, DirRecord
  <2> QED
    BY <2>1 DEF Still, Grows
<1>10. CASE ClaimStaging(o)
  <2>1. /\ \A e \in Dirs : e # o => dir'[e] = dir[e]
        /\ dir'[o].health = dir[o].health /\ dir'[o].place = dir[o].place /\ dir'[o].owned
        /\ dir[o].place = "staging"
    BY <1>1, <1>10 DEF ClaimStaging, DirRecord
  <2> QED
    BY <2>1 DEF Still, Grows
<1>11. CASE Repair(o)
  BY <1>3, <1>6, <1>11 DEF Repair
<1>12. CASE Claim(o)
  BY <1>3, <1>7, <1>12 DEF Claim
<1>13. CASE BuildFails(o) \/ CheckAbsent(o) \/ CheckOwned(o)
  BY <1>3, <1>5, <1>13 DEF BuildFails, CheckAbsent, CheckOwned
<1>14. CASE Survey(o) \/ Probe(o) \/ Check(o) \/ WriteMarker(o) \/ RemoveMarker(o) \/ GiveUp(o)
  BY <1>3, <1>14 DEF Survey, Probe, Check, WriteMarker, RemoveMarker, GiveUp
<1> QED
  BY <1>4, <1>8, <1>9, <1>10, <1>11, <1>12, <1>13, <1>14 DEF Rests

(* The others move one directory.                                          *)
Moves(d, place) ==
    /\ d \in Dirs /\ dir'[d].place = place
    /\ \A e \in Dirs :
          /\ Same(e) /\ Grows(e)
          /\ e # d => /\ dir'[e].place = "venv" <=> dir[e].place = "venv"
                      /\ dir'[e].place = "backup" <=> dir[e].place = "backup"
                      /\ dir'[e].place = "none" => dir[e].place = "none"

Restores(o, d) ==
    /\ Vacant /\ d \in In("backup") /\ Moves(d, "venv")
    /\ \/ op'[o].pc = "releasing"
       \/ op[o].pc = "recovering" /\ OwnedBackup(d) /\ op'[o].pc = "probing"
Publishes(o) ==
    /\ Vacant /\ dir[o].place = "staging" /\ Moves(o, "venv")
    /\ op[o].pc \in {"placing", "replacing"} /\ op'[o].pc = "published"
Displaces(o, d) ==
    /\ d \in In("venv") /\ Moves(d, "backup")
    /\ op[o].pc = "displacing" /\ op'[o].pc = "replacing" /\ op'[o].backup = d
Obsoletes(o, d) ==
    /\ OwnedBackup(d) /\ Moves(d, "residue")
    /\ \/ op[o].pc = "recovering" /\ OwnedEnvironment /\ op'[o] = op[o]
       \/ op[o].pc = "obsoleting" /\ op'[o].pc = "checking"
Passes(o) ==
    /\ Kept
    /\ \/ op'[o].pc \in {"releasing", "checking"}
       \/ /\ op[o].pc = "recovering" /\ op'[o].pc = "probing"
          /\ OwnedBackups(o) = {} \/ (~Vacant /\ ~OwnedEnvironment)

LEMMA MoveMoves ==
    ASSUME Typed, NEW d \in Dirs, NEW place, dir[d].place # "none", place # "staging",
           dir' = [dir EXCEPT ![d].place = place]
    PROVE  Moves(d, place)
<1>1. /\ dir'[d].place = place /\ Same(d)
      /\ \A e \in Dirs : e # d => dir'[e] = dir[e]
  BY MovedDir
<1> QED
  BY <1>1 DEF Moves, Same, Grows

LEMMA RestoresBack ==
    ASSUME Typed, NEW o \in Ops, NEW d \in In("backup"), Vacant,
           Retain(o, [dir EXCEPT ![d].place = "venv"])
    PROVE  Restores(o, d)
<1> DEFINE back == [dir EXCEPT ![d].place = "venv"]
<1>1. /\ d \in Dirs /\ dir[d].place = "backup" /\ o \in Dirs
      /\ dir \in [Dirs -> DirRecord] /\ dir[d] \in DirRecord
  BY DEF Typed, In, Dirs
<1>2. /\ back \in [Dirs -> DirRecord] /\ back[d].place = "venv"
      /\ back[d].owned = dir[d].owned /\ back[d].health = dir[d].health
      /\ \A e \in Dirs : e # d => back[e] = dir[e]
  BY <1>1, DirMoves DEF DirRecord
<1> HIDE DEF back
<1>3. op'[o].pc = "releasing" /\ (dir' = back \/ dir' = RetainedIn(back, o))
  BY CallBecomes DEF Retain, back
<1>4. CASE dir' = back
  <2>1. Moves(d, "venv")
    BY <1>1, <1>2, <1>4 DEF Moves, Same, Grows
  <2> QED
    BY <1>3, <2>1 DEF Restores
<1>5. CASE dir' # back
  <2>1. back[o].place = "staging" /\ dir' = [back EXCEPT ![o].place = "residue"]
    BY <1>3, <1>5 DEF RetainedIn
  <2>2. o # d /\ back[o] \in DirRecord /\ back[o] = dir[o]
    BY <1>1, <1>2, <2>1
  <2>3. /\ dir'[o].place = "residue" /\ Same(o)
        /\ \A e \in Dirs : e # o => dir'[e] = back[e]
    BY <1>1, <1>2, <2>1, <2>2 DEF DirRecord, Same
  <2>4. Moves(d, "venv")
    BY <1>1, <1>2, <2>1, <2>2, <2>3 DEF Moves, Same, Grows
  <2> QED
    BY <1>3, <2>4 DEF Restores
<1> QED
  BY <1>4, <1>5

LEMMA Relocations ==
    ASSUME Typed, WorkInv, NEW o \in Ops, Works(o), ~Rests(o)
    PROVE  \/ Publishes(o) \/ Passes(o)
           \/ \E d \in Dirs : Restores(o, d) \/ Displaces(o, d) \/ Obsoletes(o, d)
<1>1. /\ o \in Dirs /\ dir \in [Dirs -> DirRecord] /\ op[o] \in OpRecord
      /\ In("venv") \subseteq Dirs /\ In("backup") \subseteq Dirs
  BY DEF Typed, Dirs, In
<1>2. CASE RecoverBackups(o)
  <2>1. \A d \in OwnedBackups(o) : d \in Dirs /\ dir[d].place = "backup" /\ OwnedBackup(d)
    BY <1>1 DEF OwnedBackups, OpRecord, OwnedBackup, In
  <2>2. ASSUME NEW d \in OwnedBackups(o), Vacant, Move(d, "venv"), Goto(o, "probing")
        PROVE  Restores(o, d)
    <3>1. Moves(d, "venv")
      BY <2>1, <2>2, MoveMoves DEF Move
    <3> QED
      BY <1>2, <2>1, <2>2, <3>1, CallBecomes DEF Restores, RecoverBackups, At, OwnedBackup
  <2>3. ASSUME NEW d \in OwnedBackups(o), OwnedEnvironment, Move(d, "residue"), op' = op
        PROVE  Obsoletes(o, d)
    <3>1. Moves(d, "residue")
      BY <2>1, <2>3, MoveMoves DEF Move
    <3> QED
      BY <1>2, <2>1, <2>3, <3>1 DEF Obsoletes, RecoverBackups, At
  <2>4. ASSUME dir' = dir, Finish(o, "failed") PROVE Passes(o)
    BY <2>4, CallBecomes, Unchanged DEF Passes
  <2>5. ASSUME dir' = dir, Goto(o, "probing"), OwnedBackups(o) = {} \/ (~Vacant /\ ~OwnedEnvironment)
        PROVE  Passes(o)
    BY <1>2, <2>5, CallBecomes, Unchanged DEF Passes, RecoverBackups, At
  <2> QED
    BY <1>2, <2>1, <2>2, <2>3, <2>4, <2>5 DEF RecoverBackups, Obsolete
<1>3. CASE Retain(o, dir)
  BY <1>3, RetainStill DEF Passes, Kept
<1>4. CASE Placeable(o) /\ Move(o, "venv") /\ Goto(o, "published") /\ op[o].pc \in {"placing", "replacing"}
  <2>1. Moves(o, "venv")
    BY <1>1, <1>4, MoveMoves DEF Placeable, Move
  <2> QED
    BY <1>4, <2>1, CallBecomes DEF Publishes, Placeable
<1>5. CASE Place(o)
  BY <1>3, <1>4, <1>5 DEF Place, At
<1>6. CASE Displace(o)
  <2>1. ASSUME NEW d \in In("venv"), Move(d, "backup"),
               op' = [op EXCEPT ![o] = [@ EXCEPT !.pc = "replacing", !.backup = d]]
        PROVE  Displaces(o, d)
    <3>1. Moves(d, "backup")
      BY <1>1, <2>1, MoveMoves DEF Move, In
    <3>2. op'[o].pc = "replacing" /\ op'[o].backup = d
      BY <1>1, <2>1 DEF Typed, OpRecord
    <3> QED
      BY <1>6, <3>1, <3>2 DEF Displaces, Displace, At
  <2> QED
    BY <1>1, <1>3, <1>6, <2>1 DEF Displace
<1>7. CASE Replace(o)
  <2>1. op[o].pc = "replacing" /\ op[o].backup \in In("backup")
    BY <1>7 DEF Replace, At, WorkInv
  <2>2. CASE Vacant /\ Retain(o, [dir EXCEPT ![op[o].backup].place = "venv"])
    BY <1>1, <2>1, <2>2, RestoresBack
  <2> QED
    BY <1>3, <1>4, <1>7, <2>1, <2>2 DEF Replace
<1>8. CASE ObsoleteBackup(o)
  <2> DEFINE d == op[o].backup
  <2>1. op[o].pc = "obsoleting" /\ op'[o].pc = "checking"
    BY <1>8, CallBecomes DEF ObsoleteBackup, At
  <2>2. CASE dir' = dir
    BY <2>1, <2>2, Unchanged DEF Passes
  <2>3. CASE dir[d].place = "backup" /\ Owned(d) /\ dir' = [dir EXCEPT ![d].place = "residue"]
    <3>1. CASE d \in Dirs
      <4>1. Moves(d, "residue")
        BY <2>3, <3>1, MoveMoves
      <4> QED
        BY <2>1, <2>3, <3>1, <4>1 DEF Obsoletes, OwnedBackup, In
    <3>2. CASE d \notin Dirs
      BY <1>1, <2>2, <2>3, <3>2
    <3> QED
      BY <3>1, <3>2
  <2> QED
    BY <1>8, <2>2, <2>3 DEF ObsoleteBackup
<1> QED
  BY <1>2, <1>5, <1>6, <1>7, <1>8 DEF Works, Rests

-----------------------------------------------------------------------------
(* One step of the call that has the lock.                                 *)

LEMMA Alone ==
    ASSUME Typed, LockInv, NEW o \in Ops, Works(o)
    PROVE  /\ \A p \in Ops : p # o => op'[p] = op[p] /\ ~Holds(p)
           /\ op'[o].allow = op[o].allow /\ Holds(o) /\ Holds(o)'
BY WorksFrame, LockExcludes DEF Exclusive

(* No step takes a sidecar or packages away; what comes to .venv or to the *)
(* backups was there, or is the environment the call has built.            *)
LEMMA WorksGrow ==
    ASSUME Typed, BuildInv, WorkInv, NEW o \in Ops, Works(o)
    PROVE  /\ \A d \in Dirs : (d # o \/ ~CreateStaging(o)) => Grows(d)
           /\ \A d \in Dirs : dir'[d].place \in {"venv", "backup"} =>
                 dir[d].place \in {"venv", "backup"} \/ (d = o /\ op[o].pc \in {"placing", "replacing"})
<1>1. CASE Rests(o)
  BY <1>1, RestsStill DEF Still
<1>2. CASE Publishes(o)
  BY <1>2 DEF Publishes, Moves
<1>3. CASE Passes(o)
  BY <1>3 DEF Passes, Kept, Still
<1>4. ASSUME NEW d \in Dirs, Restores(o, d) \/ Displaces(o, d) \/ Obsoletes(o, d)
      PROVE  /\ \A e \in Dirs : Grows(e)
             /\ \A e \in Dirs : dir'[e].place \in {"venv", "backup"} => dir[e].place \in {"venv", "backup"}
  BY <1>4 DEF Restores, Displaces, Obsoletes, OwnedBackup, Moves, In
<1> QED
  BY <1>1, <1>2, <1>3, <1>4, Relocations

(* From where a call comes to each place of its way.                       *)
LEMMA Way ==
    ASSUME Typed, NEW o \in Ops, Works(o)
    PROVE  /\ op'[o].pc \in Early => op[o].pc \in Early /\ ~CreateStaging(o)
           /\ op'[o].pc \in Ready => op[o].pc \in Ready \/ VerifyStaging(o)
           /\ op'[o].pc \in Marked => op[o].pc \in Marked \/ ClaimStaging(o)
<1>1. op[o] \in OpRecord /\ op \in [Ops -> OpRecord]
  BY DEF Typed
<1>2. CASE Survey(o)
  BY <1>1, <1>2 DEF Survey, CreateStaging, At, OpRecord
<1>3. CASE RecoverStaging(o)
  BY <1>1, <1>3 DEF RecoverStaging, CreateStaging, At, OpRecord
<1>4. CASE RecoverBackups(o)
  BY <1>4, CallBecomes DEF RecoverBackups, CreateStaging, At
<1>5. CASE Probe(o)
  <2>1. op[o].pc = "probing" /\ op'[o].pc \in {"building", "repairing", "releasing"}
    BY <1>5, CallBecomes, CallFields DEF Probe, At
  <2> QED
    BY <2>1 DEF CreateStaging, At
<1>6. CASE Repair(o) \/ Claim(o) \/ Check(o) \/ WriteMarker(o) \/ GiveUp(o)
  BY <1>6, CallBecomes DEF Repair, Claim, Check, WriteMarker, GiveUp, CreateStaging, At
<1>7. CASE CreateStaging(o) \/ VerifyStaging(o) \/ ClaimStaging(o)
  BY <1>7, CallBecomes DEF CreateStaging, VerifyStaging, ClaimStaging, At
<1>8. CASE BuildFails(o) \/ CheckAbsent(o) \/ CheckOwned(o) \/ Place(o)
  BY <1>8, CallBecomes DEF BuildFails, CheckAbsent, CheckOwned, Place, Retain, At
<1>9. CASE Displace(o)
  <2>1. op'[o].pc \in {"replacing", "releasing"} /\ op[o].pc = "displacing"
    BY <1>9, CallFields DEF Displace, At
  <2> QED
    BY <2>1
<1>10. CASE Replace(o)
  BY <1>10, CallBecomes DEF Replace, Retain, At
<1>11. CASE RemoveMarker(o)
  <2>1. op'[o].pc \in {"checking", "obsoleting"}
    BY <1>11, CallBecomes DEF RemoveMarker
  <2> QED
    BY <2>1
<1>12. CASE ObsoleteBackup(o)
  BY <1>12, CallBecomes DEF ObsoleteBackup
<1> QED
  BY <1>2, <1>3, <1>4, <1>5, <1>6, <1>7, <1>8, <1>9, <1>10, <1>11, <1>12 DEF Works

LEMMA WorksKeepBuild ==
    ASSUME Typed, LockInv, BuildInv, WorkInv, NEW o \in Ops, Works(o)
    PROVE  BuildInv'
<1>1. /\ \A d \in Dirs : (d # o \/ ~CreateStaging(o)) => Grows(d)
      /\ \A d \in Dirs : dir'[d].place \in {"venv", "backup"} =>
            dir[d].place \in {"venv", "backup"} \/ (d = o /\ op[o].pc \in {"placing", "replacing"})
  BY WorksGrow
<1>2. o \in Dirs /\ dir \in [Dirs -> DirRecord] /\ dir[o] \in DirRecord
  BY DEF Typed, Dirs
<1>3. ASSUME NEW p \in Ops, p # o
      PROVE  /\ op'[p].pc \in Early => dir'[p].place = "none"
             /\ op'[p].pc \notin Ready /\ op'[p].pc \notin Marked
             /\ dir'[p].place \in {"venv", "backup"} => dir'[p].owned /\ dir'[p].health = "ready"
  <2>1. p \in Dirs /\ op'[p] = op[p] /\ ~Holds(p) /\ Grows(p)
    BY <1>1, <1>3, Alone DEF Dirs
  <2>2. op[p].pc \notin Ready /\ op[p].pc \notin Marked
    BY <2>1 DEF Holds, Busy
  <2> QED
    BY <1>1, <1>3, <2>1, <2>2 DEF BuildInv, Grows, Owned
<1>4. op'[o].pc \in Early => dir'[o].place = "none"
  BY <1>1, <1>2, Way DEF BuildInv, Grows
<1>5. op'[o].pc \in Ready => dir'[o].health = "ready"
  <2>1. CASE VerifyStaging(o)
    BY <1>2, <2>1 DEF VerifyStaging, DirRecord
  <2>2. CASE op[o].pc \in Ready
    BY <1>1, <1>2, <2>2 DEF BuildInv, Grows, CreateStaging, At
  <2> QED
    BY <2>1, <2>2, Way
<1>6. op'[o].pc \in Marked => dir'[o].owned
  <2>1. CASE ClaimStaging(o)
    BY <1>2, <2>1 DEF ClaimStaging, DirRecord
  <2>2. CASE op[o].pc \in Marked
    BY <1>1, <1>2, <2>2 DEF BuildInv, Grows, Owned, CreateStaging, At
  <2> QED
    BY <2>1, <2>2, Way
<1>7. dir'[o].place \in {"venv", "backup"} => dir'[o].owned /\ dir'[o].health = "ready"
  <2>1. CASE CreateStaging(o)
    BY <1>2, <2>1 DEF CreateStaging, Nowhere
  <2>2. CASE ~CreateStaging(o)
    BY <1>1, <1>2, <2>2 DEF BuildInv, Grows, Owned
  <2> QED
    BY <2>1, <2>2
<1> QED
  BY <1>3, <1>4, <1>5, <1>6, <1>7 DEF BuildInv, Owned

LEMMA WorksKeepBackup ==
    ASSUME Typed, OnePlace, LockInv, BuildInv, BackupInv, WorkInv, NEW o \in Ops, Works(o)
    PROVE  BackupInv'
<1>1. HadEnvironment' => HadEnvironment
  <2>1. Old \in Dirs /\ Old # o
    BY ProvisioningAssumption DEF Dirs
  <2> QED
    BY <2>1, WorksGrow DEF HadEnvironment, Grows
<1>2. ASSUME Still, \A d \in Dirs : dir[d].place = "backup" => dir'[d].owned = dir[d].owned
      PROVE  BackupInv'
  <2>1. Vacant' => Vacant
    BY <1>2 DEF Vacant, In, Still
  <2>2. \A d \in Dirs : OwnedBackup(d)' <=> OwnedBackup(d)
    BY <1>2 DEF OwnedBackup, Owned, In, Still
  <2> QED
    BY <1>1, <2>1, <2>2 DEF BackupInv
<1>3. CASE Rests(o)
  BY <1>2, <1>3, RestsStill
<1>4. CASE Passes(o)
  BY <1>2, <1>4 DEF Passes, Kept, Same
<1>5. CASE Publishes(o)
  <2>1. ~Vacant'
    BY <1>5 DEF Publishes, Moves, Vacant, In
  <2> QED
    BY <2>1 DEF BackupInv
<1>6. ASSUME NEW d \in Dirs, Restores(o, d) PROVE BackupInv'
  <2>1. ~Vacant'
    BY <1>6 DEF Restores, Moves, Vacant, In
  <2> QED
    BY <2>1 DEF BackupInv
<1>7. ASSUME NEW d \in Dirs, Displaces(o, d) PROVE BackupInv'
  <2>1. op[o].pc = "displacing" /\ d \in In("venv")
    BY <1>7 DEF Displaces
  <2>2. Owned(d)
    BY <2>1 DEF WorkInv, OwnedEnvironment, OnePlace
  <2>3. \A e \in Dirs : ~OwnedBackup(e)
    BY <2>1, <2>2 DEF WorkInv, OwnedEnvironment
  <2>4. OwnedBackup(d)'
    BY <1>7, <2>2 DEF Displaces, Moves, Same, OwnedBackup, Owned, In
  <2>5. \A e \in Dirs : OwnedBackup(e)' => e = d
    BY <1>7, <2>3 DEF Displaces, Moves, Same, OwnedBackup, Owned, In
  <2> QED
    BY <2>4, <2>5 DEF BackupInv
<1>8. ASSUME NEW d \in Dirs, Obsoletes(o, d) PROVE BackupInv'
  <2>1. ~Vacant
    BY <1>8 DEF Obsoletes, OwnedEnvironment, Vacant, WorkInv
  <2>2. In("venv") \subseteq In("venv")'
    BY <1>8 DEF Obsoletes, Moves, OwnedBackup, In
  <2> QED
    BY <2>1, <2>2 DEF BackupInv, Vacant
<1> QED
  BY <1>3, <1>4, <1>5, <1>6, <1>7, <1>8, Relocations

(* What a call that leaves the directories where they are has made sure of. *)
LEMMA WayRests ==
    ASSUME Typed, WorkInv, NEW o \in Ops, Rests(o)
    PROVE  /\ op'[o].pc = "recovering" => In("backup") \subseteq op'[o].backups
           /\ op'[o].pc \in Settling => op[o].pc \in Settling /\ ~Claim(o)
           /\ op'[o].pc = "displacing" => OwnedEnvironment
           /\ op'[o].pc # "replacing"
           /\ op'[o].pc \in {"published", "obsoleting"} => op[o].pc = "published"
           /\ op'[o].pc \in {"repairing", "claiming"} => ~Claim(o) /\ (op[o].allow \/ OwnedEnvironment)
<1>1. op[o] \in OpRecord /\ op \in [Ops -> OpRecord]
  BY DEF Typed
<1>2. CASE Survey(o)
  BY <1>1, <1>2 DEF Survey, At, OpRecord
<1>3. CASE RecoverStaging(o)
  <2>1. op[o].pc = "recovering" /\ op'[o].pc = "recovering" /\ op'[o].backups = op[o].backups
    BY <1>1, <1>3 DEF RecoverStaging, At, OpRecord
  <2> QED
    BY <2>1 DEF WorkInv
<1>4. CASE Probe(o)
  <2>1. op[o].pc = "probing" /\ ~Claim(o)
    BY <1>4 DEF Probe, Claim, At
  <2>2. ASSUME op'[o].pc \notin {"repairing", "releasing"} PROVE op'[o].pc = "building"
    BY <1>4, <2>2, CallBecomes, CallFields DEF Probe
  <2>3. ASSUME NEW d \in In("venv"), MayRepair(o, d), Goto(o, "repairing")
        PROVE  op'[o].pc = "repairing" /\ (op[o].allow \/ OwnedEnvironment)
    BY <2>3, CallBecomes DEF MayRepair, OwnedEnvironment
  <2>4. /\ \A res : Finish(o, res) => op'[o].pc = "releasing"
        /\ Goto(o, "building") => op'[o].pc = "building"
        /\ op' = [op EXCEPT ![o] = [@ EXCEPT !.pc = "building", !.rebuild = FALSE]] =>
              op'[o].pc = "building"
    BY CallBecomes, CallFields
  <2>5. op'[o].pc = "repairing" => op[o].allow \/ OwnedEnvironment
    BY <1>4, <2>3, <2>4 DEF Probe
  <2> QED
    BY <2>1, <2>2, <2>5 DEF Settling
<1>5. CASE Repair(o)
  <2>1. op[o].pc = "repairing" /\ ~Claim(o) /\ op'[o].pc \in {"claiming", "releasing"}
    BY <1>5, CallBecomes DEF Repair, Claim, At
  <2> QED
    BY <2>1 DEF WorkInv
<1>6. CASE Claim(o) \/ Check(o) \/ GiveUp(o) \/ BuildFails(o)
  <2>1. op'[o].pc \in {"checking", "releasing"}
    BY <1>6, CallBecomes DEF Claim, Check, GiveUp, BuildFails, Retain
  <2> QED
    BY <2>1
<1>7. CASE WriteMarker(o) \/ CreateStaging(o) \/ VerifyStaging(o) \/ ClaimStaging(o)
  <2>1. op[o].pc \in Settling /\ op'[o].pc \in {"marked", "staging", "verified", "staged"} /\ ~Claim(o)
    BY <1>7, CallBecomes DEF WriteMarker, CreateStaging, VerifyStaging, ClaimStaging, Claim, At
  <2> QED
    BY <2>1
<1>8. CASE CheckAbsent(o)
  BY <1>8, CallBecomes DEF CheckAbsent, Retain
<1>9. CASE CheckOwned(o)
  BY <1>9, CallBecomes DEF CheckOwned, Retain, Replaceable, Claim, At
<1>10. CASE RemoveMarker(o)
  <2>1. op[o].pc = "published" /\ op'[o].pc \in {"checking", "obsoleting"}
    BY <1>10, CallBecomes DEF RemoveMarker, At
  <2> QED
    BY <2>1
<1> QED
  BY <1>2, <1>3, <1>4, <1>5, <1>6, <1>7, <1>8, <1>9, <1>10 DEF Rests

LEMMA WorksKeepWork ==
    ASSUME Typed, OnePlace, LockInv, BuildInv, BackupInv, WorkInv, NEW o \in Ops, Works(o)
    PROVE  WorkInv'
<1>1. op'[o].allow = op[o].allow /\ \A p \in Ops : p # o => op'[p] = op[p] /\ ~Holds(p)
  BY Alone
<1> DEFINE Sure ==
      /\ op'[o].pc = "recovering" => In("backup")' \subseteq op'[o].backups
      /\ op'[o].pc \in Settling /\ OwnedEnvironment' => \A d \in Dirs : ~OwnedBackup(d)'
      /\ op'[o].pc = "displacing" => OwnedEnvironment'
      /\ op'[o].pc = "replacing" => op'[o].backup \in In("backup")'
      /\ op'[o].pc \in {"published", "obsoleting"} => ~Vacant'
      /\ op'[o].pc \in {"repairing", "claiming"} => op'[o].allow \/ OwnedEnvironment'
<1>2. ASSUME Rests(o) PROVE Sure
  <2>1. Still
    BY <1>2, RestsStill
  <2>2. In("backup")' = In("backup") /\ In("venv")' = In("venv")
    BY <2>1 DEF Still, In
  <2>3. ~Claim(o) => /\ OwnedEnvironment' <=> OwnedEnvironment
                     /\ \A d \in Dirs : OwnedBackup(d)' <=> OwnedBackup(d)
    <3>1. ~Claim(o) => \A d \in Dirs : dir[d].place \in {"venv", "backup"} => dir'[d].owned = dir[d].owned
      BY <1>2, RestsStill
    <3> QED
      BY <2>2, <3>1 DEF OwnedEnvironment, OwnedBackup, Owned, In
  <2>4. /\ op'[o].pc = "recovering" => In("backup") \subseteq op'[o].backups
        /\ op'[o].pc \in Settling => op[o].pc \in Settling /\ ~Claim(o)
        /\ op'[o].pc = "displacing" => OwnedEnvironment
        /\ op'[o].pc # "replacing"
        /\ op'[o].pc \in {"published", "obsoleting"} => op[o].pc = "published"
        /\ op'[o].pc \in {"repairing", "claiming"} => ~Claim(o) /\ (op[o].allow \/ OwnedEnvironment)
    BY <1>2, WayRests
  <2>5. op[o].pc = "published" => ~Vacant'
    BY <2>2 DEF WorkInv, Vacant
  <2> QED
    BY <1>1, <2>2, <2>3, <2>4, <2>5 DEF WorkInv
<1>3. ASSUME Passes(o) PROVE Sure
  <2>1. In("backup")' = In("backup") /\ In("venv")' = In("venv")
    BY <1>3 DEF Passes, Kept, Still, In
  <2>2. \A d \in Dirs : dir'[d].owned = dir[d].owned
    BY <1>3 DEF Passes, Kept, Same
  <2>3. ASSUME op'[o].pc = "probing", OwnedEnvironment' PROVE \A d \in Dirs : ~OwnedBackup(d)'
    <3>1. OwnedEnvironment
      BY <2>1, <2>2, <2>3 DEF OwnedEnvironment, Owned, In
    <3>2. op[o].pc = "recovering" /\ OwnedBackups(o) = {}
      BY <1>3, <2>3, <3>1 DEF Passes
    <3>3. \A d \in Dirs : ~OwnedBackup(d)
      BY <3>2 DEF WorkInv, OwnedBackups, OwnedBackup, In
    <3> QED
      BY <2>1, <2>2, <3>3 DEF OwnedBackup, Owned
  <2>4. op'[o].pc \in {"releasing", "checking", "probing"}
    BY <1>3 DEF Passes
  <2> QED
    BY <2>3, <2>4
<1>4. ASSUME Publishes(o) PROVE Sure
  BY <1>4 DEF Publishes, Moves, Vacant, In
<1>5. ASSUME NEW d \in Dirs, Restores(o, d) PROVE Sure
  <2>1. op'[o].pc = "probing" => \A e \in Dirs : ~OwnedBackup(e)'
    BY <1>5 DEF Restores, Moves, Same, BackupInv, OwnedBackup, Owned, In
  <2> QED
    BY <1>5, <2>1 DEF Restores
<1>6. ASSUME NEW d \in Dirs, Displaces(o, d) PROVE Sure
  BY <1>6 DEF Displaces, Moves, In
<1>7. ASSUME NEW d \in Dirs, Obsoletes(o, d) PROVE Sure
  <2>1. In("backup")' \subseteq In("backup")
    BY <1>7 DEF Obsoletes, Moves, In
  <2>2. \/ op'[o].pc = "checking"
        \/ op[o].pc = "recovering" /\ op'[o] = op[o]
    BY <1>7 DEF Obsoletes
  <2>3. op[o].pc = "recovering" => In("backup") \subseteq op[o].backups
    BY DEF WorkInv
  <2> QED
    BY <2>1, <2>2, <2>3
<1>8. Sure
  BY <1>2, <1>3, <1>4, <1>5, <1>6, <1>7, Relocations
<1>9. ASSUME NEW p \in Ops, p # o
      PROVE  op'[p].pc \notin Settling \cup {"recovering", "replacing", "published", "obsoleting",
                                             "repairing", "claiming"}
  BY <1>1, <1>9 DEF Holds, Busy
<1> QED
  BY <1>8, <1>9 DEF WorkInv

(* A working call claims the directory at .venv if it is asked to or if it *)
(* is already ours, and moves away only what is ours.                      *)
LEMMA WorksKeepUser ==
    ASSUME Typed, OnePlace, LockInv, BuildInv, WorkInv, UserInv, NEW o \in Ops, Works(o)
    PROVE  UserInv'
<1>1. User \in Dirs /\ User # o
  BY ProvisioningAssumption DEF Dirs
<1>2. \A p \in Ops : /\ op'[p].allow = op[p].allow
                     /\ op'[p].pc = "idle" => op[p].pc = "idle"
  BY Alone DEF Holds, Busy
<1>3. Grows(User)
  BY <1>1, WorksGrow
<1> DEFINE Left ==
      /\ dir'[User].place = "none" => dir[User].place = "none" /\ dir'[User].owned = dir[User].owned
      /\ dir'[User].place \notin {"none", "venv"} => Owned(User) \/ dir[User].place \notin {"none", "venv"}
      /\ dir'[User].owned => Owned(User) \/ op[o].allow
<1>4. ASSUME Rests(o) PROVE Left
  <2>1. /\ Still
        /\ dir[User].place # "venv" => dir'[User].owned = dir[User].owned
        /\ ~Claim(o) /\ dir[User].place = "venv" => dir'[User].owned = dir[User].owned
    BY <1>1, <1>4, RestsStill
  <2>2. Claim(o) /\ dir[User].place = "venv" => Owned(User) \/ op[o].allow
    <3> SUFFICES ASSUME Claim(o), dir[User].place = "venv" PROVE Owned(User) \/ op[o].allow
      OBVIOUS
    <3>1. op[o].allow \/ OwnedEnvironment
      BY DEF Claim, At, WorkInv
    <3>2. OwnedEnvironment => Owned(User)
      BY <1>1 DEF OwnedEnvironment, OnePlace, In
    <3> QED
      BY <3>1, <3>2
  <2> QED
    BY <1>1, <1>3, <2>1, <2>2 DEF Still, Grows, Owned
<1>5. ASSUME Passes(o) \/ Publishes(o) PROVE Left
  BY <1>1, <1>3, <1>5 DEF Passes, Publishes, Kept, Still, Same, Moves, Grows, Owned
<1>6. ASSUME NEW d \in Dirs, Restores(o, d) PROVE Left
  BY <1>1, <1>3, <1>6 DEF Restores, Same, Moves, Grows, Owned
<1>7. ASSUME NEW d \in Dirs, Displaces(o, d) PROVE Left
  <2>1. Owned(d)
    BY <1>7 DEF Displaces, WorkInv, OwnedEnvironment, OnePlace
  <2> QED
    BY <1>1, <1>3, <1>7, <2>1 DEF Displaces, Same, Moves, Grows, Owned
<1>8. ASSUME NEW d \in Dirs, Obsoletes(o, d) PROVE Left
  BY <1>1, <1>3, <1>8 DEF Obsoletes, OwnedBackup, Same, Moves, Grows, Owned
<1>9. Left
  BY <1>4, <1>5, <1>6, <1>7, <1>8, Relocations
<1>10. (dir[User].place = "none" => ~Owned(User))'
  BY <1>9 DEF UserInv, Owned
<1>11. (dir[User].place \notin {"none", "venv"} => Owned(User))'
  BY <1>3, <1>9 DEF UserInv, Owned, Grows
<1>12. (Owned(User) => \E p \in Ops : op[p].allow)'
  BY <1>2, <1>9 DEF UserInv, Owned
<1> QED
  BY <1>2, <1>10, <1>11, <1>12 DEF UserInv

-----------------------------------------------------------------------------
(* The other steps.                                                        *)

LEMMA DirInvInit == Init => DirInv
<1> SUFFICES ASSUME Init PROVE DirInv
  OBVIOUS
<1>1. /\ \A o \in Ops : o # Old /\ o # User /\ o \in Dirs /\ op[o].pc = "idle" /\ ~op[o].allow
      /\ Old \in Dirs /\ User \in Dirs /\ Old # User
  BY ProvisioningAssumption DEF Init, Idle, Dirs
<1>2. PICK h \in {"ready", "unfit", "broken"}, d \in {NoDir, Old, User} :
         dir = [e \in Dirs |-> IF e = d THEN [place |-> "venv", health |-> h, owned |-> d = Old]
                                ELSE Nowhere]
  BY DEF Init
<1>3. \A e \in Dirs : /\ e = d => dir[e].place = "venv" /\ dir[e].owned = (d = Old)
                      /\ e # d => dir[e].place = "none" /\ ~dir[e].owned
  BY <1>2 DEF Nowhere
<1>4. BuildInv
  <2>1. \A o \in Ops : o # d
    BY <1>1, ProvisioningAssumption DEF Dirs
  <2> QED
    BY <1>1, <1>3, <2>1 DEF BuildInv
<1>5. BackupInv
  <2>1. \A e \in Dirs : ~OwnedBackup(e)
    BY <1>3 DEF OwnedBackup, In
  <2>2. Vacant => ~HadEnvironment
    BY <1>1, <1>3 DEF Vacant, HadEnvironment, In
  <2> QED
    BY <2>1, <2>2 DEF BackupInv
<1>6. WorkInv
  BY <1>1 DEF WorkInv
<1>7. UserInv
  BY <1>1, <1>3 DEF UserInv, Owned
<1> QED
  BY <1>4, <1>5, <1>6, <1>7 DEF DirInv

(* A step that changes no directory and no call that works.                *)
LEMMA DirInvCalls ==
    ASSUME DirInv, dir' = dir,
           \A o \in Ops : /\ \/ op'[o] = op[o]
                             \/ op'[o].pc \in {"settled", "dead"}
                             \/ /\ op[o].pc \in Early /\ op'[o].pc \in Early
                                /\ op'[o].pc \notin {"recovering", "probing", "building", "marked",
                                                     "repairing", "claiming"}
                          /\ op[o].allow => op'[o].allow
                          /\ op'[o].pc = "idle" => op'[o] = op[o]
    PROVE  DirInv'
<1>1. In("venv")' = In("venv") /\ In("backup")' = In("backup")
  BY DEF In
<1>2. /\ \A d \in Dirs : OwnedBackup(d)' <=> OwnedBackup(d)
      /\ OwnedEnvironment' <=> OwnedEnvironment
      /\ Vacant' <=> Vacant
      /\ HadEnvironment' <=> HadEnvironment
  BY <1>1 DEF OwnedBackup, OwnedEnvironment, Vacant, HadEnvironment, Owned
<1>3. BuildInv'
  BY DEF DirInv, BuildInv, Owned
<1>4. BackupInv'
  BY <1>2 DEF DirInv, BackupInv
<1>5. WorkInv'
  BY <1>1, <1>2 DEF DirInv, WorkInv
<1>6. UserInv'
  BY DEF DirInv, UserInv, Owned
<1> QED
  BY <1>3, <1>4, <1>5, <1>6 DEF DirInv

LEMMA LocksKeepDir ==
    ASSUME Typed, DirInv, NEW o \in Ops, Locks(o)
    PROVE  DirInv'
<1>1. dir' = dir
  BY LocksTyped
<1>2. /\ \A p \in Ops : p # o => op'[p] = op[p]
      /\ op[o].pc \in {"idle", "locking", "relocking", "examining", "verifying",
                       "unlinking", "writing", "releasing"}
      /\ op'[o].pc \in {"locking", "relocking", "examining", "verifying", "unlinking",
                        "writing", "locked", "settled"}
      /\ op[o].pc # "idle" => op'[o].allow = op[o].allow
  BY LocksFrame
<1>3. op[o].pc = "releasing" => op'[o].pc = "settled"
  BY CallBecomes DEF Locks, Provision, CreateLock, ExamineLock, VerifyLock, UnlinkLock, WriteLock,
     Release, At
<1>4. op[o].pc = "idle" => ~op[o].allow
  BY DEF DirInv, UserInv
<1> QED
  BY <1>1, <1>2, <1>3, <1>4, DirInvCalls

LEMMA CrashKeepsDir ==
    ASSUME DirInv, NEW m \in Managers, Crash(m)
    PROVE  DirInv'
<1>1. dir' = dir
  BY DEF Crash
<1>2. \A o \in Ops : op'[o] = op[o] \/ (op'[o].pc = "dead" /\ op'[o].allow = op[o].allow)
  BY DEF Crash, Idle
<1> QED
  BY <1>1, <1>2, DirInvCalls

(* The user puts a directory at .venv, which was vacant.                   *)
LEMMA UserKeepsDir ==
    ASSUME Typed, DirInv, UserCreates
    PROVE  DirInv'
<1>1. /\ User \in Dirs /\ User \notin Ops /\ User # Old
      /\ Vacant /\ dir[User].place = "none" /\ ~Owned(User) /\ op' = op
  BY ProvisioningAssumption DEF UserCreates, Dirs, DirInv, UserInv
<1>2. dir'[User].place = "venv" /\ Same(User) /\ \A e \in Dirs : e # User => dir'[e] = dir[e]
  BY <1>1, MovedDir DEF UserCreates
<1>3. In("venv")' = {User} /\ In("backup")' = In("backup")
  BY <1>1, <1>2 DEF Vacant, In
<1>4. ~OwnedEnvironment /\ ~OwnedEnvironment' /\ ~Vacant'
  BY <1>1, <1>2, <1>3 DEF OwnedEnvironment, Vacant, Owned, Same
<1>5. BuildInv'
  <2>1. \A o \in Ops : o \in Dirs /\ o # User
    BY <1>1 DEF Dirs
  <2> QED
    BY <1>1, <1>2, <2>1 DEF DirInv, BuildInv, Owned
<1>6. BackupInv'
  BY <1>4 DEF BackupInv
<1>7. WorkInv'
  BY <1>1, <1>3, <1>4 DEF DirInv, WorkInv
<1>8. UserInv'
  BY <1>1, <1>2 DEF DirInv, UserInv, Owned, Same
<1> QED
  BY <1>5, <1>6, <1>7, <1>8 DEF DirInv

LEMMA DirInvNext == PInv /\ DirInv /\ [Next]_vars => DirInv'
<1> SUFFICES ASSUME PInv, DirInv, [Next]_vars PROVE DirInv'
  OBVIOUS
<1>1. Typed /\ OnePlace /\ LockInv
  BY DEF PInv
<1>2. CASE UNCHANGED vars
  BY <1>2, DirInvCalls DEF vars
<1>3. ASSUME NEW o \in Ops, Works(o) PROVE DirInv'
  BY <1>1, <1>3, WorksKeepBuild, WorksKeepBackup, WorksKeepWork, WorksKeepUser DEF DirInv
<1>4. ASSUME NEW o \in Ops, Locks(o) PROVE DirInv'
  BY <1>1, <1>4, LocksKeepDir
<1> QED
  BY <1>1, <1>2, <1>3, <1>4, Split, CrashKeepsDir, UserKeepsDir DEF Next

-----------------------------------------------------------------------------
(* Staging directories have markers, and a call puts away those it finds   *)
(* before it makes its own.                                                *)

Swept == {"probing", "building", "repairing", "claiming", "checking", "obsoleting"}
Own == {"marked", "staging", "verified", "staged", "placing", "displacing", "replacing", "published"}

Tidy(o) ==
    /\ op[o].pc = "recovering" => marker \subseteq op[o].markers
    /\ op[o].pc \in Swept => marker = {}
    /\ op[o].pc \in Own => marker \subseteq {o}
    /\ op[o].pc = "marked" => o \in marker
    /\ op[o].pc = "published" => dir[o].place # "staging"
    /\ op[o].pc = "releasing" /\ op[o].res = "ok" => marker = {}

StagingInv == In("staging") \subseteq marker /\ \A o \in Ops : Tidy(o)

LEMMA RetainTidy ==
    ASSUME Typed, NEW o \in Ops, NEW ds \in [Dirs -> DirRecord], Retain(o, ds)
    PROVE  /\ \A d \in marker \ marker' : dir'[d].place # "staging"
           /\ Tidy(o)'
<1>1. o \in Dirs /\ ds[o] \in DirRecord
  BY DEF Dirs
<1>2. marker' = marker \ {o} /\ op'[o].pc = "releasing" /\ op'[o].res = "failed"
  BY CallBecomes DEF Retain
<1>3. o \in marker => dir'[o].place # "staging"
  <2>1. CASE ds[o].place = "staging"
    BY <1>1, <2>1 DEF Retain, RetainedIn, DirRecord
  <2>2. CASE ds[o].place # "staging"
    BY <2>2 DEF Retain, RetainedIn
  <2> QED
    BY <2>1, <2>2
<1> QED
  BY <1>2, <1>3 DEF Tidy, Swept, Own

LEMMA WorksTidy ==
    ASSUME Typed, StagingInv, NEW o \in Ops, Works(o)
    PROVE  /\ \A d \in marker \ marker' : dir'[d].place # "staging"
           /\ Tidy(o)'
<1> DEFINE Goal == /\ \A d \in marker \ marker' : dir'[d].place # "staging"
                   /\ Tidy(o)'
<1>1. /\ op[o] \in OpRecord /\ op \in [Ops -> OpRecord] /\ dir \in [Dirs -> DirRecord]
      /\ o \in Dirs /\ Tidy(o)
  BY DEF Typed, Dirs, StagingInv
<1>2. CASE Survey(o)
  <2>1. marker' = marker /\ op'[o].pc = "recovering" /\ op'[o].markers = marker
    BY <1>1, <1>2 DEF Survey, Leftovers, OpRecord
  <2> QED
    BY <2>1 DEF Tidy, Swept, Own
<1>3. CASE RecoverStaging(o)
  <2>1. PICK d \in op[o].markers : /\ op' = [op EXCEPT ![o].markers = @ \ {d}]
                                   /\ dir' = IF d \in marker THEN RetainedIn(dir, d) ELSE dir
                                   /\ marker' = marker \ {d}
    BY <1>3 DEF RecoverStaging
  <2>2. /\ d \in Ops /\ op[o].pc = "recovering" /\ op'[o].pc = "recovering"
        /\ op'[o].markers = op[o].markers \ {d}
    BY <1>1, <1>3, <2>1 DEF RecoverStaging, At, OpRecord
  <2>3. d \in marker => dir'[d].place # "staging"
    BY <2>1, <2>2, RetainedDir
  <2> QED
    BY <1>1, <2>1, <2>2, <2>3 DEF Tidy, Swept, Own
<1>4. CASE RecoverBackups(o)
  <2>1. marker' = marker /\ op[o].pc = "recovering" /\ marker = {}
    BY <1>1, <1>4 DEF RecoverBackups, At, Tidy
  <2>2. op' = op \/ op'[o].pc \in {"probing", "releasing"}
    BY <1>4, CallBecomes DEF RecoverBackups
  <2> QED
    BY <1>1, <2>1, <2>2 DEF Tidy, Swept, Own
<1>5. ASSUME marker' = marker, op[o].pc \in Swept, op'[o].pc \in {"building", "repairing", "claiming",
                                                                  "checking", "releasing"}
      PROVE  Goal
  BY <1>1, <1>5 DEF Tidy, Own
<1>6. CASE Probe(o)
  <2>1. op'[o].pc \in {"building", "repairing", "releasing"}
    BY <1>6, CallBecomes, CallFields DEF Probe
  <2> QED
    BY <1>5, <1>6, <2>1 DEF Probe, At, Swept
<1>7. CASE Repair(o) \/ Claim(o) \/ Check(o) \/ ObsoleteBackup(o)
  <2>1. op'[o].pc \in {"claiming", "checking", "releasing"}
    BY <1>7, CallBecomes DEF Repair, Claim, Check, ObsoleteBackup
  <2> QED
    BY <1>5, <1>7, <2>1 DEF Repair, Claim, Check, ObsoleteBackup, At, Swept
<1>8. CASE WriteMarker(o)
  <2>1. op[o].pc = "building" /\ op'[o].pc = "marked" /\ marker' = marker \cup {o}
    BY <1>8, CallBecomes DEF WriteMarker, At
  <2> QED
    BY <1>1, <2>1 DEF Tidy, Swept, Own
<1>9. CASE CreateStaging(o) \/ VerifyStaging(o) \/ ClaimStaging(o)
  <2>1. op[o].pc \in Own /\ op'[o].pc \in {"staging", "verified", "staged"} /\ marker' = marker
    BY <1>9, CallBecomes DEF CreateStaging, VerifyStaging, ClaimStaging, At, Own
  <2> QED
    BY <1>1, <2>1 DEF Tidy, Swept, Own
<1>10. ASSUME Retain(o, dir) PROVE Goal
  BY <1>1, <1>10, RetainTidy
<1>11. CASE BuildFails(o)
  BY <1>10, <1>11 DEF BuildFails
<1>12. ASSUME marker' = marker, op[o].pc = "staged", op'[o].pc \in {"placing", "displacing"} PROVE Goal
  BY <1>1, <1>12 DEF Tidy, Swept, Own
<1>13. CASE CheckAbsent(o) \/ CheckOwned(o)
  BY <1>10, <1>12, <1>13, CallBecomes DEF CheckAbsent, CheckOwned, At
<1>14. ASSUME op[o].pc \in {"placing", "replacing"}, Move(o, "venv"), Goto(o, "published"), marker' = marker
       PROVE  Goal
  <2>1. dir'[o].place = "venv" /\ op'[o].pc = "published"
    BY <1>1, <1>14, MovedDir, CallBecomes DEF Move
  <2> QED
    BY <1>1, <1>14, <2>1 DEF Tidy, Swept, Own
<1>15. CASE Place(o)
  BY <1>10, <1>14, <1>15 DEF Place, At
<1>16. CASE Displace(o)
  <2>1. ASSUME NEW d, op' = [op EXCEPT ![o] = [@ EXCEPT !.pc = "replacing", !.backup = d]], marker' = marker
        PROVE  Goal
    <3>1. op'[o].pc = "replacing" /\ op[o].pc = "displacing"
      BY <1>1, <1>16, <2>1 DEF OpRecord, Displace, At
    <3> QED
      BY <1>1, <2>1, <3>1 DEF Tidy, Swept, Own
  <2> QED
    BY <1>10, <1>16, <2>1 DEF Displace
<1>17. CASE Replace(o)
  <2> DEFINE back == IF Vacant THEN [dir EXCEPT ![op[o].backup].place = "venv"] ELSE dir
  <2>1. back \in [Dirs -> DirRecord]
    <3>1. CASE op[o].backup \in Dirs
      BY <1>1, <3>1, DirMoves
    <3>2. CASE op[o].backup \notin Dirs
      BY <1>1, <3>2
    <3> QED
      BY <3>1, <3>2
  <2> HIDE DEF back
  <2>2. Retain(o, back) => Goal
    BY <2>1, RetainTidy
  <2>3. op[o].pc = "replacing"
    BY <1>17 DEF Replace, At
  <2> QED
    BY <1>14, <1>17, <2>2, <2>3 DEF Replace, back
<1>18. CASE RemoveMarker(o)
  <2>1. /\ op[o].pc = "published" /\ op'[o].pc \in {"checking", "obsoleting"}
        /\ marker' = marker \ {o} /\ dir' = dir
    BY <1>18, CallBecomes DEF RemoveMarker, At
  <2> QED
    BY <1>1, <2>1 DEF Tidy, Swept, Own
<1>19. CASE GiveUp(o)
  <2>1. marker' = marker /\ op'[o].pc = "releasing" /\ op'[o].res = "failed"
    BY <1>19, CallBecomes DEF GiveUp
  <2> QED
    BY <2>1 DEF Tidy, Swept, Own
<1> QED
  BY <1>2, <1>3, <1>4, <1>6, <1>7, <1>8, <1>9, <1>11, <1>13, <1>15, <1>16, <1>17, <1>18, <1>19 DEF Works

LEMMA StagingInvInit == Init => StagingInv
BY DEF Init, StagingInv, Tidy, In, Idle, Nowhere, Swept, Own

LEMMA StagingInvNext ==
    ASSUME PInv, DirInv, StagingInv, [Next]_vars
    PROVE  StagingInv'
<1>1. Typed /\ LockInv /\ BuildInv /\ WorkInv
  BY DEF PInv, DirInv
<1>2. ASSUME NEW o \in Ops, ~Holds(o)' PROVE Tidy(o)'
  BY <1>2 DEF Holds, Busy, Tidy, Swept, Own
<1>3. ASSUME UNCHANGED <<dir, marker>>,
             \A o \in Ops : op'[o] = op[o] \/ ~Holds(o)' \/ op'[o].pc \in {"writing", "locked"}
      PROVE  StagingInv'
  <2>1. \A o \in Ops : Tidy(o)'
    BY <1>2, <1>3 DEF StagingInv, Tidy, Swept, Own
  <2> QED
    BY <1>3, <2>1 DEF StagingInv, In
<1>4. CASE UNCHANGED vars
  BY <1>3, <1>4 DEF vars
<1>5. ASSUME NEW o \in Ops, Works(o) PROVE StagingInv'
  <2>1. \A p \in Ops : p # o => ~Holds(p)'
    BY <1>1, <1>5, Alone DEF Holds, Busy
  <2>2. Tidy(o)' /\ \A d \in marker \ marker' : dir'[d].place # "staging"
    BY <1>1, <1>5, WorksTidy
  <2>3. CASE CreateStaging(o)
    <3>1. o \in marker /\ marker' = marker
      BY <2>3 DEF CreateStaging, At, StagingInv, Tidy
    <3>2. \A d \in Dirs : d # o => dir'[d] = dir[d]
      BY <1>1, <2>3 DEF CreateStaging, Typed
    <3>3. In("staging")' \subseteq marker'
      BY <3>1, <3>2 DEF In, StagingInv
    <3> QED
      BY <1>2, <2>1, <2>2, <3>3 DEF StagingInv
  <2>4. CASE ~CreateStaging(o)
    <3>1. \A d \in Dirs : Grows(d)
      BY <1>1, <1>5, <2>4, WorksGrow
    <3>2. In("staging")' \subseteq marker'
      BY <2>2, <3>1 DEF Grows, In, StagingInv
    <3> QED
      BY <1>2, <2>1, <2>2, <3>2 DEF StagingInv
  <2> QED
    BY <2>3, <2>4
<1>6. ASSUME NEW o \in Ops, Locks(o) PROVE StagingInv'
  <2>1. dir' = dir /\ marker' = marker
    BY <1>1, <1>6, LocksTyped
  <2>2. \A p \in Ops : p # o => op'[p] = op[p]
    BY <1>1, <1>6, LocksFrame
  <2>3. ~Holds(o)' \/ op'[o].pc \in {"writing", "locked"}
    BY <1>1, <1>6, LocksFrame DEF Holds, Busy
  <2> QED
    BY <1>3, <2>1, <2>2, <2>3
<1>7. ASSUME NEW m \in Managers, Crash(m) PROVE StagingInv'
  <2>1. \A o \in Ops : op'[o] = op[o] \/ op'[o].pc = "dead"
    BY <1>7 DEF Crash, Idle
  <2>2. \A o \in Ops : op'[o] = op[o] \/ ~Holds(o)'
    BY <2>1 DEF Holds, Busy
  <2> QED
    BY <1>3, <1>7, <2>2 DEF Crash
<1>8. CASE UserCreates
  <2>1. User \in Dirs /\ User \notin Ops /\ op' = op /\ marker' = marker
    BY <1>8, ProvisioningAssumption DEF UserCreates, Dirs
  <2>2. dir'[User].place = "venv" /\ \A d \in Dirs : d # User => dir'[d] = dir[d]
    BY <1>1, <1>8, <2>1, MovedDir DEF UserCreates
  <2>3. In("staging")' \subseteq marker'
    BY <2>1, <2>2 DEF In, StagingInv
  <2>4. \A o \in Ops : dir'[o] = dir[o]
    BY <2>1, <2>2 DEF Dirs
  <2> QED
    BY <2>1, <2>3, <2>4 DEF StagingInv, Tidy
<1> QED
  BY <1>4, <1>5, <1>6, <1>7, <1>8, Split DEF Next

-----------------------------------------------------------------------------
(* The theorems.                                                           *)

(* The invariant of the lock and of the directories together.              *)
THEOREM DirectoriesInvariant == TwoManagers => (Spec => [](PInv /\ DirInv))
<1> SUFFICES ASSUME TwoManagers PROVE Spec => [](PInv /\ DirInv)
  OBVIOUS
<1>1. Init => DirInv
  BY DirInvInit
<1>2. PInv /\ DirInv /\ [Next]_vars => DirInv'
  BY DirInvNext
<1> QED
  BY <1>1, <1>2, ProvisioningInvariant, PTL DEF Spec

(* The environment the workspace had is not lost: while there is none at   *)
(* .venv, after whatever crashes and failures, exactly one backup of ours  *)
(* is there to restore; and what a call has built gets to .venv or to a    *)
(* backup only verified and marked as ours.                                *)
THEOREM EnvironmentIsNotLost == TwoManagers => (Spec => []EnvironmentSurvives)
<1> SUFFICES ASSUME TwoManagers PROVE Spec => []EnvironmentSurvives
  OBVIOUS
<1>1. DirInv => EnvironmentSurvives
  <2> SUFFICES ASSUME DirInv PROVE EnvironmentSurvives
    OBVIOUS
  <2>1. ASSUME HadEnvironment, Vacant PROVE Cardinality({d \in In("backup") : Owned(d)}) = 1
    <3>1. PICK d \in Dirs : OwnedBackup(d)
      BY <2>1 DEF DirInv, BackupInv
    <3>2. \A e \in Dirs : OwnedBackup(e) => e = d
      BY <2>1, <3>1 DEF DirInv, BackupInv
    <3>3. {e \in In("backup") : Owned(e)} = {d}
      BY <3>1, <3>2 DEF OwnedBackup, In
    <3> QED
      BY <3>3, FS_Singleton
  <2> QED
    BY <2>1 DEF DirInv, BuildInv, EnvironmentSurvives, Owned
<1> QED
  BY <1>1, DirectoriesInvariant, PTL

(* A directory of the user's is moved away only as a claimed one, and      *)
(* claimed only when a call was asked to attach it.                        *)
THEOREM UserDirectoryStays == TwoManagers => (Spec => []UserDirectoryIsLeftAlone)
<1> SUFFICES ASSUME TwoManagers PROVE Spec => []UserDirectoryIsLeftAlone
  OBVIOUS
<1>1. DirInv => UserDirectoryIsLeftAlone
  BY DEF DirInv, UserInv, UserDirectoryIsLeftAlone, Owned
<1> QED
  BY <1>1, DirectoriesInvariant, PTL

(* A call that succeeds has put away what failed and crashed calls have    *)
(* left in staging, and its own marker.                                    *)
THEOREM SuccessCleansUp == TwoManagers => (Spec => SuccessLeavesNoStaging)
<1> SUFFICES ASSUME TwoManagers PROVE Spec => SuccessLeavesNoStaging
  OBVIOUS
<1>1. Init => StagingInv
  BY StagingInvInit
<1>2. PInv /\ DirInv /\ StagingInv /\ [Next]_vars => StagingInv'
  BY StagingInvNext
<1>3. StagingInv => \A o \in Ops : op[o].pc = "releasing" /\ op'[o].pc = "settled" /\ op[o].res = "ok"
                       => In("staging") = {} /\ marker = {}
  BY DEF StagingInv, Tidy
<1> QED
  BY <1>1, <1>2, <1>3, DirectoriesInvariant, PTL DEF Spec, SuccessLeavesNoStaging
=============================================================================
