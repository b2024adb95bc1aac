----------------------- MODULE NotebookOpeningsProofs -----------------------
(***************************************************************************)
(* Opening and creating notebooks, for any calls, paths, targets, faults   *)
(* and restarts.                                                           *)
(*                                                                         *)
(* What keeps two creations of one file from both winning is neither the   *)
(* table of owners nor the table of openings, which a restart forgets, but *)
(* the file: a creation has won, or is about to, only where a file was     *)
(* written over nothing, and from then on it is there until somebody       *)
(* removes it.  What keeps an answer fresh is that a version that is read  *)
(* during a call is not older than the one there when the call was made.   *)
(***************************************************************************)
EXTENDS NotebookOpenings, TLAPS

Pcs == {"idle", "asked", "observed", "walking", "refreshing", "refreshed",
        "joined", "opener", "settled"}
Results == {"none", "ok", "missing", "exists", "conflict", "failed", "aborted", "unavailable"}
CallRecord(n) ==
    [pc : Pcs, kind : {"open", "create"}, path : Paths, seen : Nat, next : Nat,
     last : 0..n, nb : 0..n, since : Nat, res : Results]
NotebookRecord == [path : Paths, ver : Nat \ {0}]
OpeningRecord == [pc : {"none", "creating", "confirming", "confirmed"}, path : Paths, ver : Nat]

Types ==
    /\ disk \in [Targets -> Nat] /\ clock \in Nat
    /\ notebooks \in Seq(NotebookRecord)
    /\ owners \in [Targets -> 0..Len(notebooks)]
    /\ opening \in [Targets -> OpeningRecord]
    /\ adrift \subseteq Targets
    /\ call \in [Calls -> CallRecord(Len(notebooks))]
    /\ removed \subseteq Targets /\ restarts \in 0..MaxRestarts

-----------------------------------------------------------------------------
(* What is known of one call r, given the files dk, the newest version ck, *)
(* the notebooks nbs, the openings op and the targets rem that were        *)
(* removed.                                                                *)

There(t, dk, rem) == dk[t] # 0 \/ t \in rem
Created(o) == o.pc \in {"confirming", "confirmed"}

(* A creation that has won, or will when its opening succeeds. *)
Wins(r, op) ==
    /\ r.kind = "create"
    /\ r.res = "ok" \/ (r.pc = "opener" /\ Created(op[TargetOf[r.path]]))

Busy(r) == r.pc \notin {"idle", "settled"}

CallInv(r, dk, ck, nbs, op, rem) ==
    LET t == TargetOf[r.path]
    IN  /\ r.res = "ok" => r.pc = "settled" /\ r.nb # 0
        /\ Busy(r) => r.since =< ck
        /\ Busy(r) => dk[t] = 0 \/ r.since =< dk[t]
        /\ r.pc \in {"observed", "walking"} /\ r.seen # 0 => There(t, dk, rem)
        /\ r.pc \in {"observed", "walking", "refreshed"} /\ r.seen # 0 => r.since =< r.seen
        /\ r.pc = "walking" => r.kind = "open" /\ r.seen # 0 /\ r.next \in 1..r.last
        /\ r.pc \in {"refreshing", "refreshed"} =>
              r.kind = "open" /\ r.nb # 0 /\ TargetOf[nbs[r.nb].path] = t
        /\ r.pc \in {"joined", "opener"} => op[t].pc # "none"
        /\ /\ PromptReplies
           /\ r.pc \in {"observed", "walking", "joined", "opener"}
           /\ op[t].pc = "confirmed"
           => r.since =< op[t].ver
        /\ Wins(r, op) => There(t, dk, rem)

(* What is known of an opening of t. *)
OpeningInv(t) ==
    /\ opening[t].pc # "none" => TargetOf[opening[t].path] = t
    /\ Created(opening[t]) => opening[t].ver # 0 /\ There(t, disk, removed)

World ==
    /\ \A t \in Targets : disk[t] =< clock
    /\ \A t \in Targets : owners[t] # 0 => Holder(owners[t]) = t
    /\ \A n \in 1..Len(notebooks) : There(Holder(n), disk, removed)
    /\ \A t \in Targets : OpeningInv(t)

CallsSound == \A c \in Calls : CallInv(call[c], disk, clock, notebooks, opening, removed)

OneOpener ==
    \A c, d \in Calls :
        call[c].pc = "opener" /\ call[d].pc = "opener" /\ Target(c) = Target(d) => c = d

OneWinner ==
    \A c, d \in Calls :
        /\ Wins(call[c], opening) /\ Wins(call[d], opening)
        /\ Target(c) = Target(d) /\ Target(c) \notin removed
        => c = d

OpeningsInv == Types /\ World /\ CallsSound /\ OneOpener /\ OneWinner

-----------------------------------------------------------------------------
(* Records and targets. *)

LEMMA TargetsOfPaths == \A p \in Paths : TargetOf[p] \in Targets
BY OpeningsAssumption

LEMMA Holders ==
    ASSUME Types, NEW n \in 1..Len(notebooks)
    PROVE  /\ notebooks[n] \in NotebookRecord
           /\ notebooks[n].path \in Paths /\ notebooks[n].ver \in Nat \ {0}
           /\ Holder(n) \in Targets
<1>1. notebooks[n] \in NotebookRecord
  BY DEF Types
<1>2. QED
  BY <1>1, TargetsOfPaths DEF NotebookRecord, Holder

LEMMA Records ==
    ASSUME Types, NEW c \in Calls
    PROVE  /\ call[c] \in CallRecord(Len(notebooks)) /\ Len(notebooks) \in Nat
           /\ call[c].path \in Paths /\ Target(c) \in Targets
           /\ call[c].kind \in {"open", "create"} /\ call[c].seen \in Nat /\ call[c].since \in Nat
<1>1. call[c] \in CallRecord(Len(notebooks)) /\ Len(notebooks) \in Nat
  BY DEF Types
<1>2. QED
  BY <1>1, TargetsOfPaths DEF CallRecord, Target

LEMMA Idles ==
    ASSUME NEW n \in Nat
    PROVE  /\ Idle \in CallRecord(n)
           /\ Idle.pc = "idle" /\ Idle.kind = "open" /\ Idle.res = "none" /\ Idle.nb = 0
<1>1. (CHOOSE p \in Paths : TRUE) \in Paths
  BY OpeningsAssumption
<1> DEFINE p == CHOOSE p \in Paths : TRUE
<1>2. Idle = [pc |-> "idle", kind |-> "open", path |-> p, seen |-> 0, next |-> 0,
              last |-> 0, nb |-> 0, since |-> 0, res |-> "none"]
  BY DEF Idle
<1>3. p \in Paths
  BY <1>1
<1> HIDE DEF p
<1>4. QED
  BY <1>2, <1>3 DEF CallRecord, Pcs, Results

LEMMA NoOpenings == NoOpening \in OpeningRecord /\ NoOpening.pc = "none"
<1>1. (CHOOSE p \in Paths : TRUE) \in Paths
  BY OpeningsAssumption
<1> DEFINE p == CHOOSE p \in Paths : TRUE
<1>2. NoOpening = [pc |-> "none", path |-> p, ver |-> 0]
  BY DEF NoOpening
<1>3. p \in Paths
  BY <1>1
<1> HIDE DEF p
<1>4. QED
  BY <1>2, <1>3 DEF OpeningRecord

(* A call that is over. *)
LEMMA SettledFields ==
    ASSUME Types, NEW c \in Calls, NEW result \in Results, NEW m \in Nat, NEW n \in 0..m
    PROVE  LET r == Settled(c, result, n)
           IN  /\ r \in CallRecord(m)
               /\ r.pc = "settled" /\ r.res = result /\ r.nb = n
               /\ r.kind = call[c].kind /\ r.path = call[c].path
<1> DEFINE k == call[c].kind
           p == call[c].path
           s == call[c].since
           i == Idle
           r == [i EXCEPT !.pc = "settled", !.kind = k, !.path = p, !.since = s, !.nb = n,
                          !.res = result]
<1>1. k \in {"open", "create"} /\ p \in Paths /\ s \in Nat
  BY Records
<1>2. i \in CallRecord(m)
  BY Idles
<1>3. Settled(c, result, n) = r
  BY DEF Settled
<1> HIDE DEF k, p, s, i
<1>4. r \in CallRecord(m)
  BY <1>1, <1>2 DEF CallRecord, Pcs
<1>5. r.pc = "settled" /\ r.res = result /\ r.nb = n /\ r.kind = k /\ r.path = p
  BY <1>2 DEF CallRecord
<1>6. QED
  BY <1>3, <1>4, <1>5 DEF k, p

(* A call that is over needs nothing but that a creation left a file. *)
LEMMA SettledInv ==
    ASSUME NEW r, NEW dk, NEW ck, NEW nbs, NEW op, NEW rem,
           r.pc = "settled", r.res = "ok" => r.nb # 0,
           r.res = "ok" /\ r.kind = "create" => There(TargetOf[r.path], dk, rem)
    PROVE  CallInv(r, dk, ck, nbs, op, rem)
BY DEF CallInv, Busy, Wins

-----------------------------------------------------------------------------
(* What a step leaves of what is known. *)

(* Files get newer versions or are removed; notebooks stay what they are.  *)
Evolves ==
    /\ clock' \in Nat /\ clock =< clock'
    /\ removed \subseteq removed'
    /\ \A t \in Targets : \/ disk'[t] = disk[t]
                          \/ disk'[t] = clock + 1
                          \/ disk'[t] = 0 /\ t \in removed'
    /\ Len(notebooks') \in Nat /\ Len(notebooks) =< Len(notebooks')
    /\ \A n \in 1..Len(notebooks) : notebooks'[n].path = notebooks[n].path

(* The opening that a call waits for goes on; one that was confirmed shows *)
(* what is in the file.                                                    *)
Fits(r) ==
    LET t == TargetOf[r.path]
    IN  /\ r.pc \in {"joined", "opener"} => opening'[t].pc # "none"
        /\ opening'[t].pc = "confirmed" =>
              \/ opening[t].pc = "confirmed" /\ opening'[t].ver = opening[t].ver
              \/ opening'[t].ver = disk[t] /\ disk[t] # 0
        /\ Wins(r, opening') => Wins(r, opening) \/ disk'[t] # 0

(* A call that is answered: only a creation that was about to win has won. *)
Ends(c) ==
    /\ call'[c].pc = "settled"
    /\ call'[c].path = call[c].path /\ call'[c].kind = call[c].kind
    /\ call'[c].res = "ok" => call'[c].nb # 0
    /\ call'[c].res = "ok" /\ call[c].kind = "create" => Wins(call[c], opening)

LEMMA StillThere ==
    ASSUME Types, Evolves, NEW t \in Targets, There(t, disk, removed)
    PROVE  There(t, disk', removed')
BY DEF Types, Evolves, There

LEMMA Stays ==
    ASSUME Types, Evolves, NEW r \in CallRecord(Len(notebooks)), Fits(r),
           CallInv(r, disk, clock, notebooks, opening, removed)
    PROVE  CallInv(r, disk', clock', notebooks', opening', removed')
<1> DEFINE t == TargetOf[r.path]
<1>1. /\ t \in Targets /\ r.since \in Nat /\ r.nb \in 0..Len(notebooks)
  BY TargetsOfPaths DEF CallRecord
<1>2. disk[t] \in Nat /\ clock \in Nat /\ clock' \in Nat /\ clock =< clock'
  BY <1>1 DEF Types, Evolves
<1>3. \/ disk'[t] = disk[t]
      \/ disk'[t] = clock + 1
      \/ disk'[t] = 0 /\ t \in removed'
  BY <1>1 DEF Evolves
<1>4. There(t, disk, removed) => There(t, disk', removed')
  BY <1>1, StillThere
<1>5. r.nb # 0 => notebooks'[r.nb].path = notebooks[r.nb].path
  BY <1>1 DEF Evolves, Types
<1>6. Busy(r) => r.since =< clock /\ r.since =< clock'
  BY <1>1, <1>2 DEF CallInv
<1>7. Busy(r) => disk'[t] = 0 \/ r.since =< disk'[t]
  BY <1>1, <1>2, <1>3, <1>6 DEF CallInv
<1>8. r.pc \in {"joined", "opener"} => opening'[t].pc # "none"
  BY DEF Fits
<1>9. /\ PromptReplies
      /\ r.pc \in {"observed", "walking", "joined", "opener"}
      /\ opening'[t].pc = "confirmed"
      => r.since =< opening'[t].ver
  <2> SUFFICES ASSUME PromptReplies, r.pc \in {"observed", "walking", "joined", "opener"},
                      opening'[t].pc = "confirmed"
               PROVE  r.since =< opening'[t].ver
    OBVIOUS
  <2>1. Busy(r)
    BY DEF Busy
  <2>2. CASE opening[t].pc = "confirmed" /\ opening'[t].ver = opening[t].ver
    BY <2>2 DEF CallInv
  <2>3. CASE opening'[t].ver = disk[t] /\ disk[t] # 0
    BY <2>1, <2>3 DEF CallInv
  <2>4. QED
    BY <2>2, <2>3 DEF Fits
<1>10. Wins(r, opening') => There(t, disk', removed')
  BY <1>4 DEF Fits, CallInv, There
<1>11. /\ r.res = "ok" => r.pc = "settled" /\ r.nb # 0
       /\ r.pc \in {"observed", "walking"} /\ r.seen # 0 => There(t, disk, removed)
       /\ r.pc \in {"observed", "walking", "refreshed"} /\ r.seen # 0 => r.since =< r.seen
       /\ r.pc = "walking" => r.kind = "open" /\ r.seen # 0 /\ r.next \in 1..r.last
       /\ r.pc \in {"refreshing", "refreshed"} =>
              r.kind = "open" /\ r.nb # 0 /\ TargetOf[notebooks[r.nb].path] = t
  BY DEF CallInv
<1>12. r.pc \in {"refreshing", "refreshed"} => TargetOf[notebooks'[r.nb].path] = t
  BY <1>5, <1>11
<1> HIDE DEF t
<1>13. QED
  BY <1>4, <1>6, <1>7, <1>8, <1>9, <1>10, <1>11, <1>12 DEF CallInv, t

LEMMA EndsInv ==
    ASSUME OpeningsInv, Evolves, NEW c \in Calls, Ends(c)
    PROVE  CallInv(call'[c], disk', clock', notebooks', opening', removed')
<1>1. call'[c].res = "ok" /\ call'[c].kind = "create"
      => There(TargetOf[call'[c].path], disk', removed')
  <2> SUFFICES ASSUME call'[c].res = "ok", call'[c].kind = "create"
               PROVE  There(TargetOf[call'[c].path], disk', removed')
    OBVIOUS
  <2>1. Wins(call[c], opening) /\ call'[c].path = call[c].path
    BY DEF Ends
  <2>2. There(TargetOf[call[c].path], disk, removed)
    BY <2>1 DEF OpeningsInv, CallsSound, CallInv
  <2>3. QED
    BY <2>1, <2>2, StillThere, Records DEF OpeningsInv, Target
<1>2. QED
  BY <1>1, SettledInv DEF Ends

(* A step in which every call stays or ends. *)
LEMMA EverybodyStays ==
    ASSUME OpeningsInv, Evolves, Types', World',
           \A c \in Calls : Ends(c) \/ (call'[c] = call[c] /\ Fits(call[c])),
           OneWinner' \/ \A c \in Calls : Wins(call[c], opening') => Wins(call[c], opening)
    PROVE  OpeningsInv'
<1>1. ASSUME NEW c \in Calls
      PROVE  CallInv(call'[c], disk', clock', notebooks', opening', removed')
  <2>1. CASE Ends(c)
    BY <2>1, EndsInv
  <2>2. CASE call'[c] = call[c] /\ Fits(call[c])
    <3>1. /\ call[c] \in CallRecord(Len(notebooks))
          /\ CallInv(call[c], disk, clock, notebooks, opening, removed)
      BY Records DEF OpeningsInv, CallsSound
    <3>2. CallInv(call[c], disk', clock', notebooks', opening', removed')
      BY <2>2, <3>1, Stays DEF OpeningsInv
    <3>3. QED
      BY <2>2, <3>2
  <2>3. QED
    BY <2>1, <2>2
<1>2. CallsSound'
  BY <1>1 DEF CallsSound
<1>3. ASSUME NEW c \in Calls
      PROVE  /\ call'[c].path = call[c].path
             /\ call'[c].pc = "opener" => call[c].pc = "opener"
  BY DEF Ends
<1>4. OneOpener'
  BY <1>3 DEF OpeningsInv, OneOpener, Target
<1>5. OneWinner'
  <2>1. CASE OneWinner'
    BY <2>1
  <2>2. CASE \A c \in Calls : Wins(call[c], opening') => Wins(call[c], opening)
    <3>1. ASSUME NEW c \in Calls, Wins(call'[c], opening')  PROVE Wins(call[c], opening)
      <4>1. CASE Ends(c)
        BY <3>1, <4>1 DEF Ends, Wins
      <4>2. CASE call'[c] = call[c]
        BY <2>2, <3>1, <4>2
      <4>3. QED
        BY <4>1, <4>2
    <3>2. ASSUME NEW c \in Calls, NEW d \in Calls,
                 Wins(call'[c], opening'), Wins(call'[d], opening'),
                 TargetOf[call'[c].path] = TargetOf[call'[d].path],
                 TargetOf[call'[c].path] \notin removed'
          PROVE  c = d
      <4>1. Wins(call[c], opening) /\ Wins(call[d], opening)
        BY <3>1, <3>2
      <4>2. Target(c) = Target(d) /\ Target(c) \notin removed
        BY <1>3, <3>2 DEF Target, Evolves
      <4>3. QED
        BY <4>1, <4>2 DEF OpeningsInv, OneWinner
    <3>3. QED
      BY <3>2 DEF OneWinner, Target
  <2>3. QED
    BY <2>1, <2>2
<1>6. QED
  BY <1>2, <1>4, <1>5 DEF OpeningsInv

(* A step of one call.  It may start an opening where there is none, and   *)
(* does not win a creation by itself.                                      *)
Started ==
    \/ opening' = opening
    \/ \E t \in Targets, o \in OpeningRecord :
          /\ opening[t].pc = "none" /\ opening' = [opening EXCEPT ![t] = o]
          /\ o.pc \in {"creating", "confirming"} /\ TargetOf[o.path] = t
          /\ Created(o) => o.ver # 0 /\ There(t, disk, removed)

OwnersAre(table) ==
    /\ table \in [Targets -> 0..Len(notebooks)]
    /\ \A t \in Targets : table[t] # 0 => Holder(table[t]) = t

StartedFields ==
    \A t \in Targets :
        opening'[t] = opening[t] \/ (opening[t].pc = "none" /\ opening'[t].pc # "confirmed")

LEMMA StartedInv ==
    ASSUME OpeningsInv, Started, disk' = disk, removed' = removed
    PROVE  /\ opening' \in [Targets -> OpeningRecord]
           /\ StartedFields
           /\ \A t \in Targets : OpeningInv(t)'
<1>1. opening \in [Targets -> OpeningRecord] /\ \A t \in Targets : OpeningInv(t)
  BY DEF OpeningsInv, Types, World
<1>2. CASE opening' = opening
  BY <1>1, <1>2 DEF OpeningInv, StartedFields
<1>3. CASE opening' # opening
  <2>1. PICK t \in Targets, o \in OpeningRecord :
          /\ opening[t].pc = "none" /\ opening' = [opening EXCEPT ![t] = o]
          /\ o.pc \in {"creating", "confirming"} /\ TargetOf[o.path] = t
          /\ Created(o) => o.ver # 0 /\ There(t, disk, removed)
    BY <1>3 DEF Started
  <2>2. /\ opening' \in [Targets -> OpeningRecord] /\ opening'[t] = o
        /\ \A u \in Targets \ {t} : opening'[u] = opening[u]
    BY <1>1, <2>1
  <2>3. ASSUME NEW u \in Targets  PROVE OpeningInv(u)'
    <3>1. CASE u = t
      BY <2>1, <2>2, <3>1 DEF OpeningInv
    <3>2. CASE u # t
      BY <1>1, <2>2, <3>2 DEF OpeningInv
    <3>3. QED
      BY <3>1, <3>2
  <2>4. StartedFields
    BY <2>1, <2>2 DEF StartedFields
  <2>5. QED
    BY <2>2, <2>3, <2>4
<1>4. QED
  BY <1>2, <1>3

LEMMA OneMoves ==
    ASSUME OpeningsInv, NEW c \in Calls, NEW r \in CallRecord(Len(notebooks)),
           call' = [call EXCEPT ![c] = r], Started, OwnersAre(owners'),
           UNCHANGED <<disk, clock, notebooks, adrift, restarts, removed>>,
           CallInv(r, disk, clock, notebooks, opening', removed),
           r.pc = "opener" => opening[TargetOf[r.path]].pc = "none",
           ~Wins(r, opening')
    PROVE  OpeningsInv'
<1>1. Types /\ World /\ CallsSound
  BY DEF OpeningsInv
<1>2. /\ opening' \in [Targets -> OpeningRecord]
      /\ StartedFields
      /\ \A t \in Targets : OpeningInv(t)'
  BY StartedInv
<1>3. /\ call' \in [Calls -> CallRecord(Len(notebooks))]
      /\ call'[c] = r /\ \A d \in Calls \ {c} : call'[d] = call[d]
  BY <1>1 DEF Types
<1>4. Types'
  BY <1>1, <1>2, <1>3 DEF Types, OwnersAre
<1>5. World'
  <2>1. \A t \in Targets : disk'[t] =< clock'
    BY <1>1 DEF World
  <2>2. \A t \in Targets : owners'[t] # 0 => TargetOf[notebooks'[owners'[t]].path] = t
    BY DEF OwnersAre, Holder
  <2>3. \A n \in 1..Len(notebooks) : There(Holder(n), disk, removed)
    BY <1>1 DEF World
  <2>4. \A n \in 1..Len(notebooks') : There(TargetOf[notebooks'[n].path], disk', removed')
    BY <2>3 DEF Holder
  <2>5. QED
    BY <1>2, <2>1, <2>2, <2>4 DEF World, Holder
<1>6. ASSUME NEW d \in Calls \ {c}
      PROVE  /\ CallInv(call[d], disk, clock, notebooks, opening', removed)
             /\ Wins(call[d], opening') => Wins(call[d], opening)
  <2> DEFINE q == call[d]
             t == TargetOf[q.path]
  <2>1. CallInv(q, disk, clock, notebooks, opening, removed) /\ t \in Targets
    BY <1>1, Records DEF CallsSound, Target
  <2>2. opening'[t] = opening[t] \/ (opening[t].pc = "none" /\ opening'[t].pc # "confirmed")
    BY <1>2, <2>1 DEF StartedFields
  <2>3. q.pc \in {"joined", "opener"} => opening[t].pc # "none"
    BY <2>1 DEF CallInv
  <2> HIDE DEF q
  <2>4. Wins(q, opening') => Wins(q, opening)
    BY <2>2, <2>3 DEF Wins
  <2>5. CallInv(q, disk, clock, notebooks, opening', removed)
    BY <2>1, <2>2, <2>3, <2>4 DEF CallInv
  <2>6. QED
    BY <2>4, <2>5 DEF q
<1>7. CallsSound'
  BY <1>3, <1>6 DEF CallsSound
<1>8. OneOpener'
  <2>1. ASSUME NEW d \in Calls \ {c}, call[d].pc = "opener", r.pc = "opener"
        PROVE  TargetOf[call[d].path] # TargetOf[r.path]
    BY <1>1, <2>1 DEF CallsSound, CallInv
  <2>2. ASSUME NEW d \in Calls, NEW e \in Calls, call'[d].pc = "opener", call'[e].pc = "opener",
               TargetOf[call'[d].path] = TargetOf[call'[e].path]
        PROVE  d = e
    <3>1. CASE d # c /\ e # c
      BY <1>3, <2>2, <3>1 DEF OpeningsInv, OneOpener, Target
    <3>2. CASE d = c /\ e # c
      BY <1>3, <2>1, <2>2, <3>2
    <3>3. CASE d # c /\ e = c
      BY <1>3, <2>1, <2>2, <3>3
    <3>4. QED
      BY <3>1, <3>2, <3>3
  <2>3. QED
    BY <2>2 DEF OneOpener, Target
<1>9. OneWinner'
  <2>1. ASSUME NEW d \in Calls, Wins(call'[d], opening')
        PROVE  d # c /\ call'[d] = call[d] /\ Wins(call[d], opening)
    BY <1>3, <1>6, <2>1
  <2>2. ASSUME NEW d \in Calls, NEW e \in Calls,
               Wins(call'[d], opening'), Wins(call'[e], opening'),
               TargetOf[call'[d].path] = TargetOf[call'[e].path],
               TargetOf[call'[d].path] \notin removed
        PROVE  d = e
    BY <2>1, <2>2 DEF OpeningsInv, OneWinner, Target
  <2>3. QED
    BY <2>2 DEF OneWinner, Target
<1>10. QED
  BY <1>4, <1>5, <1>7, <1>8, <1>9 DEF OpeningsInv

-----------------------------------------------------------------------------
(* The steps of calls. *)

Rest == UNCHANGED <<disk, clock, notebooks, adrift, restarts, removed>>

LEMMA SameOwners ==
    ASSUME OpeningsInv, owners' = owners
    PROVE  OwnersAre(owners')
BY DEF OpeningsInv, Types, World, OwnersAre

LEMMA SettleInv ==
    ASSUME OpeningsInv, NEW c \in Calls, NEW result \in Results \ {"ok"}, Settle(c, result),
           Rest, UNCHANGED <<owners, opening>>
    PROVE  OpeningsInv'
<1> DEFINE r == Settled(c, result, 0)
<1>1. /\ r \in CallRecord(Len(notebooks)) /\ r.pc = "settled" /\ r.res = result
  BY SettledFields DEF OpeningsInv, Types
<1>2. call' = [call EXCEPT ![c] = r]
  BY DEF Settle
<1> HIDE DEF r
<1>3. CallInv(r, disk, clock, notebooks, opening', removed) /\ ~Wins(r, opening')
  BY <1>1, SettledInv DEF Wins
<1>4. QED
  BY <1>1, <1>2, <1>3, SameOwners, OneMoves DEF Started, Rest

LEMMA CallStep ==
    ASSUME OpeningsInv, NEW c \in Calls, NEW kind \in {"open", "create"}, NEW p \in Paths,
           Call(c, kind, p)
    PROVE  OpeningsInv'
<1> DEFINE i == Idle
           s == disk[TargetOf[p]]
           r == [i EXCEPT !.pc = "asked", !.kind = kind, !.path = p, !.since = s]
<1>1. i \in CallRecord(Len(notebooks)) /\ i.res = "none"
  BY Idles DEF OpeningsInv, Types
<1>2. s \in Nat /\ s =< clock
  BY TargetsOfPaths DEF OpeningsInv, Types, World
<1>3. call' = [call EXCEPT ![c] = r] /\ Rest /\ UNCHANGED <<owners, opening>>
  BY DEF Call, Rest
<1> HIDE DEF i
<1>4. /\ r \in CallRecord(Len(notebooks)) /\ r.pc = "asked" /\ r.res = "none"
      /\ r.path = p /\ r.since = s
  BY <1>1, <1>2 DEF CallRecord, Pcs
<1> HIDE DEF r
<1>5. ~Wins(r, opening)
  BY <1>4 DEF Wins
<1>6. CallInv(r, disk, clock, notebooks, opening, removed)
  BY <1>2, <1>4, <1>5 DEF CallInv
<1>7. QED
  BY <1>3, <1>4, <1>5, <1>6, SameOwners, OneMoves DEF Started, Rest

LEMMA ObserveStep ==
    ASSUME OpeningsInv, NEW c \in Calls, Observe(c)
    PROVE  OpeningsInv'
<1> DEFINE t == Target(c)
           pc == IF call[c].pc = "asked" THEN "observed" ELSE "refreshed"
           s == disk[t]
           q == call[c]
           r == [q EXCEPT !.pc = pc, !.seen = s]
<1>1. q \in CallRecord(Len(notebooks)) /\ t \in Targets /\ t = TargetOf[q.path]
  BY Records DEF OpeningsInv, Target
<1>2. CallInv(q, disk, clock, notebooks, opening, removed)
  BY DEF OpeningsInv, CallsSound
<1>3. q.pc \in {"asked", "refreshing"} /\ Rest /\ UNCHANGED <<owners, opening>>
  BY DEF Observe, Rest
<1>4. call' = [call EXCEPT ![c] = r]
  BY DEF Observe, OpeningsInv, Types
<1>5. s \in Nat
  BY <1>1 DEF OpeningsInv, Types
<1>6. /\ pc \in {"observed", "refreshed"}
      /\ pc = "refreshed" => q.pc = "refreshing"
  BY <1>3
<1>7. PromptReplies => opening[t].pc # "confirmed"
  BY <1>1 DEF Observe, Quiet
<1> HIDE DEF q, pc, t
<1>8. /\ r \in CallRecord(Len(notebooks))
      /\ r.pc = pc /\ r.seen = s /\ r.res = q.res /\ r.nb = q.nb /\ r.kind = q.kind
      /\ r.path = q.path /\ r.since = q.since
  BY <1>1, <1>5, <1>6 DEF CallRecord, Pcs
<1> HIDE DEF r
<1>9. q.res # "ok" /\ Busy(q)
  BY <1>2, <1>3 DEF CallInv, Busy
<1>10. ~Wins(r, opening)
  BY <1>6, <1>8, <1>9 DEF Wins
<1>11. s = 0 \/ q.since =< s
  BY <1>1, <1>2, <1>9 DEF CallInv
<1>12. s # 0 => There(t, disk, removed)
  BY DEF There
<1>13. q.since =< clock
  BY <1>2, <1>9 DEF CallInv
<1>14. pc = "refreshed" => q.kind = "open" /\ q.nb # 0 /\ TargetOf[notebooks[q.nb].path] = t
  BY <1>1, <1>2, <1>6 DEF CallInv
<1>15. CallInv(r, disk, clock, notebooks, opening, removed)
  BY <1>1, <1>6, <1>7, <1>8, <1>9, <1>10, <1>11, <1>12, <1>13, <1>14 DEF CallInv
<1>16. QED
  BY <1>3, <1>4, <1>6, <1>8, <1>10, <1>15, SameOwners, OneMoves DEF Started, Rest

LEMMA JoinOrStartInv ==
    ASSUME OpeningsInv, NEW c \in Calls, call[c].pc \in {"observed", "walking"},
           call[c].kind = "open" => call[c].seen # 0,
           JoinOrStart(c), Rest, owners' = owners
    PROVE  OpeningsInv'
<1> DEFINE t == Target(c)
           q == call[c]
           first == IF call[c].kind = "open" THEN "confirming" ELSE "creating"
           joins == opening[t].pc # "none"
           pc == IF joins THEN "joined" ELSE "opener"
           o == [pc |-> first, path |-> call[c].path, ver |-> call[c].seen]
           r == [q EXCEPT !.pc = pc]
<1>1. /\ q \in CallRecord(Len(notebooks)) /\ t \in Targets /\ t = TargetOf[q.path]
      /\ q.path \in Paths /\ q.seen \in Nat /\ q.kind \in {"open", "create"}
  BY Records DEF OpeningsInv, Target
<1>2. CallInv(q, disk, clock, notebooks, opening, removed)
  BY DEF OpeningsInv, CallsSound
<1>3. /\ call' = [call EXCEPT ![c] = r]
      /\ opening' = IF joins THEN opening ELSE [opening EXCEPT ![t] = o]
  BY DEF JoinOrStart
<1>4. pc \in {"joined", "opener"} /\ (pc = "opener" <=> opening[t].pc = "none")
  OBVIOUS
<1>5. /\ o \in OpeningRecord /\ o.pc \in {"creating", "confirming"} /\ o.path = q.path
      /\ o.ver = q.seen
      /\ o.pc = "confirming" => q.kind = "open"
  BY <1>1 DEF OpeningRecord
<1>6. There(t, disk, removed) \/ q.seen = 0
  BY <1>1, <1>2 DEF CallInv
<1> HIDE DEF o, q, pc, t
<1>7. opening \in [Targets -> OpeningRecord]
  BY DEF OpeningsInv, Types
<1>8. /\ pc = "joined" => opening' = opening /\ opening[t].pc # "none"
      /\ pc = "opener" => /\ opening[t].pc = "none" /\ opening'[t] = o
                          /\ opening' = [opening EXCEPT ![t] = o]
  BY <1>1, <1>3, <1>4, <1>7
<1>9. Created(o) => o.ver # 0 /\ There(t, disk, removed)
  BY <1>5, <1>6 DEF Created, q
<1>10. Started
  BY <1>1, <1>4, <1>5, <1>8, <1>9 DEF Started
<1>11. /\ r \in CallRecord(Len(notebooks))
       /\ r.pc = pc /\ r.seen = q.seen /\ r.res = q.res /\ r.nb = q.nb /\ r.kind = q.kind
       /\ r.path = q.path /\ r.since = q.since
  BY <1>1, <1>4 DEF CallRecord, Pcs
<1> HIDE DEF r
<1>12. q.res # "ok" /\ Busy(q) /\ q.pc \in {"observed", "walking"}
  BY <1>2 DEF CallInv, Busy, q
<1>13. ~Wins(r, opening')
  BY <1>1, <1>4, <1>5, <1>8, <1>11, <1>12 DEF Wins, Created
<1>14. opening'[t].pc # "none"
  BY <1>4, <1>5, <1>8
<1>15. PromptReplies /\ opening'[t].pc = "confirmed" => q.since =< opening'[t].ver
  BY <1>1, <1>2, <1>4, <1>5, <1>8, <1>12 DEF CallInv
<1>16. q.since =< clock /\ (disk[t] = 0 \/ q.since =< disk[t])
  BY <1>1, <1>2, <1>12 DEF CallInv
<1>17. CallInv(r, disk, clock, notebooks, opening', removed)
  BY <1>1, <1>4, <1>11, <1>12, <1>13, <1>14, <1>15, <1>16 DEF CallInv
<1>18. r.pc = "opener" => opening[TargetOf[r.path]].pc = "none"
  BY <1>1, <1>8, <1>11
<1>19. call' = [call EXCEPT ![c] = r]
  BY <1>3
<1>20. QED
  BY <1>10, <1>11, <1>13, <1>17, <1>18, <1>19, SameOwners, OneMoves DEF Rest

LEMMA OwnerSet ==
    ASSUME OpeningsInv, NEW t \in Targets, NEW n \in 1..Len(notebooks), Holder(n) = t
    PROVE  OwnersAre([owners EXCEPT ![t] = n])
<1>1. owners \in [Targets -> 0..Len(notebooks)] /\ Len(notebooks) \in Nat
  BY DEF OpeningsInv, Types
<1>2. n \in 0..Len(notebooks)
  BY <1>1
<1>3. \A u \in Targets : owners[u] # 0 => Holder(owners[u]) = u
  BY DEF OpeningsInv, World
<1>4. QED
  BY <1>1, <1>2, <1>3 DEF OwnersAre

LEMMA AdoptInv ==
    ASSUME OpeningsInv, NEW c \in Calls, call[c].pc \in {"observed", "walking"},
           call[c].kind = "open", NEW n \in 1..Len(notebooks), Holder(n) = Target(c),
           Adopt(c, n), Rest, opening' = opening
    PROVE  OpeningsInv'
<1> DEFINE t == Target(c)
           q == call[c]
           r == [q EXCEPT !.pc = "refreshing", !.nb = n, !.seen = 0]
<1>1. /\ q \in CallRecord(Len(notebooks)) /\ t \in Targets /\ t = TargetOf[q.path]
      /\ Len(notebooks) \in Nat
  BY Records DEF OpeningsInv, Target
<1>2. CallInv(q, disk, clock, notebooks, opening, removed)
  BY DEF OpeningsInv, CallsSound
<1>3. CASE Settle(c, "conflict") /\ owners' = owners
  BY <1>3, SettleInv DEF Results
<1>4. CASE /\ owners' = [owners EXCEPT ![t] = n]
           /\ call' = [call EXCEPT ![c] = [@ EXCEPT !.pc = "refreshing", !.nb = n, !.seen = 0]]
  <2>1. call' = [call EXCEPT ![c] = r]
    BY <1>4 DEF OpeningsInv, Types
  <2>2. OwnersAre(owners')
    BY <1>1, <1>4, OwnerSet
  <2>3. q.kind = "open" /\ TargetOf[notebooks[n].path] = t /\ n # 0
    BY DEF Holder
  <2>4. q.pc \in {"observed", "walking"}
    OBVIOUS
  <2> HIDE DEF q, t
  <2>5. /\ r \in CallRecord(Len(notebooks))
        /\ r.pc = "refreshing" /\ r.seen = 0 /\ r.res = q.res /\ r.nb = n /\ r.kind = q.kind
        /\ r.path = q.path /\ r.since = q.since
    <3>1. n \in 0..Len(notebooks)
      BY <1>1
    <3>2. QED
      BY <1>1, <3>1 DEF CallRecord, Pcs
  <2> HIDE DEF r
  <2>6. q.res # "ok" /\ Busy(q)
    BY <1>2, <2>4 DEF CallInv, Busy
  <2>7. ~Wins(r, opening)
    BY <2>3, <2>5 DEF Wins
  <2>8. q.since =< clock /\ (disk[t] = 0 \/ q.since =< disk[t])
    BY <1>1, <1>2, <2>6 DEF CallInv
  <2>9. CallInv(r, disk, clock, notebooks, opening, removed)
    BY <1>1, <2>3, <2>5, <2>6, <2>7, <2>8 DEF CallInv
  <2>10. QED
    BY <2>1, <2>2, <2>5, <2>7, <2>9, OneMoves DEF Started, Rest
<1>5. QED
  BY <1>3, <1>4 DEF Adopt

LEMMA LookStep ==
    ASSUME OpeningsInv, NEW c \in Calls, Look(c)
    PROVE  OpeningsInv'
<1> DEFINE t == Target(c)
           opens == call[c].kind = "open"
           exists == call[c].seen # 0
           q == call[c]
           r == [q EXCEPT !.pc = "walking", !.next = 1, !.last = Len(notebooks)]
<1>1. /\ q \in CallRecord(Len(notebooks)) /\ t \in Targets /\ t = TargetOf[q.path]
      /\ Len(notebooks) \in Nat
  BY Records DEF OpeningsInv, Target
<1>2. CallInv(q, disk, clock, notebooks, opening, removed)
  BY DEF OpeningsInv, CallsSound
<1>3. q.pc = "observed" /\ Rest
  BY DEF Look, Rest
<1>4. CASE /\ exists # opens /\ Settle(c, IF opens THEN "missing" ELSE "exists")
           /\ UNCHANGED <<owners, opening>>
  BY <1>3, <1>4, SettleInv DEF Results
<1>5. CASE opens /\ exists /\ owners[t] # 0 /\ Adopt(c, owners[t]) /\ UNCHANGED opening
  <2>1. owners[t] \in 1..Len(notebooks) /\ Holder(owners[t]) = t
    BY <1>1, <1>5 DEF OpeningsInv, Types, World
  <2>2. QED
    BY <1>3, <1>5, <2>1, AdoptInv
<1>6. CASE /\ opens /\ exists /\ ~NoneToResolve
           /\ call' = [call EXCEPT ![c] = [@ EXCEPT !.pc = "walking", !.next = 1,
                                                    !.last = Len(notebooks)]]
           /\ UNCHANGED <<owners, opening>>
  <2>1. call' = [call EXCEPT ![c] = r]
    BY <1>6 DEF OpeningsInv, Types
  <2>2. 1 \in 1..Len(notebooks)
    BY <1>1, <1>6 DEF NoneToResolve, OpeningsInv, Types
  <2>3. q.kind = "open" /\ q.seen # 0
    BY <1>6
  <2> HIDE DEF q
  <2>4. /\ r \in CallRecord(Len(notebooks))
        /\ r.pc = "walking" /\ r.next = 1 /\ r.last = Len(notebooks)
        /\ r.seen = q.seen /\ r.res = q.res /\ r.nb = q.nb /\ r.kind = q.kind
        /\ r.path = q.path /\ r.since = q.since
    <3>1. Len(notebooks) \in 0..Len(notebooks)
      BY <1>1
    <3>2. QED
      BY <1>1, <3>1 DEF CallRecord, Pcs
  <2> HIDE DEF r
  <2>5. q.res # "ok" /\ Busy(q)
    BY <1>2, <1>3 DEF CallInv, Busy
  <2>6. ~Wins(r, opening)
    BY <2>3, <2>4 DEF Wins
  <2>7. CallInv(r, disk, clock, notebooks, opening, removed)
    BY <1>1, <1>2, <1>3, <2>2, <2>3, <2>4, <2>5, <2>6 DEF CallInv, Busy
  <2>8. QED
    BY <1>3, <1>6, <2>1, <2>4, <2>6, <2>7, SameOwners, OneMoves DEF Started, Rest
<1>7. CASE exists = opens /\ JoinOrStart(c) /\ UNCHANGED owners
  BY <1>3, <1>7, JoinOrStartInv
<1>8. QED
  BY <1>4, <1>5, <1>6, <1>7 DEF Look

LEMMA WalkStep ==
    ASSUME OpeningsInv, NEW c \in Calls, Walk(c)
    PROVE  OpeningsInv'
<1> DEFINE t == Target(c)
           n == call[c].next
           q == call[c]
           r == [q EXCEPT !.next = n + 1]
<1>1. /\ q \in CallRecord(Len(notebooks)) /\ t \in Targets /\ t = TargetOf[q.path]
      /\ Len(notebooks) \in Nat
  BY Records DEF OpeningsInv, Target
<1>2. CallInv(q, disk, clock, notebooks, opening, removed)
  BY DEF OpeningsInv, CallsSound
<1>3. q.pc = "walking" /\ Rest
  BY DEF Walk, Rest
<1>4. /\ q.kind = "open" /\ q.seen # 0 /\ n \in 1..q.last /\ q.last \in 0..Len(notebooks)
  BY <1>1, <1>2, <1>3 DEF CallInv, CallRecord
<1>5. n \in 1..Len(notebooks)
  BY <1>1, <1>4
<1>6. CASE Holder(n) = t /\ Adopt(c, n) /\ UNCHANGED opening
  BY <1>3, <1>4, <1>5, <1>6, AdoptInv
<1>7. CASE n < q.last /\ call' = [call EXCEPT ![c].next = n + 1] /\ UNCHANGED <<owners, opening>>
  <2>1. call' = [call EXCEPT ![c] = r]
    BY <1>7 DEF OpeningsInv, Types
  <2> DEFINE m == n + 1
  <2>2. m \in 1..q.last /\ m \in Nat
    BY <1>1, <1>4, <1>7
  <2>3. r = [q EXCEPT !.next = m]
    OBVIOUS
  <2> HIDE DEF q, m
  <2>4. /\ r \in CallRecord(Len(notebooks))
        /\ r.pc = q.pc /\ r.next = m /\ r.last = q.last
        /\ r.seen = q.seen /\ r.res = q.res /\ r.nb = q.nb /\ r.kind = q.kind
        /\ r.path = q.path /\ r.since = q.since
    BY <1>1, <2>2, <2>3 DEF CallRecord
  <2> HIDE DEF r
  <2>5. q.res # "ok" /\ Busy(q)
    BY <1>2, <1>3 DEF CallInv, Busy
  <2>6. ~Wins(r, opening)
    BY <1>4, <2>4 DEF Wins
  <2>7. CallInv(r, disk, clock, notebooks, opening, removed)
    BY <1>1, <1>2, <1>3, <1>4, <2>2, <2>4, <2>5, <2>6 DEF CallInv, Busy
  <2>8. QED
    BY <1>3, <1>7, <2>1, <2>4, <2>6, <2>7, SameOwners, OneMoves DEF Started, Rest
<1>8. CASE JoinOrStart(c) /\ UNCHANGED owners
  BY <1>3, <1>4, <1>8, JoinOrStartInv
<1>9. QED
  BY <1>6, <1>7, <1>8 DEF Walk

LEMMA AnswerStep ==
    ASSUME OpeningsInv, NEW c \in Calls, Answer(c)
    PROVE  OpeningsInv'
<1> DEFINE t == Target(c)
           n == call[c].nb
           q == call[c]
           r == Settled(c, "ok", n)
<1>1. /\ q \in CallRecord(Len(notebooks)) /\ t \in Targets /\ t = TargetOf[q.path]
      /\ Len(notebooks) \in Nat
  BY Records DEF OpeningsInv, Target
<1>2. CallInv(q, disk, clock, notebooks, opening, removed)
  BY DEF OpeningsInv, CallsSound
<1>3. q.pc = "refreshed" /\ Rest /\ opening' = opening
  BY DEF Answer, Rest
<1>4. q.kind = "open" /\ n # 0 /\ n \in 0..Len(notebooks) /\ Holder(n) = t
  BY <1>1, <1>2, <1>3 DEF CallInv, CallRecord, Holder
<1>5. CASE Settle(c, "conflict") /\ owners' = owners
  BY <1>3, <1>5, SettleInv DEF Results
<1>6. CASE owners' = [owners EXCEPT ![t] = n] /\ call' = [call EXCEPT ![c] = r]
  <2>1. OwnersAre(owners')
    <3>1. n \in 1..Len(notebooks)
      BY <1>1, <1>4
    <3> HIDE DEF n
    <3>2. OwnersAre([owners EXCEPT ![t] = n])
      BY <1>1, <1>4, <3>1, OwnerSet
    <3>3. QED
      BY <1>6, <3>2
  <2>2. /\ r \in CallRecord(Len(notebooks)) /\ r.pc = "settled" /\ r.res = "ok" /\ r.nb = n
        /\ r.kind = q.kind
    BY <1>1, <1>4, SettledFields DEF OpeningsInv, Results
  <2>3. call' = [call EXCEPT ![c] = r]
    BY <1>6
  <2> HIDE DEF r, q, n
  <2>4. ~Wins(r, opening)
    BY <1>4, <2>2 DEF Wins
  <2>5. CallInv(r, disk, clock, notebooks, opening, removed)
    BY <1>4, <2>2, SettledInv
  <2>6. QED
    BY <1>3, <2>1, <2>2, <2>3, <2>4, <2>5, OneMoves DEF Started, Rest
<1>7. QED
  BY <1>5, <1>6 DEF Answer

LEMMA AbortStep ==
    ASSUME OpeningsInv, NEW c \in Calls, Abort(c)
    PROVE  OpeningsInv'
BY SettleInv DEF Abort, Results, Rest

-----------------------------------------------------------------------------
(* The steps of openings. *)

LEMMA NoMove ==
    ASSUME OpeningsInv, UNCHANGED <<disk, clock, notebooks, removed>>
    PROVE  Evolves
BY DEF OpeningsInv, Types, Evolves

LEMMA FitsUnmoved ==
    ASSUME OpeningsInv, NEW c \in Calls, opening'[Target(c)] = opening[Target(c)]
    PROVE  Fits(call[c]) /\ (Wins(call[c], opening') => Wins(call[c], opening))
<1>1. CallInv(call[c], disk, clock, notebooks, opening, removed)
  BY DEF OpeningsInv, CallsSound
<1> DEFINE q == call[c]
           t == Target(c)
<1>2. t = TargetOf[q.path]
  BY DEF Target
<1>3. q.pc \in {"joined", "opener"} => opening[t].pc # "none"
  BY <1>1, <1>2 DEF CallInv
<1>4. opening'[t] = opening[t]
  OBVIOUS
<1> HIDE DEF q, t
<1>5. Wins(q, opening') => Wins(q, opening)
  BY <1>2, <1>4 DEF Wins
<1>6. Fits(q)
  BY <1>2, <1>3, <1>4, <1>5 DEF Fits
<1>7. QED
  BY <1>5, <1>6 DEF q

LEMMA FailsInv ==
    ASSUME OpeningsInv, NEW t \in Targets, NEW result \in Results \ {"ok"},
           OpeningFails(t, result), Rest, owners' = owners
    PROVE  OpeningsInv'
<1>1. Types /\ World
  BY DEF OpeningsInv
<1>2. opening' = [opening EXCEPT ![t] = NoOpening]
  BY DEF OpeningFails, Released
<1>3. /\ opening' \in [Targets -> OpeningRecord] /\ opening'[t].pc = "none"
      /\ \A u \in Targets \ {t} : opening'[u] = opening[u]
  BY <1>1, <1>2, NoOpenings DEF Types
<1>4. call' = [c \in Calls |-> IF c \in Waiters(t) THEN Settled(c, result, 0) ELSE call[c]]
  BY <1>3 DEF OpeningFails
<1>5. Evolves
  BY NoMove DEF Rest
<1>6. ASSUME NEW c \in Calls
      PROVE  /\ call'[c] \in CallRecord(Len(notebooks))
             /\ Ends(c) \/ (call'[c] = call[c] /\ Fits(call[c]))
             /\ Wins(call[c], opening') => Wins(call[c], opening)
  <2>1. Target(c) \in Targets /\ call[c] \in CallRecord(Len(notebooks)) /\ Len(notebooks) \in Nat
    BY <1>1, Records
  <2>2. CASE Target(c) # t
    <3>1. call'[c] = call[c]
      BY <1>4, <2>2 DEF Waiters
    <3>2. QED
      BY <1>3, <2>1, <2>2, <3>1, FitsUnmoved
  <2>3. CASE Target(c) = t
    <3>1. ~Created(opening'[TargetOf[call[c].path]]) /\ opening'[TargetOf[call[c].path]].pc = "none"
      BY <1>3, <2>3 DEF Created, Target
    <3>2. Wins(call[c], opening') => Wins(call[c], opening)
      BY <3>1 DEF Wins
    <3>3. CASE c \in Waiters(t)
      <4>1. call'[c] = Settled(c, result, 0)
        BY <1>4, <3>3
      <4>2. /\ call'[c] \in CallRecord(Len(notebooks))
            /\ call'[c].pc = "settled" /\ call'[c].res = result
            /\ call'[c].kind = call[c].kind /\ call'[c].path = call[c].path
        BY <1>1, <2>1, <4>1, SettledFields
      <4>3. Ends(c)
        BY <4>2 DEF Ends
      <4>4. QED
        BY <3>2, <4>2, <4>3
    <3>4. CASE c \notin Waiters(t)
      <4>1. call'[c] = call[c] /\ call[c].pc \notin {"joined", "opener"}
        BY <1>4, <2>3, <3>4 DEF Waiters
      <4>2. Fits(call[c])
        BY <3>1, <3>2, <4>1 DEF Fits
      <4>3. QED
        BY <2>1, <3>2, <4>1, <4>2
    <3>5. QED
      BY <3>3, <3>4
  <2>4. QED
    BY <2>2, <2>3
<1>7. Types'
  <2>1. call' \in [Calls -> CallRecord(Len(notebooks))]
    BY <1>4, <1>6
  <2>2. QED
    BY <1>1, <1>3, <2>1 DEF Types, Rest
<1>8. World'
  <2>1. ASSUME NEW u \in Targets  PROVE OpeningInv(u)'
    BY <1>1, <1>3 DEF World, OpeningInv, Created, Rest
  <2>2. QED
    BY <1>1, <2>1 DEF World, Holder, Rest
<1>9. QED
  BY <1>5, <1>6, <1>7, <1>8, EverybodyStays

LEMMA CreateFileStep ==
    ASSUME OpeningsInv, NEW t \in Targets, CreateFile(t)
    PROVE  OpeningsInv'
<1>1. Types /\ World
  BY DEF OpeningsInv
<1>2. CASE OpeningFails(t, "exists") /\ UNCHANGED <<disk, clock>>
  BY <1>2, FailsInv DEF CreateFile, Results, Rest
<1>3. CASE MayCreate(t) /\ Write(t) /\ call' = call
           /\ opening' = [opening EXCEPT ![t] = [@ EXCEPT !.pc = "confirming", !.ver = clock + 1]]
  <2> DEFINE v == clock + 1
             o == [opening[t] EXCEPT !.pc = "confirming", !.ver = v]
  <2>1. clock \in Nat /\ v \in Nat /\ v # 0 /\ clock =< v /\ disk[t] = 0
    BY <1>1, <1>3 DEF Types, MayCreate
  <2>2. clock' = v /\ disk' = [disk EXCEPT ![t] = v]
    BY <1>3 DEF Write
  <2>3. opening' = [opening EXCEPT ![t] = o]
    BY <1>1, <1>3 DEF Types
  <2>4. UNCHANGED <<notebooks, owners, adrift, restarts, removed>> /\ opening[t].pc = "creating"
    BY DEF CreateFile
  <2>5. opening[t] \in OpeningRecord
    BY <1>1 DEF Types
  <2> HIDE DEF v
  <2>6. o \in OpeningRecord /\ o.pc = "confirming" /\ o.ver = v /\ o.path = opening[t].path
    BY <2>1, <2>5 DEF OpeningRecord
  <2> HIDE DEF o
  <2>7. /\ opening' \in [Targets -> OpeningRecord] /\ opening'[t] = o
        /\ \A u \in Targets \ {t} : opening'[u] = opening[u]
    BY <1>1, <2>3, <2>6 DEF Types
  <2>8. /\ disk' \in [Targets -> Nat] /\ disk'[t] = v
        /\ \A u \in Targets \ {t} : disk'[u] = disk[u]
    BY <1>1, <2>1, <2>2 DEF Types
  <2>9. Evolves
    BY <1>1, <2>1, <2>2, <2>4, <2>8 DEF Evolves, Types, v
  <2>10. ASSUME NEW c \in Calls
         PROVE  /\ call'[c] = call[c] /\ Fits(call[c])
                /\ Target(c) # t => (Wins(call[c], opening') => Wins(call[c], opening))
    <3>1. Target(c) \in Targets
      BY <1>1, Records
    <3>2. CASE Target(c) # t
      BY <1>3, <2>7, <3>1, <3>2, FitsUnmoved
    <3>3. CASE Target(c) = t
      BY <1>3, <2>1, <2>6, <2>7, <2>8, <3>3 DEF Fits, Target
    <3>4. QED
      BY <3>2, <3>3
  <2>11. ASSUME NEW c \in Calls, Target(c) = t, t \notin removed, Wins(call[c], opening')
         PROVE  call[c].pc = "opener"
    <3>1. CallInv(call[c], disk, clock, notebooks, opening, removed)
      BY DEF OpeningsInv, CallsSound
    <3>2. ~Wins(call[c], opening)
      BY <2>1, <2>11, <3>1 DEF CallInv, There, Target
    <3>3. QED
      BY <2>11, <3>2 DEF Wins
  <2>12. ASSUME NEW c \in Calls, NEW d \in Calls, Wins(call[c], opening'), Wins(call[d], opening'),
                Target(c) = Target(d), Target(c) \notin removed
         PROVE  c = d
    <3>1. CASE Target(c) # t
      BY <2>10, <2>12, <3>1 DEF OpeningsInv, OneWinner
    <3>2. CASE Target(c) = t
      BY <2>11, <2>12, <3>2 DEF OpeningsInv, OneOpener
    <3>3. QED
      BY <3>1, <3>2
  <2>13. OneWinner'
    BY <1>3, <2>4, <2>12 DEF OneWinner, Target
  <2>14. Types'
    BY <1>1, <1>3, <2>1, <2>2, <2>4, <2>7, <2>8 DEF Types
  <2>15. World'
    <3>1. \A u \in Targets : disk'[u] =< clock'
      BY <1>1, <2>1, <2>2, <2>8 DEF World, Types
    <3>2. \A u \in Targets : There(u, disk, removed) => There(u, disk', removed')
      BY <1>1, <2>9, StillThere
    <3>3. ASSUME NEW u \in Targets  PROVE OpeningInv(u)'
      <4>1. CASE u = t
        <5>1. TargetOf[opening[t].path] = t
          BY <1>1, <2>4 DEF World, OpeningInv
        <5>2. There(t, disk', removed')
          BY <2>1, <2>8 DEF There
        <5>3. QED
          BY <2>1, <2>6, <2>7, <4>1, <5>1, <5>2 DEF OpeningInv
      <4>2. CASE u # t
        BY <1>1, <2>7, <3>2, <4>2 DEF World, OpeningInv
      <4>3. QED
        BY <4>1, <4>2
    <3>4. ASSUME NEW n \in 1..Len(notebooks)  PROVE There(Holder(n), disk', removed')
      BY <1>1, <3>2, Holders DEF World
    <3>5. QED
      BY <1>1, <2>4, <3>1, <3>3, <3>4 DEF World, Holder
  <2>16. QED
    BY <2>9, <2>10, <2>13, <2>14, <2>15, EverybodyStays
<1>4. QED
  BY <1>2, <1>3 DEF CreateFile

LEMMA ConfirmStep ==
    ASSUME OpeningsInv, NEW t \in Targets, Confirm(t)
    PROVE  OpeningsInv'
<1>1. Types /\ World
  BY DEF OpeningsInv
<1>2. Rest /\ owners' = owners /\ opening[t].pc = "confirming"
  BY DEF Confirm, Rest
<1>3. CASE OpeningFails(t, "conflict")
  BY <1>2, <1>3, FailsInv DEF Results
<1>4. CASE Confirms(t) /\ opening' = [opening EXCEPT ![t].pc = "confirmed"] /\ call' = call
  <2> DEFINE o == [opening[t] EXCEPT !.pc = "confirmed"]
  <2>1. opening[t] \in OpeningRecord /\ opening' = [opening EXCEPT ![t] = o]
    BY <1>1, <1>4 DEF Types
  <2>2. /\ o \in OpeningRecord /\ o.pc = "confirmed" /\ o.ver = opening[t].ver
        /\ o.path = opening[t].path
    BY <2>1 DEF OpeningRecord
  <2> HIDE DEF o
  <2>3. /\ opening' \in [Targets -> OpeningRecord] /\ opening'[t] = o
        /\ \A u \in Targets \ {t} : opening'[u] = opening[u]
    BY <1>1, <2>1, <2>2 DEF Types
  <2>4. opening[t].ver # 0 /\ opening[t].ver = disk[t] /\ There(t, disk, removed)
        /\ TargetOf[opening[t].path] = t
    BY <1>1, <1>2, <1>4 DEF World, OpeningInv, Created, Confirms
  <2>5. Evolves
    BY <1>2, NoMove DEF Rest
  <2>6. ASSUME NEW c \in Calls
        PROVE  /\ call'[c] = call[c] /\ Fits(call[c])
               /\ Wins(call[c], opening') => Wins(call[c], opening)
    <3>1. Target(c) \in Targets
      BY <1>1, Records
    <3>2. CASE Target(c) # t
      BY <1>4, <2>3, <3>1, <3>2, FitsUnmoved
    <3>3. CASE Target(c) = t
      <4>1. Wins(call[c], opening') => Wins(call[c], opening)
        BY <1>2, <3>3 DEF Wins, Created, Target
      <4>2. Fits(call[c])
        BY <2>2, <2>3, <2>4, <3>3, <4>1 DEF Fits, Target
      <4>3. QED
        BY <1>4, <4>1, <4>2
    <3>4. QED
      BY <3>2, <3>3
  <2>7. Types'
    BY <1>1, <1>2, <1>4, <2>3 DEF Types, Rest
  <2>8. World'
    <3>1. ASSUME NEW u \in Targets  PROVE OpeningInv(u)'
      <4>1. CASE u = t
        BY <1>2, <2>2, <2>3, <2>4, <4>1 DEF OpeningInv, Rest
      <4>2. CASE u # t
        BY <1>1, <1>2, <2>3, <4>2 DEF World, OpeningInv, Rest
      <4>3. QED
        BY <4>1, <4>2
    <3>2. QED
      BY <1>1, <1>2, <3>1 DEF World, Holder, Rest
  <2>9. QED
    BY <2>5, <2>6, <2>7, <2>8, EverybodyStays
<1>5. QED
  BY <1>3, <1>4 DEF Confirm

LEMMA OpeningLostStep ==
    ASSUME OpeningsInv, NEW t \in Targets, OpeningLost(t)
    PROVE  OpeningsInv'
BY FailsInv DEF OpeningLost, Results, Rest

LEMMA MoreNotebooks ==
    ASSUME NEW m \in Nat, NEW n \in Nat, m =< n
    PROVE  CallRecord(m) \subseteq CallRecord(n)
<1>1. 0..m \subseteq 0..n
  OBVIOUS
<1>2. QED
  BY <1>1 DEF CallRecord

(* The notebook a publication adds. *)
LEMMA PublishStep ==
    ASSUME OpeningsInv, NEW t \in Targets, Publish(t)
    PROVE  OpeningsInv'
<1> DEFINE m == Len(notebooks)
           n == Len(notebooks) + 1
           e == [path |-> opening[t].path, ver |-> opening[t].ver]
<1>1. Types /\ World
  BY DEF OpeningsInv
<1>2. m \in Nat /\ n \in Nat /\ n # 0 /\ m =< n /\ n \in 0..n /\ notebooks \in Seq(NotebookRecord)
  BY <1>1 DEF Types
<1>3. /\ opening[t].pc = "confirmed" /\ opening[t] \in OpeningRecord
      /\ TargetOf[opening[t].path] = t /\ opening[t].ver # 0 /\ There(t, disk, removed)
  BY <1>1 DEF Publish, Types, World, OpeningInv, Created
<1>4. e \in NotebookRecord /\ e.path = opening[t].path
  BY <1>3 DEF OpeningRecord, NotebookRecord
<1>5. /\ notebooks' = Append(notebooks, e) /\ owners' = [owners EXCEPT ![t] = n]
      /\ opening' = [opening EXCEPT ![t] = NoOpening]
      /\ call' = [c \in Calls |-> IF c \in Waiters(t) THEN AnswerOf(c, n) ELSE call[c]]
      /\ UNCHANGED <<disk, clock, adrift, restarts, removed>>
  BY DEF Publish, Succeed
<1> HIDE DEF e
<1>6. /\ notebooks' \in Seq(NotebookRecord) /\ Len(notebooks') = n
      /\ notebooks'[n] = e /\ \A i \in 1..m : notebooks'[i] = notebooks[i]
  BY <1>2, <1>4, <1>5
<1>7. \A i \in 1..n : i \in 1..m \/ i = n
  BY <1>2
<1> HIDE DEF m, n
<1>8. /\ opening' \in [Targets -> OpeningRecord] /\ opening'[t].pc = "none"
      /\ \A u \in Targets \ {t} : opening'[u] = opening[u]
  BY <1>1, <1>5, NoOpenings DEF Types
<1>9. owners \in [Targets -> 0..m]
  BY <1>1 DEF Types, m
<1>10. 0..m \subseteq 0..n
  BY <1>2
<1>11. /\ owners' \in [Targets -> 0..n] /\ owners'[t] = n
       /\ \A u \in Targets \ {t} : owners'[u] = owners[u]
  BY <1>2, <1>5, <1>9, <1>10
<1>12. Evolves
  <2>1. clock' \in Nat /\ clock =< clock'
    BY <1>1, <1>5 DEF Types
  <2>2. Len(notebooks) = m
    BY DEF m
  <2>3. QED
    BY <1>2, <1>5, <1>6, <2>1, <2>2 DEF Evolves
<1>13. ASSUME NEW c \in Calls
       PROVE  /\ call'[c] \in CallRecord(n)
              /\ Ends(c) \/ (call'[c] = call[c] /\ Fits(call[c]))
              /\ Wins(call[c], opening') => Wins(call[c], opening)
  <2>1. Target(c) \in Targets /\ call[c] \in CallRecord(n)
    <3>1. call[c] \in CallRecord(m) /\ Target(c) \in Targets
      BY <1>1, Records DEF m
    <3>2. QED
      BY <1>2, <3>1, MoreNotebooks
  <2>2. CASE Target(c) # t
    <3>1. call'[c] = call[c]
      BY <1>5, <2>2 DEF Waiters
    <3>2. QED
      BY <1>8, <2>1, <2>2, <3>1, FitsUnmoved
  <2>3. CASE Target(c) = t
    <3>1. ~Created(opening'[TargetOf[call[c].path]]) /\ opening'[TargetOf[call[c].path]].pc = "none"
      BY <1>8, <2>3 DEF Created, Target
    <3>2. Wins(call[c], opening') => Wins(call[c], opening)
      BY <3>1 DEF Wins
    <3>3. CASE c \in Waiters(t)
      <4>1. call'[c] = AnswerOf(c, n)
        BY <1>5, <3>3
      <4>2. CASE call[c].kind = "create" /\ call[c].pc = "joined"
        <5>1. call'[c] = Settled(c, "exists", 0)
          BY <4>1, <4>2 DEF AnswerOf
        <5>2. 0 \in 0..n
          BY <1>2
        <5>3. /\ call'[c] \in CallRecord(n)
              /\ call'[c].pc = "settled" /\ call'[c].res = "exists"
              /\ call'[c].kind = call[c].kind /\ call'[c].path = call[c].path
          BY <1>1, <1>2, <5>1, <5>2, SettledFields DEF Results
        <5>4. Ends(c)
          BY <5>3 DEF Ends
        <5>5. QED
          BY <3>2, <5>3, <5>4
      <4>3. CASE ~(call[c].kind = "create" /\ call[c].pc = "joined")
        <5>1. call'[c] = Settled(c, "ok", n)
          BY <4>1, <4>3 DEF AnswerOf
        <5>2. /\ call'[c] \in CallRecord(n)
              /\ call'[c].pc = "settled" /\ call'[c].res = "ok" /\ call'[c].nb = n
              /\ call'[c].kind = call[c].kind /\ call'[c].path = call[c].path
          BY <1>1, <1>2, <5>1, SettledFields DEF Results
        <5>3. call[c].kind = "create" => Wins(call[c], opening)
          BY <1>3, <2>3, <3>3, <4>3 DEF Waiters, Wins, Created, Target
        <5>4. Ends(c)
          BY <1>2, <5>2, <5>3 DEF Ends
        <5>5. QED
          BY <3>2, <5>2, <5>4
      <4>4. QED
        BY <4>2, <4>3
    <3>4. CASE c \notin Waiters(t)
      <4>1. call'[c] = call[c] /\ call[c].pc \notin {"joined", "opener"}
        BY <1>5, <2>3, <3>4 DEF Waiters
      <4>2. Fits(call[c])
        BY <3>1, <3>2, <4>1 DEF Fits
      <4>3. QED
        BY <2>1, <3>2, <4>1, <4>2
    <3>5. QED
      BY <3>3, <3>4
  <2>4. QED
    BY <2>2, <2>3
<1>14. Types'
  <2>1. call' \in [Calls -> CallRecord(n)]
    BY <1>5, <1>13
  <2>2. QED
    BY <1>1, <1>5, <1>6, <1>8, <1>11, <2>1 DEF Types
<1>15. World'
  <2>1. ASSUME NEW u \in Targets, owners'[u] # 0
        PROVE  TargetOf[notebooks'[owners'[u]].path] = u
    <3>1. CASE u = t
      BY <1>3, <1>4, <1>6, <1>11, <3>1
    <3>2. CASE u # t
      <4>1. owners'[u] = owners[u] /\ owners[u] \in 1..m
        BY <1>2, <1>9, <1>11, <2>1, <3>2
      <4>2. TargetOf[notebooks[owners[u]].path] = u
        BY <1>1, <2>1, <4>1 DEF World, Holder
      <4>3. QED
        BY <1>6, <4>1, <4>2
    <3>3. QED
      BY <3>1, <3>2
  <2>2. ASSUME NEW i \in 1..n  PROVE There(TargetOf[notebooks'[i].path], disk, removed)
    <3>1. CASE i = n
      BY <1>3, <1>4, <1>6, <3>1
    <3>2. CASE i \in 1..m
      BY <1>1, <1>6, <3>2 DEF World, Holder, m
    <3>3. QED
      BY <1>7, <3>1, <3>2
  <2>3. ASSUME NEW u \in Targets  PROVE OpeningInv(u)'
    BY <1>1, <1>5, <1>8 DEF World, OpeningInv, Created
  <2>4. \A u \in Targets : disk'[u] =< clock'
    BY <1>1, <1>5 DEF World
  <2>5. QED
    BY <1>5, <1>6, <2>1, <2>2, <2>3, <2>4 DEF World, Holder
<1>16. QED
  BY <1>12, <1>13, <1>14, <1>15, EverybodyStays

-----------------------------------------------------------------------------
(* Open notebooks, other programs, restart: the calls and openings stay as *)
(* they are while files and the versions shown move on.                    *)

LEMMA FilesMove ==
    ASSUME OpeningsInv, Evolves,
           disk' \in [Targets -> Nat], \A t \in Targets : disk'[t] =< clock',
           notebooks' \in Seq(NotebookRecord), Len(notebooks') = Len(notebooks),
           OwnersAre(owners'), adrift' \subseteq Targets, removed' \subseteq Targets,
           UNCHANGED <<opening, call, restarts>>
    PROVE  OpeningsInv'
<1>1. Types /\ World
  BY DEF OpeningsInv
<1>2. Types'
  BY <1>1 DEF Types, OwnersAre, Evolves
<1>3. \A t \in Targets : There(t, disk, removed) => There(t, disk', removed')
  BY <1>1, StillThere
<1>4. World'
  <2>1. \A n \in 1..Len(notebooks) : notebooks'[n].path = notebooks[n].path
    BY DEF Evolves
  <2>2. ASSUME NEW t \in Targets, owners'[t] # 0
        PROVE  TargetOf[notebooks'[owners'[t]].path] = t
    <3>1. owners'[t] \in 1..Len(notebooks) /\ Holder(owners'[t]) = t
      BY <1>1, <2>2 DEF OwnersAre, Types
    <3>2. QED
      BY <2>1, <3>1 DEF Holder
  <2>3. ASSUME NEW n \in 1..Len(notebooks)
        PROVE  There(TargetOf[notebooks'[n].path], disk', removed')
    <3>1. There(Holder(n), disk', removed')
      BY <1>1, <1>3, Holders DEF World
    <3>2. QED
      BY <2>1, <3>1 DEF Holder
  <2>4. ASSUME NEW t \in Targets  PROVE OpeningInv(t)'
    BY <1>1, <1>3 DEF World, OpeningInv
  <2>5. QED
    BY <2>2, <2>3, <2>4 DEF World, Holder
<1>5. ASSUME NEW c \in Calls
      PROVE  /\ call'[c] = call[c] /\ Fits(call[c])
             /\ Wins(call[c], opening') => Wins(call[c], opening)
  BY FitsUnmoved
<1>6. QED
  BY <1>2, <1>4, <1>5, EverybodyStays

LEMMA WriteFields ==
    ASSUME Types, World, NEW t \in Targets, Write(t)
    PROVE  /\ clock' = clock + 1 /\ clock \in Nat /\ clock' \in Nat \ {0} /\ clock =< clock'
           /\ disk' \in [Targets -> Nat]
           /\ \A u \in Targets : disk'[u] =< clock' /\ disk'[u] \in {disk[u], clock + 1}
<1> DEFINE v == clock + 1
<1>1. clock \in Nat /\ v \in Nat \ {0} /\ clock < v
  BY DEF Types
<1>2. clock' = v /\ disk' = [disk EXCEPT ![t] = v]
  BY DEF Write
<1>3. disk \in [Targets -> Nat] /\ \A u \in Targets : disk[u] =< clock
  BY DEF Types, World
<1> HIDE DEF v
<1>4. /\ disk' \in [Targets -> Nat] /\ disk'[t] = v
      /\ \A u \in Targets \ {t} : disk'[u] = disk[u]
  BY <1>1, <1>2, <1>3
<1>5. \A u \in Targets : disk'[u] =< clock' /\ disk'[u] \in {disk[u], v}
  BY <1>1, <1>2, <1>3, <1>4
<1>6. QED
  BY <1>1, <1>2, <1>4, <1>5 DEF v

(* The version a notebook shows. *)
LEMMA VersionSet ==
    ASSUME Types, NEW n \in 1..Len(notebooks), NEW v \in Nat \ {0},
           notebooks' = [notebooks EXCEPT ![n].ver = v]
    PROVE  /\ notebooks' \in Seq(NotebookRecord) /\ Len(notebooks') = Len(notebooks)
           /\ \A i \in 1..Len(notebooks) : notebooks'[i].path = notebooks[i].path
<1> DEFINE e == [notebooks[n] EXCEPT !.ver = v]
<1>1. notebooks[n] \in NotebookRecord /\ notebooks \in Seq(NotebookRecord)
  BY Holders DEF Types
<1>2. e \in NotebookRecord /\ e.path = notebooks[n].path
  BY <1>1 DEF NotebookRecord
<1>3. notebooks' = [notebooks EXCEPT ![n] = e]
  OBVIOUS
<1> HIDE DEF e
<1>4. /\ notebooks' \in Seq(NotebookRecord) /\ Len(notebooks') = Len(notebooks)
      /\ \A i \in 1..Len(notebooks) : notebooks'[i] = IF i = n THEN e ELSE notebooks[i]
  BY <1>1, <1>2, <1>3
<1>5. QED
  BY <1>2, <1>4

LEMMA FollowStep ==
    ASSUME OpeningsInv, NEW n \in 1..Len(notebooks), Follow(n)
    PROVE  OpeningsInv'
<1>1. Types /\ World /\ Holder(n) \in Targets
  BY Holders DEF OpeningsInv
<1>2. /\ clock' = clock + 1 /\ clock \in Nat /\ clock' \in Nat \ {0} /\ clock =< clock'
      /\ disk' \in [Targets -> Nat]
      /\ \A u \in Targets : disk'[u] =< clock' /\ disk'[u] \in {disk[u], clock + 1}
  BY <1>1, WriteFields DEF Follow
<1>3. /\ notebooks' = [notebooks EXCEPT ![n].ver = clock']
      /\ owners' = [owners EXCEPT ![Holder(n)] = n]
      /\ UNCHANGED <<opening, adrift, call, restarts, removed>>
  BY <1>2 DEF Follow
<1>4. /\ notebooks' \in Seq(NotebookRecord) /\ Len(notebooks') = Len(notebooks)
      /\ \A i \in 1..Len(notebooks) : notebooks'[i].path = notebooks[i].path
  <2> DEFINE v == clock'
  <2>1. v \in Nat \ {0} /\ notebooks' = [notebooks EXCEPT ![n].ver = v]
    BY <1>2, <1>3
  <2> HIDE DEF v
  <2>2. QED
    BY <1>1, <2>1, VersionSet
<1>5. OwnersAre(owners')
  BY <1>1, <1>3, OwnerSet
<1>6. Evolves
  BY <1>1, <1>2, <1>3, <1>4 DEF Evolves, Types
<1>7. adrift' \subseteq Targets /\ removed' \subseteq Targets
  BY <1>1, <1>3 DEF Types
<1>8. QED
  BY <1>2, <1>3, <1>4, <1>5, <1>6, <1>7, FilesMove

LEMMA AcceptStep ==
    ASSUME OpeningsInv, NEW n \in 1..Len(notebooks), Accept(n)
    PROVE  OpeningsInv'
<1> DEFINE v == disk[Holder(n)]
<1>1. Types /\ World /\ Holder(n) \in Targets
  BY Holders DEF OpeningsInv
<1>2. v \in Nat \ {0}
  BY <1>1 DEF Accept, Claimable, Types
<1>3. /\ notebooks' = [notebooks EXCEPT ![n].ver = v]
      /\ owners' = [owners EXCEPT ![Holder(n)] = n]
      /\ UNCHANGED <<disk, clock, opening, adrift, call, restarts, removed>>
  BY DEF Accept
<1> HIDE DEF v
<1>4. /\ notebooks' \in Seq(NotebookRecord) /\ Len(notebooks') = Len(notebooks)
      /\ \A i \in 1..Len(notebooks) : notebooks'[i].path = notebooks[i].path
  BY <1>1, <1>2, <1>3, VersionSet
<1>5. OwnersAre(owners')
  BY <1>1, <1>3, OwnerSet
<1>6. Evolves
  BY <1>1, <1>3, <1>4 DEF Evolves, Types
<1>7. QED
  BY <1>1, <1>3, <1>4, <1>5, <1>6, FilesMove DEF Types, World

LEMMA ExternalWriteStep ==
    ASSUME OpeningsInv, NEW t \in Targets, ExternalWrite(t)
    PROVE  OpeningsInv'
<1>1. Types /\ World
  BY DEF OpeningsInv
<1>2. UNCHANGED <<notebooks, owners, opening, adrift, call, restarts, removed>> /\ Write(t)
  BY DEF ExternalWrite
<1>3. /\ clock' = clock + 1 /\ clock \in Nat /\ clock' \in Nat \ {0} /\ clock =< clock'
      /\ disk' \in [Targets -> Nat]
      /\ \A u \in Targets : disk'[u] =< clock' /\ disk'[u] \in {disk[u], clock + 1}
  BY <1>1, <1>2, WriteFields
<1>4. Evolves
  BY <1>1, <1>2, <1>3 DEF Evolves, Types
<1>5. QED
  BY <1>1, <1>2, <1>3, <1>4, SameOwners, FilesMove DEF Types

LEMMA ExternalUnlinkStep ==
    ASSUME OpeningsInv, NEW t \in Targets, ExternalUnlink(t)
    PROVE  OpeningsInv'
<1>1. Types /\ World
  BY DEF OpeningsInv
<1>2. /\ UNCHANGED <<clock, notebooks, owners, opening, adrift, call, restarts>>
      /\ disk' = [disk EXCEPT ![t] = 0] /\ removed' = removed \cup {t}
  BY DEF ExternalUnlink
<1>3. /\ disk' \in [Targets -> Nat]
      /\ \A u \in Targets : disk'[u] = disk[u] \/ (disk'[u] = 0 /\ u \in removed')
  BY <1>1, <1>2 DEF Types
<1>4. \A u \in Targets : disk'[u] =< clock'
  BY <1>1, <1>2, <1>3 DEF Types, World
<1>5. Evolves
  BY <1>1, <1>2, <1>3 DEF Evolves, Types
<1>6. QED
  BY <1>1, <1>2, <1>3, <1>4, <1>5, SameOwners, FilesMove DEF Types

LEMMA DriftStep ==
    ASSUME OpeningsInv, NEW t \in Targets, Drift(t)
    PROVE  OpeningsInv'
<1>1. Types /\ World
  BY DEF OpeningsInv
<1>2. /\ UNCHANGED <<notebooks, owners, opening, call, restarts, removed>>
      /\ adrift' = adrift \ {t}
      /\ Write(t) \/ UNCHANGED <<disk, clock>>
  BY DEF Drift
<1>3. /\ clock \in Nat /\ clock' \in Nat /\ clock =< clock'
      /\ disk' \in [Targets -> Nat]
      /\ \A u \in Targets : disk'[u] =< clock' /\ disk'[u] \in {disk[u], clock + 1}
  <2>1. CASE Write(t)
    BY <1>1, <2>1, WriteFields
  <2>2. CASE UNCHANGED <<disk, clock>>
    BY <1>1, <2>2 DEF Types, World
  <2>3. QED
    BY <1>2, <2>1, <2>2
<1>4. Evolves
  BY <1>1, <1>2, <1>3 DEF Evolves, Types
<1>5. QED
  BY <1>1, <1>2, <1>3, <1>4, SameOwners, FilesMove DEF Types

LEMMA RestartStep ==
    ASSUME OpeningsInv, Restart
    PROVE  OpeningsInv'
<1>1. Types /\ World /\ Len(notebooks) \in Nat
  BY DEF OpeningsInv, Types
<1>2. /\ restarts < MaxRestarts /\ restarts' = restarts + 1
      /\ owners' = [t \in Targets |-> 0] /\ opening' = [t \in Targets |-> NoOpening]
      /\ adrift' \subseteq adrift \cup Targets
      /\ call' = [c \in Calls |-> IF Asked(c) THEN Settled(c, "unavailable", 0) ELSE call[c]]
      /\ UNCHANGED <<disk, clock, notebooks, removed>>
  BY DEF Restart
<1>3. /\ opening' \in [Targets -> OpeningRecord]
      /\ \A t \in Targets : opening'[t].pc = "none"
  BY <1>2, NoOpenings
<1>4. ASSUME NEW c \in Calls
      PROVE  /\ call'[c] \in CallRecord(Len(notebooks))
             /\ Ends(c) \/ (call'[c] = call[c] /\ Fits(call[c]))
             /\ Wins(call[c], opening') => Wins(call[c], opening)
  <2>1. Target(c) \in Targets /\ call[c] \in CallRecord(Len(notebooks))
    BY <1>1, Records
  <2>2. Wins(call[c], opening') => Wins(call[c], opening)
    BY <1>3, <2>1 DEF Wins, Created, Target
  <2>3. CASE Asked(c)
    <3>1. call'[c] = Settled(c, "unavailable", 0)
      BY <1>2, <2>3
    <3>2. /\ call'[c] \in CallRecord(Len(notebooks))
          /\ call'[c].pc = "settled" /\ call'[c].res = "unavailable"
          /\ call'[c].kind = call[c].kind /\ call'[c].path = call[c].path
      BY <1>1, <3>1, SettledFields DEF Results
    <3>3. Ends(c)
      BY <3>2 DEF Ends
    <3>4. QED
      BY <2>2, <3>2, <3>3
  <2>4. CASE ~Asked(c)
    <3>1. call'[c] = call[c] /\ call[c].pc \notin {"joined", "opener"}
      BY <1>2, <2>4 DEF Asked
    <3>2. opening'[TargetOf[call[c].path]].pc = "none"
      BY <1>3, <2>1 DEF Target
    <3>3. Fits(call[c])
      BY <2>2, <3>1, <3>2 DEF Fits
    <3>4. QED
      BY <2>1, <2>2, <3>1, <3>3
  <2>5. QED
    BY <2>3, <2>4
<1>5. Types'
  <2>1. call' \in [Calls -> CallRecord(Len(notebooks))]
    BY <1>2, <1>4
  <2>2. restarts' \in 0..MaxRestarts
    BY <1>1, <1>2, OpeningsAssumption DEF Types
  <2>3. owners' \in [Targets -> 0..Len(notebooks)]
    BY <1>1, <1>2
  <2>4. QED
    BY <1>1, <1>2, <1>3, <2>1, <2>2, <2>3 DEF Types
<1>6. World'
  <2>1. ASSUME NEW u \in Targets  PROVE OpeningInv(u)'
    BY <1>3 DEF OpeningInv, Created
  <2>2. \A u \in Targets : owners'[u] = 0
    BY <1>2
  <2>3. QED
    BY <1>1, <1>2, <2>1, <2>2 DEF World, Holder
<1>7. Evolves
  BY <1>2, NoMove
<1>8. QED
  BY <1>4, <1>5, <1>6, <1>7, EverybodyStays

-----------------------------------------------------------------------------
(* The invariant holds. *)

LEMMA OpeningsInvInit == Init => OpeningsInv
<1> SUFFICES ASSUME Init  PROVE OpeningsInv
  OBVIOUS
<1>1. OpenPaths \in Seq(Paths) /\ Len(OpenPaths) \in Nat /\ DOMAIN OpenPaths = 1..Len(OpenPaths)
  BY OpeningsAssumption
<1> DEFINE e == [i \in 1..Len(OpenPaths) |-> [path |-> OpenPaths[i], ver |-> 1]]
           Has(t) == \E i \in 1..Len(OpenPaths) : TargetOf[OpenPaths[i]] = t
<1>2. /\ disk = [t \in Targets |-> IF Has(t) THEN 1 ELSE 0]
      /\ clock = 1 /\ notebooks = e
      /\ owners = [t \in Targets |->
                      IF Has(t) THEN CHOOSE i \in 1..Len(OpenPaths) : TargetOf[OpenPaths[i]] = t
                      ELSE 0]
      /\ opening = [t \in Targets |-> NoOpening]
      /\ adrift = {} /\ removed = {} /\ call = [c \in Calls |-> Idle] /\ restarts = 0
  BY <1>1 DEF Init
<1>3. /\ notebooks \in Seq(NotebookRecord) /\ Len(notebooks) = Len(OpenPaths)
      /\ \A i \in 1..Len(OpenPaths) : Holder(i) = TargetOf[OpenPaths[i]]
  <2>1. ASSUME NEW i \in 1..Len(OpenPaths)
        PROVE  e[i] \in NotebookRecord /\ e[i].path = OpenPaths[i]
    BY <1>1, <2>1 DEF NotebookRecord
  <2>2. \A i \in 1..Len(OpenPaths) : e[i] \in NotebookRecord
    BY <2>1
  <2>3. e = [i \in 1..Len(OpenPaths) |-> e[i]]
    OBVIOUS
  <2> HIDE DEF e
  <2>4. e \in [1..Len(OpenPaths) -> NotebookRecord]
    BY <2>2, <2>3
  <2>5. e \in Seq(NotebookRecord) /\ Len(e) = Len(OpenPaths)
    BY <1>1, <2>4
  <2>6. QED
    BY <1>2, <2>1, <2>5 DEF Holder
<1> HIDE DEF e
<1>4. ASSUME NEW t \in Targets
      PROVE  /\ disk[t] \in Nat /\ disk[t] =< clock /\ (Has(t) => disk[t] # 0)
             /\ owners[t] \in 0..Len(notebooks)
             /\ owners[t] # 0 => Holder(owners[t]) = t
             /\ opening[t] = NoOpening
  <2> DEFINE i == CHOOSE i \in 1..Len(OpenPaths) : TargetOf[OpenPaths[i]] = t
  <2>1. Has(t) => i \in 1..Len(OpenPaths) /\ TargetOf[OpenPaths[i]] = t
    OBVIOUS
  <2>2. owners[t] = IF Has(t) THEN i ELSE 0
    BY <1>2
  <2>3. disk[t] = IF Has(t) THEN 1 ELSE 0
    BY <1>2
  <2> HIDE DEF i, Has
  <2>4. owners[t] \in 0..Len(notebooks) /\ (owners[t] # 0 => Holder(owners[t]) = t)
    BY <1>1, <1>3, <2>1, <2>2
  <2>5. QED
    BY <1>2, <2>3, <2>4
<1>5. \A n \in 1..Len(notebooks) : There(Holder(n), disk, removed)
  BY <1>3, <1>4, Holders, TargetsOfPaths, OpeningsAssumption DEF There
<1> HIDE DEF Has
<1>6. Types
  <2>1. disk \in [Targets -> Nat] /\ owners \in [Targets -> 0..Len(notebooks)]
    <3>1. disk = [t \in Targets |-> disk[t]] /\ owners = [t \in Targets |-> owners[t]]
      BY <1>2
    <3>2. QED
      BY <1>4, <3>1
  <2>2. opening \in [Targets -> OpeningRecord]
    BY <1>2, NoOpenings
  <2>3. call \in [Calls -> CallRecord(Len(notebooks))]
    BY <1>1, <1>2, <1>3, Idles
  <2>4. restarts \in 0..MaxRestarts
    BY <1>2, OpeningsAssumption
  <2>5. QED
    BY <1>2, <1>3, <2>1, <2>2, <2>3, <2>4 DEF Types
<1>7. World
  BY <1>4, <1>5, NoOpenings DEF World, OpeningInv, Created
<1>8. ASSUME NEW c \in Calls
      PROVE  call[c] = Idle /\ ~Wins(call[c], opening)
             /\ CallInv(call[c], disk, clock, notebooks, opening, removed)
  <2> DEFINE q == Idle
  <2>1. call[c] = q /\ q.pc = "idle" /\ q.res = "none"
    BY <1>1, <1>2, Idles
  <2> HIDE DEF q
  <2>2. QED
    BY <2>1 DEF Wins, CallInv, Busy, q
<1>9. CallsSound /\ OneOpener /\ OneWinner
  BY <1>1, <1>8, Idles DEF CallsSound, OneOpener, OneWinner
<1>10. QED
  BY <1>6, <1>7, <1>9 DEF OpeningsInv

LEMMA OpeningsInvNext == OpeningsInv /\ [Next]_vars => OpeningsInv'
<1> SUFFICES ASSUME OpeningsInv, [Next]_vars  PROVE OpeningsInv'
  OBVIOUS
<1>1. DOMAIN notebooks = 1..Len(notebooks)
  BY DEF OpeningsInv, Types
<1>2. CASE \E c \in Calls : \/ \E kind \in {"open", "create"}, p \in Paths : Call(c, kind, p)
                            \/ Step(c) \/ Abort(c)
  BY <1>2, CallStep, ObserveStep, LookStep, WalkStep, AnswerStep, AbortStep DEF Step
<1>3. CASE \E t \in Targets : \/ Progress(t) \/ OpeningLost(t) \/ Drift(t)
                              \/ ExternalWrite(t) \/ ExternalUnlink(t)
  BY <1>3, CreateFileStep, ConfirmStep, PublishStep, OpeningLostStep, DriftStep,
     ExternalWriteStep, ExternalUnlinkStep DEF Progress
<1>4. CASE \E n \in DOMAIN notebooks : Follow(n) \/ Accept(n)
  BY <1>1, <1>4, FollowStep, AcceptStep
<1>5. CASE Restart
  BY <1>5, RestartStep
<1>6. CASE UNCHANGED vars
  <2>1. /\ UNCHANGED <<disk, clock, notebooks, owners, opening, adrift>>
        /\ UNCHANGED <<removed, call, restarts>>
    BY <1>6 DEF vars
  <2>2. Evolves
    BY <2>1, NoMove
  <2>3. QED
    BY <2>1, <2>2, SameOwners, FilesMove DEF OpeningsInv, Types, World
<1>7. QED
  BY <1>2, <1>3, <1>4, <1>5, <1>6 DEF Next

LEMMA OpeningsInvariant == Spec => []OpeningsInv
BY OpeningsInvInit, OpeningsInvNext, PTL DEF Spec

(* While nobody removes the file, at most one create of it succeeds,       *)
(* across aliases, joined openings and restarts, for any number of calls,  *)
(* files and notebooks that are open already, replies of the file system   *)
(* prompt or not (createNew's absent-only write, openPrepared).            *)
THEOREM CreationIsWonOnce == Spec => []CreateWinsOnce
<1>1. OpeningsInv => CreateWinsOnce
  <2> SUFFICES ASSUME OpeningsInv  PROVE CreateWinsOnce
    OBVIOUS
  <2>1. Types
    BY DEF OpeningsInv
  <2>2. \A c \in Calls : call[c].res = "ok" => call[c].nb # 0
    BY DEF OpeningsInv, CallsSound, CallInv
  <2>3. TypeOK
    BY <2>1, <2>2 DEF Types, TypeOK, CallRecord, NotebookRecord, OpeningRecord, Pcs, Results
  <2>4. ASSUME NEW c \in Calls, NEW d \in Calls,
               call[c].kind = "create" /\ call[c].res = "ok",
               call[d].kind = "create" /\ call[d].res = "ok",
               Target(c) = Target(d), Target(d) \notin removed
        PROVE  c = d
    BY <2>4 DEF OpeningsInv, OneWinner, Wins
  <2>5. QED
    BY <2>3, <2>4 DEF CreateWinsOnce
<1>2. QED
  BY <1>1, OpeningsInvariant, PTL

-----------------------------------------------------------------------------
(* One notebook for one file.  Every path names the same file: with other  *)
(* files open a call may walk over the notebooks while an opening it       *)
(* cannot see ends.                                                        *)

OneFile == \A p, q \in Paths : TargetOf[p] = TargetOf[q]

(* An opening that will add a notebook is the first, or the file was       *)
(* removed.                                                                *)
FirstNotebook ==
    /\ \A t \in Targets : Created(opening[t]) /\ t \notin removed => notebooks = <<>>
    /\ OneNotebookPerTarget

LEMMA NoNewNotebook ==
    ASSUME Types, FirstNotebook, removed \subseteq removed',
           \A t \in Targets : Created(opening'[t]) /\ t \notin removed'
                              => Created(opening[t]) \/ notebooks = <<>>,
           notebooks' \in Seq(NotebookRecord), Len(notebooks') = Len(notebooks),
           \A n \in 1..Len(notebooks) : notebooks'[n].path = notebooks[n].path
    PROVE  FirstNotebook'
<1>1. notebooks \in Seq(NotebookRecord)
  BY DEF Types
<1>2. notebooks = <<>> => notebooks' = <<>>
  BY <1>1
<1>3. DOMAIN notebooks = 1..Len(notebooks) /\ DOMAIN notebooks' = 1..Len(notebooks)
  BY <1>1
<1>4. \A t \in Targets : Created(opening'[t]) /\ t \notin removed' => notebooks' = <<>>
  BY <1>2 DEF FirstNotebook
<1>5. OneNotebookPerTarget'
  BY <1>3 DEF FirstNotebook, OneNotebookPerTarget, Holder
<1>6. QED
  BY <1>4, <1>5 DEF FirstNotebook

(* A file that no notebook stands for, or that was removed. *)
LEMMA NoNotebook ==
    ASSUME OneFile, OpeningsInv, NEW p \in Paths, disk[TargetOf[p]] = 0,
           TargetOf[p] \notin removed
    PROVE  notebooks = <<>>
<1>1. notebooks \in Seq(NotebookRecord)
  BY DEF OpeningsInv, Types
<1>2. ASSUME notebooks # <<>>  PROVE FALSE
  <2>1. 1 \in 1..Len(notebooks)
    BY <1>1, <1>2
  <2>2. There(Holder(1), disk, removed) /\ notebooks[1].path \in Paths
    BY <2>1, Holders DEF OpeningsInv, World
  <2>3. Holder(1) = TargetOf[p]
    BY <2>2 DEF OneFile, Holder
  <2>4. QED
    BY <2>2, <2>3 DEF There
<1>3. QED
  BY <1>2

LEMMA CallsAddNoNotebook ==
    ASSUME OneFile, OpeningsInv, FirstNotebook, NEW c \in Calls,
           \/ \E kind \in {"open", "create"}, p \in Paths : Call(c, kind, p)
           \/ Step(c) \/ Abort(c)
    PROVE  FirstNotebook'
<1>1. Types /\ notebooks \in Seq(NotebookRecord)
  BY DEF OpeningsInv, Types
<1>2. notebooks' = notebooks /\ removed' = removed
  BY DEF Call, Step, Observe, Look, Walk, Answer, Abort
<1>3. \A t \in Targets : Created(opening'[t]) => Created(opening[t]) \/ notebooks = <<>>
  <2>1. CASE opening' = opening
    BY <2>1
  <2>2. CASE opening' # opening
    <3>1. \/ JoinOrStart(c) /\ (call[c].kind = "open" => NoneToResolve)
          \/ Walk(c)
      BY <2>2, Zenon DEF Call, Step, Observe, Look, Walk, Answer, Abort
    <3>2. JoinOrStart(c) /\ (call[c].kind = "open" => notebooks = <<>>)
      <4>1. CASE Walk(c)
        <5>1. CallInv(call[c], disk, clock, notebooks, opening, removed)
          BY DEF OpeningsInv, CallsSound
        <5>2. call[c].next \in 1..call[c].last /\ call[c].last \in 0..Len(notebooks)
          BY <1>1, <4>1, <5>1, Records DEF Walk, CallInv, CallRecord
        <5>3. call[c].next \in 1..Len(notebooks)
          BY <1>1, <5>2
        <5>4. Holder(call[c].next) = Target(c)
          BY <1>1, <5>3, Holders, Records DEF OneFile, Holder, Target
        <5>5. opening' = opening
          BY <4>1, <5>4, Zenon DEF Walk
        <5>6. QED
          BY <2>2, <5>5
      <4>2. CASE JoinOrStart(c) /\ (call[c].kind = "open" => NoneToResolve)
        BY <4>2 DEF NoneToResolve
      <4>3. QED
        BY <3>1, <4>1, <4>2
    <3>3. CASE notebooks = <<>>
      BY <3>3
    <3>4. CASE notebooks # <<>>
      <4> DEFINE o == [pc |-> IF call[c].kind = "open" THEN "confirming" ELSE "creating",
                       path |-> call[c].path, ver |-> call[c].seen]
      <4>1. o.pc = "creating"
        BY <3>2, <3>4
      <4>2. opening' = [opening EXCEPT ![Target(c)] = o]
        BY <2>2, <3>2 DEF JoinOrStart
      <4> HIDE DEF o
      <4>3. opening \in [Targets -> OpeningRecord] /\ Target(c) \in Targets
        BY <1>1, Records DEF Types
      <4>4. ASSUME NEW t \in Targets, Created(opening'[t])  PROVE Created(opening[t])
        BY <4>1, <4>2, <4>3, <4>4 DEF Created
      <4>5. QED
        BY <4>4
    <3>5. QED
      BY <3>3, <3>4
  <2>3. QED
    BY <2>1, <2>2
<1>4. QED
  BY <1>1, <1>2, <1>3, NoNewNotebook

LEMMA PublishesFirst ==
    ASSUME OneFile, OpeningsInv, FirstNotebook, NEW t \in Targets, Publish(t)
    PROVE  FirstNotebook'
<1> DEFINE e == [path |-> opening[t].path, ver |-> opening[t].ver]
           m == Len(notebooks)
<1>1. Types /\ notebooks \in Seq(NotebookRecord) /\ m \in Nat
  BY DEF OpeningsInv, Types
<1>2. /\ opening[t].pc = "confirmed" /\ opening[t] \in OpeningRecord
      /\ TargetOf[opening[t].path] = t /\ opening[t].ver # 0
  BY <1>1 DEF Publish, Types, OpeningsInv, World, OpeningInv, Created
<1>3. e \in NotebookRecord /\ e.path \in Paths /\ TargetOf[e.path] = t
  BY <1>2 DEF OpeningRecord, NotebookRecord
<1>4. /\ notebooks' = Append(notebooks, e) /\ removed' = removed
      /\ opening' = [opening EXCEPT ![t] = NoOpening]
  BY DEF Publish, Succeed
<1> HIDE DEF e, m
<1>5. \A p \in Paths : TargetOf[p] = t
  BY <1>3 DEF OneFile
<1>6. ASSUME NEW u \in Targets  PROVE ~Created(opening'[u])
  <2>1. opening \in [Targets -> OpeningRecord]
    BY <1>1 DEF Types
  <2>2. CASE u = t
    BY <1>4, <2>1, <2>2, NoOpenings DEF Created
  <2>3. CASE u # t
    <3>1. opening[u] \in OpeningRecord /\ (opening[u].pc # "none" => TargetOf[opening[u].path] = u)
      BY <2>1 DEF OpeningsInv, World, OpeningInv
    <3>2. opening[u].pc = "none"
      BY <1>5, <2>3, <3>1 DEF OpeningRecord
    <3>3. QED
      BY <1>4, <2>1, <2>3, <3>2 DEF Created
  <2>4. QED
    BY <2>2, <2>3
<1>7. OneNotebookPerTarget'
  <2>1. CASE t \in removed
    <3>1. notebooks' \in Seq(NotebookRecord)
      BY <1>1, <1>3, <1>4
    <3>2. ASSUME NEW n \in DOMAIN notebooks'  PROVE TargetOf[notebooks'[n].path] = t
      <4>1. notebooks'[n] \in NotebookRecord
        BY <3>1
      <4>2. notebooks'[n].path \in Paths
        BY <4>1 DEF NotebookRecord
      <4>3. QED
        BY <1>5, <4>2
    <3>3. QED
      BY <1>4, <2>1, <3>2 DEF OneNotebookPerTarget, Holder
  <2>2. CASE t \notin removed
    <3>1. notebooks = <<>>
      BY <1>2, <2>2 DEF FirstNotebook, Created
    <3>2. DOMAIN notebooks' = 1..1
      BY <1>3, <1>4, <3>1
    <3>3. QED
      BY <3>2 DEF OneNotebookPerTarget
  <2>3. QED
    BY <2>1, <2>2
<1>8. QED
  BY <1>6, <1>7 DEF FirstNotebook

LEMMA OtherStepsAddNoNotebook ==
    ASSUME OneFile, OpeningsInv, FirstNotebook, OpeningsInv',
           \/ \E t \in Targets : \/ CreateFile(t) \/ Confirm(t) \/ OpeningLost(t) \/ Drift(t)
                                 \/ ExternalWrite(t) \/ ExternalUnlink(t)
           \/ \E n \in DOMAIN notebooks : Follow(n) \/ Accept(n)
           \/ Restart \/ UNCHANGED vars
    PROVE  FirstNotebook'
<1>1. /\ Types /\ notebooks \in Seq(NotebookRecord) /\ notebooks' \in Seq(NotebookRecord)
      /\ DOMAIN notebooks = 1..Len(notebooks) /\ opening \in [Targets -> OpeningRecord]
  BY DEF OpeningsInv, Types
<1>2. removed \subseteq removed'
  BY DEF CreateFile, Confirm, OpeningLost, Drift, ExternalWrite, ExternalUnlink, Follow, Accept,
         Restart, vars
<1>3. /\ Len(notebooks') = Len(notebooks)
      /\ \A n \in 1..Len(notebooks) : notebooks'[n].path = notebooks[n].path
  <2>1. CASE notebooks' = notebooks
    BY <2>1
  <2>2. CASE notebooks' # notebooks
    <3>1. PICK n \in 1..Len(notebooks) : Follow(n) \/ Accept(n)
      BY <1>1, <2>2 DEF CreateFile, Confirm, OpeningLost, Drift, ExternalWrite, ExternalUnlink,
                        Restart, vars
    <3>2. CASE Follow(n)
      <4> DEFINE v == clock + 1
      <4>1. v \in Nat \ {0} /\ notebooks' = [notebooks EXCEPT ![n].ver = v]
        BY <1>1, <3>2 DEF Follow, Types
      <4> HIDE DEF v
      <4>2. QED
        BY <1>1, <4>1, VersionSet
    <3>3. CASE Accept(n)
      <4> DEFINE v == disk[Holder(n)]
      <4>1. v \in Nat \ {0} /\ notebooks' = [notebooks EXCEPT ![n].ver = v]
        BY <1>1, <3>3, Holders DEF Accept, Claimable, Types
      <4> HIDE DEF v
      <4>2. QED
        BY <1>1, <4>1, VersionSet
    <3>4. QED
      BY <3>1, <3>2, <3>3
  <2>3. QED
    BY <2>1, <2>2
<1>4. ASSUME NEW t \in Targets, OpeningFails(t, "exists") \/ OpeningFails(t, "conflict")
                                 \/ OpeningFails(t, "failed"),
             NEW u \in Targets, Created(opening'[u])
      PROVE  Created(opening[u])
  BY <1>1, <1>4, NoOpenings DEF OpeningFails, Released, Created
<1>5. ASSUME NEW u \in Targets, Created(opening'[u]), u \notin removed'
      PROVE  Created(opening[u]) \/ notebooks = <<>>
  <2>1. CASE opening' = opening
    BY <1>5, <2>1
  <2>2. CASE opening' # opening /\ Restart
    BY <1>5, <2>2, NoOpenings DEF Restart, Created
  <2>3. ASSUME NEW t \in Targets, CreateFile(t)
        PROVE  Created(opening[u]) \/ notebooks = <<>>
    <3>1. CASE OpeningFails(t, "exists")
      BY <1>4, <1>5, <3>1
    <3>2. CASE /\ MayCreate(t) /\ Write(t)
               /\ opening' = [opening EXCEPT ![t] = [@ EXCEPT !.pc = "confirming", !.ver = clock + 1]]
      <4>1. CASE u # t
        BY <1>1, <1>5, <3>2, <4>1 DEF Created
      <4>2. CASE u = t
        <5>1. opening[t].path \in Paths /\ TargetOf[opening[t].path] = t
          BY <1>1, <2>3 DEF CreateFile, OpeningsInv, World, OpeningInv, OpeningRecord
        <5>2. disk[t] = 0 /\ t \notin removed
          BY <1>2, <1>5, <3>2, <4>2 DEF MayCreate
        <5>3. QED
          BY <5>1, <5>2, NoNotebook
      <4>3. QED
        BY <4>1, <4>2
    <3>3. QED
      BY <2>3, <3>1, <3>2 DEF CreateFile
  <2>4. ASSUME NEW t \in Targets, Confirm(t)
        PROVE  Created(opening[u]) \/ notebooks = <<>>
    <3>1. CASE OpeningFails(t, "conflict")
      BY <1>4, <1>5, <3>1
    <3>2. CASE opening' = [opening EXCEPT ![t].pc = "confirmed"]
      BY <1>1, <1>5, <2>4, <3>2 DEF Created, Confirm
    <3>3. QED
      BY <2>4, <3>1, <3>2 DEF Confirm
  <2>5. ASSUME NEW t \in Targets, OpeningLost(t)
        PROVE  Created(opening[u]) \/ notebooks = <<>>
    BY <1>4, <1>5, <2>5 DEF OpeningLost
  <2>6. QED
    BY <2>1, <2>2, <2>3, <2>4, <2>5 DEF Drift, ExternalWrite, ExternalUnlink, Follow, Accept, vars
<1>6. QED
  BY <1>1, <1>2, <1>3, <1>5, NoNewNotebook

(* Aliases coalesce: however many paths the file has, calls, joined        *)
(* openings, replies that are late and restarts never leave two notebooks  *)
(* for it while nobody removes it (findCanonicalOwner, openPrepared), as   *)
(* long as the session opens no other file.                                *)
THEOREM AliasesCoalesce ==
    ASSUME OneFile
    PROVE  Spec => []OneNotebookPerTarget
<1>1. Init => FirstNotebook
  <2> SUFFICES ASSUME Init  PROVE FirstNotebook
    OBVIOUS
  <2>1. \A t \in Targets : ~Created(opening[t])
    BY NoOpenings DEF Init, Created
  <2>2. DOMAIN notebooks = DOMAIN OpenPaths
    BY DEF Init
  <2>3. \A i \in DOMAIN OpenPaths : Holder(i) = TargetOf[OpenPaths[i]]
    BY DEF Init, Holder
  <2>4. OneNotebookPerTarget
    BY <2>2, <2>3, OpeningsAssumption DEF OneNotebookPerTarget
  <2>5. QED
    BY <2>1, <2>4 DEF FirstNotebook
<1>2. OpeningsInv /\ OpeningsInv' /\ FirstNotebook /\ [Next]_vars => FirstNotebook'
  <2> SUFFICES ASSUME OpeningsInv, OpeningsInv', FirstNotebook, [Next]_vars
               PROVE  FirstNotebook'
    OBVIOUS
  <2>1. CASE \E c \in Calls : \/ \E kind \in {"open", "create"}, p \in Paths : Call(c, kind, p)
                              \/ Step(c) \/ Abort(c)
    BY <2>1, CallsAddNoNotebook
  <2>2. CASE \E t \in Targets : Publish(t)
    BY <2>2, PublishesFirst
  <2>3. CASE \/ \E t \in Targets : \/ CreateFile(t) \/ Confirm(t) \/ OpeningLost(t) \/ Drift(t)
                                   \/ ExternalWrite(t) \/ ExternalUnlink(t)
             \/ \E n \in DOMAIN notebooks : Follow(n) \/ Accept(n)
             \/ Restart \/ UNCHANGED vars
    BY <2>3, OtherStepsAddNoNotebook
  <2>4. QED
    BY <2>1, <2>2, <2>3, Zenon DEF Next, Progress
<1>3. FirstNotebook => OneNotebookPerTarget
  BY DEF FirstNotebook
<1>4. QED
  BY <1>1, <1>2, <1>3, OpeningsInvariant, PTL DEF Spec

-----------------------------------------------------------------------------
(* Answers are fresh.  Only a refreshed owner or a publication answers "ok". *)

NotAnswered(c) == call'[c].res = "ok" => call[c].res = "ok"

LEMMA SettleAnswers ==
    ASSUME Types, NEW c \in Calls, NEW d \in Calls, NEW result \in Results \ {"ok"},
           Settle(d, result)
    PROVE  NotAnswered(c)
<1> DEFINE r == Settled(d, result, 0)
<1>1. r.res = result
  <2>1. Len(notebooks) \in Nat
    BY DEF Types
  <2>2. 0 \in 0..Len(notebooks)
    BY <2>1
  <2>3. QED
    BY <2>1, <2>2, SettledFields
<1>2. call' = [call EXCEPT ![d] = r] /\ call \in [Calls -> CallRecord(Len(notebooks))]
  BY DEF Settle, Types
<1> HIDE DEF r
<1>3. call'[c] = IF c = d THEN r ELSE call[c]
  BY <1>2
<1>4. QED
  BY <1>1, <1>3 DEF NotAnswered

LEMMA FailsAnswers ==
    ASSUME Types, NEW c \in Calls, NEW t \in Targets, NEW result \in Results \ {"ok"},
           OpeningFails(t, result)
    PROVE  NotAnswered(c)
<1>1. Settled(c, result, 0).res = result
  <2>1. Len(notebooks) \in Nat
    BY DEF Types
  <2>2. 0 \in 0..Len(notebooks)
    BY <2>1
  <2>3. QED
    BY <2>1, <2>2, SettledFields
<1>2. call'[c] = Settled(c, result, 0) \/ call'[c] = call[c]
  BY DEF OpeningFails
<1>3. QED
  BY <1>1, <1>2 DEF NotAnswered

(* A step that only moves a call along. *)
LEMMA JoinAnswers ==
    ASSUME Types, NEW c \in Calls, NEW d \in Calls, JoinOrStart(d)
    PROVE  NotAnswered(c)
<1> DEFINE p == IF opening[Target(d)].pc # "none" THEN "joined" ELSE "opener"
<1>1. call' = [call EXCEPT ![d].pc = p]
  BY DEF JoinOrStart
<1> HIDE DEF p
<1>2. QED
  BY <1>1 DEF Types, CallRecord, NotAnswered

LEMMA AdoptAnswers ==
    ASSUME Types, NEW c \in Calls, NEW d \in Calls, NEW n, Adopt(d, n)
    PROVE  NotAnswered(c)
<1>1. CASE Settle(d, "conflict")
  BY <1>1, SettleAnswers DEF Results
<1>2. CASE call' = [call EXCEPT ![d] = [@ EXCEPT !.pc = "refreshing", !.nb = n, !.seen = 0]]
  BY <1>2 DEF Types, CallRecord, NotAnswered
<1>3. QED
  BY <1>1, <1>2 DEF Adopt

LEMMA CallsAnswer ==
    ASSUME OpeningsInv, NEW c \in Calls, NEW d \in Calls,
           \/ \E kind \in {"open", "create"}, p \in Paths : Call(d, kind, p)
           \/ Observe(d) \/ Look(d) \/ Walk(d) \/ Abort(d)
    PROVE  NotAnswered(c)
<1>1. Types /\ call \in [Calls -> CallRecord(Len(notebooks))]
  BY DEF OpeningsInv, Types
<1>2. ASSUME NEW kind \in {"open", "create"}, NEW p \in Paths, Call(d, kind, p)
      PROVE  NotAnswered(c)
  <2> DEFINE i == Idle
             s == disk[TargetOf[p]]
             r == [i EXCEPT !.pc = "asked", !.kind = kind, !.path = p, !.since = s]
  <2>1. i \in CallRecord(0) /\ i.res = "none"
    BY Idles
  <2>2. call' = [call EXCEPT ![d] = r]
    BY <1>2 DEF Call
  <2> HIDE DEF i, s
  <2>3. r.res = "none"
    BY <2>1 DEF CallRecord
  <2> HIDE DEF r
  <2>4. call'[c] = IF c = d THEN r ELSE call[c]
    BY <1>1, <2>2
  <2>5. QED
    BY <2>3, <2>4 DEF NotAnswered
<1>3. CASE Observe(d)
  <2> DEFINE p == IF call[d].pc = "asked" THEN "observed" ELSE "refreshed"
             s == disk[Target(d)]
  <2>1. call' = [call EXCEPT ![d] = [@ EXCEPT !.pc = p, !.seen = s]]
    BY <1>3 DEF Observe
  <2> HIDE DEF p, s
  <2>2. QED
    BY <1>1, <2>1 DEF CallRecord, NotAnswered
<1>4. CASE Look(d)
  <2>1. \/ Settle(d, "missing") \/ Settle(d, "exists") \/ Adopt(d, owners[Target(d)])
        \/ call' = [call EXCEPT ![d] = [@ EXCEPT !.pc = "walking", !.next = 1, !.last = Len(notebooks)]]
        \/ JoinOrStart(d)
    BY <1>4, Zenon DEF Look
  <2>2. CASE call' = [call EXCEPT ![d] = [@ EXCEPT !.pc = "walking", !.next = 1, !.last = Len(notebooks)]]
    BY <1>1, <2>2 DEF CallRecord, NotAnswered
  <2>3. QED
    BY <1>1, <2>1, <2>2, SettleAnswers, AdoptAnswers, JoinAnswers DEF Results
<1>5. CASE Walk(d)
  <2> DEFINE n == call[d].next
  <2>1. \/ Adopt(d, n) \/ call' = [call EXCEPT ![d].next = n + 1] \/ JoinOrStart(d)
    BY <1>5, Zenon DEF Walk
  <2> HIDE DEF n
  <2>2. CASE call' = [call EXCEPT ![d].next = n + 1]
    BY <1>1, <2>2 DEF CallRecord, NotAnswered
  <2>3. QED
    BY <1>1, <2>1, <2>2, AdoptAnswers, JoinAnswers
<1>6. CASE Abort(d)
  BY <1>1, <1>6, SettleAnswers DEF Abort, Results
<1>7. QED
  BY <1>2, <1>3, <1>4, <1>5, <1>6

LEMMA OtherStepsAnswer ==
    ASSUME OpeningsInv, NEW c \in Calls,
           \/ \E t \in Targets : \/ CreateFile(t) \/ Confirm(t) \/ OpeningLost(t) \/ Drift(t)
                                 \/ ExternalWrite(t) \/ ExternalUnlink(t)
           \/ \E n \in DOMAIN notebooks : Follow(n) \/ Accept(n)
           \/ Restart
    PROVE  NotAnswered(c)
<1>1. Types
  BY DEF OpeningsInv
<1>2. CASE call' = call
  BY <1>2 DEF NotAnswered
<1>3. CASE \E t \in Targets : OpeningFails(t, "exists") \/ OpeningFails(t, "conflict")
                              \/ OpeningFails(t, "failed")
  BY <1>1, <1>3, FailsAnswers DEF Results
<1>4. CASE Restart
  <2>1. Settled(c, "unavailable", 0).res = "unavailable"
    <3>1. Len(notebooks) \in Nat
      BY <1>1 DEF Types
    <3>2. 0 \in 0..Len(notebooks)
      BY <3>1
    <3>3. QED
      BY <1>1, <3>1, <3>2, SettledFields DEF Results
  <2>2. call'[c] = Settled(c, "unavailable", 0) \/ call'[c] = call[c]
    BY <1>4 DEF Restart
  <2>3. QED
    BY <2>1, <2>2 DEF NotAnswered
<1>5. QED
  BY <1>2, <1>3, <1>4 DEF CreateFile, Confirm, OpeningLost, Drift, ExternalWrite,
                          ExternalUnlink, Follow, Accept

IsFresh(c) ==
    LET nb == notebooks'[call'[c].nb]
    IN  TargetOf[nb.path] = Target(c) /\ nb.ver >= call[c].since

(* The owner was read during the call, and shows what was read. *)
LEMMA RefreshedIsFresh ==
    ASSUME OpeningsInv, NEW c \in Calls, NEW d \in Calls, Answer(d),
           call[c].res # "ok", call'[c].res = "ok"
    PROVE  IsFresh(c)
<1> DEFINE n == call[d].nb
           r == Settled(d, "ok", n)
<1>1. Types /\ CallInv(call[d], disk, clock, notebooks, opening, removed)
  BY DEF OpeningsInv, CallsSound
<1>2. /\ call[d] \in CallRecord(Len(notebooks)) /\ Len(notebooks) \in Nat
      /\ call[d].pc = "refreshed" /\ notebooks' = notebooks
  BY <1>1, Records DEF Answer
<1>3. n # 0 /\ n \in 0..Len(notebooks) /\ TargetOf[notebooks[n].path] = Target(d)
  BY <1>1, <1>2 DEF CallInv, CallRecord, Target
<1>4. n \in 1..Len(notebooks) /\ n \in Nat
  BY <1>2, <1>3
<1>5. notebooks[n].ver \in Nat \ {0}
  BY <1>1, <1>4, Holders
<1>6. CASE Settle(d, "conflict")
  BY <1>1, <1>6, SettleAnswers DEF Results, NotAnswered
<1>7. CASE Adoptable(d, n) /\ call' = [call EXCEPT ![d] = r]
  <2>1. r.nb = n
    BY <1>1, <1>2, <1>3, SettledFields DEF Results
  <2>2. call[d].seen = notebooks[n].ver
    BY <1>7 DEF Adoptable
  <2>3. call[d].since =< call[d].seen
    BY <1>1, <1>2, <1>5, <2>2 DEF CallInv
  <2>4. call'[c] = IF c = d THEN r ELSE call[c]
    BY <1>1, <1>7 DEF Types
  <2> HIDE DEF r, n
  <2>5. c = d /\ call'[c].nb = n
    BY <2>1, <2>4
  <2>6. call[d].since \in Nat
    BY <1>1, Records
  <2>7. QED
    BY <1>2, <1>3, <1>5, <2>2, <2>3, <2>5, <2>6 DEF IsFresh
<1>8. QED
  BY <1>6, <1>7 DEF Answer

(* With prompt replies a call that waits for a publication was made before *)
(* the version that is published was confirmed, or finds it in the file.   *)
LEMMA PublishedIsFresh ==
    ASSUME OpeningsInv, PromptReplies, NEW c \in Calls, NEW t \in Targets, Publish(t),
           call[c].res # "ok", call'[c].res = "ok"
    PROVE  IsFresh(c)
<1> DEFINE n == Len(notebooks) + 1
           e == [path |-> opening[t].path, ver |-> opening[t].ver]
<1>1. Types /\ CallInv(call[c], disk, clock, notebooks, opening, removed)
  BY DEF OpeningsInv, CallsSound
<1>2. /\ opening[t].pc = "confirmed" /\ opening[t] \in OpeningRecord
      /\ TargetOf[opening[t].path] = t /\ opening[t].ver \in Nat \ {0}
  BY <1>1 DEF Publish, Types, OpeningsInv, World, OpeningInv, Created, OpeningRecord
<1>3. e \in NotebookRecord /\ TargetOf[e.path] = t /\ e.ver = opening[t].ver
  BY <1>2 DEF OpeningRecord, NotebookRecord
<1>4. /\ notebooks' = Append(notebooks, e)
      /\ call'[c] = IF c \in Waiters(t) THEN AnswerOf(c, n) ELSE call[c]
  BY DEF Publish, Succeed
<1>5. n \in Nat /\ notebooks \in Seq(NotebookRecord) /\ 0 \in 0..n /\ n \in 0..n
  BY <1>1 DEF Types
<1> HIDE DEF e
<1>6. notebooks'[n] = e
  BY <1>3, <1>4, <1>5
<1> HIDE DEF n
<1>7. c \in Waiters(t) /\ call'[c] = AnswerOf(c, n)
  BY <1>4
<1>8. Settled(c, "exists", 0).res = "exists" /\ Settled(c, "ok", n).nb = n
  BY <1>1, <1>5, SettledFields DEF Results
<1>9. call'[c].nb = n
  BY <1>7, <1>8 DEF AnswerOf
<1>10. Target(c) = t /\ call[c].pc \in {"joined", "opener"}
  BY <1>7 DEF Waiters
<1>11. call[c].since =< opening[t].ver /\ call[c].since \in Nat
  BY <1>1, <1>2, <1>10, Records DEF CallInv, Target
<1>12. QED
  BY <1>2, <1>3, <1>6, <1>9, <1>10, <1>11 DEF IsFresh

(* A call of open that succeeds shows the file as it was during the call,  *)
(* or newer, also when an owner or an opening that was there before the    *)
(* call answers it (openNotebook, adoptOwner, openPrepared), while replies *)
(* of the file system are prompt.                                          *)
THEOREM OpenIsFresh ==
    ASSUME PromptReplies
    PROVE  Spec => OpenShowsFreshContent
<1> DEFINE Fresh == \A c \in Calls :
                        Asked(c) /\ call'[c].res = "ok" /\ call[c].kind = "open" => IsFresh(c)
<1>1. OpeningsInv /\ [Next]_vars => [Fresh]_vars
  <2> SUFFICES ASSUME OpeningsInv, Next, NEW c \in Calls, Asked(c), call'[c].res = "ok"
               PROVE  IsFresh(c)
    BY DEF Fresh
  <2>1. call[c].res # "ok"
    BY DEF OpeningsInv, CallsSound, CallInv, Asked
  <2>2. CASE \E d \in Calls : \/ \E kind \in {"open", "create"}, p \in Paths : Call(d, kind, p)
                              \/ Observe(d) \/ Look(d) \/ Walk(d) \/ Abort(d)
    BY <2>1, <2>2, CallsAnswer DEF NotAnswered
  <2>3. CASE \E d \in Calls : Answer(d)
    BY <2>1, <2>3, RefreshedIsFresh
  <2>4. CASE \E t \in Targets : Publish(t)
    BY <2>1, <2>4, PublishedIsFresh
  <2>5. CASE \/ \E t \in Targets : \/ CreateFile(t) \/ Confirm(t) \/ OpeningLost(t) \/ Drift(t)
                                   \/ ExternalWrite(t) \/ ExternalUnlink(t)
             \/ \E n \in DOMAIN notebooks : Follow(n) \/ Accept(n)
             \/ Restart
    BY <2>1, <2>5, OtherStepsAnswer DEF NotAnswered
  <2>6. QED
    BY <2>2, <2>3, <2>4, <2>5, Zenon DEF Next, Step, Progress
<1>2. [Fresh]_vars => [\A c \in Calls :
                          Asked(c) /\ call'[c].res = "ok" /\ call[c].kind = "open"
                          => LET nb == notebooks'[call'[c].nb]
                             IN  TargetOf[nb.path] = Target(c) /\ nb.ver >= call[c].since]_vars
  BY DEF IsFresh
<1> HIDE DEF Fresh
<1>3. QED
  BY <1>1, <1>2, OpeningsInvariant, PTL DEF Spec, OpenShowsFreshContent
=============================================================================
