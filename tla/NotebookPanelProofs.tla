------------------------- MODULE NotebookPanelProofs -------------------------
(***************************************************************************)
(* What the user types in the panel is kept, for any cells, sources, names *)
(* of the file, number of requests and faults.                             *)
(*                                                                         *)
(* A draft is dropped by the rendering of a document that has caught up    *)
(* with it, so that the invariant relates drafts, acknowledgements and     *)
(* what is shown: a draft is acknowledged only with the value it has, and  *)
(* what is shown already is safe.  A reload drops everything at once.      *)
(* Beside that, a request that is in flight is at one place only: on its   *)
(* way to the Host, at the kernel, or on its way back.  Without this the   *)
(* locks would not be released with the answer they belong to.             *)
(*                                                                         *)
(* That panel and Host agree in the end rests on the order of answers: the *)
(* last one that matters brings the Host's document.                       *)
(***************************************************************************)
EXTENDS NotebookPanel, TLAPS

-----------------------------------------------------------------------------
(* Sequences whose elements differ. *)

In(x, s) == \E i \in 1 .. Len(s) : s[i] = x
Distinct(s) == \A i, j \in 1 .. Len(s) : s[i] = s[j] => i = j

LEMMA Appended ==
    ASSUME NEW S, NEW s \in Seq(S), NEW e \in S
    PROVE  /\ Append(s, e) \in Seq(S)
           /\ \A x : In(x, Append(s, e)) => In(x, s) \/ x = e
           /\ Distinct(s) /\ ~In(e, s) => Distinct(Append(s, e))
<1> DEFINE t == Append(s, e)
<1>1. t \in Seq(S) /\ Len(t) = Len(s) + 1 /\ Len(s) \in Nat
  OBVIOUS
<1>2. /\ \A i \in 1 .. Len(s) : t[i] = s[i]
      /\ t[Len(s) + 1] = e
  OBVIOUS
<1> HIDE DEF t
<1>3. \A i \in 1 .. Len(t) : i \in 1 .. Len(s) \/ i = Len(s) + 1
  BY <1>1
<1>4. ASSUME NEW x, In(x, t)  PROVE In(x, s) \/ x = e
  BY <1>1, <1>2, <1>3, <1>4 DEF In
<1>5. ASSUME Distinct(s), ~In(e, s)  PROVE Distinct(t)
  BY <1>1, <1>2, <1>3, <1>5 DEF In, Distinct
<1>6. QED
  BY <1>1, <1>4, <1>5 DEF t

LEMMA Removed ==
    ASSUME NEW S, NEW s \in Seq(S), NEW i \in 1 .. Len(s)
    PROVE  /\ RemoveAt(s, i) \in Seq(S)
           /\ \A x : In(x, RemoveAt(s, i)) => In(x, s)
           /\ Distinct(s) => Distinct(RemoveAt(s, i)) /\ ~In(s[i], RemoveAt(s, i))
<1> DEFINE front == SubSeq(s, 1, i - 1)
           back == SubSeq(s, i + 1, Len(s))
           t == front \o back
<1>1. front \in Seq(S) /\ Len(front) = i - 1 /\ \A j \in 1 .. i - 1 : front[j] = s[j]
  OBVIOUS
<1>2. back \in Seq(S) /\ Len(back) = Len(s) - i /\ \A j \in 1 .. Len(s) - i : back[j] = s[j + i]
  OBVIOUS
<1>3. Len(s) \in Nat /\ i \in Nat /\ i >= 1 /\ i =< Len(s)
  OBVIOUS
<1> HIDE DEF front, back
<1>4. t \in Seq(S) /\ Len(t) = Len(s) - 1
  <2>1. front \in Seq(S) /\ back \in Seq(S)
    BY <1>1, <1>2
  <2>2. front \o back \in Seq(S)
    BY <2>1
  <2>3. Len(front \o back) = Len(front) + Len(back)
    BY <2>1
  <2>4. QED
    BY <1>1, <1>2, <1>3, <2>2, <2>3
<1>5. ASSUME NEW j \in 1 .. Len(t)
      PROVE  t[j] = IF j < i THEN s[j] ELSE s[j + 1]
  <2>1. j \in 1 .. Len(front) + Len(back)
    BY <1>1, <1>2, <1>3, <1>4
  <2>2. t[j] = IF j =< Len(front) THEN front[j] ELSE back[j - Len(front)]
    BY <1>1, <1>2, <2>1
  <2>3. CASE j < i
    BY <1>1, <1>3, <2>2, <2>3
  <2>4. CASE ~(j < i)
    <3>1. j - (i - 1) \in 1 .. Len(s) - i /\ j - (i - 1) + i = j + 1
      BY <1>3, <1>4, <2>4
    <3>2. t[j] = back[j - (i - 1)]
      BY <1>1, <1>3, <2>2, <2>4
    <3>3. t[j] = s[j + 1]
      BY <1>2, <3>1, <3>2
    <3>4. QED
      BY <2>4, <3>3
  <2>5. QED
    BY <2>3, <2>4
<1> HIDE DEF t
<1>6. PICK k \in [1 .. Len(t) -> Int] : k = [j \in 1 .. Len(t) |-> IF j < i THEN j ELSE j + 1]
  <2>1. [j \in 1 .. Len(t) |-> IF j < i THEN j ELSE j + 1] \in [1 .. Len(t) -> Int]
    OBVIOUS
  <2>2. QED
    BY <2>1
<1>7. ASSUME NEW j \in 1 .. Len(t)
      PROVE  k[j] \in 1 .. Len(s) /\ k[j] # i /\ t[j] = s[k[j]]
  BY <1>3, <1>4, <1>5, <1>6
<1>8. \A x : In(x, t) => In(x, s)
  BY <1>7 DEF In
<1>9. ASSUME Distinct(s)  PROVE Distinct(t) /\ ~In(s[i], t)
  <2>1. ~In(s[i], t)
    BY <1>7, <1>9 DEF In, Distinct
  <2>2. ASSUME NEW j \in 1 .. Len(t), NEW l \in 1 .. Len(t), t[j] = t[l]  PROVE j = l
    <3>1. /\ k[j] \in 1 .. Len(s) /\ t[j] = s[k[j]]
          /\ k[l] \in 1 .. Len(s) /\ t[l] = s[k[l]]
      BY <1>7
    <3>2. s[k[j]] = s[k[l]]
      BY <2>2, <3>1
    <3>3. k[j] = k[l]
      BY <1>9, <3>1, <3>2 DEF Distinct
    <3>4. QED
      BY <1>3, <1>4, <1>6, <3>3
  <2>3. QED
    BY <2>1, <2>2 DEF Distinct
<1>10. RemoveAt(s, i) = t
  BY DEF RemoveAt, t, front, back
<1>11. QED
  BY <1>4, <1>8, <1>9, <1>10

-----------------------------------------------------------------------------
(* Types.  A request has the cell or the name its kind calls for. *)

Texts == Sources \cup {None}
Requests ==
    {r \in Request :
        /\ r.kind \in {"edit", "run"} => r.cell \in Cells /\ r.arg \in Texts
        /\ r.kind \in {"delete", "move", "copy"} => r.cell \in Cells
        /\ r.kind \in {"open", "create"} => r.arg \in Paths}
Drafts == [value : Texts, saved : Texts]
Keys == {KeyOf(r) : r \in Requests}
WaitingRecord == [cell : Cells, arg : Texts, all : BOOLEAN]
AllRecord == [left : SUBSET Cells, sources : [Cells -> Texts]]
PaneRecord ==
    [shown : Doc, drafts : [Cells -> Drafts], calls : SUBSET Requests, busy : SUBSET Keys,
     out : Seq(Requests), pending : Paths \cup {None}, waiting : SUBSET WaitingRecord,
     all : AllRecord \cup {None}, owns : BOOLEAN, dropped : BOOLEAN]
RunRecord == [request : Requests, base : Nat \cup {None}]
HostRecord ==
    [path : Paths \cup {None}, rev : Nat, exists : BOOLEAN,
     outside : [Cells -> Texts] \cup {None}, src : [Cells -> Texts],
     run : RunRecord \cup {None}, cut : BOOLEAN]
AnswerRecord ==
    [request : Requests, ok : BOOLEAN, ended : {"ok", "error", "cancelled"}, doc : Doc]

(* A draft that was acknowledged still has the value that was saved.       *)
DraftSound(d) == /\ d = NoDraft \/ d.value \in Sources
                 /\ d.saved \in {None, d.value}

PaneSound(p) ==
    /\ p \in PaneRecord
    /\ \A c \in Cells : DraftSound(p.drafts[c])
    /\ \A r, q \in p.calls : LockOf(r) = LockOf(q) => r = q
    /\ p.busy \subseteq {KeyOf(r) : r \in p.calls}
    /\ \A x : In(x, p.out) => x \in p.calls
    /\ Distinct(p.out)

(* q has what p has, and requests beside that which p has not. *)
Grows(p, q) ==
    /\ q.shown = p.shown /\ q.drafts = p.drafts
    /\ p.calls \subseteq q.calls
    /\ \A x \in p.calls : In(x, q.out) => In(x, p.out)

Still(p, q) ==
    /\ q \in PaneRecord
    /\ q.shown = p.shown /\ q.drafts = p.drafts
    /\ q.calls = p.calls /\ q.busy = p.busy /\ q.out = p.out

LEMMA StillSound ==
    ASSUME NEW p, NEW q, PaneSound(p), Still(p, q)
    PROVE  PaneSound(q) /\ Grows(p, q)
BY DEF PaneSound, Still, Grows

LEMMA GrowsFurther ==
    ASSUME NEW p, NEW q, NEW s, Grows(p, q), Grows(q, s)
    PROVE  Grows(p, s)
BY DEF Grows

LEMMA RequestFields ==
    ASSUME NEW r \in Requests
    PROVE  r \in Request /\ r.kind \in Kinds /\ r.cell \in Cells \cup {None}
BY DEF Requests, Request

-----------------------------------------------------------------------------
(* What the panel does to itself. *)

LEMMA Submitted ==
    ASSUME NEW p, PaneSound(p), NEW r \in Requests
    PROVE  PaneSound(Submit(p, r)) /\ Grows(p, Submit(p, r))
<1> DEFINE q == [p EXCEPT !.calls = @ \cup {r}, !.busy = @ \cup {KeyOf(r)}, !.out = Append(@, r)]
<1>1. CASE Locked(p, LockOf(r))
  BY <1>1 DEF Submit, Grows
<1>2. CASE ~Locked(p, LockOf(r))
  <2>1. r \notin p.calls /\ \A x \in p.calls : LockOf(x) # LockOf(r)
    BY <1>2 DEF Locked
  <2>2. p \in PaneRecord /\ p.out \in Seq(Requests)
    BY DEF PaneSound, PaneRecord
  <2>3. KeyOf(r) \in Keys
    BY DEF Keys
  <2>4. /\ Append(p.out, r) \in Seq(Requests)
        /\ \A x : In(x, Append(p.out, r)) => In(x, p.out) \/ x = r
        /\ Distinct(p.out) /\ ~In(r, p.out) => Distinct(Append(p.out, r))
    BY <2>2, Appended, Zenon
  <2>5. /\ q.calls = p.calls \cup {r} /\ q.busy = p.busy \cup {KeyOf(r)}
        /\ q.out = Append(p.out, r) /\ q.shown = p.shown /\ q.drafts = p.drafts
    BY <2>2 DEF PaneRecord
  <2>6. q \in PaneRecord
    BY <2>2, <2>3, <2>4 DEF PaneRecord
  <2>7. Submit(p, r) = q
    BY <1>2 DEF Submit
  <2> HIDE DEF q
  <2>8. ~In(r, p.out)
    BY <2>1 DEF PaneSound
  <2>9. PaneSound(q)
    <3>1. \A c \in Cells : DraftSound(q.drafts[c])
      BY <2>5 DEF PaneSound
    <3>2. \A x, y \in q.calls : LockOf(x) = LockOf(y) => x = y
      BY <2>1, <2>5 DEF PaneSound
    <3>3. q.busy \subseteq {KeyOf(x) : x \in q.calls}
      BY <2>5 DEF PaneSound
    <3>4. (\A x : In(x, q.out) => x \in q.calls) /\ Distinct(q.out)
      BY <2>4, <2>5, <2>8 DEF PaneSound
    <3>5. QED
      BY <2>6, <3>1, <3>2, <3>3, <3>4 DEF PaneSound
  <2>10. Grows(p, q)
    BY <2>1, <2>4, <2>5 DEF Grows
  <2>11. QED
    BY <2>7, <2>9, <2>10
<1>3. QED
  BY <1>1, <1>2

LEMMA Runs ==
    ASSUME NEW p, PaneSound(p), NEW c \in Cells, NEW source \in Texts, NEW all \in BOOLEAN
    PROVE  PaneSound(RunCell(p, c, source, all)) /\ Grows(p, RunCell(p, c, source, all))
<1> DEFINE r == [kind |-> "run", cell |-> c, arg |-> source]
           w == [cell |-> c, arg |-> source, all |-> all]
<1>1. r \in Requests
  BY DEF Requests, Request, Kinds, Texts
<1>2. p \in PaneRecord
  BY DEF PaneSound
<1>3. CASE Locked(p, <<"edit", c>>)
  <2>1. w \in WaitingRecord
    BY DEF WaitingRecord
  <2>2. Still(p, [p EXCEPT !.waiting = @ \cup {w}])
    <3> HIDE DEF w
    <3>1. QED
      BY <1>2, <2>1 DEF Still, PaneRecord
  <2>3. RunCell(p, c, source, all) = [p EXCEPT !.waiting = @ \cup {w}]
    BY <1>3 DEF RunCell
  <2> HIDE DEF w
  <2>4. QED
    BY <2>2, <2>3, StillSound
<1>4. CASE ~Locked(p, <<"edit", c>>) /\ all /\ Locked(p, LockOf(r))
  <2>1. Still(p, [p EXCEPT !.all = None])
    BY <1>2 DEF Still, PaneRecord
  <2>2. RunCell(p, c, source, all) = [p EXCEPT !.all = None]
    BY <1>4 DEF RunCell
  <2>3. QED
    BY <2>1, <2>2, StillSound
<1>5. CASE ~Locked(p, <<"edit", c>>) /\ ~(all /\ Locked(p, LockOf(r)))
  <2>1. RunCell(p, c, source, all) = Submit(p, r)
    BY <1>5 DEF RunCell
  <2> HIDE DEF r
  <2>2. QED
    BY <1>1, <2>1, Submitted
<1>6. QED
  BY <1>3, <1>4, <1>5

LEMMA RunsNext ==
    ASSUME NEW p, PaneSound(p), p.all \in AllRecord, NEW c \in Cells
    PROVE  PaneSound(RunNext(p, c)) /\ Grows(p, RunNext(p, c))
<1> DEFINE q == [p EXCEPT !.all.left = @ \ {c}]
<1>1. p \in PaneRecord /\ p.all \in AllRecord /\ p.all.sources[c] \in Texts
  BY DEF PaneSound, PaneRecord, AllRecord
<1>2. [p.all EXCEPT !.left = @ \ {c}] \in AllRecord
  BY <1>1 DEF AllRecord
<1>3. q = [p EXCEPT !.all = [p.all EXCEPT !.left = @ \ {c}]]
  OBVIOUS
<1>4. Still(p, q)
  <2> DEFINE a == [p.all EXCEPT !.left = @ \ {c}]
  <2>1. q = [p EXCEPT !.all = a] /\ a \in AllRecord
    BY <1>2, <1>3
  <2> HIDE DEF a, q
  <2>2. QED
    BY <1>1, <2>1 DEF Still, PaneRecord
<1>5. RunNext(p, c) = RunCell(q, c, p.all.sources[c], TRUE)
  BY DEF RunNext
<1> HIDE DEF q
<1>6. PaneSound(q) /\ Grows(p, q)
  BY <1>4, StillSound
<1>7. /\ PaneSound(RunCell(q, c, p.all.sources[c], TRUE))
      /\ Grows(q, RunCell(q, c, p.all.sources[c], TRUE))
  BY <1>1, <1>6, Runs
<1>8. QED
  BY <1>5, <1>6, <1>7, GrowsFurther

-----------------------------------------------------------------------------
(* What an answer does to the panel: everything but the request that is    *)
(* answered stays where it is, and drafts keep their values.               *)

Goes(r, q) ==
    /\ PaneSound(q)
    /\ pane.calls \ {r} \subseteq q.calls
    /\ \A x \in pane.calls \ {r} : In(x, q.out) => In(x, pane.out)
KeepsValues(q) == \A c \in Cells : q.drafts[c].value = pane.drafts[c].value
Comes(r, q) == Goes(r, q) /\ KeepsValues(q)

LEMMA GoesFurther ==
    ASSUME NEW r, NEW p, NEW q, Comes(r, p), PaneSound(q), Grows(p, q)
    PROVE  Comes(r, q)
BY DEF Comes, Goes, KeepsValues, Grows

LEMMA SettledComes ==
    ASSUME PaneSound(pane), NEW r \in Requests, r \in pane.calls, ~In(r, pane.out)
    PROVE  /\ Comes(r, Settled(r))
           /\ Settled(r).shown = pane.shown /\ Settled(r).drafts = pane.drafts
<1> DEFINE q == [pane EXCEPT !.calls = @ \ {r}, !.busy = @ \ {KeyOf(r)}]
<1>1. pane \in PaneRecord
  BY DEF PaneSound
<1>2. /\ q \in PaneRecord /\ q.calls = pane.calls \ {r} /\ q.busy = pane.busy \ {KeyOf(r)}
      /\ q.out = pane.out /\ q.shown = pane.shown /\ q.drafts = pane.drafts
  BY <1>1 DEF PaneRecord
<1> HIDE DEF q
<1>3. \A k \in q.busy : \E x \in q.calls : k = KeyOf(x)
  BY <1>2 DEF PaneSound
<1>4. q.busy \subseteq {KeyOf(x) : x \in q.calls}
  BY <1>3
<1>5. \A x : In(x, q.out) => x \in q.calls
  BY <1>2 DEF PaneSound
<1>6. PaneSound(q)
  BY <1>2, <1>4, <1>5 DEF PaneSound
<1>7. Settled(r) = q
  BY DEF Settled, q
<1>8. QED
  BY <1>2, <1>6, <1>7 DEF Comes, Goes, KeepsValues

LEMMA PublishedComes ==
    ASSUME NEW r, NEW p, Comes(r, p), NEW doc \in Doc
    PROVE  Comes(r, Published(p, doc))
<1> DEFINE q == [p EXCEPT !.shown = doc, !.owns = TRUE, !.dropped = FALSE]
<1>1. p \in PaneRecord /\ PaneSound(p)
  BY DEF Comes, Goes, PaneSound
<1>2. /\ q \in PaneRecord /\ q.calls = p.calls /\ q.busy = p.busy
      /\ q.out = p.out /\ q.drafts = p.drafts
  BY <1>1 DEF PaneRecord
<1>3. Published(p, doc) = q
  BY DEF Published
<1> HIDE DEF q
<1>4. QED
  BY <1>1, <1>2, <1>3 DEF Comes, Goes, KeepsValues, PaneSound

LEMMA AcknowledgedComes ==
    ASSUME NEW r, NEW p, Comes(r, p), NEW c \in Cells, NEW source
    PROVE  Comes(r, Acknowledged(p, c, source))
<1>1. PaneSound(p) /\ p \in PaneRecord /\ p.drafts \in [Cells -> Drafts]
  BY DEF Comes, Goes, PaneSound, PaneRecord
<1>2. CASE p.drafts[c] # NoDraft /\ p.drafts[c].value = source
  <2> DEFINE d == [p.drafts[c] EXCEPT !.saved = source]
             e == [p.drafts EXCEPT ![c] = d]
             q == [p EXCEPT !.drafts = e]
  <2>1. p.drafts[c] \in Drafts /\ DraftSound(p.drafts[c])
    BY <1>1 DEF PaneSound
  <2>2. d \in Drafts /\ d.value = p.drafts[c].value /\ d.saved = source
    BY <1>2, <2>1 DEF Drafts
  <2>3. DraftSound(d)
    BY <1>2, <2>1, <2>2 DEF DraftSound
  <2> HIDE DEF d
  <2>4. /\ e \in [Cells -> Drafts]
        /\ \A b \in Cells : DraftSound(e[b]) /\ e[b].value = p.drafts[b].value
    BY <1>1, <2>2, <2>3 DEF PaneSound
  <2> HIDE DEF e
  <2>5. /\ q \in PaneRecord /\ q.drafts = e /\ q.calls = p.calls /\ q.busy = p.busy
        /\ q.out = p.out
    BY <1>1, <2>4 DEF PaneRecord
  <2>6. Acknowledged(p, c, source) = q
    BY <1>2 DEF Acknowledged, Acknowledges, d, e
  <2> HIDE DEF q
  <2>7. QED
    BY <1>1, <2>4, <2>5, <2>6 DEF Comes, Goes, KeepsValues, PaneSound
<1>3. CASE ~(p.drafts[c] # NoDraft /\ p.drafts[c].value = source)
  BY <1>3 DEF Acknowledged, Acknowledges
<1>4. QED
  BY <1>2, <1>3

LEMMA ResumedComes ==
    ASSUME NEW r, NEW p, Comes(r, p), NEW c \in Cells, NEW q \in Resumed(p, c)
    PROVE  Comes(r, q)
<1> DEFINE due == {w \in p.waiting : w.cell = c}
           rest == [p EXCEPT !.waiting = @ \ due]
           dropped == [rest EXCEPT !.all = IF \E w \in due : w.all THEN None ELSE @]
<1>1. PaneSound(p) /\ p \in PaneRecord /\ p.waiting \subseteq WaitingRecord
  BY DEF Comes, Goes, PaneSound, PaneRecord
<1>2. CASE due = {}
  BY <1>2 DEF Resumed
<1>3. CASE due # {}
  <2>1. PICK w \in due : q = RunCell(IF w.all THEN rest ELSE dropped, c, w.arg, w.all)
    BY <1>3 DEF Resumed
  <2>2. w.arg \in Texts /\ w.all \in BOOLEAN
    BY <1>1 DEF WaitingRecord
  <2>3. Still(p, rest)
    <3> HIDE DEF due
    <3>1. QED
      BY <1>1 DEF Still, PaneRecord
  <2>4. Still(p, dropped)
    <3> DEFINE left == IF \E v \in due : v.all THEN None ELSE rest.all
    <3>1. rest.all = p.all /\ left \in AllRecord \cup {None}
      BY <1>1 DEF PaneRecord
    <3>2. dropped = [rest EXCEPT !.all = left]
      OBVIOUS
    <3> HIDE DEF left, rest
    <3>3. QED
      BY <2>3, <3>1, <3>2 DEF Still, PaneRecord
  <2> HIDE DEF rest, dropped, due
  <2> DEFINE s == IF w.all THEN rest ELSE dropped
  <2>5. Still(p, s)
    BY <2>3, <2>4
  <2> HIDE DEF s
  <2>6. PaneSound(s) /\ Grows(p, s)
    BY <1>1, <2>5, StillSound
  <2>7. q = RunCell(s, c, w.arg, w.all)
    BY <2>1 DEF s
  <2>8. PaneSound(q) /\ Grows(s, q)
    BY <2>2, <2>6, <2>7, Runs
  <2>9. QED
    BY <2>6, <2>8, GrowsFurther, GoesFurther
<1>4. QED
  BY <1>2, <1>3

LEMMA ContinuedComes ==
    ASSUME NEW r, NEW p, Comes(r, p), NEW s, NEW ended, NEW q \in Continued(p, s, ended)
    PROVE  Comes(r, q)
<1>1. PaneSound(p) /\ p \in PaneRecord
  BY DEF Comes, Goes, PaneSound
<1>2. \/ q = p
      \/ q = [p EXCEPT !.all = None]
      \/ p.all # None /\ \E c \in p.all.left : q = RunNext(p, c)
  BY Zenon DEF Continued
<1>3. CASE q = [p EXCEPT !.all = None]
  <2>1. Still(p, q)
    BY <1>1, <1>3 DEF Still, PaneRecord
  <2>2. QED
    BY <1>1, <2>1, StillSound, GoesFurther
<1>4. CASE p.all # None /\ \E c \in p.all.left : q = RunNext(p, c)
  <2>1. PICK c \in p.all.left : q = RunNext(p, c)
    BY <1>4
  <2>2. c \in Cells
    BY <1>1, <1>4, <2>1 DEF PaneRecord, AllRecord
  <2>3. PaneSound(q) /\ Grows(p, q)
    <3>1. p.all \in AllRecord
      BY <1>1, <1>4 DEF PaneRecord
    <3>2. QED
      BY <1>1, <2>1, <2>2, <3>1, RunsNext
  <2>4. QED
    BY <2>3, GoesFurther
<1>5. QED
  BY <1>2, <1>3, <1>4

LEMMA ReloadedGoes ==
    ASSUME NEW r, NEW p, Comes(r, p)
    PROVE  Goes(r, Reloaded(p))
<1> DEFINE d == [c \in Cells |-> NoDraft]
           b == {k \in p.busy : k[1] \notin {"edit", "run", "insert"}}
           q == [p EXCEPT !.drafts = d, !.busy = b]
<1>1. PaneSound(p) /\ p \in PaneRecord
  BY DEF Comes, Goes, PaneSound
<1>2. d \in [Cells -> Drafts] /\ \A c \in Cells : DraftSound(d[c])
  BY DEF Drafts, NoDraft, DraftSound, Texts
<1>3. b \subseteq p.busy
  OBVIOUS
<1>4. Reloaded(p) = q
  BY DEF Reloaded
<1> HIDE DEF d, b
<1>5. q \in PaneRecord /\ q.drafts = d /\ q.busy = b /\ q.calls = p.calls /\ q.out = p.out
  BY <1>1, <1>2, <1>3 DEF PaneRecord
<1> HIDE DEF q
<1>6. PaneSound(q)
  BY <1>1, <1>2, <1>3, <1>5 DEF PaneSound
<1>7. QED
  BY <1>4, <1>5, <1>6 DEF Comes, Goes

LEMMA RenderedGoes ==
    ASSUME NEW r, NEW p, Goes(r, p)
    PROVE  /\ Goes(r, Render(p))
           /\ Render(p).shown = p.shown
           /\ Render(p).drafts = [c \in Cells |-> IF Stays(p, c) THEN p.drafts[c] ELSE NoDraft]
<1> DEFINE d == [c \in Cells |-> IF Stays(p, c) THEN p.drafts[c] ELSE NoDraft]
           n == IF Awaited(p) THEN p.pending ELSE None
           q == [p EXCEPT !.drafts = d, !.pending = n]
<1>1. PaneSound(p) /\ p \in PaneRecord
  BY DEF Goes, PaneSound
<1>2. NoDraft \in Drafts /\ DraftSound(NoDraft)
  BY DEF Drafts, NoDraft, DraftSound, Texts
<1>3. \A c \in Cells : p.drafts[c] \in Drafts /\ DraftSound(p.drafts[c])
  BY <1>1 DEF PaneSound, PaneRecord
<1>4. \A c \in Cells : d[c] \in {p.drafts[c], NoDraft}
  BY Zenon
<1>5. d \in [Cells -> Drafts] /\ \A c \in Cells : DraftSound(d[c])
  <2>1. \A c \in Cells : d[c] \in Drafts /\ DraftSound(d[c])
    <3> HIDE DEF d
    <3>1. QED
      BY <1>2, <1>3, <1>4
  <2>2. d = [c \in Cells |-> d[c]]
    OBVIOUS
  <2> HIDE DEF d
  <2>3. QED
    BY <2>1, <2>2
<1>6. n \in Paths \cup {None}
  <2>1. n \in {p.pending, None}
    BY Zenon
  <2> HIDE DEF n
  <2>2. QED
    BY <1>1, <2>1 DEF PaneRecord
<1>7. Render(p) = q
  BY DEF Render
<1> HIDE DEF d, n
<1>8. /\ q \in PaneRecord /\ q.drafts = d /\ q.busy = p.busy /\ q.calls = p.calls
      /\ q.out = p.out /\ q.shown = p.shown
  BY <1>1, <1>5, <1>6 DEF PaneRecord
<1> HIDE DEF q
<1>9. PaneSound(q)
  BY <1>1, <1>5, <1>8 DEF PaneSound
<1>10. Goes(r, q) /\ q.shown = p.shown /\ q.drafts = d
  BY <1>8, <1>9 DEF Goes
<1>11. QED
  BY <1>7, <1>10 DEF d

(* What an answer leaves, before the rendering that follows it. *)
LEMMA SucceededGoes ==
    ASSUME PaneSound(pane), NEW r \in Requests, r \in pane.calls, ~In(r, pane.out),
           NEW doc \in Doc, NEW ended, NEW q \in Succeeds(r, doc, ended)
    PROVE  Goes(r, q) /\ (r.kind # "reload" => KeepsValues(q))
<1> DEFINE p == Published(Settled(r), doc)
<1>1. Comes(r, Settled(r))
  BY SettledComes
<1>2. Comes(r, p)
  BY <1>1, PublishedComes
<1>3. /\ r.kind \in {"edit", "run"} => r.cell \in Cells
      /\ r.kind \in Kinds
  BY DEF Requests, Request
<1>4. ASSUME r.kind \in {"edit", "run"}  PROVE Comes(r, Acknowledged(p, r.cell, r.arg))
  BY <1>2, <1>3, <1>4, AcknowledgedComes
<1> HIDE DEF p
<1>5. \/ r.kind = "edit" /\ q \in Resumed(Acknowledged(p, r.cell, r.arg), r.cell)
      \/ r.kind = "run" /\ q \in Continued(Acknowledged(p, r.cell, r.arg), r, ended)
      \/ r.kind = "reload" /\ q = Reloaded(p)
      \/ r.kind = "interrupt" /\ q = Settled(r)
      \/ q = p
  BY Zenon DEF Succeeds, p
<1>6. CASE r.kind = "edit" /\ q \in Resumed(Acknowledged(p, r.cell, r.arg), r.cell)
  <2>1. Comes(r, q)
    BY <1>3, <1>4, <1>6, ResumedComes
  <2>2. QED
    BY <2>1 DEF Comes
<1>7. CASE r.kind = "run" /\ q \in Continued(Acknowledged(p, r.cell, r.arg), r, ended)
  <2>1. Comes(r, q)
    BY <1>4, <1>7, ContinuedComes
  <2>2. QED
    BY <2>1 DEF Comes
<1>8. CASE r.kind = "reload" /\ q = Reloaded(p)
  BY <1>2, <1>8, ReloadedGoes
<1>9. CASE r.kind = "interrupt" /\ q = Settled(r)
  BY <1>1, <1>9 DEF Comes
<1>10. CASE q = p
  BY <1>2, <1>10 DEF Comes
<1>11. QED
  BY <1>5, <1>6, <1>7, <1>8, <1>9, <1>10

LEMMA FailedComes ==
    ASSUME PaneSound(pane), NEW r \in Requests, r \in pane.calls, ~In(r, pane.out),
           NEW q \in Fails(r)
    PROVE  Comes(r, q)
<1>1. Comes(r, Settled(r))
  BY SettledComes
<1>2. r.kind = "edit" => r.cell \in Cells
  BY DEF Requests, Request
<1> DEFINE p == [Settled(r) EXCEPT !.dropped = TRUE]
           s == [Settled(r) EXCEPT !.pending = None]
<1>3. PaneSound(Settled(r)) /\ Settled(r) \in PaneRecord
  BY <1>1 DEF Comes, Goes, PaneSound
<1>4. Still(Settled(r), p) /\ Still(Settled(r), s)
  <2> DEFINE t == Settled(r)
  <2>1. t \in PaneRecord
    BY <1>3
  <2> HIDE DEF t
  <2>2. Still(t, [t EXCEPT !.dropped = TRUE])
    BY <2>1 DEF Still, PaneRecord
  <2>3. Still(t, [t EXCEPT !.pending = None])
    BY <2>1 DEF Still, PaneRecord
  <2>4. QED
    BY <2>2, <2>3 DEF t
<1>5. \/ r.kind = "edit" /\ q \in Resumed(Settled(r), r.cell)
      \/ q \in Continued(p, r, "error")
      \/ q = s
      \/ q = Settled(r)
  BY Zenon DEF Fails
<1> HIDE DEF p, s
<1>6. Comes(r, p) /\ Comes(r, s)
  BY <1>1, <1>3, <1>4, StillSound, GoesFurther
<1>7. QED
  BY <1>1, <1>2, <1>5, <1>6, ResumedComes, ContinuedComes

-----------------------------------------------------------------------------
(* The work of the user. *)

WorkRecord == [value : Texts, safe : BOOLEAN]
WorkSound(p, w) ==
    /\ w \in [Cells -> WorkRecord]
    /\ \A c \in Cells : w[c].safe \/ p.drafts[c].value = w[c].value
    /\ \A c \in Cells : p.shown.src[c] = w[c].value => w[c].safe

(* The panel keeps the values of its drafts and what it shows, the history *)
(* its values, and nothing that was safe is not any more.                  *)
LEMMA WorkStays ==
    ASSUME NEW p, NEW q, NEW w, NEW v, WorkSound(p, w), v \in [Cells -> WorkRecord],
           q.shown = p.shown, q.drafts = p.drafts,
           \A c \in Cells : v[c].value = w[c].value /\ (w[c].safe => v[c].safe)
    PROVE  WorkSound(q, v)
<1>1. ASSUME NEW c \in Cells
      PROVE  /\ v[c].safe \/ q.drafts[c].value = v[c].value
             /\ q.shown.src[c] = v[c].value => v[c].safe
  <2>1. /\ w[c].safe \/ p.drafts[c].value = w[c].value
        /\ p.shown.src[c] = w[c].value => w[c].safe
    BY DEF WorkSound
  <2>2. v[c].value = w[c].value /\ (w[c].safe => v[c].safe)
    OBVIOUS
  <2>3. q.drafts[c].value = p.drafts[c].value /\ q.shown.src[c] = p.shown.src[c]
    OBVIOUS
  <2> QED
    BY <2>1, <2>2, <2>3, Zenon
<1>2. QED
  BY <1>1 DEF WorkSound

LEMMA SafeStays ==
    ASSUME work \in [Cells -> WorkRecord], NEW c \in Cells, NEW source
    PROVE  /\ Safe(c, source) \in [Cells -> WorkRecord]
           /\ \A b \in Cells : /\ Safe(c, source)[b].value = work[b].value
                               /\ work[b].safe => Safe(c, source)[b].safe
<1> DEFINE r == [work[c] EXCEPT !.safe = @ \/ work[c].value = source]
           n == work[c].safe \/ work[c].value = source
<1>1. Safe(c, source) = [work EXCEPT ![c] = r]
  BY DEF Safe
<1>2. n \in BOOLEAN /\ (work[c].safe => n)
  BY Zenon
<1>3. work[c] \in WorkRecord
  OBVIOUS
<1>4. r = [work[c] EXCEPT !.safe = n]
  OBVIOUS
<1> HIDE DEF n
<1>5. [work[c] EXCEPT !.safe = n] \in WorkRecord
  BY <1>2, <1>3 DEF WorkRecord
<1>6. [work[c] EXCEPT !.safe = n].value = work[c].value
  BY <1>3 DEF WorkRecord
<1>7. [work[c] EXCEPT !.safe = n].safe = n
  BY <1>3 DEF WorkRecord
<1>8. r \in WorkRecord /\ r.value = work[c].value /\ (work[c].safe => r.safe)
  BY <1>2, <1>4, <1>5, <1>6, <1>7, Zenon
<1> HIDE DEF r
<1>9. [work EXCEPT ![c] = r] \in [Cells -> WorkRecord]
  BY <1>8
<1>10. ASSUME NEW b \in Cells
       PROVE  /\ [work EXCEPT ![c] = r][b].value = work[b].value
              /\ work[b].safe => [work EXCEPT ![c] = r][b].safe
  <2>1. CASE b = c
    <3>1. [work EXCEPT ![c] = r][b] = r
      BY <2>1
    <3>2. QED
      BY <1>8, <2>1, <3>1, Zenon
  <2>2. CASE b # c
    <3>1. [work EXCEPT ![c] = r][b] = work[b]
      BY <2>2
    <3>2. QED
      BY <3>1, Zenon
  <2>3. QED
    BY <2>1, <2>2
<1>11. QED
  BY <1>1, <1>9, <1>10

(* What is shown is safe; the rest is as safe as it was. *)
LEMMA KeptFields ==
    ASSUME work \in [Cells -> WorkRecord], NEW p
    PROVE  /\ Kept(p) \in [Cells -> WorkRecord]
           /\ \A c \in Cells :
                /\ ~Shows(p, c) => Kept(p)[c] = NoWork
                /\ Shows(p, c) => Kept(p)[c].value = work[c].value
                /\ Shows(p, c) /\ work[c].safe => Kept(p)[c].safe
                /\ Shows(p, c) /\ p.shown.src[c] = work[c].value => Kept(p)[c].safe
<1>1. NoWork \in WorkRecord
  BY DEF NoWork, WorkRecord, Texts
<1>2. ASSUME NEW c \in Cells
      PROVE  /\ Kept(p)[c] \in WorkRecord
             /\ ~Shows(p, c) => Kept(p)[c] = NoWork
             /\ Shows(p, c) => Kept(p)[c].value = work[c].value
             /\ Shows(p, c) /\ work[c].safe => Kept(p)[c].safe
             /\ Shows(p, c) /\ p.shown.src[c] = work[c].value => Kept(p)[c].safe
  <2> DEFINE n == work[c].safe \/ p.shown.src[c] = work[c].value
             r == [work[c] EXCEPT !.safe = n]
  <2>1. n \in BOOLEAN /\ (work[c].safe => n) /\ (p.shown.src[c] = work[c].value => n)
    BY Zenon
  <2>2. Kept(p)[c] = IF ~Shows(p, c) THEN NoWork ELSE r
    BY DEF Kept
  <2>3. work[c] \in WorkRecord
    OBVIOUS
  <2> HIDE DEF n
  <2>4. r \in WorkRecord
    BY <2>1, <2>3 DEF WorkRecord
  <2>5. r.value = work[c].value
    BY <2>3 DEF WorkRecord
  <2>6. r.safe = n
    BY <2>3 DEF WorkRecord
  <2> HIDE DEF r
  <2>7. CASE Shows(p, c)
    <3>1. Kept(p)[c] = r
      BY <2>2, <2>7, Zenon
    <3>2. QED
      BY <2>1, <2>4, <2>5, <2>6, <2>7, <3>1, Zenon
  <2>8. CASE ~Shows(p, c)
    <3>1. Kept(p)[c] = NoWork
      BY <2>2, <2>8, Zenon
    <3>2. QED
      BY <1>1, <2>8, <3>1, Zenon
  <2>9. QED
    BY <2>7, <2>8, Zenon
<1>3. Kept(p) = [c \in Cells |-> Kept(p)[c]]
  BY DEF Kept
<1>4. Kept(p) \in [Cells -> WorkRecord]
  <2> DEFINE k == Kept(p)
  <2>1. k = [c \in Cells |-> k[c]] /\ \A c \in Cells : k[c] \in WorkRecord
    BY <1>2, <1>3
  <2> HIDE DEF k
  <2>2. k \in [Cells -> WorkRecord]
    BY <2>1
  <2>3. QED
    BY <2>2 DEF k
<1>5. QED
  BY <1>2, <1>4, Zenon

(* A continuation that keeps the values, with or without the rendering of  *)
(* a new document.                                                         *)
LEMMA KeptIsSound ==
    ASSUME NEW p, NEW q, WorkSound(pane, work), PaneSound(p), KeepsValues(p),
           q.shown = p.shown,
           \/ q.drafts = p.drafts
           \/ q.drafts = [c \in Cells |-> IF Stays(p, c) THEN p.drafts[c] ELSE NoDraft]
    PROVE  WorkSound(q, Kept(q))
<1>1. work \in [Cells -> WorkRecord]
  BY DEF WorkSound
<1>2. \A c \in Cells : Shows(q, c) <=> Shows(p, c)
  BY DEF Shows
<1>3. ASSUME NEW c \in Cells
      PROVE  /\ Kept(q)[c].safe \/ q.drafts[c].value = Kept(q)[c].value
             /\ q.shown.src[c] = Kept(q)[c].value => Kept(q)[c].safe
  <2>1. CASE ~Shows(q, c)
    <3>1. Kept(q)[c] = NoWork
      BY <1>1, <2>1, KeptFields
    <3>2. Kept(q)[c].safe
      BY <3>1 DEF NoWork
    <3>3. QED
      BY <3>2
  <2>2. CASE Shows(q, c)
    <3>1. /\ Kept(q)[c].value = work[c].value
          /\ work[c].safe => Kept(q)[c].safe
          /\ q.shown.src[c] = work[c].value => Kept(q)[c].safe
      BY <1>1, <2>2, KeptFields
    <3>2. work[c].safe \/ p.drafts[c].value = work[c].value
      BY DEF WorkSound, KeepsValues
    <3>3. CASE q.drafts[c] = p.drafts[c]
      BY <3>1, <3>2, <3>3, Zenon
    <3>4. CASE q.drafts[c] # p.drafts[c]
      <4>1. ~Stays(p, c)
        BY <3>4
      <4>2. CaughtUp(p, c) /\ p.shown.src[c] # None
        BY <1>2, <2>2, <4>1 DEF Stays, Shows
      <4>3. p.drafts[c].saved \in {None, p.drafts[c].value}
        BY DEF PaneSound, DraftSound
      <4>4. p.drafts[c].value = p.shown.src[c]
        BY <4>2, <4>3 DEF CaughtUp
      <4>5. work[c].safe \/ q.shown.src[c] = work[c].value
        BY <3>2, <4>4
      <4>6. QED
        BY <3>1, <4>5, Zenon
    <3>5. QED
      BY <3>3, <3>4
  <2>3. QED
    BY <2>1, <2>2
<1>4. Kept(q) \in [Cells -> WorkRecord]
  BY <1>1, KeptFields
<1>5. QED
  BY <1>3, <1>4 DEF WorkSound

-----------------------------------------------------------------------------
(* A request is at one place: on its way to the Host, at the kernel, or on *)
(* its way back.                                                           *)

Placed(p, w, run) ==
    /\ w \in Seq(AnswerRecord)
    /\ \A i \in 1 .. Len(w) : w[i].request \in p.calls /\ ~In(w[i].request, p.out)
    /\ \A i, j \in 1 .. Len(w) : w[i].request = w[j].request => i = j
    /\ run # None => /\ run.request \in p.calls /\ ~In(run.request, p.out)
                     /\ \A i \in 1 .. Len(w) : w[i].request # run.request

LEMMA PlacedFurther ==
    ASSUME NEW p, NEW q, NEW w, NEW run, Placed(p, w, run), Grows(p, q)
    PROVE  Placed(q, w, run)
BY DEF Placed, Grows

(* An answer to a request that is nowhere else. *)
LEMMA AnswerPlaced ==
    ASSUME NEW p, NEW w, NEW run, Placed(p, w, run), NEW a \in AnswerRecord,
           a.request \in p.calls, ~In(a.request, p.out),
           \A i \in 1 .. Len(w) : w[i].request # a.request,
           NEW next, next # None => next = run /\ next.request # a.request
    PROVE  Placed(p, Append(w, a), next)
<1> DEFINE t == Append(w, a)
<1>1. w \in Seq(AnswerRecord)
  BY DEF Placed
<1>2. t \in Seq(AnswerRecord) /\ Len(t) = Len(w) + 1 /\ Len(w) \in Nat
  BY <1>1
<1>3. (\A i \in 1 .. Len(w) : t[i] = w[i]) /\ t[Len(w) + 1] = a
  BY <1>1
<1> HIDE DEF t
<1>4. \A i \in 1 .. Len(t) : i \in 1 .. Len(w) \/ i = Len(w) + 1
  BY <1>2
<1>5. \A i \in 1 .. Len(t) : t[i].request \in p.calls /\ ~In(t[i].request, p.out)
  BY <1>3, <1>4 DEF Placed
<1>6. ASSUME NEW i \in 1 .. Len(t), NEW j \in 1 .. Len(t), t[i].request = t[j].request
      PROVE  i = j
  BY <1>3, <1>4, <1>6 DEF Placed
<1>7. ASSUME next # None
      PROVE  /\ next.request \in p.calls /\ ~In(next.request, p.out)
             /\ \A i \in 1 .. Len(t) : t[i].request # next.request
  BY <1>3, <1>4, <1>7 DEF Placed
<1>8. QED
  BY <1>2, <1>5, <1>6, <1>7 DEF Placed, t

(* The first answer arrives: its request is nowhere then. *)
LEMMA AnswerArrives ==
    ASSUME NEW run, Placed(pane, wire, run), wire # <<>>
    PROVE  /\ Head(wire) \in AnswerRecord
           /\ Head(wire).request \in pane.calls /\ ~In(Head(wire).request, pane.out)
           /\ \A q : Goes(Head(wire).request, q) => Placed(q, Tail(wire), run)
<1> DEFINE w == wire
           t == Tail(w)
           r == Head(w).request
<1>1. w \in Seq(AnswerRecord) /\ w # <<>>
  BY DEF Placed
<1> HIDE DEF w
<1>2. /\ Len(w) \in Nat /\ Len(w) >= 1 /\ Head(w) = w[1] /\ Head(w) \in AnswerRecord
      /\ t \in Seq(AnswerRecord) /\ Len(t) = Len(w) - 1
  BY <1>1
<1>3. \A i \in 1 .. Len(t) : t[i] = w[i + 1]
  BY <1>1
<1>4. \A i \in 1 .. Len(t) : i + 1 \in 1 .. Len(w) /\ i + 1 # 1 /\ i \in Int
  BY <1>2
<1>5. 1 \in 1 .. Len(w) /\ r = w[1].request
  BY <1>2
<1> HIDE DEF t, r
<1>6. Placed(pane, w, run)
  BY DEF w
<1>7. r \in pane.calls /\ ~In(r, pane.out)
  BY <1>5, <1>6 DEF Placed
<1>8. ASSUME NEW q, Goes(r, q)  PROVE Placed(q, t, run)
  <2>1. ASSUME NEW i \in 1 .. Len(t)
        PROVE  t[i].request \in q.calls /\ ~In(t[i].request, q.out)
    <3>1. t[i].request \in pane.calls \ {r} /\ ~In(t[i].request, pane.out)
      BY <1>3, <1>4, <1>5, <1>6 DEF Placed
    <3>2. QED
      BY <1>8, <3>1 DEF Goes
  <2>2. ASSUME NEW i \in 1 .. Len(t), NEW j \in 1 .. Len(t), t[i].request = t[j].request
        PROVE  i = j
    <3>1. i + 1 = j + 1
      BY <1>3, <1>4, <1>6, <2>2 DEF Placed
    <3>2. QED
      BY <1>4, <3>1
  <2>3. ASSUME run # None
        PROVE  /\ run.request \in q.calls /\ ~In(run.request, q.out)
               /\ \A i \in 1 .. Len(t) : t[i].request # run.request
    <3>1. run.request \in pane.calls \ {r} /\ ~In(run.request, pane.out)
      BY <1>5, <1>6, <2>3 DEF Placed
    <3>2. \A i \in 1 .. Len(t) : t[i].request # run.request
      BY <1>3, <1>4, <1>6, <2>3 DEF Placed
    <3>3. QED
      BY <1>8, <3>1, <3>2 DEF Goes
  <2>4. QED
    BY <1>2, <2>1, <2>2, <2>3 DEF Placed
<1>9. QED
  BY <1>2, <1>7, <1>8 DEF w, t, r

(* A request is taken from those that are under way. *)
LEMMA RequestTaken ==
    ASSUME NEW run, PaneSound(pane), Placed(pane, wire, run), NEW i \in 1 .. Len(pane.out),
           NEW q, q = [pane EXCEPT !.out = RemoveAt(@, i)]
    PROVE  /\ pane.out[i] \in Requests
           /\ PaneSound(q) /\ q.shown = pane.shown /\ q.drafts = pane.drafts
           /\ Placed(q, wire, run)
           /\ pane.out[i] \in q.calls /\ ~In(pane.out[i], q.out)
           /\ \A j \in 1 .. Len(wire) : wire[j].request # pane.out[i]
           /\ run # None => run.request # pane.out[i]
<1> DEFINE s == pane.out
           t == RemoveAt(s, i)
<1>1. pane \in PaneRecord /\ s \in Seq(Requests)
  BY DEF PaneSound, PaneRecord
<1>2. /\ t \in Seq(Requests)
      /\ \A x : In(x, t) => In(x, s)
      /\ Distinct(s) => Distinct(t) /\ ~In(s[i], t)
  <2> HIDE DEF s
  <2>1. i \in 1 .. Len(s)
    BY DEF s
  <2>2. QED
    BY <1>1, <2>1, Removed
<1>3. s[i] \in Requests /\ In(s[i], s)
  BY <1>1 DEF In
<1>4. q = [pane EXCEPT !.out = t]
  OBVIOUS
<1> HIDE DEF t
<1>5. /\ q \in PaneRecord /\ q.out = t /\ q.calls = pane.calls /\ q.busy = pane.busy
      /\ q.shown = pane.shown /\ q.drafts = pane.drafts
  BY <1>1, <1>2, <1>4 DEF PaneRecord
<1>6. Distinct(s) /\ s[i] \in pane.calls
  BY <1>3 DEF PaneSound
<1>7. PaneSound(q)
  BY <1>2, <1>5, <1>6 DEF PaneSound
<1>8. Placed(q, wire, run)
  BY <1>2, <1>5 DEF Placed
<1>9. /\ \A j \in 1 .. Len(wire) : wire[j].request # s[i]
      /\ run # None => run.request # s[i]
  BY <1>3 DEF Placed
<1>10. QED
  BY <1>2, <1>3, <1>5, <1>6, <1>7, <1>8, <1>9

-----------------------------------------------------------------------------
(* The Host: a request that is served is answered or goes to the kernel,   *)
(* and nothing that is safe is not any more.                               *)

Safer(v) ==
    /\ v \in [Cells -> WorkRecord]
    /\ \A c \in Cells : v[c].value = work[c].value /\ (work[c].safe => v[c].safe)
Answers(r) == \E a \in AnswerRecord : a.request = r /\ wire' = Append(wire, a)
Served(r) ==
    /\ host' \in HostRecord
    /\ \/ host'.run = host.run /\ Answers(r)
       \/ host'.run.request = r /\ wire' = wire
    /\ Safer(work')

LEMMA AnswerAnswers ==
    ASSUME NEW r \in Requests, NEW ok \in BOOLEAN, NEW h \in HostRecord, Answer(r, ok, h)
    PROVE  Answers(r)
<1> DEFINE a == [request |-> r, ok |-> ok, ended |-> "ok", doc |-> Document(h)]
<1>1. Document(h) \in Doc
  BY DEF Document, Doc, HostRecord, Texts
<1>2. a \in AnswerRecord /\ a.request = r
  BY <1>1 DEF AnswerRecord
<1>3. wire' = Append(wire, a)
  BY DEF Answer
<1> HIDE DEF a
<1>4. QED
  BY <1>2, <1>3 DEF Answers

LEMMA CommittedFields ==
    ASSUME host \in HostRecord, NEW src \in [Cells -> Texts]
    PROVE  Committed(src) \in HostRecord /\ Committed(src).run = host.run
<1> DEFINE n == host.rev + 1
<1>1. n \in Nat /\ Committed(src) = [host EXCEPT !.rev = n, !.src = src]
  BY DEF Committed, HostRecord
<1> HIDE DEF n
<1>2. QED
  BY <1>1 DEF HostRecord

LEMMA RefusedServed ==
    ASSUME host \in HostRecord, work \in [Cells -> WorkRecord], NEW r \in Requests, Refuse(r)
    PROVE  Served(r)
<1>1. host' = host /\ work' = work /\ Answer(r, FALSE, host)
  BY DEF Refuse
<1>2. Answers(r)
  BY <1>1, AnswerAnswers
<1>3. Safer(work')
  BY <1>1 DEF Safer
<1>4. QED
  BY <1>1, <1>2, <1>3 DEF Served

(* A handler that answers with what it leaves. *)
LEMMA AnsweredServed ==
    ASSUME host \in HostRecord, work \in [Cells -> WorkRecord], NEW r \in Requests,
           host' \in HostRecord, host'.run = host.run, Safer(work'),
           Answer(r, TRUE, host') \/ Answer(r, TRUE, host)
    PROVE  Served(r)
<1>1. Answers(r)
  BY AnswerAnswers
<1>2. QED
  BY <1>1 DEF Served

LEMMA UnchangedWork ==
    ASSUME work \in [Cells -> WorkRecord], work' = work
    PROVE  Safer(work')
BY DEF Safer

LEMMA LaunchersServed ==
    ASSUME host \in HostRecord, work \in [Cells -> WorkRecord], NEW r \in Requests,
           r.kind \in {"open", "create"}, Open(r) \/ Create(r)
    PROVE  Served(r)
<1>1. r.arg \in Paths
  BY DEF Requests
<1>2. CASE Refuse(r)
  BY <1>2, RefusedServed
<1>3. CASE ~Refuse(r)
  <2>1. /\ \/ host' = [host EXCEPT !.path = IF @ = None THEN r.arg ELSE @]
           \/ host' = [host EXCEPT !.path = r.arg, !.exists = TRUE]
        /\ Answer(r, TRUE, host') /\ work' = work
    BY <1>3, Zenon DEF Open, Create
  <2> DEFINE n == IF host.path = None THEN r.arg ELSE host.path
  <2>2. n \in Paths \cup {None}
    BY <1>1 DEF HostRecord
  <2>3. \/ host' = [host EXCEPT !.path = n]
        \/ host' = [host EXCEPT !.path = r.arg, !.exists = TRUE]
    BY <2>1
  <2> HIDE DEF n
  <2>4. host' \in HostRecord /\ host'.run = host.run
    BY <1>1, <2>2, <2>3 DEF HostRecord
  <2>5. QED
    BY <2>1, <2>4, UnchangedWork, AnsweredServed
<1>4. QED
  BY <1>2, <1>3

LEMMA MutationServed ==
    ASSUME host \in HostRecord, work \in [Cells -> WorkRecord], NEW r \in Requests,
           r.kind \in {"edit", "insert", "delete", "move", "copy"}, Mutate(r)
    PROVE  Served(r)
<1>1. CASE Refuse(r)
  BY <1>1, RefusedServed
<1>2. CASE ~Refuse(r)
  <2>1. PICK src \in Mutations(r) :
           /\ host' = Committed(src) /\ Answer(r, TRUE, host')
           /\ work' = IF r.kind = "edit" THEN Safe(r.cell, r.arg) ELSE work
    BY <1>2, Zenon DEF Mutate
  <2>2. /\ r.kind \in {"edit", "run"} => r.cell \in Cells /\ r.arg \in Texts
        /\ r.kind \in {"delete", "move", "copy"} => r.cell \in Cells
    BY DEF Requests
  <2>3. host.src \in [Cells -> Texts] /\ Empty \in Texts /\ None \in Texts
    BY PanelAssumption DEF HostRecord, Texts
  <2>4. src \in [Cells -> Texts]
    <3>1. CASE r.kind = "edit"
      <4>1. src = [host.src EXCEPT ![r.cell] = r.arg]
        BY <2>1, <3>1 DEF Mutations
      <4>2. QED
        BY <2>2, <2>3, <3>1, <4>1
    <3>2. CASE r.kind = "insert"
      <4>1. \E c \in Fresh : src = [host.src EXCEPT ![c] = Empty]
        BY <2>1, <3>2 DEF Mutations
      <4>2. QED
        BY <2>3, <4>1 DEF Fresh
    <3>3. CASE r.kind = "delete"
      <4>1. src = [host.src EXCEPT ![r.cell] = None]
        BY <2>1, <3>3 DEF Mutations
      <4>2. QED
        BY <2>2, <2>3, <3>3, <4>1
    <3>4. CASE r.kind = "move"
      BY <2>1, <2>3, <3>4 DEF Mutations
    <3>5. CASE r.kind = "copy"
      <4>1. \E c \in Fresh : src = [host.src EXCEPT ![c] = host.src[r.cell]]
        BY <2>1, <3>5 DEF Mutations
      <4>2. QED
        BY <2>2, <2>3, <3>5, <4>1 DEF Fresh
    <3>6. QED
      BY <3>1, <3>2, <3>3, <3>4, <3>5
  <2>5. host' \in HostRecord /\ host'.run = host.run
    BY <2>1, <2>4, CommittedFields
  <2>6. Safer(work')
    <3>1. CASE r.kind = "edit"
      BY <2>1, <2>2, <3>1, SafeStays DEF Safer
    <3>2. CASE r.kind # "edit"
      BY <2>1, <3>2, UnchangedWork
    <3>3. QED
      BY <3>1, <3>2
  <2>7. QED
    BY <2>1, <2>5, <2>6, AnsweredServed
<1>3. QED
  BY <1>1, <1>2

LEMMA RunServed ==
    ASSUME host \in HostRecord, work \in [Cells -> WorkRecord], NEW r \in Requests,
           r.kind = "run", Run(r)
    PROVE  Served(r)
<1>1. CASE Refuse(r)
  BY <1>1, RefusedServed
<1>2. CASE ~Refuse(r)
  <2> DEFINE src == [host.src EXCEPT ![r.cell] = r.arg]
             h == Committed(src)
             n == [request |-> r, base |-> None]
  <2>1. /\ host' = [h EXCEPT !.run = n, !.cut = FALSE]
        /\ work' = Safe(r.cell, r.arg) /\ wire' = wire
    BY <1>2, Zenon DEF Run
  <2>2. r.cell \in Cells /\ r.arg \in Texts
    BY DEF Requests
  <2>3. src \in [Cells -> Texts]
    BY <2>2 DEF HostRecord
  <2> HIDE DEF src
  <2>4. h \in HostRecord
    BY <2>3, CommittedFields
  <2>5. n \in RunRecord /\ n.request = r
    BY DEF RunRecord
  <2> HIDE DEF h, n
  <2>6. host' \in HostRecord /\ host'.run = n
    BY <2>1, <2>4, <2>5 DEF HostRecord
  <2>7. Safer(work')
    BY <2>1, <2>2, SafeStays DEF Safer
  <2>8. QED
    BY <2>1, <2>5, <2>6, <2>7 DEF Served
<1>3. QED
  BY <1>1, <1>2

LEMMA OtherServed ==
    ASSUME host \in HostRecord, work \in [Cells -> WorkRecord], NEW r \in Requests,
           Reload(r) \/ Restart(r) \/ Interrupt(r)
    PROVE  Served(r)
<1>1. /\ work' = work
      /\ Answer(r, TRUE, host') \/ Answer(r, TRUE, host)
  BY Zenon DEF Reload, Restart, Interrupt
<1>2. host' \in HostRecord /\ host'.run = host.run
  <2>1. CASE Reload(r)
    <3> DEFINE src == IF Conflict THEN host.outside ELSE host.src
    <3>1. src \in [Cells -> Texts]
      BY DEF HostRecord, Conflict
    <3>2. host' = [Committed(src) EXCEPT !.outside = None]
      BY <2>1 DEF Reload
    <3> HIDE DEF src
    <3>3. Committed(src) \in HostRecord /\ Committed(src).run = host.run
      BY <3>1, CommittedFields
    <3>4. QED
      BY <3>2, <3>3 DEF HostRecord
  <2>2. CASE Restart(r)
    BY <2>2 DEF Restart, HostRecord
  <2>3. CASE Interrupt(r)
    <3> DEFINE b == host.run # None
    <3>1. b \in BOOLEAN /\ host' = [host EXCEPT !.cut = b]
      BY <2>3 DEF Interrupt
    <3> HIDE DEF b
    <3>2. QED
      BY <3>1 DEF HostRecord
  <2>4. QED
    BY <2>1, <2>2, <2>3
<1>3. QED
  BY <1>1, <1>2, UnchangedWork, AnsweredServed

-----------------------------------------------------------------------------
(* The invariant. *)

PanelInv ==
    /\ PaneSound(pane)
    /\ host \in HostRecord
    /\ Placed(pane, wire, host.run)
    /\ WorkSound(pane, work)

LEMMA PanelInvInit == Init => PanelInv
<1> SUFFICES ASSUME Init  PROVE PanelInv
  OBVIOUS
<1> DEFINE e == [c \in Cells |-> NoDraft]
           n == [c \in Cells |-> NoWork]
<1>1. PICK present \in SUBSET Cells \ {{}}, path \in Paths \cup {None}, exists \in BOOLEAN :
         /\ host = [path |-> path, rev |-> 1, exists |-> exists, outside |-> None,
                    src |-> [c \in Cells |-> IF c \in present THEN Empty ELSE None],
                    run |-> None, cut |-> FALSE]
         /\ pane = [shown |-> IF path = None THEN NoDocument ELSE Document(host),
                    drafts |-> e,
                    calls |-> {}, busy |-> {}, out |-> <<>>, pending |-> None,
                    waiting |-> {}, all |-> None, owns |-> FALSE, dropped |-> FALSE]
  BY DEF Init
<1>2. wire = <<>> /\ work = n
  BY DEF Init
<1>3. host \in HostRecord /\ host.run = None
  <2> DEFINE s == [c \in Cells |-> IF c \in present THEN Empty ELSE None]
  <2>1. s \in [Cells -> Texts]
    BY PanelAssumption DEF Texts
  <2>2. host = [path |-> path, rev |-> 1, exists |-> exists, outside |-> None,
                src |-> s, run |-> None, cut |-> FALSE]
    BY <1>1
  <2> HIDE DEF s
  <2>3. QED
    BY <2>1, <2>2 DEF HostRecord
<1>4. pane.shown \in Doc
  <2>1. NoDocument \in Doc
    BY DEF NoDocument, Doc
  <2>2. Document(host) \in Doc
    BY <1>3 DEF Document, Doc, HostRecord, Texts
  <2>3. pane.shown \in {NoDocument, Document(host)}
    BY <1>1
  <2>4. QED
    BY <2>1, <2>2, <2>3
<1>5. /\ pane = [shown |-> pane.shown, drafts |-> e,
                 calls |-> {}, busy |-> {}, out |-> <<>>, pending |-> None,
                 waiting |-> {}, all |-> None, owns |-> FALSE, dropped |-> FALSE]
  BY <1>1
<1>6. e \in [Cells -> Drafts] /\ \A c \in Cells : DraftSound(e[c]) /\ e[c].value = None
  BY DEF NoDraft, Drafts, DraftSound, Texts
<1>7. n \in [Cells -> WorkRecord] /\ \A c \in Cells : n[c].safe
  BY DEF NoWork, WorkRecord, Texts
<1> HIDE DEF e, n
<1>8. <<>> \in Seq(Requests) /\ Len(<<>>) = 0 /\ <<>> \in Seq(AnswerRecord)
  OBVIOUS
<1>9. pane \in PaneRecord /\ pane.out = <<>> /\ pane.calls = {} /\ pane.busy = {} /\ pane.drafts = e
  <2> DEFINE o == <<>>
             d == pane.shown
  <2>1. pane = [shown |-> d, drafts |-> e, calls |-> {}, busy |-> {}, out |-> o,
                pending |-> None, waiting |-> {}, all |-> None, owns |-> FALSE,
                dropped |-> FALSE]
    BY <1>5
  <2>2. o \in Seq(Requests) /\ d \in Doc
    BY <1>4
  <2> HIDE DEF o, d
  <2>3. pane \in PaneRecord
    BY <1>6, <2>1, <2>2 DEF PaneRecord
  <2>4. pane.out = o /\ pane.calls = {} /\ pane.busy = {} /\ pane.drafts = e
    BY <2>1
  <2>5. QED
    BY <2>3, <2>4 DEF o
<1>10. PaneSound(pane)
  <2>1. \A x : ~In(x, <<>>)
    BY DEF In
  <2>2. Distinct(<<>>)
    BY DEF Distinct
  <2>3. QED
    BY <1>6, <1>9, <2>1, <2>2 DEF PaneSound
<1>11. Placed(pane, wire, host.run)
  BY <1>2, <1>3, <1>8 DEF Placed
<1>12. WorkSound(pane, work)
  BY <1>2, <1>7 DEF WorkSound
<1>13. QED
  BY <1>3, <1>10, <1>11, <1>12 DEF PanelInv

(* The user asks for something: the panel grows. *)
LEMMA Asked ==
    ASSUME PanelInv, NEW p, PaneSound(p), Grows(pane, p), Asks(p), work' = work
    PROVE  PanelInv'
<1>1. pane' = p /\ host' = host /\ wire' = wire /\ work' = work
  BY DEF Asks
<1>2. Placed(p, wire, host.run)
  BY PlacedFurther DEF PanelInv
<1>3. p.shown = pane.shown /\ p.drafts = pane.drafts
  BY DEF Grows
<1>4. WorkSound(p, work)
  <2>1. WorkSound(pane, work) /\ work \in [Cells -> WorkRecord]
    BY DEF PanelInv, WorkSound
  <2>2. QED
    BY <1>3, <2>1, WorkStays
<1>5. QED
  BY <1>1, <1>2, <1>4 DEF PanelInv

(* A draft takes another value, or goes. *)
OneDraft(q, c, d) ==
    /\ PaneSound(q)
    /\ q.shown = pane.shown /\ q.calls = pane.calls /\ q.out = pane.out
    /\ q.drafts[c] = d
    /\ \A b \in Cells \ {c} : q.drafts[b] = pane.drafts[b]

LEMMA DraftSet ==
    ASSUME PaneSound(pane), NEW c \in Cells, NEW d, d \in Drafts /\ DraftSound(d)
    PROVE  OneDraft([pane EXCEPT !.drafts[c] = d], c, d)
<1> DEFINE q == [pane EXCEPT !.drafts[c] = d]
           e == [pane.drafts EXCEPT ![c] = d]
<1>1. pane \in PaneRecord /\ \A b \in Cells : DraftSound(pane.drafts[b])
  BY DEF PaneSound
<1>2. /\ e \in [Cells -> Drafts] /\ e[c] = d
      /\ \A b \in Cells \ {c} : e[b] = pane.drafts[b]
  BY <1>1 DEF PaneRecord
<1>3. \A b \in Cells : DraftSound(e[b])
  BY <1>1, <1>2
<1>4. q = [pane EXCEPT !.drafts = e]
  OBVIOUS
<1> HIDE DEF e
<1>5. /\ q \in PaneRecord /\ q.drafts = e /\ q.calls = pane.calls /\ q.busy = pane.busy
      /\ q.out = pane.out /\ q.shown = pane.shown
  BY <1>1, <1>2, <1>4 DEF PaneRecord
<1> HIDE DEF q
<1>6. PaneSound(q)
  BY <1>3, <1>5 DEF PaneSound
<1>7. OneDraft(q, c, d)
  BY <1>2, <1>5, <1>6 DEF OneDraft
<1>8. QED
  BY <1>7 DEF q

LEMMA SamePlaces ==
    ASSUME NEW p, NEW q, NEW w, NEW run, Placed(p, w, run), q.calls = p.calls, q.out = p.out
    PROVE  Placed(q, w, run)
BY DEF Placed

LEMMA UserTypesInv ==
    ASSUME PanelInv, NEW c \in Cells, NEW value \in Sources, UserTypes(c, value)
    PROVE  PanelInv'
<1> DEFINE d == Typed(c, value)
           s == value = pane.shown.src[c]
           v == [value |-> value, safe |-> s]
<1>1. /\ pane' = [pane EXCEPT !.drafts[c] = d]
      /\ work' = [work EXCEPT ![c] = v]
      /\ host' = host /\ wire' = wire /\ Shows(pane, c)
  BY DEF UserTypes
<1>2. d \in Drafts /\ DraftSound(d)
  BY DEF Typed, Drafts, DraftSound, NoDraft, Texts
<1>3. s \/ d.value = value
  BY DEF Typed
<1>4. s \in BOOLEAN
  OBVIOUS
<1> HIDE DEF d
<1>5. /\ PaneSound(pane')
      /\ pane'.shown = pane.shown /\ pane'.calls = pane.calls /\ pane'.out = pane.out
      /\ pane'.drafts[c] = d
      /\ \A b \in Cells \ {c} : pane'.drafts[b] = pane.drafts[b]
  <2>1. PaneSound(pane)
    BY DEF PanelInv
  <2>2. OneDraft([pane EXCEPT !.drafts[c] = d], c, d)
    BY <1>2, <2>1, DraftSet
  <2>3. OneDraft(pane', c, d)
    BY <1>1, <2>2
  <2>4. QED
    BY <2>3 DEF OneDraft
<1>6. Placed(pane', wire, host.run)
  BY <1>5, SamePlaces DEF PanelInv
<1>7. v \in WorkRecord /\ v.value = value /\ v.safe = s
  BY <1>4 DEF WorkRecord, Texts
<1> HIDE DEF v
<1>8. work \in [Cells -> WorkRecord] /\ WorkSound(pane, work)
  BY DEF PanelInv, WorkSound
<1>9. /\ work' \in [Cells -> WorkRecord] /\ work'[c] = v
      /\ \A b \in Cells \ {c} : work'[b] = work[b]
  BY <1>1, <1>7, <1>8
<1>10. ASSUME NEW b \in Cells
       PROVE  /\ work'[b].safe \/ pane'.drafts[b].value = work'[b].value
              /\ pane'.shown.src[b] = work'[b].value => work'[b].safe
  <2>1. CASE b = c
    BY <1>3, <1>5, <1>7, <1>9, <2>1, Zenon DEF s
  <2>2. CASE b # c
    <3>1. work'[b] = work[b] /\ pane'.drafts[b] = pane.drafts[b] /\ pane'.shown = pane.shown
      BY <1>5, <1>9, <2>2
    <3>2. QED
      BY <1>8, <3>1, Zenon DEF WorkSound
  <2>3. QED
    BY <2>1, <2>2
<1>11. WorkSound(pane', work')
  BY <1>9, <1>10 DEF WorkSound
<1>12. QED
  BY <1>1, <1>5, <1>6, <1>11 DEF PanelInv

LEMMA UserLeavesInv ==
    ASSUME PanelInv, NEW c \in Cells, UserLeaves(c)
    PROVE  PanelInv'
<1> DEFINE value == pane.drafts[c].value
           r == [kind |-> "edit", cell |-> c, arg |-> value]
           q == [pane EXCEPT !.drafts[c] = NoDraft]
<1>1. PaneSound(pane) /\ pane \in PaneRecord /\ WorkSound(pane, work) /\ work' = work
  BY DEF PanelInv, PaneSound, UserLeaves
<1>2. CASE value = pane.shown.src[c] /\ Asks(q)
  <2>1. NoDraft \in Drafts /\ DraftSound(NoDraft)
    BY DEF Drafts, DraftSound, NoDraft, Texts
  <2>2. pane' = q /\ host' = host /\ wire' = wire
    BY <1>2 DEF Asks
  <2>3. /\ PaneSound(q)
        /\ q.shown = pane.shown /\ q.calls = pane.calls /\ q.out = pane.out
        /\ \A b \in Cells \ {c} : q.drafts[b] = pane.drafts[b]
    <3>1. OneDraft(q, c, NoDraft)
      BY <1>1, <2>1, DraftSet
    <3> HIDE DEF q
    <3>2. QED
      BY <3>1 DEF OneDraft
  <2> HIDE DEF q
  <2>4. Placed(q, wire, host.run)
    BY <2>3, SamePlaces DEF PanelInv
  <2>5. work[c].safe
    BY <1>1, <1>2 DEF WorkSound
  <2>6. WorkSound(q, work)
    BY <1>1, <2>3, <2>5 DEF WorkSound
  <2>7. QED
    BY <1>1, <2>2, <2>3, <2>4, <2>6 DEF PanelInv
<1>3. CASE Asks(Submit(pane, r))
  <2>1. r \in Requests
    <3>1. value \in Texts /\ value \in Sources
      BY <1>1 DEF PaneRecord, Drafts, PaneSound, DraftSound, UserLeaves
    <3> HIDE DEF value
    <3>2. QED
      BY <3>1 DEF Requests, Request, Kinds
  <2> HIDE DEF r
  <2>2. QED
    BY <1>1, <1>3, <2>1, Submitted, Asked
<1>4. QED
  BY <1>2, <1>3 DEF UserLeaves

LEMMA SeenIsText ==
    ASSUME PaneSound(pane), NEW c \in Cells
    PROVE  Seen(pane, c) \in Texts
<1>1. pane \in PaneRecord
  BY DEF PaneSound
<1>2. pane.drafts[c].value \in Texts /\ pane.shown.src[c] \in Texts
  BY <1>1 DEF PaneRecord, Drafts, Doc, Texts
<1>3. QED
  BY <1>2, Zenon DEF Seen

LEMMA UserInv ==
    ASSUME PanelInv, User
    PROVE  PanelInv'
<1>1. PaneSound(pane) /\ pane \in PaneRecord
  BY DEF PanelInv, PaneSound
<1>2. ASSUME NEW c \in Cells, UserRuns(c)  PROVE PanelInv'
  <2>1. Asks(RunCell(pane, c, Seen(pane, c), FALSE)) /\ work' = work
    BY <1>2 DEF UserRuns
  <2>2. QED
    BY <1>1, <2>1, SeenIsText, Runs, Asked
<1>3. ASSUME NEW c \in Cells, NEW kind \in {"delete", "move", "copy"}, UserMutates(kind, c)
      PROVE  PanelInv'
  <2> DEFINE r == [kind |-> kind, cell |-> c, arg |-> None]
  <2>1. Asks(Submit(pane, r)) /\ work' = work
    BY <1>3 DEF UserMutates
  <2>2. r \in Requests
    BY DEF Requests, Request, Kinds, Texts
  <2> HIDE DEF r
  <2>3. QED
    BY <1>1, <2>1, <2>2, Submitted, Asked
<1>4. ASSUME NEW kind \in {"insert", "restart", "reload", "interrupt"}, UserAsks(kind)
      PROVE  PanelInv'
  <2> DEFINE r == [kind |-> kind, cell |-> None, arg |-> None]
  <2>1. Asks(Submit(pane, r)) /\ work' = work
    BY <1>4 DEF UserAsks
  <2>2. r \in Requests
    BY DEF Requests, Request, Kinds, Texts
  <2> HIDE DEF r
  <2>3. QED
    BY <1>1, <2>1, <2>2, Submitted, Asked
<1>5. ASSUME NEW kind \in {"open", "create"}, NEW path \in Paths, UserSubmits(kind, path)
      PROVE  PanelInv'
  <2> DEFINE r == [kind |-> kind, cell |-> None, arg |-> path]
             p == [pane EXCEPT !.pending = path]
  <2>1. Asks(Submit(p, r)) /\ work' = work
    BY <1>5 DEF UserSubmits
  <2>2. r \in Requests
    BY DEF Requests, Request, Kinds, Texts
  <2>3. Still(pane, p)
    BY <1>1 DEF Still, PaneRecord
  <2> HIDE DEF r, p
  <2>4. PaneSound(p) /\ Grows(pane, p)
    BY <1>1, <2>3, StillSound
  <2>5. PaneSound(Submit(p, r)) /\ Grows(p, Submit(p, r))
    BY <2>2, <2>4, Submitted
  <2>6. Grows(pane, Submit(p, r))
    BY <2>4, <2>5, GrowsFurther
  <2>7. QED
    BY <2>1, <2>5, <2>6, Asked
<1>6. ASSUME UserRunsAll  PROVE PanelInv'
  <2> DEFINE codeCells == {c \in Cells : Shows(pane, c)}
             sources == [c \in Cells |-> Seen(pane, c)]
             all == [left |-> codeCells, sources |-> sources]
             p == [pane EXCEPT !.all = all]
  <2>1. PICK c \in codeCells : Asks(RunNext(p, c))
    BY <1>6 DEF UserRunsAll
  <2>2. work' = work /\ pane.all = None /\ c \in Cells
    BY <1>6 DEF UserRunsAll
  <2>3. all \in AllRecord
    <3>1. codeCells \in SUBSET Cells /\ sources \in [Cells -> Texts]
      BY <1>1, SeenIsText
    <3> HIDE DEF codeCells, sources
    <3>2. QED
      BY <3>1 DEF AllRecord
  <2> HIDE DEF all
  <2>4. Still(pane, p) /\ p.all = all
    BY <1>1, <2>3 DEF Still, PaneRecord
  <2> HIDE DEF p
  <2>5. PaneSound(p) /\ Grows(pane, p)
    BY <1>1, <2>4, StillSound
  <2>6. PaneSound(RunNext(p, c)) /\ Grows(p, RunNext(p, c))
    BY <2>2, <2>3, <2>4, <2>5, RunsNext
  <2>7. Grows(pane, RunNext(p, c))
    BY <2>5, <2>6, GrowsFurther
  <2>8. QED
    BY <2>1, <2>2, <2>6, <2>7, Asked
<1>7. QED
  BY <1>2, <1>3, <1>4, <1>5, <1>6, UserTypesInv, UserLeavesInv DEF User

LEMMA ServeInv ==
    ASSUME PanelInv, NEW i \in 1 .. Len(pane.out), Serve(i)
    PROVE  PanelInv'
<1> DEFINE r == pane.out[i]
           q == [pane EXCEPT !.out = RemoveAt(@, i)]
<1>1. PaneSound(pane) /\ Placed(pane, wire, host.run) /\ WorkSound(pane, work)
  BY DEF PanelInv
<1>2. host \in HostRecord /\ work \in [Cells -> WorkRecord]
  BY DEF PanelInv, WorkSound
<1>3. /\ r \in Requests
      /\ PaneSound(q) /\ q.shown = pane.shown /\ q.drafts = pane.drafts
      /\ Placed(q, wire, host.run)
      /\ r \in q.calls /\ ~In(r, q.out)
      /\ \A j \in 1 .. Len(wire) : wire[j].request # r
      /\ host.run # None => host.run.request # r
  BY <1>1, RequestTaken
<1>4. pane' = q
  BY DEF Serve
<1>5. \/ r.kind \in {"open", "create"} /\ (Open(r) \/ Create(r))
      \/ r.kind = "run" /\ Run(r)
      \/ Reload(r) \/ Restart(r) \/ Interrupt(r)
      \/ r.kind \in {"edit", "insert", "delete", "move", "copy"} /\ Mutate(r)
  <2>1. r.kind \in Kinds
    BY <1>3, RequestFields
  <2>2. \/ r.kind = "open" /\ Open(r)
        \/ r.kind = "create" /\ Create(r)
        \/ r.kind = "run" /\ Run(r)
        \/ Reload(r) \/ Restart(r) \/ Interrupt(r)
        \/ /\ Mutate(r)
           /\ r.kind \notin {"open", "create", "run", "reload", "restart", "interrupt"}
    BY Zenon DEF Serve
  <2> HIDE DEF r
  <2>3. QED
    BY <2>1, <2>2, Zenon DEF Kinds
<1> HIDE DEF r, q
<1>6. Served(r)
  BY <1>2, <1>3, <1>5, LaunchersServed, RunServed, OtherServed, MutationServed
<1>7. Placed(q, wire', host'.run)
  <2>1. CASE host'.run = host.run /\ Answers(r)
    <3>1. PICK a \in AnswerRecord : a.request = r /\ wire' = Append(wire, a)
      BY <2>1 DEF Answers
    <3>2. Placed(q, Append(wire, a), host.run)
      BY <1>3, <3>1, AnswerPlaced
    <3>3. QED
      BY <2>1, <3>1, <3>2
  <2>2. CASE host'.run.request = r /\ wire' = wire
    BY <1>3, <2>2 DEF Placed
  <2>3. QED
    BY <1>6, <2>1, <2>2 DEF Served
<1>8. WorkSound(q, work')
  BY <1>1, <1>3, <1>6, WorkStays DEF Served, Safer
<1>9. QED
  BY <1>3, <1>4, <1>6, <1>7, <1>8 DEF PanelInv, Served

LEMMA CallFailsInv ==
    ASSUME PanelInv, NEW i \in 1 .. Len(pane.out), CallFails(i)
    PROVE  PanelInv'
<1> DEFINE r == pane.out[i]
           q == [pane EXCEPT !.out = RemoveAt(@, i)]
<1>1. PaneSound(pane) /\ Placed(pane, wire, host.run) /\ WorkSound(pane, work)
  BY DEF PanelInv
<1>2. host \in HostRecord /\ work \in [Cells -> WorkRecord]
  BY DEF PanelInv, WorkSound
<1>3. /\ r \in Requests
      /\ PaneSound(q) /\ q.shown = pane.shown /\ q.drafts = pane.drafts
      /\ Placed(q, wire, host.run)
      /\ r \in q.calls /\ ~In(r, q.out)
      /\ \A j \in 1 .. Len(wire) : wire[j].request # r
      /\ host.run # None => host.run.request # r
  BY <1>1, RequestTaken
<1>4. pane' = q /\ host' = host /\ work' = work /\ Answer(r, FALSE, host)
  BY DEF CallFails
<1> HIDE DEF r, q
<1>5. Answers(r)
  BY <1>2, <1>3, <1>4, AnswerAnswers
<1>6. PICK a \in AnswerRecord : a.request = r /\ wire' = Append(wire, a)
  BY <1>5 DEF Answers
<1>7. Placed(q, Append(wire, a), host.run)
  BY <1>3, <1>6, AnswerPlaced
<1>8. WorkSound(q, work)
  BY <1>1, <1>2, <1>3, WorkStays
<1>9. QED
  BY <1>2, <1>3, <1>4, <1>6, <1>7, <1>8 DEF PanelInv

(* The run at the kernel goes on, or is over and answered. *)
LEMMA RunInv ==
    ASSUME PanelInv, host.run # None, pane' = pane, work' = work, host' \in HostRecord,
           \/ host'.run.request = host.run.request /\ wire' = wire
           \/ host'.run = None /\ Answers(host.run.request)
    PROVE  PanelInv'
<1> DEFINE r == host.run.request
<1>1. Placed(pane, wire, host.run)
  BY DEF PanelInv
<1>2. /\ r \in pane.calls /\ ~In(r, pane.out)
      /\ \A j \in 1 .. Len(wire) : wire[j].request # r
  BY <1>1 DEF Placed
<1>3. Placed(pane, wire', host'.run)
  <2>1. CASE host'.run.request = host.run.request /\ wire' = wire
    BY <1>1, <1>2, <2>1 DEF Placed
  <2>2. CASE host'.run = None /\ Answers(r)
    <3>1. PICK a \in AnswerRecord : a.request = r /\ wire' = Append(wire, a)
      BY <2>2 DEF Answers
    <3>2. Placed(pane, Append(wire, a), None)
      BY <1>1, <1>2, <3>1, AnswerPlaced
    <3>3. QED
      BY <2>2, <3>1, <3>2
  <2>3. QED
    BY <2>1, <2>2
<1>4. QED
  BY <1>3 DEF PanelInv

LEMMA RunStartsInv == PanelInv /\ RunStarts => PanelInv'
<1> SUFFICES ASSUME PanelInv, RunStarts  PROVE PanelInv'
  OBVIOUS
<1>1. host \in HostRecord /\ host.run # None /\ pane' = pane /\ work' = work
  BY DEF PanelInv, RunStarts
<1>2. host.run \in RunRecord /\ host.run.request \in Requests
  BY <1>1 DEF HostRecord, RunRecord
<1>3. CASE host' = [host EXCEPT !.run = None] /\ Answer(host.run.request, FALSE, host)
  <2>1. host' \in HostRecord /\ host'.run = None
    BY <1>1, <1>3 DEF HostRecord
  <2>2. Answers(host.run.request)
    BY <1>1, <1>2, <1>3, AnswerAnswers
  <2>3. QED
    BY <1>1, <2>1, <2>2, RunInv
<1>4. CASE host' = [host EXCEPT !.run.base = host.rev] /\ wire' = wire
  <2> DEFINE n == [host.run EXCEPT !.base = host.rev]
  <2>1. n \in RunRecord /\ n.request = host.run.request
    BY <1>1, <1>2 DEF RunRecord, HostRecord
  <2>2. host' = [host EXCEPT !.run = n]
    BY <1>4
  <2> HIDE DEF n
  <2>3. host' \in HostRecord /\ host'.run = n
    BY <1>1, <2>1, <2>2 DEF HostRecord
  <2>4. QED
    BY <1>1, <1>4, <2>1, <2>3, RunInv
<1>5. QED
  BY <1>3, <1>4, Zenon DEF RunStarts

LEMMA RunEndsInv ==
    ASSUME PanelInv, NEW ended \in {"ok", "error", "cancelled"}, RunEnds(ended)
    PROVE  PanelInv'
<1>1. host \in HostRecord /\ host.run # None /\ pane' = pane /\ work' = work
  BY DEF PanelInv, RunEnds
<1>2. host.run \in RunRecord /\ host.run.request \in Requests
  BY <1>1 DEF HostRecord, RunRecord
<1>3. CASE host' = [host EXCEPT !.run = None] /\ Answer(host.run.request, FALSE, host)
  <2>1. host' \in HostRecord /\ host'.run = None
    BY <1>1, <1>3 DEF HostRecord
  <2>2. Answers(host.run.request)
    BY <1>1, <1>2, <1>3, AnswerAnswers
  <2>3. QED
    BY <1>1, <2>1, <2>2, RunInv
<1>4. CASE /\ host' = [host EXCEPT !.run = None, !.rev = @ + 1]
           /\ wire' = Append(wire, [request |-> host.run.request, ok |-> TRUE,
                                    ended |-> ended, doc |-> Document(host')])
  <2> DEFINE n == host.rev + 1
             d == Document(host')
             a == [request |-> host.run.request, ok |-> TRUE, ended |-> ended, doc |-> d]
  <2>1. n \in Nat /\ host' = [host EXCEPT !.run = None, !.rev = n]
    BY <1>1, <1>4 DEF HostRecord
  <2> HIDE DEF n
  <2>2. host' \in HostRecord /\ host'.run = None
    BY <1>1, <2>1 DEF HostRecord
  <2>3. d \in Doc
    BY <2>2 DEF Document, Doc, HostRecord, Texts
  <2>4. wire' = Append(wire, a)
    BY <1>4
  <2> HIDE DEF d
  <2>5. a \in AnswerRecord /\ a.request = host.run.request
    BY <1>2, <2>3 DEF AnswerRecord
  <2> HIDE DEF a
  <2>6. Answers(host.run.request)
    BY <2>4, <2>5 DEF Answers
  <2>7. QED
    BY <1>1, <2>2, <2>6, RunInv
<1>5. QED
  BY <1>3, <1>4, Zenon DEF RunEnds

LEMMA ReceiveInv == PanelInv /\ Receive => PanelInv'
<1> SUFFICES ASSUME PanelInv, Receive  PROVE PanelInv'
  OBVIOUS
<1> DEFINE a == Head(wire)
           r == a.request
<1>1. PaneSound(pane) /\ Placed(pane, wire, host.run) /\ WorkSound(pane, work)
  BY DEF PanelInv
<1>2. PICK p \in IF Thrown(a) THEN Fails(r) ELSE Succeeds(r, a.doc, a.ended) :
         /\ pane' = IF Thrown(a) \/ r.kind = "interrupt" THEN p ELSE Render(p)
         /\ work' = IF ~Thrown(a) /\ r.kind = "reload" THEN [c \in Cells |-> NoWork]
                    ELSE Kept(pane')
  BY DEF Receive
<1>3. wire # <<>> /\ wire' = Tail(wire) /\ host' = host
  BY DEF Receive
<1>4. /\ a \in AnswerRecord /\ r \in pane.calls /\ ~In(r, pane.out)
      /\ \A q : Goes(r, q) => Placed(q, Tail(wire), host.run)
  BY <1>1, <1>3, AnswerArrives
<1>5. r \in Requests /\ a.doc \in Doc
  BY <1>4 DEF AnswerRecord
<1> HIDE DEF a, r
<1>6. Goes(r, p) /\ (KeepsValues(p) \/ (~Thrown(a) /\ r.kind = "reload"))
  <2>1. CASE Thrown(a)
    <3>1. p \in Fails(r)
      BY <1>2, <2>1, Zenon
    <3>2. Comes(r, p)
      BY <1>1, <1>4, <1>5, <3>1, FailedComes
    <3>3. QED
      BY <3>2 DEF Comes
  <2>2. CASE ~Thrown(a)
    <3>1. p \in Succeeds(r, a.doc, a.ended)
      BY <1>2, <2>2, Zenon
    <3>2. Goes(r, p) /\ (r.kind # "reload" => KeepsValues(p))
      BY <1>1, <1>4, <1>5, <3>1, SucceededGoes
    <3>3. QED
      BY <2>2, <3>2
  <2>3. QED
    BY <2>1, <2>2
<1>7. /\ Goes(r, pane') /\ pane'.shown = p.shown
      /\ \/ pane'.drafts = p.drafts
         \/ pane'.drafts = [c \in Cells |-> IF Stays(p, c) THEN p.drafts[c] ELSE NoDraft]
  <2>1. CASE pane' = p
    BY <1>6, <2>1
  <2>2. CASE pane' = Render(p)
    <3>1. /\ Goes(r, Render(p)) /\ Render(p).shown = p.shown
          /\ Render(p).drafts = [c \in Cells |-> IF Stays(p, c) THEN p.drafts[c] ELSE NoDraft]
      BY <1>6, RenderedGoes
    <3>2. QED
      BY <2>2, <3>1
  <2>3. QED
    BY <1>2, <2>1, <2>2, Zenon
<1>8. WorkSound(pane', work')
  <2>1. CASE ~Thrown(a) /\ r.kind = "reload"
    <3>1. work' = [c \in Cells |-> NoWork]
      BY <1>2, <2>1, Zenon
    <3>2. QED
      BY <3>1 DEF WorkSound, WorkRecord, NoWork, Texts
  <2>2. CASE ~(~Thrown(a) /\ r.kind = "reload")
    <3>1. work' = Kept(pane')
      BY <1>2, <2>2, Zenon
    <3>2. PaneSound(p) /\ KeepsValues(p)
      BY <1>6, <2>2 DEF Goes
    <3>3. WorkSound(pane', Kept(pane'))
      BY <1>1, <1>7, <3>2, KeptIsSound
    <3>4. QED
      BY <3>1, <3>3
  <2>3. QED
    BY <2>1, <2>2
<1>9. Placed(pane', wire', host'.run)
  BY <1>3, <1>4, <1>7
<1>10. QED
  BY <1>3, <1>7, <1>8, <1>9 DEF PanelInv, Goes

LEMMA EventsInv == PanelInv /\ EventsArrive => PanelInv'
<1> SUFFICES ASSUME PanelInv, EventsArrive  PROVE PanelInv'
  OBVIOUS
<1> DEFINE d == Document(host)
           p == [pane EXCEPT !.shown = d]
<1>1. /\ PaneSound(pane) /\ pane \in PaneRecord /\ host \in HostRecord
      /\ Placed(pane, wire, host.run) /\ WorkSound(pane, work)
  BY DEF PanelInv, PaneSound
<1>2. pane' = Render(p) /\ work' = Kept(pane') /\ host' = host /\ wire' = wire
  BY DEF EventsArrive
<1>3. d \in Doc
  BY <1>1 DEF Document, Doc, HostRecord, Texts
<1> HIDE DEF d
<1>4. /\ p \in PaneRecord /\ p.drafts = pane.drafts /\ p.calls = pane.calls
      /\ p.busy = pane.busy /\ p.out = pane.out
  BY <1>1, <1>3 DEF PaneRecord
<1> HIDE DEF p
<1>5. PaneSound(p) /\ KeepsValues(p)
  BY <1>1, <1>4 DEF PaneSound, KeepsValues
<1>6. ASSUME NEW x  PROVE Goes(x, p)
  BY <1>4, <1>5 DEF Goes
<1>7. ASSUME NEW x
      PROVE  /\ Goes(x, Render(p)) /\ Render(p).shown = p.shown
             /\ Render(p).drafts = [c \in Cells |-> IF Stays(p, c) THEN p.drafts[c] ELSE NoDraft]
  BY <1>6, RenderedGoes
<1>8. WorkSound(pane', work')
  BY <1>1, <1>2, <1>5, <1>7, KeptIsSound
<1>9. Render(p).calls = pane.calls /\ Render(p).out = pane.out
  <2> DEFINE s == [c \in Cells |-> IF Stays(p, c) THEN p.drafts[c] ELSE NoDraft]
             n == IF Awaited(p) THEN p.pending ELSE None
  <2>1. Render(p) = [p EXCEPT !.drafts = s, !.pending = n]
    BY DEF Render
  <2> HIDE DEF s, n
  <2>2. QED
    BY <1>4, <2>1 DEF PaneRecord
<1>10. Placed(Render(p), wire, host.run)
  BY <1>1, <1>9, SamePlaces
<1>11. QED
  BY <1>1, <1>2, <1>7, <1>8, <1>10 DEF PanelInv, Goes

(* The agent and other programs change the notebook of the Host only. *)
LEMMA OthersInv == PanelInv /\ Others => PanelInv'
<1> SUFFICES ASSUME PanelInv, Others  PROVE PanelInv'
  OBVIOUS
<1>1. wire' = wire /\ pane' = pane /\ work' = work /\ host \in HostRecord
  BY DEF Others, PanelInv
<1>2. host.src \in [Cells -> Texts] /\ None \in Texts
  BY <1>1 DEF HostRecord, Texts
<1>3. host' \in HostRecord /\ host'.run = host.run
  <2>1. ASSUME NEW path \in Paths, AgentOpens(path)
        PROVE  host' \in HostRecord /\ host'.run = host.run
    BY <1>1, <2>1 DEF AgentOpens, HostRecord
  <2>2. ASSUME NEW c \in Cells, NEW source \in Sources, AgentEdits(c, source)
        PROVE  host' \in HostRecord /\ host'.run = host.run
    <3>1. [host.src EXCEPT ![c] = source] \in [Cells -> Texts]
      BY <1>2 DEF Texts
    <3>2. QED
      BY <1>1, <2>2, <3>1, CommittedFields DEF AgentEdits
  <2>3. ASSUME NEW c \in Cells, AgentDeletes(c)
        PROVE  host' \in HostRecord /\ host'.run = host.run
    <3>1. [host.src EXCEPT ![c] = None] \in [Cells -> Texts]
      BY <1>2
    <3>2. QED
      BY <1>1, <2>3, <3>1, CommittedFields DEF AgentDeletes
  <2>4. ASSUME OthersWrite  PROVE host' \in HostRecord /\ host'.run = host.run
    <3>1. PICK c \in Cells, source \in Sources :
             host' = [host EXCEPT !.outside = [host.src EXCEPT ![c] = source]]
      BY <2>4 DEF OthersWrite
    <3> DEFINE s == [host.src EXCEPT ![c] = source]
    <3>2. s \in [Cells -> Texts]
      BY <1>2 DEF Texts
    <3> HIDE DEF s
    <3>3. host' = [host EXCEPT !.outside = s]
      BY <3>1 DEF s
    <3>4. QED
      BY <1>1, <3>2, <3>3 DEF HostRecord
  <2>5. QED
    BY <2>1, <2>2, <2>3, <2>4 DEF Others
<1>4. QED
  BY <1>1, <1>3 DEF PanelInv

LEMMA AnswerLostInv ==
    ASSUME PanelInv, NEW i \in 1 .. Len(wire), AnswerLost(i)
    PROVE  PanelInv'
<1> DEFINE w == wire
           n == [w[i] EXCEPT !.ok = FALSE]
           t == [w EXCEPT ![i] = n]
<1>1. Placed(pane, w, host.run) /\ w \in Seq(AnswerRecord) /\ i \in 1 .. Len(w)
  BY DEF PanelInv, Placed
<1>2. host' = host /\ pane' = pane /\ work' = work /\ wire' = t
  BY DEF AnswerLost
<1> HIDE DEF w
<1>3. w[i] \in AnswerRecord
  BY <1>1
<1>4. n \in AnswerRecord /\ n.request = w[i].request
  BY <1>3 DEF AnswerRecord
<1> HIDE DEF n
<1>5. /\ t \in Seq(AnswerRecord) /\ Len(t) = Len(w)
      /\ \A j \in 1 .. Len(w) : t[j] = IF j = i THEN n ELSE w[j]
  BY <1>1, <1>4
<1> HIDE DEF t
<1>6. \A j \in 1 .. Len(w) : t[j].request = w[j].request
  BY <1>4, <1>5
<1>7. Placed(pane, t, host.run)
  BY <1>1, <1>5, <1>6 DEF Placed
<1>8. QED
  BY <1>2, <1>7 DEF PanelInv

LEMMA PanelInvNext == PanelInv /\ [Next]_vars => PanelInv'
<1> SUFFICES ASSUME PanelInv, [Next]_vars  PROVE PanelInv'
  OBVIOUS
<1>1. pane.out \in Seq(Requests) /\ wire \in Seq(AnswerRecord)
  BY DEF PanelInv, PaneSound, PaneRecord, Placed
<1>2. DOMAIN pane.out = 1 .. Len(pane.out) /\ DOMAIN wire = 1 .. Len(wire)
  BY <1>1
<1>3. CASE User
  BY <1>3, UserInv
<1>4. CASE Host
  <2>1. CASE \E i \in DOMAIN pane.out : Serve(i)
    BY <1>2, <2>1, ServeInv
  <2>2. QED
    BY <1>4, <2>1, RunStartsInv, RunEndsInv DEF Host
<1>5. CASE Receive
  BY <1>5, ReceiveInv
<1>6. CASE EventsArrive
  BY <1>6, EventsInv
<1>7. CASE Others
  BY <1>7, OthersInv
<1>8. CASE \E i \in DOMAIN pane.out : CallFails(i)
  BY <1>2, <1>8, CallFailsInv
<1>9. CASE \E i \in DOMAIN wire : AnswerLost(i)
  BY <1>2, <1>9, AnswerLostInv
<1>10. CASE UNCHANGED vars
  BY <1>10 DEF vars, PanelInv
<1>11. QED
  BY <1>3, <1>4, <1>5, <1>6, <1>7, <1>8, <1>9, <1>10 DEF Next

-----------------------------------------------------------------------------
(* What was typed last in a cell is in its draft until the Host or the     *)
(* document shown has it: no answer that arrives meanwhile, for whichever  *)
(* request and with whichever document, drops it, in a panel of any cells  *)
(* and sources and with any number of requests and faults (the effect on   *)
(* drafts, acknowledgeDraft and commit of NotebookView and                 *)
(* NotebookDocumentView).                                                  *)
THEOREM TypedWorkStays == Spec => []TypedWorkIsKept
<1>1. PanelInv => TypedWorkIsKept
  <2> SUFFICES ASSUME PanelInv  PROVE TypedWorkIsKept
    OBVIOUS
  <2>1. PaneSound(pane) /\ pane \in PaneRecord /\ host \in HostRecord
    BY DEF PanelInv, PaneSound
  <2>2. pane.out \in Seq(Requests) /\ wire \in Seq(AnswerRecord)
    BY <2>1 DEF PanelInv, Placed, PaneRecord
  <2>3. pane.shown \in Doc /\ pane.calls \subseteq Request
    BY <2>1 DEF PaneRecord, Requests
  <2>4. pane.drafts \in [Cells -> Draft]
    <3>1. ASSUME NEW c \in Cells  PROVE pane.drafts[c] \in Draft
      <4>1. pane.drafts[c] \in Drafts /\ DraftSound(pane.drafts[c])
        BY <2>1 DEF PaneRecord, PaneSound
      <4>2. QED
        BY <4>1 DEF Drafts, DraftSound, Draft, Texts
    <3>2. QED
      BY <2>1, <3>1 DEF PaneRecord
  <2>5. \A i \in DOMAIN pane.out : pane.out[i] \in pane.calls
    <3>1. \A i \in 1 .. Len(pane.out) : In(pane.out[i], pane.out)
      BY DEF In
    <3>2. DOMAIN pane.out = 1 .. Len(pane.out)
      BY <2>2
    <3>3. QED
      BY <2>1, <3>1, <3>2 DEF PaneSound
  <2>6. \A i \in DOMAIN wire : wire[i].request \in pane.calls /\ wire[i].doc \in Doc
    <3>1. DOMAIN wire = 1 .. Len(wire) /\ \A i \in 1 .. Len(wire) : wire[i] \in AnswerRecord
      BY <2>2
    <3>2. QED
      BY <3>1 DEF PanelInv, Placed, AnswerRecord
  <2>7. host.rev \in Nat /\ host.src \in [Cells -> Sources \cup {None}]
    BY <2>1 DEF HostRecord, Texts
  <2>8. TypeOK
    BY <2>1, <2>3, <2>4, <2>5, <2>6, <2>7 DEF TypeOK, PaneSound
  <2>9. QED
    BY <2>8 DEF TypedWorkIsKept, PanelInv, WorkSound
<1>2. QED
  BY <1>1, PanelInvInit, PanelInvNext, PTL DEF Spec

-----------------------------------------------------------------------------
(* The panel and the Host.  Nobody but the panel writes as long as there   *)
(* are no faults, so that every change of the Host's document is answered  *)
(* with the document it leaves.  The last answer that matters is what the  *)
(* panel ends with: it brings the Host's document, or throws that of a run *)
(* away.                                                                   *)

Tells(a)   == ~Thrown(a) /\ a.request.kind # "interrupt"
Drops(a)   == Thrown(a) /\ a.request.kind = "run"
Matters(a) == Tells(a) \/ Drops(a)

LastWord(w, p, src) ==
    /\ \A i \in 1 .. Len(w) :
          Matters(w[i]) /\ (\A j \in 1 .. Len(w) : j > i => ~Matters(w[j]))
          => Drops(w[i]) \/ w[i].doc.src = src
    /\ (\A i \in 1 .. Len(w) : ~Matters(w[i]))
       => p.dropped \/ p.shown = NoDocument \/ p.shown.src = src

(* While a run is at the Host, its answer is still to come. *)
AtHost(p, w) ==
    \E r \in p.calls : /\ r.kind = "run" /\ ~In(r, p.out)
                      /\ \A i \in 1 .. Len(w) : w[i].request # r

AgreeInv ==
    /\ "faults" \in DOMAIN spent /\ spent.faults \in Nat
    /\ spent.faults = 0 /\ ~AtHost(pane, wire) => LastWord(wire, pane, host.src)

Alike(p, q) == DOMAIN q = DOMAIN p /\ q.shown = p.shown /\ q.dropped = p.dropped
IsPane(p) == {"shown", "dropped"} \subseteq DOMAIN p

(* An answer joins those on their way. *)
LEMMA WordAdded ==
    ASSUME NEW w \in Seq(AnswerRecord), NEW a \in AnswerRecord, NEW p, NEW src,
           \/ Drops(a) \/ (Tells(a) /\ a.doc.src = src)
           \/ ~Matters(a) /\ LastWord(w, p, src)
    PROVE  LastWord(Append(w, a), p, src)
<1> DEFINE t == Append(w, a)
<1>1. Len(t) = Len(w) + 1 /\ Len(w) \in Nat /\ t[Len(w) + 1] = a
  OBVIOUS
<1>2. \A i \in 1 .. Len(w) : t[i] = w[i]
  OBVIOUS
<1> HIDE DEF t
<1>3. \A i \in 1 .. Len(t) : i \in 1 .. Len(w) \/ i = Len(w) + 1
  BY <1>1
<1>4. Len(w) + 1 \in 1 .. Len(t) /\ \A i \in 1 .. Len(w) : i \in 1 .. Len(t) /\ Len(w) + 1 > i
  BY <1>1
<1>5. CASE Drops(a) \/ (Tells(a) /\ a.doc.src = src)
  <2>1. Matters(a)
    BY <1>5 DEF Matters
  <2>2. ASSUME NEW i \in 1 .. Len(t), Matters(t[i]),
               \A j \in 1 .. Len(t) : j > i => ~Matters(t[j])
        PROVE  Drops(t[i]) \/ t[i].doc.src = src
    <3>1. i = Len(w) + 1
      BY <1>1, <1>3, <1>4, <2>1, <2>2
    <3>2. QED
      BY <1>1, <1>5, <3>1
  <2>3. ~\A i \in 1 .. Len(t) : ~Matters(t[i])
    BY <1>1, <1>4, <2>1
  <2>4. QED
    BY <2>2, <2>3 DEF LastWord, t
<1>6. CASE ~Matters(a) /\ LastWord(w, p, src)
  <2>1. ASSUME NEW i \in 1 .. Len(t), Matters(t[i]),
               \A j \in 1 .. Len(t) : j > i => ~Matters(t[j])
        PROVE  Drops(t[i]) \/ t[i].doc.src = src
    <3>1. i \in 1 .. Len(w)
      BY <1>1, <1>3, <1>6, <2>1
    <3>2. t[i] = w[i] /\ \A j \in 1 .. Len(w) : j > i => ~Matters(w[j])
      BY <1>2, <1>4, <2>1, <3>1
    <3>3. QED
      BY <1>6, <2>1, <3>1, <3>2 DEF LastWord
  <2>2. ASSUME \A i \in 1 .. Len(t) : ~Matters(t[i])
        PROVE  p.dropped \/ p.shown = NoDocument \/ p.shown.src = src
    <3>1. \A i \in 1 .. Len(w) : ~Matters(w[i])
      BY <1>2, <1>4, <2>2
    <3>2. QED
      BY <1>6, <3>1 DEF LastWord
  <2>3. QED
    BY <2>1, <2>2 DEF LastWord, t
<1>7. QED
  BY <1>5, <1>6

(* The first of the answers is taken in. *)
LEMMA WordTaken ==
    ASSUME NEW w \in Seq(AnswerRecord), w # <<>>, NEW p, NEW q, NEW src, LastWord(w, p, src),
           Drops(Head(w)) => q.dropped,
           Tells(Head(w)) => q.shown = Head(w).doc,
           ~Matters(Head(w)) => Alike(p, q)
    PROVE  LastWord(Tail(w), q, src)
<1> DEFINE t == Tail(w)
<1>1. Len(w) \in Nat /\ Len(w) >= 1 /\ Head(w) = w[1] /\ Len(t) = Len(w) - 1
  OBVIOUS
<1>2. \A i \in 1 .. Len(t) : t[i] = w[i + 1]
  OBVIOUS
<1> HIDE DEF t
<1>3. /\ 1 \in 1 .. Len(w)
      /\ \A i \in 1 .. Len(t) : i + 1 \in 1 .. Len(w) /\ i \in Int
  BY <1>1
<1>4. \A i \in 1 .. Len(w) : i = 1 \/ (i - 1 \in 1 .. Len(t) /\ (i - 1) + 1 = i)
  BY <1>1
<1>5. ASSUME NEW i \in 1 .. Len(t), Matters(t[i]),
             \A j \in 1 .. Len(t) : j > i => ~Matters(t[j])
      PROVE  Drops(t[i]) \/ t[i].doc.src = src
  <2>1. t[i] = w[i + 1] /\ i + 1 \in 1 .. Len(w)
    BY <1>2, <1>3
  <2>2. ASSUME NEW j \in 1 .. Len(w), j > i + 1  PROVE ~Matters(w[j])
    <3>1. j - 1 \in 1 .. Len(t) /\ j - 1 > i /\ (j - 1) + 1 = j
      BY <1>3, <1>4, <2>2
    <3>2. t[j - 1] = w[j]
      BY <1>2, <3>1
    <3>3. QED
      BY <1>5, <3>1, <3>2
  <2>3. QED
    BY <1>5, <2>1, <2>2 DEF LastWord
<1>6. ASSUME \A i \in 1 .. Len(t) : ~Matters(t[i])
      PROVE  q.dropped \/ q.shown = NoDocument \/ q.shown.src = src
  <2>1. \A j \in 1 .. Len(w) : j > 1 => ~Matters(w[j])
    <3> SUFFICES ASSUME NEW j \in 1 .. Len(w), j > 1  PROVE ~Matters(w[j])
      OBVIOUS
    <3>1. j - 1 \in 1 .. Len(t) /\ (j - 1) + 1 = j
      BY <1>4
    <3>2. t[j - 1] = w[j]
      BY <1>2, <3>1
    <3>3. QED
      BY <1>6, <3>1, <3>2
  <2>2. CASE Matters(w[1])
    <3>1. Drops(w[1]) \/ w[1].doc.src = src
      BY <1>3, <2>1, <2>2 DEF LastWord
    <3>2. QED
      BY <1>1, <2>2, <3>1 DEF Matters
  <2>3. CASE ~Matters(w[1])
    <3>1. \A j \in 1 .. Len(w) : ~Matters(w[j])
      <4> SUFFICES ASSUME NEW j \in 1 .. Len(w)  PROVE ~Matters(w[j])
        OBVIOUS
      <4>1. j = 1 \/ j > 1
        BY <1>1
      <4>2. QED
        BY <2>1, <2>3, <4>1
    <3>2. QED
      BY <1>1, <2>3, <3>1 DEF LastWord, Alike
  <2>4. QED
    BY <2>2, <2>3
<1>7. QED
  BY <1>5, <1>6 DEF LastWord, t

(* What is shown does not change when the panel asks, takes a lock away or *)
(* drops drafts.                                                           *)
LEMMA AlikeFurther ==
    ASSUME NEW p, NEW q, NEW s, Alike(p, q), Alike(q, s)
    PROVE  Alike(p, s)
BY DEF Alike

LEMMA SubmitAlike ==
    ASSUME NEW p, IsPane(p), NEW r
    PROVE  Alike(p, Submit(p, r))
<1> DEFINE a == p.calls \cup {r}
           b == p.busy \cup {KeyOf(r)}
           o == Append(p.out, r)
<1>1. Submit(p, r) = p \/ Submit(p, r) = [p EXCEPT !.calls = a, !.busy = b, !.out = o]
  BY DEF Submit
<1> HIDE DEF a, b, o
<1>2. QED
  BY <1>1 DEF IsPane, Alike

LEMMA RunAlike ==
    ASSUME NEW p, IsPane(p), NEW c, NEW source, NEW all
    PROVE  Alike(p, RunCell(p, c, source, all))
<1> DEFINE v == p.waiting \cup {[cell |-> c, arg |-> source, all |-> all]}
<1>1. \/ RunCell(p, c, source, all) = [p EXCEPT !.waiting = v]
      \/ RunCell(p, c, source, all) = [p EXCEPT !.all = None]
      \/ \E r : RunCell(p, c, source, all) = Submit(p, r)
  BY DEF RunCell
<1> HIDE DEF v
<1>2. Alike(p, [p EXCEPT !.waiting = v]) /\ Alike(p, [p EXCEPT !.all = None])
  BY DEF IsPane, Alike
<1>3. QED
  BY <1>1, <1>2, SubmitAlike

LEMMA RunNextAlike ==
    ASSUME NEW p, IsPane(p), NEW c
    PROVE  Alike(p, RunNext(p, c))
<1> DEFINE a == [p.all EXCEPT !.left = @ \ {c}]
           q == [p EXCEPT !.all = a]
<1>1. RunNext(p, c) = RunCell(q, c, p.all.sources[c], TRUE)
  BY DEF RunNext
<1> HIDE DEF a
<1>2. Alike(p, q) /\ IsPane(q)
  BY DEF IsPane, Alike
<1> HIDE DEF q
<1>3. QED
  BY <1>1, <1>2, RunAlike, AlikeFurther

LEMMA ResumedAlike ==
    ASSUME NEW p, IsPane(p), NEW c, NEW q \in Resumed(p, c)
    PROVE  Alike(p, q)
<1> DEFINE due == {w \in p.waiting : w.cell = c}
           v == p.waiting \ due
           rest == [p EXCEPT !.waiting = v]
           n == IF \E w \in due : w.all THEN None ELSE rest.all
           dropped == [rest EXCEPT !.all = n]
<1>1. q = p \/ \E w \in due : q = RunCell(IF w.all THEN rest ELSE dropped, c, w.arg, w.all)
  BY DEF Resumed
<1> HIDE DEF due, v, n
<1>2. Alike(p, rest) /\ IsPane(rest)
  BY DEF IsPane, Alike
<1> HIDE DEF rest
<1>3. Alike(p, dropped) /\ IsPane(dropped)
  BY <1>2 DEF IsPane, Alike
<1> HIDE DEF dropped
<1>4. ASSUME NEW w \in due, q = RunCell(IF w.all THEN rest ELSE dropped, c, w.arg, w.all)
      PROVE  Alike(p, q)
  <2> DEFINE s == IF w.all THEN rest ELSE dropped
  <2>1. Alike(p, s) /\ IsPane(s)
    BY <1>2, <1>3
  <2> HIDE DEF s
  <2>2. q = RunCell(s, c, w.arg, w.all)
    BY <1>4 DEF s
  <2>3. QED
    BY <2>1, <2>2, RunAlike, AlikeFurther
<1>5. CASE q = p
  BY <1>5 DEF Alike
<1>6. QED
  BY <1>1, <1>4, <1>5

LEMMA ContinuedAlike ==
    ASSUME NEW p, IsPane(p), NEW r, NEW ended, NEW q \in Continued(p, r, ended)
    PROVE  Alike(p, q)
<1>1. \/ q = p
      \/ q = [p EXCEPT !.all = None]
      \/ \E c \in p.all.left : q = RunNext(p, c)
  BY Zenon DEF Continued
<1>2. Alike(p, p) /\ Alike(p, [p EXCEPT !.all = None])
  BY DEF IsPane, Alike
<1>3. QED
  BY <1>1, <1>2, RunNextAlike

LEMMA AcknowledgedAlike ==
    ASSUME NEW p, IsPane(p), NEW c, NEW source
    PROVE  Alike(p, Acknowledged(p, c, source))
<1> DEFINE d == [p.drafts EXCEPT ![c].saved = source]
<1>1. Acknowledged(p, c, source) = p \/ Acknowledged(p, c, source) = [p EXCEPT !.drafts = d]
  BY DEF Acknowledged
<1> HIDE DEF d
<1>2. QED
  BY <1>1 DEF IsPane, Alike

LEMMA RenderAlike ==
    ASSUME NEW p, IsPane(p)
    PROVE  Alike(p, Render(p))
<1> DEFINE d == [c \in Cells |-> IF Stays(p, c) THEN p.drafts[c] ELSE NoDraft]
           n == IF Awaited(p) THEN p.pending ELSE None
<1>1. Render(p) = [p EXCEPT !.drafts = d, !.pending = n]
  BY DEF Render
<1> HIDE DEF d, n
<1>2. QED
  BY <1>1 DEF IsPane, Alike

LEMMA SettledAlike ==
    ASSUME IsPane(pane), NEW r
    PROVE  Alike(pane, Settled(r)) /\ IsPane(Settled(r))
<1> DEFINE a == pane.calls \ {r}
           b == pane.busy \ {KeyOf(r)}
<1>1. Settled(r) = [pane EXCEPT !.calls = a, !.busy = b]
  BY DEF Settled
<1> HIDE DEF a, b
<1>2. QED
  BY <1>1 DEF IsPane, Alike

-----------------------------------------------------------------------------
(* Every step leaves the last word to the Host's document. *)

Unspent == /\ DOMAIN spent' = DOMAIN spent /\ spent'.faults = spent.faults

LEMMA AgreeAtFirst == Init => AgreeInv
<1> SUFFICES ASSUME Init  PROVE AgreeInv
  OBVIOUS
<1> DEFINE e == [c \in Cells |-> NoDraft]
           d == Document(host)
           shown == pane.shown
<1>1. PICK path \in Paths \cup {None} :
         pane = [shown |-> IF path = None THEN NoDocument ELSE d,
                 drafts |-> e,
                 calls |-> {}, busy |-> {}, out |-> <<>>, pending |-> None,
                 waiting |-> {}, all |-> None, owns |-> FALSE, dropped |-> FALSE]
  BY DEF Init
<1>2. wire = <<>> /\ "faults" \in DOMAIN spent /\ spent.faults = 0
  BY DEF Init
<1>3. d.src = host.src
  BY DEF Document
<1> HIDE DEF e, d
<1>4. shown = NoDocument \/ shown = d
  BY <1>1
<1>5. Len(wire) = 0
  BY <1>2
<1>6. LastWord(wire, pane, host.src)
  BY <1>3, <1>4, <1>5 DEF LastWord
<1>7. QED
  BY <1>2, <1>6 DEF AgreeInv

(* A step that sends nothing and leaves what is shown. *)
LEMMA NothingSaid ==
    ASSUME PanelInv, AgreeInv, Unspent, wire' = wire, host'.src = host.src, Alike(pane, pane'),
           pane.calls \subseteq pane'.calls,
           \A x \in pane.calls : In(x, pane'.out) => In(x, pane.out)
    PROVE  AgreeInv'
<1>1. AtHost(pane, wire) => AtHost(pane', wire)
  BY DEF AtHost
<1>2. LastWord(wire, pane, host.src) => LastWord(wire, pane', host.src)
  BY DEF LastWord, Alike
<1>3. QED
  BY <1>1, <1>2 DEF AgreeInv, Unspent

LEMMA AsksAgrees ==
    ASSUME PanelInv, AgreeInv, NEW p, Grows(pane, p), Alike(pane, p), Asks(p)
    PROVE  AgreeInv'
<1>1. pane' = p /\ host' = host /\ wire' = wire
  BY DEF Asks
<1> DEFINE n == spent.calls + Len(p.out) - Len(pane.out)
<1>2. spent' = [spent EXCEPT !.calls = n]
  BY DEF Asks
<1> HIDE DEF n
<1>3. Unspent
  BY <1>2 DEF Unspent, AgreeInv
<1>4. QED
  BY <1>1, <1>3, NothingSaid DEF Grows

LEMMA PanesArePanes ==
    ASSUME PanelInv
    PROVE  pane \in PaneRecord /\ IsPane(pane) /\ PaneSound(pane)
<1>1. pane \in PaneRecord
  BY DEF PanelInv, PaneSound
<1>2. QED
  BY <1>1 DEF PanelInv, PaneRecord, IsPane

LEMMA UserAgrees ==
    ASSUME PanelInv, AgreeInv, User
    PROVE  AgreeInv'
<1>1. pane \in PaneRecord /\ IsPane(pane) /\ PaneSound(pane)
  BY PanesArePanes
<1>2. ASSUME NEW c \in Cells, NEW value \in Sources, UserTypes(c, value)  PROVE AgreeInv'
  <2> DEFINE d == [pane.drafts EXCEPT ![c] = Typed(c, value)]
             n == spent.keys + 1
  <2>1. /\ pane' = [pane EXCEPT !.drafts = d] /\ spent' = [spent EXCEPT !.keys = n]
        /\ wire' = wire /\ host' = host
    BY <1>2 DEF UserTypes
  <2> HIDE DEF d, n
  <2>2. Unspent
    BY <2>1 DEF Unspent, AgreeInv
  <2>3. Alike(pane, pane') /\ pane'.calls = pane.calls /\ pane'.out = pane.out
    BY <1>1, <2>1 DEF Alike, PaneRecord
  <2>4. QED
    BY <2>1, <2>2, <2>3, NothingSaid
<1>3. ASSUME NEW c \in Cells, UserLeaves(c)  PROVE AgreeInv'
  <2> DEFINE r == [kind |-> "edit", cell |-> c, arg |-> pane.drafts[c].value]
             d == [pane.drafts EXCEPT ![c] = NoDraft]
             q == [pane EXCEPT !.drafts = d]
  <2>1. Asks(q) \/ Asks(Submit(pane, r))
    BY <1>3 DEF UserLeaves
  <2>2. pane.drafts[c] \in Drafts
    BY <1>1 DEF PaneRecord
  <2>3. r \in Requests
    BY <2>2 DEF Requests, Request, Kinds, Drafts, Texts
  <2> HIDE DEF r, d
  <2>4. CASE Asks(Submit(pane, r))
    BY <1>1, <2>3, <2>4, Submitted, SubmitAlike, AsksAgrees
  <2>5. CASE Asks(q)
    <3>1. Alike(pane, q) /\ q.calls = pane.calls /\ q.out = pane.out
      BY <1>1 DEF Alike, PaneRecord
    <3> DEFINE n == spent.calls + Len(q.out) - Len(pane.out)
    <3>2. /\ pane' = q /\ host' = host /\ wire' = wire
          /\ spent' = [spent EXCEPT !.calls = n]
      BY <2>5 DEF Asks
    <3> HIDE DEF n, q
    <3>3. Unspent
      BY <3>2 DEF Unspent, AgreeInv
    <3>4. QED
      BY <3>1, <3>2, <3>3, NothingSaid
  <2>6. QED
    BY <2>1, <2>4, <2>5
<1>4. ASSUME NEW c \in Cells, UserRuns(c)  PROVE AgreeInv'
  <2>1. Asks(RunCell(pane, c, Seen(pane, c), FALSE))
    BY <1>4 DEF UserRuns
  <2>2. QED
    BY <1>1, <2>1, SeenIsText, Runs, RunAlike, AsksAgrees
<1>5. ASSUME NEW c \in Cells, NEW kind \in {"delete", "move", "copy"}, UserMutates(kind, c)
      PROVE  AgreeInv'
  <2> DEFINE r == [kind |-> kind, cell |-> c, arg |-> None]
  <2>1. Asks(Submit(pane, r))
    BY <1>5 DEF UserMutates
  <2>2. r \in Requests
    BY DEF Requests, Request, Kinds, Texts
  <2> HIDE DEF r
  <2>3. QED
    BY <1>1, <2>1, <2>2, Submitted, SubmitAlike, AsksAgrees
<1>6. ASSUME NEW kind \in {"insert", "restart", "reload", "interrupt"}, UserAsks(kind)
      PROVE  AgreeInv'
  <2> DEFINE r == [kind |-> kind, cell |-> None, arg |-> None]
  <2>1. Asks(Submit(pane, r))
    BY <1>6 DEF UserAsks
  <2>2. r \in Requests
    BY DEF Requests, Request, Kinds, Texts
  <2> HIDE DEF r
  <2>3. QED
    BY <1>1, <2>1, <2>2, Submitted, SubmitAlike, AsksAgrees
<1>7. ASSUME NEW kind \in {"open", "create"}, NEW path \in Paths, UserSubmits(kind, path)
      PROVE  AgreeInv'
  <2> DEFINE r == [kind |-> kind, cell |-> None, arg |-> path]
             p == [pane EXCEPT !.pending = path]
  <2>1. Asks(Submit(p, r))
    BY <1>7 DEF UserSubmits
  <2>2. r \in Requests
    BY DEF Requests, Request, Kinds, Texts
  <2>3. Still(pane, p) /\ Alike(pane, p) /\ IsPane(p)
    BY <1>1 DEF Still, PaneRecord, Alike, IsPane
  <2> HIDE DEF r, p
  <2>4. PaneSound(p) /\ Grows(pane, p)
    BY <1>1, <2>3, StillSound
  <2>5. Grows(pane, Submit(p, r)) /\ Alike(pane, Submit(p, r))
    BY <2>2, <2>3, <2>4, Submitted, GrowsFurther, SubmitAlike, AlikeFurther
  <2>6. QED
    BY <2>1, <2>5, AsksAgrees
<1>8. ASSUME UserRunsAll  PROVE AgreeInv'
  <2> DEFINE codeCells == {c \in Cells : Shows(pane, c)}
             sources == [c \in Cells |-> Seen(pane, c)]
             all == [left |-> codeCells, sources |-> sources]
             p == [pane EXCEPT !.all = all]
  <2>1. PICK c \in codeCells : Asks(RunNext(p, c))
    BY <1>8 DEF UserRunsAll
  <2>2. c \in Cells
    OBVIOUS
  <2>3. all \in AllRecord
    <3>1. codeCells \in SUBSET Cells /\ sources \in [Cells -> Texts]
      BY <1>1, SeenIsText
    <3> HIDE DEF codeCells, sources
    <3>2. QED
      BY <3>1 DEF AllRecord
  <2> HIDE DEF all
  <2>4. Still(pane, p) /\ p.all = all /\ Alike(pane, p) /\ IsPane(p)
    BY <1>1, <2>3 DEF Still, PaneRecord, Alike, IsPane
  <2> HIDE DEF p
  <2>5. PaneSound(p) /\ Grows(pane, p)
    BY <1>1, <2>4, StillSound
  <2>6. Grows(pane, RunNext(p, c)) /\ Alike(pane, RunNext(p, c))
    BY <2>2, <2>3, <2>4, <2>5, RunsNext, GrowsFurther, RunNextAlike, AlikeFurther
  <2>7. QED
    BY <2>1, <2>6, AsksAgrees
<1>9. QED
  BY <1>2, <1>3, <1>4, <1>5, <1>6, <1>7, <1>8 DEF User

(* What the Host says: an answer that matters is the last word, one that   *)
(* does not is about a document that stays as it is.                       *)
Says(a) ==
    \/ Drops(a)
    \/ Tells(a) /\ a.doc.src = host'.src
    \/ ~Matters(a) /\ host'.src = host.src
Speaks(r) == \E a \in AnswerRecord : a.request = r /\ wire' = Append(wire, a) /\ Says(a)

LEMMA RefusalSpeaks ==
    ASSUME NEW r \in Requests, host \in HostRecord, host'.src = host.src, Answer(r, FALSE, host)
    PROVE  Speaks(r)
<1> DEFINE a == [request |-> r, ok |-> FALSE, ended |-> "ok", doc |-> Document(host)]
<1>1. Document(host) \in Doc
  BY DEF Document, Doc, HostRecord, Texts
<1>2. a \in AnswerRecord /\ a.request = r /\ ~a.ok
  BY <1>1 DEF AnswerRecord
<1>3. wire' = Append(wire, a)
  BY DEF Answer
<1> HIDE DEF a
<1>4. Says(a)
  BY <1>2 DEF Says, Drops, Tells, Matters, Thrown
<1>5. QED
  BY <1>2, <1>3, <1>4 DEF Speaks

LEMMA AnswerSpeaks ==
    ASSUME NEW r \in Requests, host' \in HostRecord, r.kind # "interrupt",
           Answer(r, TRUE, host')
    PROVE  Speaks(r)
<1> DEFINE d == Document(host')
           a == [request |-> r, ok |-> TRUE, ended |-> "ok", doc |-> d]
<1>1. d \in Doc /\ d.src = host'.src
  BY DEF Document, Doc, HostRecord, Texts
<1>2. wire' = Append(wire, a)
  BY DEF Answer
<1> HIDE DEF d
<1>3. a \in AnswerRecord /\ a.request = r /\ a.ok /\ a.ended = "ok" /\ a.doc = d
  BY <1>1 DEF AnswerRecord
<1> HIDE DEF a
<1>4. Says(a)
  BY <1>1, <1>3 DEF Says, Tells, Thrown
<1>5. QED
  BY <1>2, <1>3, <1>4 DEF Speaks

LEMMA InterruptSpeaks ==
    ASSUME NEW r \in Requests, host \in HostRecord, r.kind = "interrupt", Interrupt(r)
    PROVE  Speaks(r)
<1> DEFINE a == [request |-> r, ok |-> TRUE, ended |-> "ok", doc |-> Document(host)]
           b == host.run # None
<1>1. Document(host) \in Doc
  BY DEF Document, Doc, HostRecord, Texts
<1>2. a \in AnswerRecord /\ a.request = r /\ a.ok /\ a.ended = "ok"
  BY <1>1 DEF AnswerRecord
<1>3. wire' = Append(wire, a) /\ host' = [host EXCEPT !.cut = b]
  BY DEF Answer, Interrupt
<1> HIDE DEF a, b
<1>4. host'.src = host.src
  BY <1>3 DEF HostRecord
<1>5. Says(a)
  BY <1>2, <1>4 DEF Says, Drops, Tells, Matters, Thrown
<1>6. QED
  BY <1>2, <1>3, <1>5 DEF Speaks

LEMMA SpokenAgrees ==
    ASSUME PanelInv, AgreeInv, Unspent, NEW r \in Requests, Speaks(r), Alike(pane, pane'),
           pane'.calls = pane.calls, \A x : In(x, pane'.out) => In(x, pane.out)
    PROVE  AgreeInv'
<1>1. PICK a \in AnswerRecord : a.request = r /\ wire' = Append(wire, a) /\ Says(a)
  BY DEF Speaks
<1>2. wire \in Seq(AnswerRecord)
  BY DEF PanelInv, Placed
<1> DEFINE w == wire
           t == Append(w, a)
<1>3. Len(t) = Len(w) + 1 /\ Len(w) \in Nat /\ t[Len(w) + 1] = a
      /\ \A i \in 1 .. Len(w) : t[i] = w[i]
  BY <1>2
<1>4. \A i \in 1 .. Len(t) : i \in 1 .. Len(w) \/ i = Len(w) + 1
  BY <1>3
<1>5. wire' = t /\ w = wire
  BY <1>1
<1> HIDE DEF t, w
<1>6. CASE Drops(a) \/ (Tells(a) /\ a.doc.src = host'.src)
  <2>1. LastWord(Append(wire, a), pane', host'.src)
    BY <1>2, <1>6, WordAdded
  <2>2. QED
    BY <1>1, <2>1 DEF AgreeInv, Unspent
<1>7. CASE ~Matters(a) /\ host'.src = host.src
  <2>1. a.request.kind # "run"
    BY <1>7 DEF Matters, Drops, Tells
  <2>2. ASSUME AtHost(pane, wire)  PROVE AtHost(pane', wire')
    <3>1. PICK x \in pane.calls : /\ x.kind = "run" /\ ~In(x, pane.out)
                                  /\ \A i \in 1 .. Len(w) : w[i].request # x
      BY <1>5, <2>2 DEF AtHost
    <3>2. \A i \in 1 .. Len(t) : t[i].request # x
      BY <1>1, <1>3, <1>4, <2>1, <3>1
    <3>3. QED
      BY <1>5, <3>1, <3>2 DEF AtHost
  <2>3. LastWord(wire, pane, host.src) => LastWord(wire, pane', host.src)
    BY DEF LastWord, Alike
  <2>4. LastWord(wire, pane', host.src) => LastWord(Append(wire, a), pane', host.src)
    BY <1>2, <1>7, WordAdded
  <2>5. QED
    BY <1>1, <1>7, <2>2, <2>3, <2>4 DEF AgreeInv, Unspent
<1>8. QED
  BY <1>1, <1>6, <1>7 DEF Says

LEMMA RequestsServed ==
    ASSUME PanelInv, NEW r \in Requests, host' \in HostRecord,
           \/ Open(r) /\ r.kind = "open"
           \/ Create(r) /\ r.kind = "create"
           \/ Mutate(r) /\ r.kind \notin {"open", "create", "run", "reload", "restart", "interrupt"}
           \/ Reload(r) /\ r.kind = "reload"
           \/ Restart(r) /\ r.kind = "restart"
           \/ Interrupt(r) /\ r.kind = "interrupt"
           \/ Run(r) /\ Refuse(r)
    PROVE  Speaks(r)
<1>1. host \in HostRecord
  BY DEF PanelInv
<1>2. CASE Refuse(r)
  <2>1. host' = host /\ Answer(r, FALSE, host)
    BY <1>2 DEF Refuse
  <2>2. QED
    BY <1>1, <2>1, RefusalSpeaks
<1>3. CASE Interrupt(r) /\ r.kind = "interrupt"
  BY <1>1, <1>3, InterruptSpeaks
<1>4. CASE Answer(r, TRUE, host') /\ r.kind # "interrupt"
  BY <1>4, AnswerSpeaks
<1>5. \/ Refuse(r) \/ (Interrupt(r) /\ r.kind = "interrupt")
      \/ (Answer(r, TRUE, host') /\ r.kind # "interrupt")
  <2>1. Open(r) => Refuse(r) \/ Answer(r, TRUE, host')
    BY Zenon DEF Open
  <2>2. Create(r) => Refuse(r) \/ Answer(r, TRUE, host')
    BY Zenon DEF Create
  <2>3. Mutate(r) => Refuse(r) \/ Answer(r, TRUE, host')
    BY Zenon DEF Mutate
  <2>4. (Reload(r) => Answer(r, TRUE, host')) /\ (Restart(r) => Answer(r, TRUE, host'))
    BY Zenon DEF Reload, Restart
  <2>5. QED
    BY <2>1, <2>2, <2>3, <2>4
<1>6. QED
  BY <1>2, <1>3, <1>4, <1>5

LEMMA ServeAgrees ==
    ASSUME PanelInv, PanelInv', AgreeInv, NEW i \in 1 .. Len(pane.out), Serve(i)
    PROVE  AgreeInv'
<1> DEFINE r == pane.out[i]
           o == RemoveAt(pane.out, i)
           q == [pane EXCEPT !.out = RemoveAt(@, i)]
<1>1. pane \in PaneRecord /\ IsPane(pane) /\ PaneSound(pane)
  BY PanesArePanes
<1>2. /\ r \in Requests
      /\ r \in q.calls /\ ~In(r, q.out)
      /\ \A j \in 1 .. Len(wire) : wire[j].request # r
  BY <1>1, RequestTaken DEF PanelInv
<1>3. pane' = q /\ spent' = spent
  BY DEF Serve
<1>4. q = [pane EXCEPT !.out = o]
  OBVIOUS
<1>5. pane.out \in Seq(Requests)
  BY <1>1 DEF PaneRecord
<1>6. \A x : In(x, o) => In(x, pane.out)
  BY <1>5, Removed
<1>7. host' \in HostRecord
  BY DEF PanelInv
<1>8. \/ Open(r) /\ r.kind = "open"
      \/ Create(r) /\ r.kind = "create"
      \/ Run(r) /\ r.kind = "run"
      \/ Reload(r) /\ r.kind = "reload"
      \/ Restart(r) /\ r.kind = "restart"
      \/ Interrupt(r) /\ r.kind = "interrupt"
      \/ Mutate(r) /\ r.kind \notin {"open", "create", "run", "reload", "restart", "interrupt"}
  BY Zenon DEF Serve
<1> HIDE DEF r, o, q
<1>9. q.out = o /\ q.calls = pane.calls /\ Alike(pane, q)
  BY <1>1, <1>4 DEF PaneRecord, Alike
<1>10. Unspent
  BY <1>3 DEF Unspent
<1>11. CASE Speaks(r)
  BY <1>2, <1>3, <1>6, <1>9, <1>10, <1>11, SpokenAgrees
<1>12. CASE Run(r) /\ r.kind = "run" /\ ~Refuse(r)
  <2>1. wire' = wire
    BY <1>12, Zenon DEF Run
  <2>2. AtHost(q, wire)
    BY <1>2, <1>12 DEF AtHost
  <2>3. QED
    BY <1>3, <1>10, <2>1, <2>2 DEF AgreeInv, Unspent
<1>13. QED
  BY <1>2, <1>7, <1>8, <1>11, <1>12, RequestsServed

LEMMA RunAnswerAgrees ==
    ASSUME PanelInv, AgreeInv, UNCHANGED <<pane, spent>>, NEW r \in Requests, Speaks(r)
    PROVE  AgreeInv'
<1>1. Alike(pane, pane') /\ Unspent
  BY DEF Alike, Unspent
<1>2. QED
  BY <1>1, SpokenAgrees

LEMMA KernelAgrees ==
    ASSUME PanelInv, PanelInv', AgreeInv,
           RunStarts \/ \E ended \in {"ok", "error", "cancelled"} : RunEnds(ended)
    PROVE  AgreeInv'
<1> DEFINE r == host.run.request
<1>1. host \in HostRecord /\ host.run # None /\ UNCHANGED <<pane, spent>>
  BY DEF PanelInv, RunStarts, RunEnds
<1>2. r \in Requests
  BY <1>1 DEF HostRecord, RunRecord
<1>3. CASE host' = [host EXCEPT !.run = None] /\ Answer(r, FALSE, host)
  <2>1. host'.src = host.src
    BY <1>1, <1>3 DEF HostRecord
  <2>2. QED
    BY <1>1, <1>2, <1>3, <2>1, RefusalSpeaks, RunAnswerAgrees
<1>4. CASE host' = [host EXCEPT !.run.base = host.rev] /\ wire' = wire
  <2> DEFINE n == [host.run EXCEPT !.base = host.rev]
  <2>1. host' = [host EXCEPT !.run = n]
    BY <1>4
  <2> HIDE DEF n
  <2>2. host'.src = host.src
    BY <1>1, <2>1 DEF HostRecord
  <2>3. QED
    BY <1>1, <1>4, <2>2, NothingSaid DEF Alike, Unspent
<1>5. ASSUME NEW ended \in {"ok", "error", "cancelled"},
             host' = [host EXCEPT !.run = None, !.rev = @ + 1],
             wire' = Append(wire, [request |-> r, ok |-> TRUE,
                                   ended |-> ended, doc |-> Document(host')])
      PROVE  AgreeInv'
  <2> DEFINE d == Document(host')
             a == [request |-> r, ok |-> TRUE, ended |-> ended, doc |-> d]
  <2>1. d \in Doc /\ d.src = host'.src
    BY DEF Document, Doc, HostRecord, Texts, PanelInv
  <2>2. wire' = Append(wire, a)
    BY <1>5
  <2> HIDE DEF d
  <2>3. a \in AnswerRecord /\ a.request = r /\ a.doc = d
    BY <1>2, <2>1 DEF AnswerRecord
  <2> HIDE DEF a
  <2> DEFINE n == host.rev + 1
  <2>4. host'.src = host.src
    <3>1. host' = [host EXCEPT !.run = None, !.rev = n]
      BY <1>5
    <3> HIDE DEF n
    <3>2. QED
      BY <1>1, <3>1 DEF HostRecord
  <2>5. Says(a)
    BY <2>1, <2>3, <2>4 DEF Says, Matters, Drops, Tells
  <2>6. QED
    BY <1>1, <1>2, <2>2, <2>3, <2>5, RunAnswerAgrees DEF Speaks
<1>6. QED
  BY <1>3, <1>4, <1>5, Zenon DEF RunStarts, RunEnds

LEMMA FailedSays ==
    ASSUME IsPane(pane), NEW r, NEW p \in Fails(r)
    PROVE  IF r.kind = "run" THEN p.dropped ELSE Alike(pane, p)
<1>1. Alike(pane, Settled(r)) /\ IsPane(Settled(r))
  BY SettledAlike
<1> DEFINE s == Settled(r)
           d == [s EXCEPT !.dropped = TRUE]
           n == [s EXCEPT !.pending = None]
<1>2. \/ r.kind = "edit" /\ p \in Resumed(s, r.cell)
      \/ r.kind = "run" /\ p \in Continued(d, r, "error")
      \/ r.kind \in {"open", "create"} /\ p = n
      \/ r.kind \notin {"edit", "run", "open", "create"} /\ p = s
  BY Zenon DEF Fails
<1> HIDE DEF s
<1>3. d.dropped /\ IsPane(d) /\ Alike(s, n)
  BY <1>1 DEF IsPane, Alike, s
<1> HIDE DEF d, n
<1>4. CASE r.kind = "edit" /\ p \in Resumed(s, r.cell)
  BY <1>1, <1>4, ResumedAlike, AlikeFurther DEF s
<1>5. CASE r.kind = "run" /\ p \in Continued(d, r, "error")
  <2>1. Alike(d, p)
    BY <1>3, <1>5, ContinuedAlike
  <2>2. QED
    BY <1>3, <1>5, <2>1 DEF Alike
<1>6. CASE r.kind \in {"open", "create"} /\ p = n
  BY <1>1, <1>3, <1>6, AlikeFurther DEF s
<1>7. CASE r.kind \notin {"edit", "run", "open", "create"} /\ p = s
  BY <1>1, <1>7 DEF s
<1>8. QED
  BY <1>2, <1>4, <1>5, <1>6, <1>7

LEMMA SucceededSays ==
    ASSUME IsPane(pane), NEW r, NEW doc, NEW ended, NEW p \in Succeeds(r, doc, ended)
    PROVE  IF r.kind = "interrupt" THEN Alike(pane, p) ELSE IsPane(p) /\ p.shown = doc
<1> DEFINE s == Settled(r)
           q == [s EXCEPT !.shown = doc, !.owns = TRUE, !.dropped = FALSE]
           e == Acknowledged(q, r.cell, r.arg)
<1>1. Alike(pane, s) /\ IsPane(s)
  BY SettledAlike
<1>2. \/ r.kind = "edit" /\ p \in Resumed(e, r.cell)
      \/ r.kind = "run" /\ p \in Continued(e, r, ended)
      \/ r.kind = "reload" /\ p = Reloaded(q)
      \/ r.kind = "interrupt" /\ p = s
      \/ r.kind \notin {"edit", "run", "reload", "interrupt"} /\ p = q
  BY Zenon DEF Succeeds, Published
<1> HIDE DEF s
<1>3. IsPane(q) /\ q.shown = doc
  BY <1>1 DEF IsPane
<1> HIDE DEF q
<1>4. IsPane(e) /\ e.shown = doc
  BY <1>3, AcknowledgedAlike DEF Alike, IsPane
<1> HIDE DEF e
<1>5. CASE r.kind = "edit" /\ p \in Resumed(e, r.cell)
  <2>1. Alike(e, p)
    BY <1>4, <1>5, ResumedAlike
  <2>2. QED
    BY <1>4, <1>5, <2>1 DEF Alike, IsPane
<1>6. CASE r.kind = "run" /\ p \in Continued(e, r, ended)
  <2>1. Alike(e, p)
    BY <1>4, <1>6, ContinuedAlike
  <2>2. QED
    BY <1>4, <1>6, <2>1 DEF Alike, IsPane
<1>7. CASE r.kind = "reload" /\ p = Reloaded(q)
  <2> DEFINE d == [c \in Cells |-> NoDraft]
             b == {k \in q.busy : k[1] \notin {"edit", "run", "insert"}}
  <2>1. p = [q EXCEPT !.drafts = d, !.busy = b]
    BY <1>7 DEF Reloaded
  <2> HIDE DEF d, b
  <2>2. QED
    BY <1>3, <1>7, <2>1 DEF IsPane
<1>8. CASE r.kind = "interrupt" /\ p = s
  BY <1>1, <1>8
<1>9. CASE r.kind \notin {"edit", "run", "reload", "interrupt"} /\ p = q
  BY <1>3, <1>9
<1>10. QED
  BY <1>2, <1>5, <1>6, <1>7, <1>8, <1>9

LEMMA ReceiveAgrees ==
    ASSUME PanelInv, AgreeInv, Receive
    PROVE  AgreeInv'
<1> DEFINE a == Head(wire)
           r == a.request
           w == wire
<1>1. IsPane(pane) /\ PaneSound(pane) /\ Placed(pane, wire, host.run)
  BY PanesArePanes DEF PanelInv
<1>2. PICK p \in IF Thrown(a) THEN Fails(r) ELSE Succeeds(r, a.doc, a.ended) :
         /\ pane' = IF Thrown(a) \/ r.kind = "interrupt" THEN p ELSE Render(p)
         /\ spent' = [spent EXCEPT !.calls = @ + Len(p.out) - Len(pane.out)]
  BY DEF Receive
<1>3. wire # <<>> /\ wire' = Tail(wire) /\ host' = host /\ wire \in Seq(AnswerRecord)
  BY <1>1 DEF Receive, Placed
<1>4. Unspent
  <2> DEFINE n == spent.calls + Len(p.out) - Len(pane.out)
  <2>1. spent' = [spent EXCEPT !.calls = n]
    BY <1>2
  <2> HIDE DEF n
  <2>2. QED
    BY <2>1 DEF Unspent, AgreeInv
<1>5. a \in AnswerRecord /\ r \in pane.calls /\ ~In(r, pane.out)
  BY <1>1, <1>3, AnswerArrives
<1>6. r \in Requests
  BY <1>5 DEF AnswerRecord
<1> HIDE DEF a, r
<1>7. /\ Drops(a) => pane'.dropped
      /\ Tells(a) => pane'.shown = a.doc
      /\ ~Matters(a) => Alike(pane, pane')
  <2>1. CASE Thrown(a)
    <3>1. p \in Fails(r) /\ pane' = p
      BY <1>2, <2>1, Zenon
    <3>2. IF r.kind = "run" THEN p.dropped ELSE Alike(pane, p)
      BY <1>1, <3>1, FailedSays
    <3>3. QED
      BY <2>1, <3>1, <3>2 DEF Drops, Tells, Matters, r
  <2>2. CASE ~Thrown(a)
    <3>1. /\ p \in Succeeds(r, a.doc, a.ended)
          /\ pane' = IF r.kind = "interrupt" THEN p ELSE Render(p)
      BY <1>2, <2>2, Zenon
    <3>2. IF r.kind = "interrupt" THEN Alike(pane, p) ELSE IsPane(p) /\ p.shown = a.doc
      BY <1>1, <3>1, SucceededSays
    <3>3. CASE r.kind = "interrupt"
      BY <2>2, <3>1, <3>2, <3>3 DEF Drops, Tells, Matters, r
    <3>4. CASE r.kind # "interrupt"
      <4>1. pane' = Render(p) /\ IsPane(p) /\ p.shown = a.doc
        BY <3>1, <3>2, <3>4
      <4>2. pane'.shown = a.doc
        BY <4>1, RenderAlike DEF Alike
      <4>3. QED
        BY <2>2, <3>4, <4>2 DEF Drops, Tells, Matters, r
    <3>5. QED
      BY <3>3, <3>4
  <2>3. QED
    BY <2>1, <2>2
<1>8. LastWord(wire, pane, host.src) => LastWord(Tail(wire), pane', host.src)
  BY <1>3, <1>7, WordTaken DEF a
<1>9. Goes(r, pane')
  <2>1. Goes(r, p)
    <3>1. CASE Thrown(a)
      <4>1. p \in Fails(r)
        BY <1>2, <3>1, Zenon
      <4>2. QED
        BY <1>1, <1>5, <1>6, <4>1, FailedComes DEF Comes
    <3>2. CASE ~Thrown(a)
      <4>1. p \in Succeeds(r, a.doc, a.ended) /\ a.doc \in Doc
        BY <1>2, <1>5, <3>2, Zenon DEF AnswerRecord
      <4>2. QED
        BY <1>1, <1>5, <1>6, <4>1, SucceededGoes
    <3>3. QED
      BY <3>1, <3>2
  <2>2. pane' = p \/ pane' = Render(p)
    BY <1>2, Zenon
  <2>3. QED
    BY <2>1, <2>2, RenderedGoes
<1>10. ASSUME AtHost(pane, wire)  PROVE AtHost(pane', wire')
  <2>1. PICK x \in pane.calls : /\ x.kind = "run" /\ ~In(x, pane.out)
                                /\ \A i \in 1 .. Len(w) : w[i].request # x
    BY <1>10 DEF AtHost
  <2>2. w \in Seq(AnswerRecord) /\ w # <<>> /\ w = wire
    BY <1>3
  <2> HIDE DEF w
  <2> DEFINE t == Tail(w)
  <2>3. /\ Len(w) \in Nat /\ Len(w) >= 1 /\ Head(w) = w[1] /\ Len(t) = Len(w) - 1
        /\ \A i \in 1 .. Len(t) : t[i] = w[i + 1]
    BY <2>2
  <2> HIDE DEF t
  <2>4. \A i \in 1 .. Len(t) : t[i].request # x
    <3>1. \A i \in 1 .. Len(t) : i + 1 \in 1 .. Len(w)
      BY <2>3
    <3>2. QED
      BY <2>1, <2>3, <3>1
  <2>5. x # r
    <3>1. 1 \in 1 .. Len(w) /\ a = w[1]
      BY <2>2, <2>3 DEF a
    <3>2. QED
      BY <2>1, <3>1 DEF r
  <2>6. x \in pane'.calls /\ ~In(x, pane'.out)
    BY <1>9, <2>1, <2>5 DEF Goes
  <2>7. wire' = t
    BY <1>3, <2>2 DEF t
  <2>8. QED
    BY <2>1, <2>4, <2>6, <2>7 DEF AtHost
<1>11. QED
  BY <1>3, <1>4, <1>8, <1>10 DEF AgreeInv, Unspent

LEMMA EventsAgree ==
    ASSUME PanelInv, AgreeInv, EventsArrive
    PROVE  AgreeInv'
<1> DEFINE d == Document(host)
           p == [pane EXCEPT !.shown = d]
<1>1. pane \in PaneRecord /\ IsPane(pane)
  BY PanesArePanes
<1>2. pane' = Render(p) /\ UNCHANGED <<host, wire, spent>> /\ d.src = host.src
  BY DEF EventsArrive, Document
<1> HIDE DEF d
<1>3. IsPane(p) /\ p.shown = d /\ p.calls = pane.calls /\ p.out = pane.out
  BY <1>1 DEF IsPane, PaneRecord
<1>4. p \in [DOMAIN pane -> {p[f] : f \in DOMAIN pane}] /\ DOMAIN p = DOMAIN pane
  OBVIOUS
<1> HIDE DEF p
<1>5. Alike(p, pane') /\ pane'.calls = p.calls /\ pane'.out = p.out
  <2> DEFINE s == [c \in Cells |-> IF Stays(p, c) THEN p.drafts[c] ELSE NoDraft]
             n == IF Awaited(p) THEN p.pending ELSE None
  <2>1. pane' = [p EXCEPT !.drafts = s, !.pending = n]
    BY <1>2 DEF Render
  <2> HIDE DEF s, n
  <2>2. {"calls", "out", "shown", "dropped"} \subseteq DOMAIN p
    BY <1>1, <1>4 DEF PaneRecord
  <2>3. QED
    BY <2>1, <2>2 DEF Alike
<1>6. pane'.shown.src = host.src
  BY <1>2, <1>3, <1>5 DEF Alike
<1>7. AtHost(pane, wire) => AtHost(pane', wire)
  BY <1>3, <1>5 DEF AtHost
<1>8. LastWord(wire, pane, host.src) => LastWord(wire, pane', host.src)
  BY <1>6 DEF LastWord
<1>9. QED
  BY <1>2, <1>7, <1>8 DEF AgreeInv

(* Other people and failures are counted. *)
LEMMA FaultsAgree ==
    ASSUME AgreeInv,
           Others \/ (\E i \in DOMAIN pane.out : CallFails(i)) \/ \E i \in DOMAIN wire : AnswerLost(i)
    PROVE  AgreeInv'
<1> DEFINE n == spent.faults + 1
<1>1. spent' = [spent EXCEPT !.faults = n]
  BY DEF Others, CallFails, AnswerLost
<1>2. n \in Nat /\ n # 0
  BY DEF AgreeInv
<1> HIDE DEF n
<1>3. "faults" \in DOMAIN spent' /\ spent'.faults = n
  BY <1>1 DEF AgreeInv
<1>4. QED
  BY <1>2, <1>3 DEF AgreeInv

(* When everything is answered, nothing failed and nobody else wrote, the  *)
(* cells without a draft are the Host's, in a panel of any cells and with  *)
(* any number of requests in any order (publishDocument, commit, run).     *)
THEOREM PanesAgree == Spec => []SettledPanesAgree
<1>1. PanelInv /\ PanelInv' /\ AgreeInv /\ [Next]_vars => AgreeInv'
  <2> SUFFICES ASSUME PanelInv, PanelInv', AgreeInv, [Next]_vars  PROVE AgreeInv'
    OBVIOUS
  <2>1. DOMAIN pane.out = 1 .. Len(pane.out)
    BY DEF PanelInv, PaneSound, PaneRecord
  <2>2. CASE Host
    BY <2>1, <2>2, ServeAgrees, KernelAgrees DEF Host
  <2>3. CASE UNCHANGED vars
    BY <2>3 DEF vars, AgreeInv
  <2>4. QED
    BY <2>2, <2>3, UserAgrees, ReceiveAgrees, EventsAgree, FaultsAgree DEF Next
<1>2. PanelInv /\ AgreeInv => SettledPanesAgree
  <2> SUFFICES ASSUME PanelInv, AgreeInv, pane.shown # NoDocument, pane.calls = {},
                      spent.faults = 0, ~pane.dropped
               PROVE  pane.shown.src = host.src
    BY DEF SettledPanesAgree
  <2>1. ~AtHost(pane, wire)
    BY DEF AtHost
  <2>2. \A i \in 1 .. Len(wire) : ~Matters(wire[i])
    BY DEF PanelInv, Placed
  <2>3. QED
    BY <2>1, <2>2 DEF AgreeInv, LastWord
<1>3. QED
  BY <1>1, <1>2, PanelInvInit, PanelInvNext, AgreeAtFirst, PTL DEF Spec
=============================================================================
