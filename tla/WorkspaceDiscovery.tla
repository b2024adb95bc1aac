------------------------- MODULE WorkspaceDiscovery -------------------------
(***************************************************************************)
(* The listing of the workspace's notebooks: the bounded walk of the Host  *)
(* (discovery.ts), the answers of the Remote, and the launcher of the      *)
(* panel, which asks for one page after the other (requestDiscovery).      *)
(*                                                                         *)
(* A page does not keep its walk: the next one walks again from the root,  *)
(* on a disk that may have changed, and passes over everything up to the   *)
(* path the last page ended with.  The walk awaits the listing of each     *)
(* directory; what it does between two listings touches nothing that is    *)
(* shared, so that the others are at rest meanwhile.                       *)
(***************************************************************************)
EXTENDS Naturals, SequencesExt

CONSTANTS
    Directories, Notebooks,   \* canonical targets: directories, .ipynb files
    Root,                     \* the workspace
    Entries,                  \* directory entries: [in, name, to]
    Pruned,                   \* those that lead outside or have an excluded name
    Unportable,               \* those whose name cannot be part of a path
    Disks,                    \* sets of entries to begin with
    PageSize, MaxDepth, MaxEntries,
    MaxEvents                 \* bound: requests of the launcher and changes of the disk

Unique(entries) == \A e, f \in entries : e.in = f.in /\ e.name = f.name => e = f

ASSUME DiscoveryAssumption ==
    /\ Root \in Directories /\ Directories \cap Notebooks = {}
    /\ \A e \in Entries : e.in \in Directories /\ e.name \in Nat
    /\ \A entries \in Disks : entries \subseteq Entries /\ Unique(entries)
    /\ PageSize \in Nat \ {0} /\ MaxDepth \in Nat /\ MaxEntries \in Nat /\ MaxEvents \in Nat

VARIABLES
    disk,      \* the entries there are
    requests,  \* the launcher's requests, the last one is the current epoch
    view,      \* the launcher
    past       \* history since the listing began: what stayed, was there, came

launcherVars == <<disk, requests, view, past>>

Nothing == <<>>

NoView == [phase |-> "discovering", items |-> <<>>, next |-> <<>>, partial |-> FALSE,
           more |-> FALSE, shown |-> FALSE]

Began == [past EXCEPT !.steady = disk, !.was = disk, !.appeared = {}]

LauncherInit ==
    /\ disk \in Disks
    /\ requests = <<>>
    /\ view = NoView
    /\ past = [steady |-> disk, was |-> disk, appeared |-> {}, changes |-> 0]

-----------------------------------------------------------------------------
(* The walk.  A frame is a directory being visited: the path it is visited *)
(* under and, when it has been listed, the entries that are to come.  No   *)
(* cursor and no next page are the path without names.                     *)

Frame(path, dir) == [path |-> path, dir |-> dir, listed |-> FALSE, todo |-> {}]
Walk(after) ==
    [after |-> after, passed |-> after = <<>>, stack |-> <<Frame(<<>>, Root)>>,
     dirs |-> {Root}, files |-> {}, found |-> <<>>, partial |-> FALSE, stopped |-> FALSE,
     count |-> 0]

Top(w) == Last(w.stack)
OnTop(w, frame) == [w EXCEPT !.stack = Append(Front(@), frame)]
Left(w) == [w EXCEPT !.stack = Front(@)]

(* The entries of a directory are gone through in the order of their names. *)
Least(entries) == CHOOSE e \in entries : \A f \in entries : e.name <= f.name
Listed(w, entries) == OnTop(w, [Top(w) EXCEPT !.listed = TRUE, !.todo = entries])
Went(w) ==
    [OnTop(w, [Top(w) EXCEPT !.todo = @ \ {Least(@)}]) EXCEPT !.count = w.count + 1]

Omits(w) == [w EXCEPT !.partial = TRUE]
TooDeep_Late(path) == Len(path) > MaxDepth + 1   \* mutant
TooDeep(path) == Len(path) > MaxDepth
Visits(w, dir, path) ==
    LET m == [w EXCEPT !.dirs = @ \cup {dir}]
    IN  IF dir \in w.dirs THEN w
        ELSE IF TooDeep(path) THEN Omits(m)
        ELSE [m EXCEPT !.stack = Append(@, Frame(path, dir))]

(* A notebook counts once, also when the continuation lies behind it.      *)
Counted_Listed(w) == {w.found[i].to : i \in DOMAIN w.found}   \* mutant
Counted(w) == w.files
Collects(w, file, path) ==
    LET m == [w EXCEPT !.files = @ \cup {file}]
    IN  IF file \in Counted(w) THEN w
        ELSE IF ~w.passed THEN [m EXCEPT !.passed = path = w.after]
        ELSE [m EXCEPT !.found = Append(@, [path |-> path, to |-> file]),
                       !.stopped = Len(w.found) >= PageSize]

Examined(w) ==
    LET e == Least(Top(w).todo)  path == Append(Top(w).path, e.name)  m == Went(w)
    IN  CASE w.count >= MaxEntries -> [Omits(w) EXCEPT !.stopped = TRUE]
          [] w.count < MaxEntries /\ e \in Unportable -> Omits(m)
          [] w.count < MaxEntries /\ e \in Pruned \ Unportable -> m
          [] w.count < MaxEntries /\ e \notin Pruned \cup Unportable ->
                IF e.to \in Directories THEN Visits(m, e.to, path)
                ELSE IF e.to \in Notebooks THEN Collects(m, e.to, path) ELSE m

Failure(why) == [ok |-> FALSE, why |-> why]
Page(w) ==
    LET hasMore == Len(w.found) > PageSize
        items == SubSeq(w.found, 1, IF hasMore THEN PageSize ELSE Len(w.found))
    IN  [ok |-> TRUE, items |-> items, partial |-> w.partial,
         next |-> IF hasMore THEN Last(items).path ELSE <<>>]
Result(w) == IF w.passed THEN Page(w) ELSE Failure("stale")

-----------------------------------------------------------------------------
(* The Host. *)

Scanning(i) == requests[i].at = "walk" /\ Top(requests[i].walk).listed
Quiet == \A i \in DOMAIN requests : ~Scanning(i)

Answers(i, answer) ==
    requests' = [requests EXCEPT ![i] = [@ EXCEPT !.at = "answer", !.walk = Nothing,
                                                  !.answer = answer]]
Goes(i, w) ==
    IF w.stack = <<>> THEN Answers(i, Result(w)) ELSE requests' = [requests EXCEPT ![i].walk = w]

Resolve(i) ==
    /\ Quiet /\ requests[i].at = "asked"
    /\ \/ requests' = [requests EXCEPT ![i] = [@ EXCEPT !.at = "walk",
                                                         !.walk = Walk(requests[i].after)]]
       \/ Answers(i, Failure("unavailable"))
    /\ UNCHANGED <<disk, view, past>>

(* A directory may have gone, or refuse; only below the root, and only for *)
(* a failure of the file system, is that an omission.                      *)
Reachable(dir) == dir = Root \/ \E e \in disk : e.to = dir
Listing(dir) == {e \in disk : e.in = dir}
List(i) ==
    /\ Quiet /\ requests[i].at = "walk"
    /\ LET w == requests[i].walk
       IN  \/ /\ Reachable(Top(w).dir)
              /\ Goes(i, Listed(w, Listing(Top(w).dir)))
           \/ Len(w.stack) > 1 /\ Goes(i, Omits(Left(w)))
           \/ Answers(i, Failure("unavailable"))
    /\ UNCHANGED <<disk, view, past>>

Scan(i) ==
    /\ Scanning(i)
    /\ LET w == requests[i].walk
       IN  Goes(i, IF w.stopped \/ Top(w).todo = {} THEN Left(w) ELSE Examined(w))
    /\ UNCHANGED <<disk, view, past>>

-----------------------------------------------------------------------------
(* The launcher. *)

Cancelled == [i \in DOMAIN requests |-> [requests[i] EXCEPT !.aborted = TRUE]]
Request(after, append) ==
    [after |-> after, append |-> append, at |-> "asked", walk |-> Nothing, answer |-> Nothing,
     aborted |-> FALSE]

Over(r) == [Request(<<>>, FALSE) EXCEPT !.at = "over", !.aborted = r.aborted]

(* requestDiscovery: the request before it is aborted. *)
RequestDiscovery(after, append, shown) ==
    /\ Len(requests) + past.changes < MaxEvents
    /\ requests' = Append(Cancelled, Request(after, append))
    /\ view' = IF append THEN [view EXCEPT !.phase = "ready", !.more = TRUE]
               ELSE [NoView EXCEPT !.shown = shown]
    /\ past' = IF append THEN past ELSE Began
    /\ UNCHANGED disk

Show == Quiet /\ ~view.shown /\ RequestDiscovery(<<>>, FALSE, TRUE)
Hide ==
    /\ Quiet /\ view.shown
    /\ requests' = Cancelled
    /\ view' = [view EXCEPT !.shown = FALSE]
    /\ UNCHANGED <<disk, past>>

(* The button, or the document that was asked for has opened.              *)
Refresh == Quiet /\ view.shown /\ RequestDiscovery(<<>>, FALSE, TRUE)
LoadMore ==
    /\ Quiet /\ view.shown /\ view.next # <<>> /\ ~view.more
    /\ RequestDiscovery(view.next, TRUE, TRUE)

(* What the launcher's adapter throws for a failure has the failure's code *)
(* and no details, so that the launcher never sees a stale continuation in *)
(* it (NotebookRemoteFailure, failureDetails).                             *)
Thrown(why) == [code |-> why, details |-> Nothing]
FailureDetails(error) == IF error.code = "notebook-error" THEN error.details ELSE Nothing
IsStaleCursor(error) == FailureDetails(error) # Nothing /\ FailureDetails(error).code = "stale"

Outdated_Never(i) == FALSE   \* mutant
Outdated_Failed(i) == requests[i].aborted \/ i # Len(requests) \/ ~requests[i].answer.ok   \* mutant
Outdated(i) == requests[i].aborted \/ i # Len(requests)

Partial_OfPage(r) == r.answer.partial   \* mutant
Partial(r) == r.answer.partial \/ (r.append /\ view.partial)
Shown(r) ==
    [view EXCEPT !.phase = "ready", !.more = FALSE, !.next = r.answer.next,
                 !.items = IF r.append THEN @ \o r.answer.items ELSE r.answer.items,
                 !.partial = Partial(r)]

DeliverAnswer(i) ==
    /\ Quiet /\ requests[i].at = "answer"
    /\ LET r == requests[i]
           rest == [requests EXCEPT ![i] = Over(r)]
       IN  IF Outdated(i) THEN requests' = rest /\ UNCHANGED <<view, past>>
           ELSE IF r.answer.ok THEN requests' = rest /\ view' = Shown(r) /\ UNCHANGED past
           ELSE IF r.append /\ IsStaleCursor(Thrown(r.answer.why))
           THEN /\ requests' = Append(rest, Request(<<>>, FALSE))
                /\ view' = [NoView EXCEPT !.shown = view.shown]
                /\ past' = Began
           ELSE /\ requests' = rest /\ UNCHANGED past
                /\ view' = [view EXCEPT !.phase = "error", !.more = FALSE]
    /\ UNCHANGED disk

(* An aborted request ends wherever it is; its answer may also come first. *)
AbandonRequest(i) ==
    /\ Quiet /\ requests[i].aborted /\ requests[i].at # "over"
    /\ requests' = [requests EXCEPT ![i] = Over(@)]
    /\ UNCHANGED <<disk, view, past>>

-----------------------------------------------------------------------------
(* Other programs. *)

DiskChanges ==
    /\ Quiet /\ Len(requests) + past.changes < MaxEvents
    /\ UNCHANGED <<requests, view>>
    /\ \/ \E e \in disk :
             /\ disk' = disk \ {e}
             /\ past' = [past EXCEPT !.steady = @ \ {e}, !.changes = @ + 1]
       \/ \E e \in Entries \ disk :
             /\ disk' = disk \cup {e} /\ Unique(disk')
             /\ past' = [past EXCEPT !.was = @ \cup {e}, !.appeared = @ \cup {e},
                                     !.changes = @ + 1]

LauncherNext ==
    \/ Show \/ Hide \/ Refresh \/ LoadMore \/ DiskChanges
    \/ \E i \in DOMAIN requests : Resolve(i) \/ List(i) \/ Scan(i) \/ DeliverAnswer(i) \/ AbandonRequest(i)

LauncherSpec == LauncherInit /\ [][LauncherNext]_launcherVars

(* The file system answers, the walk goes on, and answers arrive.          *)
Ongoing(i) == Resolve(i) \/ List(i) \/ Scan(i) \/ DeliverAnswer(i)
LauncherFairness == \A i \in 1 .. MaxEvents : WF_launcherVars(i \in DOMAIN requests /\ Ongoing(i))

-----------------------------------------------------------------------------
(* Properties. *)

LauncherTypeOK ==
    /\ disk \subseteq Entries /\ Unique(disk)
    /\ past.steady \subseteq disk /\ past.was \subseteq Entries
    /\ view.phase \in {"discovering", "ready", "error"}
    /\ \A i \in DOMAIN requests :
          /\ requests[i].at \in {"asked", "walk", "answer", "over"}
          /\ requests[i].at = "walk" =>
                LET w == requests[i].walk
                IN  /\ Len(w.stack) \in 1 .. MaxDepth + 1 /\ w.count =< MaxEntries
                    /\ Len(w.found) =< PageSize + 1
          /\ i # Len(requests) => requests[i].aborted

(* The order of the walk: by the names along the path. *)
Before(p, q) ==
    \E i \in DOMAIN q :
        /\ \A j \in 1 .. i - 1 : j \in DOMAIN p /\ p[j] = q[j]
        /\ i \in DOMAIN p => p[i] < q[i]

(* Pages of different walks join without a seam. *)
ListIsInOrder ==
    \A i \in DOMAIN view.items :
        i + 1 \in DOMAIN view.items => Before(view.items[i].path, view.items[i + 1].path)

(* The ways to a notebook that the walk may take. *)
Routes ==
    {route \in UNION {[1 .. n -> Entries \ (Pruned \cup Unportable)] : n \in 1 .. MaxDepth + 1} :
        /\ route[1].in = Root
        /\ \A i \in DOMAIN route : i + 1 \in DOMAIN route => route[i + 1].in = route[i].to
        /\ route[Len(route)].to \in Notebooks}
Along(route, entries) == \A i \in DOMAIN route : route[i] \in entries
Ends(route) == route[Len(route)].to

(* Since the listing began a way to the notebook has come, for it or for a *)
(* directory above it.                                                     *)
Renamed(file) ==
    \E route \in Routes :
        /\ Ends(route) = file /\ Along(route, past.was)
        /\ ~Along(route, past.was \ past.appeared)

(* A list that ends, and is not said to be partial, has every notebook     *)
(* that was there all along, under this name or another.  A notebook for   *)
(* which another way came meanwhile is the exception: a later page may     *)
(* meet it on that way, before the continuation.                           *)
Complete == view.phase = "ready" /\ ~view.more /\ view.next = <<>> /\ ~view.partial
NothingIsMissed ==
    Complete => \A route \in Routes :
        Along(route, past.steady) /\ ~Renamed(Ends(route)) =>
            \E i \in DOMAIN view.items : view.items[i].to = Ends(route)

(* On a disk at rest every notebook is listed once, whatever its names,    *)
(* unless the list is partial: a directory that could be read for one page *)
(* and not for the next lets a notebook in it come again.                  *)
AliasesCountOnce ==
    past.steady = past.was /\ ~view.partial =>
        \A i, j \in DOMAIN view.items : view.items[i].to = view.items[j].to => i = j

(* The list the launcher shows is one walk of the workspace, whatever came *)
(* late or changed between its pages: in order and without a repetition    *)
(* (requestDiscovery, discoveryEpoch), without a gap unless it says so     *)
(* ("partial"), and with one entry for all names of a notebook (canonical   *)
(* aliases "contribute at most once").                                     *)
ListIsOneWalk == LauncherTypeOK /\ ListIsInOrder /\ NothingIsMissed /\ AliasesCountOnce

(* The launcher is not at discovering or loading.                          *)
LauncherSettled == view.shown => view.phase # "discovering" /\ ~view.more
=============================================================================
