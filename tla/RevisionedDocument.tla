------------------------- MODULE RevisionedDocument -------------------------
(***************************************************************************)
(* What a session promises of a notebook file that anybody may write: the  *)
(* file goes through a history of contents and may be missing; the session *)
(* shows one revision of that history, exactly, and what it shows only     *)
(* moves to later revisions.                                               *)
(***************************************************************************)
EXTENDS Naturals, Sequences

CONSTANT Contents

VARIABLES history, head, view, shown

Init ==
    /\ history \in Seq(Contents) /\ Len(history) = 1
    /\ head = 1 /\ view = 1
    /\ shown = history[1]

(* Somebody, the session included, replaces or recreates the file. *)
Publish ==
    /\ history' \in Seq(Contents)
    /\ Len(history') = Len(history) + 1
    /\ \A v \in DOMAIN history : history'[v] = history[v]
    /\ head' = Len(history')
    /\ UNCHANGED <<view, shown>>

Unlink ==
    /\ head # 0 /\ head' = 0
    /\ UNCHANGED <<history, view, shown>>

(* The session adopts a later revision, by a commit or a reload. *)
Adopt ==
    /\ view' \in (view + 1)..Len(history)
    /\ shown' = history[view']
    /\ UNCHANGED <<history, head>>

Next == Publish \/ Unlink \/ Adopt

Spec == Init /\ [][Next]_<<history, head, view, shown>>
=============================================================================
