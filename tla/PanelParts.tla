----------------------------- MODULE PanelParts -----------------------------
(***************************************************************************)
(* Three parts of the panel beside each other, with what they ask of the   *)
(* Host: the images of a cell, the launcher's list of notebooks, and the   *)
(* environment card.  They share nothing.                                  *)
(***************************************************************************)
EXTENDS NotebookImages, WorkspaceDiscovery

CONSTANTS MaxOps, MaxFaults
VARIABLES card, ops, host, session, spent
cardVars == <<card, ops, host, session, spent>>

Card == INSTANCE EnvironmentCard

-----------------------------------------------------------------------------
(* Properties: of the images, DocumentsAreWhole and ElementShowsItsOutput; *)
(* of the launcher, ListIsOneWalk.                                         *)

\* The card says what is under way and offers the Host's catalog
\* (beginEnvironmentOperation), see EnvironmentCard.
CardTellsTheTruth == Card!CardTellsTheTruth

\* Reads use the resident session (headerFor, sessionFor), see EnvironmentCard.
ReadsUseTheLiveSession == Card!ReadsUseTheLiveSession
=============================================================================
