---------------------------- MODULE MCPanelParts ----------------------------
(* The three parts of the panel.  Each moves while the other two rest as   *)
(* they began: interleaving them would only multiply their states.         *)
EXTENDS PanelParts

-----------------------------------------------------------------------------
(* Images: one and two, one twice, a bad one behind a good one, one that   *)
(* is not base64, and none.                                                *)

CONSTANTS a, b, bad, torn

MCOutputs == {<<>>, <<a>>, <<b, Text>>, <<a, a>>, <<a, b>>, <<a, bad>>, <<torn>>}

-----------------------------------------------------------------------------
(* Discovery: a folder with two names that leads back to the root, a       *)
(* folder too deep under its first name, a notebook with two names, a      *)
(* notebook outside, an odd name.                                          *)

CONSTANTS root, folder, deep, f, g, h

Entry(in, name, to) == [in |-> in, name |-> name, to |-> to]
Cyclic ==
    {Entry(root, 1, folder), Entry(root, 2, folder), Entry(root, 3, f), Entry(root, 4, h),
     Entry(folder, 1, g), Entry(folder, 2, f), Entry(folder, 3, root)}
Partly ==
    {Entry(root, 0, f), Entry(root, 2, folder), Entry(root, 5, deep), Entry(root, 6, f),
     Entry(folder, 1, g), Entry(folder, 5, deep)}
Outside == {Entry(root, 7, h)}
Odd == {Entry(folder, 4, g)}

MCDirectories == {root, folder, deep}
MCNotebooks == {f, g, h}
MCEntries == Outside \cup Odd \cup Cyclic \cup Partly
MCDisks == {Cyclic, Partly}

LauncherRests == requests = <<>> /\ past.changes = 0 /\ disk = Cyclic

-----------------------------------------------------------------------------
(* The card. *)

CardRests ==
    /\ ops = <<>> /\ Card!Init
    /\ host = [manager |-> "ready", python |-> TRUE, env |-> "ready"]
    /\ session = "live" /\ ~card.attached

-----------------------------------------------------------------------------
ImagesRest == batches = <<>>

PartsInit == Init /\ LauncherInit /\ Card!Init /\ (LauncherRests \/ CardRests)
PartsNext ==
    \/ CardRests /\ LauncherRests /\ Next /\ UNCHANGED <<launcherVars, cardVars>>
    \/ CardRests /\ ImagesRest /\ LauncherNext /\ UNCHANGED <<vars, cardVars>>
    \/ LauncherRests /\ ImagesRest /\ Card!Next /\ UNCHANGED <<vars, launcherVars>>

\* A part that rests owes nothing: no request is under way in it.
PartsSpec ==
    /\ PartsInit /\ [][PartsNext]_<<vars, launcherVars, cardVars>>
    /\ Fairness /\ LauncherFairness /\ Card!Fairness

-----------------------------------------------------------------------------
(* Properties, beside those of the three parts. *)

\* When there is no more to ask for, no part stays at loading, discovering or
\* working, whatever fails, is given up or comes late (AttachmentImage,
\* requestDiscovery, beginEnvironmentOperation).
PartsSettle == <>[](Settled /\ LauncherSettled /\ Card!Settled)
=============================================================================
