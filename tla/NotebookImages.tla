--------------------------- MODULE NotebookImages ---------------------------
(***************************************************************************)
(* The images of a cell: how the outputs of an execution, or of a document *)
(* that is read, are admitted (output-admission.ts), how the Remote hands  *)
(* an image out (readAttachment, findNotebookImage), and the image element *)
(* of the panel (AttachmentImage).  The notebook's queue admits one thing  *)
(* at a time; the element follows the document with a delay.               *)
(* A payload is told apart by its media type and its data.                 *)
(***************************************************************************)
EXTENDS Naturals, FiniteSets, SequencesExt

CONSTANTS
    Images,              \* raster payloads
    Broken,              \* those that are not canonical base64
    Invalid,             \* those the attachment store's validator refuses
    Text, Error,         \* other outputs
    None,
    MaxExecutionImages, MaxDocumentImages,
    Outputs,             \* lists of outputs that are to be admitted
    MaxAdmissions,       \* bound: executions and readings
    MaxEffects           \* bound: loadings of the element

ASSUME ImagesAssumption ==
    /\ Broken \subseteq Images /\ Invalid \subseteq Images
    /\ {Text, Error, None} \cap Images = {}
    /\ None \notin Nat /\ None # "open"
    /\ {MaxExecutionImages, MaxDocumentImages, MaxAdmissions, MaxEffects} \subseteq Nat
    /\ \A outputs \in Outputs : outputs \in Seq(Images \cup {Text})

VARIABLES
    batches,   \* history: what was to be admitted, in order
    work,      \* the admission under way
    store,     \* history too: the images saved, each for its batch
    cell,      \* the cell of the open document
    element,   \* the panel's image element
    effects    \* its loadings

vars == <<batches, work, store, cell, element, effects>>

Rest == [at |-> "rest", todo |-> {}]
NoElement == [version |-> 0, image |-> None, src |-> None, failed |-> FALSE]

Init ==
    /\ batches = <<>> /\ work = Rest /\ store = {} /\ effects = <<>>
    /\ cell = [version |-> 0, outputs |-> <<>>, status |-> "idle", batch |-> 0]
    /\ element = NoElement

-----------------------------------------------------------------------------
(* Admission. *)

Limit(subject) == IF subject = "execution" THEN MaxExecutionImages ELSE MaxDocumentImages
Batch == Last(batches)

(* collectImages: each image once; their order makes no difference.       *)
Collected(outputs) == ToSet(outputs) \cap Images
Collectable(batch) ==
    /\ Collected(batch.outputs) \cap Broken = {}
    /\ Cardinality(Collected(batch.outputs)) =< Limit(batch.subject)

Begin(subject, outputs) ==
    /\ work = Rest /\ Len(batches) < MaxAdmissions
    /\ batches' = Append(batches, [subject |-> subject, outputs |-> outputs])
    /\ work' = [at |-> "collect", todo |-> {}]
    /\ UNCHANGED <<store, cell, element, effects>>

(* What is published is whole ("ok") or the failure of its execution.      *)
Publish(outputs, status) ==
    /\ cell' = [version |-> cell.version + 1, outputs |-> outputs, status |-> status,
                batch |-> Len(batches)]
    /\ work' = Rest
Abandon == work' = Rest /\ UNCHANGED cell

(* An execution that cannot be admitted is published as its failure, which *)
(* has no images; a document is not read.                                  *)
Refuse_Text ==   \* mutant
    IF Batch.subject = "execution"
    THEN Publish(SelectSeq(Batch.outputs, LAMBDA item : item = Text), "ok") ELSE Abandon
Refuse == IF Batch.subject = "execution" THEN Publish(<<Error>>, "error") ELSE Abandon

First_Save == [work EXCEPT !.at = "save", !.todo = Collected(Batch.outputs)]   \* mutant
First == [work EXCEPT !.at = "validate", !.todo = Collected(Batch.outputs)]
Collect ==
    /\ work.at = "collect"
    /\ IF Collectable(Batch) THEN work' = First /\ UNCHANGED cell ELSE Refuse
    /\ UNCHANGED <<batches, store, element, effects>>

Validate ==
    /\ work.at = "validate"
    /\ \/ /\ work.todo = {}
          /\ work' = [work EXCEPT !.at = "save", !.todo = Collected(Batch.outputs)]
          /\ UNCHANGED cell
       \/ \E image \in work.todo :
             IF image \in Invalid THEN Refuse
             ELSE work' = [work EXCEPT !.todo = @ \ {image}] /\ UNCHANGED cell
    /\ UNCHANGED <<batches, store, element, effects>>

Save ==
    /\ work.at = "save"
    /\ \E image \in work.todo :
          \/ /\ store' = store \cup {[image |-> image, batch |-> Len(batches)]}
             /\ work' = [work EXCEPT !.todo = @ \ {image}]
             /\ UNCHANGED cell
          \/ Refuse /\ UNCHANGED store
    /\ UNCHANGED <<batches, element, effects>>

(* What was admitted is published, unless the result of the execution is   *)
(* too large, or the file has changed meanwhile.                           *)
Commit ==
    /\ work.at = "save" /\ work.todo = {}
    /\ \/ Publish(Batch.outputs, "ok")
       \/ Batch.subject = "execution" /\ Publish(<<Error>>, "error")
       \/ Abandon
    /\ UNCHANGED <<batches, store, element, effects>>

(* The kernel is retired or the caller gives up: the next step throws, and *)
(* so does the admission of the failure.                                   *)
Cancel ==
    /\ work # Rest /\ Abandon
    /\ UNCHANGED <<batches, store, element, effects>>

-----------------------------------------------------------------------------
(* The image element: its effect, the Remote's answer, the continuation.   *)

Current == Len(effects)

(* The effect's cleanup. *)
CleanedUp ==
    [i \in DOMAIN effects |->
        IF effects[i].live
        THEN [effects[i] EXCEPT !.live = FALSE, !.url = IF @ = "open" THEN "revoked" ELSE @]
        ELSE effects[i]]
Loads(image) ==
    IF image = None THEN effects' = CleanedUp
    ELSE /\ Current < MaxEffects
         /\ effects' = Append(CleanedUp, [image |-> image, live |-> TRUE, url |-> None,
                                          at |-> "asked", answer |-> None])

(* The document of the panel follows; an output that is another object,    *)
(* also of the same image, is loaded again.                                *)
Displayed(outputs) == IF outputs # <<>> /\ outputs[1] \in Images THEN outputs[1] ELSE None
Render ==
    /\ element.version # cell.version
    /\ Loads(Displayed(cell.outputs))
    /\ element' = [version |-> cell.version, image |-> Displayed(cell.outputs),
                   src |-> None, failed |-> FALSE]
    /\ UNCHANGED <<batches, work, store, cell>>

Retry ==
    /\ element.failed /\ Loads(element.image)
    /\ element' = [element EXCEPT !.failed = FALSE, !.src = None]
    /\ UNCHANGED <<batches, work, store, cell>>

(* findNotebookImage: only what an open document refers to is read.        *)
Referenced(image) == image \in ToSet(cell.outputs)
Stored(image) == \E saved \in store : saved.image = image

Find(i) ==
    /\ effects[i].at = "asked"
    /\ effects' = [effects EXCEPT ![i].at = IF Referenced(effects[i].image) THEN "read" ELSE "answered"]
    /\ UNCHANGED <<batches, work, store, cell, element>>
Read(i) ==
    /\ effects[i].at = "read"
    /\ \E answer \in {None} \cup {image \in {effects[i].image} : Stored(image)} :
          effects' = [effects EXCEPT ![i] = [@ EXCEPT !.at = "answered", !.answer = answer]]
    /\ UNCHANGED <<batches, work, store, cell, element>>

Receives_Anytime(i) == TRUE   \* mutant
Receives(i) == effects[i].live
Deliver(i) ==
    /\ effects[i].at = "answered"
    /\ LET over(url) == [effects EXCEPT ![i] = [@ EXCEPT !.at = "over", !.url = url]]
       IN  IF effects[i].answer = None
           THEN /\ effects' = over(None)
                /\ element' = IF Receives(i) THEN [element EXCEPT !.failed = TRUE] ELSE element
           ELSE IF Receives(i)
           THEN effects' = over("open") /\ element' = [element EXCEPT !.src = i]
           ELSE effects' = over("revoked") /\ UNCHANGED element
    /\ UNCHANGED <<batches, work, store, cell>>

-----------------------------------------------------------------------------
Next ==
    \/ \E subject \in {"execution", "document"}, outputs \in Outputs : Begin(subject, outputs)
    \/ Collect \/ Validate \/ Save \/ Commit \/ Cancel
    \/ Render \/ Retry
    \/ \E i \in DOMAIN effects : Find(i) \/ Read(i) \/ Deliver(i)

Spec == Init /\ [][Next]_vars

(* Reads are answered, and the element renders. *)
Fairness ==
    /\ WF_vars(Render)
    /\ \A i \in 1 .. MaxEffects : WF_vars(i \in DOMAIN effects /\ (Find(i) \/ Read(i) \/ Deliver(i)))
FairSpec == Spec /\ Fairness

-----------------------------------------------------------------------------
(* Properties. *)

TypeOK ==
    /\ work.at \in {"rest", "collect", "validate", "save"}
    /\ work.todo \subseteq Images
    /\ \A saved \in store : saved.image \in Images /\ saved.batch \in DOMAIN batches
    /\ cell.status \in {"idle", "ok", "error"} /\ cell.version \in Nat
    /\ element.version =< cell.version /\ element.image \in Images \cup {None}
    /\ element.src \in DOMAIN effects \cup {None}
    /\ \A i \in DOMAIN effects : effects[i].live => i = Current

(* Of a batch that has one bad image, or too many, none is stored.         *)
BatchesAreCheckedFirst ==
    \A saved \in store :
        LET batch == batches[saved.batch]
        IN  Collectable(batch) /\ Collected(batch.outputs) \cap Invalid = {}

(* A document never refers to an image the store does not have, and one    *)
(* that shows a success shows all the execution printed or the file has,   *)
(* whatever fails or is cancelled in which order; "Validate every raster   *)
(* first, then store": nothing of a bad batch gets there.                  *)
DocumentsAreWhole ==
    /\ TypeOK /\ BatchesAreCheckedFirst
    /\ \A image \in ToSet(cell.outputs) \cap Images : Stored(image)
    /\ cell.status = "ok" => cell.outputs = batches[cell.batch].outputs

(* The element shows its own output, never a late answer for an earlier    *)
(* one, and every object URL but the one shown has been revoked.           *)
ElementShowsItsOutput ==
    /\ element.src # None =>
          /\ effects[element.src].image = element.image /\ effects[element.src].url = "open"
          /\ element.image # None
    /\ \A i \in DOMAIN effects : effects[i].url = "open" => element.src = i

(* An image leaves the Host only while a document that is open refers to   *)
(* it, also if the store has it from an earlier execution.                 *)
OnlyReferencedIsRead ==
    [][\A i \in DOMAIN effects :
          effects[i].at = "asked" /\ effects'[i].at = "read" =>
              effects[i].image \in ToSet(cell.outputs)]_vars

(* The element shows the image or its failure, or nothing.                 *)
Settled == element.image # None => element.src # None \/ element.failed
=============================================================================
