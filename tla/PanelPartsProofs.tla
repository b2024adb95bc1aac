-------------------------- MODULE PanelPartsProofs --------------------------
(***************************************************************************)
(* The images of a cell, the environment card, and the launcher's list.    *)
(* They share nothing, and each has its own invariant and theorems, for    *)
(* any outputs, limits, admissions, loadings, operations, workspaces,      *)
(* faults and changes by others.                                           *)
(*                                                                         *)
(* Images.  The two halves meet in the cell only.  Of an admission the     *)
(* invariant says what it has made sure of so far: it validates while the  *)
(* images not yet validated are still to do, and saves only when all are   *)
(* valid.  Of the element it says that the one loading that may change it  *)
(* is the last one, is of its image, and has the one object URL that is    *)
(* open.                                                                   *)
(*                                                                         *)
(* Card.  What makes the catalog it offers the Host's is that, unless an   *)
(* operation was given up or failed, only the latest operation may change  *)
(* anything at the Host: an operation that overtakes another follows one   *)
(* that has ended, or one that only reads.                                 *)
(*                                                                         *)
(* List.  Its pages come from different walks, of a disk that may have     *)
(* changed between them, and no walk knows what another has seen.  What    *)
(* joins them is the path a page ends at.  A mark is what a walk knows     *)
(* when it comes to a notebook: the directories above it, what it has met  *)
(* by then and on which ways, and that no other way leads there before.    *)
(* The invariant (LauncherInv) has a mark where the list ends, over a set  *)
(* of entries that has all the disk still has but what came since.  The    *)
(* walk for the next page has one of its own when it comes there, and the  *)
(* two agree on every notebook that no new way leads to (MarksAgree,       *)
(* PassedAreSaid), so that it passes over those that are listed and no     *)
(* others; and a walk that is through has met them all (AllIsSeen).        *)
(***************************************************************************)
EXTENDS PanelParts, SequenceTheorems, WellFoundedInduction, TLAPS

-----------------------------------------------------------------------------
(* Images. *)

BatchRecord == [subject : {"execution", "document"}, outputs : Seq(Images \cup {Text})]
WorkRecord == [at : {"rest", "collect", "validate", "save"}, todo : SUBSET Images]
SavedRecord == [image : Images, batch : Nat]
CellRecord == [version : Nat, outputs : Seq(Images \cup {Text, Error}),
               status : {"idle", "ok", "error"}, batch : Nat]
ElementRecord == [version : Nat, image : Images \cup {None}, src : Nat \cup {None}, failed : BOOLEAN]
EffectRecord == [image : Images, live : BOOLEAN, url : {None, "open", "revoked"},
                 at : {"asked", "read", "answered", "over"}, answer : Images \cup {None}]

Typed ==
    /\ batches \in Seq(BatchRecord)
    /\ work \in WorkRecord
    /\ store \in SUBSET SavedRecord
    /\ cell \in CellRecord
    /\ element \in ElementRecord
    /\ effects \in Seq(EffectRecord)

(* What the admission under way has made sure of.                          *)
AdmissionInv ==
    /\ work.at # "rest" => batches # <<>>
    /\ work.at \in {"validate", "save"} => Collectable(Batch)
    /\ work.at = "validate" => Collected(Batch.outputs) \cap Invalid \subseteq work.todo
    /\ work.at = "save" =>
          /\ Collected(Batch.outputs) \cap Invalid = {}
          /\ \A image \in Collected(Batch.outputs) : image \in work.todo \/ Stored(image)

StoreInv == BatchesAreCheckedFirst /\ \A saved \in store : saved.batch \in DOMAIN batches

CellInv ==
    /\ \A image \in Collected(cell.outputs) : Stored(image)
    /\ cell.status = "ok" =>
          cell.batch \in DOMAIN batches /\ cell.outputs = batches[cell.batch].outputs

EffectInv(i) ==
    /\ effects[i].live => i = Current /\ effects[i].image = element.image
    /\ effects[i].url = "open" => effects[i].live /\ effects[i].at = "over" /\ element.src = i
ElementInv ==
    /\ element.version =< cell.version
    /\ \A i \in DOMAIN effects : EffectInv(i)
    /\ element.src # None => element.src \in DOMAIN effects /\ effects[element.src].url = "open"

Inv == Typed /\ AdmissionInv /\ StoreInv /\ CellInv /\ ElementInv

-----------------------------------------------------------------------------
(* The invariant holds initially, and says what the properties say.        *)

LEMMA InitInv == Init => Inv
<1> SUFFICES ASSUME Init PROVE Inv
    OBVIOUS
<1>1. Typed
    <2>1. <<>> \in Seq(BatchRecord) /\ <<>> \in Seq(EffectRecord) /\ <<>> \in Seq(Images \cup {Text, Error})
        OBVIOUS
    <2> QED BY <2>1 DEF Init, Typed, Rest, NoElement, WorkRecord, CellRecord, ElementRecord
<1>2. AdmissionInv
    BY DEF Init, AdmissionInv, Rest
<1>3. StoreInv
    BY DEF Init, StoreInv, BatchesAreCheckedFirst
<1>4. CellInv
    BY DEF Init, CellInv, Collected, ToSet
<1>5. ElementInv
    BY DEF Init, ElementInv, NoElement
<1> QED BY <1>1, <1>2, <1>3, <1>4, <1>5 DEF Inv

LEMMA InvImplies == Inv => DocumentsAreWhole /\ ElementShowsItsOutput
<1> SUFFICES ASSUME Inv PROVE DocumentsAreWhole /\ ElementShowsItsOutput
    OBVIOUS
<1> USE DEF Inv
<1>1. TypeOK
    <2>1. \A saved \in store : saved.image \in Images /\ saved.batch \in DOMAIN batches
        BY DEF Typed, StoreInv, SavedRecord
    <2>2. element.src \in DOMAIN effects \cup {None}
        BY DEF ElementInv
    <2>3. \A i \in DOMAIN effects : effects[i].live => i = Current
        BY DEF ElementInv, EffectInv
    <2>4. element.version =< cell.version
        BY DEF ElementInv
    <2> QED BY <2>1, <2>2, <2>3, <2>4 DEF TypeOK, Typed, WorkRecord, CellRecord, ElementRecord
<1>2. DocumentsAreWhole
    BY <1>1 DEF DocumentsAreWhole, StoreInv, CellInv, Collected
<1>3. ASSUME element.src # None
      PROVE  /\ effects[element.src].image = element.image /\ effects[element.src].url = "open"
             /\ element.image # None
    <2>1. element.src \in DOMAIN effects /\ effects[element.src].url = "open"
        BY <1>3 DEF ElementInv
    <2>2. effects[element.src].live /\ effects[element.src].image = element.image
        BY <2>1 DEF ElementInv, EffectInv
    <2>3. effects[element.src] \in EffectRecord
        BY <2>1 DEF Typed
    <2>4. effects[element.src].image \in Images
        BY <2>3 DEF EffectRecord
    <2> QED BY <2>1, <2>2, <2>4, ImagesAssumption
<1>4. \A i \in DOMAIN effects : effects[i].url = "open" => element.src = i
    BY DEF ElementInv, EffectInv
<1> QED BY <1>2, <1>3, <1>4 DEF ElementShowsItsOutput

-----------------------------------------------------------------------------
(* The steps of an admission.                                              *)

(* They leave the element alone, and the cell's version never falls.       *)
LEMMA ElementStays ==
    ASSUME Inv, UNCHANGED <<element, effects>>, cell' \in CellRecord, cell'.version >= cell.version
    PROVE  ElementInv'
<1>1. element.version \in Nat /\ cell.version \in Nat /\ cell'.version \in Nat
    BY DEF Inv, Typed, ElementRecord, CellRecord
<1>2. element'.version =< cell'.version
    BY <1>1 DEF Inv, ElementInv
<1>3. \A i \in DOMAIN effects' : EffectInv(i)'
    BY DEF Inv, ElementInv, EffectInv, Current
<1>4. element'.src # None => element'.src \in DOMAIN effects' /\ effects'[element'.src].url = "open"
    BY DEF Inv, ElementInv
<1> QED BY <1>2, <1>3, <1>4 DEF ElementInv

(* The batch under way is the last one.                                    *)
LEMMA BatchUnderWay ==
    ASSUME Inv, work.at # "rest"
    PROVE  /\ Len(batches) \in DOMAIN batches /\ Batch = batches[Len(batches)]
           /\ Batch \in BatchRecord
<1>1. batches # <<>> /\ batches \in Seq(BatchRecord)
    BY DEF Inv, AdmissionInv, Typed
<1>2. Len(batches) \in Nat \ {0} /\ DOMAIN batches = 1 .. Len(batches)
    BY <1>1
<1> QED BY <1>1, <1>2 DEF Batch, Last

LEMMA BeginStep ==
    ASSUME Inv, NEW subject \in {"execution", "document"}, NEW outputs \in Outputs,
           Begin(subject, outputs)
    PROVE  Inv'
<1> DEFINE batch == [subject |-> subject, outputs |-> outputs]
<1>1. batch \in BatchRecord
    BY ImagesAssumption DEF BatchRecord
<1>2. batches' = Append(batches, batch) /\ work' = [at |-> "collect", todo |-> {}]
      /\ UNCHANGED <<store, cell, element, effects>>
    BY DEF Begin
<1>3. batches \in Seq(BatchRecord)
    BY DEF Inv, Typed
<1> HIDE DEF batch
<1>4. /\ Len(batches') = Len(batches) + 1 /\ Len(batches) \in Nat
      /\ \A k \in DOMAIN batches : k \in DOMAIN batches' /\ batches'[k] = batches[k]
    BY <1>1, <1>2, <1>3
<1>5. Typed'
    <2>1. batches' \in Seq(BatchRecord)
        BY <1>1, <1>2, <1>3
    <2>2. work' \in WorkRecord
        BY <1>2 DEF WorkRecord
    <2> QED BY <2>1, <2>2, <1>2 DEF Inv, Typed
<1>6. AdmissionInv'
    <2>1. batches' # <<>>
        BY <1>4
    <2> QED BY <1>2, <2>1 DEF AdmissionInv
<1>7. StoreInv'
    BY <1>2, <1>4 DEF Inv, StoreInv, BatchesAreCheckedFirst
<1>8. CellInv'
    BY <1>2, <1>4 DEF Inv, CellInv, Stored
<1>9. ElementInv'
    <2>1. cell.version \in Nat /\ cell \in CellRecord
        BY DEF Inv, Typed, CellRecord
    <2> QED BY <1>2, <2>1, ElementStays
<1> QED BY <1>5, <1>6, <1>7, <1>8, <1>9 DEF Inv

(* A step that only notes progress in the work.                            *)
LEMMA WorkStep ==
    ASSUME Inv, UNCHANGED <<batches, store, cell, element, effects>>,
           work' \in WorkRecord, AdmissionInv'
    PROVE  Inv'
<1>1. Typed'
    BY DEF Inv, Typed
<1>2. StoreInv'
    BY DEF Inv, StoreInv, BatchesAreCheckedFirst
<1>3. CellInv'
    BY DEF Inv, CellInv, Stored
<1>4. ElementInv'
    BY DEF Inv, ElementInv, EffectInv, Current
<1> QED BY <1>1, <1>2, <1>3, <1>4 DEF Inv

(* A failure has no images.                                                *)
LEMMA FailureStep ==
    ASSUME Inv, work.at # "rest", Publish(<<Error>>, "error"),
           UNCHANGED <<batches, store, element, effects>>
    PROVE  Inv'
<1>1. cell' = [version |-> cell.version + 1, outputs |-> <<Error>>, status |-> "error",
               batch |-> Len(batches)] /\ work' = Rest
    BY DEF Publish
<1>2. <<Error>> \in Seq(Images \cup {Text, Error}) /\ Len(batches) \in Nat /\ cell.version \in Nat
    BY DEF Inv, Typed, CellRecord
<1>3. cell' \in CellRecord /\ cell'.version >= cell.version
    BY <1>1, <1>2 DEF CellRecord
<1>4. Typed'
    BY <1>1, <1>3 DEF Inv, Typed, WorkRecord, Rest
<1>5. AdmissionInv'
    BY <1>1 DEF AdmissionInv, Rest
<1>6. StoreInv'
    BY DEF Inv, StoreInv, BatchesAreCheckedFirst
<1>7. CellInv'
    <2>1. Collected(cell'.outputs) = {}
        <3>1. cell'.outputs = <<Error>>
            BY <1>1
        <3>2. ToSet(<<Error>>) = {Error}
            BY DEF ToSet
        <3> QED BY <3>1, <3>2, ImagesAssumption DEF Collected
    <2>2. cell'.status = "error"
        BY <1>1
    <2> QED BY <2>1, <2>2 DEF CellInv
<1>8. ElementInv'
    BY <1>3, ElementStays
<1> QED BY <1>4, <1>5, <1>6, <1>7, <1>8 DEF Inv

LEMMA AbandonStep ==
    ASSUME Inv, Abandon, UNCHANGED <<batches, store, element, effects>>
    PROVE  Inv'
<1>1. work' = Rest /\ UNCHANGED cell
    BY DEF Abandon
<1>2. work' \in WorkRecord /\ AdmissionInv'
    BY <1>1 DEF AdmissionInv, Rest, WorkRecord
<1> QED BY <1>1, <1>2, WorkStep

LEMMA RefuseStep ==
    ASSUME Inv, work.at # "rest", Refuse, UNCHANGED <<batches, store, element, effects>>
    PROVE  Inv'
<1>1. CASE Batch.subject = "execution"
    <2>1. Publish(<<Error>>, "error")
        BY <1>1 DEF Refuse
    <2> QED BY <2>1, FailureStep
<1>2. CASE Batch.subject # "execution"
    <2>1. Abandon
        BY <1>2 DEF Refuse
    <2> QED BY <2>1, AbandonStep
<1> QED BY <1>1, <1>2

LEMMA CollectStep == ASSUME Inv, Collect PROVE Inv'
<1>1. work.at = "collect" /\ UNCHANGED <<batches, store, element, effects>>
    BY DEF Collect
<1>2. CASE Collectable(Batch)
    <2>1. work' = [work EXCEPT !.at = "validate", !.todo = Collected(Batch.outputs)] /\ UNCHANGED cell
        BY <1>2 DEF Collect, First
    <2>2. work \in WorkRecord /\ Collected(Batch.outputs) \subseteq Images
        BY DEF Inv, Typed, Collected
    <2>3. work' \in WorkRecord /\ work'.at = "validate" /\ work'.todo = Collected(Batch.outputs)
        BY <2>1, <2>2 DEF WorkRecord
    <2>4. Batch' = Batch /\ batches # <<>> /\ batches' = batches
        BY <1>1 DEF Batch, Inv, AdmissionInv
    <2>5. AdmissionInv'
        BY <1>2, <2>3, <2>4 DEF AdmissionInv
    <2> QED BY <1>1, <2>1, <2>3, <2>5, WorkStep
<1>3. CASE ~Collectable(Batch)
    <2>1. Refuse
        BY <1>3 DEF Collect
    <2> QED BY <1>1, <2>1, RefuseStep
<1> QED BY <1>2, <1>3

LEMMA ValidateStep == ASSUME Inv, Validate PROVE Inv'
<1>1. work.at = "validate" /\ UNCHANGED <<batches, store, element, effects>>
    BY DEF Validate
<1>2. /\ work \in WorkRecord /\ Collected(Batch.outputs) \subseteq Images
      /\ Batch' = Batch /\ batches # <<>> /\ Collectable(Batch)
      /\ Collected(Batch.outputs) \cap Invalid \subseteq work.todo
    BY <1>1 DEF Inv, Typed, AdmissionInv, Collected, Batch
<1>3. CASE work.todo = {} /\ work' = [work EXCEPT !.at = "save", !.todo = Collected(Batch.outputs)]
           /\ UNCHANGED cell
    <2>1. work' \in WorkRecord /\ work'.at = "save" /\ work'.todo = Collected(Batch.outputs)
        BY <1>2, <1>3 DEF WorkRecord
    <2>2. AdmissionInv'
        BY <1>1, <1>2, <1>3, <2>1 DEF AdmissionInv
    <2> QED BY <1>1, <1>3, <2>1, <2>2, WorkStep
<1>4. ASSUME NEW image \in work.todo, image \notin Invalid,
             work' = [work EXCEPT !.todo = @ \ {image}], UNCHANGED cell
      PROVE  Inv'
    <2>1. work' \in WorkRecord /\ work'.at = "validate" /\ work'.todo = work.todo \ {image}
        BY <1>1, <1>2, <1>4 DEF WorkRecord
    <2>2. AdmissionInv'
        BY <1>1, <1>2, <1>4, <2>1 DEF AdmissionInv
    <2> QED BY <1>1, <1>4, <2>1, <2>2, WorkStep
<1>5. ASSUME Refuse PROVE Inv'
    BY <1>1, <1>5, RefuseStep
<1> QED BY <1>3, <1>4, <1>5 DEF Validate

(* What is saved belongs to a batch that has been checked.                 *)
LEMMA SaveStep == ASSUME Inv, Save PROVE Inv'
<1>1. work.at = "save" /\ UNCHANGED <<batches, element, effects>>
    BY DEF Save
<1>2. ASSUME NEW image \in work.todo,
             store' = store \cup {[image |-> image, batch |-> Len(batches)]},
             work' = [work EXCEPT !.todo = @ \ {image}], UNCHANGED cell
      PROVE  Inv'
    <2> DEFINE saved == [image |-> image, batch |-> Len(batches)]
    <2>1. work \in WorkRecord /\ image \in Images /\ Len(batches) \in DOMAIN batches
          /\ Batch = batches[Len(batches)] /\ Len(batches) \in Nat
        BY <1>1, BatchUnderWay DEF Inv, Typed, WorkRecord
    <2>2. saved \in SavedRecord /\ saved.batch = Len(batches) /\ saved.image = image
        BY <2>1 DEF SavedRecord
    <2> HIDE DEF saved
    <2>3. store' = store \cup {saved}
        BY <1>2 DEF saved
    <2>4. work' \in WorkRecord /\ work'.at = "save" /\ work'.todo = work.todo \ {image}
        BY <1>1, <1>2, <2>1 DEF WorkRecord
    <2>5. \A other : Stored(other) => Stored(other)'
        BY <2>3 DEF Stored
    <2>6. Stored(image)'
        BY <2>2, <2>3 DEF Stored
    <2>7. Typed'
        BY <1>1, <1>2, <2>2, <2>3, <2>4 DEF Inv, Typed
    <2>8. Collectable(Batch) /\ Collected(Batch.outputs) \cap Invalid = {} /\ batches # <<>>
        BY <1>1 DEF Inv, AdmissionInv
    <2>9. AdmissionInv'
        <3>1. Batch' = Batch /\ batches' = batches
            BY <1>1 DEF Batch
        <3>2. \A other \in Collected(Batch.outputs) : other \in work'.todo \/ Stored(other)'
            BY <1>1, <2>4, <2>5, <2>6 DEF Inv, AdmissionInv
        <3> QED BY <2>4, <2>8, <3>1, <3>2 DEF AdmissionInv
    <2>10. StoreInv'
        <3>1. \A other \in store : other.batch \in DOMAIN batches
                 /\ Collectable(batches[other.batch])
                 /\ Collected(batches[other.batch].outputs) \cap Invalid = {}
            BY DEF Inv, StoreInv, BatchesAreCheckedFirst
        <3>2. saved.batch \in DOMAIN batches /\ Collectable(batches[saved.batch])
              /\ Collected(batches[saved.batch].outputs) \cap Invalid = {}
            BY <2>1, <2>2, <2>8
        <3> QED BY <1>1, <2>3, <3>1, <3>2 DEF StoreInv, BatchesAreCheckedFirst
    <2>11. CellInv'
        BY <1>1, <1>2, <2>5 DEF Inv, CellInv
    <2>12. ElementInv'
        <3>1. cell \in CellRecord /\ cell.version \in Nat
            BY DEF Inv, Typed, CellRecord
        <3> QED BY <1>1, <1>2, <3>1, ElementStays
    <2> QED BY <2>7, <2>9, <2>10, <2>11, <2>12 DEF Inv
<1>3. ASSUME Refuse, UNCHANGED store PROVE Inv'
    BY <1>1, <1>3, RefuseStep
<1> QED BY <1>2, <1>3 DEF Save

LEMMA CommitStep == ASSUME Inv, Commit PROVE Inv'
<1>1. work.at = "save" /\ work.todo = {} /\ UNCHANGED <<batches, store, element, effects>>
    BY DEF Commit
<1>2. CASE Publish(Batch.outputs, "ok")
    <2>1. /\ cell' = [version |-> cell.version + 1, outputs |-> Batch.outputs, status |-> "ok",
                      batch |-> Len(batches)]
          /\ work' = Rest
        BY <1>2 DEF Publish
    <2>2. /\ Len(batches) \in DOMAIN batches /\ Len(batches) \in Nat
          /\ Batch = batches[Len(batches)] /\ Batch \in BatchRecord
        BY <1>1, BatchUnderWay DEF Inv, Typed
    <2>3. Batch.outputs \in Seq(Images \cup {Text})
        BY <2>2 DEF BatchRecord
    <2>4. Batch.outputs \in Seq(Images \cup {Text, Error})
        BY <2>3
    <2>5. cell.version \in Nat
        BY DEF Inv, Typed, CellRecord
    <2>6. /\ cell' \in CellRecord /\ cell'.version >= cell.version
          /\ cell'.outputs = Batch.outputs /\ cell'.batch = Len(batches)
        BY <2>1, <2>2, <2>4, <2>5 DEF CellRecord
    <2>7. Typed'
        BY <1>1, <2>1, <2>6 DEF Inv, Typed, WorkRecord, Rest
    <2>8. AdmissionInv'
        BY <2>1 DEF AdmissionInv, Rest
    <2>9. StoreInv'
        BY <1>1 DEF Inv, StoreInv, BatchesAreCheckedFirst
    <2>10. CellInv'
        <3>1. \A image \in Collected(Batch.outputs) : Stored(image)
            BY <1>1 DEF Inv, AdmissionInv
        <3>2. \A image \in Collected(Batch.outputs) : Stored(image)'
            BY <1>1, <3>1 DEF Stored
        <3> QED BY <1>1, <2>2, <2>6, <3>2 DEF CellInv
    <2>11. ElementInv'
        BY <1>1, <2>6, ElementStays
    <2> QED BY <2>7, <2>8, <2>9, <2>10, <2>11 DEF Inv
<1>3. CASE Publish(<<Error>>, "error")
    BY <1>1, <1>3, FailureStep
<1>4. CASE Abandon
    BY <1>1, <1>4, AbandonStep
<1> QED BY <1>2, <1>3, <1>4 DEF Commit

-----------------------------------------------------------------------------
(* The steps of the element.                                               *)

(* They leave the admission and the cell alone.                            *)
LEMMA HostStays ==
    ASSUME Inv, UNCHANGED <<batches, work, store, cell>>,
           element' \in ElementRecord, effects' \in Seq(EffectRecord), ElementInv'
    PROVE  Inv'
<1>1. Typed'
    BY DEF Inv, Typed
<1>2. AdmissionInv'
    BY DEF Inv, AdmissionInv, Batch, Stored
<1>3. StoreInv'
    BY DEF Inv, StoreInv, BatchesAreCheckedFirst
<1>4. CellInv'
    BY DEF Inv, CellInv, Stored
<1> QED BY <1>1, <1>2, <1>3, <1>4 DEF Inv

(* The cleanup ends the loading there was and revokes its URL.             *)
LEMMA Cleanup ==
    ASSUME Inv
    PROVE  /\ CleanedUp \in Seq(EffectRecord) /\ Len(CleanedUp) = Len(effects)
           /\ \A i \in DOMAIN effects :
                 ~CleanedUp[i].live /\ CleanedUp[i].url # "open" /\ CleanedUp[i].at = effects[i].at
<1>1. effects \in Seq(EffectRecord) /\ Len(effects) \in Nat /\ DOMAIN effects = 1 .. Len(effects)
    BY DEF Inv, Typed
<1>2. ASSUME NEW i \in DOMAIN effects
      PROVE  /\ CleanedUp[i] \in EffectRecord /\ ~CleanedUp[i].live /\ CleanedUp[i].url # "open"
             /\ CleanedUp[i].at = effects[i].at
    <2> DEFINE e == effects[i]
    <2>1. e \in EffectRecord /\ CleanedUp[i] =
              IF e.live THEN [e EXCEPT !.live = FALSE, !.url = IF @ = "open" THEN "revoked" ELSE @]
              ELSE e
        BY <1>1 DEF CleanedUp
    <2>2. e.url = "open" => e.live
        BY DEF Inv, ElementInv, EffectInv
    <2> HIDE DEF e
    <2> DEFINE url == IF e.url = "open" THEN "revoked" ELSE e.url
    <2>3. ASSUME e.live
          PROVE  /\ CleanedUp[i] \in EffectRecord /\ ~CleanedUp[i].live
                 /\ CleanedUp[i].url # "open" /\ CleanedUp[i].at = e.at
        <3>1. url \in {None, "open", "revoked"} /\ url # "open"
            BY <2>1 DEF EffectRecord
        <3>2. CleanedUp[i] = [e EXCEPT !.live = FALSE, !.url = url]
            BY <2>1, <2>3
        <3> HIDE DEF url
        <3>3. [e EXCEPT !.live = FALSE, !.url = url] \in EffectRecord
            BY <2>1, <3>1 DEF EffectRecord
        <3>4. ~[e EXCEPT !.live = FALSE, !.url = url].live
            BY <2>1, <3>1 DEF EffectRecord
        <3>5. [e EXCEPT !.live = FALSE, !.url = url].url = url
            BY <2>1, <3>1 DEF EffectRecord
        <3>6. [e EXCEPT !.live = FALSE, !.url = url].at = e.at
            BY <2>1, <3>1 DEF EffectRecord
        <3> QED BY <3>1, <3>2, <3>3, <3>4, <3>5, <3>6
    <2>4. ASSUME ~e.live
          PROVE  /\ CleanedUp[i] \in EffectRecord /\ ~CleanedUp[i].live
                 /\ CleanedUp[i].url # "open" /\ CleanedUp[i].at = e.at
        BY <2>1, <2>2, <2>4
    <2> QED BY <2>3, <2>4 DEF e
<1>3. CleanedUp \in [1 .. Len(effects) -> EffectRecord]
    BY <1>1, <1>2 DEF CleanedUp
<1>4. CleanedUp \in Seq(EffectRecord) /\ Len(CleanedUp) = Len(effects)
    BY <1>1, <1>3
<1> QED BY <1>2, <1>4

(* A new loading is the last one, and of the element's image.              *)
LEMMA LoadsStep ==
    ASSUME Inv, NEW image \in Images \cup {None}, Loads(image),
           UNCHANGED <<batches, work, store, cell>>,
           element' \in ElementRecord, element'.image = image, element'.src = None,
           element'.version =< cell.version
    PROVE  Inv'
<1>1. CASE image = None
    <2>1. effects' = CleanedUp
        BY <1>1 DEF Loads
    <2>2. effects' \in Seq(EffectRecord) /\ DOMAIN effects' = DOMAIN effects
          /\ \A i \in DOMAIN effects : ~effects'[i].live /\ effects'[i].url # "open"
        BY <2>1, Cleanup DEF Inv, Typed
    <2>3. ElementInv'
        BY <2>2 DEF ElementInv, EffectInv
    <2> QED BY <2>2, <2>3, HostStays
<1>2. CASE image # None
    <2> DEFINE new == [image |-> image, live |-> TRUE, url |-> None, at |-> "asked", answer |-> None]
    <2>1. effects' = Append(CleanedUp, new)
        BY <1>2 DEF Loads
    <2>2. new \in EffectRecord /\ new.image = image /\ new.url # "open"
        BY <1>2, ImagesAssumption DEF EffectRecord
    <2> HIDE DEF new
    <2> DEFINE old == CleanedUp
    <2>3. old \in Seq(EffectRecord) /\ \A i \in DOMAIN old : ~old[i].live /\ old[i].url # "open"
        BY Cleanup DEF Inv, Typed
    <2>4. effects' = Append(old, new)
        BY <2>1
    <2> HIDE DEF old
    <2>5. /\ effects' \in Seq(EffectRecord) /\ Current' = Len(old) + 1 /\ Len(old) \in Nat
          /\ DOMAIN effects' = 1 .. Len(old) + 1 /\ effects'[Current'] = new
          /\ \A i \in DOMAIN effects' :
                i # Current' => ~effects'[i].live /\ effects'[i].url # "open"
        BY <2>2, <2>3, <2>4 DEF Current
    <2>6. \A i \in DOMAIN effects' : EffectInv(i)'
        BY <2>2, <2>5 DEF EffectInv
    <2>7. ElementInv'
        BY <2>6 DEF ElementInv
    <2> QED BY <2>5, <2>7, HostStays
<1> QED BY <1>1, <1>2

LEMMA RenderStep == ASSUME Inv, Render PROVE Inv'
<1> DEFINE image == Displayed(cell.outputs)
<1>1. /\ Loads(image) /\ UNCHANGED <<batches, work, store, cell>>
      /\ element' = [version |-> cell.version, image |-> image, src |-> None, failed |-> FALSE]
    BY DEF Render
<1>2. image \in Images \cup {None}
    BY DEF Displayed
<1>3. cell.version \in Nat
    BY DEF Inv, Typed, CellRecord
<1> HIDE DEF image
<1>4. element' \in ElementRecord /\ element'.image = image /\ element'.src = None
      /\ element'.version =< cell.version
    BY <1>1, <1>2, <1>3 DEF ElementRecord
<1> QED BY <1>1, <1>2, <1>4, LoadsStep

LEMMA RetryStep == ASSUME Inv, Retry PROVE Inv'
<1>1. /\ Loads(element.image) /\ UNCHANGED <<batches, work, store, cell>>
      /\ element' = [element EXCEPT !.failed = FALSE, !.src = None]
    BY DEF Retry
<1>2. element \in ElementRecord /\ element.image \in Images \cup {None} /\ element.version =< cell.version
    BY DEF Inv, Typed, ElementRecord, ElementInv
<1>3. element' \in ElementRecord
    BY <1>1, <1>2 DEF ElementRecord
<1>4. element'.image = element.image /\ element'.src = None /\ element'.version = element.version
    BY <1>1, <1>2 DEF ElementRecord
<1> QED BY <1>1, <1>2, <1>3, <1>4, LoadsStep

(* A loading that goes on is still of the same image, and not yet open.    *)
LEMMA ProgressStep ==
    ASSUME Inv, NEW i \in DOMAIN effects, NEW r \in EffectRecord,
           effects' = [effects EXCEPT ![i] = r], UNCHANGED <<batches, work, store, cell, element>>,
           effects[i].at # "over", r.image = effects[i].image, r.live <=> effects[i].live,
           r.url # "open"
    PROVE  Inv'
<1>1. effects \in Seq(EffectRecord)
    BY DEF Inv, Typed
<1>2. /\ effects' \in Seq(EffectRecord) /\ DOMAIN effects' = DOMAIN effects /\ Current' = Current
      /\ effects'[i] = r /\ \A j \in DOMAIN effects : j # i => effects'[j] = effects[j]
    BY <1>1 DEF Current
<1>3. \A j \in DOMAIN effects : EffectInv(j)'
    BY <1>2 DEF Inv, ElementInv, EffectInv
<1>4. element.src # None => element.src # i
    BY DEF Inv, ElementInv, EffectInv
<1>5. ElementInv'
    BY <1>2, <1>3, <1>4 DEF Inv, ElementInv
<1>6. element' \in ElementRecord
    BY DEF Inv, Typed
<1> QED BY <1>2, <1>5, <1>6, HostStays

LEMMA FindStep == ASSUME Inv, NEW i \in DOMAIN effects, Find(i) PROVE Inv'
<1> DEFINE next == IF Referenced(effects[i].image) THEN "read" ELSE "answered"
           r == [effects[i] EXCEPT !.at = next]
<1>1. effects[i].at = "asked" /\ UNCHANGED <<batches, work, store, cell, element>>
      /\ effects' = [effects EXCEPT ![i] = r]
    BY DEF Find
<1>2. effects[i] \in EffectRecord /\ effects[i].url # "open"
    BY <1>1 DEF Inv, Typed, ElementInv, EffectInv
<1>3. next \in {"read", "answered"}
    OBVIOUS
<1> HIDE DEF next
<1>4. r \in EffectRecord
    BY <1>2, <1>3 DEF EffectRecord
<1>5. r.image = effects[i].image /\ r.url = effects[i].url
    BY <1>2 DEF EffectRecord
<1>6. r.live <=> effects[i].live
    BY <1>2 DEF EffectRecord
<1> HIDE DEF r
<1> QED BY <1>1, <1>2, <1>4, <1>5, <1>6, ProgressStep

LEMMA ReadStep == ASSUME Inv, NEW i \in DOMAIN effects, Read(i) PROVE Inv'
<1>1. effects[i].at = "read" /\ UNCHANGED <<batches, work, store, cell, element>>
    BY DEF Read
<1>2. effects[i] \in EffectRecord /\ effects[i].url # "open"
    BY <1>1 DEF Inv, Typed, ElementInv, EffectInv
<1>3. PICK answer \in Images \cup {None} :
          effects' = [effects EXCEPT ![i] = [@ EXCEPT !.at = "answered", !.answer = answer]]
    BY <1>2 DEF Read, EffectRecord
<1> DEFINE r == [effects[i] EXCEPT !.at = "answered", !.answer = answer]
<1>4. r \in EffectRecord
    BY <1>2 DEF EffectRecord
<1>5. r.image = effects[i].image /\ r.url = effects[i].url
    BY <1>2 DEF EffectRecord
<1>6. r.live <=> effects[i].live
    BY <1>2 DEF EffectRecord
<1>7. effects' = [effects EXCEPT ![i] = r]
    BY <1>3 DEF Inv, Typed
<1> HIDE DEF r
<1> QED BY <1>1, <1>2, <1>4, <1>5, <1>6, <1>7, ProgressStep

(* Only the live loading is received, and it opens the only URL.           *)
LEMMA DeliverStep == ASSUME Inv, NEW i \in DOMAIN effects, Deliver(i) PROVE Inv'
<1> DEFINE over(url) == [effects[i] EXCEPT !.at = "over", !.url = url]
<1>1. effects[i].at = "answered" /\ UNCHANGED <<batches, work, store, cell>>
    BY DEF Deliver
<1>2. effects[i] \in EffectRecord /\ effects[i].url # "open" /\ effects \in Seq(EffectRecord)
    BY <1>1 DEF Inv, Typed, ElementInv, EffectInv
<1>3. ASSUME NEW url \in {None, "open", "revoked"}
      PROVE  /\ over(url) \in EffectRecord /\ over(url).url = url /\ over(url).at = "over"
             /\ over(url).image = effects[i].image
    BY <1>2 DEF EffectRecord
<1>4. ASSUME NEW url \in {None, "open", "revoked"} PROVE over(url).live <=> effects[i].live
    BY <1>2 DEF EffectRecord
<1>5. ASSUME NEW url \in {None, "revoked"}, effects' = [effects EXCEPT ![i] = over(url)],
             element' \in ElementRecord, element'.image = element.image, element'.src = element.src,
             element'.version = element.version
      PROVE  Inv'
    <2> DEFINE r == over(url)
    <2>1. r \in EffectRecord /\ r.image = effects[i].image /\ (r.live <=> effects[i].live) /\ r.url # "open"
        BY <1>3, <1>4, ImagesAssumption
    <2>2. effects' = [effects EXCEPT ![i] = r]
        BY <1>5
    <2> HIDE DEF r, over
    <2>3. /\ effects' \in Seq(EffectRecord) /\ DOMAIN effects' = DOMAIN effects /\ Current' = Current
          /\ effects'[i] = r /\ \A j \in DOMAIN effects : j # i => effects'[j] = effects[j]
        BY <1>2, <2>1, <2>2 DEF Current
    <2>4. \A j \in DOMAIN effects : EffectInv(j)'
        BY <1>5, <2>1, <2>3 DEF Inv, ElementInv, EffectInv
    <2>5. element.src # None => element.src # i
        BY <1>2 DEF Inv, ElementInv
    <2>6. ElementInv'
        BY <1>1, <1>5, <2>3, <2>4, <2>5 DEF Inv, ElementInv
    <2> QED BY <1>1, <1>5, <2>3, <2>6, HostStays
<1>6. ASSUME effects[i].live, effects' = [effects EXCEPT ![i] = over("open")],
             element' = [element EXCEPT !.src = i]
      PROVE  Inv'
    <2> DEFINE r == over("open")
    <2>1. r \in EffectRecord /\ r.image = effects[i].image /\ r.live /\ r.url = "open" /\ r.at = "over"
        BY <1>3, <1>4, <1>6
    <2>2. effects' = [effects EXCEPT ![i] = r]
        BY <1>6
    <2> HIDE DEF r, over
    <2>3. /\ effects' \in Seq(EffectRecord) /\ DOMAIN effects' = DOMAIN effects /\ Current' = Current
          /\ effects'[i] = r /\ \A j \in DOMAIN effects : j # i => effects'[j] = effects[j]
        BY <1>2, <2>1, <2>2 DEF Current
    <2>4. element \in ElementRecord /\ i \in Nat
        BY <1>2 DEF Inv, Typed
    <2>5. element' \in ElementRecord /\ element'.image = element.image /\ element'.src = i
          /\ element'.version = element.version
        BY <1>6, <2>4 DEF ElementRecord
    <2>6. i = Current /\ effects[i].image = element.image
        BY <1>6 DEF Inv, ElementInv, EffectInv
    <2>7. \A j \in DOMAIN effects : j # i => ~effects[j].live /\ effects[j].url # "open"
        BY <2>6 DEF Inv, ElementInv, EffectInv
    <2>8. \A j \in DOMAIN effects' : EffectInv(j)'
        BY <2>1, <2>3, <2>5, <2>6, <2>7 DEF EffectInv
    <2>9. ElementInv'
        BY <1>1, <2>1, <2>3, <2>5, <2>8 DEF Inv, ElementInv
    <2> QED BY <1>1, <2>3, <2>5, <2>9, HostStays
<1>7. CASE effects[i].answer = None
    <2>1. /\ effects' = [effects EXCEPT ![i] = over(None)]
          /\ element' = IF effects[i].live THEN [element EXCEPT !.failed = TRUE] ELSE element
        BY <1>2, <1>7 DEF Deliver, Receives
    <2>2. element \in ElementRecord
        BY DEF Inv, Typed
    <2>3. [element EXCEPT !.failed = TRUE] \in ElementRecord
        BY <2>2 DEF ElementRecord
    <2>4. /\ [element EXCEPT !.failed = TRUE].image = element.image
          /\ [element EXCEPT !.failed = TRUE].src = element.src
          /\ [element EXCEPT !.failed = TRUE].version = element.version
        BY <2>2 DEF ElementRecord
    <2>5. element' = [element EXCEPT !.failed = TRUE] \/ element' = element
        BY <2>1
    <2>6. element' \in ElementRecord /\ element'.image = element.image /\ element'.src = element.src
          /\ element'.version = element.version
        BY <2>2, <2>3, <2>4, <2>5
    <2> QED BY <1>5, <2>1, <2>6
<1>8. CASE effects[i].answer # None /\ effects[i].live
    BY <1>2, <1>6, <1>8 DEF Deliver, Receives
<1>9. CASE effects[i].answer # None /\ ~effects[i].live
    <2>1. effects' = [effects EXCEPT ![i] = over("revoked")] /\ UNCHANGED element
        BY <1>2, <1>9 DEF Deliver, Receives
    <2>2. element \in ElementRecord
        BY DEF Inv, Typed
    <2> QED BY <1>5, <2>1, <2>2
<1> QED BY <1>7, <1>8, <1>9

-----------------------------------------------------------------------------
LEMMA Step == ASSUME Inv, [Next]_vars PROVE Inv'
<1>1. ASSUME NEW subject \in {"execution", "document"}, NEW outputs \in Outputs,
             Begin(subject, outputs)
      PROVE  Inv'
    BY <1>1, BeginStep
<1>2. CASE Collect
    BY <1>2, CollectStep
<1>3. CASE Validate
    BY <1>3, ValidateStep
<1>4. CASE Save
    BY <1>4, SaveStep
<1>5. CASE Commit
    BY <1>5, CommitStep
<1>6. CASE Cancel
    BY <1>6, AbandonStep DEF Cancel
<1>7. CASE Render
    BY <1>7, RenderStep
<1>8. CASE Retry
    BY <1>8, RetryStep
<1>9. ASSUME NEW i \in DOMAIN effects, Find(i) \/ Read(i) \/ Deliver(i) PROVE Inv'
    BY <1>9, FindStep, ReadStep, DeliverStep
<1>10. CASE UNCHANGED vars
    <2>1. UNCHANGED <<batches, work, store, cell, element, effects>>
        BY <1>10 DEF vars
    <2>2. work' \in WorkRecord /\ AdmissionInv'
        BY <2>1 DEF Inv, Typed, AdmissionInv, Batch, Stored
    <2> QED BY <2>1, <2>2, WorkStep
<1> QED BY <1>1, <1>2, <1>3, <1>4, <1>5, <1>6, <1>7, <1>8, <1>9, <1>10 DEF Next

(* The invariant behind the theorems below.                                *)
THEOREM ImagesInvariant == Spec => []Inv
<1> QED BY InitInv, Step, PTL DEF Spec

(* A document never refers to an image the store does not have, and a      *)
(* success shows all of its batch; nothing of a bad batch is stored,       *)
(* whatever is refused, fails or is cancelled (admitImages, and the        *)
(* handlers that publish what it admits).                                  *)
THEOREM DocumentsStayWhole == Spec => []DocumentsAreWhole
<1> QED BY ImagesInvariant, InvImplies, PTL

(* The element shows its own output, and has the only object URL that is   *)
(* not revoked, whatever is late (AttachmentImage).                        *)
THEOREM ElementFollows == Spec => []ElementShowsItsOutput
<1> QED BY ImagesInvariant, InvImplies, PTL

LEMMA ReadsReferenced ==
    ASSUME Inv, [Next]_vars, NEW i \in DOMAIN effects,
           effects[i].at = "asked", effects'[i].at = "read"
    PROVE  effects[i].image \in ToSet(cell.outputs)
<1>1. effects \in Seq(EffectRecord) /\ effects[i] \in EffectRecord
    BY DEF Inv, Typed
<1>2. CASE UNCHANGED effects
    BY <1>2
<1>3. ASSUME NEW image, Loads(image) PROVE FALSE
    <2>1. Len(CleanedUp) = Len(effects) /\ CleanedUp \in Seq(EffectRecord) /\ CleanedUp[i].at = "asked"
        BY Cleanup
    <2> DEFINE old == CleanedUp
    <2>2. old \in Seq(EffectRecord) /\ i \in DOMAIN old /\ old[i].at = "asked"
        BY <1>1, <2>1
    <2>3. effects' = old \/ \E e : effects' = Append(old, e)
        BY <1>3 DEF Loads
    <2> HIDE DEF old
    <2>4. effects'[i] = old[i]
        BY <2>2, <2>3
    <2> QED BY <2>2, <2>4
<1>4. ASSUME NEW j \in DOMAIN effects, Find(j) PROVE effects[i].image \in ToSet(cell.outputs)
    <2>1. effects[j] \in EffectRecord
        BY <1>1
    <2>2. CASE i = j
        BY <1>1, <1>4, <2>2 DEF Find, Referenced, EffectRecord
    <2>3. CASE i # j
        BY <1>1, <1>4, <2>3 DEF Find
    <2> QED BY <2>2, <2>3
<1>5. ASSUME NEW j \in DOMAIN effects, Read(j) \/ Deliver(j) PROVE FALSE
    <2>1. effects[j].at # "asked"
        BY <1>5 DEF Read, Deliver
    <2>2. effects'[i] = effects[i]
        BY <1>1, <1>5, <2>1 DEF Read, Deliver
    <2> QED BY <2>2
<1>6. CASE \/ \E subject \in {"execution", "document"}, outputs \in Outputs : Begin(subject, outputs)
           \/ Collect \/ Validate \/ Save \/ Commit \/ Cancel
    BY <1>2, <1>6 DEF Begin, Collect, Validate, Save, Commit, Cancel
<1>7. CASE Render \/ Retry
    BY <1>3, <1>7 DEF Render, Retry
<1>8. CASE UNCHANGED vars
    BY <1>2, <1>8 DEF vars
<1> QED BY <1>4, <1>5, <1>6, <1>7, <1>8 DEF Next

(* An image leaves the Host only while the open document refers to it,     *)
(* also if the store has it from an earlier execution (readAttachment,     *)
(* findNotebookImage).                                                     *)
THEOREM ReadsAreReferenced == Spec => OnlyReferencedIsRead
<1>1. Inv /\ [Next]_vars =>
        [\A i \in DOMAIN effects :
            effects[i].at = "asked" /\ effects'[i].at = "read" =>
                effects[i].image \in ToSet(cell.outputs)]_vars
    BY ReadsReferenced
<1> QED BY <1>1, ImagesInvariant, PTL DEF Spec, OnlyReferencedIsRead

-----------------------------------------------------------------------------
(* The environment card. *)

Stages == {"asked", "listing", "inspecting", "working", "cataloguing", "answered", "done"}
Managers == {"missing", "ready"}
CatalogRecord ==
    [manager : Managers, python : BOOLEAN, managed : BOOLEAN,
     status : {"provisioning", "broken", "ready", "setup-required"}]
(* A card without a catalog has none that looks like one. *)
NoneIsNoCatalog == None \notin CatalogRecord
Catalogs == CatalogRecord \cup {None}
OpRecord ==
    [kind : Card!Busy \cup {"checking"}, allow : BOOLEAN, rebuild : BOOLEAN, stage : Stages,
     answer : Catalogs, ok : BOOLEAN, from : {None, "live", "stored"},
     aborted : BOOLEAN, previous : Catalogs]
CardRecord ==
    [phase : Card!Phases, catalog : Catalogs, current : Nat, picker : BOOLEAN, attached : BOOLEAN]
HostState == [manager : Managers, python : BOOLEAN, env : Card!Environments]
Losses == [faults : Nat, failed : BOOLEAN]

(* The catalog when no environment is being provisioned. *)
QuietCatalog(h) ==
    [manager |-> h.manager, python |-> h.python,
     status |-> CASE h.env \in {"spoiled", "foreign"} -> "broken"
                  [] h.env = "ready" -> "ready"
                  [] OTHER -> "setup-required",
     managed |-> h.env \in {"managed", "ready", "spoiled"}]

Changes(op) == op.kind \in Card!Busy
Brings(op, h) ==
    op.stage = "answered" /\ op.ok /\ op.kind \notin {"attaching", "provisioning"}
    => op.answer = QuietCatalog(h)
Answered(op) == op.answer = None => op.stage = "done" \/ ~op.ok

(* Card, operations, Host and losses fit. *)
CardTyped(cd, os, h, sp) ==
    /\ cd \in CardRecord /\ os \in Seq(OpRecord) /\ h \in HostState /\ sp \in Losses
    /\ cd.current =< Len(os)
    /\ cd.phase \notin {"none", "failed"} => cd.current # 0
    /\ \A i \in DOMAIN os : Answered(os[i])

(* The phase is that of the latest operation. *)
Says(cd, os) ==
    cd.current # 0 =>
      LET op == os[cd.current]
      IN  /\ Card!InFlight(op) /\ ~op.aborted => cd.phase = op.kind
          /\ cd.phase \in Card!Busy \cup {"checking"} =>
               ~op.aborted /\ (Card!InFlight(op) \/ (op.ok /\ op.kind = "attaching"))

(* As long as nothing went wrong only the latest operation may change      *)
(* something, and what it is answered with is how the Host is.             *)
Undone(os, current) ==
    \A i \in DOMAIN os : i # current /\ Changes(os[i]) => ~Card!InFlight(os[i])
Offers(cd, os, h) ==
    cd.current # 0 =>
      /\ Brings(os[cd.current], h)
      /\ cd.phase = "required" => ~Card!InFlight(os[cd.current]) /\ cd.catalog = QuietCatalog(h)

Fits(cd, os, h, sp) ==
    /\ CardTyped(cd, os, h, sp)
    /\ Says(cd, os)
    /\ ~sp.failed => Undone(os, cd.current)
    /\ ~sp.failed /\ sp.faults = 0 => Offers(cd, os, h)

CardInv == Fits(card, ops, host, spent) /\ session \in {"cold", "live", "owned"}

-----------------------------------------------------------------------------
LEMMA CatalogIsOne == \A h \in HostState : Card!Catalog(h) \in CatalogRecord
<1> SUFFICES ASSUME NEW h \in HostState  PROVE Card!Catalog(h) \in CatalogRecord
  OBVIOUS
<1>1. Card!Status(h.env) \in {"provisioning", "broken", "ready", "setup-required"}
  BY DEF Card!Status
<1>2. QED
  BY <1>1 DEF Card!Catalog, CatalogRecord, HostState

LEMMA CatalogIsQuiet == ~Card!Provisioning => \A h : Card!Catalog(h) = QuietCatalog(h)
BY DEF Card!Catalog, QuietCatalog, Card!Status

(* Nothing is being provisioned unless by the latest operation. *)
LEMMA NobodyProvisions ==
    ASSUME CardInv, ~spent.failed, NEW i \in DOMAIN ops, i = card.current,
           ~Card!InFlight(ops[i]) \/ ops[i].kind # "provisioning"
    PROVE  ~Card!Provisioning
BY DEF CardInv, Fits, Undone, Card!Provisioning, Card!InFlight, Changes, Card!Busy

(* One operation is put in the place of itself. *)
LEMMA Replaced ==
    ASSUME NEW os \in Seq(OpRecord), NEW i \in DOMAIN os, NEW r \in OpRecord
    PROVE  LET t == [os EXCEPT ![i] = r]
           IN  /\ t \in Seq(OpRecord) /\ Len(t) = Len(os) /\ DOMAIN t = DOMAIN os
               /\ t[i] = r /\ \A j \in DOMAIN os : j # i => t[j] = os[j]
               /\ DOMAIN os = 1 .. Len(os) /\ Len(os) \in Nat
OBVIOUS

-----------------------------------------------------------------------------
(* An operation starts. *)
LEMMA BeginKeeps ==
    ASSUME CardInv, NEW kind \in Card!Busy \cup {"checking"}, NEW allow \in BOOLEAN,
           NEW rebuild \in BOOLEAN, Card!Begin(kind, allow, rebuild)
    PROVE  CardInv'
<1> DEFINE n == Len(ops) + 1
           a == Card!AbortedBefore
           r == Card!Operation(kind, allow, rebuild)
<1>1. /\ card \in CardRecord /\ ops \in Seq(OpRecord) /\ spent \in Losses
      /\ DOMAIN ops = 1 .. Len(ops) /\ Len(ops) \in Nat /\ n \in Nat
      /\ card.current =< Len(ops) /\ card.current \in Nat
  BY DEF CardInv, Fits, CardTyped, CardRecord
<1>2. /\ a \in Seq(OpRecord) /\ Len(a) = Len(ops) /\ DOMAIN a = 1 .. Len(ops)
      /\ \A i \in 1 .. Len(ops) : /\ a[i].kind = ops[i].kind /\ a[i].stage = ops[i].stage
                                 /\ a[i].ok = ops[i].ok /\ a[i].answer = ops[i].answer
  <2>1. \A i \in 1 .. Len(ops) : ops[i] \in OpRecord
    BY <1>1
  <2>2. \A i \in 1 .. Len(ops) : [ops[i] EXCEPT !.aborted = TRUE] \in OpRecord
    BY <2>1 DEF OpRecord
  <2>3. a \in [1 .. Len(ops) -> OpRecord]
    BY <1>1, <2>1, <2>2 DEF Card!AbortedBefore
  <2>4. a \in Seq(OpRecord) /\ Len(a) = Len(ops)
    BY <1>1, <2>3
  <2>5. \A i \in 1 .. Len(ops) : /\ a[i].kind = ops[i].kind /\ a[i].stage = ops[i].stage
                                 /\ a[i].ok = ops[i].ok /\ a[i].answer = ops[i].answer
    BY <1>1, <2>1 DEF Card!AbortedBefore, OpRecord
  <2>6. QED
    BY <2>3, <2>4, <2>5
<1>3. /\ r \in OpRecord /\ r.kind = kind /\ r.stage = "asked" /\ ~r.ok /\ ~r.aborted
  BY <1>1 DEF Card!Operation, OpRecord, CardRecord, Catalogs, Stages
<1>4. /\ ops' = Append(a, r) /\ card' = [card EXCEPT !.phase = kind, !.current = n]
      /\ spent' = [spent EXCEPT !.failed = @ \/ Card!Overtakes] /\ host' = host /\ session' = session
  BY DEF Card!Begin
<1> HIDE DEF a, r, n
<1>5. /\ ops' \in Seq(OpRecord) /\ Len(ops') = n /\ DOMAIN ops' = 1 .. n /\ ops'[n] = r
      /\ \A i \in 1 .. Len(ops) : ops'[i] = a[i] /\ i # n
  BY <1>1, <1>2, <1>3, <1>4 DEF n
<1>6. \A i \in 1 .. n : i = n \/ i \in 1 .. Len(ops)
  BY <1>1 DEF n
<1>7. card' \in CardRecord /\ card'.phase = kind /\ card'.current = n /\ n # 0
  <2>1. kind \in Card!Phases /\ n \in Nat /\ n # 0
    BY <1>1 DEF Card!Phases, n
  <2>2. QED
    BY <1>1, <1>4, <2>1 DEF CardRecord
<1>8. Card!Overtakes \in BOOLEAN
  BY DEF Card!Overtakes
<1>9. /\ spent' \in Losses /\ spent'.faults = spent.faults
      /\ ~spent'.failed => ~spent.failed /\ ~Card!Overtakes
  BY <1>1, <1>4, <1>8 DEF Losses
<1>10. \A i \in DOMAIN ops' : Answered(ops'[i])
  <2>1. \A i \in DOMAIN ops : Answered(ops[i])
    BY DEF CardInv, Fits, CardTyped
  <2>2. QED
    BY <1>1, <1>2, <1>3, <1>5, <1>6, <2>1 DEF Answered
<1>11. CardTyped(card', ops', host', spent')
  BY <1>1, <1>4, <1>5, <1>7, <1>9, <1>10 DEF CardTyped, CardInv, Fits
<1>12. Says(card', ops')
  BY <1>3, <1>5, <1>7 DEF Says, Card!InFlight
<1>13. ~spent'.failed => Undone(ops', card'.current)
  BY <1>1, <1>2, <1>3, <1>5, <1>6, <1>7, <1>9 DEF Undone, CardInv, Fits, Card!Overtakes, Card!InFlight, Changes, Card!Busy
<1>14. ~spent'.failed /\ spent'.faults = 0 => Offers(card', ops', host')
  BY <1>3, <1>5, <1>7 DEF Offers, Brings, Card!Busy
<1>15. QED
  BY <1>4, <1>11, <1>12, <1>13, <1>14 DEF CardInv, Fits

LEMMA UserKeeps == ASSUME CardInv, Card!User  PROVE CardInv'
<1>2. CASE Card!Begin("checking", FALSE, FALSE)
  BY <1>2, BeginKeeps
<1>3. CASE Card!Toggle /\ card.attached
  <2>1. card' = [card EXCEPT !.picker = ~@] /\ UNCHANGED <<ops, host, session, spent>>
    BY <1>3 DEF Card!Toggle
  <2>2. card \in CardRecord
    BY DEF CardInv, Fits, CardTyped
  <2>3. /\ card' \in CardRecord /\ card'.phase = card.phase /\ card'.current = card.current
        /\ card'.catalog = card.catalog
    BY <2>1, <2>2 DEF CardRecord
  <2>4. QED
    BY <2>1, <2>3 DEF CardInv, Fits, CardTyped, Says, Offers
<1>4. CASE Card!InstallUv \/ Card!InstallPython \/ Card!Attach \/ Card!Rebuild
  BY <1>4, BeginKeeps DEF Card!InstallUv, Card!InstallPython, Card!Attach, Card!Rebuild, Card!Busy
<1>5. CASE Card!Setup
  <2>1. Card!Begin("provisioning", ~card.catalog.managed, FALSE)
    BY <1>5 DEF Card!Setup
  <2>2. QED
    BY <2>1, BeginKeeps DEF Card!Busy
<1>6. CASE Card!Cancel
  <2> DEFINE a == Card!AbortedBefore
  <2>1. /\ card \in CardRecord /\ ops \in Seq(OpRecord) /\ spent \in Losses
        /\ DOMAIN ops = 1 .. Len(ops) /\ Len(ops) \in Nat
        /\ card.current =< Len(ops) /\ card.current \in Nat /\ card.current # 0
    BY <1>6 DEF CardInv, Fits, CardTyped, CardRecord, Card!Cancel, Card!Busy
  <2>2. /\ a \in Seq(OpRecord) /\ Len(a) = Len(ops) /\ DOMAIN a = DOMAIN ops
        /\ a[card.current].aborted
        /\ \A i \in 1 .. Len(ops) : /\ a[i].stage = ops[i].stage
                                   /\ a[i].ok = ops[i].ok /\ a[i].answer = ops[i].answer
    <3>1. \A i \in 1 .. Len(ops) : ops[i] \in OpRecord
      BY <2>1
    <3>2. \A i \in 1 .. Len(ops) : [ops[i] EXCEPT !.aborted = TRUE] \in OpRecord
      BY <3>1 DEF OpRecord
    <3>3. a \in [1 .. Len(ops) -> OpRecord]
      BY <2>1, <3>1, <3>2 DEF Card!AbortedBefore
    <3>4. a \in Seq(OpRecord) /\ Len(a) = Len(ops)
      BY <2>1, <3>3
    <3>5. card.current \in 1 .. Len(ops)
      BY <2>1
    <3>6. a[card.current] = [ops[card.current] EXCEPT !.aborted = TRUE]
      BY <2>1, <3>5 DEF Card!AbortedBefore
    <3>7. a[card.current].aborted
      BY <3>1, <3>5, <3>6 DEF OpRecord
    <3>8. \A i \in 1 .. Len(ops) : /\ a[i].stage = ops[i].stage
                                   /\ a[i].ok = ops[i].ok /\ a[i].answer = ops[i].answer
      BY <2>1, <3>1 DEF Card!AbortedBefore, OpRecord
    <3>9. QED
      BY <2>1, <3>3, <3>4, <3>7, <3>8
  <2>3. /\ ops' = a /\ card' = [card EXCEPT !.phase = "required"]
        /\ spent' = [spent EXCEPT !.failed = TRUE] /\ host' = host /\ session' = session
    BY <1>6 DEF Card!Cancel
  <2> HIDE DEF a
  <2>4. /\ card' \in CardRecord /\ card'.phase = "required" /\ card'.current = card.current
        /\ spent' \in Losses /\ spent'.failed
    BY <2>1, <2>3 DEF CardRecord, Card!Phases, Losses
  <2>5. CardTyped(card', ops', host', spent')
    BY <2>1, <2>2, <2>3, <2>4 DEF CardTyped, CardInv, Fits, Answered
  <2>6. Says(card', ops')
    BY <2>1, <2>2, <2>3, <2>4 DEF Says, Card!Busy
  <2>7. QED
    BY <2>3, <2>4, <2>5, <2>6 DEF CardInv, Fits
<1>7. QED
  BY <1>2, <1>3, <1>4, <1>5, <1>6 DEF Card!User, Card!Appear, Card!Retry, Card!Toggle

-----------------------------------------------------------------------------
(* The Host moves an operation on. *)
LEMMA MovesKeep ==
    ASSUME CardInv, NEW i \in DOMAIN ops, NEW r \in OpRecord,
           ops' = [ops EXCEPT ![i] = r], card' = card,
           Card!InFlight(ops[i]), Card!InFlight(r), r.kind = ops[i].kind, r.aborted = ops[i].aborted,
           Answered(r), host' \in HostState, spent' \in Losses, spent'.failed = spent.failed,
           spent'.faults = 0 => spent.faults = 0,
           session' \in {"cold", "live", "owned"},
           host' = host \/ Changes(r),
           ~spent.failed /\ spent'.faults = 0 /\ i = card.current => Brings(r, host')
    PROVE  CardInv'
<1>1. /\ card \in CardRecord /\ ops \in Seq(OpRecord) /\ spent \in Losses
      /\ card.current =< Len(ops) /\ card.current \in Nat
  BY DEF CardInv, Fits, CardTyped, CardRecord
<1>2. /\ ops' \in Seq(OpRecord) /\ Len(ops') = Len(ops) /\ DOMAIN ops' = DOMAIN ops
      /\ ops'[i] = r /\ \A j \in DOMAIN ops : j # i => ops'[j] = ops[j]
      /\ DOMAIN ops = 1 .. Len(ops) /\ Len(ops) \in Nat
  BY <1>1, Replaced
<1>3. card.current # 0 => card.current \in DOMAIN ops
  BY <1>1, <1>2
<1>4. CardTyped(card', ops', host', spent')
  BY <1>1, <1>2 DEF CardTyped, CardInv, Fits
<1>5. Says(card', ops')
  <2>1. CASE card.current = i
    BY <1>2, <1>3, <2>1 DEF Says, CardInv, Fits
  <2>2. CASE card.current # i
    BY <1>2, <1>3, <2>2 DEF Says, CardInv, Fits
  <2>3. QED
    BY <2>1, <2>2
<1>6. ~spent'.failed => Undone(ops', card'.current)
  BY <1>2 DEF Undone, CardInv, Fits, Changes
<1>7. ~spent'.failed /\ spent'.faults = 0 => Offers(card', ops', host')
  <2> SUFFICES ASSUME ~spent.failed, spent'.faults = 0, card.current # 0
               PROVE  Offers(card', ops', host')
    BY DEF Offers
  <2>1. Undone(ops, card.current) /\ Offers(card, ops, host)
    BY DEF CardInv, Fits
  <2>2. CASE card.current = i
    BY <1>2, <2>1, <2>2 DEF Offers
  <2>3. CASE card.current # i
    <3>1. host' = host
      BY <2>1, <2>3 DEF Undone, Changes
    <3>2. ops'[card.current] = ops[card.current]
      BY <1>2, <1>3, <2>3
    <3>3. QED
      BY <2>1, <3>1, <3>2 DEF Offers
  <2>4. QED
    BY <2>2, <2>3
<1>8. QED
  BY <1>4, <1>5, <1>6, <1>7 DEF CardInv, Fits

(* Operation op becomes r. *)
Becomes(r, op, kind, stage, ok, answer) ==
    /\ r \in OpRecord /\ r.kind = kind /\ r.stage = stage /\ r.ok = ok /\ r.answer = answer
    /\ r.aborted = op.aborted /\ r.previous = op.previous

LEMMA Staged ==
    ASSUME NEW op \in OpRecord, NEW stage \in Stages
    PROVE  Becomes([op EXCEPT !.stage = stage],
                   op, op.kind, stage, op.ok, op.answer)
BY DEF OpRecord, Becomes

LEMMA Placed ==
    ASSUME NEW op \in OpRecord, NEW stage \in Stages, NEW from \in {None, "live", "stored"}
    PROVE  Becomes([op EXCEPT !.stage = stage, !.from = from],
                   op, op.kind, stage, op.ok, op.answer)
BY DEF OpRecord, Becomes

LEMMA Refused ==
    ASSUME NEW op \in OpRecord, NEW stage \in Stages, NEW ok \in BOOLEAN
    PROVE  Becomes([op EXCEPT !.stage = stage, !.ok = ok],
                   op, op.kind, stage, ok, op.answer)
BY DEF OpRecord, Becomes

LEMMA Fulfilled ==
    ASSUME NEW op \in OpRecord, NEW stage \in Stages, NEW ok \in BOOLEAN,
           NEW answer \in Catalogs
    PROVE  Becomes([op EXCEPT !.stage = stage, !.ok = ok, !.answer = answer],
                   op, op.kind, stage, ok, answer)
BY DEF OpRecord, Becomes

LEMMA Renewed ==
    ASSUME NEW op \in OpRecord, NEW kind \in Card!Busy \cup {"checking"}, NEW stage \in Stages,
           NEW ok \in BOOLEAN, NEW answer \in Catalogs
    PROVE  Becomes([op EXCEPT !.kind = kind, !.stage = stage, !.ok = ok, !.answer = answer,
                              !.from = None],
                   op, kind, stage, ok, answer)
BY DEF OpRecord, Becomes

(* What is known where an operation that is under way moves on. *)
LEMMA Known ==
    ASSUME CardInv, NEW i \in DOMAIN ops
    PROVE  /\ ops[i] \in OpRecord /\ ops \in Seq(OpRecord) /\ host \in HostState
           /\ spent \in Losses /\ card \in CardRecord /\ Answered(ops[i])
           /\ session \in {"cold", "live", "owned"}
           /\ card.current \in Nat /\ card.current =< Len(ops)
<1>1. ops \in Seq(OpRecord)
  BY DEF CardInv, Fits, CardTyped
<1>2. ops[i] \in OpRecord
  BY <1>1
<1>3. QED
  BY <1>1, <1>2 DEF CardInv, Fits, CardTyped, CardRecord

LEMMA GoesKeeps ==
    ASSUME CardInv, NEW i \in DOMAIN ops, ops[i].stage \in Stages \ {"answered", "done"},
           NEW stage \in Stages \ {"answered", "done"}, Card!Goes(i, stage),
           host' \in HostState, host' = host \/ Changes(ops[i]),
           session' \in {"cold", "live", "owned"}, spent' = spent, ops[i].answer = None => ~ops[i].ok
    PROVE  CardInv'
<1> DEFINE r == [ops[i] EXCEPT !.stage = stage]
<1>1. ops[i] \in OpRecord /\ spent \in Losses
  BY Known
<1>2. /\ r \in OpRecord /\ r.kind = ops[i].kind /\ r.aborted = ops[i].aborted
      /\ r.stage = stage /\ r.ok = ops[i].ok /\ r.answer = ops[i].answer
  BY <1>1, Staged DEF Becomes
<1>3. ops' = [ops EXCEPT ![i] = r] /\ card' = card
  BY DEF Card!Goes, Card!Moves
<1> HIDE DEF r
<1>4. Card!InFlight(ops[i]) /\ Card!InFlight(r) /\ Answered(r) /\ Brings(r, host') /\ (Changes(r) <=> Changes(ops[i]))
  BY <1>2 DEF Card!InFlight, Answered, Brings, Stages, Changes
<1>5. QED
  BY <1>1, <1>2, <1>3, <1>4, MovesKeep

LEMMA WorksKeeps ==
    ASSUME CardInv, NEW i \in DOMAIN ops, ops[i].stage \in Stages \ {"answered", "done"},
           NEW from \in {None, "live", "stored"}, Card!Works(i, from),
           host' = host, session' \in {"cold", "live", "owned"}, spent' = spent
    PROVE  CardInv'
<1> DEFINE r == [ops[i] EXCEPT !.stage = "working", !.from = from]
<1>1. ops[i] \in OpRecord /\ spent \in Losses /\ host \in HostState /\ Answered(ops[i])
  BY Known
<1>2. /\ r \in OpRecord /\ r.kind = ops[i].kind /\ r.aborted = ops[i].aborted
      /\ r.stage = "working" /\ r.ok = ops[i].ok /\ r.answer = ops[i].answer
  <2>1. Becomes(r, ops[i], ops[i].kind, "working", ops[i].ok, ops[i].answer)
    BY <1>1, Placed DEF Stages
  <2> HIDE DEF r
  <2>2. QED
    BY <2>1 DEF Becomes
<1>3. ops' = [ops EXCEPT ![i] = r] /\ card' = card
  BY DEF Card!Works, Card!Moves
<1> HIDE DEF r
<1>4. Card!InFlight(ops[i]) /\ Card!InFlight(r) /\ Answered(r) /\ Brings(r, host')
  BY <1>1, <1>2 DEF Card!InFlight, Answered, Brings, Stages
<1>5. QED
  BY <1>1, <1>2, <1>3, <1>4, MovesKeep

LEMMA FailsKeeps ==
    ASSUME CardInv, NEW i \in DOMAIN ops, ops[i].stage \in Stages \ {"answered", "done"},
           Card!Fails(i), host' = host, session' \in {"cold", "live", "owned"},
           spent' \in Losses, spent'.failed = spent.failed, spent'.faults = 0 => spent.faults = 0
    PROVE  CardInv'
<1> DEFINE r == [ops[i] EXCEPT !.stage = "answered", !.ok = FALSE]
<1>1. ops[i] \in OpRecord /\ host \in HostState /\ Answered(ops[i])
  BY Known
<1>2. /\ r \in OpRecord /\ r.kind = ops[i].kind /\ r.aborted = ops[i].aborted
      /\ r.stage = "answered" /\ ~r.ok /\ r.answer = ops[i].answer
  <2>1. Becomes(r, ops[i], ops[i].kind, "answered", FALSE, ops[i].answer)
    BY <1>1, Refused DEF Stages
  <2> HIDE DEF r
  <2>2. QED
    BY <2>1 DEF Becomes
<1>3. ops' = [ops EXCEPT ![i] = r] /\ card' = card
  BY DEF Card!Fails, Card!Moves
<1> HIDE DEF r
<1>4. Card!InFlight(ops[i]) /\ Card!InFlight(r) /\ Answered(r) /\ Brings(r, host')
  BY <1>1, <1>2 DEF Card!InFlight, Answered, Brings, Stages
<1>5. QED
  BY <1>1, <1>2, <1>3, <1>4, MovesKeep

LEMMA AnswersKeeps ==
    ASSUME NoneIsNoCatalog, CardInv, NEW i \in DOMAIN ops,
           ops[i].stage \in Stages \ {"answered", "done"},
           ops[i].kind = "provisioning" => ops[i].stage # "working",
           host' \in HostState, Card!Answers(i, host'), host' = host \/ Changes(ops[i]),
           session' = session, spent' = spent
    PROVE  CardInv'
<1> DEFINE a == Card!Catalog(host')
           r == [ops[i] EXCEPT !.stage = "answered", !.ok = TRUE, !.answer = a]
<1>1. ops[i] \in OpRecord /\ spent \in Losses /\ session \in {"cold", "live", "owned"}
  BY Known
<1>2. a \in CatalogRecord /\ a # None
  BY CatalogIsOne DEF NoneIsNoCatalog
<1>3. ops' = [ops EXCEPT ![i] = r] /\ card' = card
  BY DEF Card!Answers, Card!Moves
<1>4. ASSUME ~spent.failed, i = card.current, ops[i].kind # "provisioning"
      PROVE  a = QuietCatalog(host')
  BY <1>4, NobodyProvisions, CatalogIsQuiet
<1> HIDE DEF a
<1>5. /\ r \in OpRecord /\ r.kind = ops[i].kind /\ r.aborted = ops[i].aborted
      /\ r.stage = "answered" /\ r.answer = a
  <2>1. Becomes(r, ops[i], ops[i].kind, "answered", TRUE, a)
    BY <1>1, <1>2, Fulfilled DEF Stages, Catalogs
  <2> HIDE DEF r
  <2>2. QED
    BY <2>1 DEF Becomes
<1> HIDE DEF r
<1>6. Card!InFlight(ops[i]) /\ Card!InFlight(r) /\ Answered(r) /\ (Changes(r) <=> Changes(ops[i]))
  BY <1>2, <1>5 DEF Card!InFlight, Answered, Stages, Changes
<1>7. ~spent.failed /\ i = card.current => Brings(r, host')
  BY <1>4, <1>5 DEF Brings
<1>8. QED
  BY <1>1, <1>3, <1>5, <1>6, <1>7, MovesKeep

(* The steps of the Host. *)
LEMMA ServesKeeps ==
    ASSUME NoneIsNoCatalog, CardInv, NEW i \in DOMAIN ops, Card!Serves(i)
    PROVE  CardInv'
<1> USE DEF Stages
<1>1. /\ host \in HostState /\ spent \in Losses /\ session \in {"cold", "live", "owned"}
      /\ Answered(ops[i]) /\ ops[i] \in OpRecord
  BY Known
<1>2. ops[i].stage # "done" => (ops[i].answer = None => ~ops[i].ok)
  BY <1>1 DEF Answered
<1>3. CASE Card!LookUp(i) \/ Card!Listed(i) \/ Card!Inspected(i)
  <2>1. /\ ops[i].stage \in {"asked", "listing", "inspecting"}
        /\ UNCHANGED <<host, session, spent>>
        /\ \/ Card!Works(i, "live") \/ Card!Works(i, "stored") \/ Card!Fails(i)
           \/ Card!Goes(i, "listing") \/ Card!Goes(i, "inspecting")
    BY <1>1, <1>3 DEF Card!LookUp, Card!Listed, Card!Inspected, Card!Resident
  <2>2. CASE Card!Works(i, "live") \/ Card!Works(i, "stored")
    BY <1>1, <2>1, <2>2, WorksKeeps
  <2>3. CASE Card!Fails(i)
    BY <1>1, <2>1, <2>3, FailsKeeps
  <2>4. CASE Card!Goes(i, "listing") \/ Card!Goes(i, "inspecting")
    BY <1>1, <1>2, <2>1, <2>4, GoesKeeps
  <2>5. QED
    BY <2>1, <2>2, <2>3, <2>4
<1>4. CASE Card!Resume(i)
  <2>1. ops[i].stage = "asked" /\ UNCHANGED <<host, spent>>
    BY <1>4 DEF Card!Resume
  <2>2. CASE session = "owned"
    <3>1. Card!Fails(i) /\ session' = session
      BY <1>4, <2>2 DEF Card!Resume
    <3>2. QED
      BY <1>1, <2>1, <3>1, FailsKeeps
  <2>3. CASE session # "owned"
    <3>1. Card!Works(i, "live") /\ session' = "live"
      BY <1>4, <2>3 DEF Card!Resume
    <3>2. QED
      BY <1>1, <2>1, <3>1, WorksKeeps
  <2>4. QED
    BY <2>2, <2>3
<1>5. CASE Card!Work(i)
  <2>1. ops[i].stage = "working" /\ UNCHANGED <<session, spent>> /\ Card!Done(i)
    BY <1>5 DEF Card!Work
  <2>2. ops[i].kind \in Card!Busy \cup {"checking"}
    BY <1>1 DEF OpRecord
  <2>3. CASE Card!Fails(i) /\ host' = host
    BY <1>1, <2>1, <2>3, FailsKeeps
  <2>4. CASE /\ ops[i].kind # "provisioning" /\ Card!Answers(i, host')
             /\ host' \in HostState /\ (host' = host \/ Changes(ops[i]))
    <3>1. session' = session /\ spent' = spent /\ ops[i].stage \in Stages \ {"answered", "done"}
      BY <2>1
    <3>2. QED
      BY <2>4, <3>1, AnswersKeeps
  <2>5. CASE /\ ops[i].kind = "provisioning" /\ host' \in HostState /\ Card!Goes(i, "cataloguing")
    BY <1>1, <1>2, <2>1, <2>5, GoesKeeps DEF Changes, Card!Busy
  <2>6. CASE ops[i].kind = "checking"
    <3>1. Card!Answers(i, host) /\ host' = host
      BY <2>1, <2>6 DEF Card!Done
    <3>2. QED
      BY <1>1, <2>4, <2>6, <3>1
  <2>7. CASE ops[i].kind = "installing-uv"
    <3>1. host' = [host EXCEPT !.manager = "ready"] /\ Card!Answers(i, host')
      BY <2>1, <2>7 DEF Card!Done
    <3>2. host' \in HostState
      BY <1>1, <3>1 DEF HostState, Managers
    <3>3. QED
      BY <2>4, <2>7, <3>1, <3>2 DEF Changes, Card!Busy
  <2>8. CASE ops[i].kind = "installing-python"
    <3>1. \/ Card!Fails(i) /\ host' = host
          \/ host' = [host EXCEPT !.python = TRUE] /\ Card!Answers(i, host')
      BY <2>1, <2>8 DEF Card!Done
    <3>2. host' = [host EXCEPT !.python = TRUE] => host' \in HostState
      BY <1>1 DEF HostState
    <3>3. QED
      BY <2>3, <2>4, <2>8, <3>1, <3>2 DEF Changes, Card!Busy
  <2>9. CASE ops[i].kind = "provisioning"
    <3> DEFINE env == Card!Provisioned(ops[i], host.env, host.python)
    <3>1. \/ Card!Fails(i) /\ host' = host
          \/ env # None /\ host' = [host EXCEPT !.env = env] /\ Card!Goes(i, "cataloguing")
      BY <2>1, <2>9 DEF Card!Done
    <3>2. env # None => env = "ready"
      BY DEF Card!Provisioned
    <3> HIDE DEF env
    <3>3. env = "ready" /\ host' = [host EXCEPT !.env = env] => host' \in HostState
      BY <1>1 DEF HostState, Card!Environments
    <3>4. QED
      BY <2>3, <2>5, <2>9, <3>1, <3>2, <3>3
  <2>10. CASE ops[i].kind = "attaching"
    <3>1. (Card!Fails(i) \/ Card!Answers(i, host)) /\ host' = host
      BY <2>1, <2>10 DEF Card!Done
    <3>2. QED
      BY <1>1, <2>3, <2>4, <2>10, <3>1
  <2>11. QED
    BY <2>2, <2>6, <2>7, <2>8, <2>9, <2>10 DEF Card!Busy
<1>6. CASE Card!Catalogued(i)
  <2>1. ops[i].stage = "cataloguing" /\ UNCHANGED <<host, session, spent>> /\ Card!Answers(i, host')
    BY <1>6 DEF Card!Catalogued
  <2>2. QED
    BY <1>1, <2>1, AnswersKeeps
<1>7. QED
  BY <1>3, <1>4, <1>5, <1>6 DEF Card!Serves

(* An operation ends: whoever has the phase keeps it. *)
LEMMA EndsKeeps ==
    ASSUME CardInv, NEW i \in DOMAIN ops, Card!InFlight(ops[i]), Card!Ends(i),
           ops[i].aborted \/ card.current # i,
           card' \in CardRecord, card'.phase = card.phase, card'.current = card.current,
           card'.catalog = card.catalog, host' = host, session' = session,
           spent' \in Losses, spent'.faults = spent.faults, ~spent'.failed => ~spent.failed
    PROVE  CardInv'
<1> DEFINE r == [ops[i] EXCEPT !.stage = "done"]
<1>1. /\ ops[i] \in OpRecord /\ ops \in Seq(OpRecord) /\ card.current \in Nat
      /\ card.current =< Len(ops)
  BY Known
<1>2. Becomes(r, ops[i], ops[i].kind, "done", ops[i].ok, ops[i].answer)
  BY <1>1, Staged DEF Stages
<1>3. ops' = [ops EXCEPT ![i] = r]
  BY <1>1 DEF Card!Ends
<1> HIDE DEF r
<1>4. /\ ops' \in Seq(OpRecord) /\ Len(ops') = Len(ops) /\ DOMAIN ops' = DOMAIN ops
      /\ ops'[i] = r /\ \A j \in DOMAIN ops : j # i => ops'[j] = ops[j]
      /\ DOMAIN ops = 1 .. Len(ops) /\ Len(ops) \in Nat
  BY <1>1, <1>2, <1>3, Replaced DEF Becomes
<1>5. card.current # 0 => card.current \in DOMAIN ops
  BY <1>1, <1>4
<1>6. CardTyped(card', ops', host', spent')
  BY <1>2, <1>4 DEF CardTyped, CardInv, Fits, Answered, Becomes
<1>7. CASE card.current # i
  <2>1. card.current # 0 => ops'[card.current] = ops[card.current]
    BY <1>4, <1>5, <1>7
  <2>2. Says(card', ops')
    BY <2>1 DEF Says, CardInv, Fits
  <2>3. ~spent'.failed => Undone(ops', card'.current)
    BY <1>2, <1>4 DEF Undone, CardInv, Fits, Changes, Card!InFlight, Becomes
  <2>4. ~spent'.failed /\ spent'.faults = 0 => Offers(card', ops', host')
    BY <2>1 DEF Offers, CardInv, Fits
  <2>5. QED
    BY <1>6, <2>2, <2>3, <2>4 DEF CardInv, Fits
<1>8. CASE card.current = i
  <2>1. Says(card', ops')
    BY <1>2, <1>4, <1>5, <1>8 DEF Says, CardInv, Fits, Card!InFlight, Becomes
  <2>2. ~spent'.failed => Undone(ops', card'.current)
    BY <1>2, <1>4 DEF Undone, CardInv, Fits, Changes, Card!InFlight, Becomes
  <2>3. ~spent'.failed /\ spent'.faults = 0 => Offers(card', ops', host')
    BY <1>2, <1>4, <1>5, <1>8 DEF Offers, CardInv, Fits, Brings, Card!InFlight, Becomes
  <2>4. QED
    BY <1>6, <2>1, <2>2, <2>3 DEF CardInv, Fits
<1>9. QED
  BY <1>7, <1>8

LEMMA ReceiveKeeps == ASSUME CardInv, NEW i \in DOMAIN ops, Card!Receive(i)  PROVE CardInv'
<1> DEFINE op == ops[i]
<1>1. /\ op \in OpRecord /\ ops \in Seq(OpRecord) /\ card \in CardRecord /\ spent \in Losses
      /\ card.current \in Nat /\ card.current =< Len(ops) /\ host \in HostState /\ Answered(op)
  BY Known
<1>2. /\ op.stage = "answered" /\ host' = host /\ session' = session
      /\ spent' = [spent EXCEPT !.failed = @ \/ ~op.ok]
  BY DEF Card!Receive
<1>3. /\ op.ok \in BOOLEAN /\ op.kind \in Card!Busy \cup {"checking"} /\ op.answer \in Catalogs
      /\ op.previous \in Catalogs /\ op.aborted \in BOOLEAN
  BY <1>1 DEF OpRecord
<1>4. /\ spent' \in Losses /\ spent'.faults = spent.faults
      /\ ~spent'.failed => ~spent.failed /\ op.ok
  BY <1>1, <1>2, <1>3 DEF Losses
<1>5. CASE Card!Outdated(i) /\ Card!Ends(i) /\ card' \in {card, [card EXCEPT !.attached = @ \/ (op.ok /\ op.kind = "attaching")]}
  <2>1. \A b \in BOOLEAN : LET c == [card EXCEPT !.attached = b]
                          IN  /\ c \in CardRecord /\ c.phase = card.phase
                              /\ c.current = card.current /\ c.catalog = card.catalog
    BY <1>1 DEF CardRecord
  <2>2. (card.attached \/ (op.ok /\ op.kind = "attaching")) \in BOOLEAN
    BY <1>1, <1>3 DEF CardRecord
  <2>3. /\ card' \in CardRecord /\ card'.phase = card.phase
        /\ card'.current = card.current /\ card'.catalog = card.catalog
    BY <1>1, <1>5, <2>1, <2>2
  <2>4. QED
    BY <1>2, <1>4, <1>5, <2>3, EndsKeeps DEF Card!Outdated, Card!InFlight
<1>6. CASE card.current = i /\ ~op.aborted
  <2> DEFINE d == [op EXCEPT !.stage = "done"]
             g == [op EXCEPT !.kind = "attaching", !.stage = "asked", !.ok = FALSE, !.answer = None,
                             !.from = None]
  <2>1. Becomes(d, op, op.kind, "done", op.ok, op.answer)
    BY <1>1, Staged DEF Stages
  <2>2. Becomes(g, op, "attaching", "asked", FALSE, None)
    BY <1>1, Renewed DEF Stages, Card!Busy, Catalogs
  <2>3. i # 0 /\ card.phase = op.kind
    BY <1>1, <1>2, <1>6 DEF CardInv, Fits, Says, Card!InFlight
  <2>4. \A x : [ops EXCEPT ![i] = x][i] = x
    BY <1>1
  <2>5. Card!Ends(i) => ops' = [ops EXCEPT ![i] = d]
    BY <1>1 DEF Card!Ends
  <2>6. Card!GoesOn(i) => ops' = [ops EXCEPT ![i] = g]
    BY <1>1 DEF Card!GoesOn
  <2> HIDE DEF d, g
  <2>7. ASSUME NEW r, r \in {d, g}, ops' = [ops EXCEPT ![i] = r]
        PROVE  /\ ops' \in Seq(OpRecord) /\ Len(ops') = Len(ops) /\ DOMAIN ops' = DOMAIN ops
               /\ ops'[i] = r /\ (\A j \in DOMAIN ops : j # i => ops'[j] = ops[j])
               /\ (\A j \in DOMAIN ops' : Answered(ops'[j]))
               /\ (~spent'.failed => Undone(ops', i))
    <3>1. r \in OpRecord /\ Answered(r)
      BY <1>1, <2>1, <2>2, <2>7 DEF Becomes, Answered
    <3>2. /\ ops' \in Seq(OpRecord) /\ Len(ops') = Len(ops) /\ DOMAIN ops' = DOMAIN ops
          /\ ops'[i] = r /\ (\A j \in DOMAIN ops : j # i => ops'[j] = ops[j])
      BY <1>1, <2>7, <3>1, Replaced
    <3>3. \A j \in DOMAIN ops' : Answered(ops'[j])
      BY <3>1, <3>2 DEF CardInv, Fits, CardTyped
    <3>4. ~spent'.failed => Undone(ops', i)
      BY <1>4, <1>6, <3>2 DEF CardInv, Fits, Undone, Changes
    <3>5. QED
      BY <3>2, <3>3, <3>4
  <2>8. CASE ~op.ok /\ Card!Ends(i) /\ card' = Card!Failed(i)
    <3>1. card' \in CardRecord /\ card'.phase = "failed" /\ card'.current = i
      BY <1>1, <1>3, <1>6, <2>8 DEF Card!Failed, CardRecord, Card!Phases
    <3>2. CardTyped(card', ops', host', spent')
      BY <1>1, <1>2, <1>4, <1>6, <2>5, <2>7, <2>8, <3>1 DEF CardTyped
    <3>3. Says(card', ops')
      BY <2>1, <2>5, <2>7, <2>8, <3>1 DEF Says, Card!InFlight, Card!Busy, Becomes
    <3>4. spent'.failed
      BY <1>4, <2>8
    <3>5. QED
      BY <1>2, <3>2, <3>3, <3>4 DEF CardInv, Fits
  <2>9. CASE op.ok /\ op.kind = "attaching" /\ Card!Ends(i) /\ card' = [card EXCEPT !.attached = TRUE, !.picker = FALSE]
    <3>1. card' \in CardRecord /\ card'.phase = "attaching" /\ card'.current = i
      BY <1>1, <1>6, <2>3, <2>9 DEF CardRecord
    <3>2. CardTyped(card', ops', host', spent')
      BY <1>1, <1>2, <1>4, <1>6, <2>3, <2>5, <2>7, <2>9, <3>1 DEF CardTyped
    <3>3. Says(card', ops')
      BY <1>6, <2>1, <2>5, <2>7, <2>9, <3>1 DEF Says, Card!InFlight, Becomes
    <3>4. Offers(card', ops', host')
      BY <2>1, <2>5, <2>7, <2>9, <3>1 DEF Offers, Brings, Becomes
    <3>5. QED
      BY <1>2, <2>5, <2>7, <2>9, <3>1, <3>2, <3>3, <3>4 DEF CardInv, Fits
  <2>10. CASE Card!GoesOn(i)
    <3>1. card' = [card EXCEPT !.phase = "attaching", !.catalog = op.previous]
      BY <2>10 DEF Card!GoesOn
    <3>2. card' \in CardRecord /\ card'.phase = "attaching" /\ card'.current = i
      BY <1>1, <1>3, <1>6, <3>1 DEF CardRecord, Card!Phases, Card!Busy
    <3>3. CardTyped(card', ops', host', spent')
      BY <1>1, <1>2, <1>4, <1>6, <2>3, <2>6, <2>7, <2>10, <3>2 DEF CardTyped
    <3>4. Says(card', ops')
      BY <1>6, <2>2, <2>6, <2>7, <2>10, <3>2 DEF Says, Card!InFlight, Becomes
    <3>5. Offers(card', ops', host')
      BY <2>2, <2>6, <2>7, <2>10, <3>2 DEF Offers, Brings, Becomes
    <3>6. QED
      BY <1>2, <2>6, <2>7, <2>10, <3>2, <3>3, <3>4, <3>5 DEF CardInv, Fits
  <2>11. CASE /\ op.ok /\ op.kind \notin {"attaching", "provisioning"} /\ Card!Ends(i)
              /\ card' = [card EXCEPT !.phase = "required", !.catalog = op.answer]
    <3>1. /\ card' \in CardRecord /\ card'.phase = "required" /\ card'.current = i
          /\ card'.catalog = op.answer
      BY <1>1, <1>3, <1>6, <2>11 DEF CardRecord, Card!Phases
    <3>2. CardTyped(card', ops', host', spent')
      BY <1>1, <1>2, <1>4, <1>6, <2>3, <2>5, <2>7, <2>11, <3>1 DEF CardTyped
    <3>3. Says(card', ops')
      BY <2>1, <2>5, <2>7, <2>11, <3>1 DEF Says, Card!InFlight, Card!Busy, Becomes
    <3>4. ~spent'.failed /\ spent'.faults = 0 => op.answer = QuietCatalog(host)
      BY <1>2, <1>4, <1>6, <2>3, <2>11 DEF CardInv, Fits, Offers, Brings
    <3>5. ~spent'.failed /\ spent'.faults = 0 => Offers(card', ops', host')
      BY <1>2, <2>1, <2>5, <2>7, <2>11, <3>1, <3>4 DEF Offers, Brings, Becomes, Card!InFlight
    <3>6. QED
      BY <1>2, <2>5, <2>7, <2>11, <3>1, <3>2, <3>3, <3>5 DEF CardInv, Fits
  <2>12. QED
    BY <1>6, <2>8, <2>9, <2>10, <2>11 DEF Card!Receive, Card!Outdated
<1>7. QED
  BY <1>5, <1>6 DEF Card!Receive, Card!Outdated

LEMMA CardInvNext ==
    ASSUME NoneIsNoCatalog, CardInv, [Card!Next]_(Card!vars)  PROVE CardInv'
<1>1. CASE Card!User
  BY <1>1, UserKeeps
<1>2. ASSUME NEW i \in DOMAIN ops, Card!Serves(i)  PROVE CardInv'
  BY <1>2, ServesKeeps
<1>3. ASSUME NEW i \in DOMAIN ops, Card!Receive(i)  PROVE CardInv'
  BY <1>3, ReceiveKeeps
<1>4. ASSUME NEW i \in DOMAIN ops, Card!Stop(i)  PROVE CardInv'
  <2>1. /\ ops[i].aborted /\ Card!InFlight(ops[i]) /\ Card!Ends(i) /\ card' = card /\ host' = host
        /\ session' = session /\ spent' = spent
    BY <1>4 DEF Card!Stop
  <2>2. QED
    BY <2>1, Known, EndsKeeps
<1>5. ASSUME NEW i \in DOMAIN ops, Card!Break(i)  PROVE CardInv'
  <2>1. /\ ops[i].stage \in Stages \ {"answered", "done"} /\ Card!Fails(i) /\ host' = host
        /\ session' = session /\ spent' = [spent EXCEPT !.faults = @ + 1]
    BY <1>5 DEF Card!Break, Stages
  <2>2. spent' \in Losses /\ spent'.failed = spent.failed /\ spent'.faults # 0
    BY <2>1, Known DEF Losses
  <2>3. QED
    BY <2>1, <2>2, Known, FailsKeeps
<1>6. CASE Card!Others
  <2>1. card' = card /\ ops' = ops /\ spent' = [spent EXCEPT !.faults = @ + 1]
    BY <1>6 DEF Card!Others
  <2>2. /\ host \in HostState /\ spent \in Losses /\ session \in {"cold", "live", "owned"}
    BY DEF CardInv, Fits, CardTyped
  <2>3. spent' \in Losses /\ spent'.failed = spent.failed /\ spent'.faults # 0
    BY <2>1, <2>2 DEF Losses
  <2>4. host' \in HostState /\ session' \in {"cold", "live", "owned"}
    BY <1>6, <2>2 DEF Card!Others, HostState, Card!Environments
  <2>5. QED
    BY <2>1, <2>3, <2>4 DEF CardInv, Fits, CardTyped
<1>7. CASE UNCHANGED Card!vars
  BY <1>7 DEF Card!vars, CardInv, Fits, CardTyped, Says, Undone, Offers, Brings, Card!InFlight
<1>8. QED
  BY <1>1, <1>2, <1>3, <1>4, <1>5, <1>6, <1>7 DEF Card!Next

LEMMA CardInvInit == Card!Init => CardInv
<1> SUFFICES ASSUME Card!Init  PROVE CardInv
  OBVIOUS
<1>1. card \in CardRecord /\ card.phase = "none" /\ card.current = 0
  <2>1. card \in [phase : {"none"}, catalog : {None}, current : {0}, picker : {FALSE}, attached : BOOLEAN]
    BY DEF Card!Init
  <2>2. None \in Catalogs /\ "none" \in Card!Phases
    BY DEF Catalogs, Card!Phases
  <2>3. PICK b \in BOOLEAN :
           card = [phase |-> "none", catalog |-> None, current |-> 0, picker |-> FALSE, attached |-> b]
    BY <2>1
  <2>4. card \in CardRecord
    BY <2>2, <2>3 DEF CardRecord
  <2>5. QED
    BY <2>3, <2>4
<1>2. ops = <<>> /\ ops \in Seq(OpRecord) /\ Len(ops) = 0 /\ DOMAIN ops = {}
  BY DEF Card!Init
<1>3. spent \in Losses /\ host \in HostState /\ session \in {"cold", "live", "owned"}
  BY DEF Card!Init, Losses, HostState, Managers
<1>4. QED
  BY <1>1, <1>2, <1>3 DEF CardInv, Fits, CardTyped, Says, Undone, Offers

(* The card says what is under way, and offers the catalog the Host has,   *)
(* for any number of operations, faults and changes by others.             *)
THEOREM CardIsTrue ==
    ASSUME NoneIsNoCatalog  PROVE Card!Spec => []CardTellsTheTruth
<1>1. CardInv => CardTellsTheTruth
  <2> SUFFICES ASSUME CardInv  PROVE CardTellsTheTruth
    OBVIOUS
  <2>1. /\ card \in CardRecord /\ ops \in Seq(OpRecord) /\ host \in HostState
        /\ card.current \in Nat /\ card.current =< Len(ops) /\ DOMAIN ops = 1 .. Len(ops)
        /\ Len(ops) \in Nat
    BY DEF CardInv, Fits, CardTyped, CardRecord
  <2>2. \A i \in DOMAIN ops : ops[i] \in OpRecord
    BY <2>1
  <2>3. Card!TypeOK
    <3>1. \A i \in DOMAIN ops :
             /\ ops[i].kind \in Card!Busy \cup {"checking"}
             /\ ops[i].from \in {None, "live", "stored"}
             /\ (ops[i].answer = None => ops[i].stage = "done" \/ ~ops[i].ok)
      BY <2>2 DEF OpRecord, CardInv, Fits, CardTyped, Answered
    <3>2. card.phase \in Card!Phases /\ card.current \in 0 .. Len(ops) /\ host.env \in Card!Environments
      BY <2>1 DEF CardRecord, HostState
    <3>3. QED
      BY <3>1, <3>2 DEF Card!TypeOK
  <2>4. card.phase \in Card!Busy \cup {"checking", "required"} => card.current # 0
    BY DEF CardInv, Fits, CardTyped, Card!Busy
  <2>5. \A i \in DOMAIN ops : i = card.current => card.current # 0
    BY <2>1
  <2>6. card.phase = "required" /\ ~spent.failed /\ spent.faults = 0 => card.catalog = Card!Catalog(host)
    <3> SUFFICES ASSUME card.phase = "required", ~spent.failed, spent.faults = 0
                 PROVE  card.catalog = Card!Catalog(host)
      OBVIOUS
    <3>1. Offers(card, ops, host) /\ card.current # 0 /\ card.current \in DOMAIN ops
      BY <2>1, <2>4 DEF CardInv, Fits
    <3>2. ~Card!InFlight(ops[card.current]) /\ card.catalog = QuietCatalog(host)
      BY <3>1 DEF Offers
    <3>3. QED
      BY <3>1, <3>2, NobodyProvisions, CatalogIsQuiet
  <2>7. QED
    BY <2>3, <2>4, <2>5, <2>6 DEF CardTellsTheTruth, Card!CardTellsTheTruth, CardInv, Fits, Says
<1>2. QED
  BY <1>1, CardInvInit, CardInvNext, PTL DEF Card!Spec

(* A read uses the stored copy of a session only where none is resident.   *)
THEOREM ReadsAreResident ==
    ASSUME NoneIsNoCatalog  PROVE Card!Spec => ReadsUseTheLiveSession
<1> DEFINE A == \A i \in DOMAIN ops :
                  (ops[i].from = None /\ ops'[i].from # None) =>
                    /\ session # "owned"
                    /\ ops'[i].from = "stored" => session = "cold"
<1>1. ASSUME CardInv, [Card!Next]_(Card!vars)  PROVE [A]_(Card!vars)
  <2> SUFFICES ASSUME NEW i \in DOMAIN ops, ops[i].from = None, ops'[i].from # None, Card!Next
               PROVE  session # "owned" /\ (ops'[i].from = "stored" => session = "cold")
    BY <1>1
  <2>1. ops \in Seq(OpRecord) /\ DOMAIN ops = 1 .. Len(ops) /\ Len(ops) \in Nat /\ ops[i] \in OpRecord
    BY <1>1, Known
  <2>2. ASSUME NEW j \in DOMAIN ops, NEW r, Card!Moves(j, r)
        PROVE  ops'[i] = ops[i] \/ (i = j /\ ops'[i] = r)
    BY <2>1, <2>2 DEF Card!Moves
  <2>3. ~Card!User
    <3>1. Card!AbortedBefore \in Seq(OpRecord) /\ Len(Card!AbortedBefore) = Len(ops) /\ Card!AbortedBefore[i].from = ops[i].from
      <4>1. \A j \in 1 .. Len(ops) : ops[j] \in OpRecord /\ [ops[j] EXCEPT !.aborted = TRUE] \in OpRecord
        <5>1. \A r \in OpRecord : [r EXCEPT !.aborted = TRUE] \in OpRecord
          BY DEF OpRecord
        <5>2. QED
          BY <2>1, <5>1
      <4>2. Card!AbortedBefore \in [1 .. Len(ops) -> OpRecord]
        BY <2>1, <4>1 DEF Card!AbortedBefore
      <4>3. Card!AbortedBefore[i].from = ops[i].from
        BY <2>1 DEF Card!AbortedBefore, OpRecord
      <4>4. QED
        BY <2>1, <4>2, <4>3
    <3> DEFINE a == Card!AbortedBefore
    <3>2. ASSUME NEW kind, NEW allow, NEW rebuild, Card!Begin(kind, allow, rebuild)
          PROVE  ops'[i].from = ops[i].from
      <4>1. PICK r : ops' = Append(a, r)
        BY <3>2 DEF Card!Begin
      <4> HIDE DEF a
      <4>2. a \in Seq(OpRecord) /\ Len(a) = Len(ops) /\ a[i].from = ops[i].from
        BY <3>1 DEF a
      <4>3. Append(a, r)[i] = a[i]
        BY <2>1, <4>2
      <4>4. QED
        BY <4>1, <4>2, <4>3
    <3>3. QED
      BY <3>1, <3>2 DEF Card!User, Card!Appear, Card!Toggle, Card!Retry, Card!InstallUv, Card!InstallPython, Card!Attach, Card!Setup, Card!Rebuild, Card!Cancel
  <2>4. ASSUME NEW j \in DOMAIN ops, NEW from, Card!Works(j, from)
        PROVE  ops'[i] = ops[i] \/ (i = j /\ ops'[i].from = from)
    <3>1. [ops[i] EXCEPT !.stage = "working", !.from = from].from = from
      BY <2>1 DEF OpRecord
    <3>2. QED
      BY <2>2, <2>4, <3>1 DEF Card!Works
  <2>5. ASSUME NEW j \in DOMAIN ops,
               \/ Card!Fails(j) \/ (\E stage : Card!Goes(j, stage)) \/ (\E h : Card!Answers(j, h)) \/ Card!Ends(j)
        PROVE  FALSE
    <3>1. \A stage : [ops[i] EXCEPT !.stage = stage].from = ops[i].from
      BY <2>1 DEF OpRecord
    <3>2. [ops[i] EXCEPT !.stage = "answered", !.ok = FALSE].from = ops[i].from
      BY <2>1 DEF OpRecord
    <3>3. \A a : [ops[i] EXCEPT !.stage = "answered", !.ok = TRUE, !.answer = a].from = ops[i].from
      BY <2>1 DEF OpRecord
    <3>4. CASE Card!Fails(j)
      BY <2>2, <3>2, <3>4 DEF Card!Fails
    <3>5. CASE \E stage : Card!Goes(j, stage)
      BY <2>2, <3>1, <3>5 DEF Card!Goes
    <3>6. CASE \E h : Card!Answers(j, h)
      BY <2>2, <3>3, <3>6 DEF Card!Answers
    <3>7. CASE Card!Ends(j)
      BY <2>1, <3>1, <3>7 DEF Card!Ends
    <3>8. QED
      BY <2>5, <3>4, <3>5, <3>6, <3>7
  <2>6. ~Card!Others /\ ~(\E j \in DOMAIN ops : Card!Stop(j) \/ Card!Break(j) \/ Card!Work(j) \/ Card!Catalogued(j))
    <3>1. ~Card!Others
      BY DEF Card!Others
    <3>2. ASSUME NEW j \in DOMAIN ops, Card!Work(j)  PROVE FALSE
      <4>1. Card!Done(j) /\ ops[j] \in OpRecord
        BY <2>1, <3>2 DEF Card!Work
      <4>2. ops[j].kind \in Card!Busy \cup {"checking"}
        BY <4>1 DEF OpRecord
      <4>3. QED
        BY <2>5, <4>1, <4>2 DEF Card!Done, Card!Busy
    <3>3. QED
      BY <2>5, <3>1, <3>2 DEF Card!Stop, Card!Break, Card!Catalogued
  <2>7. ASSUME NEW j \in DOMAIN ops, Card!Receive(j)  PROVE FALSE
    <3>1. CASE Card!GoesOn(j)
      <4> DEFINE g == [ops[i] EXCEPT !.kind = "attaching", !.stage = "asked", !.ok = FALSE,
                                     !.answer = None, !.from = None]
      <4>1. ops'[i] = ops[i] \/ ops'[i] = g
        BY <2>1, <3>1 DEF Card!GoesOn
      <4>2. g.from = ops[i].from
        BY <2>1 DEF OpRecord
      <4>3. QED
        BY <4>1, <4>2
    <3>2. QED
      BY <2>5, <2>7, <3>1 DEF Card!Receive
  <2>8. PICK j \in DOMAIN ops : Card!LookUp(j) \/ Card!Listed(j) \/ Card!Inspected(j) \/ Card!Resume(j)
    BY <2>3, <2>6, <2>7 DEF Card!Next, Card!Serves
  <2>9. session \in {"cold", "live", "owned"}
    BY <1>1, Known
  <2>10. CASE Card!LookUp(j) \/ Card!Listed(j) \/ Card!Inspected(j)
    <3>1. \/ Card!Works(j, "live") /\ session = "live"
          \/ Card!Works(j, "stored") /\ session = "cold"
          \/ Card!Fails(j) \/ Card!Goes(j, "listing") \/ Card!Goes(j, "inspecting")
      BY <2>9, <2>10 DEF Card!LookUp, Card!Listed, Card!Inspected, Card!Resident
    <3>2. QED
      BY <2>4, <2>5, <3>1
  <2>11. CASE Card!Resume(j)
    <3>1. Card!Fails(j) \/ (Card!Works(j, "live") /\ session # "owned")
      BY <2>11 DEF Card!Resume
    <3>2. QED
      BY <2>4, <2>5, <3>1
  <2>12. QED
    BY <2>8, <2>10, <2>11
<1>2. QED
  BY <1>1, CardInvInit, CardInvNext, PTL DEF Card!Spec, ReadsUseTheLiveSession, Card!ReadsUseTheLiveSession

-----------------------------------------------------------------------------
(* The list.  First, numbers and sequences.                                *)

(* A set of natural numbers has a least member. *)
LEMMA LeastNumber ==
    ASSUME NEW T \in SUBSET Nat, T # {}
    PROVE  \E m \in T : \A k \in T : m <= k
<1> DEFINE R == OpToRel(<, Nat)
<1>1. IsWellFoundedOn(R, Nat)
    BY NatLessThanWellFounded
<1>2. \A x, y \in Nat : <<y, x>> \in R <=> y < x
    BY DEF OpToRel
<1> HIDE DEF R
<1>3. PICK x \in T : \A y \in T : ~(<<y, x>> \in R)
    BY <1>1, WFMin
<1>4. \A y \in T : ~(y < x)
    BY <1>2, <1>3
<1>5. \A y \in T : x <= y
    BY <1>4
<1> QED BY <1>5

(* Induction, for a set instead of a predicate. *)
LEMMA SetInduction ==
    ASSUME NEW T \in SUBSET Nat, 0 \in T, \A n \in T : n + 1 \in T
    PROVE  T = Nat
<1> SUFFICES ASSUME T # Nat PROVE FALSE
    OBVIOUS
<1>1. PICK m \in Nat \ T : \A k \in Nat \ T : m <= k
    <2>1. Nat \ T \in SUBSET Nat /\ Nat \ T # {}
        OBVIOUS
    <2> QED BY <2>1, LeastNumber
<1>2. m # 0
    OBVIOUS
<1>3. m - 1 \in Nat /\ m - 1 < m
    BY <1>2
<1>4. m - 1 \in T
    BY <1>1, <1>3
<1>5. (m - 1) + 1 = m
    OBVIOUS
<1> QED BY <1>1, <1>4, <1>5

(* What replaces the last member of a sequence leaves the others. *)
LEMMA Topped ==
    ASSUME NEW S, NEW s \in Seq(S), s # <<>>, NEW x \in S
    PROVE  /\ Append(Front(s), x) \in Seq(S)
           /\ Len(Append(Front(s), x)) = Len(s)
           /\ Append(Front(s), x)[Len(s)] = x
           /\ \A j \in 1 .. Len(s) - 1 : Append(Front(s), x)[j] = s[j]
<1> DEFINE t == SubSeq(s, 1, Len(s) - 1)
<1>1. Len(s) \in Nat /\ Len(s) >= 1
    OBVIOUS
<1>2. t \in Seq(S) /\ Len(t) = Len(s) - 1 /\ \A j \in 1 .. Len(s) - 1 : t[j] = s[j]
    <2> DEFINE k == Len(s) - 1
    <2>1. k \in Int /\ 1 \in Int /\ \A i \in 1 .. k : s[i] \in S
        BY <1>1
    <2>2. /\ SubSeq(s, 1, k) \in Seq(S)
          /\ Len(SubSeq(s, 1, k)) = IF 1 <= k THEN k - 1 + 1 ELSE 0
          /\ \A i \in 1 .. k - 1 + 1 : SubSeq(s, 1, k)[i] = s[1 + i - 1]
        <3> HIDE DEF k
        <3> QED BY <2>1, SubSeqProperties
    <2>3. 1 .. k - 1 + 1 = 1 .. k /\ \A i \in 1 .. k : 1 + i - 1 = i
        BY <2>1
    <2>4. Len(SubSeq(s, 1, k)) = k /\ \A i \in 1 .. k : SubSeq(s, 1, k)[i] = s[i]
        <3> HIDE DEF k
        <3>1. k >= 0
            BY <1>1 DEF k
        <3> QED BY <2>1, <2>2, <2>3, <3>1
    <2> QED BY <2>2, <2>4
<1> HIDE DEF t
<1>3. /\ Append(t, x) \in Seq(S) /\ Len(Append(t, x)) = Len(s) /\ Append(t, x)[Len(s)] = x
      /\ \A j \in 1 .. Len(s) - 1 : Append(t, x)[j] = s[j]
    BY <1>1, <1>2
<1> QED BY <1>3 DEF Front, t

LEMMA Popped ==
    ASSUME NEW S, NEW s \in Seq(S), s # <<>>
    PROVE  /\ Front(s) \in Seq(S)
           /\ Len(Front(s)) = Len(s) - 1
           /\ \A j \in 1 .. Len(s) - 1 : Front(s)[j] = s[j]
           /\ (Front(s) = <<>> <=> Len(s) = 1)
<1> DEFINE t == SubSeq(s, 1, Len(s) - 1)
<1>1. Len(s) \in Nat /\ Len(s) >= 1
    OBVIOUS
<1>2. t \in Seq(S) /\ Len(t) = Len(s) - 1 /\ \A j \in 1 .. Len(s) - 1 : t[j] = s[j]
    <2> DEFINE k == Len(s) - 1
    <2>1. k \in Int /\ 1 \in Int /\ \A i \in 1 .. k : s[i] \in S
        BY <1>1
    <2>2. /\ SubSeq(s, 1, k) \in Seq(S)
          /\ Len(SubSeq(s, 1, k)) = IF 1 <= k THEN k - 1 + 1 ELSE 0
          /\ \A i \in 1 .. k - 1 + 1 : SubSeq(s, 1, k)[i] = s[1 + i - 1]
        <3> HIDE DEF k
        <3> QED BY <2>1, SubSeqProperties
    <2>3. 1 .. k - 1 + 1 = 1 .. k /\ \A i \in 1 .. k : 1 + i - 1 = i
        BY <2>1
    <2>4. Len(SubSeq(s, 1, k)) = k /\ \A i \in 1 .. k : SubSeq(s, 1, k)[i] = s[i]
        <3> HIDE DEF k
        <3>1. k >= 0
            BY <1>1 DEF k
        <3> QED BY <2>1, <2>2, <2>3, <3>1
    <2> QED BY <2>2, <2>4
<1> HIDE DEF t
<1>3. t = <<>> <=> Len(s) = 1
    BY <1>1, <1>2
<1> QED BY <1>2, <1>3 DEF Front, t

(* The first of the entries that are to come is the least by name. *)
LEMMA LeastIsFirst ==
    ASSUME DiscoveryAssumption, NEW entries \in SUBSET Entries, entries # {}
    PROVE  Least(entries) \in entries /\ \A f \in entries : Least(entries).name <= f.name
<1> DEFINE T == {e.name : e \in entries}
<1>1. T \in SUBSET Nat /\ T # {}
    BY DEF DiscoveryAssumption
<1>2. PICK m \in T : \A k \in T : m <= k
    BY <1>1, LeastNumber
<1>3. \E e \in entries : \A f \in entries : e.name <= f.name
    BY <1>2
<1> QED BY <1>3 DEF Least

-----------------------------------------------------------------------------
(* Types. *)

Path == Seq(Nat)
FrameRecord == [path : Path, dir : Directories, listed : BOOLEAN, todo : SUBSET Entries]
Item == [path : Path, to : Notebooks]
WalkRecord ==
    [after : Path, passed : BOOLEAN, stack : Seq(FrameRecord), dirs : SUBSET Directories,
     files : SUBSET Notebooks, found : Seq(Item), partial : BOOLEAN, stopped : BOOLEAN,
     count : Nat]

(* The entries the walk may follow. *)
Walkable == {e \in Entries : e \notin Pruned \cup Unportable /\ e.to \in Directories \cup Notebooks}

Depth(w) == Len(w.stack)
Here(w) == Top(w).path
Ahead(w) == Least(Top(w).todo)
AheadPath(w) == Append(Here(w), Ahead(w).name)
WentStack(w) == Append(Front(w.stack), [Top(w) EXCEPT !.todo = @ \ {Ahead(w)}])

(* The frames of a walk go down along the path of the last one, and each   *)
(* has entries behind its name on that path to come.                       *)
Framed(frame) ==
    /\ \A e \in frame.todo : e.in = frame.dir
    /\ Unique(frame.todo)
    /\ ~frame.listed => frame.todo = {}
Stacked(w) ==
    /\ Depth(w) \in 1 .. MaxDepth + 1
    /\ w.stack[1].dir = Root
    /\ \A j \in 1 .. Depth(w) :
          /\ Framed(w.stack[j]) /\ w.stack[j].dir \in w.dirs
          /\ Len(w.stack[j].path) = j - 1
          /\ \A i \in 1 .. j - 1 : w.stack[j].path[i] = Here(w)[i]
          /\ j < Depth(w) => w.stack[j].listed /\ \A f \in w.stack[j].todo : Here(w)[j] < f.name
Bounded(w) ==
    /\ w.count <= MaxEntries /\ Len(w.found) <= PageSize + 1
    /\ ~w.stopped => Len(w.found) <= PageSize
    /\ w.stopped => w.partial \/ Len(w.found) > PageSize
    /\ ~w.passed => w.found = <<>> /\ w.after # <<>>
Shape(w) == w \in WalkRecord /\ Stacked(w) /\ Bounded(w)

-----------------------------------------------------------------------------
(* What one entry makes of a walk. *)

Stops(w, x) ==
    /\ x.stack = w.stack /\ x.count = w.count /\ x.partial /\ x.stopped
    /\ x.after = w.after /\ x.passed = w.passed /\ x.dirs = w.dirs /\ x.files = w.files
    /\ x.found = w.found
Counts(w, x) ==
    /\ x.after = w.after /\ x.count = w.count + 1 /\ w.count < MaxEntries
Skips(w, x) ==
    /\ Counts(w, x) /\ x.stack = WentStack(w) /\ ~x.stopped
    /\ x.passed = w.passed /\ x.files = w.files /\ x.found = w.found
    /\ w.partial => x.partial
    /\ w.dirs \subseteq x.dirs
    /\ ~x.partial => x.dirs = w.dirs /\ (Ahead(w) \in Walkable => Ahead(w).to \in w.dirs \cup w.files)
Enters(w, x) ==
    /\ Counts(w, x) /\ ~x.stopped /\ x.passed = w.passed /\ x.files = w.files
    /\ x.found = w.found /\ x.partial = w.partial
    /\ x.stack = Append(WentStack(w), Frame(AheadPath(w), Ahead(w).to))
    /\ x.dirs = w.dirs \cup {Ahead(w).to}
    /\ Ahead(w) \in Walkable /\ Ahead(w).to \in Directories \ w.dirs
    /\ Len(AheadPath(w)) <= MaxDepth
Collecting(w, x) ==
    /\ Counts(w, x) /\ x.stack = WentStack(w) /\ x.dirs = w.dirs /\ x.partial = w.partial
    /\ x.files = w.files \cup {Ahead(w).to}
    /\ Ahead(w) \in Walkable /\ Ahead(w).to \in Notebooks \ w.files
Passes(w, x) ==
    /\ Collecting(w, x) /\ ~w.passed /\ x.passed = (AheadPath(w) = w.after)
    /\ x.found = w.found /\ ~x.stopped
Finds(w, x) ==
    /\ Collecting(w, x) /\ w.passed /\ x.passed
    /\ x.found = Append(w.found, [path |-> AheadPath(w), to |-> Ahead(w).to])
    /\ x.stopped = (Len(w.found) >= PageSize)

LEMMA WentFrame ==
    ASSUME DiscoveryAssumption, NEW w, Shape(w), Top(w).todo # {}
    PROVE  LET e == Ahead(w)  frame == [Top(w) EXCEPT !.todo = @ \ {Ahead(w)}]
           IN  /\ e \in Top(w).todo /\ e \in Entries /\ e.name \in Nat /\ e.in = Top(w).dir
               /\ \A f \in Top(w).todo : e.name <= f.name
               /\ Top(w) = w.stack[Depth(w)] /\ Top(w) \in FrameRecord
               /\ frame \in FrameRecord /\ frame.path = Here(w) /\ frame.dir = Top(w).dir
               /\ frame.listed = Top(w).listed /\ frame.todo = Top(w).todo \ {e}
               /\ WentStack(w) \in Seq(FrameRecord) /\ Len(WentStack(w)) = Depth(w)
               /\ WentStack(w)[Depth(w)] = frame
               /\ \A j \in 1 .. Depth(w) - 1 : WentStack(w)[j] = w.stack[j]
               /\ Here(w) \in Path /\ Len(Here(w)) = Depth(w) - 1
               /\ AheadPath(w) \in Path /\ Len(AheadPath(w)) = Depth(w)
               /\ AheadPath(w)[Depth(w)] = e.name
               /\ \A i \in 1 .. Depth(w) - 1 : AheadPath(w)[i] = Here(w)[i]
<1> DEFINE e == Ahead(w)  frame == [Top(w) EXCEPT !.todo = @ \ {Ahead(w)}]
           n == Depth(w)
<1>1. w.stack \in Seq(FrameRecord) /\ n \in Nat /\ n >= 1 /\ n = Len(w.stack)
    BY DEF Shape, Stacked, Bounded, WalkRecord, Depth, DiscoveryAssumption
<1>2. Top(w) = w.stack[n] /\ w.stack[n] \in FrameRecord /\ w.stack # <<>>
    BY <1>1 DEF Top, Last
<1>3. Framed(w.stack[n]) /\ Len(w.stack[n].path) = n - 1
    BY <1>1 DEF Shape, Stacked, Bounded
<1>4. Top(w).todo \subseteq Entries /\ Top(w).path \in Path
    BY <1>2 DEF FrameRecord
<1>5. e \in Top(w).todo /\ \A f \in Top(w).todo : e.name <= f.name
    BY <1>4, LeastIsFirst DEF Ahead
<1>6. e \in Entries /\ e.name \in Nat /\ e.in = Top(w).dir
    BY <1>2, <1>3, <1>4, <1>5 DEF DiscoveryAssumption, Framed
<1>7. /\ frame \in FrameRecord /\ frame.path = Here(w) /\ frame.dir = Top(w).dir
      /\ frame.listed = Top(w).listed /\ frame.todo = Top(w).todo \ {e}
    BY <1>2 DEF FrameRecord, Here
<1>8. /\ WentStack(w) \in Seq(FrameRecord) /\ Len(WentStack(w)) = n
      /\ WentStack(w)[n] = frame
      /\ \A j \in 1 .. n - 1 : WentStack(w)[j] = w.stack[j]
    <2> HIDE DEF frame, n
    <2>1. WentStack(w) = Append(Front(w.stack), frame)
        BY DEF WentStack, frame
    <2> QED BY <2>1, <1>1, <1>2, <1>7, Topped
<1>9. Here(w) \in Path /\ Len(Here(w)) = n - 1
    BY <1>2, <1>3, <1>4 DEF Here
<1>10. /\ AheadPath(w) \in Path /\ Len(AheadPath(w)) = n /\ AheadPath(w)[n] = e.name
       /\ \A i \in 1 .. n - 1 : AheadPath(w)[i] = Here(w)[i]
    BY <1>1, <1>6, <1>9 DEF AheadPath, Path
<1> QED BY <1>2, <1>5, <1>6, <1>7, <1>8, <1>9, <1>10

LEMMA EntryOutcome ==
    ASSUME DiscoveryAssumption, NEW w, Shape(w), ~w.stopped, Top(w).todo # {}
    PROVE  LET x == Examined(w)
           IN  /\ x \in WalkRecord
               /\ Stops(w, x) \/ Skips(w, x) \/ Enters(w, x) \/ Passes(w, x) \/ Finds(w, x)
<1> DEFINE x == Examined(w)  e == Ahead(w)  path == AheadPath(w)  m == Went(w)
           frame == [Top(w) EXCEPT !.todo = @ \ {Ahead(w)}]
<1> SUFFICES /\ x \in WalkRecord
             /\ Stops(w, x) \/ Skips(w, x) \/ Enters(w, x) \/ Passes(w, x) \/ Finds(w, x)
    OBVIOUS
<1>1. /\ e \in Entries /\ e.name \in Nat /\ WentStack(w) \in Seq(FrameRecord)
      /\ path \in Path
    BY WentFrame
<1>2. w \in WalkRecord
    BY DEF Shape, Stacked, Bounded
<1>4. e = Least(Top(w).todo) /\ path = Append(Top(w).path, e.name)
    BY DEF Ahead, AheadPath, Here
<1> HIDE DEF m, e, path
<1>3. /\ m \in WalkRecord /\ m.stack = WentStack(w) /\ m.count = w.count + 1
      /\ m.after = w.after /\ m.passed = w.passed /\ m.dirs = w.dirs /\ m.files = w.files
      /\ m.found = w.found /\ m.partial = w.partial /\ m.stopped = w.stopped
    <2> DEFINE k == [w EXCEPT !.stack = WentStack(w)]
    <2>1. m = [k EXCEPT !.count = w.count + 1]
        BY DEF Went, OnTop, WentStack, Ahead, m
    <2>2. /\ k \in WalkRecord /\ k.stack = WentStack(w) /\ k.count = w.count
          /\ k.after = w.after /\ k.passed = w.passed /\ k.dirs = w.dirs /\ k.files = w.files
          /\ k.found = w.found /\ k.partial = w.partial /\ k.stopped = w.stopped
        BY <1>1, <1>2 DEF WalkRecord
    <2>3. w.count + 1 \in Nat
        BY <1>2 DEF WalkRecord
    <2> HIDE DEF k
    <2>4. m.count = w.count + 1 /\ m \in WalkRecord
        BY <2>1, <2>2, <2>3 DEF WalkRecord
    <2> QED BY <2>1, <2>2, <2>4 DEF WalkRecord
<1>5. w.count \in Nat /\ MaxEntries \in Nat /\ MaxDepth \in Nat
    BY <1>2 DEF WalkRecord, DiscoveryAssumption
<1>6. CASE w.count >= MaxEntries
    <2>1. x = [Omits(w) EXCEPT !.stopped = TRUE]
        BY <1>6, <1>5 DEF Examined
    <2>2. x \in WalkRecord /\ Stops(w, x)
        BY <1>2, <2>1 DEF WalkRecord, Omits, Stops
    <2> QED BY <2>2
<1>7. CASE w.count < MaxEntries /\ e \in Unportable
    <2>1. x = Omits(m)
        BY <1>4, <1>5, <1>7 DEF Examined, m
    <2>2. x \in WalkRecord /\ Skips(w, x)
        BY <1>3, <1>7, <2>1 DEF WalkRecord, Omits, Skips, Counts
    <2> QED BY <2>2
<1>8. CASE w.count < MaxEntries /\ e \in Pruned \ Unportable
    <2>1. x = m
        BY <1>4, <1>5, <1>8 DEF Examined, m
    <2>2. e \notin Walkable
        BY <1>8 DEF Walkable
    <2>3. x \in WalkRecord /\ Skips(w, x)
        BY <1>3, <1>8, <2>1, <2>2 DEF Skips, Counts, e
    <2> QED BY <2>3
<1>9. CASE w.count < MaxEntries /\ e \notin Pruned \cup Unportable
    <2>1. x = IF e.to \in Directories THEN Visits(m, e.to, path)
              ELSE IF e.to \in Notebooks THEN Collects(m, e.to, path) ELSE m
        BY <1>4, <1>5, <1>9 DEF Examined, m
    <2> HIDE DEF x
    <2>2. CASE e.to \in Directories
        <3>1. x = Visits(m, e.to, path) /\ e \in Walkable
            BY <1>1, <1>9, <2>1, <2>2 DEF Walkable
        <3>2. CASE e.to \in w.dirs
            <4>1. x = m
                BY <1>3, <3>1, <3>2 DEF Visits
            <4> QED BY <1>3, <1>9, <3>2, <4>1 DEF Skips, Counts, e
        <3>3. CASE e.to \notin w.dirs /\ TooDeep(path)
            <4>1. x = Omits([m EXCEPT !.dirs = @ \cup {e.to}])
                BY <1>3, <3>1, <3>3 DEF Visits
            <4> QED BY <1>3, <1>9, <2>2, <4>1 DEF Skips, Counts, Omits, WalkRecord
        <3>4. CASE e.to \notin w.dirs /\ ~TooDeep(path)
            <4>1. x = [[m EXCEPT !.dirs = @ \cup {e.to}] EXCEPT !.stack = Append(@, Frame(path, e.to))]
                BY <1>3, <3>1, <3>4 DEF Visits
            <4>2. Frame(path, e.to) \in FrameRecord
                BY <1>1, <2>2 DEF Frame, FrameRecord
            <4>3. Len(path) <= MaxDepth
                BY <1>1, <1>5, <3>4 DEF TooDeep, Path
            <4>4. /\ x \in WalkRecord /\ x.stack = Append(m.stack, Frame(path, e.to))
                  /\ x.dirs = m.dirs \cup {e.to} /\ x.count = m.count /\ x.after = m.after
                  /\ x.passed = m.passed /\ x.files = m.files /\ x.found = m.found
                  /\ x.partial = m.partial /\ x.stopped = m.stopped
                <5> DEFINE stack == Append(m.stack, Frame(path, e.to))
                           dirs == m.dirs \cup {e.to}
                <5>1. stack \in Seq(FrameRecord)
                    BY <1>1, <1>3, <4>2
                <5>2. x = [[m EXCEPT !.dirs = dirs] EXCEPT !.stack = stack]
                    BY <1>3, <4>1 DEF WalkRecord
                <5>3. dirs \in SUBSET Directories
                    BY <1>3, <2>2 DEF WalkRecord
                <5> HIDE DEF stack, dirs
                <5> QED BY <1>3, <5>1, <5>2, <5>3 DEF WalkRecord, stack, dirs
            <4> QED BY <1>3, <1>9, <2>2, <3>1, <3>4, <4>3, <4>4 DEF Enters, Counts, e, path
        <3> QED BY <3>2, <3>3, <3>4
    <2>3. CASE e.to \notin Directories /\ e.to \in Notebooks
        <3>1. x = Collects(m, e.to, path) /\ e \in Walkable
            BY <1>1, <1>9, <2>1, <2>3 DEF Walkable
        <3>2. CASE e.to \in w.files
            <4>1. x = m
                BY <1>3, <3>1, <3>2 DEF Collects, Counted
            <4> QED BY <1>3, <1>9, <3>2, <4>1 DEF Skips, Counts, e
        <3>3. CASE e.to \notin w.files /\ ~w.passed
            <4>1. x = [[m EXCEPT !.files = @ \cup {e.to}] EXCEPT !.passed = (path = m.after)]
                BY <1>3, <3>1, <3>3 DEF Collects, Counted
            <4>2. /\ x \in WalkRecord /\ x.stack = m.stack
                  /\ x.files = m.files \cup {e.to} /\ x.count = m.count /\ x.after = m.after
                  /\ x.passed = (path = m.after) /\ x.dirs = m.dirs /\ x.found = m.found
                  /\ x.partial = m.partial /\ x.stopped = m.stopped
                BY <1>3, <2>3, <4>1 DEF WalkRecord
            <4> QED BY <1>3, <1>9, <2>3, <3>1, <3>3, <4>2 DEF Passes, Collecting, Counts, e, path
        <3>4. CASE e.to \notin w.files /\ w.passed
            <4> DEFINE item == [path |-> path, to |-> e.to]
            <4>1. x = [[m EXCEPT !.files = m.files \cup {e.to}]
                          EXCEPT !.found = Append(@, item), !.stopped = Len(m.found) >= PageSize]
                BY <1>3, <3>1, <3>4 DEF Collects, Counted
            <4>2. item \in Item
                BY <1>1, <2>3 DEF Item
            <4> HIDE DEF item
            <4>3. /\ x \in WalkRecord /\ x.stack = m.stack
                  /\ x.files = m.files \cup {e.to} /\ x.count = m.count /\ x.after = m.after
                  /\ x.passed = m.passed /\ x.dirs = m.dirs /\ x.found = Append(m.found, item)
                  /\ x.partial = m.partial /\ x.stopped = (Len(m.found) >= PageSize)
                <5> DEFINE found == Append(m.found, item)
                           files == m.files \cup {e.to}
                           stopped == Len(m.found) >= PageSize
                <5>1. found \in Seq(Item) /\ stopped \in BOOLEAN
                    BY <1>3, <4>2 DEF WalkRecord
                <5>2. x = [[m EXCEPT !.files = files] EXCEPT !.found = found, !.stopped = stopped]
                    BY <1>3, <4>1 DEF WalkRecord
                <5>3. files \in SUBSET Notebooks
                    BY <1>3, <2>3 DEF WalkRecord
                <5> HIDE DEF found, files, stopped
                <5> QED BY <1>3, <5>1, <5>2, <5>3 DEF WalkRecord, found, files, stopped
            <4> QED BY <1>3, <1>9, <2>3, <3>1, <3>4, <4>3 DEF Finds, Collecting, Counts, e, path, item
        <3> QED BY <3>2, <3>3, <3>4
    <2>4. CASE e.to \notin Directories /\ e.to \notin Notebooks
        <3>1. x = m
            BY <2>1, <2>4
        <3>2. e \notin Walkable
            BY <2>4 DEF Walkable
        <3> QED BY <1>3, <1>9, <3>1, <3>2 DEF Skips, Counts, e
    <2> QED BY <2>2, <2>3, <2>4
<1> QED BY <1>5, <1>6, <1>7, <1>8, <1>9

(* The stack of a walk. *)
LEMMA TopFacts ==
    ASSUME DiscoveryAssumption, NEW w, Shape(w)
    PROVE  /\ w \in WalkRecord /\ w.stack \in Seq(FrameRecord) /\ w.stack # <<>>
           /\ Depth(w) \in Nat /\ Depth(w) >= 1 /\ Depth(w) = Len(w.stack)
           /\ Top(w) = w.stack[Depth(w)] /\ Top(w) \in FrameRecord
           /\ Here(w) = Top(w).path /\ Here(w) \in Path /\ Len(Here(w)) = Depth(w) - 1
           /\ \A j \in 1 .. Depth(w) - 1 : Here(w)[j] \in Nat
           /\ \A j \in 1 .. Depth(w) :
                 w.stack[j] \in FrameRecord /\ w.stack[j].path \in Path /\ w.stack[j].todo \subseteq Entries
<1>1. /\ w \in WalkRecord /\ w.stack \in Seq(FrameRecord) /\ Depth(w) \in Nat /\ Depth(w) >= 1
      /\ Depth(w) = Len(w.stack)
    BY DEF Shape, Stacked, Bounded, WalkRecord, Depth, DiscoveryAssumption
<1>2. Top(w) = w.stack[Depth(w)] /\ w.stack # <<>>
    BY <1>1 DEF Top, Last
<1>3. \A j \in 1 .. Depth(w) : w.stack[j] \in FrameRecord
    BY <1>1
<1>4. \A j \in 1 .. Depth(w) : w.stack[j].path \in Path /\ w.stack[j].todo \subseteq Entries
    BY <1>3 DEF FrameRecord
<1>5. Here(w) = w.stack[Depth(w)].path /\ Len(w.stack[Depth(w)].path) = Depth(w) - 1
    BY <1>1, <1>2 DEF Here, Shape, Stacked, Bounded
<1>6. Here(w) \in Path /\ \A j \in 1 .. Depth(w) - 1 : Here(w)[j] \in Nat
    BY <1>1, <1>4, <1>5 DEF Path
<1> QED BY <1>1, <1>2, <1>3, <1>4, <1>5, <1>6 DEF Here

LEMMA LeftFacts ==
    ASSUME DiscoveryAssumption, NEW w, Shape(w)
    PROVE  LET x == Left(w)
           IN  /\ x \in WalkRecord /\ Depth(x) = Depth(w) - 1
               /\ \A j \in 1 .. Depth(x) : x.stack[j] = w.stack[j]
               /\ (x.stack = <<>> <=> Depth(w) = 1)
               /\ x.after = w.after /\ x.passed = w.passed /\ x.dirs = w.dirs /\ x.files = w.files
               /\ x.found = w.found /\ x.partial = w.partial /\ x.stopped = w.stopped
               /\ x.count = w.count
<1>1. Front(w.stack) \in Seq(FrameRecord) /\ Len(Front(w.stack)) = Depth(w) - 1
      /\ (\A j \in 1 .. Depth(w) - 1 : Front(w.stack)[j] = w.stack[j])
      /\ (Front(w.stack) = <<>> <=> Depth(w) = 1)
    <2>1. w.stack \in Seq(FrameRecord) /\ w.stack # <<>> /\ Depth(w) = Len(w.stack)
        BY TopFacts
    <2> QED BY <2>1, Popped
<1>2. w \in WalkRecord
    BY DEF Shape, Stacked, Bounded
<1> QED BY <1>1, <1>2 DEF Left, WalkRecord, Depth

LEMMA LeftTop ==
    ASSUME DiscoveryAssumption, NEW w, Shape(w), NEW x, Depth(w) > 1, Depth(x) = Depth(w) - 1,
           x.stack \in Seq(FrameRecord), \A j \in 1 .. Depth(x) : x.stack[j] = w.stack[j]
    PROVE  /\ Top(x) = w.stack[Depth(x)] /\ Here(x) = w.stack[Depth(x)].path
           /\ \A j \in 1 .. Depth(x) - 1 : Here(x)[j] = Here(w)[j]
<1>1. Depth(x) \in 1 .. Depth(w) /\ Depth(x) = Len(x.stack)
    BY TopFacts DEF Depth
<1>2. Top(x) = w.stack[Depth(x)] /\ Here(x) = w.stack[Depth(x)].path
    BY <1>1 DEF Top, Last, Here
<1>3. \A j \in 1 .. Depth(x) - 1 : w.stack[Depth(x)].path[j] = Here(w)[j]
    BY <1>1, TopFacts DEF Shape, Stacked, Bounded
<1> QED BY <1>2, <1>3

LEMMA LeftKeepsShape ==
    ASSUME DiscoveryAssumption, NEW w, Shape(w), Depth(w) > 1
    PROVE  Shape(Left(w))
<1> DEFINE x == Left(w)
<1>1. /\ x \in WalkRecord /\ Depth(x) = Depth(w) - 1
      /\ \A j \in 1 .. Depth(x) : x.stack[j] = w.stack[j]
      /\ x.after = w.after /\ x.passed = w.passed /\ x.dirs = w.dirs /\ x.files = w.files
      /\ x.found = w.found /\ x.partial = w.partial /\ x.stopped = w.stopped
      /\ x.count = w.count
    BY LeftFacts
<1> HIDE DEF x
<1>2. x.stack \in Seq(FrameRecord)
    BY <1>1 DEF WalkRecord
<1>3. \A j \in 1 .. Depth(x) - 1 : Here(x)[j] = Here(w)[j]
    BY <1>1, <1>2, LeftTop
<1>4. Depth(w) \in Nat /\ Depth(w) \in 1 .. MaxDepth + 1 /\ MaxDepth \in Nat
    BY TopFacts DEF Shape, Stacked, Bounded, DiscoveryAssumption
<1>5. ASSUME NEW j \in 1 .. Depth(x)
      PROVE  /\ Framed(x.stack[j]) /\ x.stack[j].dir \in x.dirs
             /\ Len(x.stack[j].path) = j - 1
             /\ \A i \in 1 .. j - 1 : x.stack[j].path[i] = Here(x)[i]
             /\ j < Depth(x) => x.stack[j].listed /\ \A f \in x.stack[j].todo : Here(x)[j] < f.name
    <2>1. j \in 1 .. Depth(w) /\ j < Depth(w) /\ x.stack[j] = w.stack[j]
        BY <1>1, <1>4
    <2>2. /\ Framed(w.stack[j]) /\ w.stack[j].dir \in w.dirs
          /\ Len(w.stack[j].path) = j - 1
          /\ \A i \in 1 .. j - 1 : w.stack[j].path[i] = Here(w)[i]
          /\ w.stack[j].listed /\ \A f \in w.stack[j].todo : Here(w)[j] < f.name
        BY <2>1 DEF Shape, Stacked, Bounded
    <2>3. \A i \in 1 .. j - 1 : Here(x)[i] = Here(w)[i]
        BY <1>1, <1>3, <1>4
    <2>4. j < Depth(x) => Here(x)[j] = Here(w)[j]
        BY <1>1, <1>3, <1>4
    <2> QED BY <1>1, <2>1, <2>2, <2>3, <2>4
<1>6. x.stack[1].dir = Root
    <2>1. 1 \in 1 .. Depth(x) /\ x.stack[1] = w.stack[1]
        BY <1>1, <1>4
    <2> QED BY <2>1 DEF Shape, Stacked, Bounded
<1> QED BY <1>1, <1>4, <1>5, <1>6 DEF Shape, Stacked, Bounded, x

LEMMA OmitsKeepsShape ==
    ASSUME DiscoveryAssumption, NEW w, Shape(w)
    PROVE  Shape(Omits(w)) /\ Depth(Omits(w)) = Depth(w)
<1>1. w \in WalkRecord
    BY DEF Shape, Stacked, Bounded
<1>2. /\ Omits(w) \in WalkRecord /\ Omits(w).stack = w.stack /\ Omits(w).dirs = w.dirs
      /\ Omits(w).count = w.count /\ Omits(w).found = w.found /\ Omits(w).stopped = w.stopped
      /\ Omits(w).passed = w.passed /\ Omits(w).after = w.after /\ Omits(w).partial
    BY <1>1 DEF Omits, WalkRecord
<1> QED BY <1>2 DEF Shape, Stacked, Bounded, Depth, Here, Top

LEMMA WalkHasShape ==
    ASSUME DiscoveryAssumption, NEW after \in Path
    PROVE  Shape(Walk(after)) /\ Depth(Walk(after)) = 1
<1> DEFINE w == Walk(after)  frame == Frame(<<>>, Root)
<1>1. frame \in FrameRecord
    BY DEF Frame, FrameRecord, Path, DiscoveryAssumption
<1>2. <<frame>> \in Seq(FrameRecord) /\ Len(<<frame>>) = 1 /\ <<frame>>[1] = frame
    BY <1>1
<1>3. frame.path = <<>> /\ frame.dir = Root /\ frame.listed = FALSE /\ frame.todo = {}
    BY DEF Frame
<1>4. /\ w.after = after /\ w.passed = (after = <<>>) /\ w.stack = <<frame>>
      /\ w.dirs = {Root} /\ w.files = {} /\ w.found = <<>> /\ w.partial = FALSE
      /\ w.stopped = FALSE /\ w.count = 0
    BY DEF Walk
<1>5. w \in WalkRecord
    <2>1. <<frame>> \in Seq(FrameRecord) /\ {Root} \in SUBSET Directories
        BY <1>2 DEF DiscoveryAssumption
    <2> HIDE DEF frame
    <2> QED BY <2>1 DEF Walk, WalkRecord, frame
<1> HIDE DEF w, frame
<1>6. Framed(frame)
    BY <1>3 DEF Framed, Unique
<1>7. PageSize \in Nat /\ MaxDepth \in Nat /\ MaxEntries \in Nat
    BY DEF DiscoveryAssumption
<1>8. Depth(w) = 1
    BY <1>2, <1>4 DEF Depth
<1>9. Len(w.found) = 0
    BY <1>4
<1>10. Shape(w)
    <2>1. ASSUME NEW j \in 1 .. Depth(w)
          PROVE  /\ Framed(w.stack[j]) /\ w.stack[j].dir \in w.dirs
                 /\ Len(w.stack[j].path) = j - 1
                 /\ \A i \in 1 .. j - 1 : w.stack[j].path[i] = Here(w)[i]
                 /\ j < Depth(w) => w.stack[j].listed /\ \A f \in w.stack[j].todo : Here(w)[j] < f.name
        <3>1. j = 1
            BY <1>8
        <3> QED BY <1>2, <1>3, <1>4, <1>6, <1>8, <3>1
    <2>2. Depth(w) \in 1 .. MaxDepth + 1 /\ w.stack[1].dir = Root
        BY <1>2, <1>3, <1>4, <1>7, <1>8
    <2>3. w.count <= MaxEntries /\ Len(w.found) <= PageSize + 1 /\ Len(w.found) <= PageSize
        BY <1>4, <1>7, <1>9
    <2>4. ~w.stopped /\ (~w.passed => w.found = <<>> /\ w.after # <<>>)
        BY <1>4
    <2> QED BY <1>5, <2>1, <2>2, <2>3, <2>4 DEF Shape, Stacked, Bounded
<1> QED BY <1>8, <1>10 DEF w

LEMMA ListedFacts ==
    ASSUME DiscoveryAssumption, NEW w, Shape(w), NEW entries \in SUBSET Entries
    PROVE  LET x == Listed(w, entries)
           IN  /\ x \in WalkRecord /\ Depth(x) = Depth(w)
               /\ \A j \in 1 .. Depth(w) - 1 : x.stack[j] = w.stack[j]
               /\ Top(x) = x.stack[Depth(w)] /\ Top(x).path = Here(w) /\ Top(x).dir = Top(w).dir
               /\ Top(x).listed /\ Top(x).todo = entries /\ Here(x) = Here(w)
               /\ x.after = w.after /\ x.passed = w.passed /\ x.dirs = w.dirs /\ x.files = w.files
               /\ x.found = w.found /\ x.partial = w.partial /\ x.stopped = w.stopped
               /\ x.count = w.count /\ x.stack # <<>>
<1> DEFINE x == Listed(w, entries)
           frame == [Top(w) EXCEPT !.listed = TRUE, !.todo = entries]
           stack == Append(Front(w.stack), frame)
<1>1. /\ frame \in FrameRecord /\ frame.path = Here(w) /\ frame.dir = Top(w).dir
      /\ frame.listed /\ frame.todo = entries
    BY TopFacts DEF FrameRecord
<1> HIDE DEF frame
<1>2. /\ stack \in Seq(FrameRecord) /\ Len(stack) = Depth(w) /\ stack[Depth(w)] = frame
      /\ \A j \in 1 .. Depth(w) - 1 : stack[j] = w.stack[j]
    BY <1>1, TopFacts, Topped
<1>3. w \in WalkRecord /\ x = [w EXCEPT !.stack = stack]
    BY DEF Shape, Stacked, Bounded, Listed, OnTop, frame
<1> HIDE DEF stack
<1>4. /\ x \in WalkRecord /\ x.stack = stack
      /\ x.after = w.after /\ x.passed = w.passed /\ x.dirs = w.dirs /\ x.files = w.files
      /\ x.found = w.found /\ x.partial = w.partial /\ x.stopped = w.stopped
      /\ x.count = w.count
    BY <1>2, <1>3 DEF WalkRecord
<1> HIDE DEF x
<1>5. Top(x) = stack[Depth(w)] /\ Depth(x) = Depth(w) /\ x.stack # <<>>
    BY <1>2, <1>4, TopFacts DEF Top, Last, Depth
<1>6. Here(x) = Here(w)
    BY <1>1, <1>2, <1>5 DEF Here
<1> QED BY <1>1, <1>2, <1>4, <1>5, <1>6 DEF x

LEMMA ListedKeepsShape ==
    ASSUME DiscoveryAssumption, NEW w, Shape(w), NEW entries \in SUBSET Entries,
           Unique(entries), \A e \in entries : e.in = Top(w).dir
    PROVE  Shape(Listed(w, entries))
<1> DEFINE x == Listed(w, entries)
<1>1. /\ x \in WalkRecord /\ Depth(x) = Depth(w)
      /\ \A j \in 1 .. Depth(w) - 1 : x.stack[j] = w.stack[j]
      /\ Top(x) = x.stack[Depth(w)] /\ Top(x).path = Here(w) /\ Top(x).dir = Top(w).dir
      /\ Top(x).listed /\ Top(x).todo = entries /\ Here(x) = Here(w)
      /\ x.after = w.after /\ x.passed = w.passed /\ x.dirs = w.dirs /\ x.files = w.files
      /\ x.found = w.found /\ x.partial = w.partial /\ x.stopped = w.stopped
      /\ x.count = w.count
    BY ListedFacts
<1> HIDE DEF x
<1>2. Depth(w) \in Nat /\ Depth(w) >= 1 /\ Top(w) = w.stack[Depth(w)] /\ Here(w) = Top(w).path
    BY TopFacts
<1>3. ASSUME NEW j \in 1 .. Depth(x)
      PROVE  /\ Framed(x.stack[j]) /\ x.stack[j].dir \in x.dirs
             /\ Len(x.stack[j].path) = j - 1
             /\ \A i \in 1 .. j - 1 : x.stack[j].path[i] = Here(x)[i]
             /\ j < Depth(x) => x.stack[j].listed /\ \A f \in x.stack[j].todo : Here(x)[j] < f.name
    <2>1. /\ w.stack[j].dir \in w.dirs
          /\ Len(w.stack[j].path) = j - 1
          /\ \A i \in 1 .. j - 1 : w.stack[j].path[i] = Here(w)[i]
        BY <1>1 DEF Shape, Stacked, Bounded
    <2>2. CASE j < Depth(w)
        <3>1. x.stack[j] = w.stack[j]
            BY <1>1, <1>2, <2>2
        <3> QED BY <1>1, <2>1, <2>2, <3>1 DEF Shape, Stacked, Bounded
    <2>3. CASE j = Depth(w)
        <3>1. Framed(Top(x))
            BY <1>1 DEF Framed
        <3> QED BY <1>1, <1>2, <2>1, <2>3, <3>1
    <2> QED BY <1>1, <1>2, <2>2, <2>3
<1>4. x.stack[1].dir = Root
    <2>1. CASE Depth(w) = 1
        BY <1>1, <1>2, <2>1 DEF Shape, Stacked, Bounded
    <2>2. CASE Depth(w) > 1
        BY <1>1, <1>2, <2>2 DEF Shape, Stacked, Bounded
    <2> QED BY <1>2, <2>1, <2>2
<1> QED BY <1>1, <1>3, <1>4 DEF Shape, Stacked, Bounded, x

LEMMA WentTop ==
    ASSUME DiscoveryAssumption, NEW w, Shape(w), Top(w).todo # {}, NEW x, x.stack = WentStack(w)
    PROVE  /\ Depth(x) = Depth(w) /\ x.stack # <<>>
           /\ \A j \in 1 .. Depth(w) - 1 : x.stack[j] = w.stack[j]
           /\ Top(x) = x.stack[Depth(w)] /\ Here(x) = Here(w) /\ Top(x).path = Here(w)
           /\ Top(x).dir = Top(w).dir /\ Top(x).listed /\ Top(w).listed
           /\ Top(x).todo = Top(w).todo \ {Ahead(w)}
<1> DEFINE frame == [Top(w) EXCEPT !.todo = @ \ {Ahead(w)}]
<1>1. /\ frame.path = Here(w) /\ frame.dir = Top(w).dir
      /\ frame.listed = Top(w).listed /\ frame.todo = Top(w).todo \ {Ahead(w)}
      /\ Len(WentStack(w)) = Depth(w) /\ WentStack(w)[Depth(w)] = frame
      /\ \A j \in 1 .. Depth(w) - 1 : WentStack(w)[j] = w.stack[j]
      /\ WentStack(w) \in Seq(FrameRecord)
    BY WentFrame
<1> HIDE DEF frame
<1>2. Depth(w) \in Nat /\ Depth(w) >= 1 /\ Top(w) = w.stack[Depth(w)]
    BY TopFacts
<1>3. Top(w).listed
    BY <1>2 DEF Shape, Stacked, Bounded, Framed
<1>4. Depth(x) = Depth(w) /\ Top(x) = frame /\ x.stack # <<>>
    BY <1>1, <1>2 DEF Depth, Top, Last
<1> QED BY <1>1, <1>3, <1>4 DEF Here

(* Under its last frame a walk is as another is.                           *)
Below(w, x) == \A j \in 1 .. Depth(w) - 1 : x.stack[j] = w.stack[j]

LEMMA EnteredTop ==
    ASSUME DiscoveryAssumption, NEW w, Shape(w), Top(w).todo # {}, Ahead(w).to \in Directories,
           NEW x, x.stack = Append(WentStack(w), Frame(AheadPath(w), Ahead(w).to))
    PROVE  /\ Depth(x) = Depth(w) + 1 /\ x.stack # <<>>
           /\ Below(w, x)
           /\ x.stack[Depth(w)].path = Here(w) /\ x.stack[Depth(w)].dir = Top(w).dir
           /\ x.stack[Depth(w)].listed /\ Top(w).listed
           /\ x.stack[Depth(w)].todo = Top(w).todo \ {Ahead(w)}
           /\ Top(x) = x.stack[Depth(w) + 1] /\ Here(x) = AheadPath(w)
           /\ Top(x) = Frame(AheadPath(w), Ahead(w).to)
<1> DEFINE y == [stack |-> WentStack(w)]
           frame == Frame(AheadPath(w), Ahead(w).to)
<1>1. y.stack = WentStack(w)
    OBVIOUS
<1> HIDE DEF y
<1>2. /\ Depth(y) = Depth(w) /\ y.stack # <<>>
      /\ \A j \in 1 .. Depth(w) - 1 : y.stack[j] = w.stack[j]
      /\ Top(y) = y.stack[Depth(w)] /\ Top(y).path = Here(w)
      /\ Top(y).dir = Top(w).dir /\ Top(y).listed /\ Top(w).listed
      /\ Top(y).todo = Top(w).todo \ {Ahead(w)}
    BY <1>1, WentTop
<1>3. Depth(w) \in Nat /\ Depth(w) >= 1
    BY TopFacts
<1>4. AheadPath(w) \in Path /\ WentStack(w) \in Seq(FrameRecord)
    BY WentFrame
<1>5. frame \in FrameRecord /\ frame.path = AheadPath(w)
    BY <1>4 DEF Frame, FrameRecord
<1> HIDE DEF frame
<1>6. /\ Len(x.stack) = Depth(w) + 1 /\ x.stack[Depth(w) + 1] = frame
      /\ \A j \in 1 .. Depth(w) : x.stack[j] = y.stack[j]
    BY <1>1, <1>2, <1>3, <1>4, <1>5 DEF frame, Depth
<1>7. Depth(x) = Depth(w) + 1 /\ x.stack # <<>> /\ Top(x) = frame
    BY <1>3, <1>6 DEF Depth, Top, Last
<1> QED BY <1>2, <1>3, <1>5, <1>6, <1>7 DEF Here, frame, Below

LEMMA ExaminedKeepsShape ==
    ASSUME DiscoveryAssumption, NEW w, Shape(w), ~w.stopped, Top(w).todo # {}
    PROVE  Shape(Examined(w))
<1> DEFINE x == Examined(w)
<1> SUFFICES Shape(x)
    OBVIOUS
<1>1. /\ x \in WalkRecord
      /\ Stops(w, x) \/ Skips(w, x) \/ Enters(w, x) \/ Passes(w, x) \/ Finds(w, x)
    BY EntryOutcome
<1> HIDE DEF x
<1>2. /\ Depth(w) \in Nat /\ Depth(w) >= 1 /\ Top(w) = w.stack[Depth(w)] /\ Here(w) = Top(w).path
      /\ Len(Here(w)) = Depth(w) - 1 /\ w.found \in Seq(Item)
    BY TopFacts DEF WalkRecord
<1>3. PageSize \in Nat /\ MaxDepth \in Nat /\ MaxEntries \in Nat /\ w.count \in Nat /\ Len(w.found) \in Nat
    BY <1>2, TopFacts DEF DiscoveryAssumption, WalkRecord
<1>4. Ahead(w) \in Top(w).todo /\ Unique(Top(w).todo) /\ (\A f \in Top(w).todo : f.in = Top(w).dir)
    <2>1. Framed(w.stack[Depth(w)])
        BY <1>2 DEF Shape, Stacked
    <2>2. Ahead(w) \in Top(w).todo
        BY WentFrame
    <2> QED BY <1>2, <2>1, <2>2 DEF Framed
<1>5. /\ Depth(w) \in 1 .. MaxDepth + 1 /\ w.stack[1].dir = Root
      /\ w.count <= MaxEntries /\ Len(w.found) <= PageSize
      /\ (~w.passed => w.found = <<>> /\ w.after # <<>>)
    BY DEF Shape, Stacked, Bounded
<1>6. CASE Stops(w, x)
    <2>1. x.stack = w.stack /\ w.dirs = x.dirs
        BY <1>6 DEF Stops
    <2>2. Depth(x) = Depth(w) /\ Here(x) = Here(w)
        BY <2>1 DEF Depth, Here, Top
    <2>3. Stacked(x)
        BY <2>1, <2>2 DEF Shape, Stacked
    <2>4. Bounded(x)
        BY <1>3, <1>5, <1>6 DEF Stops, Bounded
    <2> QED BY <1>1, <2>3, <2>4 DEF Shape
<1>7. ASSUME x.stack = WentStack(w), w.dirs \subseteq x.dirs
      PROVE  Stacked(x)
    <2>1. /\ Depth(x) = Depth(w)
          /\ \A j \in 1 .. Depth(w) - 1 : x.stack[j] = w.stack[j]
          /\ Top(x) = x.stack[Depth(w)] /\ Here(x) = Here(w) /\ Top(x).path = Here(w)
          /\ Top(x).dir = Top(w).dir /\ Top(x).listed /\ Top(w).listed
          /\ Top(x).todo = Top(w).todo \ {Ahead(w)}
        BY <1>7, WentTop
    <2>2. ASSUME NEW j \in 1 .. Depth(x)
          PROVE  /\ Framed(x.stack[j]) /\ x.stack[j].dir \in x.dirs
                 /\ Len(x.stack[j].path) = j - 1
                 /\ \A i \in 1 .. j - 1 : x.stack[j].path[i] = Here(x)[i]
                 /\ j < Depth(x) => x.stack[j].listed /\ \A f \in x.stack[j].todo : Here(x)[j] < f.name
        <3>1. /\ w.stack[j].dir \in w.dirs
              /\ Len(w.stack[j].path) = j - 1
              /\ \A i \in 1 .. j - 1 : w.stack[j].path[i] = Here(w)[i]
            BY <2>1 DEF Shape, Stacked, Bounded
        <3>2. CASE j < Depth(w)
            <4>1. x.stack[j] = w.stack[j]
                BY <1>2, <2>1, <3>2
            <4> QED BY <1>7, <2>1, <3>1, <3>2, <4>1 DEF Shape, Stacked, Bounded
        <3>3. CASE j = Depth(w)
            <4>1. Framed(Top(x))
                BY <1>4, <2>1 DEF Framed, Unique
            <4> QED BY <1>2, <1>7, <2>1, <3>1, <3>3, <4>1
        <3> QED BY <1>2, <2>1, <3>2, <3>3
    <2>3. x.stack[1].dir = Root
        <3>1. CASE Depth(w) = 1
            BY <1>2, <1>5, <2>1, <3>1
        <3>2. CASE Depth(w) > 1
            BY <1>2, <1>5, <2>1, <3>2
        <3> QED BY <1>2, <3>1, <3>2
    <2> QED BY <1>5, <2>1, <2>2, <2>3 DEF Stacked
<1>8. CASE Skips(w, x)
    <2>1. x.stack = WentStack(w) /\ w.dirs \subseteq x.dirs
        BY <1>8 DEF Skips
    <2>2. /\ x.count = w.count + 1 /\ w.count < MaxEntries /\ ~x.stopped /\ x.passed = w.passed
          /\ x.after = w.after /\ x.found = w.found
        BY <1>8 DEF Skips, Counts
    <2>3. x.count <= MaxEntries
        BY <1>3, <2>2
    <2>4. Bounded(x)
        BY <1>3, <1>5, <2>2, <2>3 DEF Bounded
    <2> QED BY <1>1, <1>7, <2>1, <2>4 DEF Shape
<1>9. CASE Passes(w, x)
    <2>1. x.stack = WentStack(w) /\ w.dirs \subseteq x.dirs
        BY <1>9 DEF Passes, Collecting
    <2>2. /\ x.count = w.count + 1 /\ w.count < MaxEntries /\ ~x.stopped
          /\ x.after = w.after /\ x.found = w.found /\ ~w.passed
        BY <1>9 DEF Passes, Collecting, Counts
    <2>3. x.count <= MaxEntries
        BY <1>3, <2>2
    <2>4. Bounded(x)
        BY <1>3, <1>5, <2>2, <2>3 DEF Bounded
    <2> QED BY <1>1, <1>7, <2>1, <2>4 DEF Shape
<1>10. CASE Finds(w, x)
    <2>1. x.stack = WentStack(w) /\ w.dirs \subseteq x.dirs
        BY <1>10 DEF Finds, Collecting
    <2>2. /\ x.count = w.count + 1 /\ w.count < MaxEntries /\ x.passed
          /\ x.after = w.after /\ x.stopped = (Len(w.found) >= PageSize)
        BY <1>10 DEF Finds, Collecting, Counts
    <2>3. Len(x.found) = Len(w.found) + 1
        BY <1>2, <1>10 DEF Finds
    <2>4. x.count <= MaxEntries
        BY <1>3, <2>2
    <2>5. /\ Len(x.found) <= PageSize + 1
          /\ ~x.stopped => Len(x.found) <= PageSize
          /\ x.stopped => Len(x.found) > PageSize
        <3>1. CASE Len(w.found) >= PageSize
            <4>1. x.stopped
                BY <2>2, <3>1
            <4>2. Len(x.found) <= PageSize + 1 /\ Len(x.found) > PageSize
                BY <1>3, <1>5, <2>3, <3>1
            <4> QED BY <4>1, <4>2
        <3>2. CASE Len(w.found) < PageSize
            <4>1. ~(Len(w.found) >= PageSize)
                BY <1>3, <3>2
            <4>2. ~x.stopped
                BY <2>2, <4>1
            <4>3. Len(x.found) <= PageSize + 1 /\ Len(x.found) <= PageSize
                BY <1>3, <2>3, <3>2
            <4> QED BY <4>2, <4>3
        <3> QED BY <1>3, <3>1, <3>2
    <2>6. Bounded(x)
        BY <2>2, <2>4, <2>5 DEF Bounded
    <2> QED BY <1>1, <1>7, <2>1, <2>6 DEF Shape
<1>11. CASE Enters(w, x)
    <2>1. /\ x.stack = Append(WentStack(w), Frame(AheadPath(w), Ahead(w).to))
          /\ Ahead(w).to \in Directories /\ Len(AheadPath(w)) <= MaxDepth
          /\ x.dirs = w.dirs \cup {Ahead(w).to}
        BY <1>11 DEF Enters
    <2>2. /\ Depth(x) = Depth(w) + 1
          /\ \A j \in 1 .. Depth(w) - 1 : x.stack[j] = w.stack[j]
          /\ x.stack[Depth(w)].path = Here(w) /\ x.stack[Depth(w)].dir = Top(w).dir
          /\ x.stack[Depth(w)].listed /\ Top(w).listed
          /\ x.stack[Depth(w)].todo = Top(w).todo \ {Ahead(w)}
          /\ Top(x) = x.stack[Depth(w) + 1] /\ Here(x) = AheadPath(w)
          /\ Top(x) = Frame(AheadPath(w), Ahead(w).to)
        <3>1. Depth(x) = Depth(w) + 1 /\ x.stack # <<>>
            BY <2>1, EnteredTop
        <3>2. Top(x) = x.stack[Depth(w) + 1] /\ Here(x) = AheadPath(w)
            BY <2>1, EnteredTop
        <3>3. Below(w, x)
            BY <2>1, EnteredTop
        <3>4. x.stack[Depth(w)].path = Here(w) /\ x.stack[Depth(w)].dir = Top(w).dir
            BY <2>1, EnteredTop
        <3> QED BY <2>1, EnteredTop, <3>1, <3>2, <3>3, <3>4 DEF Below
    <2>3. /\ Len(AheadPath(w)) = Depth(w) /\ AheadPath(w)[Depth(w)] = Ahead(w).name
          /\ \A i \in 1 .. Depth(w) - 1 : AheadPath(w)[i] = Here(w)[i]
          /\ \A f \in Top(w).todo : Ahead(w).name <= f.name
          /\ \A f \in Top(w).todo : f.name \in Nat
        <3>1. /\ Len(AheadPath(w)) = Depth(w) /\ AheadPath(w)[Depth(w)] = Ahead(w).name
              /\ \A i \in 1 .. Depth(w) - 1 : AheadPath(w)[i] = Here(w)[i]
              /\ \A f \in Top(w).todo : Ahead(w).name <= f.name
            BY WentFrame
        <3>2. Top(w).todo \subseteq Entries
            BY <1>2, TopFacts
        <3> QED BY <3>1, <3>2 DEF DiscoveryAssumption
    <2>4. /\ x.count = w.count + 1 /\ w.count < MaxEntries /\ ~x.stopped /\ x.passed = w.passed
          /\ x.after = w.after /\ x.found = w.found
        BY <1>11 DEF Enters, Counts
    <2>5. x.count <= MaxEntries /\ Depth(x) \in 1 .. MaxDepth + 1
        BY <1>2, <1>3, <2>1, <2>2, <2>3, <2>4
    <2>6. ASSUME NEW j \in 1 .. Depth(x)
          PROVE  /\ Framed(x.stack[j]) /\ x.stack[j].dir \in x.dirs
                 /\ Len(x.stack[j].path) = j - 1
                 /\ \A i \in 1 .. j - 1 : x.stack[j].path[i] = Here(x)[i]
                 /\ j < Depth(x) => x.stack[j].listed /\ \A f \in x.stack[j].todo : Here(x)[j] < f.name
        <3>1. CASE j < Depth(w)
            <4>1. x.stack[j] = w.stack[j] /\ j \in 1 .. Depth(w) /\ Here(x)[j] = Here(w)[j]
                  /\ \A i \in 1 .. j - 1 : Here(x)[i] = Here(w)[i]
                BY <1>2, <2>2, <2>3, <3>1
            <4>2. /\ Framed(w.stack[j]) /\ w.stack[j].dir \in w.dirs
                  /\ Len(w.stack[j].path) = j - 1
                  /\ \A i \in 1 .. j - 1 : w.stack[j].path[i] = Here(w)[i]
                  /\ w.stack[j].listed /\ \A f \in w.stack[j].todo : Here(w)[j] < f.name
                BY <3>1, <4>1 DEF Shape, Stacked, Bounded
            <4> QED BY <2>1, <4>1, <4>2
        <3>2. CASE j = Depth(w)
            <4>1. Framed(x.stack[j])
                BY <1>4, <2>2, <3>2 DEF Framed, Unique
            <4>2. x.stack[j].dir \in x.dirs
                <5>1. w.stack[Depth(w)].dir \in w.dirs
                    BY <1>2 DEF Shape, Stacked
                <5> QED BY <1>2, <2>1, <2>2, <3>2, <5>1
            <4>3. \A f \in x.stack[j].todo : Here(x)[j] < f.name
                <5> SUFFICES ASSUME NEW f \in Top(w).todo, f # Ahead(w)
                             PROVE  Ahead(w).name < f.name
                    BY <2>2, <2>3, <3>2
                <5>1. f.name # Ahead(w).name
                    BY <1>4 DEF Unique
                <5> QED BY <1>4, <2>3, <5>1
            <4> QED BY <1>2, <2>2, <2>3, <3>2, <4>1, <4>2, <4>3
        <3>3. CASE j = Depth(w) + 1
            <4>1. /\ x.stack[j].path = AheadPath(w) /\ x.stack[j].dir = Ahead(w).to
                  /\ x.stack[j].todo = {}
                <5>1. x.stack[j] = Frame(AheadPath(w), Ahead(w).to)
                    BY <2>2, <3>3
                <5> QED BY <5>1 DEF Frame
            <4>2. Framed(x.stack[j])
                BY <4>1 DEF Framed, Unique
            <4> QED BY <1>2, <2>1, <2>2, <2>3, <3>3, <4>1, <4>2
        <3> QED BY <1>2, <2>2, <3>1, <3>2, <3>3
    <2>7. x.stack[1].dir = Root
        <3>1. CASE Depth(w) = 1
            BY <1>2, <1>5, <2>2, <3>1
        <3>2. CASE Depth(w) > 1
            BY <1>2, <1>5, <2>2, <3>2
        <3> QED BY <1>2, <3>1, <3>2
    <2>8. Stacked(x)
        BY <2>5, <2>6, <2>7 DEF Stacked
    <2>9. Bounded(x)
        BY <1>3, <1>5, <2>4, <2>5 DEF Bounded
    <2> QED BY <1>1, <2>8, <2>9 DEF Shape
<1> QED BY <1>1, <1>6, <1>8, <1>9, <1>10, <1>11 DEF x

-----------------------------------------------------------------------------
(* The order of the walk.  What has been found lies behind, and behind lies *)
(* before all that is to come.                                             *)

Behind(w, p) ==
    /\ p \in Path
    /\ \E i \in 1 .. Depth(w) :
          /\ i <= Len(p) /\ \A j \in 1 .. i - 1 : p[j] = Here(w)[j]
          /\ i < Depth(w) => p[i] < Here(w)[i]
          /\ i = Depth(w) => Top(w).listed /\ \A f \in Top(w).todo : p[i] < f.name

Ordered(w) ==
    /\ \A k \in 1 .. Len(w.found) : Behind(w, w.found[k].path)
    /\ w.passed /\ w.after # <<>> => Behind(w, w.after)
    /\ \A k \in 1 .. Len(w.found) - 1 : Before(w.found[k].path, w.found[k + 1].path)
    /\ w.found # <<>> /\ w.after # <<>> => Before(w.after, w.found[1].path)

LEMMA BehindLeft ==
    ASSUME DiscoveryAssumption, NEW w, Shape(w), NEW x, Depth(w) > 1, Depth(x) = Depth(w) - 1,
           x.stack \in Seq(FrameRecord), \A j \in 1 .. Depth(x) : x.stack[j] = w.stack[j],
           NEW p, Behind(w, p)
    PROVE  Behind(x, p)
<1>1. /\ Top(x) = w.stack[Depth(x)] /\ Here(x) = w.stack[Depth(x)].path
      /\ \A j \in 1 .. Depth(x) - 1 : Here(x)[j] = Here(w)[j]
    BY LeftTop
<1>2. Depth(w) \in Nat /\ Depth(x) \in 1 .. Depth(w) /\ Depth(x) < Depth(w)
    BY TopFacts
<1>3. /\ Top(x).listed
      /\ \A f \in Top(x).todo : Here(w)[Depth(x)] < f.name
    BY <1>1, <1>2 DEF Shape, Stacked
<1>4. \A f \in Top(x).todo : f.name \in Nat
    BY <1>1, <1>2, TopFacts DEF DiscoveryAssumption
<1>5. Here(w)[Depth(x)] \in Nat
    BY <1>2, TopFacts
<1>6. PICK i \in 1 .. Depth(w) :
          /\ i <= Len(p) /\ \A j \in 1 .. i - 1 : p[j] = Here(w)[j]
          /\ i < Depth(w) => p[i] < Here(w)[i]
          /\ i = Depth(w) => Top(w).listed /\ \A f \in Top(w).todo : p[i] < f.name
    BY DEF Behind
<1>7. p \in Path /\ Len(p) \in Nat
    BY DEF Behind, Path
<1>8. CASE i < Depth(x)
    BY <1>1, <1>2, <1>6, <1>7, <1>8 DEF Behind
<1>9. CASE i >= Depth(x)
    <2> DEFINE k == Depth(x)
    <2>1. k \in 1 .. Depth(x) /\ k <= Len(p)
        BY <1>2, <1>6, <1>7, <1>9
    <2>2. \A j \in 1 .. k - 1 : p[j] = Here(x)[j]
        BY <1>1, <1>2, <1>6, <1>9
    <2>3. p[k] <= Here(w)[k] /\ p[k] \in Nat
        <3>1. p[k] \in Nat
            BY <1>7, <2>1 DEF Path
        <3>2. CASE i = k
            BY <1>2, <1>5, <1>6, <3>1, <3>2
        <3>3. CASE i > k
            BY <1>2, <1>5, <1>6, <3>1, <3>3
        <3> QED BY <1>2, <1>9, <3>1, <3>2, <3>3
    <2>4. \A f \in Top(x).todo : p[k] < f.name
        BY <1>3, <1>4, <1>5, <2>3
    <2> QED BY <1>3, <1>7, <2>1, <2>2, <2>4 DEF Behind
<1> QED BY <1>2, <1>8, <1>9

LEMMA BehindWent ==
    ASSUME DiscoveryAssumption, NEW w, Shape(w), Top(w).todo # {}, NEW x, x.stack = WentStack(w),
           NEW p, Behind(w, p)
    PROVE  Behind(x, p)
<1>1. /\ Depth(x) = Depth(w) /\ Here(x) = Here(w) /\ Top(x).listed
      /\ Top(x).todo \subseteq Top(w).todo
    BY WentTop
<1> QED BY <1>1 DEF Behind

LEMMA BehindListed ==
    ASSUME DiscoveryAssumption, NEW w, Shape(w), ~Top(w).listed, NEW entries \in SUBSET Entries,
           NEW p, Behind(w, p)
    PROVE  Behind(Listed(w, entries), p)
<1> DEFINE x == Listed(w, entries)
<1>1. Depth(x) = Depth(w) /\ Here(x) = Here(w)
    BY ListedFacts
<1> HIDE DEF x
<1>2. Behind(x, p)
    BY <1>1 DEF Behind
<1> QED BY <1>2 DEF x

LEMMA BehindAhead ==
    ASSUME DiscoveryAssumption, NEW w, Shape(w), Top(w).todo # {}, NEW p, Behind(w, p)
    PROVE  Before(p, AheadPath(w))
<1> DEFINE q == AheadPath(w)
<1>1. /\ q \in Path /\ Len(q) = Depth(w) /\ q[Depth(w)] = Ahead(w).name
      /\ \A i \in 1 .. Depth(w) - 1 : q[i] = Here(w)[i]
      /\ Ahead(w) \in Top(w).todo
    BY WentFrame
<1> HIDE DEF q
<1>2. Depth(w) \in Nat
    BY TopFacts
<1>3. PICK i \in 1 .. Depth(w) :
          /\ i <= Len(p) /\ \A j \in 1 .. i - 1 : p[j] = Here(w)[j]
          /\ i < Depth(w) => p[i] < Here(w)[i]
          /\ i = Depth(w) => Top(w).listed /\ \A f \in Top(w).todo : p[i] < f.name
    BY DEF Behind
<1>4. p \in Path /\ Len(p) \in Nat /\ DOMAIN p = 1 .. Len(p) /\ DOMAIN q = 1 .. Depth(w)
    BY <1>1 DEF Behind, Path
<1>5. \A j \in 1 .. i - 1 : j \in DOMAIN p /\ p[j] = q[j]
    BY <1>1, <1>2, <1>3, <1>4
<1>6. p[i] < q[i]
    <2>1. CASE i < Depth(w)
        BY <1>1, <1>2, <1>3, <2>1
    <2>2. CASE i = Depth(w)
        BY <1>1, <1>3, <2>2
    <2> QED BY <1>2, <2>1, <2>2
<1>7. Before(p, q)
    BY <1>4, <1>5, <1>6 DEF Before
<1> QED BY <1>7 DEF q

LEMMA AheadIsBehind ==
    ASSUME DiscoveryAssumption, NEW w, Shape(w), Top(w).todo # {}, NEW x, x.stack = WentStack(w)
    PROVE  Behind(x, AheadPath(w))
<1> DEFINE q == AheadPath(w)
<1>1. /\ q \in Path /\ Len(q) = Depth(w) /\ q[Depth(w)] = Ahead(w).name
      /\ \A i \in 1 .. Depth(w) - 1 : q[i] = Here(w)[i]
      /\ Ahead(w) \in Top(w).todo /\ \A f \in Top(w).todo : Ahead(w).name <= f.name
    BY WentFrame
<1> HIDE DEF q
<1>2. /\ Depth(x) = Depth(w) /\ Here(x) = Here(w) /\ Top(x).listed
      /\ Top(x).todo = Top(w).todo \ {Ahead(w)}
    BY WentTop
<1>3. Depth(w) \in Nat /\ Depth(w) >= 1 /\ Top(w).todo \subseteq Entries /\ Top(w) = w.stack[Depth(w)]
    BY TopFacts
<1>4. Unique(Top(w).todo) /\ \A f \in Top(w).todo : f.in = Top(w).dir
    <2>1. Framed(w.stack[Depth(w)])
        BY <1>3 DEF Shape, Stacked
    <2> QED BY <1>3, <2>1 DEF Framed
<1>5. ASSUME NEW f \in Top(x).todo
      PROVE  q[Depth(w)] < f.name
    <2>1. f \in Top(w).todo /\ f # Ahead(w)
        BY <1>2
    <2>2. f.name # Ahead(w).name
        BY <1>1, <1>4, <2>1 DEF Unique
    <2>3. f.name \in Nat /\ Ahead(w).name \in Nat
        BY <1>1, <1>3, <2>1 DEF DiscoveryAssumption
    <2> QED BY <1>1, <2>1, <2>2, <2>3
<1>6. Behind(x, q)
    BY <1>1, <1>2, <1>3, <1>5 DEF Behind
<1> QED BY <1>6 DEF q

LEMMA BehindEntered ==
    ASSUME DiscoveryAssumption, NEW w, Shape(w), Top(w).todo # {}, Ahead(w).to \in Directories,
           NEW x, x.stack = Append(WentStack(w), Frame(AheadPath(w), Ahead(w).to)),
           NEW p, Behind(w, p)
    PROVE  Behind(x, p)
<1>1. Depth(x) = Depth(w) + 1 /\ Here(x) = AheadPath(w)
    BY EnteredTop
<1>2. /\ AheadPath(w)[Depth(w)] = Ahead(w).name /\ Ahead(w) \in Top(w).todo
      /\ \A i \in 1 .. Depth(w) - 1 : AheadPath(w)[i] = Here(w)[i]
    BY WentFrame
<1>3. Depth(w) \in Nat
    BY TopFacts
<1>4. PICK i \in 1 .. Depth(w) :
          /\ i <= Len(p) /\ \A j \in 1 .. i - 1 : p[j] = Here(w)[j]
          /\ i < Depth(w) => p[i] < Here(w)[i]
          /\ i = Depth(w) => Top(w).listed /\ \A f \in Top(w).todo : p[i] < f.name
    BY DEF Behind
<1>5. p[i] < Here(x)[i]
    <2>1. CASE i < Depth(w)
        BY <1>1, <1>2, <1>3, <1>4, <2>1
    <2>2. CASE i = Depth(w)
        BY <1>1, <1>2, <1>4, <2>2
    <2> QED BY <1>3, <2>1, <2>2
<1>6. i \in 1 .. Depth(x) /\ i < Depth(x)
    BY <1>1, <1>3
<1>7. \A j \in 1 .. i - 1 : p[j] = Here(x)[j]
    BY <1>1, <1>2, <1>3, <1>4
<1> QED BY <1>4, <1>5, <1>6, <1>7 DEF Behind

LEMMA LeftKeepsOrder ==
    ASSUME DiscoveryAssumption, NEW w, Shape(w), Ordered(w), Depth(w) > 1
    PROVE  Ordered(Left(w)) /\ Ordered(Omits(Left(w)))
<1> DEFINE x == Left(w)
<1>1. /\ x \in WalkRecord /\ Depth(x) = Depth(w) - 1
      /\ \A j \in 1 .. Depth(x) : x.stack[j] = w.stack[j]
      /\ x.after = w.after /\ x.passed = w.passed /\ x.found = w.found
    BY LeftFacts
<1> HIDE DEF x
<1>2. x.stack \in Seq(FrameRecord)
    BY <1>1 DEF WalkRecord
<1>3. \A p : Behind(w, p) => Behind(x, p)
    BY <1>1, <1>2, BehindLeft
<1>4. Ordered(x)
    BY <1>1, <1>3 DEF Ordered
<1>5. /\ Omits(x).stack = x.stack /\ Omits(x).after = x.after /\ Omits(x).passed = x.passed
      /\ Omits(x).found = x.found
    BY <1>1 DEF Omits, WalkRecord
<1>6. \A p : Behind(x, p) => Behind(Omits(x), p)
    BY <1>5 DEF Behind, Depth, Here, Top
<1>7. Ordered(Omits(x))
    BY <1>4, <1>5, <1>6 DEF Ordered
<1> QED BY <1>4, <1>7 DEF x

LEMMA ListedKeepsOrder ==
    ASSUME DiscoveryAssumption, NEW w, Shape(w), Ordered(w), ~Top(w).listed,
           NEW entries \in SUBSET Entries
    PROVE  Ordered(Listed(w, entries))
<1> DEFINE x == Listed(w, entries)
<1>1. x.after = w.after /\ x.passed = w.passed /\ x.found = w.found
    BY ListedFacts
<1>2. \A p : Behind(w, p) => Behind(x, p)
    BY BehindListed
<1> HIDE DEF x
<1>3. Ordered(x)
    BY <1>1, <1>2 DEF Ordered
<1> QED BY <1>3 DEF x

LEMMA WalkIsOrdered ==
    ASSUME NEW after \in Path
    PROVE  Ordered(Walk(after))
<1> DEFINE w == Walk(after)
<1>1. w.found = <<>> /\ w.after = after /\ (w.passed <=> after = <<>>)
    BY DEF Walk
<1> HIDE DEF w
<1>2. Len(w.found) = 0
    BY <1>1
<1>3. Ordered(w)
    BY <1>1, <1>2 DEF Ordered
<1> QED BY <1>3 DEF w

LEMMA ExaminedKeepsOrder ==
    ASSUME DiscoveryAssumption, NEW w, Shape(w), Ordered(w), ~w.stopped, Top(w).todo # {}
    PROVE  Ordered(Examined(w))
<1> DEFINE x == Examined(w)
<1> SUFFICES Ordered(x)
    OBVIOUS
<1>1. /\ x \in WalkRecord
      /\ Stops(w, x) \/ Skips(w, x) \/ Enters(w, x) \/ Passes(w, x) \/ Finds(w, x)
    BY EntryOutcome
<1> HIDE DEF x
<1>2. CASE Stops(w, x)
    <2>1. x.stack = w.stack /\ x.after = w.after /\ x.passed = w.passed /\ x.found = w.found
        BY <1>2 DEF Stops
    <2>2. \A p : Behind(w, p) => Behind(x, p)
        BY <2>1 DEF Behind, Depth, Here, Top
    <2> QED BY <2>1, <2>2 DEF Ordered
<1>3. CASE Skips(w, x)
    <2>1. x.stack = WentStack(w) /\ x.after = w.after /\ x.passed = w.passed /\ x.found = w.found
        BY <1>3 DEF Skips, Counts
    <2>2. \A p : Behind(w, p) => Behind(x, p)
        BY <2>1, BehindWent
    <2> QED BY <2>1, <2>2 DEF Ordered
<1>4. CASE Enters(w, x)
    <2>1. /\ x.stack = Append(WentStack(w), Frame(AheadPath(w), Ahead(w).to))
          /\ x.after = w.after /\ x.passed = w.passed /\ x.found = w.found
          /\ Ahead(w).to \in Directories
        BY <1>4 DEF Enters, Counts
    <2>2. \A p : Behind(w, p) => Behind(x, p)
        BY <2>1, BehindEntered
    <2> QED BY <2>1, <2>2 DEF Ordered
<1>5. CASE Passes(w, x)
    <2>1. /\ x.stack = WentStack(w) /\ x.after = w.after /\ ~w.passed /\ x.found = w.found
          /\ x.passed = (AheadPath(w) = w.after)
        BY <1>5 DEF Passes, Collecting, Counts
    <2>2. w.found = <<>>
        BY <2>1 DEF Shape, Bounded
    <2>3. Behind(x, AheadPath(w))
        BY <2>1, AheadIsBehind
    <2>4. x.passed => Behind(x, x.after)
        BY <2>1, <2>3
    <2>5. Len(x.found) = 0
        BY <2>1, <2>2
    <2> QED BY <2>1, <2>2, <2>4, <2>5 DEF Ordered
<1>6. CASE Finds(w, x)
    <2> DEFINE n == Len(w.found)  item == [path |-> AheadPath(w), to |-> Ahead(w).to]
    <2>1. /\ x.stack = WentStack(w) /\ x.after = w.after /\ w.passed
          /\ x.found = Append(w.found, item) /\ item.path = AheadPath(w)
        BY <1>6 DEF Finds, Collecting, Counts
    <2>2. w.found \in Seq(Item) /\ n \in Nat
        BY TopFacts DEF WalkRecord
    <2> HIDE DEF item
    <2>3. /\ Len(x.found) = n + 1 /\ x.found[n + 1].path = AheadPath(w)
          /\ \A k \in 1 .. n : x.found[k] = w.found[k]
        BY <2>1, <2>2
    <2>4. \A p : Behind(w, p) => Behind(x, p) /\ Before(p, AheadPath(w))
        BY <2>1, BehindWent, BehindAhead
    <2>5. Behind(x, AheadPath(w))
        BY <2>1, AheadIsBehind
    <2>6. ASSUME NEW k \in 1 .. Len(x.found) PROVE Behind(x, x.found[k].path)
        <3>1. CASE k = n + 1
            BY <2>3, <2>5, <3>1
        <3>2. CASE k \in 1 .. n
            BY <2>3, <2>4, <3>2 DEF Ordered
        <3> QED BY <2>2, <2>3, <3>1, <3>2
    <2>7. ASSUME NEW k \in 1 .. Len(x.found) - 1
          PROVE  Before(x.found[k].path, x.found[k + 1].path)
        <3>1. CASE k = n
            <4>1. k \in 1 .. n /\ x.found[k] = w.found[k] /\ x.found[k + 1].path = AheadPath(w)
                BY <2>2, <2>3, <3>1
            <4>2. Behind(w, w.found[k].path)
                BY <4>1 DEF Ordered
            <4> QED BY <2>4, <4>1, <4>2
        <3>2. CASE k # n
            <4>1. k \in 1 .. n - 1 /\ x.found[k] = w.found[k] /\ x.found[k + 1] = w.found[k + 1]
                BY <2>2, <2>3, <3>2
            <4> QED BY <4>1 DEF Ordered
        <3> QED BY <3>1, <3>2
    <2>8. x.after # <<>> => Behind(w, w.after) /\ Behind(x, x.after)
        BY <2>1, <2>4 DEF Ordered
    <2>9. x.after # <<>> => Before(x.after, x.found[1].path)
        <3>1. CASE n = 0
            BY <2>1, <2>3, <2>4, <2>8, <3>1
        <3>2. CASE n # 0
            <4>1. x.found[1] = w.found[1] /\ w.found # <<>>
                BY <2>2, <2>3, <3>2
            <4> QED BY <2>1, <4>1 DEF Ordered
        <3> QED BY <3>1, <3>2
    <2> QED BY <2>6, <2>7, <2>8, <2>9 DEF Ordered
<1> QED BY <1>1, <1>2, <1>3, <1>4, <1>5, <1>6

-----------------------------------------------------------------------------
(* What a walk knows.  While it leaves nothing out, the directories it is  *)
(* through with hold nothing that it has not seen, and what it has seen is *)
(* on a way that it came.  "seen" has for each level what was seen when    *)
(* its current entry was entered, "way" the way to each of them; "there"   *)
(* are the entries that have been there all along, "used" those that the   *)
(* listings may have had.                                                  *)

Nodes == Directories \cup Notebooks

Leads(route, x) ==
    /\ route \in Seq(Walkable)
    /\ route = <<>> => x = Root
    /\ route # <<>> =>
          /\ route[1].in = Root /\ route[Len(route)].to = x
          /\ \A i \in 1 .. Len(route) - 1 : route[i + 1].in = route[i].to

Levels(w, seen) ==
    /\ seen \in [1 .. Depth(w) -> SUBSET Nodes]
    /\ seen[Depth(w)] = w.dirs \cup w.files
    /\ \A j \in 1 .. Depth(w) : \A i \in 1 .. j :
          w.stack[i].dir \in seen[j] /\ seen[i] \subseteq seen[j]

Knows(w, seen, there) ==
    \A e \in there \cap Walkable :
        /\ \A j \in 1 .. Depth(w) :
              e.in \in seen[j] /\ (\A i \in 1 .. j : e.in # w.stack[i].dir) => e.to \in seen[j]
        /\ \A i \in 1 .. Depth(w) :
              e.in = w.stack[i].dir /\ w.stack[i].listed /\ e \notin w.stack[i].todo =>
                  /\ i < Depth(w) => \/ e.name < Here(w)[i] /\ e.to \in seen[i]
                                     \/ e.name = Here(w)[i] /\ e.to = w.stack[i + 1].dir
                  /\ i = Depth(w) => e.to \in seen[i] /\ \A f \in Top(w).todo : e.name < f.name

(* The entry e, to x, of the i-th directory has been gone through.         *)
Beyond(w, i, e, x) ==
    /\ i < Depth(w) => e.name < Here(w)[i] \/ (e.name = Here(w)[i] /\ x = w.stack[i + 1].dir)
    /\ i = Depth(w) => Top(w).listed /\ \A f \in Top(w).todo : e.name < f.name

Arrived(way, x) ==
    /\ Leads(way[x], x)
    /\ Len(way[x]) <= IF x \in Directories THEN MaxDepth ELSE MaxDepth + 1

Came(w, seen, way, used) ==
    /\ way \in [Nodes -> Seq(Entries)]
    /\ \A i \in 1 .. Depth(w) :
          Len(way[w.stack[i].dir]) = i - 1 /\ w.stack[i].todo \subseteq used
    /\ \A x \in seen[Depth(w)] :
          /\ Arrived(way, x)
          /\ \/ x = Root /\ way[x] = <<>>
             \/ \E e \in used \cap Walkable :
                   /\ e.to = x /\ e.in \in seen[Depth(w)] /\ way[x] = Append(way[e.in], e)
                   /\ \A i \in 1 .. Depth(w) : e.in = w.stack[i].dir => Beyond(w, i, e, x)

Sound(w, there, used) ==
    \E seen, way : Levels(w, seen) /\ Knows(w, seen, there) /\ Came(w, seen, way, used)

LEMMA SoundLater ==
    ASSUME NEW w, NEW there, NEW used, Sound(w, there, used),
           NEW there2 \in SUBSET there, NEW used2, used \subseteq used2
    PROVE  Sound(w, there2, used2)
<1>1. PICK seen, way : Levels(w, seen) /\ Knows(w, seen, there) /\ Came(w, seen, way, used)
    BY DEF Sound
<1>2. Knows(w, seen, there2)
    BY <1>1 DEF Knows
<1>3. Came(w, seen, way, used2)
    BY <1>1 DEF Came
<1> QED BY <1>1, <1>2, <1>3 DEF Sound

LEMMA WalkIsSound ==
    ASSUME DiscoveryAssumption, NEW after \in Path, NEW there, NEW used
    PROVE  Sound(Walk(after), there, used)
<1> DEFINE w == Walk(after)  seen == [j \in 1 .. 1 |-> {Root}]  way == [x \in Nodes |-> <<>>]
<1>1. /\ Depth(w) = 1 /\ w.stack[1].dir = Root /\ w.stack[1].listed = FALSE
      /\ w.stack[1].todo = {} /\ w.dirs = {Root} /\ w.files = {}
    BY DEF Walk, Frame, Depth
<1> HIDE DEF w
<1>2. Root \in Nodes /\ Root \in Directories /\ MaxDepth \in Nat
    BY DEF Nodes, DiscoveryAssumption
<1>3. Levels(w, seen)
    BY <1>1, <1>2 DEF Levels
<1>4. Knows(w, seen, there)
    BY <1>1 DEF Knows
<1>5. way \in [Nodes -> Seq(Entries)] /\ way[Root] = <<>> /\ Len(way[Root]) = 0
    BY <1>2
<1>6. Leads(way[Root], Root) /\ Arrived(way, Root)
    BY <1>2, <1>5 DEF Leads, Arrived
<1>7. Came(w, seen, way, used)
    BY <1>1, <1>5, <1>6 DEF Came
<1> QED BY <1>3, <1>4, <1>7 DEF Sound, w

(* One more entry on a way. *)
LEMMA WayFurther ==
    ASSUME DiscoveryAssumption, NEW route, NEW y, Leads(route, y), NEW e \in Walkable, e.in = y
    PROVE  Leads(Append(route, e), e.to) /\ Len(Append(route, e)) = Len(route) + 1
<1>1. route \in Seq(Walkable) /\ Len(route) \in Nat
    BY DEF Leads
<1> DEFINE r == Append(route, e)
<1>2. /\ r \in Seq(Walkable) /\ Len(r) = Len(route) + 1 /\ r[Len(r)] = e /\ r # <<>>
      /\ \A i \in 1 .. Len(route) : r[i] = route[i]
    BY <1>1
<1> HIDE DEF r
<1>3. CASE route = <<>>
    <2>1. Len(r) = 1 /\ y = Root
        BY <1>2, <1>3 DEF Leads
    <2> QED BY <1>2, <2>1 DEF Leads, r
<1>4. CASE route # <<>>
    <2>1. Len(route) >= 1 /\ route[1].in = Root /\ route[Len(route)].to = y
          /\ \A i \in 1 .. Len(route) - 1 : route[i + 1].in = route[i].to
        BY <1>1, <1>4 DEF Leads
    <2>2. r[1] = route[1]
        BY <1>1, <1>2, <2>1
    <2>3. ASSUME NEW i \in 1 .. Len(r) - 1 PROVE r[i + 1].in = r[i].to
        <3>1. CASE i = Len(route)
            BY <1>1, <1>2, <2>1, <3>1
        <3>2. CASE i < Len(route)
            BY <1>1, <1>2, <2>1, <3>2
        <3> QED BY <1>1, <1>2, <3>1, <3>2
    <2>4. Leads(r, e.to)
        BY <1>2, <2>1, <2>2, <2>3 DEF Leads
    <2> QED BY <1>2, <2>4 DEF r
<1> QED BY <1>3, <1>4

LEMMA ListedKeepsSound ==
    ASSUME DiscoveryAssumption, NEW w, Shape(w), ~Top(w).listed, NEW there, NEW used,
           Sound(w, there, used), NEW entries \in SUBSET Entries, entries \subseteq used,
           \A e \in there : e.in = Top(w).dir => e \in entries
    PROVE  Sound(Listed(w, entries), there, used)
<1> DEFINE x == Listed(w, entries)
<1>1. /\ Depth(x) = Depth(w)
      /\ \A j \in 1 .. Depth(w) - 1 : x.stack[j] = w.stack[j]
      /\ Top(x) = x.stack[Depth(w)] /\ Top(x).dir = Top(w).dir
      /\ Top(x).listed /\ Top(x).todo = entries /\ Here(x) = Here(w)
      /\ x.dirs = w.dirs /\ x.files = w.files
    BY ListedFacts
<1> HIDE DEF x
<1>2. PICK seen, way : Levels(w, seen) /\ Knows(w, seen, there) /\ Came(w, seen, way, used)
    BY DEF Sound
<1>3. Depth(w) \in Nat /\ Depth(w) >= 1 /\ Top(w) = w.stack[Depth(w)]
    BY TopFacts
<1>4. \A i \in 1 .. Depth(w) : x.stack[i].dir = w.stack[i].dir
    BY <1>1, <1>3
<1>5. Levels(x, seen)
    <2>1. \A j \in 1 .. Depth(w) : \A i \in 1 .. j : i \in 1 .. Depth(w)
        BY <1>3
    <2> QED BY <1>1, <1>2, <1>4, <2>1 DEF Levels
<1>6. Knows(x, seen, there)
    <2> SUFFICES ASSUME NEW e \in there \cap Walkable
                 PROVE  /\ \A j \in 1 .. Depth(x) :
                              e.in \in seen[j] /\ (\A i \in 1 .. j : e.in # x.stack[i].dir) => e.to \in seen[j]
                        /\ \A i \in 1 .. Depth(x) :
                              e.in = x.stack[i].dir /\ x.stack[i].listed /\ e \notin x.stack[i].todo =>
                                  /\ i < Depth(x) => \/ e.name < Here(x)[i] /\ e.to \in seen[i]
                                                     \/ e.name = Here(x)[i] /\ e.to = x.stack[i + 1].dir
                                  /\ i = Depth(x) => e.to \in seen[i] /\ \A f \in Top(x).todo : e.name < f.name
        BY DEF Knows
    <2>1. \A j \in 1 .. Depth(x) :
              e.in \in seen[j] /\ (\A i \in 1 .. j : e.in # x.stack[i].dir) => e.to \in seen[j]
        BY <1>1, <1>2, <1>3, <1>4 DEF Knows
    <2>2. ASSUME NEW i \in 1 .. Depth(x), e.in = x.stack[i].dir, x.stack[i].listed,
                 e \notin x.stack[i].todo
          PROVE  /\ i < Depth(x)
                 /\ \/ e.name < Here(x)[i] /\ e.to \in seen[i]
                    \/ e.name = Here(x)[i] /\ e.to = x.stack[i + 1].dir
        <3>1. i # Depth(w)
            BY <1>1, <2>2
        <3>2. i \in 1 .. Depth(w) - 1 /\ x.stack[i] = w.stack[i] /\ i + 1 \in 1 .. Depth(w)
            BY <1>1, <1>3, <3>1
        <3>3. \/ e.name < Here(w)[i] /\ e.to \in seen[i]
              \/ e.name = Here(w)[i] /\ e.to = w.stack[i + 1].dir
            BY <1>2, <1>3, <2>2, <3>2 DEF Knows
        <3> QED BY <1>1, <1>3, <1>4, <3>2, <3>3
    <2> QED BY <2>1, <2>2
<1>7. Came(x, seen, way, used)
    <2>1. \A i \in 1 .. Depth(x) : Len(way[x.stack[i].dir]) = i - 1 /\ x.stack[i].todo \subseteq used
        <3> SUFFICES ASSUME NEW i \in 1 .. Depth(w)
                     PROVE  Len(way[x.stack[i].dir]) = i - 1 /\ x.stack[i].todo \subseteq used
            BY <1>1
        <3>1. Len(way[w.stack[i].dir]) = i - 1 /\ w.stack[i].todo \subseteq used
            BY <1>2 DEF Came
        <3>2. x.stack[i].todo = IF i = Depth(w) THEN entries ELSE w.stack[i].todo
            BY <1>1, <1>3
        <3> QED BY <1>4, <3>1, <3>2
    <2>2. ASSUME NEW e, NEW y, NEW i \in 1 .. Depth(x), e.in = x.stack[i].dir,
                 e.in = w.stack[i].dir => Beyond(w, i, e, y)
          PROVE  Beyond(x, i, e, y)
        <3>1. i # Depth(w) /\ i \in 1 .. Depth(w)
            BY <1>1, <1>4, <2>2 DEF Beyond
        <3>2. Here(x)[i] = Here(w)[i] /\ x.stack[i + 1].dir = w.stack[i + 1].dir
            BY <1>1, <1>3, <1>4, <3>1
        <3> QED BY <1>1, <1>4, <2>2, <3>1, <3>2 DEF Beyond
    <2>3. ASSUME NEW y \in seen[Depth(x)]
          PROVE  /\ Arrived(way, y)
                 /\ \/ y = Root /\ way[y] = <<>>
                    \/ \E e \in used \cap Walkable :
                          /\ e.to = y /\ e.in \in seen[Depth(x)] /\ way[y] = Append(way[e.in], e)
                          /\ \A i \in 1 .. Depth(x) : e.in = x.stack[i].dir => Beyond(x, i, e, y)
        <3>1. /\ Arrived(way, y)
              /\ \/ y = Root /\ way[y] = <<>>
                 \/ \E e \in used \cap Walkable :
                       /\ e.to = y /\ e.in \in seen[Depth(w)] /\ way[y] = Append(way[e.in], e)
                       /\ \A i \in 1 .. Depth(w) : e.in = w.stack[i].dir => Beyond(w, i, e, y)
            BY <1>1, <1>2 DEF Came
        <3> QED BY <1>1, <2>2, <3>1
    <2> QED BY <1>2, <2>1, <2>3 DEF Came
<1> QED BY <1>5, <1>6, <1>7 DEF Sound, x

(* The entries of the last directory that are to come, and the one ahead.  *)
LEMMA AheadFacts ==
    ASSUME DiscoveryAssumption, NEW w, Shape(w), Top(w).todo # {}
    PROVE  /\ Ahead(w) \in Top(w).todo /\ Ahead(w) \in Entries /\ Ahead(w).name \in Nat
           /\ Ahead(w).in = Top(w).dir
           /\ \A f \in Top(w).todo : f \in Entries /\ f.name \in Nat /\ f.in = Top(w).dir
           /\ \A f \in Top(w).todo : f # Ahead(w) => Ahead(w).name < f.name
<1>1. /\ Ahead(w) \in Top(w).todo /\ Ahead(w) \in Entries /\ Ahead(w).name \in Nat
      /\ Ahead(w).in = Top(w).dir /\ \A f \in Top(w).todo : Ahead(w).name <= f.name
    BY WentFrame
<1>2. Depth(w) \in 1 .. Depth(w) /\ Top(w) = w.stack[Depth(w)] /\ Top(w).todo \subseteq Entries
    BY TopFacts
<1>3. Framed(w.stack[Depth(w)])
    BY <1>2 DEF Shape, Stacked
<1>4. \A f \in Top(w).todo : f \in Entries /\ f.name \in Nat /\ f.in = Top(w).dir
    BY <1>2, <1>3 DEF Framed, DiscoveryAssumption
<1>5. \A f \in Top(w).todo : f.name = Ahead(w).name => f = Ahead(w)
    BY <1>1, <1>2, <1>3, <1>4 DEF Framed, Unique
<1>6. ASSUME NEW f \in Top(w).todo, f # Ahead(w) PROVE Ahead(w).name < f.name
    <2>1. f.name # Ahead(w).name /\ f.name \in Nat
        BY <1>4, <1>5, <1>6
    <2> QED BY <1>1, <2>1
<1> QED BY <1>1, <1>4, <1>6

(* Something new that the entry ahead leads to has a way of its own.       *)
LEMMA Newcomer ==
    ASSUME DiscoveryAssumption, NEW w, Shape(w), Top(w).todo # {}, NEW seen, NEW way, NEW used,
           Levels(w, seen), Came(w, seen, way, used), Ahead(w) \in Walkable,
           Ahead(w).to \notin seen[Depth(w)],
           Ahead(w).to \in Directories => Depth(w) <= MaxDepth,
           NEW way2, way2 = [way EXCEPT ![Ahead(w).to] = Append(way[Ahead(w).in], Ahead(w))]
    PROVE  /\ way2 \in [Nodes -> Seq(Entries)]
           /\ \A y \in seen[Depth(w)] : way2[y] = way[y]
           /\ way2[Ahead(w).to] = Append(way[Ahead(w).in], Ahead(w))
           /\ Arrived(way2, Ahead(w).to) /\ Len(way2[Ahead(w).to]) = Depth(w)
           /\ Ahead(w) \in used /\ Ahead(w).in \in seen[Depth(w)]
           /\ \A i \in 1 .. Depth(w) : Ahead(w).in = w.stack[i].dir => i = Depth(w)
<1> DEFINE e == Ahead(w)  n == Depth(w)
<1>1. e \in Top(w).todo /\ e \in Entries /\ e.in = Top(w).dir
    BY AheadFacts
<1>2. n \in Nat /\ n \in 1 .. n /\ Top(w) = w.stack[n] /\ n <= MaxDepth + 1 /\ MaxDepth \in Nat
    BY TopFacts DEF Shape, Stacked, DiscoveryAssumption
<1> HIDE DEF e, n
<1>3. e \in used /\ Len(way[e.in]) = n - 1
    BY <1>1, <1>2 DEF Came, n, e
<1>4. e.in \in seen[n]
    BY <1>1, <1>2 DEF Levels, n
<1>5. ASSUME NEW i \in 1 .. n, e.in = w.stack[i].dir PROVE i = n
    <2>1. Len(way[w.stack[i].dir]) = i - 1
        BY <1>5 DEF Came, n
    <2> QED BY <1>2, <1>3, <1>5, <2>1
<1>6. way \in [Nodes -> Seq(Entries)] /\ e.to \in Nodes /\ e.in \in Nodes
    BY <1>2, <1>4 DEF Came, Walkable, Nodes, Levels, n, e
<1>7. Append(way[e.in], e) \in Seq(Entries)
    BY <1>1, <1>6
<1>8. /\ way2 \in [Nodes -> Seq(Entries)] /\ way2[e.to] = Append(way[e.in], e)
      /\ \A y \in Nodes : y # e.to => way2[y] = way[y]
    BY <1>6, <1>7 DEF e
<1>9. \A y \in seen[n] : way2[y] = way[y]
    BY <1>2, <1>8 DEF Levels, n, e
<1>10. Leads(way[e.in], e.in)
    BY <1>4 DEF Came, Arrived, n
<1>11. Leads(way2[e.to], e.to) /\ Len(way2[e.to]) = n
    <2>1. e \in Walkable
        BY DEF e
    <2>2. /\ Leads(Append(way[e.in], e), e.to)
          /\ Len(Append(way[e.in], e)) = Len(way[e.in]) + 1
        BY <1>10, <2>1, WayFurther
    <2>3. way2[e.to] = Append(way[e.in], e)
        BY <1>8
    <2>4. Len(way2[e.to]) = n
        BY <1>2, <1>3, <2>2, <2>3
    <2>5. Leads(way2[e.to], e.to)
        BY <2>2, <2>3
    <2> QED BY <2>4, <2>5
<1>12. Arrived(way2, e.to)
    BY <1>2, <1>11 DEF Arrived, e, n
<1> QED BY <1>3, <1>4, <1>5, <1>8, <1>9, <1>11, <1>12 DEF e, n

(* What was beyond an entry still is, after one more.                      *)
LEMMA BeyondWent ==
    ASSUME DiscoveryAssumption, NEW w, Shape(w), Top(w).todo # {}, NEW x, x.stack = WentStack(w),
           NEW i \in 1 .. Depth(w), NEW e, NEW y
    PROVE  /\ x.stack[i].dir = w.stack[i].dir
           /\ Beyond(w, i, e, y) => Beyond(x, i, e, y)
<1>1. /\ Depth(x) = Depth(w) /\ Here(x) = Here(w) /\ Top(x).listed
      /\ \A j \in 1 .. Depth(w) - 1 : x.stack[j] = w.stack[j]
      /\ Top(x) = x.stack[Depth(w)] /\ Top(x).dir = Top(w).dir
      /\ Top(x).todo \subseteq Top(w).todo
    BY WentTop
<1>2. Depth(w) \in Nat /\ Depth(w) >= 1 /\ Top(w) = w.stack[Depth(w)]
    BY TopFacts
<1>3. \A j \in 1 .. Depth(w) : x.stack[j].dir = w.stack[j].dir
    BY <1>1, <1>2
<1>4. i < Depth(w) => x.stack[i + 1].dir = w.stack[i + 1].dir
    BY <1>2, <1>3
<1> QED BY <1>1, <1>3, <1>4 DEF Beyond

(* What the entry ahead leads to has been seen by then.                    *)
LEMMA KnowsWent ==
    ASSUME DiscoveryAssumption, NEW w, Shape(w), Top(w).todo # {}, NEW seen, NEW there,
           Levels(w, seen), Knows(w, seen, there), NEW x, x.stack = WentStack(w), NEW seen2,
           \A j \in 1 .. Depth(w) - 1 : seen2[j] = seen[j],
           \/ seen2[Depth(w)] = seen[Depth(w)]
           \/ \E f \in Notebooks : seen2[Depth(w)] = seen[Depth(w)] \cup {f},
           Ahead(w) \in Walkable => Ahead(w).to \in seen2[Depth(w)]
    PROVE  Knows(x, seen2, there)
<1> DEFINE n == Depth(w)
<1>1. /\ Depth(x) = n /\ Here(x) = Here(w) /\ Top(x).listed /\ Top(w).listed
      /\ \A j \in 1 .. n - 1 : x.stack[j] = w.stack[j]
      /\ Top(x) = x.stack[n] /\ Top(x).dir = Top(w).dir
      /\ Top(x).todo = Top(w).todo \ {Ahead(w)}
    BY WentTop
<1>2. n \in Nat /\ n >= 1 /\ Top(w) = w.stack[n]
    BY TopFacts
<1>3. \A i \in 1 .. n : x.stack[i].dir = w.stack[i].dir
    BY <1>1, <1>2
<1> HIDE DEF n
<1>4. \A j \in 1 .. n : seen[j] \subseteq seen2[j]
    BY <1>2 DEF n
<1> SUFFICES ASSUME NEW e \in there \cap Walkable
             PROVE  /\ \A j \in 1 .. n :
                          e.in \in seen2[j] /\ (\A i \in 1 .. j : e.in # x.stack[i].dir) => e.to \in seen2[j]
                    /\ \A i \in 1 .. n :
                          e.in = x.stack[i].dir /\ x.stack[i].listed /\ e \notin x.stack[i].todo =>
                              /\ i < n => \/ e.name < Here(x)[i] /\ e.to \in seen2[i]
                                          \/ e.name = Here(x)[i] /\ e.to = x.stack[i + 1].dir
                              /\ i = n => e.to \in seen2[i] /\ \A f \in Top(x).todo : e.name < f.name
    BY <1>1 DEF Knows
<1>5. e \in Entries /\ e.in \in Directories /\ e.in \notin Notebooks
    BY DEF Walkable, DiscoveryAssumption
<1>6. ASSUME NEW j \in 1 .. n, e.in \in seen2[j], \A i \in 1 .. j : e.in # x.stack[i].dir
      PROVE  e.to \in seen2[j]
    <2>1. e.in \in seen[j]
        BY <1>2, <1>5, <1>6 DEF n
    <2>2. \A i \in 1 .. j : i \in 1 .. n /\ e.in # w.stack[i].dir
        BY <1>2, <1>3, <1>6
    <2>3. e.to \in seen[j]
        BY <2>1, <2>2 DEF Knows, n
    <2> QED BY <1>4, <2>3
<1>7. ASSUME NEW i \in 1 .. n, e.in = x.stack[i].dir, x.stack[i].listed, e \notin x.stack[i].todo
      PROVE  /\ i < n => \/ e.name < Here(x)[i] /\ e.to \in seen2[i]
                         \/ e.name = Here(x)[i] /\ e.to = x.stack[i + 1].dir
             /\ i = n => e.to \in seen2[i] /\ \A f \in Top(x).todo : e.name < f.name
    <2>1. CASE i < n
        <3>1. x.stack[i] = w.stack[i] /\ x.stack[i + 1].dir = w.stack[i + 1].dir
            BY <1>1, <1>2, <1>3, <2>1
        <3>2. \/ e.name < Here(w)[i] /\ e.to \in seen[i]
              \/ e.name = Here(w)[i] /\ e.to = w.stack[i + 1].dir
            BY <1>7, <2>1, <3>1 DEF Knows, n
        <3> QED BY <1>1, <1>4, <2>1, <3>1, <3>2
    <2>2. CASE i = n /\ e = Ahead(w)
        <3>1. e.to \in seen2[n]
            BY <2>2 DEF n
        <3>2. \A f \in Top(x).todo : e.name < f.name
            BY <1>1, <2>2, AheadFacts
        <3> QED BY <2>2, <3>1, <3>2
    <2>3. CASE i = n /\ e # Ahead(w)
        <3>1. e \notin w.stack[n].todo /\ e.in = w.stack[n].dir /\ w.stack[n].listed
            BY <1>1, <1>2, <1>7, <2>3
        <3>2. e.to \in seen[n] /\ \A f \in Top(w).todo : e.name < f.name
            BY <1>2, <3>1 DEF Knows, n
        <3> QED BY <1>1, <1>4, <2>3, <3>2
    <2> QED BY <1>2, <2>1, <2>2, <2>3
<1> QED BY <1>6, <1>7

LEMMA WentKeepsSound ==
    ASSUME DiscoveryAssumption, NEW w, Shape(w), Top(w).todo # {}, NEW there, NEW used,
           Sound(w, there, used), NEW x, x.stack = WentStack(w), x.dirs = w.dirs, x.files = w.files,
           Ahead(w) \in Walkable => Ahead(w).to \in w.dirs \cup w.files
    PROVE  Sound(x, there, used)
<1> DEFINE n == Depth(w)
<1>1. PICK seen, way : Levels(w, seen) /\ Knows(w, seen, there) /\ Came(w, seen, way, used)
    BY DEF Sound
<1>2. Depth(x) = n /\ n \in Nat /\ n >= 1
    BY WentTop, TopFacts
<1>3. /\ \A j \in 1 .. n - 1 : x.stack[j] = w.stack[j]
      /\ Top(x) = x.stack[n] /\ Top(w) = w.stack[n] /\ Top(x).todo \subseteq Top(w).todo
    BY WentTop, TopFacts
<1> HIDE DEF n
<1>4. \A i \in 1 .. n : x.stack[i].dir = w.stack[i].dir
    BY BeyondWent DEF n
<1>5. Levels(x, seen)
    <2>1. \A j \in 1 .. n : \A i \in 1 .. j : i \in 1 .. n
        BY <1>2
    <2> QED BY <1>1, <1>2, <1>4, <2>1 DEF Levels, n
<1>6. Knows(x, seen, there)
    BY <1>1, KnowsWent DEF Levels
<1>7. Came(x, seen, way, used)
    <2>1. ASSUME NEW i \in 1 .. n
          PROVE  Len(way[x.stack[i].dir]) = i - 1 /\ x.stack[i].todo \subseteq used
        <3>1. Len(way[w.stack[i].dir]) = i - 1 /\ w.stack[i].todo \subseteq used
            BY <1>1 DEF Came, n
        <3>2. x.stack[i].todo \subseteq w.stack[i].todo
            BY <1>2, <1>3
        <3> QED BY <1>4, <3>1, <3>2
    <2>2. ASSUME NEW y \in seen[n]
          PROVE  /\ Arrived(way, y)
                 /\ \/ y = Root /\ way[y] = <<>>
                    \/ \E e \in used \cap Walkable :
                          /\ e.to = y /\ e.in \in seen[n] /\ way[y] = Append(way[e.in], e)
                          /\ \A i \in 1 .. n : e.in = x.stack[i].dir => Beyond(x, i, e, y)
        <3>1. /\ Arrived(way, y)
              /\ \/ y = Root /\ way[y] = <<>>
                 \/ \E e \in used \cap Walkable :
                       /\ e.to = y /\ e.in \in seen[n] /\ way[y] = Append(way[e.in], e)
                       /\ \A i \in 1 .. n : e.in = w.stack[i].dir => Beyond(w, i, e, y)
            BY <1>1 DEF Came, n
        <3>2. \A e : \A i \in 1 .. n : Beyond(w, i, e, y) => Beyond(x, i, e, y)
            BY BeyondWent DEF n
        <3> QED BY <1>4, <3>1, <3>2
    <2> QED BY <1>1, <1>2, <2>1, <2>2 DEF Came
<1> QED BY <1>5, <1>6, <1>7 DEF Sound

LEMMA CollectedKeepsSound ==
    ASSUME DiscoveryAssumption, NEW w, Shape(w), Top(w).todo # {}, NEW there, NEW used,
           Sound(w, there, used), NEW x, Collecting(w, x)
    PROVE  Sound(x, there, used)
<1> DEFINE n == Depth(w)  e == Ahead(w)  f == Ahead(w).to
<1>1. PICK seen, way : Levels(w, seen) /\ Knows(w, seen, there) /\ Came(w, seen, way, used)
    BY DEF Sound
<1>2. /\ x.stack = WentStack(w) /\ x.dirs = w.dirs /\ x.files = w.files \cup {f}
      /\ e \in Walkable /\ f \in Notebooks \ w.files
    BY DEF Collecting
<1>3. Depth(x) = n /\ n \in Nat /\ n >= 1 /\ n <= MaxDepth + 1
    <2>1. Depth(x) = n
        BY <1>2, WentTop
    <2>2. n \in Nat /\ n >= 1
        BY TopFacts
    <2>3. n <= MaxDepth + 1
        BY DEF Shape, Stacked, DiscoveryAssumption
    <2> QED BY <2>1, <2>2, <2>3
<1>4. /\ \A j \in 1 .. n - 1 : x.stack[j] = w.stack[j]
      /\ Top(x) = x.stack[n] /\ Top(w) = w.stack[n] /\ Top(x).todo = Top(w).todo \ {e}
      /\ Top(x).listed
    BY <1>2, WentTop, TopFacts
<1> HIDE DEF n, e, f
<1>5. \A i \in 1 .. n : x.stack[i].dir = w.stack[i].dir
    BY <1>2, BeyondWent DEF n
<1>6. f \notin seen[n] /\ f \notin Directories /\ f \in Nodes
    BY <1>1, <1>2, TopFacts DEF Levels, WalkRecord, DiscoveryAssumption, Nodes, n
<1> DEFINE seen2 == [seen EXCEPT ![n] = seen[n] \cup {f}]
           way2 == [way EXCEPT ![f] = Append(way[e.in], e)]
<1>7. /\ seen2 \in [1 .. n -> SUBSET Nodes] /\ seen2[n] = seen[n] \cup {f}
      /\ \A j \in 1 .. n - 1 : seen2[j] = seen[j]
    BY <1>1, <1>3, <1>6 DEF Levels, n
<1>8. /\ way2 \in [Nodes -> Seq(Entries)]
      /\ \A y \in seen[n] : way2[y] = way[y]
      /\ way2[f] = Append(way[e.in], e)
      /\ Arrived(way2, f) /\ Len(way2[f]) = n
      /\ e \in used /\ e.in \in seen[n]
      /\ \A i \in 1 .. n : e.in = w.stack[i].dir => i = n
    BY <1>1, <1>2, <1>6, Newcomer DEF n, e, f
<1> HIDE DEF seen2, way2
<1>9. \A j \in 1 .. n : seen[j] \subseteq seen2[j]
    BY <1>3, <1>7
<1>10. Levels(x, seen2)
    <2>1. seen2[n] = x.dirs \cup x.files
        BY <1>1, <1>2, <1>7 DEF Levels, n
    <2>2. ASSUME NEW j \in 1 .. n, NEW i \in 1 .. j
          PROVE  x.stack[i].dir \in seen2[j] /\ seen2[i] \subseteq seen2[j]
        <3>1. i \in 1 .. n /\ w.stack[i].dir \in seen[j] /\ seen[i] \subseteq seen[j]
            BY <1>1, <1>3 DEF Levels, n
        <3>2. x.stack[i].dir \in seen2[j]
            BY <1>5, <1>9, <3>1
        <3>3. CASE i = n
            <4>1. j = n
                BY <1>3, <3>3
            <4> QED BY <3>2, <3>3, <4>1
        <3>4. CASE i # n
            <4>1. seen2[i] = seen[i]
                BY <1>3, <1>7, <3>1, <3>4
            <4> QED BY <1>9, <3>1, <3>2, <4>1
        <3> QED BY <3>2, <3>3, <3>4
    <2> QED BY <1>3, <1>7, <2>1, <2>2 DEF Levels
<1>11. Knows(x, seen2, there)
    <2>1. \A j \in 1 .. Depth(w) - 1 : seen2[j] = seen[j]
        BY <1>7 DEF n
    <2>2. \E g \in Notebooks : seen2[Depth(w)] = seen[Depth(w)] \cup {g}
        BY <1>2, <1>7 DEF n
    <2>3. Ahead(w).to \in seen2[Depth(w)]
        BY <1>7 DEF n, f
    <2> QED BY <1>1, <1>2, <2>1, <2>2, <2>3, KnowsWent
<1>12. Came(x, seen2, way2, used)
    <2>1. ASSUME NEW i \in 1 .. n
          PROVE  Len(way2[x.stack[i].dir]) = i - 1 /\ x.stack[i].todo \subseteq used
        <3>1. Len(way[w.stack[i].dir]) = i - 1 /\ w.stack[i].todo \subseteq used
            BY <1>1 DEF Came, n
        <3>2. x.stack[i].todo \subseteq w.stack[i].todo
            BY <1>3, <1>4
        <3>3. w.stack[i].dir \in seen[n]
            BY <1>1, <1>3 DEF Levels, n
        <3> QED BY <1>5, <1>8, <3>1, <3>2, <3>3
    <2>2. ASSUME NEW y \in seen2[n]
          PROVE  /\ Arrived(way2, y)
                 /\ \/ y = Root /\ way2[y] = <<>>
                    \/ \E d \in used \cap Walkable :
                          /\ d.to = y /\ d.in \in seen2[n] /\ way2[y] = Append(way2[d.in], d)
                          /\ \A i \in 1 .. n : d.in = x.stack[i].dir => Beyond(x, i, d, y)
        <3>1. CASE y = f
            <4>1. way2[e.in] = way[e.in] /\ e.to = f /\ e.in \in seen2[n]
                BY <1>7, <1>8 DEF e, f
            <4>2. ASSUME NEW i \in 1 .. n, e.in = x.stack[i].dir PROVE Beyond(x, i, e, f)
                <5>1. i = n
                    BY <1>5, <1>8, <4>2
                <5>2. \A d \in Top(x).todo : e.name < d.name
                    BY <1>4, AheadFacts DEF e
                <5> QED BY <1>3, <1>4, <5>1, <5>2 DEF Beyond
            <4> QED BY <1>2, <1>8, <3>1, <4>1, <4>2
        <3>2. CASE y \in seen[n]
            <4>1. /\ Arrived(way, y)
                  /\ \/ y = Root /\ way[y] = <<>>
                     \/ \E d \in used \cap Walkable :
                           /\ d.to = y /\ d.in \in seen[n] /\ way[y] = Append(way[d.in], d)
                           /\ \A i \in 1 .. n : d.in = w.stack[i].dir => Beyond(w, i, d, y)
                BY <1>1, <3>2 DEF Came, n
            <4>2. \A d : \A i \in 1 .. n : Beyond(w, i, d, y) => Beyond(x, i, d, y)
                BY <1>2, BeyondWent DEF n
            <4>3. Arrived(way2, y)
                BY <1>8, <3>2, <4>1 DEF Arrived
            <4> QED BY <1>5, <1>7, <1>8, <3>2, <4>1, <4>2, <4>3
        <3> QED BY <1>7, <3>1, <3>2
    <2> QED BY <1>3, <1>8, <2>1, <2>2 DEF Came
<1> QED BY <1>10, <1>11, <1>12 DEF Sound

LEMMA EnteredKeepsSound ==
    ASSUME DiscoveryAssumption, NEW w, Shape(w), Top(w).todo # {}, NEW there, NEW used,
           Sound(w, there, used), NEW x, Enters(w, x)
    PROVE  Sound(x, there, used)
<1> DEFINE n == Depth(w)  e == Ahead(w)  g == Ahead(w).to
<1>1. PICK seen, way : Levels(w, seen) /\ Knows(w, seen, there) /\ Came(w, seen, way, used)
    BY DEF Sound
<1>2. /\ x.stack = Append(WentStack(w), Frame(AheadPath(w), g)) /\ x.files = w.files
      /\ x.dirs = w.dirs \cup {g}
      /\ e \in Walkable /\ g \in Directories \ w.dirs /\ Len(AheadPath(w)) <= MaxDepth
    BY DEF Enters
<1>3. /\ Depth(x) = n + 1 /\ n \in Nat /\ n >= 1 /\ n <= MaxDepth
      /\ Here(x)[n] = e.name /\ \A i \in 1 .. n - 1 : Here(x)[i] = Here(w)[i]
    <2>1. Depth(x) = n + 1 /\ Here(x) = AheadPath(w)
        BY <1>2, EnteredTop
    <2>2. /\ Len(AheadPath(w)) = n /\ AheadPath(w)[n] = e.name
          /\ \A i \in 1 .. n - 1 : AheadPath(w)[i] = Here(w)[i]
        BY WentFrame
    <2> QED BY <1>2, <2>1, <2>2, TopFacts
<1>4. /\ Below(w, x) /\ Top(w) = w.stack[n] /\ Top(w).listed
      /\ x.stack[n].dir = Top(w).dir /\ x.stack[n].listed /\ x.stack[n].todo = Top(w).todo \ {e}
    BY <1>2, EnteredTop, TopFacts
<1>5. x.stack[n + 1].dir = g /\ x.stack[n + 1].listed = FALSE /\ x.stack[n + 1].todo = {}
    <2>1. x.stack[n + 1] = Frame(AheadPath(w), g)
        BY <1>2, EnteredTop
    <2> QED BY <2>1 DEF Frame
<1>6. \A i \in 1 .. n - 1 : x.stack[i] = w.stack[i]
    BY <1>4 DEF Below, n
<1> HIDE DEF n, e, g
<1>7. \A i \in 1 .. n : x.stack[i].dir = w.stack[i].dir
    BY <1>3, <1>4, <1>6
<1>8. g \notin seen[n] /\ g \in Nodes
    BY <1>1, <1>2, TopFacts DEF Levels, WalkRecord, DiscoveryAssumption, Nodes, n
<1> DEFINE seen2 == [j \in 1 .. n + 1 |-> IF j = n + 1 THEN seen[n] \cup {g} ELSE seen[j]]
           way2 == [way EXCEPT ![g] = Append(way[e.in], e)]
<1>9. /\ seen2 \in [1 .. n + 1 -> SUBSET Nodes] /\ seen2[n + 1] = seen[n] \cup {g}
      /\ \A j \in 1 .. n : seen2[j] = seen[j]
    <2>1. \A j \in 1 .. n : seen[j] \in SUBSET Nodes
        BY <1>1 DEF Levels, n
    <2>2. n \in 1 .. n
        BY <1>3
    <2>3. seen2 \in [1 .. n + 1 -> SUBSET Nodes]
        BY <1>3, <1>8, <2>1, <2>2
    <2> QED BY <1>3, <2>3
<1>10. /\ way2 \in [Nodes -> Seq(Entries)]
       /\ \A y \in seen[n] : way2[y] = way[y]
       /\ way2[g] = Append(way[e.in], e)
       /\ Arrived(way2, g) /\ Len(way2[g]) = n
       /\ e \in used /\ e.in \in seen[n]
       /\ \A i \in 1 .. n : e.in = w.stack[i].dir => i = n
    BY <1>1, <1>2, <1>3, <1>8, Newcomer DEF n, e, g
<1> HIDE DEF seen2, way2
<1>11. \A i \in 1 .. n : w.stack[i].dir \in seen[n] /\ seen[i] \subseteq seen[n]
    BY <1>1, <1>3 DEF Levels, n
<1>12. Levels(x, seen2)
    <2>1. seen2[n + 1] = x.dirs \cup x.files
        BY <1>1, <1>2, <1>9 DEF Levels, n
    <2>2. ASSUME NEW j \in 1 .. n + 1, NEW i \in 1 .. j
          PROVE  x.stack[i].dir \in seen2[j] /\ seen2[i] \subseteq seen2[j]
        <3>1. CASE j \in 1 .. n
            <4>1. i \in 1 .. n /\ w.stack[i].dir \in seen[j] /\ seen[i] \subseteq seen[j]
                BY <1>1, <1>3, <3>1 DEF Levels, n
            <4> QED BY <1>7, <1>9, <3>1, <4>1
        <3>2. CASE j = n + 1 /\ i \in 1 .. n
            BY <1>7, <1>9, <1>11, <3>2
        <3>3. CASE j = n + 1 /\ i = n + 1
            BY <1>5, <1>9, <3>3
        <3> QED BY <1>3, <3>1, <3>2, <3>3
    <2> QED BY <1>3, <1>9, <2>1, <2>2 DEF Levels
<1>13. Knows(x, seen2, there)
    <2> SUFFICES ASSUME NEW d \in there \cap Walkable
                 PROVE  /\ \A j \in 1 .. n + 1 :
                              d.in \in seen2[j] /\ (\A i \in 1 .. j : d.in # x.stack[i].dir) => d.to \in seen2[j]
                        /\ \A i \in 1 .. n + 1 :
                              d.in = x.stack[i].dir /\ x.stack[i].listed /\ d \notin x.stack[i].todo =>
                                  /\ i < n + 1 => \/ d.name < Here(x)[i] /\ d.to \in seen2[i]
                                                  \/ d.name = Here(x)[i] /\ d.to = x.stack[i + 1].dir
                                  /\ i = n + 1 => d.to \in seen2[i] /\ \A f \in Top(x).todo : d.name < f.name
        BY <1>3 DEF Knows
    <2>1. ASSUME NEW j \in 1 .. n + 1, d.in \in seen2[j], \A i \in 1 .. j : d.in # x.stack[i].dir
          PROVE  d.to \in seen2[j]
        <3>1. CASE j \in 1 .. n
            <4>1. \A i \in 1 .. j : i \in 1 .. n /\ d.in # w.stack[i].dir
                BY <1>3, <1>7, <2>1, <3>1
            <4>2. d.to \in seen[j]
                BY <1>1, <1>9, <2>1, <3>1, <4>1 DEF Knows, n
            <4> QED BY <1>9, <3>1, <4>2
        <3>2. CASE j = n + 1
            <4>1. \A i \in 1 .. n : d.in # w.stack[i].dir
                BY <1>3, <1>7, <2>1, <3>2
            <4>2. n + 1 \in 1 .. n + 1 /\ n \in 1 .. n
                BY <1>3
            <4>3. d.in # g
                BY <1>5, <2>1, <3>2, <4>2
            <4>4. d.in \in seen[n]
                BY <1>9, <2>1, <3>2, <4>3
            <4>5. d.to \in seen[n]
                BY <1>1, <4>1, <4>2, <4>4 DEF Knows, n
            <4> QED BY <1>9, <3>2, <4>5
        <3> QED BY <1>3, <3>1, <3>2
    <2>2. ASSUME NEW i \in 1 .. n + 1, d.in = x.stack[i].dir, x.stack[i].listed, d \notin x.stack[i].todo
          PROVE  /\ i < n + 1
                 /\ \/ d.name < Here(x)[i] /\ d.to \in seen2[i]
                    \/ d.name = Here(x)[i] /\ d.to = x.stack[i + 1].dir
        <3>1. i \in 1 .. n
            BY <1>3, <1>5, <2>2
        <3>2. CASE i < n
            <4>1. x.stack[i] = w.stack[i] /\ x.stack[i + 1].dir = w.stack[i + 1].dir
                BY <1>3, <1>6, <1>7, <3>1, <3>2
            <4>2. \/ d.name < Here(w)[i] /\ d.to \in seen[i]
                  \/ d.name = Here(w)[i] /\ d.to = w.stack[i + 1].dir
                BY <1>1, <2>2, <3>1, <3>2, <4>1 DEF Knows, n
            <4> QED BY <1>3, <1>9, <3>1, <3>2, <4>1, <4>2
        <3>3. CASE i = n /\ d = e
            BY <1>3, <1>5, <3>3 DEF g, e
        <3>4. CASE i = n /\ d # e
            <4>1. d \notin w.stack[n].todo /\ d.in = w.stack[n].dir /\ w.stack[n].listed
                BY <1>4, <2>2, <3>4
            <4>2. d.to \in seen[n] /\ \A f \in Top(w).todo : d.name < f.name
                BY <1>1, <3>1, <3>4, <4>1 DEF Knows, n
            <4>3. d.name < e.name
                BY <4>2, AheadFacts DEF e
            <4> QED BY <1>3, <1>9, <3>1, <3>4, <4>2, <4>3
        <3> QED BY <1>3, <3>1, <3>2, <3>3, <3>4
    <2>3. ASSUME NEW i \in 1 .. n + 1, d.in = x.stack[i].dir, x.stack[i].listed, d \notin x.stack[i].todo
          PROVE  /\ i < n + 1 => \/ d.name < Here(x)[i] /\ d.to \in seen2[i]
                                 \/ d.name = Here(x)[i] /\ d.to = x.stack[i + 1].dir
                 /\ i = n + 1 => d.to \in seen2[i] /\ \A f \in Top(x).todo : d.name < f.name
        BY <1>3, <2>2, <2>3
    <2> QED BY <2>1, <2>3
<1>14. Came(x, seen2, way2, used)
    <2>1. ASSUME NEW i \in 1 .. n + 1
          PROVE  Len(way2[x.stack[i].dir]) = i - 1 /\ x.stack[i].todo \subseteq used
        <3>1. CASE i = n + 1
            BY <1>3, <1>5, <1>10, <3>1
        <3>2. CASE i \in 1 .. n
            <4>1. Len(way[w.stack[i].dir]) = i - 1 /\ w.stack[i].todo \subseteq used
                BY <1>1, <3>2 DEF Came, n
            <4>2. x.stack[i].todo \subseteq w.stack[i].todo
                BY <1>3, <1>4, <1>6, <3>2
            <4> QED BY <1>7, <1>10, <1>11, <3>2, <4>1, <4>2
        <3> QED BY <1>3, <3>1, <3>2
    <2>2. ASSUME NEW y \in seen2[n + 1]
          PROVE  /\ Arrived(way2, y)
                 /\ \/ y = Root /\ way2[y] = <<>>
                    \/ \E d \in used \cap Walkable :
                          /\ d.to = y /\ d.in \in seen2[n + 1] /\ way2[y] = Append(way2[d.in], d)
                          /\ \A i \in 1 .. n + 1 : d.in = x.stack[i].dir => Beyond(x, i, d, y)
        <3>1. CASE y = g
            <4>1. way2[e.in] = way[e.in] /\ e.to = g /\ e.in \in seen2[n + 1]
                BY <1>9, <1>10 DEF e, g
            <4>2. ASSUME NEW i \in 1 .. n + 1, e.in = x.stack[i].dir PROVE Beyond(x, i, e, g)
                <5>1. i # n + 1
                    BY <1>5, <1>8, <1>10, <4>2
                <5>2. i = n
                    BY <1>3, <1>7, <1>10, <4>2, <5>1
                <5> QED BY <1>3, <1>5, <5>2 DEF Beyond
            <4> QED BY <1>2, <1>10, <3>1, <4>1, <4>2
        <3>2. CASE y \in seen[n]
            <4>1. /\ Arrived(way, y)
                  /\ \/ y = Root /\ way[y] = <<>>
                     \/ \E d \in used \cap Walkable :
                           /\ d.to = y /\ d.in \in seen[n] /\ way[y] = Append(way[d.in], d)
                           /\ \A i \in 1 .. n : d.in = w.stack[i].dir => Beyond(w, i, d, y)
                BY <1>1, <3>2 DEF Came, n
            <4>2. ASSUME NEW d, d.in \in seen[n], NEW i \in 1 .. n + 1, d.in = x.stack[i].dir,
                         \A k \in 1 .. n : d.in = w.stack[k].dir => Beyond(w, k, d, y)
                  PROVE  Beyond(x, i, d, y)
                <5>1. i # n + 1
                    BY <1>5, <1>8, <4>2
                <5>2. i \in 1 .. n /\ Beyond(w, i, d, y)
                    BY <1>3, <1>7, <4>2, <5>1
                <5>3. CASE i < n
                    <6>1. Here(x)[i] = Here(w)[i] /\ x.stack[i + 1].dir = w.stack[i + 1].dir
                        BY <1>3, <1>7, <5>2, <5>3
                    <6> QED BY <1>3, <5>2, <5>3, <6>1 DEF Beyond, n
                <5>4. CASE i = n
                    <6>1. d.name < e.name
                        BY <5>2, <5>4, AheadFacts DEF Beyond, n, e
                    <6> QED BY <1>3, <5>4, <6>1 DEF Beyond
                <5> QED BY <1>3, <5>2, <5>3, <5>4
            <4>3. Arrived(way2, y)
                BY <1>10, <3>2, <4>1 DEF Arrived
            <4> QED BY <1>9, <1>10, <3>2, <4>1, <4>2, <4>3
        <3> QED BY <1>9, <3>1, <3>2
    <2> QED BY <1>3, <1>10, <2>1, <2>2 DEF Came
<1> QED BY <1>12, <1>13, <1>14 DEF Sound

(* A directory that is left is through.                                    *)
LEMMA LeftKeepsSound ==
    ASSUME DiscoveryAssumption, NEW w, Shape(w), Depth(w) > 1, Top(w).listed, Top(w).todo = {},
           NEW there, NEW used, Sound(w, there, used)
    PROVE  Sound(Left(w), there, used)
<1> DEFINE x == Left(w)  n == Depth(w)  m == Depth(w) - 1
<1>1. PICK seen, way : Levels(w, seen) /\ Knows(w, seen, there) /\ Came(w, seen, way, used)
    BY DEF Sound
<1>2. /\ Depth(x) = m /\ x.dirs = w.dirs /\ x.files = w.files
      /\ \A j \in 1 .. m : x.stack[j] = w.stack[j]
      /\ x.stack \in Seq(FrameRecord)
    BY LeftFacts DEF WalkRecord
<1>3. n \in Nat /\ m \in Nat /\ n = m + 1 /\ m >= 1 /\ Top(w) = w.stack[n]
    BY TopFacts
<1>4. /\ Top(x) = w.stack[m] /\ \A j \in 1 .. m - 1 : Here(x)[j] = Here(w)[j]
    BY <1>2, LeftTop
<1>5. /\ Top(x).listed /\ \A f \in Top(x).todo : Here(w)[m] < f.name
      /\ \A f \in Top(x).todo : f.name \in Nat
      /\ Here(w)[m] \in Nat
    <2>1. m \in 1 .. n /\ m < n
        BY <1>3
    <2>2. w.stack[m].listed /\ \A f \in w.stack[m].todo : Here(w)[m] < f.name
        BY <2>1 DEF Shape, Stacked
    <2>3. w.stack[m].todo \subseteq Entries /\ Here(w)[m] \in Nat
        BY <1>3, <2>1, TopFacts
    <2> QED BY <1>4, <2>2, <2>3 DEF DiscoveryAssumption
<1> HIDE DEF n, m, x
<1> DEFINE seen2 == [j \in 1 .. m |-> IF j = m THEN seen[n] ELSE seen[j]]
<1>6. /\ seen2 \in [1 .. m -> SUBSET Nodes] /\ seen2[m] = seen[n]
      /\ \A j \in 1 .. m - 1 : seen2[j] = seen[j]
    <2>1. \A j \in 1 .. n : seen[j] \in SUBSET Nodes
        BY <1>1 DEF Levels, n
    <2>2. n \in 1 .. n /\ 1 .. m \subseteq 1 .. n
        BY <1>3
    <2>3. seen2 \in [1 .. m -> SUBSET Nodes]
        BY <1>3, <2>1, <2>2
    <2> QED BY <1>3, <2>3
<1> HIDE DEF seen2
<1>7. \A i \in 1 .. n : w.stack[i].dir \in seen[n] /\ seen[i] \subseteq seen[n]
    BY <1>1, <1>3 DEF Levels, n
<1>8. \A j \in 1 .. m : seen[j] \subseteq seen2[j]
    <2> SUFFICES ASSUME NEW j \in 1 .. m PROVE seen[j] \subseteq seen2[j]
        OBVIOUS
    <2>1. CASE j = m
        BY <1>3, <1>6, <1>7, <2>1
    <2>2. CASE j # m
        BY <1>3, <1>6, <2>2
    <2> QED BY <2>1, <2>2
<1>9. Levels(x, seen2)
    <2>1. seen2[m] = x.dirs \cup x.files
        BY <1>1, <1>2, <1>6 DEF Levels, n
    <2>2. ASSUME NEW j \in 1 .. m, NEW i \in 1 .. j
          PROVE  x.stack[i].dir \in seen2[j] /\ seen2[i] \subseteq seen2[j]
        <3>1. /\ i \in 1 .. m /\ i \in 1 .. n /\ j \in 1 .. n
              /\ w.stack[i].dir \in seen[j] /\ seen[i] \subseteq seen[j]
            BY <1>1, <1>3 DEF Levels, n
        <3>2. x.stack[i].dir \in seen2[j]
            BY <1>2, <1>8, <3>1
        <3>3. CASE i = m
            <4>1. j = m
                BY <1>3, <3>3
            <4> QED BY <3>2, <3>3, <4>1
        <3>4. CASE i # m
            <4>1. seen2[i] = seen[i]
                BY <1>3, <1>6, <3>1, <3>4
            <4> QED BY <1>8, <3>1, <3>2, <4>1
        <3> QED BY <3>3, <3>4
    <2> QED BY <1>2, <1>6, <2>1, <2>2 DEF Levels
<1>10. Knows(x, seen2, there)
    <2> SUFFICES ASSUME NEW d \in there \cap Walkable
                 PROVE  /\ \A j \in 1 .. m :
                              d.in \in seen2[j] /\ (\A i \in 1 .. j : d.in # x.stack[i].dir) => d.to \in seen2[j]
                        /\ \A i \in 1 .. m :
                              d.in = x.stack[i].dir /\ x.stack[i].listed /\ d \notin x.stack[i].todo =>
                                  /\ i < m => \/ d.name < Here(x)[i] /\ d.to \in seen2[i]
                                              \/ d.name = Here(x)[i] /\ d.to = x.stack[i + 1].dir
                                  /\ i = m => d.to \in seen2[i] /\ \A f \in Top(x).todo : d.name < f.name
        BY <1>2 DEF Knows
    <2>1. d.name \in Nat
        BY DEF Walkable, DiscoveryAssumption
    <2>2. ASSUME NEW j \in 1 .. m, d.in \in seen2[j], \A i \in 1 .. j : d.in # x.stack[i].dir
          PROVE  d.to \in seen2[j]
        <3>1. \A i \in 1 .. j : i \in 1 .. m /\ d.in # w.stack[i].dir
            BY <1>2, <1>3, <2>2
        <3>2. CASE j < m
            <4>1. d.in \in seen[j] /\ j \in 1 .. n
                BY <1>3, <1>6, <2>2, <3>2
            <4>2. d.to \in seen[j]
                BY <1>1, <3>1, <4>1 DEF Knows, n
            <4> QED BY <1>8, <4>2
        <3>3. CASE j = m /\ d.in = w.stack[n].dir
            <4>1. n \in 1 .. n
                BY <1>3
            <4>2. d.to \in seen[n]
                BY <1>1, <1>3, <3>3, <4>1 DEF Knows, n
            <4> QED BY <1>6, <3>3, <4>2
        <3>4. CASE j = m /\ d.in # w.stack[n].dir
            <4>1. \A i \in 1 .. n : d.in # w.stack[i].dir
                BY <1>3, <3>1, <3>4
            <4>2. n \in 1 .. n /\ d.in \in seen[n]
                BY <1>3, <1>6, <2>2, <3>4
            <4>3. d.to \in seen[n]
                BY <1>1, <4>1, <4>2 DEF Knows, n
            <4> QED BY <1>6, <3>4, <4>3
        <3> QED BY <1>3, <3>2, <3>3, <3>4
    <2>3. ASSUME NEW i \in 1 .. m, d.in = x.stack[i].dir, x.stack[i].listed, d \notin x.stack[i].todo
          PROVE  /\ i < m => \/ d.name < Here(x)[i] /\ d.to \in seen2[i]
                             \/ d.name = Here(x)[i] /\ d.to = x.stack[i + 1].dir
                 /\ i = m => d.to \in seen2[i] /\ \A f \in Top(x).todo : d.name < f.name
        <3>1. i \in 1 .. n /\ i < n /\ x.stack[i] = w.stack[i] /\ i + 1 \in 1 .. n
            BY <1>2, <1>3
        <3>2. \/ d.name < Here(w)[i] /\ d.to \in seen[i]
              \/ d.name = Here(w)[i] /\ d.to = w.stack[i + 1].dir
            BY <1>1, <2>3, <3>1 DEF Knows, n
        <3>3. CASE i < m
            <4>1. Here(x)[i] = Here(w)[i] /\ x.stack[i + 1] = w.stack[i + 1]
                BY <1>2, <1>3, <1>4, <3>3
            <4> QED BY <1>8, <3>2, <3>3, <4>1
        <3>4. CASE i = m
            <4>1. d.name <= Here(w)[m]
                BY <1>5, <2>1, <3>2, <3>4
            <4>2. \A f \in Top(x).todo : d.name < f.name
                BY <1>5, <2>1, <4>1
            <4>3. d.to \in seen[n]
                BY <1>7, <3>1, <3>2
            <4> QED BY <1>6, <3>4, <4>2, <4>3
        <3> QED BY <1>3, <3>3, <3>4
    <2> QED BY <2>2, <2>3
<1>11. Came(x, seen2, way, used)
    <2>1. ASSUME NEW i \in 1 .. m
          PROVE  Len(way[x.stack[i].dir]) = i - 1 /\ x.stack[i].todo \subseteq used
        <3>1. i \in 1 .. n
            BY <1>3
        <3> QED BY <1>1, <1>2, <3>1 DEF Came, n
    <2>2. ASSUME NEW y, NEW d \in Walkable, NEW i \in 1 .. m, d.in = x.stack[i].dir,
                 \A k \in 1 .. n : d.in = w.stack[k].dir => Beyond(w, k, d, y)
          PROVE  Beyond(x, i, d, y)
        <3>1. i \in 1 .. n /\ i < n /\ x.stack[i] = w.stack[i] /\ i + 1 \in 1 .. n
            BY <1>2, <1>3
        <3>2. Beyond(w, i, d, y)
            BY <2>2, <3>1
        <3>3. CASE i < m
            <4>1. Here(x)[i] = Here(w)[i] /\ x.stack[i + 1] = w.stack[i + 1]
                BY <1>2, <1>3, <1>4, <3>3
            <4> QED BY <1>2, <1>3, <3>1, <3>2, <3>3, <4>1 DEF Beyond, n
        <3>4. CASE i = m
            <4>1. d.name \in Nat
                BY DEF Walkable, DiscoveryAssumption
            <4>2. d.name <= Here(w)[m]
                BY <1>5, <3>1, <3>2, <3>4, <4>1 DEF Beyond, n
            <4>3. \A f \in Top(x).todo : d.name < f.name
                BY <1>5, <4>1, <4>2
            <4> QED BY <1>2, <1>5, <3>4, <4>3 DEF Beyond
        <3> QED BY <1>3, <3>3, <3>4
    <2>3. ASSUME NEW y \in seen2[m]
          PROVE  /\ Arrived(way, y)
                 /\ \/ y = Root /\ way[y] = <<>>
                    \/ \E d \in used \cap Walkable :
                          /\ d.to = y /\ d.in \in seen2[m] /\ way[y] = Append(way[d.in], d)
                          /\ \A i \in 1 .. m : d.in = x.stack[i].dir => Beyond(x, i, d, y)
        <3>1. y \in seen[n]
            BY <1>6
        <3>2. /\ Arrived(way, y)
              /\ \/ y = Root /\ way[y] = <<>>
                 \/ \E d \in used \cap Walkable :
                       /\ d.to = y /\ d.in \in seen[n] /\ way[y] = Append(way[d.in], d)
                       /\ \A i \in 1 .. n : d.in = w.stack[i].dir => Beyond(w, i, d, y)
            BY <1>1, <3>1 DEF Came, n
        <3> QED BY <1>6, <2>2, <3>2
    <2> QED BY <1>1, <1>2, <2>1, <2>3 DEF Came
<1> QED BY <1>9, <1>10, <1>11 DEF Sound, x

(* A walk that is through with the workspace has seen the notebook at the  *)
(* end of every way that was there all along.                              *)
LEMMA AllIsSeen ==
    ASSUME DiscoveryAssumption, NEW w, Shape(w), Depth(w) = 1, Top(w).listed, Top(w).todo = {},
           NEW there, NEW used, Sound(w, there, used),
           NEW route \in Routes, Along(route, there)
    PROVE  Ends(route) \in w.files
<1>1. PICK seen, way : Levels(w, seen) /\ Knows(w, seen, there) /\ Came(w, seen, way, used)
    BY DEF Sound
<1>2. Top(w) = w.stack[1] /\ w.stack[1].dir = Root /\ 1 \in 1 .. Depth(w)
    BY TopFacts DEF Shape, Stacked
<1>3. Root \in seen[1] /\ seen[1] = w.dirs \cup w.files
    BY <1>1, <1>2 DEF Levels
<1>4. \A e \in there \cap Walkable : e.in \in seen[1] => e.to \in seen[1]
    BY <1>1, <1>2 DEF Knows
<1>5. PICK n \in 1 .. MaxDepth + 1 : route \in [1 .. n -> Entries \ (Pruned \cup Unportable)]
    BY DEF Routes
<1>6. /\ route[1].in = Root /\ route[Len(route)].to \in Notebooks
      /\ \A i \in DOMAIN route : i + 1 \in DOMAIN route => route[i + 1].in = route[i].to
    BY DEF Routes
<1>7. DOMAIN route = 1 .. n /\ n \in Nat /\ n >= 1 /\ Len(route) = n
    <2>1. n \in Nat /\ n >= 1
        BY DEF DiscoveryAssumption
    <2>2. route \in Seq(Entries \ (Pruned \cup Unportable))
        BY <1>5, <2>1
    <2> QED BY <1>5, <2>1, <2>2
<1>8. ASSUME NEW i \in 1 .. n
      PROVE  route[i] \in there \cap Walkable
    <2>1. route[i] \in there /\ route[i] \in Entries \ (Pruned \cup Unportable)
        BY <1>5, <1>7 DEF Along
    <2>2. CASE i = n
        BY <1>6, <1>7, <2>1, <2>2 DEF Walkable
    <2>3. CASE i # n
        <3>1. i + 1 \in 1 .. n
            BY <1>7, <2>3
        <3>2. route[i + 1].in = route[i].to /\ route[i + 1] \in Entries
            BY <1>5, <1>6, <1>7, <3>1
        <3>3. route[i].to \in Directories
            BY <3>2 DEF DiscoveryAssumption
        <3> QED BY <2>1, <3>3 DEF Walkable
    <2> QED BY <2>2, <2>3
<1> DEFINE T == {i \in Nat : i \in 1 .. n => route[i].to \in seen[1]}
<1>9. 0 \in T
    OBVIOUS
<1>10. ASSUME NEW i \in T PROVE i + 1 \in T
    <2> SUFFICES ASSUME i + 1 \in 1 .. n PROVE route[i + 1].to \in seen[1]
        OBVIOUS
    <2>1. route[i + 1].in \in seen[1]
        <3>1. CASE i = 0
            BY <1>3, <1>6, <3>1
        <3>2. CASE i # 0
            <4>1. i \in 1 .. n
                BY <1>7, <3>2
            <4> QED BY <1>6, <1>7, <4>1
        <3> QED BY <3>1, <3>2
    <2> QED BY <1>4, <1>8, <2>1
<1>11. T = Nat
    <2> HIDE DEF T
    <2>1. T \in SUBSET Nat
        BY DEF T
    <2> QED BY <1>9, <1>10, <2>1, SetInduction
<1>12. route[n].to \in seen[1]
    BY <1>7, <1>11
<1>13. Ends(route) \in Notebooks \cap seen[1]
    BY <1>6, <1>7, <1>12 DEF Ends
<1>14. w.dirs \subseteq Directories
    BY TopFacts DEF WalkRecord
<1> QED BY <1>3, <1>13, <1>14 DEF DiscoveryAssumption

-----------------------------------------------------------------------------
(* Marks.  What a walk knows when it comes to a notebook, kept for a later *)
(* walk that comes to the same path: the directories above the notebook,   *)
(* what had been seen at each level, and on which ways.                    *)

Seen(mk) == mk.seen[Len(mk.path)] \cup {mk.file}
Child(mk, i) == IF i = Len(mk.path) THEN mk.file ELSE mk.dirs[i + 1]

MarkLevels(mk) ==
    /\ mk.path \in Path /\ Len(mk.path) >= 1 /\ mk.file \in Notebooks
    /\ mk.dirs[1] = Root
    /\ \A j \in 1 .. Len(mk.path) :
          /\ mk.seen[j] \subseteq Nodes
          /\ \A i \in 1 .. j : mk.dirs[i] \in mk.seen[j] /\ mk.seen[i] \subseteq mk.seen[j]

MarkKnows(mk, there) ==
    \A e \in there \cap Walkable :
        /\ \A j \in 1 .. Len(mk.path) :
              e.in \in mk.seen[j] /\ (\A i \in 1 .. j : e.in # mk.dirs[i]) => e.to \in mk.seen[j]
        /\ \A i \in 1 .. Len(mk.path) : e.in = mk.dirs[i] =>
              /\ e.name < mk.path[i] => e.to \in mk.seen[i]
              /\ e.name = mk.path[i] => e.to = Child(mk, i)

MarkCame(mk, used) ==
    \A x \in Seen(mk) :
        /\ Arrived(mk.way, x)
        /\ \/ x = Root /\ mk.way[x] = <<>>
           \/ \E e \in used \cap Walkable :
                 /\ e.to = x /\ e.in \in Seen(mk) /\ mk.way[x] = Append(mk.way[e.in], e)
                 /\ \A i \in 1 .. Len(mk.path) : e.in = mk.dirs[i] =>
                       e.name < mk.path[i] \/ (e.name = mk.path[i] /\ x = Child(mk, i))

(* Two walks come to the same path.  What the one has seen on a way that   *)
(* the other cannot have missed, the other has seen.                       *)
LEMMA MarksAgree ==
    ASSUME DiscoveryAssumption, NEW one, NEW other, NEW there, NEW used,
           MarkLevels(one), MarkKnows(one, there), MarkLevels(other), MarkCame(other, used),
           one.path = other.path, NEW x \in Seen(other), Along(other.way[x], there)
    PROVE  x \in Seen(one)
<1> DEFINE n == Len(one.path)  c == one.path  way == other.way
           D == {j \in 1 .. n : one.dirs[j] # other.dirs[j]}
<1>1. n \in Nat /\ n >= 1 /\ c \in Path /\ \A i \in 1 .. n : c[i] \in Nat
    BY DEF MarkLevels, Path
<1>2. \E J \in 1 .. n :
          /\ \A i \in 1 .. J : one.dirs[i] = other.dirs[i]
          /\ J < n => one.dirs[J + 1] # other.dirs[J + 1]
    <2>1. CASE D = {}
        BY <1>1, <2>1
    <2>2. CASE D # {}
        <3>1. D \in SUBSET Nat
            BY <1>1
        <3>2. PICK m \in D : \A k \in D : m <= k
            <4> HIDE DEF D
            <4> QED BY <2>2, <3>1, LeastNumber
        <3>3. m # 1
            BY <3>2 DEF MarkLevels
        <3>4. m \in 1 .. n /\ m - 1 \in 1 .. n /\ m - 1 < n /\ (m - 1) + 1 = m
            BY <1>1, <3>2, <3>3
        <3>5. ASSUME NEW i \in 1 .. m - 1 PROVE one.dirs[i] = other.dirs[i]
            <4>1. i \in 1 .. n /\ ~(m <= i)
                BY <1>1, <3>4
            <4> QED BY <3>2, <4>1
        <3> QED BY <3>2, <3>4, <3>5
    <2> QED BY <2>1, <2>2
<1>3. PICK J \in 1 .. n :
          /\ \A i \in 1 .. J : one.dirs[i] = other.dirs[i]
          /\ J < n => one.dirs[J + 1] # other.dirs[J + 1]
    BY <1>2
<1> HIDE DEF D
<1> DEFINE Common(y) == y \in one.seen[J] \/ (J = n /\ y = one.file)
           T == {k \in Nat : \A y \in Seen(other) :
                    Len(way[y]) = k /\ Along(way[y], there) => Common(y)}
<1>4. /\ \A i \in 1 .. J : one.dirs[i] \in one.seen[J] /\ one.seen[i] \subseteq one.seen[J]
      /\ one.seen[J] \subseteq one.seen[n] /\ one.file \in Notebooks /\ one.dirs[1] = Root
    BY <1>1, <1>3 DEF MarkLevels
<1>5. 1 \in 1 .. J /\ J \in Nat
    BY <1>1, <1>3
<1>6. Common(Root)
    BY <1>4, <1>5
<1>7. ASSUME NEW y \in Seen(other), y # Root \/ way[y] # <<>>, Along(way[y], there),
             \A z \in Seen(other) :
                 Len(way[z]) = Len(way[y]) - 1 /\ Along(way[z], there) => Common(z)
      PROVE  Common(y)
    <2>1. PICK e \in used \cap Walkable :
              /\ e.to = y /\ e.in \in Seen(other) /\ way[y] = Append(way[e.in], e)
              /\ \A i \in 1 .. n : e.in = other.dirs[i] =>
                    e.name < c[i] \/ (e.name = c[i] /\ y = Child(other, i))
        BY <1>7 DEF MarkCame
    <2>2. way[e.in] \in Seq(Walkable) /\ Len(way[e.in]) \in Nat
        BY <2>1 DEF MarkCame, Arrived, Leads
    <2>3. /\ Len(way[y]) = Len(way[e.in]) + 1 /\ way[y][Len(way[y])] = e
          /\ \A i \in 1 .. Len(way[e.in]) : way[y][i] = way[e.in][i]
          /\ DOMAIN way[y] = 1 .. Len(way[y]) /\ DOMAIN way[e.in] = 1 .. Len(way[e.in])
        BY <2>1, <2>2
    <2>4. Len(way[e.in]) = Len(way[y]) - 1
        BY <2>2, <2>3
    <2>5. e \in there /\ Along(way[e.in], there)
        <3>1. Len(way[y]) \in DOMAIN way[y] /\ DOMAIN way[e.in] \subseteq DOMAIN way[y]
            BY <2>2, <2>3
        <3> QED BY <1>7, <2>2, <2>3, <3>1 DEF Along
    <2>6. Common(e.in)
        BY <1>7, <2>1, <2>4, <2>5
    <2>7. e.in \in Directories /\ e.name \in Nat
        BY DEF Walkable, DiscoveryAssumption
    <2>8. e.in \in one.seen[J]
        BY <1>4, <2>6, <2>7 DEF DiscoveryAssumption
    <2>9. CASE \A i \in 1 .. J : e.in # one.dirs[i]
        BY <1>3, <2>1, <2>5, <2>8, <2>9 DEF MarkKnows
    <2>10. ASSUME NEW i \in 1 .. J, e.in = one.dirs[i] PROVE Common(y)
        <3>1. i \in 1 .. n /\ e.in = other.dirs[i]
            BY <1>1, <1>3, <1>5, <2>10
        <3>2. CASE e.name < c[i]
            <4>1. e.to \in one.seen[i]
                BY <2>5, <2>10, <3>1, <3>2 DEF MarkKnows
            <4> QED BY <1>4, <2>1, <4>1
        <3>3. CASE e.name = c[i] /\ y = Child(other, i)
            <4>1. y = Child(one, i)
                BY <2>1, <2>5, <2>10, <3>1, <3>3 DEF MarkKnows
            <4>2. CASE i = n
                BY <1>3, <1>5, <4>1, <4>2 DEF Child
            <4>3. CASE i # n
                <5>1. y = one.dirs[i + 1] /\ y = other.dirs[i + 1]
                    BY <3>3, <4>1, <4>3 DEF Child
                <5>2. i # J
                    <6> SUFFICES ASSUME i = J PROVE FALSE
                        OBVIOUS
                    <6>1. J < n
                        BY <1>1, <1>3, <4>3
                    <6> QED BY <1>3, <5>1, <6>1
                <5>3. i + 1 \in 1 .. J
                    BY <1>5, <5>2
                <5> QED BY <1>4, <5>1, <5>3
            <4> QED BY <4>2, <4>3
        <3> QED BY <2>1, <3>1, <3>2, <3>3
    <2> QED BY <2>9, <2>10
<1>8. \A y \in Seen(other) : Len(way[y]) \in Nat /\ (y # Root => way[y] # <<>>)
    BY DEF MarkCame, Arrived, Leads
<1>9. \A y \in Seen(other) : Len(way[y]) = 0 => y = Root
    BY <1>8 DEF MarkCame, Arrived, Leads
<1>10. 0 \in T
    BY <1>6, <1>9
<1>11. ASSUME NEW k \in T PROVE k + 1 \in T
    <2> SUFFICES ASSUME NEW y \in Seen(other), Len(way[y]) = k + 1, Along(way[y], there)
                 PROVE  Common(y)
        OBVIOUS
    <2>1. way[y] # <<>>
        <3>1. k \in Nat
            OBVIOUS
        <3>2. Len(way[y]) # 0
            BY <3>1
        <3> QED BY <3>2
    <2>2. Len(way[y]) - 1 = k
        OBVIOUS
    <2>3. \A z \in Seen(other) :
              Len(way[z]) = Len(way[y]) - 1 /\ Along(way[z], there) => Common(z)
        BY <2>2
    <2> HIDE DEF Common, T
    <2> QED BY <1>7, <2>1, <2>3
<1>12. T = Nat
    <2> HIDE DEF T
    <2>1. T \in SUBSET Nat
        BY DEF T
    <2> QED BY <1>10, <1>11, <2>1, SetInduction
<1>13. Common(x)
    BY <1>8, <1>12
<1> QED BY <1>4, <1>13 DEF Seen

(* The mark of a walk that comes to a notebook.                            *)
LEMMA AheadMark ==
    ASSUME DiscoveryAssumption, NEW w, Shape(w), Top(w).todo # {}, NEW there, NEW used,
           Sound(w, there, used), NEW z, Collecting(w, z)
    PROVE  \E mk : /\ MarkLevels(mk) /\ MarkKnows(mk, there) /\ MarkCame(mk, used)
                   /\ mk.path = AheadPath(w) /\ Seen(mk) \cap Notebooks = z.files
<1> DEFINE n == Depth(w)  e == Ahead(w)  f == Ahead(w).to
<1>1. PICK seen, way : Levels(w, seen) /\ Knows(w, seen, there) /\ Came(w, seen, way, used)
    BY DEF Sound
<1>2. z.files = w.files \cup {f} /\ e \in Walkable /\ f \in Notebooks \ w.files
    BY DEF Collecting
<1>3. /\ n \in Nat /\ n >= 1 /\ Top(w) = w.stack[n] /\ w.stack[1].dir = Root /\ n <= MaxDepth + 1
      /\ w.dirs \subseteq Directories /\ w.files \subseteq Notebooks
    <2>1. n \in Nat /\ n >= 1 /\ Top(w) = w.stack[n] /\ w \in WalkRecord
        BY TopFacts
    <2>2. w.stack[1].dir = Root /\ n <= MaxDepth + 1
        BY DEF Shape, Stacked, DiscoveryAssumption
    <2>3. w.dirs \subseteq Directories /\ w.files \subseteq Notebooks
        BY <2>1 DEF WalkRecord
    <2> QED BY <2>1, <2>2, <2>3
<1>4. /\ AheadPath(w) \in Path /\ Len(AheadPath(w)) = n /\ AheadPath(w)[n] = e.name
      /\ \A i \in 1 .. n - 1 : AheadPath(w)[i] = Here(w)[i]
    BY WentFrame
<1>5. \A j \in 1 .. n - 1 : w.stack[j].listed /\ \A d \in w.stack[j].todo : Here(w)[j] < d.name
    BY <1>3 DEF Shape, Stacked, n
<1>6. \A j \in 1 .. n - 1 : Here(w)[j] \in Nat /\ w.stack[j].todo \subseteq Entries
    <2> SUFFICES ASSUME NEW j \in 1 .. n - 1 PROVE Here(w)[j] \in Nat /\ w.stack[j].todo \subseteq Entries
        OBVIOUS
    <2>1. j \in 1 .. Depth(w) /\ j \in 1 .. Depth(w) - 1
        BY <1>3
    <2>2. Here(w)[j] \in Nat
        BY <2>1, TopFacts
    <2>3. w.stack[j].todo \subseteq Entries
        BY <2>1, TopFacts
    <2> QED BY <2>2, <2>3
<1>7. Top(w).listed
    <2>1. Framed(w.stack[n])
        BY <1>3 DEF Shape, Stacked
    <2> QED BY <1>3, <2>1 DEF Framed
<1> DEFINE way2 == [way EXCEPT ![f] = Append(way[e.in], e)]
           path == AheadPath(w)
           dirs == [i \in 1 .. n |-> w.stack[i].dir]
           mk == [path |-> path, file |-> f, dirs |-> dirs, seen |-> seen, way |-> way2]
<1> HIDE DEF n, e, f, path
<1>8. f \notin seen[n] /\ f \notin Directories /\ f \in Nodes
    BY <1>1, <1>2, <1>3 DEF Levels, DiscoveryAssumption, Nodes, n
<1>9. /\ way2 \in [Nodes -> Seq(Entries)]
      /\ \A y \in seen[n] : way2[y] = way[y]
      /\ way2[f] = Append(way[e.in], e)
      /\ Arrived(way2, f) /\ Len(way2[f]) = n
      /\ e \in used /\ e.in \in seen[n]
      /\ \A i \in 1 .. n : e.in = w.stack[i].dir => i = n
    BY <1>1, <1>2, <1>8, Newcomer DEF n, e, f
<1>10. \A i \in 1 .. n : dirs[i] = w.stack[i].dir
    OBVIOUS
<1> HIDE DEF way2, dirs
<1>11. /\ mk.path = path /\ mk.file = f /\ mk.dirs = dirs /\ mk.seen = seen /\ mk.way = way2
       /\ Len(mk.path) = n
    BY <1>4 DEF path
<1>12. Seen(mk) = seen[n] \cup {f}
    BY <1>11 DEF Seen
<1>13. \A i \in 1 .. n : Child(mk, i) = IF i = n THEN f ELSE w.stack[i + 1].dir
    <2> SUFFICES ASSUME NEW i \in 1 .. n, i # n PROVE Child(mk, i) = w.stack[i + 1].dir
        BY <1>11 DEF Child
    <2>1. i + 1 \in 1 .. n
        BY <1>3
    <2> QED BY <1>10, <1>11, <2>1 DEF Child
<1> HIDE DEF mk
<1>14. MarkLevels(mk)
    <2>1. \A j \in 1 .. n : seen[j] \subseteq Nodes
        BY <1>1 DEF Levels, n
    <2>2. \A j \in 1 .. n : \A i \in 1 .. j :
              i \in 1 .. n /\ w.stack[i].dir \in seen[j] /\ seen[i] \subseteq seen[j]
        BY <1>1, <1>3 DEF Levels, n
    <2>3. dirs[1] = Root
        BY <1>3, <1>10
    <2> QED BY <1>2, <1>3, <1>4, <1>10, <1>11, <2>1, <2>2, <2>3 DEF MarkLevels, path
<1>15. MarkKnows(mk, there)
    <2> SUFFICES ASSUME NEW d \in there \cap Walkable
                 PROVE  /\ \A j \in 1 .. n :
                              d.in \in seen[j] /\ (\A i \in 1 .. j : d.in # dirs[i]) => d.to \in seen[j]
                        /\ \A i \in 1 .. n : d.in = dirs[i] =>
                              /\ d.name < path[i] => d.to \in seen[i]
                              /\ d.name = path[i] => d.to = Child(mk, i)
        BY <1>11 DEF MarkKnows
    <2>1. \A j \in 1 .. n :
              d.in \in seen[j] /\ (\A i \in 1 .. j : d.in # dirs[i]) => d.to \in seen[j]
        <3>1. \A j \in 1 .. n : \A i \in 1 .. j : i \in 1 .. n
            BY <1>3
        <3> QED BY <1>1, <1>10, <3>1 DEF Knows, n
    <2>2. d.name \in Nat
        BY DEF Walkable, DiscoveryAssumption
    <2>3. ASSUME NEW i \in 1 .. n, d.in = dirs[i]
          PROVE  /\ d.name < path[i] => d.to \in seen[i]
                 /\ d.name = path[i] => d.to = Child(mk, i)
        <3>1. d.in = w.stack[i].dir
            BY <1>10, <2>3
        <3>2. CASE i < n
            <4>1. i \in 1 .. n - 1 /\ path[i] = Here(w)[i] /\ Here(w)[i] \in Nat
                BY <1>3, <1>4, <1>6, <3>2 DEF path
            <4>2. CASE d \in w.stack[i].todo
                <5>1. path[i] < d.name
                    BY <1>5, <4>1, <4>2
                <5> QED BY <2>2, <4>1, <5>1
            <4>3. CASE d \notin w.stack[i].todo
                <5>1. \/ d.name < Here(w)[i] /\ d.to \in seen[i]
                      \/ d.name = Here(w)[i] /\ d.to = w.stack[i + 1].dir
                    BY <1>1, <1>5, <3>1, <3>2, <4>1, <4>3 DEF Knows, n
                <5> QED BY <1>3, <1>13, <2>2, <3>2, <4>1, <5>1
            <4> QED BY <4>2, <4>3
        <3>3. CASE i = n
            <4>1. path[i] = e.name /\ e.name \in Nat /\ e \in Top(w).todo
                BY <1>4, <3>3, AheadFacts DEF path, e
            <4>2. CASE d \in Top(w).todo
                <5>1. d = e \/ e.name < d.name
                    BY <4>2, AheadFacts DEF e
                <5> QED BY <1>13, <2>2, <3>3, <4>1, <5>1 DEF f, e
            <4>3. CASE d \notin Top(w).todo
                <5>1. d.to \in seen[n] /\ \A g \in Top(w).todo : d.name < g.name
                    BY <1>1, <1>3, <1>7, <3>1, <3>3, <4>3 DEF Knows, n
                <5>2. d.name < e.name
                    BY <4>1, <5>1
                <5> QED BY <2>2, <3>3, <4>1, <5>1, <5>2
            <4> QED BY <4>2, <4>3
        <3> QED BY <1>3, <3>2, <3>3
    <2> QED BY <2>1, <2>3
<1>16. MarkCame(mk, used)
    <2> SUFFICES ASSUME NEW y \in seen[n] \cup {f}
                 PROVE  /\ Arrived(way2, y)
                        /\ \/ y = Root /\ way2[y] = <<>>
                           \/ \E d \in used \cap Walkable :
                                 /\ d.to = y /\ d.in \in seen[n] \cup {f} /\ way2[y] = Append(way2[d.in], d)
                                 /\ \A i \in 1 .. n : d.in = dirs[i] =>
                                       d.name < path[i] \/ (d.name = path[i] /\ y = Child(mk, i))
        BY <1>11, <1>12 DEF MarkCame
    <2>1. CASE y = f
        <3>1. way2[e.in] = way[e.in] /\ e.to = f
            BY <1>9 DEF e, f
        <3>2. \A i \in 1 .. n : e.in = dirs[i] => e.name = path[i] /\ f = Child(mk, i)
            BY <1>4, <1>9, <1>10, <1>13 DEF path
        <3> QED BY <1>2, <1>9, <2>1, <3>1, <3>2
    <2>2. CASE y \in seen[n]
        <3>1. /\ Arrived(way, y)
              /\ \/ y = Root /\ way[y] = <<>>
                 \/ \E d \in used \cap Walkable :
                       /\ d.to = y /\ d.in \in seen[n] /\ way[y] = Append(way[d.in], d)
                       /\ \A i \in 1 .. n : d.in = w.stack[i].dir => Beyond(w, i, d, y)
            BY <1>1, <2>2 DEF Came, n
        <3>2. ASSUME NEW d \in Walkable, NEW i \in 1 .. n, Beyond(w, i, d, y)
              PROVE  d.name < path[i] \/ (d.name = path[i] /\ y = Child(mk, i))
            <4>1. CASE i < n
                <5>1. path[i] = Here(w)[i]
                    BY <1>3, <1>4, <4>1 DEF path
                <5> QED BY <1>3, <1>13, <3>2, <4>1, <5>1 DEF Beyond, n
            <4>2. CASE i = n
                <5>1. d.name < e.name
                    BY <3>2, <4>2, AheadFacts DEF Beyond, n, e
                <5> QED BY <1>4, <4>2, <5>1 DEF path
            <4> QED BY <1>3, <4>1, <4>2
        <3>3. Arrived(way2, y)
            BY <1>9, <2>2, <3>1 DEF Arrived
        <3>4. CASE y = Root /\ way[y] = <<>>
            BY <1>9, <2>2, <3>3, <3>4
        <3>5. CASE \E d \in used \cap Walkable :
                      /\ d.to = y /\ d.in \in seen[n] /\ way[y] = Append(way[d.in], d)
                      /\ \A i \in 1 .. n : d.in = w.stack[i].dir => Beyond(w, i, d, y)
            <4>1. PICK d \in used \cap Walkable :
                      /\ d.to = y /\ d.in \in seen[n] /\ way[y] = Append(way[d.in], d)
                      /\ \A i \in 1 .. n : d.in = w.stack[i].dir => Beyond(w, i, d, y)
                BY <3>5
            <4>2. way2[y] = Append(way2[d.in], d)
                BY <1>9, <2>2, <4>1
            <4>3. \A i \in 1 .. n : d.in = dirs[i] =>
                      d.name < path[i] \/ (d.name = path[i] /\ y = Child(mk, i))
                BY <1>10, <3>2, <4>1
            <4> QED BY <3>3, <4>1, <4>2, <4>3
        <3> QED BY <3>1, <3>4, <3>5
    <2> QED BY <2>1, <2>2
<1>17. mk.path = AheadPath(w) /\ Seen(mk) \cap Notebooks = z.files
    <2>1. seen[n] = w.dirs \cup w.files
        BY <1>1 DEF Levels, n
    <2> QED BY <1>2, <1>3, <1>11, <1>12, <2>1 DEF path, DiscoveryAssumption
<1> QED BY <1>14, <1>15, <1>16, <1>17

(* All that a walk has seen it has seen on ways of entries that were used. *)
LEMMA WaysAreUsed ==
    ASSUME NEW mk, NEW used, MarkCame(mk, used), NEW x \in Seen(mk)
    PROVE  Along(mk.way[x], used)
<1> DEFINE way == mk.way
           T == {k \in Nat : \A y \in Seen(mk) : Len(way[y]) = k => Along(way[y], used)}
<1>1. \A y \in Seen(mk) : way[y] \in Seq(Walkable) /\ Len(way[y]) \in Nat
    BY DEF MarkCame, Arrived, Leads
<1>2. ASSUME NEW k \in Nat, \A z \in Seen(mk) : Len(way[z]) = k - 1 => Along(way[z], used),
             NEW y \in Seen(mk), Len(way[y]) = k
      PROVE  Along(way[y], used)
    <2>1. CASE way[y] = <<>>
        BY <2>1 DEF Along
    <2>2. CASE \E e \in used \cap Walkable : e.in \in Seen(mk) /\ way[y] = Append(way[e.in], e)
        <3>1. PICK e \in used \cap Walkable : e.in \in Seen(mk) /\ way[y] = Append(way[e.in], e)
            BY <2>2
        <3>2. way[e.in] \in Seq(Walkable) /\ Len(way[e.in]) \in Nat
            BY <1>1, <3>1
        <3>3. /\ Len(way[y]) = Len(way[e.in]) + 1 /\ way[y][Len(way[y])] = e
              /\ \A i \in 1 .. Len(way[e.in]) : way[y][i] = way[e.in][i]
              /\ DOMAIN way[y] = 1 .. Len(way[y]) /\ DOMAIN way[e.in] = 1 .. Len(way[e.in])
            BY <3>1, <3>2
        <3>4. Along(way[e.in], used)
            BY <1>2, <3>1, <3>2, <3>3
        <3>5. ASSUME NEW i \in DOMAIN way[y] PROVE way[y][i] \in used
            <4>1. CASE i = Len(way[y])
                BY <3>1, <3>3, <4>1
            <4>2. CASE i # Len(way[y])
                <5>1. i \in 1 .. Len(way[e.in])
                    BY <3>2, <3>3, <4>2
                <5> QED BY <3>3, <3>4, <5>1 DEF Along
            <4> QED BY <4>1, <4>2
        <3> QED BY <3>5 DEF Along
    <2> QED BY <2>1, <2>2 DEF MarkCame
<1>3. 0 \in T
    <2>1. ASSUME NEW y \in Seen(mk), Len(way[y]) = 0 PROVE Along(way[y], used)
        <3>1. way[y] = <<>>
            BY <1>1, <2>1
        <3> QED BY <3>1 DEF Along
    <2> QED BY <2>1
<1>4. ASSUME NEW k \in T PROVE k + 1 \in T
    <2>1. k \in Nat /\ k + 1 \in Nat /\ (k + 1) - 1 = k
        OBVIOUS
    <2>2. \A z \in Seen(mk) : Len(way[z]) = k => Along(way[z], used)
        OBVIOUS
    <2>3. \A y \in Seen(mk) : Len(way[y]) = k + 1 => Along(way[y], used)
        BY <1>2, <2>1, <2>2
    <2> QED BY <2>1, <2>3
<1>5. T = Nat
    <2>1. T \in SUBSET Nat
        OBVIOUS
    <2> HIDE DEF T
    <2> QED BY <1>3, <1>4, <2>1, SetInduction
<1> QED BY <1>1, <1>5

(* A way has come to the notebook since the listing began: Renamed. *)
RenamedIn(f, h) ==
    \E route \in Routes :
        Ends(route) = f /\ Along(route, h.was) /\ ~Along(route, h.was \ h.appeared)

(* A notebook that was met on a way that has come since is renamed. *)
LEMMA NewWayRenames ==
    ASSUME DiscoveryAssumption, NEW h, NEW mk, NEW f \in Seen(mk) \cap Notebooks,
           MarkCame(mk, h.was), ~Along(mk.way[f], h.was \ h.appeared)
    PROVE  RenamedIn(f, h)
<1> DEFINE route == mk.way[f]  n == Len(mk.way[f])
<1>1. Leads(route, f) /\ n <= MaxDepth + 1
    BY DEF MarkCame, Arrived, DiscoveryAssumption
<1>2. Along(route, h.was)
    BY WaysAreUsed
<1> HIDE DEF route
<1>3. route \in Seq(Walkable) /\ n \in Nat /\ n = Len(route) /\ DOMAIN route = 1 .. n
    BY <1>1 DEF Leads, route
<1>4. f # Root /\ f \notin Directories
    BY DEF DiscoveryAssumption
<1>5. n # 0
    BY <1>1, <1>3, <1>4 DEF Leads
<1> HIDE DEF n
<1>6. /\ n \in 1 .. MaxDepth + 1 /\ route[1].in = Root /\ route[n].to = f
      /\ \A i \in 1 .. n - 1 : route[i + 1].in = route[i].to
    <2>1. route # <<>>
        BY <1>3, <1>5
    <2>2. n \in 1 .. MaxDepth + 1
        BY <1>1, <1>3, <1>5 DEF DiscoveryAssumption
    <2> QED BY <1>1, <1>3, <2>1, <2>2 DEF Leads
<1>7. route \in [1 .. n -> Entries \ (Pruned \cup Unportable)]
    BY <1>3 DEF Walkable
<1>8. \A i \in DOMAIN route : i + 1 \in DOMAIN route => route[i + 1].in = route[i].to
    BY <1>3, <1>6
<1>9. route \in Routes
    BY <1>3, <1>6, <1>7, <1>8 DEF Routes
<1> QED BY <1>2, <1>3, <1>6, <1>9 DEF RenamedIn, Ends, route

-----------------------------------------------------------------------------
(* What the list of the launcher and the request under way know of each    *)
(* other.  The mark of the last page has the walk before the continuation. *)

Targets(items) == {items[i].to : i \in 1 .. Len(items)}
Distinct(items) == \A i, j \in 1 .. Len(items) : items[i].to = items[j].to => i = j
InOrder(items) == \A i \in 1 .. Len(items) - 1 : Before(items[i].path, items[i + 1].path)
AtRest(h) == h.steady = h.was

Covered(mk, path, there, targets, h) ==
    /\ MarkLevels(mk) /\ mk.path = path /\ MarkKnows(mk, there) /\ MarkCame(mk, h.was)
    /\ \A f \in Seen(mk) \cap Notebooks : f \in targets \/ RenamedIn(f, h)
    /\ AtRest(h) => targets \subseteq Seen(mk)
Marked(path, there, targets, h) == \E mk : Covered(mk, path, there, targets, h)

PastRecord ==
    [steady : SUBSET Entries, was : SUBSET Entries, appeared : SUBSET Entries, changes : Nat]
HistoryFits(d, h) ==
    /\ d \subseteq Entries /\ Unique(d) /\ h \in PastRecord
    /\ h.steady \subseteq d /\ d \subseteq h.was
    /\ h.appeared \subseteq h.was /\ h.appeared \cap h.steady = {}
    /\ d \subseteq h.steady \cup h.appeared


(* A walk that comes to the continuation has seen what is listed and what  *)
(* is renamed, and no less.                                                *)
LEMMA PassedAreSaid ==
    ASSUME DiscoveryAssumption, NEW d, NEW h, HistoryFits(d, h), NEW O, NEW targets \in SUBSET Notebooks,
           NEW w, Shape(w), Top(w).todo # {}, NEW z, Collecting(w, z),
           Sound(w, h.steady, h.was \cap (O \cup h.appeared)),
           Marked(AheadPath(w), O, targets, h)
    PROVE  /\ \A f \in z.files : f \in targets \/ RenamedIn(f, h)
           /\ AtRest(h) => targets \subseteq z.files
<1> DEFINE used == h.was \cap (O \cup h.appeared)
<1>1. PICK mk : Covered(mk, AheadPath(w), O, targets, h)
    BY DEF Marked
<1>2. PICK mine : /\ MarkLevels(mine) /\ MarkKnows(mine, h.steady) /\ MarkCame(mine, used)
                  /\ mine.path = AheadPath(w) /\ Seen(mine) \cap Notebooks = z.files
    BY AheadMark
<1>3. MarkCame(mine, h.was)
    BY <1>2 DEF MarkCame
<1>4. ASSUME NEW f \in z.files PROVE f \in targets \/ RenamedIn(f, h)
    <2>1. f \in Seen(mine) \cap Notebooks
        BY <1>2
    <2>2. Along(mine.way[f], used)
        BY <1>2, <2>1, WaysAreUsed
    <2>3. CASE Along(mine.way[f], O)
        <3>1. f \in Seen(mk)
            BY <1>1, <1>2, <2>1, <2>3, MarksAgree DEF Covered
        <3> QED BY <1>1, <2>1, <3>1 DEF Covered
    <2>4. CASE ~Along(mine.way[f], O)
        <3>1. ~Along(mine.way[f], h.was \ h.appeared)
            BY <2>2, <2>4 DEF Along
        <3> QED BY <1>3, <2>1, <3>1, NewWayRenames
    <2> QED BY <2>3, <2>4
<1>5. ASSUME AtRest(h), NEW f \in targets PROVE f \in z.files
    <2>1. f \in Seen(mk) /\ f \in Notebooks /\ MarkCame(mk, h.was)
        BY <1>1, <1>5 DEF Covered
    <2>2. Along(mk.way[f], h.steady)
        BY <1>5, <2>1, WaysAreUsed DEF AtRest
    <2>3. f \in Seen(mine)
        BY <1>1, <1>2, <2>1, <2>2, MarksAgree DEF Covered
    <2> QED BY <1>2, <2>1, <2>3
<1> QED BY <1>4, <1>5

(* A walk that finds the last notebook of a page leaves a mark there. *)
LEMMA PageIsMarked ==
    ASSUME DiscoveryAssumption, NEW d, NEW h, HistoryFits(d, h), NEW O, NEW targets \in SUBSET Notebooks,
           NEW w, Shape(w), Top(w).todo # {}, NEW z, Collecting(w, z),
           Sound(w, h.steady, h.was \cap (O \cup h.appeared)),
           \A f \in z.files : f \in targets \/ RenamedIn(f, h),
           AtRest(h) => targets \subseteq z.files
    PROVE  Marked(AheadPath(w), h.steady, targets, h)
<1> DEFINE used == h.was \cap (O \cup h.appeared)
<1>1. PICK mine : /\ MarkLevels(mine) /\ MarkKnows(mine, h.steady) /\ MarkCame(mine, used)
                  /\ mine.path = AheadPath(w) /\ Seen(mine) \cap Notebooks = z.files
    BY AheadMark
<1>2. MarkCame(mine, h.was)
    BY <1>1 DEF MarkCame
<1>3. Covered(mine, AheadPath(w), h.steady, targets, h)
    BY <1>1, <1>2 DEF Covered
<1> QED BY <1>3 DEF Marked

Upto(items, n) == {items[i].to : i \in 1 .. n}

(* What the last page left for the next one. *)
ListFits(O, d, h, v) ==
    /\ v.items \in Seq(Item) /\ d \subseteq O \cup h.appeared
    /\ v.next # <<>> /\ ~v.partial => Marked(v.next, O, Targets(v.items), h)

(* A walk for the next page. *)
FindsFit(w, h, v) ==
    /\ w.passed => \A f \in w.files : f \in Targets(v.items) \cup Targets(w.found) \/ RenamedIn(f, h)
    /\ w.passed /\ AtRest(h) => Targets(v.items) \cup Targets(w.found) \subseteq w.files
    /\ AtRest(h) => Distinct(w.found) /\ Targets(v.items) \cap Targets(w.found) = {}
    /\ Len(w.found) >= PageSize =>
          Marked(w.found[PageSize].path, h.steady, Targets(v.items) \cup Upto(w.found, PageSize), h)
WalkFits(w, O, h, v) ==
    /\ Shape(w) /\ Ordered(w) /\ w.after = v.next
    /\ ~w.partial /\ ~v.partial =>
          /\ ~w.stopped => Sound(w, h.steady, h.was \cap (O \cup h.appeared))
          /\ FindsFit(w, h, v)

LEMMA TargetsAreNotebooks ==
    ASSUME NEW items \in Seq(Item)
    PROVE  Targets(items) \in SUBSET Notebooks
<1>1. \A k \in 1 .. Len(items) : items[k].to \in Notebooks
    <2> SUFFICES ASSUME NEW k \in 1 .. Len(items) PROVE items[k].to \in Notebooks
        OBVIOUS
    <2>1. items[k] \in Item
        OBVIOUS
    <2> QED BY <2>1 DEF Item
<1> QED BY <1>1 DEF Targets

LEMMA FoundMore ==
    ASSUME NEW found \in Seq(Item), NEW item \in Item, NEW more, more = Append(found, item)
    PROVE  /\ Len(more) = Len(found) + 1 /\ more[Len(found) + 1] = item
           /\ \A k \in 1 .. Len(found) : more[k] = found[k]
           /\ Targets(more) = Targets(found) \cup {item.to}
           /\ \A n \in 1 .. Len(found) : Upto(more, n) = Upto(found, n)
           /\ Distinct(found) /\ item.to \notin Targets(found) => Distinct(more)
<1>1. /\ Len(more) = Len(found) + 1 /\ more[Len(found) + 1] = item /\ Len(found) \in Nat
      /\ \A k \in 1 .. Len(found) : more[k] = found[k]
    OBVIOUS
<1> DEFINE n == Len(found)
<1>2. \A k \in 1 .. Len(more) : k = n + 1 \/ k \in 1 .. n
    BY <1>1
<1>3. Targets(more) = Targets(found) \cup {item.to}
    <2>1. \A k \in 1 .. n : k \in 1 .. Len(more)
        BY <1>1
    <2>2. n + 1 \in 1 .. Len(more)
        BY <1>1
    <2>3. \A k \in 1 .. Len(more) : more[k].to \in Targets(found) \cup {item.to}
        BY <1>1, <1>2 DEF Targets
    <2>4. \A k \in 1 .. n : found[k].to \in Targets(more)
        BY <1>1, <2>1 DEF Targets
    <2>5. item.to \in Targets(more)
        BY <1>1, <2>2 DEF Targets
    <2>6. Targets(more) \subseteq Targets(found) \cup {item.to}
        BY <2>3 DEF Targets
    <2>7. Targets(found) \subseteq Targets(more)
        BY <2>4 DEF Targets
    <2> QED BY <2>5, <2>6, <2>7
<1>4. ASSUME NEW m \in 1 .. n PROVE Upto(more, m) = Upto(found, m)
    <2>1. \A k \in 1 .. m : more[k] = found[k]
        BY <1>1
    <2> QED BY <2>1 DEF Upto
<1>5. ASSUME Distinct(found), item.to \notin Targets(found) PROVE Distinct(more)
    <2>1. \A k \in 1 .. n : found[k].to # item.to
        BY <1>5 DEF Targets
    <2> QED BY <1>1, <1>2, <1>5, <2>1 DEF Distinct
<1> QED BY <1>1, <1>3, <1>4, <1>5

LEMMA WalkBeginsFit ==
    ASSUME DiscoveryAssumption, NEW h, NEW v, NEW after \in Path, NEW O, after = v.next,
           v.items \in Seq(Item), v.next = <<>> => v.items = <<>>
    PROVE  WalkFits(Walk(after), O, h, v)
<1> DEFINE w == Walk(after)
<1>1. Shape(w)
    BY WalkHasShape
<1>2. Ordered(w)
    BY WalkIsOrdered
<1>3. Sound(w, h.steady, h.was \cap (O \cup h.appeared))
    BY WalkIsSound
<1>4. w.found = <<>> /\ w.after = after /\ (w.passed <=> after = <<>>) /\ w.files = {}
    BY DEF Walk
<1> HIDE DEF w
<1>5. Targets(w.found) = {} /\ Len(w.found) = 0 /\ Distinct(w.found)
    BY <1>4 DEF Targets, Distinct
<1>6. w.passed => Targets(v.items) = {}
    BY <1>4 DEF Targets
<1>7. PageSize \in Nat \ {0}
    BY DEF DiscoveryAssumption
<1>8. FindsFit(w, h, v)
    BY <1>4, <1>5, <1>6, <1>7 DEF FindsFit
<1>9. WalkFits(w, O, h, v)
    BY <1>1, <1>2, <1>3, <1>4, <1>8 DEF WalkFits
<1> QED BY <1>9 DEF w

LEMMA ListedFits ==
    ASSUME DiscoveryAssumption, NEW d, NEW h, NEW v, HistoryFits(d, h), NEW O, ListFits(O, d, h, v),
           NEW w, WalkFits(w, O, h, v), ~Top(w).listed,
           NEW entries, entries = {e \in d : e.in = Top(w).dir}
    PROVE  WalkFits(Listed(w, entries), O, h, v)
<1> DEFINE x == Listed(w, entries)
           used == h.was \cap (O \cup h.appeared)
<1>1. Shape(w) /\ Ordered(w)
    BY DEF WalkFits
<1>2. /\ entries \in SUBSET Entries /\ Unique(entries) /\ entries \subseteq used
      /\ \A e \in entries : e.in = Top(w).dir
      /\ \A e \in h.steady : e.in = Top(w).dir => e \in entries
    BY DEF HistoryFits, ListFits, Unique
<1> HIDE DEF used
<1>3. Shape(x)
    BY <1>1, <1>2, ListedKeepsShape
<1>4. Ordered(x)
    BY <1>1, <1>2, ListedKeepsOrder
<1>5. Sound(w, h.steady, used) => Sound(x, h.steady, used)
    BY <1>1, <1>2, ListedKeepsSound
<1>6. /\ x.after = w.after /\ x.passed = w.passed /\ x.files = w.files
      /\ x.found = w.found /\ x.partial = w.partial /\ x.stopped = w.stopped
    BY <1>1, <1>2, ListedFacts
<1> HIDE DEF x
<1>7. WalkFits(x, O, h, v)
    BY <1>3, <1>4, <1>5, <1>6 DEF WalkFits, FindsFit, used
<1> QED BY <1>7 DEF x

LEMMA LeftFits ==
    ASSUME DiscoveryAssumption, NEW h, NEW v, NEW O, NEW w, WalkFits(w, O, h, v), Depth(w) > 1
    PROVE  /\ Top(w).listed /\ (w.stopped \/ Top(w).todo = {}) => WalkFits(Left(w), O, h, v)
           /\ WalkFits(Omits(Left(w)), O, h, v)
<1> DEFINE x == Left(w)  used == h.was \cap (O \cup h.appeared)
<1>1. Shape(w) /\ Ordered(w) /\ w.after = v.next
    BY DEF WalkFits
<1>2. /\ x \in WalkRecord
      /\ x.after = w.after /\ x.passed = w.passed /\ x.files = w.files
      /\ x.found = w.found /\ x.partial = w.partial /\ x.stopped = w.stopped
    BY <1>1, LeftFacts
<1>3. Shape(x) /\ Ordered(x) /\ Ordered(Omits(x))
    BY <1>1, LeftKeepsShape, LeftKeepsOrder
<1>4. Top(w).listed /\ Top(w).todo = {} /\ Sound(w, h.steady, used) => Sound(x, h.steady, used)
    BY <1>1, LeftKeepsSound
<1> HIDE DEF x, used
<1>5. Shape(Omits(x))
    BY <1>3, OmitsKeepsShape
<1>6. Omits(x).partial /\ Omits(x).after = x.after
    BY <1>2 DEF Omits, WalkRecord
<1>7. WalkFits(Omits(x), O, h, v)
    BY <1>1, <1>2, <1>3, <1>5, <1>6 DEF WalkFits
<1>8. ASSUME Top(w).listed, w.stopped \/ Top(w).todo = {} PROVE WalkFits(x, O, h, v)
    BY <1>1, <1>2, <1>3, <1>4, <1>8 DEF WalkFits, FindsFit, used
<1> QED BY <1>7, <1>8 DEF x

LEMMA ExaminedFits ==
    ASSUME DiscoveryAssumption, NEW d, NEW h, NEW v, HistoryFits(d, h), NEW O, ListFits(O, d, h, v),
           NEW w, WalkFits(w, O, h, v), ~w.stopped, Top(w).todo # {}
    PROVE  WalkFits(Examined(w), O, h, v)
<1> DEFINE x == Examined(w)  used == h.was \cap (O \cup h.appeared)  e == Ahead(w)
           T == Targets(v.items)
<1> SUFFICES WalkFits(x, O, h, v)
    OBVIOUS
<1>1. Shape(w) /\ Ordered(w) /\ w.after = v.next
    BY DEF WalkFits
<1>2. Shape(x) /\ Ordered(x)
    BY <1>1, ExaminedKeepsShape, ExaminedKeepsOrder
<1>3. /\ x \in WalkRecord
      /\ Stops(w, x) \/ Skips(w, x) \/ Enters(w, x) \/ Passes(w, x) \/ Finds(w, x)
    BY <1>1, EntryOutcome
<1> HIDE DEF x, used, e, T
<1>4. x.after = v.next
    BY <1>1, <1>3 DEF Stops, Skips, Enters, Passes, Finds, Collecting, Counts
<1>5. CASE Stops(w, x)
    BY <1>2, <1>4, <1>5 DEF WalkFits, Stops
<1> SUFFICES ASSUME ~Stops(w, x), ~x.partial, ~v.partial
             PROVE  (~x.stopped => Sound(x, h.steady, used)) /\ FindsFit(x, h, v)
    BY <1>2, <1>4, <1>5 DEF WalkFits, used
<1>6. ~w.partial
    BY <1>3 DEF Skips, Enters, Passes, Finds, Collecting
<1>7. Sound(w, h.steady, used) /\ FindsFit(w, h, v)
    BY <1>6 DEF WalkFits, used
<1>8. CASE Skips(w, x)
    <2>1. Sound(x, h.steady, used)
        BY <1>1, <1>7, <1>8, WentKeepsSound DEF Skips
    <2> QED BY <1>7, <1>8, <2>1 DEF Skips, FindsFit
<1>9. CASE Enters(w, x)
    <2>1. Sound(x, h.steady, used)
        BY <1>1, <1>7, <1>9, EnteredKeepsSound
    <2> QED BY <1>7, <1>9, <2>1 DEF Enters, FindsFit
<1>10. w.found \in Seq(Item) /\ w.files \subseteq Notebooks /\ PageSize \in Nat \ {0} /\ Len(w.found) \in Nat
    BY <1>1, TopFacts DEF WalkRecord, DiscoveryAssumption
<1>11. T \in SUBSET Notebooks
    BY TargetsAreNotebooks DEF ListFits, T
<1>12. CASE Passes(w, x)
    <2>1. Collecting(w, x) /\ ~w.passed /\ x.passed = (AheadPath(w) = w.after) /\ x.found = w.found
        BY <1>12 DEF Passes
    <2>2. Sound(x, h.steady, used)
        BY <1>1, <1>7, <2>1, CollectedKeepsSound
    <2>3. w.found = <<>> /\ w.after # <<>>
        BY <1>1, <2>1 DEF Shape, Bounded
    <2>4. Len(x.found) = 0 /\ Targets(x.found) = {} /\ Distinct(x.found)
        BY <2>1, <2>3 DEF Targets, Distinct
    <2>5. ASSUME x.passed
          PROVE  (\A f \in x.files : f \in T \/ RenamedIn(f, h)) /\ (AtRest(h) => T \subseteq x.files)
        <3>1. Marked(AheadPath(w), O, T, h)
            BY <1>1, <2>1, <2>3, <2>5 DEF ListFits, T
        <3> QED BY <1>1, <1>7, <1>11, <2>1, <3>1, PassedAreSaid DEF used
    <2>6. FindsFit(x, h, v)
        BY <1>10, <2>4, <2>5 DEF FindsFit, T
    <2> QED BY <2>2, <2>6
<1>13. CASE Finds(w, x)
    <2> DEFINE item == [path |-> AheadPath(w), to |-> Ahead(w).to]
    <2>1. /\ Collecting(w, x) /\ w.passed /\ x.passed /\ x.found = Append(w.found, item)
          /\ x.stopped = (Len(w.found) >= PageSize)
        BY <1>13 DEF Finds
    <2>2. Sound(x, h.steady, used)
        BY <1>1, <1>7, <2>1, CollectedKeepsSound
    <2>3. x.files = w.files \cup {item.to} /\ item.to \in Notebooks \ w.files
        BY <2>1 DEF Collecting
    <2>4. item \in Item /\ item.path = AheadPath(w)
        <3>1. AheadPath(w) \in Path
            BY <1>1, WentFrame
        <3> QED BY <2>3, <3>1 DEF Item
    <2> HIDE DEF item
    <2>5. /\ Len(x.found) = Len(w.found) + 1 /\ x.found[Len(w.found) + 1] = item
          /\ \A k \in 1 .. Len(w.found) : x.found[k] = w.found[k]
          /\ Targets(x.found) = Targets(w.found) \cup {item.to}
          /\ \A n \in 1 .. Len(w.found) : Upto(x.found, n) = Upto(w.found, n)
          /\ Distinct(w.found) /\ item.to \notin Targets(w.found) => Distinct(x.found)
        BY <1>10, <2>1, <2>4, FoundMore
    <2>6. \A f \in x.files : f \in T \cup Targets(x.found) \/ RenamedIn(f, h)
        BY <1>7, <2>1, <2>3, <2>5 DEF FindsFit, T
    <2>7. AtRest(h) => T \cup Targets(x.found) \subseteq x.files
        BY <1>7, <2>1, <2>3, <2>5 DEF FindsFit, T
    <2>8. AtRest(h) => Distinct(x.found) /\ T \cap Targets(x.found) = {}
        <3> SUFFICES ASSUME AtRest(h) PROVE Distinct(x.found) /\ T \cap Targets(x.found) = {}
            OBVIOUS
        <3>1. T \cup Targets(w.found) \subseteq w.files /\ Distinct(w.found) /\ T \cap Targets(w.found) = {}
            BY <1>7, <2>1 DEF FindsFit, T
        <3> QED BY <2>3, <2>5, <3>1
    <2>9. ASSUME Len(x.found) >= PageSize
          PROVE  Marked(x.found[PageSize].path, h.steady, T \cup Upto(x.found, PageSize), h)
        <3>1. CASE Len(w.found) >= PageSize
            <4>1. PageSize \in 1 .. Len(w.found)
                BY <1>10, <3>1
            <4> QED BY <1>7, <2>5, <3>1, <4>1 DEF FindsFit, T
        <3>2. CASE Len(w.found) < PageSize
            <4>1. Len(x.found) = PageSize /\ Len(w.found) + 1 = PageSize
                BY <1>10, <2>5, <2>9, <3>2
            <4>2. Upto(x.found, PageSize) = Targets(x.found) /\ x.found[PageSize] = item
                BY <2>5, <4>1 DEF Upto, Targets
            <4>3. Targets(x.found) \in SUBSET Notebooks
                BY <1>3, TargetsAreNotebooks DEF WalkRecord
            <4>4. T \cup Targets(x.found) \in SUBSET Notebooks
                BY <1>11, <4>3
            <4>5. Marked(AheadPath(w), h.steady, T \cup Targets(x.found), h)
                BY <1>1, <1>7, <2>1, <2>6, <2>7, <4>4, PageIsMarked DEF used
            <4> QED BY <2>4, <4>2, <4>5
        <3> QED BY <1>10, <3>1, <3>2
    <2>10. FindsFit(x, h, v)
        BY <2>6, <2>7, <2>8, <2>9 DEF FindsFit, T
    <2> QED BY <2>2, <2>10
<1> QED BY <1>3, <1>8, <1>9, <1>12, <1>13

-----------------------------------------------------------------------------
(* What an answer promises. *)

Whole(targets, h) ==
    \A route \in Routes :
        Along(route, h.steady) /\ ~RenamedIn(Ends(route), h) => Ends(route) \in targets

PageRecord == [ok : {TRUE}, items : Seq(Item), partial : BOOLEAN, next : Path]
FailureRecord == [ok : {FALSE}, why : {"stale", "unavailable"}]

PageFits(a, h, v) ==
    /\ a \in PageRecord /\ InOrder(a.items)
    /\ a.items # <<>> /\ v.next # <<>> => Before(v.next, a.items[1].path)
    /\ a.next # <<>> => a.items # <<>> /\ Last(a.items).path = a.next
    /\ ~a.partial /\ ~v.partial =>
          /\ a.next # <<>> => Marked(a.next, h.steady, Targets(v.items) \cup Targets(a.items), h)
          /\ a.next = <<>> => Whole(Targets(v.items) \cup Targets(a.items), h)
          /\ AtRest(h) => Distinct(a.items) /\ Targets(v.items) \cap Targets(a.items) = {}

(* The first n of what has been found. *)
FirstOf(s, found, n) ==
    /\ s \in Seq(Item) /\ Len(s) = n /\ \A k \in 1 .. n : s[k] = found[k]
    /\ Targets(s) = Upto(found, n) /\ Targets(s) \subseteq Targets(found)
    /\ Distinct(found) => Distinct(s)

LEMMA FirstOfThem ==
    ASSUME NEW found \in Seq(Item), NEW n \in 0 .. Len(found), NEW s, s = SubSeq(found, 1, n)
    PROVE  FirstOf(s, found, n)
<1>1. n \in Int /\ 1 \in Int /\ n >= 0 /\ Len(found) \in Nat
    OBVIOUS
<1>2. \A i \in 1 .. n : found[i] \in Item /\ i \in 1 .. Len(found)
    OBVIOUS
<1>3. /\ SubSeq(found, 1, n) \in Seq(Item)
      /\ Len(SubSeq(found, 1, n)) = IF 1 <= n THEN n - 1 + 1 ELSE 0
      /\ \A i \in 1 .. n - 1 + 1 : SubSeq(found, 1, n)[i] = found[1 + i - 1]
    BY <1>1, <1>2, SubSeqProperties
<1>4. n - 1 + 1 = n /\ \A i \in 1 .. n : 1 + i - 1 = i
    BY <1>1
<1>5. s \in Seq(Item) /\ Len(s) = n /\ \A k \in 1 .. n : s[k] = found[k]
    BY <1>1, <1>3, <1>4
<1>6. Targets(s) = Upto(found, n) /\ Targets(s) \subseteq Targets(found)
    BY <1>2, <1>5 DEF Targets, Upto
<1>7. Distinct(found) => Distinct(s)
    BY <1>2, <1>5 DEF Distinct
<1> QED BY <1>5, <1>6, <1>7 DEF FirstOf

(* A walk that is through answers what it has found. *)
LEMMA PageOfWalkFits ==
    ASSUME DiscoveryAssumption, NEW h, NEW v, NEW O, NEW w, WalkFits(w, O, h, v), Depth(w) = 1, Top(w).listed,
           w.stopped \/ Top(w).todo = {}, w.passed, NEW x, x.found = w.found, x.partial = w.partial
    PROVE  PageFits(Page(x), h, v)
<1> DEFINE hasMore == Len(w.found) > PageSize
           n == IF Len(w.found) > PageSize THEN PageSize ELSE Len(w.found)
           items == SubSeq(w.found, 1, n)
           next == IF hasMore THEN Last(items).path ELSE <<>>
           a == Page(x)
           used == h.was \cap (O \cup h.appeared)
           T == Targets(v.items)
<1>1. Shape(w) /\ Ordered(w) /\ w.after = v.next
    BY DEF WalkFits
<1>2. /\ w.found \in Seq(Item) /\ w.partial \in BOOLEAN /\ Len(w.found) \in Nat
      /\ PageSize \in Nat \ {0}
    BY <1>1, TopFacts DEF WalkRecord, DiscoveryAssumption
<1>3. n \in 0 .. Len(w.found) /\ n \in Nat /\ (hasMore => n = PageSize) /\ (~hasMore => n = Len(w.found))
    BY <1>2
<1>4. a = [ok |-> TRUE, items |-> items, partial |-> w.partial, next |-> next]
    BY DEF Page
<1> HIDE DEF n
<1>5. /\ items \in Seq(Item) /\ Len(items) = n /\ \A k \in 1 .. n : items[k] = w.found[k]
      /\ Targets(items) = Upto(w.found, n) /\ Targets(items) \subseteq Targets(w.found)
      /\ Distinct(w.found) => Distinct(items)
    <2>1. items = SubSeq(w.found, 1, n)
        OBVIOUS
    <2> HIDE DEF items
    <2>2. w.found \in Seq(Item) /\ n \in 0 .. Len(w.found)
        BY <1>2, <1>3
    <2>3. FirstOf(items, w.found, n)
        BY <2>1, <2>2, FirstOfThem
    <2> QED BY <2>3 DEF FirstOf
<1> HIDE DEF items, a, hasMore, used, T
<1>6. hasMore => /\ items # <<>> /\ Last(items) = items[n] /\ Last(items) = w.found[n]
                 /\ n \in 1 .. Len(w.found) /\ next = w.found[n].path
    BY <1>2, <1>3, <1>5 DEF Last
<1>7. \A k \in 1 .. Len(w.found) : w.found[k].path \in Path /\ w.found[k].path # <<>>
    <2> SUFFICES ASSUME NEW k \in 1 .. Len(w.found)
                 PROVE  w.found[k].path \in Path /\ w.found[k].path # <<>>
        OBVIOUS
    <2>1. Behind(w, w.found[k].path)
        BY <1>1 DEF Ordered
    <2>2. w.found[k].path \in Path /\ Len(w.found[k].path) >= 1
        BY <1>1, <2>1, TopFacts DEF Behind, Path
    <2> QED BY <2>2
<1>8. next \in Path /\ (hasMore <=> next # <<>>)
    <2>1. <<>> \in Path
        BY DEF Path
    <2> QED BY <1>6, <1>7, <2>1
<1> HIDE DEF next
<1>9. a.ok = TRUE /\ a.items = items /\ a.partial = w.partial /\ a.next = next /\ a \in PageRecord
    BY <1>2, <1>4, <1>5, <1>8 DEF PageRecord
<1>10. InOrder(items)
    <2> SUFFICES ASSUME NEW i \in 1 .. n - 1 PROVE Before(items[i].path, items[i + 1].path)
        BY <1>5 DEF InOrder
    <2>1. i \in 1 .. n /\ i + 1 \in 1 .. n /\ i \in 1 .. Len(w.found) - 1
        BY <1>2, <1>3
    <2>2. Before(w.found[i].path, w.found[i + 1].path)
        BY <1>1, <2>1 DEF Ordered
    <2> QED BY <1>5, <2>1, <2>2
<1>11. items # <<>> /\ v.next # <<>> => Before(v.next, items[1].path)
    <2> SUFFICES ASSUME items # <<>>, v.next # <<>> PROVE Before(v.next, items[1].path)
        OBVIOUS
    <2>1. 1 \in 1 .. n /\ w.found # <<>>
        BY <1>2, <1>3, <1>5
    <2> QED BY <1>1, <1>5, <2>1 DEF Ordered
<1>12. ASSUME ~w.partial, ~v.partial
       PROVE  /\ next # <<>> => Marked(next, h.steady, T \cup Targets(items), h)
              /\ next = <<>> => Whole(T \cup Targets(items), h)
              /\ AtRest(h) => Distinct(items) /\ T \cap Targets(items) = {}
    <2>1. FindsFit(w, h, v) /\ (~w.stopped => Sound(w, h.steady, used))
        BY <1>12 DEF WalkFits, used
    <2>2. AtRest(h) => Distinct(items) /\ T \cap Targets(items) = {}
        BY <1>5, <2>1 DEF FindsFit, T
    <2>3. CASE hasMore
        <3>1. n = PageSize /\ Len(w.found) >= PageSize
            BY <1>2, <1>3, <2>3 DEF hasMore
        <3>2. Marked(w.found[PageSize].path, h.steady, T \cup Upto(w.found, PageSize), h)
            BY <2>1, <3>1 DEF FindsFit, T
        <3> QED BY <1>5, <1>6, <1>8, <2>2, <2>3, <3>1, <3>2
    <2>4. CASE ~hasMore
        <3>1. ~w.stopped
            BY <1>1, <1>2, <1>12, <2>4 DEF Shape, Bounded, hasMore
        <3>2. Top(w).todo = {} /\ Sound(w, h.steady, used)
            BY <2>1, <3>1
        <3>3. Targets(items) = Targets(w.found)
            BY <1>3, <1>5, <2>4 DEF Upto, Targets
        <3>4. ASSUME NEW route \in Routes, Along(route, h.steady), ~RenamedIn(Ends(route), h)
              PROVE  Ends(route) \in T \cup Targets(items)
            <4>1. Ends(route) \in w.files
                BY <1>1, <3>2, <3>4, AllIsSeen
            <4> QED BY <2>1, <3>3, <3>4, <4>1 DEF FindsFit, T
        <3> QED BY <1>8, <2>2, <2>4, <3>4 DEF Whole
    <2> QED BY <2>3, <2>4
<1>13. next # <<>> => items # <<>> /\ Last(items).path = next
    BY <1>6, <1>8
<1> QED BY <1>9, <1>10, <1>11, <1>12, <1>13 DEF PageFits, T, a

-----------------------------------------------------------------------------
(* While the listing goes on, less has been there all along and more has   *)
(* come; and a disk that has changed is not at rest again.                 *)

Later(h, k) ==
    /\ k.steady \subseteq h.steady /\ h.was \subseteq k.was /\ h.appeared \subseteq k.appeared
    /\ k.was \ k.appeared \subseteq h.was \ h.appeared
    /\ AtRest(k) => AtRest(h)
SameList(v, u) == u.items = v.items /\ u.next = v.next /\ u.partial = v.partial

LEMMA RenamedStays ==
    ASSUME NEW h, NEW k, Later(h, k), NEW f, RenamedIn(f, h)
    PROVE  RenamedIn(f, k)
<1>1. PICK route \in Routes : /\ Ends(route) = f /\ Along(route, h.was)
                              /\ ~Along(route, h.was \ h.appeared)
    BY DEF RenamedIn
<1>2. Along(route, k.was) /\ ~Along(route, k.was \ k.appeared)
    BY <1>1 DEF Along, Later
<1> QED BY <1>1, <1>2 DEF RenamedIn

LEMMA MarkedStays ==
    ASSUME NEW h, NEW k, Later(h, k), NEW path, NEW there, NEW there2 \in SUBSET there,
           NEW targets, Marked(path, there, targets, h)
    PROVE  Marked(path, there2, targets, k)
<1>1. PICK mk : Covered(mk, path, there, targets, h)
    BY DEF Marked
<1>2. MarkKnows(mk, there2)
    BY <1>1 DEF Covered, MarkKnows
<1>3. MarkCame(mk, k.was)
    BY <1>1 DEF Covered, MarkCame, Later
<1>4. \A f \in Seen(mk) \cap Notebooks : f \in targets \/ RenamedIn(f, k)
    BY <1>1, RenamedStays DEF Covered
<1>5. AtRest(k) => targets \subseteq Seen(mk)
    BY <1>1 DEF Covered, Later
<1>6. Covered(mk, path, there2, targets, k)
    BY <1>1, <1>2, <1>3, <1>4, <1>5 DEF Covered
<1> QED BY <1>6 DEF Marked

LEMMA WholeStays ==
    ASSUME NEW h, NEW k, Later(h, k), NEW targets, Whole(targets, h)
    PROVE  Whole(targets, k)
<1> SUFFICES ASSUME NEW route \in Routes, Along(route, k.steady), ~RenamedIn(Ends(route), k)
             PROVE  Ends(route) \in targets
    BY DEF Whole
<1>1. Along(route, h.steady)
    BY DEF Along, Later
<1>2. ~RenamedIn(Ends(route), h)
    BY RenamedStays
<1> QED BY <1>1, <1>2 DEF Whole

LEMMA ListStays ==
    ASSUME NEW h, NEW k, Later(h, k), NEW v, NEW u, SameList(v, u), NEW d, NEW d2,
           d2 \subseteq d \cup k.appeared, NEW O, ListFits(O, d, h, v)
    PROVE  ListFits(O, d2, k, u)
<1>1. u.items \in Seq(Item) /\ d2 \subseteq O \cup k.appeared
    BY DEF ListFits, Later, SameList
<1>2. ASSUME u.next # <<>>, ~u.partial
      PROVE  Marked(u.next, O, Targets(u.items), k)
    <2>1. Marked(u.next, O, Targets(u.items), h)
        BY <1>2 DEF SameList, ListFits
    <2> QED BY <2>1, MarkedStays
<1> QED BY <1>1, <1>2 DEF ListFits

LEMMA WalkStays ==
    ASSUME NEW h, NEW k, Later(h, k), NEW v, NEW u, SameList(v, u), NEW O, NEW w,
           WalkFits(w, O, h, v)
    PROVE  WalkFits(w, O, k, u)
<1>1. Shape(w) /\ Ordered(w) /\ w.after = u.next
    BY DEF WalkFits, SameList
<1> SUFFICES ASSUME ~w.partial, ~u.partial
             PROVE  /\ ~w.stopped => Sound(w, k.steady, k.was \cap (O \cup k.appeared))
                    /\ FindsFit(w, k, u)
    BY <1>1 DEF WalkFits
<1>2. /\ ~w.stopped => Sound(w, h.steady, h.was \cap (O \cup h.appeared))
      /\ FindsFit(w, h, v)
    BY DEF WalkFits, SameList
<1>3. ~w.stopped => Sound(w, k.steady, k.was \cap (O \cup k.appeared))
    <2>1. h.was \cap (O \cup h.appeared) \subseteq k.was \cap (O \cup k.appeared)
        BY DEF Later
    <2>2. k.steady \in SUBSET h.steady
        BY DEF Later
    <2> QED BY <1>2, <2>1, <2>2, SoundLater
<1>4. Targets(u.items) = Targets(v.items)
    BY DEF SameList
<1>5. w.passed => \A f \in w.files : f \in Targets(u.items) \cup Targets(w.found) \/ RenamedIn(f, k)
    BY <1>2, <1>4, RenamedStays DEF FindsFit
<1>6. /\ w.passed /\ AtRest(k) => Targets(u.items) \cup Targets(w.found) \subseteq w.files
      /\ AtRest(k) => Distinct(w.found) /\ Targets(u.items) \cap Targets(w.found) = {}
    BY <1>2, <1>4 DEF FindsFit, Later
<1>7. ASSUME Len(w.found) >= PageSize
      PROVE  Marked(w.found[PageSize].path, k.steady, Targets(u.items) \cup Upto(w.found, PageSize), k)
    <2>1. Marked(w.found[PageSize].path, h.steady, Targets(u.items) \cup Upto(w.found, PageSize), h)
        BY <1>2, <1>4, <1>7 DEF FindsFit
    <2>2. k.steady \in SUBSET h.steady
        BY DEF Later
    <2> QED BY <2>1, <2>2, MarkedStays
<1> QED BY <1>3, <1>5, <1>6, <1>7 DEF FindsFit

LEMMA PageStays ==
    ASSUME NEW h, NEW k, Later(h, k), NEW v, NEW u, SameList(v, u), NEW a, PageFits(a, h, v)
    PROVE  PageFits(a, k, u)
<1>1. /\ a \in PageRecord /\ InOrder(a.items)
      /\ a.items # <<>> /\ u.next # <<>> => Before(u.next, a.items[1].path)
      /\ a.next # <<>> => a.items # <<>> /\ Last(a.items).path = a.next
    BY DEF PageFits, SameList
<1> SUFFICES ASSUME ~a.partial, ~u.partial
             PROVE  /\ a.next # <<>> => Marked(a.next, k.steady, Targets(u.items) \cup Targets(a.items), k)
                    /\ a.next = <<>> => Whole(Targets(u.items) \cup Targets(a.items), k)
                    /\ AtRest(k) => Distinct(a.items) /\ Targets(u.items) \cap Targets(a.items) = {}
    BY <1>1 DEF PageFits
<1> DEFINE targets == Targets(u.items) \cup Targets(a.items)
<1>2. Targets(u.items) = Targets(v.items)
    BY DEF SameList
<1>3. /\ a.next # <<>> => Marked(a.next, h.steady, targets, h)
      /\ a.next = <<>> => Whole(targets, h)
      /\ AtRest(h) => Distinct(a.items) /\ Targets(u.items) \cap Targets(a.items) = {}
    BY <1>2 DEF PageFits, SameList
<1>4. AtRest(k) => Distinct(a.items) /\ Targets(u.items) \cap Targets(a.items) = {}
    BY <1>3 DEF Later
<1>5. k.steady \in SUBSET h.steady
    BY DEF Later
<1>6. a.next # <<>> => Marked(a.next, k.steady, targets, k)
    BY <1>3, <1>5, MarkedStays
<1>7. a.next = <<>> => Whole(targets, k)
    BY <1>3, WholeStays
<1> QED BY <1>4, <1>6, <1>7

-----------------------------------------------------------------------------
(* The requests of the launcher, and the invariant.  Only the last request *)
(* can still reach the list, and only while it is not aborted.             *)

RequestRecord ==
    [after : Path, append : BOOLEAN, at : {"asked", "walk", "answer", "over"},
     walk : WalkRecord \cup {Nothing}, answer : PageRecord \cup FailureRecord \cup {Nothing},
     aborted : BOOLEAN]
ViewRecord ==
    [phase : {"discovering", "ready", "error"}, items : Seq(Item), next : Path,
     partial : BOOLEAN, more : BOOLEAN, shown : BOOLEAN]

Runs(r) ==
    /\ r \in RequestRecord
    /\ r.at = "walk" => Shape(r.walk)
    /\ r.at = "answer" => r.answer \in PageRecord \cup FailureRecord
RequestsFit(rs) ==
    /\ rs \in Seq(RequestRecord)
    /\ \A i \in 1 .. Len(rs) : Runs(rs[i]) /\ (i # Len(rs) => rs[i].aborted)

Live(rs) == rs # <<>> /\ ~rs[Len(rs)].aborted /\ rs[Len(rs)].at # "over"
RequestFits(r, O, h, v) ==
    /\ r.after = v.next /\ (v.next = <<>> => v.items = <<>>)
    /\ ~r.append => v.next = <<>> /\ ~v.partial
    /\ r.at = "walk" => WalkFits(r.walk, O, h, v)
    /\ r.at = "answer" /\ r.answer.ok => PageFits(r.answer, h, v)
Joined(rs, O, d, h, v) ==
    ListFits(O, d, h, v) /\ (Live(rs) => RequestFits(rs[Len(rs)], O, h, v))

Ended(v) == v.phase = "ready" /\ ~v.more /\ v.next = <<>> /\ ~v.partial
ViewFits(h, v) ==
    /\ v \in ViewRecord /\ InOrder(v.items)
    /\ v.next # <<>> => v.items # <<>> /\ Last(v.items).path = v.next
    /\ Ended(v) => Whole(Targets(v.items), h)
    /\ AtRest(h) /\ ~v.partial => Distinct(v.items)

LauncherInv ==
    /\ HistoryFits(disk, past) /\ RequestsFit(requests) /\ ViewFits(past, view)
    /\ \E O : Joined(requests, O, disk, past, view)

OneChanges(rs, i, r, rs2) ==
    /\ RequestsFit(rs2) /\ Len(rs2) = Len(rs) /\ rs2[i] = r
    /\ i # Len(rs) => rs2[Len(rs)] = rs[Len(rs)]

LEMMA RequestChanges ==
    ASSUME NEW rs, RequestsFit(rs), NEW i \in 1 .. Len(rs), NEW r, Runs(r),
           r.aborted = rs[i].aborted, NEW rs2, rs2 = [rs EXCEPT ![i] = r]
    PROVE  OneChanges(rs, i, r, rs2)
<1>1. rs \in Seq(RequestRecord) /\ r \in RequestRecord /\ Len(rs) \in Nat
    BY DEF RequestsFit, Runs
<1> HIDE DEF RequestRecord
<1>2. /\ rs2 \in Seq(RequestRecord) /\ Len(rs2) = Len(rs) /\ rs2[i] = r
      /\ \A j \in 1 .. Len(rs) : j # i => rs2[j] = rs[j]
    BY <1>1
<1>3. \A j \in 1 .. Len(rs) : Runs(rs2[j]) /\ (j # Len(rs) => rs2[j].aborted)
    BY <1>2 DEF RequestsFit
<1>4. i # Len(rs) => rs2[Len(rs)] = rs[Len(rs)]
    <2>1. Len(rs) \in 1 .. Len(rs)
        BY <1>1
    <2> QED BY <1>2, <2>1
<1> QED BY <1>2, <1>3, <1>4 DEF RequestsFit, OneChanges

LEMMA RequestStaysJoined ==
    ASSUME NEW rs, RequestsFit(rs), NEW i \in 1 .. Len(rs), rs[i].at # "over", NEW r, Runs(r),
           r.aborted = rs[i].aborted, NEW rs2, rs2 = [rs EXCEPT ![i] = r],
           NEW O, NEW d, NEW h, NEW v, Joined(rs, O, d, h, v),
           r.at # "over" /\ RequestFits(rs[i], O, h, v) => RequestFits(r, O, h, v)
    PROVE  Joined(rs2, O, d, h, v)
<1>1. RequestsFit(rs2) /\ Len(rs2) = Len(rs) /\ rs2[i] = r /\ (i # Len(rs) => rs2[Len(rs)] = rs[Len(rs)])
    <2>1. OneChanges(rs, i, r, rs2)
        BY RequestChanges
    <2> QED BY <2>1 DEF OneChanges
<1>2. rs # <<>>
    BY DEF RequestsFit
<1>3. ASSUME Live(rs2) PROVE RequestFits(rs2[Len(rs2)], O, h, v)
    <2>1. CASE i = Len(rs)
        BY <1>1, <1>2, <1>3, <2>1 DEF Joined, Live
    <2>2. CASE i # Len(rs)
        BY <1>1, <1>2, <1>3, <2>2 DEF Joined, Live
    <2> QED BY <2>1, <2>2
<1> QED BY <1>3 DEF Joined

(* The requests before are cancelled. *)
LEMMA CancelledFit ==
    ASSUME NEW rs, RequestsFit(rs), NEW cs, cs = [i \in DOMAIN rs |-> [rs[i] EXCEPT !.aborted = TRUE]]
    PROVE  /\ RequestsFit(cs) /\ ~Live(cs) /\ Len(cs) = Len(rs)
           /\ \A i \in 1 .. Len(cs) : cs[i].aborted
<1>1. rs \in Seq(RequestRecord) /\ Len(rs) \in Nat /\ DOMAIN rs = 1 .. Len(rs)
    BY DEF RequestsFit
<1>2. ASSUME NEW i \in 1 .. Len(rs)
      PROVE  Runs([rs[i] EXCEPT !.aborted = TRUE]) /\ [rs[i] EXCEPT !.aborted = TRUE].aborted = TRUE
    <2> DEFINE r == [rs[i] EXCEPT !.aborted = TRUE]
    <2>1. rs[i] \in RequestRecord /\ Runs(rs[i])
        BY <1>1 DEF RequestsFit
    <2>2. /\ r \in RequestRecord /\ r.at = rs[i].at /\ r.walk = rs[i].walk /\ r.answer = rs[i].answer
          /\ r.aborted = TRUE
        BY <2>1 DEF RequestRecord
    <2> QED BY <2>1, <2>2 DEF Runs
<1>3. \A i \in 1 .. Len(rs) : cs[i] = [rs[i] EXCEPT !.aborted = TRUE]
    BY <1>1
<1>4. \A i \in 1 .. Len(rs) : Runs(cs[i]) /\ cs[i].aborted
    BY <1>2, <1>3
<1>5. cs \in Seq(RequestRecord) /\ Len(cs) = Len(rs)
    <2>1. \A i \in 1 .. Len(rs) : cs[i] \in RequestRecord
        BY <1>4 DEF Runs
    <2>2. DOMAIN cs = 1 .. Len(rs) /\ cs = [i \in 1 .. Len(rs) |-> cs[i]]
        BY <1>1
    <2> HIDE DEF RequestRecord
    <2> QED BY <1>1, <2>1, <2>2
<1>6. ~Live(cs)
    <2>1. CASE Len(cs) = 0
        BY <1>5, <2>1 DEF Live
    <2>2. CASE Len(cs) # 0
        <3>1. Len(cs) \in 1 .. Len(rs)
            BY <1>1, <1>5, <2>2
        <3> QED BY <1>4, <3>1 DEF Live
    <2> QED BY <2>1, <2>2
<1> QED BY <1>4, <1>5, <1>6 DEF RequestsFit

LEMMA RequestAdded ==
    ASSUME NEW cs, RequestsFit(cs), \A i \in 1 .. Len(cs) : cs[i].aborted, NEW r, Runs(r),
           NEW rs2, rs2 = Append(cs, r)
    PROVE  RequestsFit(rs2) /\ rs2[Len(rs2)] = r /\ rs2 # <<>>
<1>1. cs \in Seq(RequestRecord) /\ r \in RequestRecord /\ Len(cs) \in Nat
    BY DEF RequestsFit, Runs
<1> HIDE DEF RequestRecord
<1>2. /\ rs2 \in Seq(RequestRecord) /\ Len(rs2) = Len(cs) + 1 /\ rs2[Len(cs) + 1] = r /\ rs2 # <<>>
      /\ \A i \in 1 .. Len(cs) : rs2[i] = cs[i]
    BY <1>1
<1>3. \A i \in 1 .. Len(rs2) : Runs(rs2[i]) /\ (i # Len(rs2) => rs2[i].aborted)
    <2> SUFFICES ASSUME NEW i \in 1 .. Len(rs2) PROVE Runs(rs2[i]) /\ (i # Len(rs2) => rs2[i].aborted)
        OBVIOUS
    <2>1. CASE i = Len(rs2)
        BY <1>2, <2>1
    <2>2. CASE i # Len(rs2)
        <3>1. i \in 1 .. Len(cs)
            BY <1>1, <1>2, <2>2
        <3> QED BY <1>2, <3>1 DEF RequestsFit
    <2> QED BY <2>1, <2>2
<1> QED BY <1>2, <1>3 DEF RequestsFit

LEMMA PageIsRecord ==
    ASSUME DiscoveryAssumption, NEW w \in WalkRecord
    PROVE  Page(w) \in PageRecord
<1> DEFINE hasMore == Len(w.found) > PageSize
           n == IF hasMore THEN PageSize ELSE Len(w.found)
           items == SubSeq(w.found, 1, n)
           next == IF hasMore THEN Last(items).path ELSE <<>>
<1>1. /\ w.found \in Seq(Item) /\ w.partial \in BOOLEAN /\ Len(w.found) \in Nat
      /\ PageSize \in Nat \ {0}
    BY DEF WalkRecord, DiscoveryAssumption
<1>2. n \in 0 .. Len(w.found) /\ (hasMore => n = PageSize)
    BY <1>1
<1>3. Page(w) = [ok |-> TRUE, items |-> items, partial |-> w.partial, next |-> next]
    BY DEF Page
<1>4. items \in Seq(Item) /\ Len(items) = n
    <2>1. items = SubSeq(w.found, 1, n)
        OBVIOUS
    <2> HIDE DEF items, n
    <2>2. FirstOf(items, w.found, n)
        BY <1>1, <1>2, <2>1, FirstOfThem
    <2> QED BY <2>2 DEF FirstOf
<1>5. next \in Path
    <2> HIDE DEF items, n
    <2>1. CASE hasMore
        <3>1. Len(items) \in 1 .. Len(items)
            BY <1>1, <1>2, <1>4, <2>1
        <3>2. items[Len(items)] \in Item
            BY <1>4, <3>1
        <3> QED BY <2>1, <3>2 DEF Item, Last
    <2>2. CASE ~hasMore
        BY <2>2 DEF Path
    <2> QED BY <2>1, <2>2
<1> HIDE DEF items, next
<1> QED BY <1>1, <1>3, <1>4, <1>5 DEF PageRecord

-----------------------------------------------------------------------------
(* The steps. *)

(* One request moves on, and nothing else. *)
LEMMA OneMoves ==
    ASSUME LauncherInv, NEW i \in DOMAIN requests, requests[i].at # "over", NEW r, Runs(r),
           r.aborted = requests[i].aborted, requests' = [requests EXCEPT ![i] = r],
           UNCHANGED <<disk, view, past>>,
           \A O : ListFits(O, disk, past, view) /\ r.at # "over" /\ RequestFits(requests[i], O, past, view)
                     => RequestFits(r, O, past, view)
    PROVE  LauncherInv'
<1>1. PICK O : Joined(requests, O, disk, past, view)
    BY DEF LauncherInv
<1>2. RequestsFit(requests) /\ i \in 1 .. Len(requests)
    BY DEF LauncherInv, RequestsFit
<1>3. RequestsFit(requests')
    <2>1. OneChanges(requests, i, r, requests')
        BY <1>2, RequestChanges
    <2> QED BY <2>1 DEF OneChanges
<1>4. r.at # "over" /\ RequestFits(requests[i], O, past, view) => RequestFits(r, O, past, view)
    BY <1>1 DEF Joined
<1>5. Joined(requests', O, disk, past, view)
    BY <1>1, <1>2, <1>4, RequestStaysJoined
<1>6. \E P : Joined(requests', P, disk', past', view')
    BY <1>5
<1>7. HistoryFits(disk', past') /\ ViewFits(past', view')
    BY DEF LauncherInv
<1> QED BY <1>3, <1>6, <1>7 DEF LauncherInv

LEMMA WalkOfRequest ==
    ASSUME DiscoveryAssumption, LauncherInv, NEW i \in DOMAIN requests, requests[i].at = "walk"
    PROVE  requests[i] \in RequestRecord /\ Shape(requests[i].walk)
<1>1. RequestsFit(requests) /\ i \in 1 .. Len(requests)
    BY DEF LauncherInv, RequestsFit
<1> QED BY <1>1 DEF RequestsFit, Runs

(* A request is answered. *)
LEMMA WalkAnswersKeeps ==
    ASSUME DiscoveryAssumption, LauncherInv, NEW i \in DOMAIN requests, requests[i].at \in {"asked", "walk"},
           NEW a \in PageRecord \cup FailureRecord, Answers(i, a), UNCHANGED <<disk, view, past>>,
           \A O : a.ok /\ ListFits(O, disk, past, view) /\ RequestFits(requests[i], O, past, view)
                     => PageFits(a, past, view)
    PROVE  LauncherInv'
<1> DEFINE r == [requests[i] EXCEPT !.at = "answer", !.walk = Nothing, !.answer = a]
<1>1. requests[i] \in RequestRecord /\ requests \in Seq(RequestRecord)
    BY DEF LauncherInv, RequestsFit
<1>2. /\ r \in RequestRecord /\ r.at = "answer" /\ r.answer = a /\ r.aborted = requests[i].aborted
      /\ r.after = requests[i].after /\ r.append = requests[i].append
    BY <1>1 DEF RequestRecord
<1>3. requests' = [requests EXCEPT ![i] = r]
    BY DEF Answers
<1> HIDE DEF r
<1>4. Runs(r)
    BY <1>2 DEF Runs
<1>5. ASSUME NEW O, ListFits(O, disk, past, view), RequestFits(requests[i], O, past, view)
      PROVE  RequestFits(r, O, past, view)
    <2>1. a.ok => PageFits(a, past, view)
        BY <1>5
    <2> QED BY <1>2, <1>5, <2>1 DEF RequestFits
<1> QED BY <1>2, <1>3, <1>4, <1>5, OneMoves

(* A walk goes on, or is through. *)
LEMMA WalkGoesKeeps ==
    ASSUME DiscoveryAssumption, LauncherInv, NEW i \in DOMAIN requests, requests[i].at = "walk",
           NEW x \in WalkRecord, x.stack # <<>> => Shape(x), Goes(i, x), UNCHANGED <<disk, view, past>>,
           \A O : ListFits(O, disk, past, view) /\ WalkFits(requests[i].walk, O, past, view) =>
                     /\ x.stack # <<>> => WalkFits(x, O, past, view)
                     /\ x.stack = <<>> /\ x.passed => PageFits(Page(x), past, view)
    PROVE  LauncherInv'
<1>1. requests[i] \in RequestRecord /\ requests \in Seq(RequestRecord)
    BY DEF LauncherInv, RequestsFit
<1>2. CASE x.stack = <<>>
    <2> DEFINE a == Result(x)
    <2>1. Page(x) \in PageRecord /\ Failure("stale") \in FailureRecord
        BY PageIsRecord DEF Failure, FailureRecord
    <2>2. a \in PageRecord \cup FailureRecord
        BY <2>1 DEF Result
    <2>3. Answers(i, a)
        BY <1>2 DEF Goes
    <2>4. a.ok => x.passed /\ a = Page(x)
        BY DEF Result, Failure
    <2> HIDE DEF a
    <2>5. ASSUME NEW O, a.ok, ListFits(O, disk, past, view), RequestFits(requests[i], O, past, view)
          PROVE  PageFits(a, past, view)
        BY <1>2, <2>4, <2>5 DEF RequestFits
    <2> QED BY <2>2, <2>3, <2>5, WalkAnswersKeeps
<1>3. CASE x.stack # <<>>
    <2> DEFINE r == [requests[i] EXCEPT !.walk = x]
    <2>1. requests' = [requests EXCEPT ![i] = r]
        BY <1>1, <1>3 DEF Goes
    <2>2. /\ r \in RequestRecord /\ r.at = "walk" /\ r.walk = x /\ r.aborted = requests[i].aborted
          /\ r.after = requests[i].after /\ r.append = requests[i].append
        BY <1>1 DEF RequestRecord
    <2> HIDE DEF r
    <2>3. Runs(r)
        BY <1>3, <2>2 DEF Runs
    <2>4. ASSUME NEW O, ListFits(O, disk, past, view), RequestFits(requests[i], O, past, view)
          PROVE  RequestFits(r, O, past, view)
        BY <1>3, <2>2, <2>4 DEF RequestFits
    <2> QED BY <2>1, <2>2, <2>3, <2>4, OneMoves
<1> QED BY <1>2, <1>3

LEMMA ResolveKeeps ==
    ASSUME DiscoveryAssumption, LauncherInv, NEW i \in DOMAIN requests, Resolve(i)
    PROVE  LauncherInv'
<1>1. requests[i].at = "asked" /\ UNCHANGED <<disk, view, past>>
    BY DEF Resolve
<1>2. requests[i] \in RequestRecord /\ requests \in Seq(RequestRecord)
    BY DEF LauncherInv, RequestsFit
<1>3. requests[i].after \in Path
    BY <1>2 DEF RequestRecord
<1>4. CASE Answers(i, Failure("unavailable"))
    <2>1. Failure("unavailable") \in FailureRecord /\ ~Failure("unavailable").ok
        BY DEF Failure, FailureRecord
    <2> HIDE DEF Failure
    <2> QED BY <1>1, <1>4, <2>1, WalkAnswersKeeps
<1>5. CASE requests' = [requests EXCEPT ![i] = [@ EXCEPT !.at = "walk", !.walk = Walk(requests[i].after)]]
    <2> DEFINE w == Walk(requests[i].after)
               r == [requests[i] EXCEPT !.at = "walk", !.walk = w]
    <2>1. Shape(w) /\ w \in WalkRecord
        BY <1>3, WalkHasShape DEF Shape
    <2>2. requests' = [requests EXCEPT ![i] = r]
        BY <1>5
    <2> HIDE DEF w
    <2>3. /\ r \in RequestRecord /\ r.at = "walk" /\ r.walk = w /\ r.aborted = requests[i].aborted
          /\ r.after = requests[i].after /\ r.append = requests[i].append
        BY <1>2, <2>1 DEF RequestRecord
    <2> HIDE DEF r
    <2>4. Runs(r)
        BY <2>1, <2>3 DEF Runs
    <2>5. ASSUME NEW O, ListFits(O, disk, past, view), RequestFits(requests[i], O, past, view)
          PROVE  RequestFits(r, O, past, view)
        <3>1. WalkFits(w, O, past, view)
            BY <1>3, <2>5, WalkBeginsFit DEF RequestFits, ListFits, w
        <3> QED BY <2>3, <2>5, <3>1 DEF RequestFits
    <2> QED BY <1>1, <2>2, <2>3, <2>4, <2>5, OneMoves
<1> QED BY <1>4, <1>5 DEF Resolve

LEMMA ListKeeps ==
    ASSUME DiscoveryAssumption, LauncherInv, NEW i \in DOMAIN requests, List(i)
    PROVE  LauncherInv'
<1> DEFINE w == requests[i].walk  entries == Listing(Top(requests[i].walk).dir)
<1>1. requests[i].at = "walk" /\ ~Top(w).listed /\ UNCHANGED <<disk, view, past>>
    BY DEF List, Quiet, Scanning
<1>2. Shape(w) /\ HistoryFits(disk, past)
    BY <1>1, WalkOfRequest DEF LauncherInv
<1>3. \/ Goes(i, Listed(w, entries))
      \/ Len(w.stack) > 1 /\ Goes(i, Omits(Left(w)))
      \/ Answers(i, Failure("unavailable"))
    BY DEF List
<1>4. entries = {e \in disk : e.in = Top(w).dir} /\ entries \in SUBSET Entries /\ Unique(entries)
    BY <1>2 DEF Listing, HistoryFits, Unique
<1> HIDE DEF w, entries
<1>5. CASE Goes(i, Listed(w, entries))
    <2> DEFINE x == Listed(w, entries)
    <2>1. x \in WalkRecord /\ x.stack # <<>>
        BY <1>2, <1>4, ListedFacts
    <2>2. Shape(x)
        BY <1>2, <1>4, ListedKeepsShape
    <2>3. \A O : ListFits(O, disk, past, view) /\ WalkFits(w, O, past, view) => WalkFits(x, O, past, view)
        BY <1>1, <1>2, <1>4, ListedFits
    <2> HIDE DEF x
    <2>4. Goes(i, x)
        BY <1>5 DEF x
    <2> QED BY <1>1, <2>1, <2>2, <2>3, <2>4, WalkGoesKeeps DEF w
<1>6. CASE Len(w.stack) > 1 /\ Goes(i, Omits(Left(w)))
    <2> DEFINE x == Omits(Left(w))
    <2>1. Depth(w) > 1
        BY <1>6 DEF Depth
    <2>2. Shape(x)
        BY <1>2, <2>1, LeftKeepsShape, OmitsKeepsShape
    <2>3. \A O : WalkFits(w, O, past, view) => WalkFits(x, O, past, view)
        BY <2>1, LeftFits
    <2> HIDE DEF x
    <2>4. x \in WalkRecord /\ x.stack # <<>>
        BY <2>2, TopFacts
    <2>5. Goes(i, x)
        BY <1>6 DEF x
    <2> QED BY <1>1, <2>2, <2>3, <2>4, <2>5, WalkGoesKeeps DEF w
<1>7. CASE Answers(i, Failure("unavailable"))
    <2>1. Failure("unavailable") \in FailureRecord /\ ~Failure("unavailable").ok
        BY DEF Failure, FailureRecord
    <2> HIDE DEF Failure
    <2> QED BY <1>1, <1>7, <2>1, WalkAnswersKeeps
<1> QED BY <1>3, <1>5, <1>6, <1>7

LEMMA ScanKeeps ==
    ASSUME DiscoveryAssumption, LauncherInv, NEW i \in DOMAIN requests, Scan(i)
    PROVE  LauncherInv'
<1> DEFINE w == requests[i].walk
<1>1. requests[i].at = "walk" /\ Top(w).listed /\ UNCHANGED <<disk, view, past>>
    BY DEF Scan, Scanning
<1>2. Shape(w) /\ HistoryFits(disk, past)
    BY <1>1, WalkOfRequest DEF LauncherInv
<1>3. Goes(i, IF w.stopped \/ Top(w).todo = {} THEN Left(w) ELSE Examined(w))
    BY DEF Scan
<1> HIDE DEF w
<1>4. CASE ~w.stopped /\ Top(w).todo # {}
    <2> DEFINE x == Examined(w)
    <2>1. Shape(x)
        BY <1>2, <1>4, ExaminedKeepsShape
    <2>2. \A O : ListFits(O, disk, past, view) /\ WalkFits(w, O, past, view) => WalkFits(x, O, past, view)
        BY <1>2, <1>4, ExaminedFits
    <2> HIDE DEF x
    <2>3. x \in WalkRecord /\ x.stack # <<>>
        BY <2>1, TopFacts
    <2>4. Goes(i, x)
        BY <1>3, <1>4 DEF x
    <2> QED BY <1>1, <2>1, <2>2, <2>3, <2>4, WalkGoesKeeps DEF w
<1>5. CASE w.stopped \/ Top(w).todo = {}
    <2> DEFINE x == Left(w)
    <2>1. /\ x \in WalkRecord /\ Depth(x) = Depth(w) - 1 /\ (x.stack = <<>> <=> Depth(w) = 1)
          /\ x.found = w.found /\ x.partial = w.partial /\ x.passed = w.passed
        BY <1>2, LeftFacts
    <2>2. Depth(w) \in Nat /\ Depth(w) >= 1
        BY <1>2, TopFacts
    <2>3. x.stack # <<>> => Shape(x)
        BY <1>2, <2>1, <2>2, LeftKeepsShape
    <2>4. ASSUME NEW O, WalkFits(w, O, past, view), x.stack # <<>>
          PROVE  WalkFits(x, O, past, view)
        <3>1. Depth(w) > 1
            BY <2>1, <2>2, <2>4
        <3> QED BY <1>1, <1>5, <2>4, <3>1, LeftFits DEF w
    <2>5. Goes(i, x)
        BY <1>3, <1>5
    <2> HIDE DEF x
    <2>6. ASSUME NEW O, WalkFits(w, O, past, view), x.stack = <<>>, x.passed
          PROVE  PageFits(Page(x), past, view)
        BY <1>1, <1>5, <2>1, <2>6, PageOfWalkFits DEF w
    <2> QED BY <1>1, <2>1, <2>3, <2>4, <2>5, <2>6, WalkGoesKeeps DEF w
<1> QED BY <1>4, <1>5

(* One page after the other. *)
Joins(s, t, u) ==
    /\ u \in Seq(Item) /\ Targets(u) = Targets(s) \cup Targets(t)
    /\ (s # <<>> /\ t # <<>> => Before(Last(s).path, t[1].path)) /\ InOrder(s) /\ InOrder(t)
          => InOrder(u)
    /\ Distinct(s) /\ Distinct(t) /\ Targets(s) \cap Targets(t) = {} => Distinct(u)
    /\ t # <<>> => u # <<>> /\ Last(u) = Last(t)
    /\ s = <<>> => u = t

LEMMA PagesJoin ==
    ASSUME NEW s \in Seq(Item), NEW t \in Seq(Item), NEW u, u = s \o t
    PROVE  Joins(s, t, u)
<1> DEFINE m == Len(s)  n == Len(t)
<1>1. m \in Nat /\ n \in Nat /\ (m = 0 <=> s = <<>>) /\ (n = 0 <=> t = <<>>)
    BY EmptySeq
<1> HIDE DEF Item
<1>2. /\ u \in Seq(Item) /\ Len(u) = m + n
      /\ \A k \in 1 .. m : u[k] = s[k]
      /\ \A k \in 1 .. n : u[m + k] = t[k]
    <2>1. u \in Seq(Item) /\ Len(u) = m + n
        OBVIOUS
    <2>2. ASSUME NEW k \in 1 .. m PROVE u[k] = s[k]
        OBVIOUS
    <2>3. ASSUME NEW k \in 1 .. n PROVE u[m + k] = t[k]
        OBVIOUS
    <2> QED BY <2>1, <2>2, <2>3
<1> HIDE DEF m, n
<1>3. ASSUME NEW k \in 1 .. Len(u)
      PROVE  k \in 1 .. m \/ (k - m \in 1 .. n /\ k = m + (k - m))
    BY <1>1, <1>2
<1>4. \A k \in 1 .. n : m + k \in 1 .. Len(u)
    BY <1>1, <1>2
<1>5. \A k \in 1 .. m : k \in 1 .. Len(u)
    BY <1>1, <1>2
<1>6. Targets(u) = Targets(s) \cup Targets(t)
    <2>1. ASSUME NEW k \in 1 .. Len(u) PROVE u[k].to \in Targets(s) \cup Targets(t)
        <3>1. CASE k \in 1 .. m
            BY <1>2, <3>1 DEF Targets, m
        <3>2. CASE k - m \in 1 .. n /\ k = m + (k - m)
            <4>1. u[k] = t[k - m]
                BY <1>2, <3>2
            <4> QED BY <3>2, <4>1 DEF Targets, n
        <3> QED BY <1>3, <3>1, <3>2
    <2>2. ASSUME NEW k \in 1 .. m PROVE s[k].to \in Targets(u)
        BY <1>2, <1>5 DEF Targets
    <2>3. ASSUME NEW k \in 1 .. n PROVE t[k].to \in Targets(u)
        BY <1>2, <1>4 DEF Targets
    <2>4. Targets(u) \subseteq Targets(s) \cup Targets(t)
        BY <2>1 DEF Targets
    <2>5. Targets(s) \subseteq Targets(u)
        BY <2>2 DEF Targets, m
    <2>6. Targets(t) \subseteq Targets(u)
        BY <2>3 DEF Targets, n
    <2> QED BY <2>4, <2>5, <2>6
<1>7. ASSUME s # <<>> /\ t # <<>> => Before(Last(s).path, t[1].path), InOrder(s), InOrder(t)
      PROVE  InOrder(u)
    <2> SUFFICES ASSUME NEW k \in 1 .. Len(u) - 1 PROVE Before(u[k].path, u[k + 1].path)
        BY DEF InOrder
    <2>1. CASE k \in 1 .. m - 1
        <3>1. k \in 1 .. m /\ k + 1 \in 1 .. m
            BY <1>1, <2>1
        <3> QED BY <1>2, <1>7, <2>1, <3>1 DEF InOrder, m
    <2>2. CASE k = m
        <3>1. m # 0 /\ n # 0 /\ m \in 1 .. m /\ 1 \in 1 .. n
            BY <1>1, <1>2, <2>2
        <3>2. u[k] = s[m] /\ u[k + 1] = t[1] /\ Last(s) = s[m]
            BY <1>2, <2>2, <3>1 DEF Last, m
        <3> QED BY <1>1, <1>7, <3>1, <3>2
    <2>3. CASE k > m
        <3> DEFINE j == k - m
        <3>1. j \in 1 .. n - 1 /\ j \in 1 .. n /\ j + 1 \in 1 .. n /\ k = m + j /\ k + 1 = m + (j + 1)
            BY <1>1, <1>2, <2>3
        <3>2. u[k] = t[j] /\ u[k + 1] = t[j + 1]
            BY <1>2, <3>1
        <3> QED BY <1>7, <3>1, <3>2 DEF InOrder, n
    <2> QED BY <1>1, <1>2, <2>1, <2>2, <2>3
<1>8. ASSUME Distinct(s), Distinct(t), Targets(s) \cap Targets(t) = {}
      PROVE  Distinct(u)
    <2> SUFFICES ASSUME NEW j \in 1 .. Len(u), NEW k \in 1 .. Len(u), u[j].to = u[k].to
                 PROVE  j = k
        BY DEF Distinct
    <2>1. \A i \in 1 .. m : s[i].to \in Targets(s)
        BY DEF Targets, m
    <2>2. \A i \in 1 .. n : t[i].to \in Targets(t)
        BY DEF Targets, n
    <2>3. \A i \in 1 .. Len(u) : i - m \in 1 .. n /\ i = m + (i - m) => u[i] = t[i - m]
        BY <1>2
    <2>4. CASE j \in 1 .. m /\ k \in 1 .. m
        BY <1>2, <1>8, <2>4 DEF Distinct, m
    <2>5. CASE j \in 1 .. m /\ k - m \in 1 .. n /\ k = m + (k - m)
        BY <1>2, <1>8, <2>1, <2>2, <2>3, <2>5
    <2>6. CASE k \in 1 .. m /\ j - m \in 1 .. n /\ j = m + (j - m)
        BY <1>2, <1>8, <2>1, <2>2, <2>3, <2>6
    <2>7. CASE /\ j - m \in 1 .. n /\ j = m + (j - m)
               /\ k - m \in 1 .. n /\ k = m + (k - m)
        <3>1. t[j - m].to = t[k - m].to
            BY <2>3, <2>7
        <3>2. j - m = k - m
            BY <1>8, <2>7, <3>1 DEF Distinct, n
        <3> QED BY <2>7, <3>2
    <2> QED BY <1>3, <2>4, <2>5, <2>6, <2>7
<1>9. ASSUME t # <<>> PROVE u # <<>> /\ Last(u) = Last(t)
    <2>1. n \in 1 .. n /\ Len(u) = m + n /\ Len(u) # 0
        BY <1>1, <1>2, <1>9
    <2>2. u[Len(u)] = t[n]
        BY <1>2, <2>1
    <2> QED BY <2>1, <2>2 DEF Last, n
<1>10. s = <<>> => u = t
    OBVIOUS
<1> QED BY <1>2, <1>6, <1>7, <1>8, <1>9, <1>10 DEF Joins

(* The page has come. *)
LEMMA ShownKeeps ==
    ASSUME DiscoveryAssumption, LauncherInv, NEW r, Live(requests), r = requests[Len(requests)],
           r.at = "answer", r.answer.ok, view' = Shown(r), UNCHANGED <<disk, past>>
    PROVE  /\ ViewFits(past', view')
           /\ \E O : ListFits(O, disk', past', view')
<1> DEFINE a == r.answer  v == Shown(r)  u == view.items \o r.answer.items
<1>1. PICK O : Joined(requests, O, disk, past, view)
    BY DEF LauncherInv
<1>2. /\ view \in ViewRecord /\ InOrder(view.items) /\ view.items \in Seq(Item)
      /\ view.next # <<>> => view.items # <<>> /\ Last(view.items).path = view.next
      /\ AtRest(past) /\ ~view.partial => Distinct(view.items)
    BY DEF LauncherInv, ViewFits, ViewRecord
<1>3. /\ view.next = <<>> => view.items = <<>>
      /\ ~r.append => view.next = <<>> /\ ~view.partial
      /\ PageFits(a, past, view)
    BY <1>1 DEF Joined, RequestFits
<1>4. r \in RequestRecord
    <2>1. requests \in Seq(RequestRecord) /\ Len(requests) \in 1 .. Len(requests)
        BY DEF LauncherInv, RequestsFit, Live
    <2> HIDE DEF RequestRecord
    <2> QED BY <2>1
<1>5. /\ a \in PageRecord /\ a.items \in Seq(Item) /\ a.partial \in BOOLEAN /\ a.next \in Path
      /\ r.append \in BOOLEAN
    BY <1>3, <1>4 DEF PageFits, PageRecord, RequestRecord
<1> HIDE DEF a
<1>6. Joins(view.items, a.items, u)
    BY <1>2, <1>5, PagesJoin DEF a
<1> HIDE DEF u
<1>7. u = IF r.append THEN view.items \o a.items ELSE a.items
    <2>1. CASE r.append
        BY <2>1 DEF u, a
    <2>2. CASE ~r.append
        BY <1>3, <1>6, <2>2 DEF Joins
    <2> QED BY <2>1, <2>2
<1>8. /\ v \in ViewRecord /\ v.phase = "ready" /\ ~v.more /\ v.next = a.next /\ v.items = u
      /\ ~v.partial => ~a.partial /\ ~view.partial
    <2> DEFINE partial == Partial(r)
    <2>1. partial \in BOOLEAN /\ (~partial => ~a.partial /\ ~view.partial)
        BY <1>2, <1>3, <1>5 DEF Partial, a, ViewRecord
    <2>2. v = [view EXCEPT !.phase = "ready", !.more = FALSE, !.next = a.next, !.items = u,
                           !.partial = partial]
        BY <1>2, <1>7 DEF Shown, a, ViewRecord
    <2> HIDE DEF partial, v
    <2>3. u \in Seq(Item)
        BY <1>6 DEF Joins
    <2>4. v \in ViewRecord
        BY <1>2, <1>5, <2>1, <2>2, <2>3 DEF ViewRecord
    <2>5. v.phase = "ready" /\ ~v.more /\ v.next = a.next /\ v.items = u /\ v.partial = partial
        BY <1>2, <2>2 DEF ViewRecord
    <2> QED BY <2>1, <2>4, <2>5
<1> HIDE DEF v
<1>9. InOrder(u)
    <2>1. ASSUME view.items # <<>>, a.items # <<>> PROVE Before(Last(view.items).path, a.items[1].path)
        <3>1. view.next # <<>> /\ Last(view.items).path = view.next
            BY <1>2, <1>3, <2>1
        <3> QED BY <1>3, <2>1, <3>1 DEF PageFits
    <2> QED BY <1>2, <1>3, <1>6, <2>1 DEF Joins, PageFits
<1>10. Targets(u) = Targets(view.items) \cup Targets(a.items)
    BY <1>6 DEF Joins
<1>11. v.next # <<>> => u # <<>> /\ Last(u).path = v.next
    BY <1>3, <1>6, <1>8 DEF Joins, PageFits
<1>12. Ended(v) => Whole(Targets(u), past)
    BY <1>3, <1>8, <1>10 DEF Ended, PageFits
<1>13. AtRest(past) /\ ~v.partial => Distinct(u)
    BY <1>2, <1>3, <1>6, <1>8 DEF PageFits, Joins
<1>14. ViewFits(past, v)
    BY <1>8, <1>9, <1>11, <1>12, <1>13 DEF ViewFits
<1>15. ListFits(past.steady, disk, past, v)
    <2>1. disk \subseteq past.steady \cup past.appeared
        BY DEF LauncherInv, HistoryFits
    <2>2. v.next # <<>> /\ ~v.partial => Marked(v.next, past.steady, Targets(u), past)
        BY <1>3, <1>8, <1>10 DEF PageFits
    <2> QED BY <1>6, <1>8, <2>1, <2>2 DEF ListFits, Joins
<1>16. disk' = disk /\ past' = past /\ view' = v
    BY DEF v
<1> QED BY <1>14, <1>15, <1>16

LEMMA OverRuns ==
    ASSUME NEW r \in RequestRecord
    PROVE  Runs(Over(r)) /\ Over(r).at = "over" /\ Over(r).aborted = r.aborted
<1>1. r.aborted \in BOOLEAN /\ <<>> \in Path
    BY DEF RequestRecord, Path
<1> DEFINE q == Request(<<>>, FALSE)
<1>4. Over(r) = [[q EXCEPT !.at = "over"] EXCEPT !.aborted = r.aborted]
    BY DEF Over
<1>5. q = [after |-> <<>>, append |-> FALSE, at |-> "asked", walk |-> Nothing,
           answer |-> Nothing, aborted |-> FALSE]
    BY DEF Request
<1> HIDE DEF q
<1>2. Over(r) = [after |-> <<>>, append |-> FALSE, at |-> "over", walk |-> Nothing,
                 answer |-> Nothing, aborted |-> r.aborted]
    BY <1>4, <1>5
<1>3. Over(r) \in RequestRecord /\ Over(r).at = "over" /\ Over(r).aborted = r.aborted
    BY <1>1, <1>2 DEF RequestRecord
<1> QED BY <1>3 DEF Runs

LEMMA AbandonKeeps ==
    ASSUME DiscoveryAssumption, LauncherInv, NEW i \in DOMAIN requests, requests[i].at # "over",
           requests' = [requests EXCEPT ![i] = Over(requests[i])], UNCHANGED <<disk, view, past>>
    PROVE  LauncherInv'
<1> DEFINE r == Over(requests[i])
<1>1. requests[i] \in RequestRecord
    BY DEF LauncherInv, RequestsFit
<1>2. Runs(r) /\ r.at = "over" /\ r.aborted = requests[i].aborted
    BY <1>1, OverRuns
<1>3. requests' = [requests EXCEPT ![i] = r]
    OBVIOUS
<1> HIDE DEF r
<1> QED BY <1>2, <1>3, OneMoves

LEMMA DeliverKeeps ==
    ASSUME DiscoveryAssumption, LauncherInv, NEW i \in DOMAIN requests, DeliverAnswer(i)
    PROVE  LauncherInv'
<1> DEFINE r == requests[i]  rest == [requests EXCEPT ![i] = Over(requests[i])]
<1>1. requests \in Seq(RequestRecord) /\ i \in 1 .. Len(requests) /\ r \in RequestRecord
      /\ RequestsFit(requests)
    BY DEF LauncherInv, RequestsFit
<1>2. r.at = "answer" /\ disk' = disk
    BY DEF DeliverAnswer
<1>3. ~IsStaleCursor(Thrown(r.answer.why))
    BY DEF IsStaleCursor, FailureDetails, Thrown
<1>4. CASE Outdated(i)
    <2>1. requests' = rest /\ UNCHANGED <<view, past>>
        BY <1>4 DEF DeliverAnswer
    <2> QED BY <1>2, <2>1, AbandonKeeps
<1>5. CASE ~Outdated(i)
    <2>1. /\ requests' = rest /\ UNCHANGED past
          /\ \/ r.answer.ok /\ view' = Shown(r)
             \/ view' = [view EXCEPT !.phase = "error", !.more = FALSE]
        BY <1>3, <1>5 DEF DeliverAnswer
    <2>2. i = Len(requests) /\ ~r.aborted
        BY <1>5 DEF Outdated
    <2>3. Runs(Over(r)) /\ Over(r).at = "over" /\ Over(r).aborted = r.aborted
        BY <1>1, OverRuns
    <2>4. RequestsFit(rest) /\ ~Live(rest)
        <3>1. OneChanges(requests, i, Over(r), rest)
            BY <1>1, <2>3, RequestChanges
        <3> QED BY <2>2, <2>3, <3>1 DEF OneChanges, Live
    <2>5. Live(requests) /\ r = requests[Len(requests)]
        BY <1>1, <1>2, <2>2 DEF Live
    <2> HIDE DEF r, rest
    <2>6. HistoryFits(disk, past) /\ HistoryFits(disk', past')
        BY <1>2, <2>1 DEF LauncherInv
    <2>7. CASE r.answer.ok /\ view' = Shown(r)
        <3>1. ViewFits(past', view') /\ \E O : ListFits(O, disk', past', view')
            BY <1>2, <2>1, <2>5, <2>7, ShownKeeps
        <3>2. \E O : Joined(requests', O, disk', past', view')
            BY <2>1, <2>4, <3>1 DEF Joined
        <3> QED BY <2>1, <2>4, <2>6, <3>1, <3>2 DEF LauncherInv
    <2>8. CASE view' = [view EXCEPT !.phase = "error", !.more = FALSE]
        <3> DEFINE v == [view EXCEPT !.phase = "error", !.more = FALSE]
        <3>1. ViewFits(past, view) /\ view \in ViewRecord
            BY DEF LauncherInv, ViewFits
        <3>2. /\ v \in ViewRecord /\ v.phase = "error" /\ v.items = view.items
              /\ v.next = view.next /\ v.partial = view.partial
            BY <3>1 DEF ViewRecord
        <3>3. view' = v
            BY <2>8
        <3> HIDE DEF v
        <3>4. ViewFits(past, v)
            BY <3>1, <3>2 DEF ViewFits, Ended
        <3>5. PICK O : ListFits(O, disk, past, view)
            BY DEF LauncherInv, Joined
        <3>6. ListFits(O, disk, past, v)
            BY <3>2, <3>5 DEF ListFits
        <3>7. Joined(rest, O, disk, past, v)
            BY <2>4, <3>6 DEF Joined
        <3>8. ViewFits(past', view')
            BY <2>1, <3>3, <3>4
        <3>9. \E P : Joined(requests', P, disk', past', view')
            BY <1>2, <2>1, <3>3, <3>7
        <3> QED BY <2>1, <2>4, <2>6, <3>8, <3>9 DEF LauncherInv
    <2> QED BY <2>1, <2>7, <2>8
<1> QED BY <1>4, <1>5

(* A listing begins. *)
LEMMA BeginsFit ==
    ASSUME NEW shown \in BOOLEAN, NEW v, v = [NoView EXCEPT !.shown = shown], NEW d \in SUBSET Entries,
           NEW h, HistoryFits(d, h)
    PROVE  /\ ViewFits(h, v) /\ \E O : ListFits(O, d, h, v)
           /\ v.next = <<>> /\ v.items = <<>> /\ ~v.partial
<1>1. <<>> \in Path /\ <<>> \in Seq(Item) /\ Len(<<>>) = 0
    BY DEF Path
<1>2. v = [phase |-> "discovering", items |-> <<>>, next |-> <<>>, partial |-> FALSE,
           more |-> FALSE, shown |-> shown]
    BY DEF NoView
<1>7. v \in ViewRecord
    <2>1. ASSUME NEW e, e \in Path, e \in Seq(Item), NEW x, x = [phase |-> "discovering", items |-> e,
                 next |-> e, partial |-> FALSE, more |-> FALSE, shown |-> shown]
          PROVE  x \in ViewRecord
        BY <2>1 DEF ViewRecord
    <2> QED BY <1>1, <1>2, <2>1
<1>8. v.phase = "discovering" /\ v.next = <<>> /\ v.items = <<>> /\ ~v.partial
    BY <1>2
<1>9. Len(v.items) = 0
    BY <1>1, <1>8
<1>3. /\ v \in ViewRecord /\ v.phase = "discovering" /\ v.next = <<>> /\ v.items = <<>> /\ ~v.partial
      /\ Len(v.items) = 0
    BY <1>7, <1>8, <1>9
<1>4. InOrder(v.items) /\ Distinct(v.items)
    BY <1>3 DEF InOrder, Distinct
<1>5. ViewFits(h, v)
    BY <1>3, <1>4 DEF ViewFits, Ended
<1>6. ListFits(d, d, h, v)
    BY <1>1, <1>3 DEF ListFits
<1> QED BY <1>3, <1>5, <1>6

LEMMA BeganFits ==
    ASSUME DiscoveryAssumption, HistoryFits(disk, past)
    PROVE  HistoryFits(disk, Began)
<1> DEFINE h == Began
<1>1. h \in PastRecord /\ h.steady = disk /\ h.was = disk /\ h.appeared = {}
    BY DEF HistoryFits, PastRecord, Began
<1> HIDE DEF h
<1>2. HistoryFits(disk, h)
    BY <1>1 DEF HistoryFits
<1> QED BY <1>2 DEF h

LEMMA RequestKeeps ==
    ASSUME DiscoveryAssumption, LauncherInv, NEW after \in Path, NEW append \in BOOLEAN,
           NEW shown \in BOOLEAN, RequestDiscovery(after, append, shown),
           IF append THEN after = view.next /\ after # <<>> ELSE after = <<>>
    PROVE  LauncherInv'
<1> DEFINE r == Request(after, append)
<1>1. RequestsFit(requests) /\ HistoryFits(disk, past) /\ ViewFits(past, view)
    BY DEF LauncherInv
<1>2. /\ requests' = Append(Cancelled, r) /\ disk' = disk
      /\ view' = IF append THEN [view EXCEPT !.phase = "ready", !.more = TRUE]
                 ELSE [NoView EXCEPT !.shown = shown]
      /\ past' = IF append THEN past ELSE Began
    BY DEF RequestDiscovery
<1>3. RequestsFit(Cancelled) /\ \A i \in 1 .. Len(Cancelled) : Cancelled[i].aborted
    <2>1. Cancelled = [i \in DOMAIN requests |-> [requests[i] EXCEPT !.aborted = TRUE]]
        BY DEF Cancelled
    <2> QED BY <1>1, <2>1, CancelledFit
<1>4. /\ r \in RequestRecord /\ r.at = "asked" /\ r.after = after /\ r.append = append
    BY DEF Request, RequestRecord
<1> HIDE DEF r
<1>5. Runs(r)
    BY <1>4 DEF Runs
<1>6. RequestsFit(requests') /\ requests'[Len(requests')] = r /\ requests' # <<>>
    BY <1>2, <1>3, <1>5, RequestAdded
<1>7. CASE append
    <2> DEFINE v == [view EXCEPT !.phase = "ready", !.more = TRUE]
    <2>1. view \in ViewRecord
        BY <1>1 DEF ViewFits
    <2>2. /\ v \in ViewRecord /\ v.more /\ v.items = view.items
          /\ v.next = view.next /\ v.partial = view.partial
        BY <2>1 DEF ViewRecord
    <2>3. view' = v /\ past' = past
        BY <1>2, <1>7
    <2> HIDE DEF v
    <2>4. ViewFits(past, v)
        BY <1>1, <2>2 DEF ViewFits, Ended
    <2>5. PICK O : ListFits(O, disk, past, view)
        BY DEF LauncherInv, Joined
    <2>6. ListFits(O, disk, past, v)
        BY <2>2, <2>5 DEF ListFits
    <2>7. RequestFits(r, O, past, v)
        BY <1>4, <1>7, <2>2 DEF RequestFits
    <2>8. Joined(requests', O, disk', past', view')
        BY <1>2, <1>6, <2>3, <2>6, <2>7 DEF Joined
    <2>9. HistoryFits(disk', past') /\ ViewFits(past', view')
        BY <1>1, <1>2, <2>3, <2>4
    <2> QED BY <1>6, <2>8, <2>9 DEF LauncherInv
<1>8. CASE ~append
    <2> DEFINE v == [NoView EXCEPT !.shown = shown]
    <2>1. view' = v /\ past' = Began
        BY <1>2, <1>8
    <2>2. HistoryFits(disk, Began)
        BY <1>1, BeganFits
    <2>3. disk \in SUBSET Entries
        BY <1>1 DEF HistoryFits
    <2>4. /\ ViewFits(Began, v) /\ \E O : ListFits(O, disk, Began, v)
          /\ v.next = <<>> /\ v.items = <<>> /\ ~v.partial
        BY <2>2, <2>3, BeginsFit
    <2> HIDE DEF v
    <2>5. \A O : RequestFits(r, O, Began, v)
        BY <1>4, <1>8, <2>4 DEF RequestFits
    <2>6. \E O : Joined(requests', O, disk', past', view')
        BY <1>2, <1>6, <2>1, <2>4, <2>5 DEF Joined
    <2>7. HistoryFits(disk', past') /\ ViewFits(past', view')
        BY <1>2, <2>1, <2>2, <2>4
    <2> QED BY <1>6, <2>6, <2>7 DEF LauncherInv
<1> QED BY <1>7, <1>8

LEMMA HideKeeps ==
    ASSUME DiscoveryAssumption, LauncherInv, Hide
    PROVE  LauncherInv'
<1> DEFINE v == [view EXCEPT !.shown = FALSE]
<1>1. RequestsFit(requests) /\ HistoryFits(disk, past) /\ ViewFits(past, view)
    BY DEF LauncherInv
<1>2. requests' = Cancelled /\ view' = v /\ disk' = disk /\ past' = past
    BY DEF Hide
<1>3. RequestsFit(Cancelled) /\ ~Live(Cancelled)
    <2>1. Cancelled = [i \in DOMAIN requests |-> [requests[i] EXCEPT !.aborted = TRUE]]
        BY DEF Cancelled
    <2> QED BY <1>1, <2>1, CancelledFit
<1>4. view \in ViewRecord
    BY <1>1 DEF ViewFits
<1>5. /\ v \in ViewRecord /\ v.phase = view.phase /\ v.more = view.more /\ v.items = view.items
      /\ v.next = view.next /\ v.partial = view.partial
    BY <1>4 DEF ViewRecord
<1> HIDE DEF v
<1>6. ViewFits(past, v)
    BY <1>1, <1>5 DEF ViewFits, Ended
<1>7. PICK O : ListFits(O, disk, past, view)
    BY DEF LauncherInv, Joined
<1>8. ListFits(O, disk, past, v)
    BY <1>5, <1>7 DEF ListFits
<1>9. Joined(requests', O, disk', past', view')
    BY <1>2, <1>3, <1>8 DEF Joined
<1>10. HistoryFits(disk', past') /\ ViewFits(past', view')
    BY <1>1, <1>2, <1>6
<1> QED BY <1>2, <1>3, <1>9, <1>10 DEF LauncherInv

LEMMA DiskKeeps ==
    ASSUME DiscoveryAssumption, LauncherInv, DiskChanges
    PROVE  LauncherInv'
<1>1. RequestsFit(requests) /\ HistoryFits(disk, past) /\ ViewFits(past, view)
    BY DEF LauncherInv
<1>2. requests' = requests /\ view' = view
    BY DEF DiskChanges
<1>3. HistoryFits(disk', past') /\ Later(past, past') /\ disk' \subseteq disk \cup past'.appeared
    <2>1. past \in PastRecord /\ past.changes + 1 \in Nat
        BY <1>1 DEF HistoryFits, PastRecord
    <2>2. CASE \E e \in disk : /\ disk' = disk \ {e}
                               /\ past' = [past EXCEPT !.steady = @ \ {e}, !.changes = @ + 1]
        <3>1. PICK e \in disk : /\ disk' = disk \ {e}
                                /\ past' = [past EXCEPT !.steady = @ \ {e}, !.changes = @ + 1]
            BY <2>2
        <3>2. /\ past' \in PastRecord /\ past'.steady = past.steady \ {e} /\ past'.was = past.was
              /\ past'.appeared = past.appeared
            BY <2>1, <3>1 DEF PastRecord
        <3>3. e \in past'.was /\ e \notin past'.steady
            BY <1>1, <3>2 DEF HistoryFits
        <3>4. Unique(disk')
            BY <1>1, <3>1 DEF HistoryFits, Unique
        <3>5. HistoryFits(disk', past')
            BY <1>1, <3>1, <3>2, <3>4 DEF HistoryFits
        <3>6. Later(past, past')
            BY <3>2, <3>3 DEF Later, AtRest
        <3> QED BY <3>1, <3>5, <3>6
    <2>3. CASE \E e \in Entries \ disk :
                  /\ disk' = disk \cup {e} /\ Unique(disk')
                  /\ past' = [past EXCEPT !.was = @ \cup {e}, !.appeared = @ \cup {e}, !.changes = @ + 1]
        <3>1. PICK e \in Entries \ disk :
                  /\ disk' = disk \cup {e} /\ Unique(disk')
                  /\ past' = [past EXCEPT !.was = @ \cup {e}, !.appeared = @ \cup {e}, !.changes = @ + 1]
            BY <2>3
        <3>2. /\ past' \in PastRecord /\ past'.steady = past.steady /\ past'.was = past.was \cup {e}
              /\ past'.appeared = past.appeared \cup {e}
            BY <2>1, <3>1 DEF PastRecord
        <3>3. e \in past'.was /\ e \notin past'.steady
            BY <1>1, <3>2 DEF HistoryFits
        <3>4. HistoryFits(disk', past')
            BY <1>1, <3>1, <3>2, <3>3 DEF HistoryFits
        <3>5. Later(past, past')
            BY <3>2, <3>3 DEF Later, AtRest
        <3> QED BY <3>1, <3>2, <3>4, <3>5
    <2> QED BY <2>2, <2>3 DEF DiskChanges
<1>4. SameList(view, view)
    BY DEF SameList
<1>5. PICK O : Joined(requests, O, disk, past, view)
    BY DEF LauncherInv
<1>6. ListFits(O, disk', past', view)
    BY <1>3, <1>4, <1>5, ListStays DEF Joined
<1>7. ASSUME Live(requests) PROVE RequestFits(requests[Len(requests)], O, past', view)
    <2> DEFINE r == requests[Len(requests)]
    <2>1. RequestFits(r, O, past, view)
        BY <1>5, <1>7 DEF Joined
    <2> HIDE DEF r
    <2>2. r.at = "walk" => WalkFits(r.walk, O, past', view)
        BY <1>3, <1>4, <2>1, WalkStays DEF RequestFits
    <2>3. r.at = "answer" /\ r.answer.ok => PageFits(r.answer, past', view)
        BY <1>3, <1>4, <2>1, PageStays DEF RequestFits
    <2>4. RequestFits(r, O, past', view)
        BY <2>1, <2>2, <2>3 DEF RequestFits
    <2> QED BY <2>4 DEF r
<1>8. \E P : Joined(requests', P, disk', past', view')
    BY <1>2, <1>6, <1>7 DEF Joined
<1>9. ViewFits(past', view)
    <2>1. Ended(view) => Whole(Targets(view.items), past')
        BY <1>1, <1>3, WholeStays DEF ViewFits
    <2>2. AtRest(past') => AtRest(past)
        BY <1>3 DEF Later
    <2> QED BY <1>1, <2>1, <2>2 DEF ViewFits
<1>10. ViewFits(past', view')
    BY <1>2, <1>9
<1>11. RequestsFit(requests')
    BY <1>1, <1>2
<1> QED BY <1>3, <1>8, <1>10, <1>11 DEF LauncherInv

-----------------------------------------------------------------------------
(* The invariant holds. *)

LEMMA LauncherStarts ==
    ASSUME DiscoveryAssumption, LauncherInit
    PROVE  LauncherInv
<1>1. disk \subseteq Entries /\ Unique(disk) /\ 0 \in Nat
    BY DEF LauncherInit, DiscoveryAssumption
<1>2. past \in PastRecord /\ past.steady = disk /\ past.was = disk /\ past.appeared = {}
    BY <1>1 DEF LauncherInit, PastRecord
<1>3. HistoryFits(disk, past)
    BY <1>1, <1>2 DEF HistoryFits
<1>4. requests = <<>> /\ view = NoView
    BY DEF LauncherInit
<1>5. requests \in Seq(RequestRecord) /\ Len(requests) = 0
    BY <1>4
<1>6. RequestsFit(requests)
    BY <1>5 DEF RequestsFit
<1>7. view = [NoView EXCEPT !.shown = FALSE]
    <2>1. ASSUME NEW e, NEW no, NEW x, x = [phase |-> "discovering", items |-> e, next |-> e,
                 partial |-> no, more |-> no, shown |-> no]
          PROVE  x = [x EXCEPT !.shown = no]
        BY <2>1
    <2> QED BY <1>4, <2>1 DEF NoView
<1>8. ViewFits(past, view) /\ \E O : ListFits(O, disk, past, view)
    BY <1>1, <1>3, <1>7, BeginsFit
<1>9. ~Live(requests)
    BY <1>4 DEF Live
<1>10. \E O : Joined(requests, O, disk, past, view)
    BY <1>8, <1>9 DEF Joined
<1> QED BY <1>3, <1>6, <1>8, <1>10 DEF LauncherInv

LEMMA LauncherSteps ==
    ASSUME DiscoveryAssumption, LauncherInv, [LauncherNext]_launcherVars
    PROVE  LauncherInv'
<1>1. <<>> \in Path /\ view.next \in Path
    BY DEF LauncherInv, ViewFits, ViewRecord, Path
<1>2. CASE Show
    BY <1>1, <1>2, RequestKeeps DEF Show
<1>3. CASE Hide
    BY <1>3, HideKeeps
<1>4. CASE Refresh
    BY <1>1, <1>4, RequestKeeps DEF Refresh
<1>5. CASE LoadMore
    BY <1>1, <1>5, RequestKeeps DEF LoadMore
<1>6. CASE DiskChanges
    BY <1>6, DiskKeeps
<1>7. ASSUME NEW i \in DOMAIN requests, Resolve(i) PROVE LauncherInv'
    BY <1>7, ResolveKeeps
<1>8. ASSUME NEW i \in DOMAIN requests, List(i) PROVE LauncherInv'
    BY <1>8, ListKeeps
<1>9. ASSUME NEW i \in DOMAIN requests, Scan(i) PROVE LauncherInv'
    BY <1>9, ScanKeeps
<1>10. ASSUME NEW i \in DOMAIN requests, DeliverAnswer(i) PROVE LauncherInv'
    BY <1>10, DeliverKeeps
<1>11. ASSUME NEW i \in DOMAIN requests, AbandonRequest(i) PROVE LauncherInv'
    <2>1. /\ requests[i].at # "over" /\ UNCHANGED <<disk, view, past>>
          /\ requests' = [requests EXCEPT ![i] = Over(requests[i])]
        BY <1>11 DEF AbandonRequest
    <2> QED BY <2>1, AbandonKeeps
<1>12. CASE UNCHANGED launcherVars
    <2>1. disk' = disk /\ requests' = requests /\ view' = view /\ past' = past
        BY <1>12 DEF launcherVars
    <2>2. \E O : Joined(requests', O, disk', past', view')
        BY <2>1 DEF LauncherInv
    <2> QED BY <2>1, <2>2 DEF LauncherInv
<1> QED BY <1>2, <1>3, <1>4, <1>5, <1>6, <1>7, <1>8, <1>9, <1>10, <1>11, <1>12 DEF LauncherNext

-----------------------------------------------------------------------------
(* What it says of the list. *)

LEMMA LauncherTypes ==
    ASSUME DiscoveryAssumption, LauncherInv
    PROVE  LauncherTypeOK
<1>1. HistoryFits(disk, past) /\ RequestsFit(requests) /\ view \in ViewRecord
    BY DEF LauncherInv, ViewFits
<1>2. disk \subseteq Entries /\ Unique(disk) /\ past.steady \subseteq disk /\ past.was \subseteq Entries
    BY <1>1 DEF HistoryFits, PastRecord
<1>3. view.phase \in {"discovering", "ready", "error"}
    BY <1>1 DEF ViewRecord
<1>4. DOMAIN requests = 1 .. Len(requests) /\ requests \in Seq(RequestRecord)
    BY <1>1 DEF RequestsFit
<1>5. ASSUME NEW i \in DOMAIN requests
      PROVE  /\ requests[i].at \in {"asked", "walk", "answer", "over"}
             /\ requests[i].at = "walk" => Shape(requests[i].walk)
             /\ i # Len(requests) => requests[i].aborted
    <2>1. Runs(requests[i]) /\ (i # Len(requests) => requests[i].aborted)
        BY <1>1, <1>4 DEF RequestsFit
    <2>2. requests[i].at \in {"asked", "walk", "answer", "over"}
        BY <2>1 DEF Runs, RequestRecord
    <2> QED BY <2>1, <2>2 DEF Runs
<1>6. ASSUME NEW w, Shape(w)
      PROVE  /\ Len(w.stack) \in 1 .. MaxDepth + 1 /\ w.count =< MaxEntries
             /\ Len(w.found) =< PageSize + 1
    BY <1>6 DEF Shape, Stacked, Bounded, Depth
<1> QED BY <1>2, <1>3, <1>5, <1>6 DEF LauncherTypeOK

LEMMA LauncherSays ==
    ASSUME DiscoveryAssumption, LauncherInv
    PROVE  ListIsOneWalk
<1>1. ViewFits(past, view) /\ view \in ViewRecord
    BY DEF LauncherInv, ViewFits
<1>2. view.items \in Seq(Item) /\ DOMAIN view.items = 1 .. Len(view.items) /\ Len(view.items) \in Nat
    BY <1>1 DEF ViewRecord
<1>3. ListIsInOrder
    <2>1. InOrder(view.items)
        BY <1>1 DEF ViewFits
    <2>2. ASSUME NEW i \in DOMAIN view.items, i + 1 \in DOMAIN view.items
          PROVE  Before(view.items[i].path, view.items[i + 1].path)
        <3>1. i \in 1 .. Len(view.items) - 1
            BY <1>2, <2>2
        <3> QED BY <2>1, <3>1 DEF InOrder
    <2> QED BY <2>2 DEF ListIsInOrder
<1>4. NothingIsMissed
    <2> SUFFICES ASSUME Complete, NEW route \in Routes, Along(route, past.steady), ~Renamed(Ends(route))
                 PROVE  \E i \in DOMAIN view.items : view.items[i].to = Ends(route)
        BY DEF NothingIsMissed
    <2>1. Whole(Targets(view.items), past)
        BY <1>1 DEF Complete, Ended, ViewFits
    <2>2. ~RenamedIn(Ends(route), past)
        BY DEF Renamed, RenamedIn
    <2>3. Ends(route) \in Targets(view.items)
        BY <2>1, <2>2 DEF Whole
    <2> QED BY <1>2, <2>3 DEF Targets
<1>5. AliasesCountOnce
    <2>1. AtRest(past) /\ ~view.partial => Distinct(view.items)
        BY <1>1 DEF ViewFits
    <2> QED BY <1>2, <2>1 DEF AliasesCountOnce, AtRest, Distinct
<1> QED BY <1>3, <1>4, <1>5, LauncherTypes DEF ListIsOneWalk

(* The list the launcher shows is always one walk of the workspace: its    *)
(* pages come from different walks (requestDiscovery, "Load more") of a    *)
(* disk that changes between them, yet they join in the order of the walk, *)
(* miss no notebook unless the list says it is partial, and count the      *)
(* names of a notebook once, for every workspace, page size and bound.     *)
THEOREM ListIsAlwaysOneWalk == LauncherSpec => []ListIsOneWalk
<1>1. LauncherInit => LauncherInv
    BY DiscoveryAssumption, LauncherStarts
<1>2. LauncherInv /\ [LauncherNext]_launcherVars => LauncherInv'
    BY DiscoveryAssumption, LauncherSteps
<1>3. LauncherInv => ListIsOneWalk
    BY DiscoveryAssumption, LauncherSays
<1> QED BY <1>1, <1>2, <1>3, PTL DEF LauncherSpec
=============================================================================
