-------------------------- MODULE NotebookFoldsProofs --------------------------
(***************************************************************************)
(* The folds of a notebook, proved for inputs of any length: the two       *)
(* interpreters of the mutations of a run (OutputMutations), and the       *)
(* browser's builder against the fold of the host, for any log, any        *)
(* batches and any windows (NotebookViews).                                *)
(*                                                                         *)
(* The folds recur.  What they compute is proved by induction on prefixes: *)
(* a set of numbers with 0 and the successor of each of its members is     *)
(* Nat.                                                                    *)
(***************************************************************************)
EXTENDS OutputMutations, NotebookViews, NaturalsInduction, WellFoundedInduction,
        FiniteSetTheorems, TLAPS

(* A set of natural numbers has a least member. *)
LEMMA LeastMember ==
    ASSUME NEW T \in SUBSET Nat, T # {}
    PROVE  \E m \in T : \A k \in T : m <= k
<1> DEFINE R == OpToRel(<, Nat)
<1>1. IsWellFoundedOn(R, Nat)
    BY NatLessThanWellFounded
<1>2. \A x, y \in Nat : <<y, x>> \in R <=> y < x
    BY DEF OpToRel
<1> HIDE DEF R
<1>3. PICK x \in T : \A y \in T : ~(<<y, x>> \in R)
    BY <1>1, WFMin
<1>4. \A y \in T : ~(y < x)
    BY <1>2, <1>3
<1>5. \A y \in T : x <= y
    BY <1>4
<1> QED BY <1>5

(* Induction, for a set instead of a predicate. *)
LEMMA SetInduction ==
    ASSUME NEW T \in SUBSET Nat, 0 \in T, \A n \in T : n + 1 \in T
    PROVE  T = Nat
<1> SUFFICES ASSUME T # Nat PROVE FALSE
    OBVIOUS
<1>1. PICK m \in Nat \ T : \A k \in Nat \ T : m <= k
    <2>1. Nat \ T \in SUBSET Nat /\ Nat \ T # {}
        OBVIOUS
    <2> QED BY <2>1, LeastMember
<1>2. m # 0
    OBVIOUS
<1>3. m - 1 \in Nat /\ m - 1 < m
    BY <1>2
<1>4. m - 1 \in T
    BY <1>1, <1>3
<1>5. (m - 1) + 1 = m
    OBVIOUS
<1> QED BY <1>1, <1>4, <1>5

-----------------------------------------------------------------------------
(* The interpreters recur. *)

(* The rewrite has a state for each prefix, and each follows from the one  *)
(* before it.                                                              *)
LEMMA FileStatesRecur ==
    ASSUME NEW cells, NEW ms \in Seq(Mutation)
    PROVE  /\ FileStates(cells, ms)[0] = [outs |-> <<>>, pending |-> FALSE, cells |-> cells]
           /\ \A n \in 1..Len(ms) : FileStates(cells, ms)[n] = FileStep(FileStates(cells, ms)[n - 1], ms[n])
<1> DEFINE first == [outs |-> <<>>, pending |-> FALSE, cells |-> cells]
           Recurs(g, k) == g = [n \in 0..k |-> IF n = 0 THEN first ELSE FileStep(g[n - 1], ms[n])]
           T == {k \in Nat : \E g : Recurs(g, k)}
<1>1. 0 \in T
    <2>1. Recurs([n \in 0..0 |-> first], 0)
        OBVIOUS
    <2> QED BY <2>1
<1>2. ASSUME NEW k \in T PROVE k + 1 \in T
    <2>1. PICK g : Recurs(g, k)
        OBVIOUS
    <2> HIDE DEF first
    <2> DEFINE h == [n \in 0..k + 1 |-> IF n = k + 1 THEN FileStep(g[k], ms[k + 1]) ELSE g[n]]
    <2>2. k \in Nat
        OBVIOUS
    <2>3. \A n \in 0..k + 1 : h[n] = IF n = 0 THEN first ELSE FileStep(h[n - 1], ms[n])
        <3> SUFFICES ASSUME NEW n \in 0..k + 1
                     PROVE  h[n] = IF n = 0 THEN first ELSE FileStep(h[n - 1], ms[n])
            OBVIOUS
        <3>1. CASE n = 0
            BY <2>1, <2>2, <3>1
        <3>2. CASE n # 0 /\ n # k + 1
            <4>1. n \in 0..k /\ n - 1 \in 0..k + 1 /\ n - 1 # k + 1
                BY <2>2, <3>2
            <4>2. h[n] = g[n] /\ h[n - 1] = g[n - 1]
                BY <3>2, <4>1
            <4>3. g[n] = FileStep(g[n - 1], ms[n])
                BY <2>1, <3>2, <4>1
            <4> QED BY <3>2, <4>2, <4>3
        <3>3. CASE n = k + 1
            <4>1. k \in 0..k + 1 /\ k # k + 1 /\ n # 0 /\ n - 1 = k
                BY <2>2, <3>3
            <4>2. h[k] = g[k]
                BY <4>1
            <4> QED BY <3>3, <4>1, <4>2
        <3> QED BY <3>1, <3>2, <3>3
    <2> HIDE DEF h
    <2>4. h = [n \in 0..k + 1 |-> h[n]]
        BY DEF h
    <2>5. Recurs(h, k + 1)
        BY <2>3, <2>4
    <2> QED BY <2>2, <2>5
<1>3. T = Nat
    <2> HIDE DEF Recurs
    <2>1. T \in SUBSET Nat
        OBVIOUS
    <2> HIDE DEF T
    <2> QED BY <1>1, <1>2, <2>1, SetInduction
<1>4. Len(ms) \in Nat
    OBVIOUS
<1>5. \E g : Recurs(g, Len(ms))
    <2> HIDE DEF Recurs
    <2> QED BY <1>3, <1>4
<1>6. FileStates(cells, ms) = CHOOSE g : Recurs(g, Len(ms))
    BY DEF FileStates
<1>7. Recurs(FileStates(cells, ms), Len(ms))
    <2> HIDE DEF Recurs
    <2> QED BY <1>5, <1>6
<1>8. 0 \in 0..Len(ms) /\ \A n \in 1..Len(ms) : n \in 0..Len(ms) /\ n # 0
    BY <1>4
<1> DEFINE st == FileStates(cells, ms)
<1> HIDE DEF st, first
<1>9. \A n \in 0..Len(ms) : st[n] = IF n = 0 THEN first ELSE FileStep(st[n - 1], ms[n])
    BY <1>7 DEF st
<1>10. st[0] = first /\ \A n \in 1..Len(ms) : st[n] = FileStep(st[n - 1], ms[n])
    BY <1>8, <1>9
<1> QED BY <1>10 DEF st, first

(* So does the fold of the events.                                         *)
LEMMA FoldStatesRecur ==
    ASSUME NEW cells, NEW c, NEW ms \in Seq(Mutation)
    PROVE  /\ FoldStates(cells, c, ms)[0] = [outs |-> <<>>, pending |-> FALSE, cells |-> [cells EXCEPT ![c] = <<>>]]
           /\ \A n \in 1..Len(ms) : FoldStates(cells, c, ms)[n] = FoldStep(FoldStates(cells, c, ms)[n - 1], ms[n], c)
<1> DEFINE first == [outs |-> <<>>, pending |-> FALSE, cells |-> [cells EXCEPT ![c] = <<>>]]
           Recurs(g, k) == g = [n \in 0..k |-> IF n = 0 THEN first ELSE FoldStep(g[n - 1], ms[n], c)]
           T == {k \in Nat : \E g : Recurs(g, k)}
<1>1. 0 \in T
    <2>1. Recurs([n \in 0..0 |-> first], 0)
        OBVIOUS
    <2> QED BY <2>1
<1>2. ASSUME NEW k \in T PROVE k + 1 \in T
    <2>1. PICK g : Recurs(g, k)
        OBVIOUS
    <2> HIDE DEF first
    <2> DEFINE h == [n \in 0..k + 1 |-> IF n = k + 1 THEN FoldStep(g[k], ms[k + 1], c) ELSE g[n]]
    <2>2. k \in Nat
        OBVIOUS
    <2>3. \A n \in 0..k + 1 : h[n] = IF n = 0 THEN first ELSE FoldStep(h[n - 1], ms[n], c)
        <3> SUFFICES ASSUME NEW n \in 0..k + 1
                     PROVE  h[n] = IF n = 0 THEN first ELSE FoldStep(h[n - 1], ms[n], c)
            OBVIOUS
        <3>1. CASE n = 0
            BY <2>1, <2>2, <3>1
        <3>2. CASE n # 0 /\ n # k + 1
            <4>1. n \in 0..k /\ n - 1 \in 0..k + 1 /\ n - 1 # k + 1
                BY <2>2, <3>2
            <4>2. h[n] = g[n] /\ h[n - 1] = g[n - 1]
                BY <3>2, <4>1
            <4>3. g[n] = FoldStep(g[n - 1], ms[n], c)
                BY <2>1, <3>2, <4>1
            <4> QED BY <3>2, <4>2, <4>3
        <3>3. CASE n = k + 1
            <4>1. k \in 0..k + 1 /\ k # k + 1 /\ n # 0 /\ n - 1 = k
                BY <2>2, <3>3
            <4>2. h[k] = g[k]
                BY <4>1
            <4> QED BY <3>3, <4>1, <4>2
        <3> QED BY <3>1, <3>2, <3>3
    <2> HIDE DEF h
    <2>4. h = [n \in 0..k + 1 |-> h[n]]
        BY DEF h
    <2>5. Recurs(h, k + 1)
        BY <2>3, <2>4
    <2> QED BY <2>2, <2>5
<1>3. T = Nat
    <2> HIDE DEF Recurs
    <2>1. T \in SUBSET Nat
        OBVIOUS
    <2> HIDE DEF T
    <2> QED BY <1>1, <1>2, <2>1, SetInduction
<1>4. Len(ms) \in Nat
    OBVIOUS
<1>5. \E g : Recurs(g, Len(ms))
    <2> HIDE DEF Recurs
    <2> QED BY <1>3, <1>4
<1>6. FoldStates(cells, c, ms) = CHOOSE g : Recurs(g, Len(ms))
    BY DEF FoldStates
<1>7. Recurs(FoldStates(cells, c, ms), Len(ms))
    <2> HIDE DEF Recurs
    <2> QED BY <1>5, <1>6
<1>8. 0 \in 0..Len(ms) /\ \A n \in 1..Len(ms) : n \in 0..Len(ms) /\ n # 0
    BY <1>4
<1> DEFINE st == FoldStates(cells, c, ms)
<1> HIDE DEF st, first
<1>9. \A n \in 0..Len(ms) : st[n] = IF n = 0 THEN first ELSE FoldStep(st[n - 1], ms[n], c)
    BY <1>7 DEF st
<1>10. st[0] = first /\ \A n \in 1..Len(ms) : st[n] = FoldStep(st[n - 1], ms[n], c)
    BY <1>8, <1>9
<1> QED BY <1>10 DEF st, first

-----------------------------------------------------------------------------
(* The types of the interpreters' states, and what updates leave alone.    *)

Interpreter == [outs : Seq(KernelOutput), pending : BOOLEAN, cells : [CodeCells -> Seq(KernelOutput)]]

LEMMA MutationLists ==
    ASSUME NEW m \in Mutation
    PROVE  /\ m.op \in {"append", "clear", "update"}
           /\ Adds(m) => m.out \in KernelOutput
           /\ m.op = "clear" => m.wait \in BOOLEAN
           /\ m.op = "update" => m.id \in Ids /\ m.data \in Data
BY DEF Mutation, Adds

(* An update changes data only.                                            *)
LEMMA UpdatesChangeData ==
    ASSUME NEW outs \in Seq(KernelOutput), NEW m \in Mutation, m.op = "update"
    PROVE  /\ Updated(outs, m) \in Seq(KernelOutput)
           /\ Len(Updated(outs, m)) = Len(outs)
           /\ \A i \in DOMAIN outs : /\ Updated(outs, m)[i].type = outs[i].type
                                     /\ Updated(outs, m)[i].id = outs[i].id
           /\ HasError(Updated(outs, m)) <=> HasError(outs)
<1>1. m.data \in Data
    BY MutationLists
<1>2. \A i \in DOMAIN outs : /\ Updated(outs, m)[i] \in KernelOutput
                             /\ Updated(outs, m)[i].type = outs[i].type
                             /\ Updated(outs, m)[i].id = outs[i].id
    <2> SUFFICES ASSUME NEW i \in DOMAIN outs
                 PROVE  /\ Updated(outs, m)[i] \in KernelOutput
                        /\ Updated(outs, m)[i].type = outs[i].type
                        /\ Updated(outs, m)[i].id = outs[i].id
        OBVIOUS
    <2>1. outs[i] \in KernelOutput
        OBVIOUS
    <2> QED BY <1>1, <2>1 DEF Updated, KernelOutput
<1>3. DOMAIN outs = 1..Len(outs) /\ Len(outs) \in Nat
    OBVIOUS
<1>4. Updated(outs, m) \in [1..Len(outs) -> KernelOutput]
    BY <1>2, <1>3 DEF Updated
<1>5. Updated(outs, m) \in Seq(KernelOutput) /\ Len(Updated(outs, m)) = Len(outs)
    BY <1>3, <1>4
<1> QED BY <1>2, <1>3, <1>5 DEF HasError

LEMMA FileStepKeeps ==
    ASSUME NEW st \in Interpreter, NEW m \in Mutation
    PROVE  /\ FileStep(st, m) \in Interpreter
           /\ \A d \in CodeCells : HasError(FileStep(st, m).cells[d]) <=> HasError(st.cells[d])
<1> DEFINE kept == IF st.pending THEN <<>> ELSE st.outs
<1>1. kept \in Seq(KernelOutput) /\ st.outs \in Seq(KernelOutput)
    BY DEF Interpreter
<1>2. CASE Adds(m)
    <2>1. FileStep(st, m) = [st EXCEPT !.outs = Append(kept, m.out), !.pending = FALSE]
        BY <1>2 DEF FileStep, Adds
    <2>2. Append(kept, m.out) \in Seq(KernelOutput)
        BY <1>1, <1>2, MutationLists
    <2> HIDE DEF kept
    <2> QED BY <2>1, <2>2 DEF Interpreter
<1>3. CASE m.op = "clear"
    <2>1. ~Adds(m)
        BY <1>3 DEF Adds
    <2>2. FileStep(st, m) = IF m.wait THEN [st EXCEPT !.pending = TRUE]
                            ELSE [st EXCEPT !.outs = <<>>, !.pending = FALSE]
        BY <1>3, <2>1 DEF FileStep
    <2>3. [st EXCEPT !.pending = TRUE] \in Interpreter
        BY DEF Interpreter
    <2>4. [st EXCEPT !.outs = <<>>, !.pending = FALSE] \in Interpreter
        <3>1. \A o \in Seq(KernelOutput) : [st EXCEPT !.outs = o, !.pending = FALSE] \in Interpreter
            BY DEF Interpreter
        <3>2. <<>> \in Seq(KernelOutput)
            OBVIOUS
        <3> QED BY <3>1, <3>2
    <2>5. FileStep(st, m).cells = st.cells
        BY <2>2 DEF Interpreter
    <2> QED BY <2>2, <2>3, <2>4, <2>5
<1>4. CASE m.op = "update"
    <2> DEFINE cells == [d \in CodeCells |-> Updated(st.cells[d], m)]
               outs == Updated(kept, m)
    <2>1. FileStep(st, m) = [outs |-> outs, pending |-> FALSE, cells |-> cells]
        BY <1>4 DEF FileStep, Adds
    <2>2. \A d \in CodeCells : st.cells[d] \in Seq(KernelOutput)
        BY DEF Interpreter
    <2>3. outs \in Seq(KernelOutput)
        BY <1>1, <1>4, UpdatesChangeData
    <2>4. \A d \in CodeCells : cells[d] \in Seq(KernelOutput) /\ (HasError(cells[d]) <=> HasError(st.cells[d]))
        BY <1>4, <2>2, UpdatesChangeData
    <2>5. cells \in [CodeCells -> Seq(KernelOutput)]
        BY <2>4
    <2> HIDE DEF cells, outs
    <2> QED BY <2>1, <2>3, <2>4, <2>5 DEF Interpreter
<1> QED BY <1>2, <1>3, <1>4, MutationLists DEF Adds

LEMMA FoldStepKeeps ==
    ASSUME NEW c \in CodeCells, NEW st \in Interpreter, NEW m \in Mutation
    PROVE  FoldStep(st, m, c) \in Interpreter
<1> DEFINE outs == IF st.pending /\ m.op # "clear" THEN <<>> ELSE st.outs
           next == CASE Adds(m) -> Append(outs, m.out)
                     [] m.op = "clear" -> IF m.wait THEN outs ELSE <<>>
                     [] m.op = "update" -> Updated(outs, m)
           cells == IF m.op = "update" THEN [d \in CodeCells |-> Updated(st.cells[d], m)] ELSE st.cells
<1>1. FoldStep(st, m, c) = [outs |-> next, pending |-> m.op = "clear" /\ m.wait,
                            cells |-> [cells EXCEPT ![c] = next]]
    BY DEF FoldStep
<1>2. outs \in Seq(KernelOutput)
    BY DEF Interpreter
<1>3. next \in Seq(KernelOutput)
    <2> HIDE DEF outs
    <2>1. CASE Adds(m)
        BY <1>2, <2>1, MutationLists DEF Adds
    <2>2. CASE m.op = "clear"
        BY <1>2, <2>2 DEF Adds
    <2>3. CASE m.op = "update"
        BY <1>2, <2>3, UpdatesChangeData DEF Adds
    <2>4. Adds(m) \/ m.op = "clear" \/ m.op = "update"
        BY MutationLists DEF Adds
    <2> HIDE DEF next
    <2> QED BY <2>1, <2>2, <2>3, <2>4
<1>4. cells \in [CodeCells -> Seq(KernelOutput)]
    <2>1. \A d \in CodeCells : st.cells[d] \in Seq(KernelOutput)
        BY DEF Interpreter
    <2>2. m.op = "update" => \A d \in CodeCells : Updated(st.cells[d], m) \in Seq(KernelOutput)
        BY <2>1, UpdatesChangeData
    <2> QED BY <2>2 DEF Interpreter
<1>5. (m.op = "clear" /\ m.wait) \in BOOLEAN
    OBVIOUS
<1> HIDE DEF outs, next, cells
<1> QED BY <1>1, <1>3, <1>4, <1>5 DEF Interpreter

(* The rewrite of the file keeps the types, and which cells show an error. *)
LEMMA RewriteKeeps ==
    ASSUME NEW cells \in [CodeCells -> Seq(KernelOutput)], NEW ms \in Seq(Mutation)
    PROVE  \A n \in 0..Len(ms) :
              /\ FileStates(cells, ms)[n] \in Interpreter
              /\ \A d \in CodeCells : HasError(FileStates(cells, ms)[n].cells[d]) <=> HasError(cells[d])
<1> DEFINE st == FileStates(cells, ms)
           Held(n) == /\ st[n] \in Interpreter
                      /\ \A d \in CodeCells : HasError(st[n].cells[d]) <=> HasError(cells[d])
           T == {n \in Nat : n <= Len(ms) => Held(n)}
<1> HIDE DEF st
<1>1. /\ st[0] = [outs |-> <<>>, pending |-> FALSE, cells |-> cells]
      /\ \A n \in 1..Len(ms) : st[n] = FileStep(st[n - 1], ms[n])
    BY FileStatesRecur DEF st
<1>2. 0 \in T
    <2>1. <<>> \in Seq(KernelOutput)
        OBVIOUS
    <2>2. st[0] \in Interpreter /\ st[0].cells = cells
        BY <1>1, <2>1 DEF Interpreter
    <2> QED BY <2>2
<1>3. ASSUME NEW n \in T PROVE n + 1 \in T
    <2> SUFFICES ASSUME n + 1 <= Len(ms) PROVE Held(n + 1)
        OBVIOUS
    <2>1. n \in Nat /\ n + 1 \in 1..Len(ms) /\ (n + 1) - 1 = n
        OBVIOUS
    <2>2. Held(n)
        BY <2>1
    <2>3. st[n + 1] = FileStep(st[n], ms[n + 1])
        BY <1>1, <2>1
    <2>4. ms[n + 1] \in Mutation
        BY <2>1
    <2> QED BY <2>2, <2>3, <2>4, FileStepKeeps
<1>4. T = Nat
    <2>1. T \in SUBSET Nat
        OBVIOUS
    <2> HIDE DEF T
    <2> QED BY <1>2, <1>3, <2>1, SetInduction
<1>5. \A n \in 0..Len(ms) : Held(n)
    BY <1>4
<1> QED BY <1>5 DEF st

LEMMA FoldKeeps ==
    ASSUME NEW cells \in [CodeCells -> Seq(KernelOutput)], NEW c \in CodeCells, NEW ms \in Seq(Mutation)
    PROVE  \A n \in 0..Len(ms) : FoldStates(cells, c, ms)[n] \in Interpreter
<1> DEFINE st == FoldStates(cells, c, ms)
           T == {n \in Nat : n <= Len(ms) => st[n] \in Interpreter}
<1> HIDE DEF st
<1>1. /\ st[0] = [outs |-> <<>>, pending |-> FALSE, cells |-> [cells EXCEPT ![c] = <<>>]]
      /\ \A n \in 1..Len(ms) : st[n] = FoldStep(st[n - 1], ms[n], c)
    BY FoldStatesRecur DEF st
<1>2. 0 \in T
    <2>1. [cells EXCEPT ![c] = <<>>] \in [CodeCells -> Seq(KernelOutput)]
        OBVIOUS
    <2>2. st[0] \in Interpreter
        BY <1>1, <2>1 DEF Interpreter
    <2> QED BY <2>2
<1>3. ASSUME NEW n \in T PROVE n + 1 \in T
    <2> SUFFICES ASSUME n + 1 <= Len(ms) PROVE st[n + 1] \in Interpreter
        OBVIOUS
    <2>1. n \in Nat /\ n + 1 \in 1..Len(ms) /\ (n + 1) - 1 = n
        OBVIOUS
    <2>2. st[n + 1] = FoldStep(st[n], ms[n + 1], c)
        BY <1>1, <2>1
    <2>3. ms[n + 1] \in Mutation /\ st[n] \in Interpreter
        BY <2>1
    <2> QED BY <2>2, <2>3, FoldStepKeeps
<1>4. T = Nat
    <2>1. T \in SUBSET Nat
        OBVIOUS
    <2> HIDE DEF T
    <2> QED BY <1>2, <1>3, <2>1, SetInduction
<1> QED BY <1>4 DEF st

-----------------------------------------------------------------------------
LEMMA FailureIsAMutation == [op |-> "append", out |-> Failure] \in Mutation
BY OutputsAssumption DEF Mutation, KernelOutput, Failure

(* The failure is added in the room that is made for it. *)
LEMMA FailureFits ==
    ASSUME NEW ms \in Seq(Mutation), Len(ms) <= MaxItems, NEW failed \in BOOLEAN
    PROVE  WithFailure(ms, failed) \in Seq(Mutation) /\ Len(WithFailure(ms, failed)) <= MaxItems
<1>1. Room(ms) \in Seq(Mutation) /\ Len(Room(ms)) <= MaxItems - 1
    <2>1. CASE Len(ms) >= MaxItems
        <3>1. MaxItems - 1 \in 0..Len(ms)
            BY <2>1, OutputsAssumption
        <3>2. SubSeq(ms, 1, MaxItems - 1) \in Seq(Mutation)
            BY <3>1, OutputsAssumption
        <3>3. Len(SubSeq(ms, 1, MaxItems - 1)) = MaxItems - 1
            BY <3>1, OutputsAssumption
        <3> QED BY <2>1, <3>2, <3>3, OutputsAssumption DEF Room
    <2>2. CASE ~(Len(ms) >= MaxItems)
        BY <2>2, OutputsAssumption DEF Room
    <2> QED BY <2>1, <2>2
<1>2. CASE ~failed \/ \E i \in DOMAIN ms : AddsError(ms[i])
    BY <1>2 DEF WithFailure
<1>3. CASE ~(~failed \/ \E i \in DOMAIN ms : AddsError(ms[i]))
    <2>1. WithFailure(ms, failed) = Append(Room(ms), [op |-> "append", out |-> Failure])
        BY <1>3 DEF WithFailure
    <2> QED BY <1>1, <2>1, FailureIsAMutation, OutputsAssumption
<1> QED BY <1>2, <1>3

(* Types, the limit, and the error a failed run shows in its cell, for     *)
(* every kernel and every limit: an update from another cell changes data  *)
(* only, and the failure is added where no error is left.                  *)
THEOREM FailuresAreShown == OutputsSpec => []FailedRunsShowAnError
<1>1. OutputsInit => FailedRunsShowAnError
    <2>1. <<>> \in Seq(KernelOutput) /\ <<>> \in Seq(Mutation) /\ Len(<<>>) = 0
        OBVIOUS
    <2> QED BY <2>1, OutputsAssumption DEF OutputsInit, FailedRunsShowAnError, OutputsTypeOK, LimitIsKept
<1>2. FailedRunsShowAnError /\ [OutputsNext]_outputVars => FailedRunsShowAnError'
    <2> SUFFICES ASSUME FailedRunsShowAnError, [OutputsNext]_outputVars PROVE FailedRunsShowAnError'
        OBVIOUS
    <2> USE DEF FailedRunsShowAnError, LimitIsKept
    <2>1. ASSUME NEW c \in CodeCells, Start(c) PROVE FailedRunsShowAnError'
        BY <2>1, OutputsAssumption DEF Start, OutputsTypeOK
    <2>2. ASSUME NEW m \in Emits, Emit(m) PROVE FailedRunsShowAnError'
        BY <2>2, OutputsAssumption DEF Emit, OutputsTypeOK
    <2>3. ASSUME NEW ms \in Seq(Mutation), Len(ms) <= MaxItems, running # NoCell,
                 NEW result \in {"ok", "error", "cancelled"}, Publish(ms, result)
          PROVE  FailedRunsShowAnError'
        <3> DEFINE st == FileStates(file, ms)[Len(ms)]
                   fd == FoldStates(shown, running, ms)[Len(ms)]
                   own == FailureShown(st.outs, result # "ok")
        <3>1. file \in [CodeCells -> Seq(KernelOutput)] /\ shown \in [CodeCells -> Seq(KernelOutput)] /\ running \in CodeCells
            BY <2>3 DEF OutputsTypeOK
        <3>2. Len(ms) \in 0..Len(ms)
            OBVIOUS
        <3>3. st \in Interpreter /\ \A d \in CodeCells : HasError(st.cells[d]) <=> HasError(file[d])
            BY <3>1, <3>2, RewriteKeeps
        <3>4. fd \in Interpreter
            BY <3>1, <3>2, FoldKeeps
        <3>5. file' = [st.cells EXCEPT ![running] = own] /\ shown' = fd.cells
            BY <2>3 DEF Publish, Rewritten, Folded
        <3>6. own \in Seq(KernelOutput) /\ (result # "ok" => HasError(own))
            <4>1. st.outs \in Seq(KernelOutput) /\ Failure \in KernelOutput /\ Failure.type = "error"
                BY <3>3, OutputsAssumption DEF Interpreter, KernelOutput, Failure
            <4> HIDE DEF st
            <4>2. Append(st.outs, Failure) \in Seq(KernelOutput) /\ HasError(Append(st.outs, Failure))
                <5>1. Len(st.outs) + 1 \in DOMAIN Append(st.outs, Failure)
                    BY <4>1
                <5>2. Append(st.outs, Failure)[Len(st.outs) + 1] = Failure
                    BY <4>1
                <5> QED BY <4>1, <5>1, <5>2 DEF HasError
            <4> QED BY <4>1, <4>2 DEF FailureShown
        <3> HIDE DEF st, fd, own
        <3>7. /\ muts' = ms /\ runs' = runs /\ running' = NoCell
              /\ status' = [status EXCEPT ![running] = result]
            BY <2>3 DEF Publish
        <3>8. OutputsTypeOK'
            BY <3>1, <3>3, <3>4, <3>5, <3>6, <3>7 DEF OutputsTypeOK, Interpreter
        <3>9. ASSUME NEW c \in CodeCells, status'[c] \in {"error", "cancelled"} PROVE HasError(file'[c])
            <4>1. CASE c = running
                <5>1. result # "ok" /\ file'[c] = own
                    BY <3>1, <3>3, <3>5, <3>7, <3>9, <4>1 DEF OutputsTypeOK, Interpreter
                <5> QED BY <3>6, <5>1
            <4>2. CASE c # running
                <5>1. status[c] \in {"error", "cancelled"} /\ file'[c] = st.cells[c]
                    BY <3>1, <3>3, <3>5, <3>7, <3>9, <4>2 DEF OutputsTypeOK, Interpreter
                <5> QED BY <3>3, <5>1
            <4> QED BY <4>1, <4>2
        <3>10. LimitIsKept'
            BY <2>3, <3>7
        <3> QED BY <3>8, <3>9, <3>10
    <2>4. ASSUME NEW result \in {"ok", "error", "cancelled"}, Finish(result)
          PROVE  FailedRunsShowAnError'
        <3>1. WithFailure(muts, result # "ok") \in Seq(Mutation)
              /\ Len(WithFailure(muts, result # "ok")) <= MaxItems
            BY FailureFits DEF OutputsTypeOK
        <3> QED BY <2>3, <2>4, <3>1 DEF Finish
    <2>5. CASE Discard
        <3> DEFINE ms == <<[op |-> "append", out |-> Failure]>>
        <3>1. ms \in Seq(Mutation) /\ Len(ms) <= MaxItems
            BY FailureIsAMutation, OutputsAssumption
        <3>2. Publish(ms, "error") /\ running # NoCell
            BY <2>5 DEF Discard
        <3> HIDE DEF ms
        <3> QED BY <2>3, <3>1, <3>2
    <2>6. CASE UNCHANGED outputVars
        BY <2>6 DEF outputVars, OutputsTypeOK
    <2> QED BY <2>1, <2>2, <2>4, <2>5, <2>6 DEF OutputsNext
<1> QED BY <1>1, <1>2, PTL DEF OutputsSpec

-----------------------------------------------------------------------------
(* What the first n mutations of a list say.                               *)

TakesEffectBy(ms, n, i) ==
    /\ ms[i].op = "clear"
    /\ ms[i].wait => \E j \in 1..n : j > i /\ ms[j].op # "clear"

StaysBy(ms, n) == {i \in 1..n : Adds(ms[i]) /\
                     ~\E j \in 1..n : j > i /\ TakesEffectBy(ms, n, j)}

Later(ms, n, i, id) == {j \in 1..n : j > i /\ ms[j].op = "update" /\ ms[j].id = id}

LastOf(later) == IF later = {} THEN 0 ELSE CHOOSE j \in later : \A k \in later : k <= j

LastUpdateBy(ms, n, i, id) == LastOf(Later(ms, n, i, id))

LatestBy(ms, n, i, out) ==
    LET j == LastUpdateBy(ms, n, i, out.id)
    IN  IF j = 0 THEN out ELSE [out EXCEPT !.data = ms[j].data]

Pending(ms, n) == n > 0 /\ ms[n].op = "clear" /\ ms[n].wait

(* At the end of the list they say what the list says. *)
LEMMA ByTheEnd ==
    ASSUME NEW ms \in Seq(Mutation)
    PROVE  /\ StaysBy(ms, Len(ms)) = Stays(ms)
           /\ \A i, out : LatestBy(ms, Len(ms), i, out) = Latest(ms, i, out)
<1>1. DOMAIN ms = 1..Len(ms)
    OBVIOUS
<1>2. \A i : TakesEffectBy(ms, Len(ms), i) <=> TakesEffect(ms, i)
    BY <1>1 DEF TakesEffectBy, TakesEffect
<1>3. StaysBy(ms, Len(ms)) = Stays(ms)
    BY <1>1, <1>2 DEF StaysBy, Stays
<1>4. \A i, id : LastUpdateBy(ms, Len(ms), i, id) = LastUpdate(ms, i, id)
    BY <1>1 DEF LastUpdateBy, LastUpdate, LastOf, Later
<1>5. \A i, out : LatestBy(ms, Len(ms), i, out) = Latest(ms, i, out)
    BY <1>4 DEF LatestBy, Latest
<1> QED BY <1>3, <1>5

(* The last update of a display is the next one, when that updates it.     *)
LEMMA NextUpdateIsLast ==
    ASSUME NEW ms \in Seq(Mutation), NEW n \in Nat, n + 1 <= Len(ms), NEW i \in 0..n, NEW id
    PROVE  LastUpdateBy(ms, n + 1, i, id) =
             IF ms[n + 1].op = "update" /\ ms[n + 1].id = id THEN n + 1
             ELSE LastUpdateBy(ms, n, i, id)
<1>1. CASE ~(ms[n + 1].op = "update" /\ ms[n + 1].id = id)
    <2>1. \A j \in 1..n + 1 : j = n + 1 \/ j \in 1..n
        OBVIOUS
    <2>2. \A j \in 1..n : j \in 1..n + 1
        OBVIOUS
    <2>3. Later(ms, n + 1, i, id) = Later(ms, n, i, id)
        BY <1>1, <2>1, <2>2 DEF Later
    <2> QED BY <1>1, <2>3 DEF LastUpdateBy
<1>2. CASE ms[n + 1].op = "update" /\ ms[n + 1].id = id
    <2> DEFINE later == Later(ms, n + 1, i, id)
    <2>1. n + 1 \in later
        BY <1>2 DEF Later
    <2>2. \A k \in later : k \in Nat /\ k <= n + 1
        BY DEF Later
    <2>3. LastUpdateBy(ms, n + 1, i, id) = CHOOSE j \in later : \A k \in later : k <= j
        BY <2>1 DEF LastUpdateBy, LastOf
    <2> HIDE DEF later
    <2>4. \A j \in later : (\A k \in later : k <= j) <=> j = n + 1
        BY <2>1, <2>2
    <2>5. (CHOOSE j \in later : \A k \in later : k <= j) = n + 1
        BY <2>1, <2>4
    <2> QED BY <1>2, <2>3, <2>5
<1> QED BY <1>1, <1>2

LEMMA LatestFollows ==
    ASSUME NEW ms \in Seq(Mutation), NEW n \in Nat, n + 1 <= Len(ms), NEW i \in 0..n,
           NEW out \in KernelOutput
    PROVE  /\ LatestBy(ms, n, i, out).id = out.id
           /\ LatestBy(ms, n + 1, i, out) =
                IF ms[n + 1].op = "update" /\ LatestBy(ms, n, i, out).id = ms[n + 1].id
                THEN [LatestBy(ms, n, i, out) EXCEPT !.data = ms[n + 1].data]
                ELSE LatestBy(ms, n, i, out)
<1> DEFINE m == ms[n + 1]
           last == LatestBy(ms, n, i, out)
<1>1. out = [type |-> out.type, id |-> out.id, data |-> out.data]
    BY DEF KernelOutput
<1>2. \A d : [out EXCEPT !.data = d] = [type |-> out.type, id |-> out.id, data |-> d]
    BY DEF KernelOutput
<1>3. \E d : last = [type |-> out.type, id |-> out.id, data |-> d]
    BY <1>1, <1>2 DEF LatestBy
<1>4. last.id = out.id /\ \A d : [last EXCEPT !.data = d] = [out EXCEPT !.data = d]
    BY <1>2, <1>3
<1>5. CASE m.op = "update" /\ m.id = out.id
    <2>1. LastUpdateBy(ms, n + 1, i, out.id) = n + 1
        BY <1>5, NextUpdateIsLast, Zenon
    <2>2. n + 1 # 0
        OBVIOUS
    <2>3. LatestBy(ms, n + 1, i, out) = [out EXCEPT !.data = m.data]
        BY <2>1, <2>2 DEF LatestBy
    <2> QED BY <1>4, <1>5, <2>3
<1>6. CASE ~(m.op = "update" /\ m.id = out.id)
    <2>1. LastUpdateBy(ms, n + 1, i, out.id) = LastUpdateBy(ms, n, i, out.id)
        BY <1>6, NextUpdateIsLast
    <2>2. LatestBy(ms, n + 1, i, out) = last
        BY <2>1 DEF LatestBy
    <2> QED BY <1>4, <1>6, <2>2
<1> QED BY <1>5, <1>6

(* Nothing updates an output before it is there. *)
LEMMA NewestIsLatest ==
    ASSUME NEW ms \in Seq(Mutation), NEW n \in Nat, NEW out
    PROVE  LatestBy(ms, n, n, out) = out
<1>1. Later(ms, n, n, out.id) = {}
    BY DEF Later
<1> QED BY <1>1 DEF LatestBy, LastUpdateBy, LastOf

(* Which outputs stay when the list goes on: a clear that waits takes      *)
(* effect with the next mutation that is no clear.                         *)
LEMMA StaysFollows ==
    ASSUME NEW ms \in Seq(Mutation), NEW n \in Nat, n + 1 <= Len(ms)
    PROVE  StaysBy(ms, n + 1) =
             LET m == ms[n + 1]
                 kept == IF Pending(ms, n) THEN {} ELSE StaysBy(ms, n)
             IN  IF m.op = "clear" THEN IF m.wait THEN StaysBy(ms, n) ELSE {}
                 ELSE IF Adds(m) THEN kept \cup {n + 1} ELSE kept
<1> DEFINE m == ms[n + 1]
<1>0. /\ \A j \in 1..n + 1 : j = n + 1 \/ j \in 1..n
      /\ \A j \in 1..n : j \in 1..n + 1 /\ j < n + 1 /\ j # n + 1 /\ ~(n + 1 < j)
      /\ n + 1 \in 1..n + 1 /\ ~(n + 1 > n + 1)
    OBVIOUS
<1>1. \A j \in 1..n : TakesEffectBy(ms, n, j) => TakesEffectBy(ms, n + 1, j)
    BY <1>0 DEF TakesEffectBy
<1>2. CASE m.op = "clear" /\ ~m.wait
    <2>1. TakesEffectBy(ms, n + 1, n + 1)
        BY <1>2 DEF TakesEffectBy
    <2>2. ~Adds(m)
        BY <1>2 DEF Adds
    <2>3. StaysBy(ms, n + 1) = {}
        BY <1>0, <2>1, <2>2 DEF StaysBy
    <2> QED BY <1>2, <2>3
<1>3. CASE m.op = "clear" /\ m.wait
    <2>1. ~TakesEffectBy(ms, n + 1, n + 1)
        BY <1>0, <1>3 DEF TakesEffectBy
    <2>2. \A j \in 1..n : TakesEffectBy(ms, n, j) <=> TakesEffectBy(ms, n + 1, j)
        BY <1>0, <1>3 DEF TakesEffectBy
    <2>3. ~Adds(m)
        BY <1>3 DEF Adds
    <2>4. StaysBy(ms, n + 1) = StaysBy(ms, n)
        BY <1>0, <2>1, <2>2, <2>3 DEF StaysBy
    <2> QED BY <1>3, <2>4
<1>4. CASE m.op # "clear"
    <2>1. ~TakesEffectBy(ms, n + 1, n + 1)
        BY <1>4 DEF TakesEffectBy
    <2>2. CASE Pending(ms, n)
        <3>1. n \in 1..n /\ TakesEffectBy(ms, n + 1, n) /\ ~Adds(ms[n])
            BY <1>0, <1>4, <2>2 DEF TakesEffectBy, Pending, Adds
        <3>2. \A i \in 1..n : i = n \/ i < n
            OBVIOUS
        <3>3. \A i \in 1..n : i \notin StaysBy(ms, n + 1)
            BY <1>0, <3>1, <3>2 DEF StaysBy
        <3>4. n + 1 \in StaysBy(ms, n + 1) <=> Adds(m)
            BY <1>0 DEF StaysBy
        <3>5. StaysBy(ms, n + 1) \subseteq 1..n + 1
            BY DEF StaysBy
        <3>6. StaysBy(ms, n + 1) = IF Adds(m) THEN {n + 1} ELSE {}
            BY <1>0, <3>3, <3>4, <3>5
        <3> QED BY <1>4, <2>2, <3>6
    <2>3. CASE ~Pending(ms, n)
        <3>1. ASSUME NEW i \in 1..n, NEW j \in 1..n, j > i, TakesEffectBy(ms, n + 1, j)
              PROVE  \E k \in 1..n : k > i /\ TakesEffectBy(ms, n, k)
            <4>1. CASE TakesEffectBy(ms, n, j)
                BY <3>1, <4>1
            <4>2. CASE ~TakesEffectBy(ms, n, j)
                <5>1. ms[j].op = "clear" /\ ms[j].wait
                      /\ \A k \in 1..n : k > j => ms[k].op = "clear"
                    BY <3>1, <4>2 DEF TakesEffectBy
                <5>2. n \in 1..n /\ n >= j /\ n > i /\ n > 0
                    BY <3>1
                <5>3. ms[n].op = "clear"
                    BY <5>1, <5>2
                <5>4. ~ms[n].wait
                    BY <2>3, <5>2, <5>3 DEF Pending
                <5>5. TakesEffectBy(ms, n, n)
                    BY <5>3, <5>4 DEF TakesEffectBy
                <5> QED BY <5>2, <5>5
            <4> QED BY <4>1, <4>2
        <3>2. \A i \in 1..n : i \in StaysBy(ms, n + 1) <=> i \in StaysBy(ms, n)
            BY <1>0, <1>1, <2>1, <3>1 DEF StaysBy
        <3>3. n + 1 \in StaysBy(ms, n + 1) <=> Adds(m)
            BY <1>0 DEF StaysBy
        <3>4. StaysBy(ms, n + 1) \subseteq 1..n + 1 /\ StaysBy(ms, n) \subseteq 1..n
            BY DEF StaysBy
        <3>5. StaysBy(ms, n + 1) = IF Adds(m) THEN StaysBy(ms, n) \cup {n + 1} ELSE StaysBy(ms, n)
            <4> DEFINE now == StaysBy(ms, n)
                       next == StaysBy(ms, n + 1)
            <4> HIDE DEF now, next, m
            <4>1. \A i \in 1..n : i \in next <=> i \in now
                BY <3>2 DEF now, next
            <4>2. n + 1 \in next <=> Adds(m)
                BY <3>3 DEF next
            <4>3. next \subseteq 1..n + 1 /\ now \subseteq 1..n
                BY <3>4 DEF now, next
            <4>4. \A i : i \in next => i \in now \/ i = n + 1
                BY <1>0, <4>1, <4>3
            <4>5. \A i : i \in now => i \in next
                BY <4>1, <4>3
            <4>6. next = IF Adds(m) THEN now \cup {n + 1} ELSE now
                BY <4>2, <4>4, <4>5
            <4> QED BY <4>6 DEF now, next
        <3> QED BY <1>4, <2>3, <3>5
    <2> QED BY <2>2, <2>3
<1> QED BY <1>2, <1>3, <1>4

-----------------------------------------------------------------------------
(* The fold keeps to what the mutations carried out so far say.            *)

VisibleBy(outs, stays, ms, n) ==
    \E added \in Surjection(DOMAIN outs, stays) :
        /\ \A k, l \in DOMAIN outs : k < l => added[k] < added[l]
        /\ \A k \in DOMAIN outs : outs[k] = LatestBy(ms, n, added[k], ms[added[k]].out)

LEMMA NothingIsVisible ==
    ASSUME NEW ms, NEW n
    PROVE  VisibleBy(<<>>, {}, ms, n)
<1>1. DOMAIN <<>> = {}
    OBVIOUS
<1>2. [x \in {} |-> 0] \in Surjection({}, {})
    BY DEF Surjection
<1> QED BY <1>1, <1>2 DEF VisibleBy

LEMMA AppendedIsVisible ==
    ASSUME NEW ms \in Seq(Mutation), NEW n \in Nat, n + 1 <= Len(ms), Adds(ms[n + 1]),
           NEW outs \in Seq(KernelOutput), NEW stays, \A i \in stays : i \in 1..n /\ Adds(ms[i]),
           VisibleBy(outs, stays, ms, n)
    PROVE  VisibleBy(Append(outs, ms[n + 1].out), stays \cup {n + 1}, ms, n + 1)
<1> DEFINE m == ms[n + 1]
           longer == Append(outs, m.out)
           last == Len(outs) + 1
<1>1. PICK added \in Surjection(DOMAIN outs, stays) :
          /\ \A k, l \in DOMAIN outs : k < l => added[k] < added[l]
          /\ \A k \in DOMAIN outs : outs[k] = LatestBy(ms, n, added[k], ms[added[k]].out)
    BY DEF VisibleBy
<1>2. m \in Mutation /\ m.op # "update" /\ m.out \in KernelOutput /\ n + 1 \in Nat
    BY MutationLists DEF Adds
<1>3. /\ DOMAIN outs = 1..Len(outs) /\ DOMAIN longer = 1..last /\ last \in Nat
      /\ \A k \in 1..Len(outs) : longer[k] = outs[k]
      /\ longer[last] = m.out
    BY <1>2
<1>4. \A k \in 1..last : k = last \/ k \in 1..Len(outs)
    BY <1>3
<1>5. /\ \A k \in 1..Len(outs) : k < last /\ k # last /\ ~(last < k) /\ k \in 1..last
      /\ last \in 1..last
    BY <1>3
<1> HIDE DEF longer, last
<1> DEFINE more == [k \in 1..last |-> IF k = last THEN n + 1 ELSE added[k]]
<1>6. \A k \in 1..Len(outs) : added[k] \in stays /\ added[k] \in 1..n /\ added[k] < n + 1
    BY <1>1, <1>3 DEF Surjection
<1>7. /\ \A k \in 1..Len(outs) : k \in 1..last /\ more[k] = added[k]
      /\ last \in 1..last /\ more[last] = n + 1
    BY <1>5
<1>8. more \in Surjection(DOMAIN longer, stays \cup {n + 1})
    <2>1. more \in [1..last -> stays \cup {n + 1}]
        BY <1>4, <1>6, <1>7
    <2>2. ASSUME NEW t \in stays \cup {n + 1} PROVE \E k \in 1..last : more[k] = t
        <3>1. CASE t \in stays
            BY <1>1, <1>3, <1>7, <3>1 DEF Surjection
        <3>2. CASE t = n + 1
            BY <1>7, <3>2
        <3> QED BY <3>1, <3>2
    <2> HIDE DEF more
    <2> QED BY <1>3, <2>1, <2>2 DEF Surjection
<1> HIDE DEF more
<1>9. \A k, l \in DOMAIN longer : k < l => more[k] < more[l]
    BY <1>1, <1>3, <1>4, <1>5, <1>6, <1>7
<1>10. \A k \in DOMAIN longer : longer[k] = LatestBy(ms, n + 1, more[k], ms[more[k]].out)
    <2> SUFFICES ASSUME NEW k \in DOMAIN longer
                 PROVE  longer[k] = LatestBy(ms, n + 1, more[k], ms[more[k]].out)
        OBVIOUS
    <2>1. CASE k = last
        BY <1>2, <1>3, <1>7, <2>1, NewestIsLatest
    <2>2. CASE k \in 1..Len(outs)
        <3>1. added[k] \in 0..n /\ ms[added[k]] \in Mutation /\ Adds(ms[added[k]])
            BY <1>6, <2>2
        <3>2. ms[added[k]].out \in KernelOutput
            BY <3>1, MutationLists
        <3>3. LatestBy(ms, n + 1, added[k], ms[added[k]].out)
                = LatestBy(ms, n, added[k], ms[added[k]].out)
            BY <1>2, <3>1, <3>2, LatestFollows
        <3>4. longer[k] = LatestBy(ms, n, added[k], ms[added[k]].out)
            BY <1>1, <1>3, <2>2
        <3> QED BY <1>7, <2>2, <3>3, <3>4
    <2> QED BY <1>3, <1>4, <2>1, <2>2
<1>11. VisibleBy(longer, stays \cup {n + 1}, ms, n + 1)
    BY <1>8, <1>9, <1>10 DEF VisibleBy
<1> QED BY <1>11 DEF longer

(* An update, or a clear that waits, leaves the outputs where they are.    *)
LEMMA OthersStayVisible ==
    ASSUME NEW ms \in Seq(Mutation), NEW n \in Nat, n + 1 <= Len(ms), ~Adds(ms[n + 1]),
           NEW outs \in Seq(KernelOutput), NEW stays, \A i \in stays : i \in 1..n /\ Adds(ms[i]),
           VisibleBy(outs, stays, ms, n)
    PROVE  VisibleBy(IF ms[n + 1].op = "update" THEN Updated(outs, ms[n + 1]) ELSE outs,
                     stays, ms, n + 1)
<1> DEFINE m == ms[n + 1]
           now == IF m.op = "update" THEN Updated(outs, m) ELSE outs
<1>1. PICK added \in Surjection(DOMAIN outs, stays) :
          /\ \A k, l \in DOMAIN outs : k < l => added[k] < added[l]
          /\ \A k \in DOMAIN outs : outs[k] = LatestBy(ms, n, added[k], ms[added[k]].out)
    BY DEF VisibleBy
<1>2. DOMAIN now = DOMAIN outs
    BY DEF Updated
<1>3. \A k \in DOMAIN outs :
          now[k] = IF m.op = "update" /\ outs[k].id = m.id
                   THEN [outs[k] EXCEPT !.data = m.data] ELSE outs[k]
    BY DEF Updated
<1> HIDE DEF now
<1>4. ASSUME NEW k \in DOMAIN outs
      PROVE  now[k] = LatestBy(ms, n + 1, added[k], ms[added[k]].out)
    <2>1. added[k] \in 0..n /\ ms[added[k]] \in Mutation /\ Adds(ms[added[k]])
        BY <1>1 DEF Surjection
    <2>2. ms[added[k]].out \in KernelOutput
        BY <2>1, MutationLists
    <2> DEFINE was == LatestBy(ms, n, added[k], ms[added[k]].out)
    <2>3. LatestBy(ms, n + 1, added[k], ms[added[k]].out) =
            IF m.op = "update" /\ was.id = m.id THEN [was EXCEPT !.data = m.data] ELSE was
        BY <2>1, <2>2, LatestFollows
    <2>4. was = outs[k]
        BY <1>1
    <2> QED BY <1>3, <2>3, <2>4
<1>5. VisibleBy(now, stays, ms, n + 1)
    BY <1>1, <1>2, <1>4 DEF VisibleBy
<1> QED BY <1>5 DEF now

(* What holds of the state of the fold after n mutations. *)
SaysSoFar(st, cells, c, ms, n) ==
    /\ st \in Interpreter
    /\ st.pending <=> Pending(ms, n)
    /\ st.cells[c] = st.outs
    /\ VisibleBy(st.outs, StaysBy(ms, n), ms, n)
    /\ \A d \in CodeCells \ {c} :
          st.cells[d] = [i \in DOMAIN cells[d] |-> LatestBy(ms, n, 0, cells[d][i])]

LEMMA FoldStepSaysSo ==
    ASSUME NEW cells \in [CodeCells -> Seq(KernelOutput)], NEW c \in CodeCells,
           NEW ms \in Seq(Mutation), NEW n \in Nat, n + 1 <= Len(ms),
           NEW st, SaysSoFar(st, cells, c, ms, n)
    PROVE  SaysSoFar(FoldStep(st, ms[n + 1], c), cells, c, ms, n + 1)
<1> DEFINE m == ms[n + 1]
           outs == IF st.pending /\ m.op # "clear" THEN <<>> ELSE st.outs
           next == CASE Adds(m) -> Append(outs, m.out)
                     [] m.op = "clear" -> IF m.wait THEN outs ELSE <<>>
                     [] m.op = "update" -> Updated(outs, m)
           others == IF m.op = "update" THEN [d \in CodeCells |-> Updated(st.cells[d], m)] ELSE st.cells
           kept == IF Pending(ms, n) /\ m.op # "clear" THEN {} ELSE StaysBy(ms, n)
           after == FoldStep(st, m, c)
<1>1. m \in Mutation /\ n + 1 \in 1..Len(ms) /\ (n + 1) # 0 /\ n + 1 > 0
    OBVIOUS
<1>2. st \in Interpreter /\ (st.pending <=> Pending(ms, n))
    BY DEF SaysSoFar
<1>3. after = [outs |-> next, pending |-> m.op = "clear" /\ m.wait,
               cells |-> [others EXCEPT ![c] = next]]
    BY DEF FoldStep
<1>4. after \in Interpreter
    BY <1>1, <1>2, FoldStepKeeps
<1>5. after.pending <=> Pending(ms, n + 1)
    <2> DEFINE waits == m.op = "clear" /\ m.wait
               rest == [others EXCEPT ![c] = next]
    <2>1. Pending(ms, n + 1) <=> waits
        BY <1>1 DEF Pending
    <2>2. after = [outs |-> next, pending |-> waits, cells |-> rest]
        BY <1>3
    <2> HIDE DEF next, rest, after, waits
    <2>3. after.pending = waits
        BY <2>2
    <2> QED BY <2>1, <2>3
<1>6. DOMAIN others = CodeCells
    BY <1>2 DEF Interpreter
<1>7. after.cells[c] = after.outs /\ after.outs = next
    <2> HIDE DEF next, others
    <2> QED BY <1>3, <1>6
<1>8. \A i \in kept : i \in 1..n /\ Adds(ms[i])
    BY DEF StaysBy
<1>9. outs \in Seq(KernelOutput)
    BY <1>2 DEF Interpreter
<1>10. VisibleBy(outs, kept, ms, n)
    BY <1>2, NothingIsVisible DEF SaysSoFar
<1>11. VisibleBy(next, StaysBy(ms, n + 1), ms, n + 1)
    <2> HIDE DEF outs, kept
    <2>1. CASE Adds(m)
        <3>1. next = Append(outs, m.out) /\ m.op # "clear"
            BY <2>1 DEF Adds
        <3>2. StaysBy(ms, n + 1) = kept \cup {n + 1}
            BY <2>1, <3>1, StaysFollows DEF kept
        <3> QED BY <1>8, <1>9, <1>10, <2>1, <3>1, <3>2, AppendedIsVisible
    <2>2. CASE m.op = "update"
        <3>1. next = Updated(outs, m) /\ ~Adds(m) /\ m.op # "clear"
            BY <2>2 DEF Adds
        <3>2. StaysBy(ms, n + 1) = kept
            BY <3>1, StaysFollows DEF kept
        <3> QED BY <1>8, <1>9, <1>10, <2>2, <3>1, <3>2, OthersStayVisible
    <2>3. CASE m.op = "clear" /\ m.wait
        <3>1. next = outs /\ ~Adds(m) /\ m.op # "update"
            BY <2>3 DEF Adds
        <3>2. StaysBy(ms, n + 1) = kept
            BY <2>3, StaysFollows DEF kept
        <3> QED BY <1>8, <1>9, <1>10, <3>1, <3>2, OthersStayVisible
    <2>4. CASE m.op = "clear" /\ ~m.wait
        <3>1. next = <<>>
            BY <2>4 DEF Adds
        <3>2. StaysBy(ms, n + 1) = {}
            BY <2>4, StaysFollows
        <3> QED BY <3>1, <3>2, NothingIsVisible
    <2>5. Adds(m) \/ m.op = "update" \/ m.op = "clear"
        BY <1>1, MutationLists DEF Adds
    <2> HIDE DEF next
    <2> QED BY <2>1, <2>2, <2>3, <2>4, <2>5
<1>12. ASSUME NEW d \in CodeCells \ {c}
       PROVE  after.cells[d] = [i \in DOMAIN cells[d] |-> LatestBy(ms, n + 1, 0, cells[d][i])]
    <2> DEFINE before == [i \in DOMAIN cells[d] |-> LatestBy(ms, n, 0, cells[d][i])]
               goal == [i \in DOMAIN cells[d] |-> LatestBy(ms, n + 1, 0, cells[d][i])]
    <2>1. st.cells[d] = before
        BY DEF SaysSoFar
    <2>2. after.cells[d] = others[d]
        <3> HIDE DEF next, others
        <3> QED BY <1>3, <1>6
    <2>3. after.cells[d] = IF m.op = "update" THEN Updated(before, m) ELSE before
        BY <2>1, <2>2
    <2>4. \A i \in DOMAIN cells[d] :
             LatestBy(ms, n + 1, 0, cells[d][i]) =
                IF m.op = "update" /\ before[i].id = m.id THEN [before[i] EXCEPT !.data = m.data]
                ELSE before[i]
        <3> SUFFICES ASSUME NEW i \in DOMAIN cells[d]
                     PROVE  LatestBy(ms, n + 1, 0, cells[d][i]) =
                              IF m.op = "update" /\ before[i].id = m.id
                              THEN [before[i] EXCEPT !.data = m.data] ELSE before[i]
            OBVIOUS
        <3>1. cells[d][i] \in KernelOutput /\ 0 \in 0..n
            OBVIOUS
        <3> QED BY <3>1, LatestFollows
    <2>5. DOMAIN before = DOMAIN cells[d] /\ DOMAIN goal = DOMAIN cells[d]
        OBVIOUS
    <2>6. \A i \in DOMAIN cells[d] : goal[i] = LatestBy(ms, n + 1, 0, cells[d][i])
        OBVIOUS
    <2>7. before = [i \in DOMAIN cells[d] |-> before[i]] /\ goal = [i \in DOMAIN cells[d] |-> goal[i]]
        OBVIOUS
    <2> HIDE DEF before, goal
    <2>8. CASE m.op = "update"
        <3>1. DOMAIN Updated(before, m) = DOMAIN cells[d]
              /\ \A i \in DOMAIN cells[d] : Updated(before, m)[i] = goal[i]
            BY <2>4, <2>5, <2>6, <2>8 DEF Updated
        <3>2. Updated(before, m) = [i \in DOMAIN cells[d] |-> Updated(before, m)[i]]
            BY <2>5 DEF Updated
        <3> QED BY <2>3, <2>7, <2>8, <3>1, <3>2 DEF goal
    <2>9. CASE m.op # "update"
        <3>1. \A i \in DOMAIN cells[d] : before[i] = goal[i]
            BY <2>4, <2>6, <2>9
        <3> QED BY <2>3, <2>7, <2>9, <3>1 DEF goal
    <2> QED BY <2>8, <2>9
<1> HIDE DEF after, next
<1>13. VisibleBy(after.outs, StaysBy(ms, n + 1), ms, n + 1)
    BY <1>7, <1>11
<1>14. SaysSoFar(after, cells, c, ms, n + 1)
    BY <1>4, <1>5, <1>7, <1>12, <1>13 DEF SaysSoFar
<1> QED BY <1>14 DEF after

LEMMA FoldSaysSo ==
    ASSUME NEW cells \in [CodeCells -> Seq(KernelOutput)], NEW c \in CodeCells, NEW ms \in Seq(Mutation)
    PROVE  SaysSoFar(FoldStates(cells, c, ms)[Len(ms)], cells, c, ms, Len(ms))
<1> DEFINE st == FoldStates(cells, c, ms)
           T == {n \in Nat : n <= Len(ms) => SaysSoFar(st[n], cells, c, ms, n)}
<1> HIDE DEF st
<1>1. /\ st[0] = [outs |-> <<>>, pending |-> FALSE, cells |-> [cells EXCEPT ![c] = <<>>]]
      /\ \A n \in 1..Len(ms) : st[n] = FoldStep(st[n - 1], ms[n], c)
    BY FoldStatesRecur DEF st
<1>2. 0 \in T
    <2>1. st[0] \in Interpreter
        BY FoldKeeps DEF st
    <2>2. ~Pending(ms, 0) /\ ~st[0].pending
        BY <1>1 DEF Pending
    <2>3. st[0].cells[c] = st[0].outs /\ st[0].outs = <<>>
        BY <1>1
    <2>4. VisibleBy(st[0].outs, StaysBy(ms, 0), ms, 0)
        <3>1. StaysBy(ms, 0) = {}
            BY DEF StaysBy
        <3> QED BY <2>3, <3>1, NothingIsVisible
    <2>5. ASSUME NEW d \in CodeCells \ {c}
          PROVE  st[0].cells[d] = [i \in DOMAIN cells[d] |-> LatestBy(ms, 0, 0, cells[d][i])]
        <3>1. st[0].cells[d] = cells[d]
            BY <1>1
        <3>2. \A out : LatestBy(ms, 0, 0, out) = out
            BY NewestIsLatest
        <3>3. cells[d] = [i \in DOMAIN cells[d] |-> cells[d][i]]
            OBVIOUS
        <3> QED BY <3>1, <3>2, <3>3
    <2>6. SaysSoFar(st[0], cells, c, ms, 0)
        BY <2>1, <2>2, <2>3, <2>4, <2>5 DEF SaysSoFar
    <2> QED BY <2>6
<1>3. ASSUME NEW n \in T PROVE n + 1 \in T
    <2> SUFFICES ASSUME n + 1 <= Len(ms) PROVE SaysSoFar(st[n + 1], cells, c, ms, n + 1)
        OBVIOUS
    <2>1. n \in Nat /\ n + 1 \in 1..Len(ms) /\ (n + 1) - 1 = n
        OBVIOUS
    <2>2. SaysSoFar(st[n], cells, c, ms, n)
        BY <2>1
    <2>3. st[n + 1] = FoldStep(st[n], ms[n + 1], c)
        BY <1>1, <2>1
    <2> QED BY <2>1, <2>2, <2>3, FoldStepSaysSo
<1>4. T = Nat
    <2>1. T \in SUBSET Nat
        OBVIOUS
    <2> HIDE DEF T
    <2> QED BY <1>2, <1>3, <2>1, SetInduction
<1>5. Len(ms) \in Nat /\ Len(ms) <= Len(ms)
    OBVIOUS
<1>6. Len(ms) \in T
    BY <1>4, <1>5
<1> QED BY <1>5, <1>6 DEF st

-----------------------------------------------------------------------------
(* The rewrite and the fold go through the same states.                    *)

Agree(st, fd, c) ==
    /\ st \in Interpreter /\ fd \in Interpreter
    /\ st.outs = fd.outs /\ st.pending = fd.pending
    /\ fd.cells[c] = fd.outs
    /\ \A d \in CodeCells \ {c} : st.cells[d] = fd.cells[d]

LEMMA StepsAgree ==
    ASSUME NEW c \in CodeCells, NEW st, NEW fd, Agree(st, fd, c), NEW m \in Mutation
    PROVE  Agree(FileStep(st, m), FoldStep(fd, m, c), c)
<1> DEFINE kept == IF st.pending THEN <<>> ELSE st.outs
           outs == IF fd.pending /\ m.op # "clear" THEN <<>> ELSE fd.outs
           next == CASE Adds(m) -> Append(outs, m.out)
                     [] m.op = "clear" -> IF m.wait THEN outs ELSE <<>>
                     [] m.op = "update" -> Updated(outs, m)
           others == IF m.op = "update" THEN [d \in CodeCells |-> Updated(fd.cells[d], m)] ELSE fd.cells
           waits == m.op = "clear" /\ m.wait
           rest == [others EXCEPT ![c] = next]
           before == FileStep(st, m)
           after == FoldStep(fd, m, c)
<1>1. /\ st \in Interpreter /\ fd \in Interpreter
      /\ st.outs = fd.outs /\ st.pending = fd.pending
      /\ \A d \in CodeCells \ {c} : st.cells[d] = fd.cells[d]
    BY DEF Agree
<1>2. before \in Interpreter /\ after \in Interpreter
    BY <1>1, FileStepKeeps, FoldStepKeeps
<1>3. after = [outs |-> next, pending |-> waits, cells |-> rest]
    BY DEF FoldStep
<1>4. DOMAIN others = CodeCells
    BY <1>1 DEF Interpreter
<1>5. /\ after.outs = next /\ after.pending = waits
      /\ after.cells[c] = next /\ \A d \in CodeCells \ {c} : after.cells[d] = others[d]
    <2> HIDE DEF next, others, waits, after
    <2> QED BY <1>3, <1>4
<1>6. /\ before.outs = next /\ before.pending = waits
      /\ \A d \in CodeCells \ {c} : before.cells[d] = others[d]
    <2>1. CASE Adds(m)
        <3>1. m.op = "append" /\ others = fd.cells /\ waits = FALSE
            BY <2>1 DEF Adds
        <3>2. outs = kept
            BY <1>1, <3>1
        <3>3. next = Append(outs, m.out)
            BY <2>1, <3>1
        <3>4. before = [st EXCEPT !.outs = Append(kept, m.out), !.pending = FALSE]
            BY <2>1, <3>1 DEF FileStep
        <3> HIDE DEF before, next, others, waits, kept, outs
        <3>5. /\ before.outs = Append(kept, m.out) /\ before.pending = FALSE
              /\ before.cells = st.cells
            BY <1>1, <3>4 DEF Interpreter
        <3> QED BY <1>1, <3>1, <3>2, <3>3, <3>5
    <2>2. CASE m.op = "clear" /\ m.wait
        <3>1. ~Adds(m) /\ others = fd.cells /\ waits = TRUE /\ outs = fd.outs
            BY <2>2 DEF Adds
        <3>2. next = outs
            BY <2>2, <3>1
        <3>3. before = [st EXCEPT !.pending = TRUE]
            BY <2>2, <3>1 DEF FileStep
        <3> HIDE DEF before, next, others, waits, kept, outs
        <3>4. before.outs = st.outs /\ before.pending = TRUE /\ before.cells = st.cells
            BY <1>1, <3>3 DEF Interpreter
        <3> QED BY <1>1, <3>1, <3>2, <3>4
    <2>3. CASE m.op = "clear" /\ ~m.wait
        <3>1. ~Adds(m) /\ others = fd.cells /\ waits = FALSE
            BY <2>3 DEF Adds
        <3>2. next = <<>>
            BY <2>3, <3>1
        <3>3. before = [st EXCEPT !.outs = <<>>, !.pending = FALSE]
            BY <2>3, <3>1 DEF FileStep
        <3> HIDE DEF before, next, others, waits, kept, outs
        <3>4. before.outs = <<>> /\ before.pending = FALSE /\ before.cells = st.cells
            BY <1>1, <3>3 DEF Interpreter
        <3> QED BY <1>1, <3>1, <3>2, <3>4
    <2>4. CASE m.op = "update"
        <3>1. ~Adds(m) /\ m.op # "clear" /\ waits = FALSE
            BY <2>4 DEF Adds
        <3>2. outs = kept
            BY <1>1, <3>1
        <3>3. next = Updated(outs, m)
            BY <2>4, <3>1
        <3>4. before = [outs |-> Updated(kept, m), pending |-> FALSE,
                        cells |-> [d \in CodeCells |-> Updated(st.cells[d], m)]]
            BY <2>4, <3>1 DEF FileStep
        <3>5. \A d \in CodeCells \ {c} : others[d] = Updated(fd.cells[d], m)
            BY <2>4
        <3> HIDE DEF before, next, others, waits, kept, outs
        <3>6. /\ before.outs = Updated(kept, m) /\ before.pending = FALSE
              /\ \A d \in CodeCells \ {c} : before.cells[d] = Updated(st.cells[d], m)
            BY <3>4
        <3> QED BY <1>1, <3>1, <3>2, <3>3, <3>5, <3>6
    <2>5. Adds(m) \/ m.op = "update" \/ m.op = "clear"
        BY MutationLists DEF Adds
    <2> HIDE DEF before, next, others, waits
    <2> QED BY <2>1, <2>2, <2>3, <2>4, <2>5
<1> HIDE DEF before, after, next, others, waits
<1>7. Agree(before, after, c)
    BY <1>2, <1>5, <1>6 DEF Agree
<1> QED BY <1>7 DEF before, after

LEMMA InterpretersAgree ==
    ASSUME NEW cells \in [CodeCells -> Seq(KernelOutput)], NEW c \in CodeCells, NEW ms \in Seq(Mutation)
    PROVE  Agree(FileStates(cells, ms)[Len(ms)], FoldStates(cells, c, ms)[Len(ms)], c)
<1> DEFINE st == FileStates(cells, ms)
           fd == FoldStates(cells, c, ms)
           T == {n \in Nat : n <= Len(ms) => Agree(st[n], fd[n], c)}
<1> HIDE DEF st, fd
<1>1. /\ st[0] = [outs |-> <<>>, pending |-> FALSE, cells |-> cells]
      /\ \A n \in 1..Len(ms) : st[n] = FileStep(st[n - 1], ms[n])
    BY FileStatesRecur DEF st
<1>2. /\ fd[0] = [outs |-> <<>>, pending |-> FALSE, cells |-> [cells EXCEPT ![c] = <<>>]]
      /\ \A n \in 1..Len(ms) : fd[n] = FoldStep(fd[n - 1], ms[n], c)
    BY FoldStatesRecur DEF fd
<1>3. 0 \in T
    <2>1. st[0] \in Interpreter /\ fd[0] \in Interpreter
        BY RewriteKeeps, FoldKeeps DEF st, fd
    <2>2. Agree(st[0], fd[0], c)
        BY <1>1, <1>2, <2>1 DEF Agree
    <2> QED BY <2>2
<1>4. ASSUME NEW n \in T PROVE n + 1 \in T
    <2> SUFFICES ASSUME n + 1 <= Len(ms) PROVE Agree(st[n + 1], fd[n + 1], c)
        OBVIOUS
    <2>1. n \in Nat /\ n + 1 \in 1..Len(ms) /\ (n + 1) - 1 = n
        OBVIOUS
    <2>2. Agree(st[n], fd[n], c) /\ ms[n + 1] \in Mutation
        BY <2>1
    <2>3. st[n + 1] = FileStep(st[n], ms[n + 1]) /\ fd[n + 1] = FoldStep(fd[n], ms[n + 1], c)
        BY <1>1, <1>2, <2>1
    <2> QED BY <2>2, <2>3, StepsAgree
<1>5. T = Nat
    <2>1. T \in SUBSET Nat
        OBVIOUS
    <2> HIDE DEF T
    <2> QED BY <1>3, <1>4, <2>1, SetInduction
<1>6. Len(ms) \in Nat /\ Len(ms) <= Len(ms)
    OBVIOUS
<1>7. Len(ms) \in T
    BY <1>5, <1>6
<1> QED BY <1>6, <1>7 DEF st, fd

(* What a run leaves in its cell and in the others is what its mutations   *)
(* say, and the file and the projection go on agreeing: for every list of  *)
(* mutations within every limit, however the run ends.                     *)
THEOREM OutputsAreAsSaid == OutputsSpec => OutputsAreWhatTheMutationsSay
<1>1. OutputsTypeOK /\ LimitIsKept /\ [OutputsNext]_outputVars => [RunEnded => ShowsVisible /\ GoesOnAgreeing]_outputVars
    <2> SUFFICES ASSUME OutputsTypeOK, LimitIsKept, OutputsNext, RunEnded PROVE ShowsVisible /\ GoesOnAgreeing
        OBVIOUS
    <2>1. ASSUME NEW ms \in Seq(Mutation),
                 NEW result \in {"ok", "error", "cancelled"}, Publish(ms, result)
          PROVE  ShowsVisible /\ GoesOnAgreeing
        <3> DEFINE st == FileStates(file, ms)[Len(ms)]
                   fd == FoldStates(shown, running, ms)[Len(ms)]
                   own == FailureShown(st.outs, result # "ok")
        <3>1. /\ file \in [CodeCells -> Seq(KernelOutput)] /\ shown \in [CodeCells -> Seq(KernelOutput)]
              /\ running \in CodeCells /\ status \in [CodeCells -> {"none", "ok", "error", "cancelled"}]
            BY DEF OutputsTypeOK, RunEnded
        <3>2. /\ muts' = ms /\ status' = [status EXCEPT ![running] = result]
              /\ file' = [st.cells EXCEPT ![running] = own] /\ shown' = fd.cells
            BY <2>1 DEF Publish, Rewritten, Folded
        <3>3. SaysSoFar(fd, shown, running, ms, Len(ms))
            BY <3>1, FoldSaysSo
        <3>4. file = shown => Agree(st, fd, running)
            BY <3>1, InterpretersAgree
        <3> HIDE DEF st, fd, own
        <3>5. AreVisible(shown'[running], muts')
            BY <3>2, <3>3, ByTheEnd DEF SaysSoFar, VisibleBy, AreVisible
        <3>6. \A c \in CodeCells \ {running} :
                 shown'[c] = [i \in DOMAIN shown[c] |-> Latest(muts', 0, shown[c][i])]
            BY <3>2, <3>3, ByTheEnd DEF SaysSoFar
        <3>7. ASSUME file = shown, status'[running] = "ok" \/ HasError(shown'[running])
              PROVE  file' = shown'
            <4>1. Agree(st, fd, running)
                BY <3>4, <3>7
            <4>2. status'[running] = result
                BY <3>1, <3>2
            <4>3. shown'[running] = st.outs
                BY <3>2, <4>1 DEF Agree
            <4>4. own = st.outs
                BY <3>7, <4>2, <4>3 DEF own, FailureShown
            <4>5. st.cells \in [CodeCells -> Seq(KernelOutput)] /\ fd.cells \in [CodeCells -> Seq(KernelOutput)]
                BY <4>1 DEF Agree, Interpreter
            <4>6. \A d \in CodeCells : file'[d] = shown'[d]
                BY <3>2, <4>1, <4>3, <4>4, <4>5 DEF Agree
            <4>7. DOMAIN file' = CodeCells /\ DOMAIN shown' = CodeCells
                BY <3>2, <4>5
            <4>8. file' = [d \in CodeCells |-> file'[d]] /\ shown' = [d \in CodeCells |-> shown'[d]]
                BY <3>2, <4>5, <4>7
            <4> QED BY <4>6, <4>8
        <3> QED BY <3>5, <3>6, <3>7 DEF ShowsVisible, GoesOnAgreeing
    <2>2. ASSUME NEW c \in CodeCells, Start(c) PROVE FALSE
        BY <2>2, OutputsAssumption DEF Start, RunEnded
    <2>3. ASSUME NEW m \in Emits, Emit(m) PROVE FALSE
        BY <2>3 DEF Emit, RunEnded
    <2>4. ASSUME NEW result \in {"ok", "error", "cancelled"}, Finish(result)
          PROVE  ShowsVisible /\ GoesOnAgreeing
        <3>1. WithFailure(muts, result # "ok") \in Seq(Mutation)
            BY FailureFits DEF OutputsTypeOK, LimitIsKept
        <3> QED BY <2>1, <2>4, <3>1 DEF Finish
    <2>5. CASE Discard
        <3> DEFINE ms == <<[op |-> "append", out |-> Failure]>>
        <3>1. ms \in Seq(Mutation)
            BY FailureIsAMutation
        <3>2. Publish(ms, "error")
            BY <2>5 DEF Discard
        <3> HIDE DEF ms
        <3> QED BY <2>1, <3>1, <3>2
    <2> QED BY <2>2, <2>3, <2>4, <2>5 DEF OutputsNext
<1>2. FailedRunsShowAnError => OutputsTypeOK /\ LimitIsKept
    BY DEF FailedRunsShowAnError
<1> QED BY <1>1, <1>2, FailuresAreShown, PTL DEF OutputsSpec, OutputsAreWhatTheMutationsSay

-----------------------------------------------------------------------------
(* Sequences. *)

(* Inserting and removing, by types and places. *)
LEMMA InsertAtType ==
    ASSUME NEW S, NEW s \in Seq(S), NEW i \in 1..(Len(s) + 1), NEW e \in S
    PROVE  InsertAt(s, i, e) \in Seq(S) /\ Len(InsertAt(s, i, e)) = Len(s) + 1
<1>1. SubSeq(s, 1, i - 1) \in Seq(S) /\ Len(SubSeq(s, 1, i - 1)) = i - 1
  OBVIOUS
<1>2. SubSeq(s, i, Len(s)) \in Seq(S) /\ Len(SubSeq(s, i, Len(s))) = Len(s) - i + 1
  OBVIOUS
<1>3. <<e>> \in Seq(S) /\ Len(<<e>>) = 1
  OBVIOUS
<1> DEFINE front == SubSeq(s, 1, i - 1)
           back  == SubSeq(s, i, Len(s))
<1>4. front \o <<e>> \in Seq(S) /\ Len(front \o <<e>>) = i
  BY <1>1, <1>3
<1>5. (front \o <<e>>) \o back \in Seq(S) /\ Len((front \o <<e>>) \o back) = Len(s) + 1
  <2> HIDE DEF front, back
  <2>1. back \in Seq(S) /\ Len(back) = Len(s) - i + 1
    BY <1>2 DEF back
  <2>2. Len(s) \in Nat /\ i \in Nat
    OBVIOUS
  <2> QED
    BY SMTT(40), <2>1, <2>2, <1>4
<1> QED
  BY <1>5 DEF InsertAt

LEMMA RemoveAtType ==
    ASSUME NEW S, NEW s \in Seq(S), NEW i \in 1..Len(s)
    PROVE  RemoveAt(s, i) \in Seq(S) /\ Len(RemoveAt(s, i)) = Len(s) - 1
<1>1. SubSeq(s, 1, i - 1) \in Seq(S) /\ Len(SubSeq(s, 1, i - 1)) = i - 1
  OBVIOUS
<1>2. SubSeq(s, i + 1, Len(s)) \in Seq(S) /\ Len(SubSeq(s, i + 1, Len(s))) = Len(s) - i
  OBVIOUS
<1> DEFINE front == SubSeq(s, 1, i - 1)
           back  == SubSeq(s, i + 1, Len(s))
<1>3. front \o back \in Seq(S) /\ Len(front \o back) = Len(s) - 1
  <2> HIDE DEF front, back
  <2>1. front \in Seq(S) /\ Len(front) = i - 1
    BY <1>1 DEF front
  <2>2. back \in Seq(S) /\ Len(back) = Len(s) - i
    BY <1>2 DEF back
  <2>3. Len(s) \in Nat /\ i \in Nat
    OBVIOUS
  <2>4. front \o back \in Seq(S)
    BY <2>1, <2>2
  <2>5. Len(front \o back) = Len(front) + Len(back)
    BY SMTT(40), <2>1, <2>2
  <2> QED
    BY <2>1, <2>2, <2>3, <2>4, <2>5
<1> QED
  BY <1>3 DEF RemoveAt

LEMMA Concatenated ==
    ASSUME NEW S, NEW s \in Seq(S), NEW t \in Seq(S)
    PROVE  /\ Len(s \o t) = Len(s) + Len(t)
           /\ \A j \in 1..(Len(s) + Len(t)) :
                 (s \o t)[j] = IF j <= Len(s) THEN s[j] ELSE t[j - Len(s)]
OBVIOUS

LEMMA InsertedAt ==
    ASSUME NEW S, NEW s \in Seq(S), NEW i \in 1..(Len(s) + 1), NEW e \in S
    PROVE  /\ Len(InsertAt(s, i, e)) = Len(s) + 1
           /\ \A j \in 1..(Len(s) + 1) :
                 InsertAt(s, i, e)[j] = IF j < i THEN s[j] ELSE IF j = i THEN e ELSE s[j - 1]
<1> DEFINE front == SubSeq(s, 1, i - 1)
           back  == SubSeq(s, i, Len(s))
<1>1. front \in Seq(S) /\ Len(front) = i - 1 /\ \A j \in 1..(i - 1) : front[j] = s[j]
  OBVIOUS
<1>2. back \in Seq(S) /\ Len(back) = Len(s) - i + 1
      /\ \A j \in 1..(Len(s) - i + 1) : back[j] = s[i + j - 1]
  OBVIOUS
<1>3. Len(s) \in Nat /\ i \in Nat
  OBVIOUS
<1> HIDE DEF front, back
<1> DEFINE head == front \o <<e>>
<1>4. head \in Seq(S) /\ Len(head) = i
      /\ \A j \in 1..i : head[j] = IF j < i THEN s[j] ELSE e
  BY <1>1, <1>3
<1> HIDE DEF head
<1>5. /\ Len(head \o back) = Len(s) + 1
      /\ \A j \in 1..(Len(s) + 1) : (head \o back)[j] = IF j <= i THEN head[j] ELSE back[j - i]
  <2>1. Len(head) + Len(back) = Len(s) + 1
    BY <1>2, <1>3, <1>4
  <2>2. /\ Len(head \o back) = Len(head) + Len(back)
        /\ \A j \in 1..(Len(head) + Len(back)) :
              (head \o back)[j] = IF j <= Len(head) THEN head[j] ELSE back[j - Len(head)]
    BY <1>2, <1>4, Concatenated
  <2> QED
    BY <1>4, <2>1, <2>2
<1>6. ASSUME NEW j \in 1..(Len(s) + 1)
      PROVE  (head \o back)[j] = IF j < i THEN s[j] ELSE IF j = i THEN e ELSE s[j - 1]
  <2>1. CASE j <= i
    <3>1. (head \o back)[j] = head[j] /\ j \in 1..i
      BY <1>3, <1>5, <1>6, <2>1
    <3> QED
      BY <1>3, <1>4, <2>1, <3>1
  <2>2. CASE j > i
    <3>1. (head \o back)[j] = back[j - i] /\ j - i \in 1..(Len(s) - i + 1)
      BY <1>3, <1>5, <1>6, <2>2
    <3>2. back[j - i] = s[i + (j - i) - 1] /\ i + (j - i) - 1 = j - 1
      BY <1>2, <1>3, <3>1
    <3>3. (head \o back)[j] = s[j - 1] /\ ~(j < i) /\ j # i
      BY <1>3, <2>2, <3>1, <3>2
    <3> QED
      BY <3>3
  <2>3. j <= i \/ j > i
    BY <1>3
  <2> QED
    BY <2>1, <2>2, <2>3
<1> QED
  BY <1>5, <1>6 DEF InsertAt, head, front, back

LEMMA RemovedAt ==
    ASSUME NEW S, NEW s \in Seq(S), NEW i \in 1..Len(s)
    PROVE  /\ Len(RemoveAt(s, i)) = Len(s) - 1
           /\ \A j \in 1..(Len(s) - 1) : RemoveAt(s, i)[j] = IF j < i THEN s[j] ELSE s[j + 1]
<1> DEFINE front == SubSeq(s, 1, i - 1)
           back  == SubSeq(s, i + 1, Len(s))
<1>1. front \in Seq(S) /\ Len(front) = i - 1 /\ \A j \in 1..(i - 1) : front[j] = s[j]
  OBVIOUS
<1>2. back \in Seq(S) /\ Len(back) = Len(s) - i
      /\ \A j \in 1..(Len(s) - i) : back[j] = s[i + j]
  OBVIOUS
<1>3. Len(s) \in Nat /\ i \in Nat
  OBVIOUS
<1> HIDE DEF front, back
<1>4. /\ Len(front \o back) = Len(s) - 1
      /\ \A j \in 1..(Len(s) - 1) :
            (front \o back)[j] = IF j <= i - 1 THEN front[j] ELSE back[j - (i - 1)]
  <2>1. Len(front) + Len(back) = Len(s) - 1
    BY <1>1, <1>2, <1>3
  <2>2. /\ Len(front \o back) = Len(front) + Len(back)
        /\ \A j \in 1..(Len(front) + Len(back)) :
              (front \o back)[j] = IF j <= Len(front) THEN front[j] ELSE back[j - Len(front)]
    BY <1>1, <1>2, Concatenated
  <2> QED
    BY <1>1, <2>1, <2>2
<1>5. ASSUME NEW j \in 1..(Len(s) - 1)
      PROVE  (front \o back)[j] = IF j < i THEN s[j] ELSE s[j + 1]
  <2>1. CASE j < i
    BY <1>1, <1>3, <1>4, <1>5, <2>1
  <2>2. CASE j >= i
    <3>1. (front \o back)[j] = back[j - (i - 1)] /\ j - (i - 1) \in 1..(Len(s) - i)
      BY <1>3, <1>4, <1>5, <2>2
    <3>2. back[j - (i - 1)] = s[i + (j - (i - 1))] /\ i + (j - (i - 1)) = j + 1
      BY <1>2, <1>3, <3>1
    <3>3. (front \o back)[j] = s[j + 1] /\ ~(j < i)
      BY <1>3, <2>2, <3>1, <3>2
    <3> QED
      BY <3>3
  <2>3. j < i \/ j >= i
    BY <1>3
  <2> QED
    BY <2>1, <2>2, <2>3
<1> QED
  BY <1>4, <1>5 DEF RemoveAt, front, back

-----------------------------------------------------------------------------
(* Both readers recur. *)

(* The fold of the host has a state for each event, and each follows from  *)
(* the one before it.                                                      *)
LEMMA HostStatesRecur ==
    ASSUME NEW events \in Seq(Events)
    PROVE  /\ HostStates(events)[0] = NoFold
           /\ \A n \in 1..Len(events) : HostStates(events)[n] = HostApply(HostStates(events)[n - 1], events[n])
<1> DEFINE first == NoFold
           Recurs(g, k) == g = [n \in 0..k |-> IF n = 0 THEN first ELSE HostApply(g[n - 1], events[n])]
           T == {k \in Nat : \E g : Recurs(g, k)}
<1>1. 0 \in T
    <2>1. Recurs([n \in 0..0 |-> first], 0)
        OBVIOUS
    <2> QED BY <2>1
<1>2. ASSUME NEW k \in T PROVE k + 1 \in T
    <2>1. PICK g : Recurs(g, k)
        OBVIOUS
    <2> HIDE DEF first
    <2> DEFINE h == [n \in 0..k + 1 |-> IF n = k + 1 THEN HostApply(g[k], events[k + 1]) ELSE g[n]]
    <2>2. k \in Nat
        OBVIOUS
    <2>3. \A n \in 0..k + 1 : h[n] = IF n = 0 THEN first ELSE HostApply(h[n - 1], events[n])
        <3> SUFFICES ASSUME NEW n \in 0..k + 1
                     PROVE  h[n] = IF n = 0 THEN first ELSE HostApply(h[n - 1], events[n])
            OBVIOUS
        <3>1. CASE n = 0
            BY <2>1, <2>2, <3>1
        <3>2. CASE n # 0 /\ n # k + 1
            <4>1. n \in 0..k /\ n - 1 \in 0..k + 1 /\ n - 1 # k + 1
                BY <2>2, <3>2
            <4>2. h[n] = g[n] /\ h[n - 1] = g[n - 1]
                BY <3>2, <4>1
            <4>3. g[n] = HostApply(g[n - 1], events[n])
                BY <2>1, <3>2, <4>1
            <4> QED BY <3>2, <4>2, <4>3
        <3>3. CASE n = k + 1
            <4>1. k \in 0..k + 1 /\ k # k + 1 /\ n # 0 /\ n - 1 = k
                BY <2>2, <3>3
            <4>2. h[k] = g[k]
                BY <4>1
            <4> QED BY <3>3, <4>1, <4>2
        <3> QED BY <3>1, <3>2, <3>3
    <2> HIDE DEF h
    <2>4. h = [n \in 0..k + 1 |-> h[n]]
        BY DEF h
    <2>5. Recurs(h, k + 1)
        BY <2>3, <2>4
    <2> QED BY <2>2, <2>5
<1>3. T = Nat
    <2> HIDE DEF Recurs
    <2>1. T \in SUBSET Nat
        OBVIOUS
    <2> HIDE DEF T
    <2> QED BY <1>1, <1>2, <2>1, SetInduction
<1>4. Len(events) \in Nat
    OBVIOUS
<1>5. \E g : Recurs(g, Len(events))
    <2> HIDE DEF Recurs
    <2> QED BY <1>3, <1>4
<1>6. HostStates(events) = CHOOSE g : Recurs(g, Len(events))
    BY DEF HostStates
<1>7. Recurs(HostStates(events), Len(events))
    <2> HIDE DEF Recurs
    <2> QED BY <1>5, <1>6
<1>8. 0 \in 0..Len(events) /\ \A n \in 1..Len(events) : n \in 0..Len(events) /\ n # 0
    BY <1>4
<1> DEFINE st == HostStates(events)
<1> HIDE DEF st, first
<1>9. \A n \in 0..Len(events) : st[n] = IF n = 0 THEN first ELSE HostApply(st[n - 1], events[n])
    BY <1>7 DEF st
<1>10. st[0] = first /\ \A n \in 1..Len(events) : st[n] = HostApply(st[n - 1], events[n])
    BY <1>8, <1>9
<1> QED BY <1>10 DEF st, first

(* The builder's step at a place it may not have. *)
ViewStep(v, events, places, n) == IF n \in places THEN ViewApply(v, events[n]) ELSE v

(* So has the builder.                                                     *)
LEMMA ViewStatesRecur ==
    ASSUME NEW events \in Seq(Events), NEW v, NEW places
    PROVE  /\ ViewStates(events, v, places)[0] = v
           /\ \A n \in 1..Len(events) : ViewStates(events, v, places)[n] = ViewStep(ViewStates(events, v, places)[n - 1], events, places, n)
<1> DEFINE first == v
           Recurs(g, k) == g = [n \in 0..k |-> IF n = 0 THEN first ELSE ViewStep(g[n - 1], events, places, n)]
           T == {k \in Nat : \E g : Recurs(g, k)}
<1>1. 0 \in T
    <2>1. Recurs([n \in 0..0 |-> first], 0)
        OBVIOUS
    <2> QED BY <2>1
<1>2. ASSUME NEW k \in T PROVE k + 1 \in T
    <2>1. PICK g : Recurs(g, k)
        OBVIOUS
    <2> HIDE DEF first
    <2> DEFINE h == [n \in 0..k + 1 |-> IF n = k + 1 THEN ViewStep(g[k], events, places, k + 1) ELSE g[n]]
    <2>2. k \in Nat
        OBVIOUS
    <2>3. \A n \in 0..k + 1 : h[n] = IF n = 0 THEN first ELSE ViewStep(h[n - 1], events, places, n)
        <3> SUFFICES ASSUME NEW n \in 0..k + 1
                     PROVE  h[n] = IF n = 0 THEN first ELSE ViewStep(h[n - 1], events, places, n)
            OBVIOUS
        <3>1. CASE n = 0
            BY <2>1, <2>2, <3>1
        <3>2. CASE n # 0 /\ n # k + 1
            <4>1. n \in 0..k /\ n - 1 \in 0..k + 1 /\ n - 1 # k + 1
                BY <2>2, <3>2
            <4>2. h[n] = g[n] /\ h[n - 1] = g[n - 1]
                BY <3>2, <4>1
            <4>3. g[n] = ViewStep(g[n - 1], events, places, n)
                BY <2>1, <3>2, <4>1
            <4> QED BY <3>2, <4>2, <4>3
        <3>3. CASE n = k + 1
            <4>1. k \in 0..k + 1 /\ k # k + 1 /\ n # 0 /\ n - 1 = k
                BY <2>2, <3>3
            <4>2. h[k] = g[k]
                BY <4>1
            <4> QED BY <3>3, <4>1, <4>2
        <3> QED BY <3>1, <3>2, <3>3
    <2> HIDE DEF h
    <2>4. h = [n \in 0..k + 1 |-> h[n]]
        BY DEF h
    <2>5. Recurs(h, k + 1)
        BY <2>3, <2>4
    <2> QED BY <2>2, <2>5
<1>3. T = Nat
    <2> HIDE DEF Recurs
    <2>1. T \in SUBSET Nat
        OBVIOUS
    <2> HIDE DEF T
    <2> QED BY <1>1, <1>2, <2>1, SetInduction
<1>4. Len(events) \in Nat
    OBVIOUS
<1>5. \E g : Recurs(g, Len(events))
    <2> HIDE DEF Recurs
    <2> QED BY <1>3, <1>4
<1>6. ViewStates(events, v, places) = CHOOSE g : Recurs(g, Len(events))
    BY DEF ViewStates, ViewStep
<1>7. Recurs(ViewStates(events, v, places), Len(events))
    <2> HIDE DEF Recurs
    <2> QED BY <1>5, <1>6
<1>8. 0 \in 0..Len(events) /\ \A n \in 1..Len(events) : n \in 0..Len(events) /\ n # 0
    BY <1>4
<1> DEFINE st == ViewStates(events, v, places)
<1> HIDE DEF st, first
<1>9. \A n \in 0..Len(events) : st[n] = IF n = 0 THEN first ELSE ViewStep(st[n - 1], events, places, n)
    BY <1>7 DEF st
<1>10. st[0] = first /\ \A n \in 1..Len(events) : st[n] = ViewStep(st[n - 1], events, places, n)
    BY <1>8, <1>9
<1> QED BY <1>10 DEF st, first

-----------------------------------------------------------------------------
(* What the readers build, and the events they can be handed. *)

Runs == [nb : Notebooks, cell : Cells, exec : Nat, outs : Seq(Outputs), clear : BOOLEAN]
Documents == [id : Notebooks, version : Nat, kernel : Nat, cells : Seq(CellStates)]
Folds == [docs : Seq(Documents), active : [Notebooks -> Runs \cup {NoRun}]]
Views == [docs : Seq(Documents), active : SUBSET Runs, incomplete : BOOLEAN, error : BOOLEAN]

Unique(members) == \A i, j \in DOMAIN members : members[i].id = members[j].id => i = j

(* What is lawful in an event whatever was there before. *)
Proper(e) ==
    /\ e \in Events /\ e.at # 0
    /\ e.kind = "create" => e.cell \in Cells
    /\ e.kind = "execute" => e.exec = e.at
    /\ e.kind = "output" => e.mutation.op # "none"

(* In a list of unique ids an id names one place.                          *)
LEMMA PlaceOf ==
    ASSUME NEW members, NEW i \in DOMAIN members, Unique(members)
    PROVE  Places(members, members[i].id) = {i} /\ Place(members, members[i].id) = i
<1>1. Places(members, members[i].id) = {i}
    BY DEF Unique, Places
<1> QED BY <1>1 DEF Place

(* A place is where the id is.                                             *)
LEMMA PlaceFound ==
    ASSUME NEW members, NEW id, Places(members, id) # {}
    PROVE  Place(members, id) \in DOMAIN members /\ members[Place(members, id)].id = id
<1>1. Place(members, id) \in Places(members, id)
    BY DEF Place
<1> QED BY <1>1 DEF Places

LEMMA CellFields ==
    ASSUME NEW c \in CellStates
    PROVE  /\ c.id \in Cells /\ c.outs \in Seq(Outputs) /\ c.source \in Nat /\ c.count \in Nat
           /\ c.type \in {"code", "markdown"} /\ c.status \in {"none", "running", "ok", "error"}
           /\ \A outs \in Seq(Outputs) : [c EXCEPT !.outs = outs] \in CellStates
                                         /\ [c EXCEPT !.outs = outs].id = c.id
           /\ \A n \in Nat : [c EXCEPT !.source = n] \in CellStates
                             /\ [c EXCEPT !.source = n].id = c.id
BY DEF CellStates

LEMMA NewCellType ==
    ASSUME NEW e, Proper(e), e.cell \in Cells
    PROVE  NewCell(e) \in CellStates /\ NewCell(e).id = e.cell
BY DEF Proper, Events, NewCell, CellStates

LEMMA NewDocumentType ==
    ASSUME NEW e, Proper(e)
    PROVE  NewDocument(e) \in Documents /\ NewDocument(e).id = e.nb /\ Unique(NewDocument(e).cells)
BY DEF Proper, Events, NewDocument, Documents, Unique

LEMMA RedisplayedType ==
    ASSUME NEW outs \in Seq(Outputs), NEW m, m.data \in Nat
    PROVE  Redisplayed(outs, m) \in Seq(Outputs)
<1>1. \A o \in Outputs : [o EXCEPT !.data = m.data] \in Outputs
    BY DEF Outputs
<1>2. \A i \in DOMAIN outs : outs[i] \in Outputs
    OBVIOUS
<1> QED BY <1>1, <1>2 DEF Redisplayed

LEMMA MutationFields ==
    ASSUME NEW e, Proper(e)
    PROVE  /\ e.mutation.op \in {"none", "append", "clear", "update"} /\ e.mutation.wait \in BOOLEAN
           /\ e.mutation.display \in Displays /\ e.mutation.data \in Nat
           /\ Output(e) \in Outputs
<1>1. e.mutation \in [op : {"none", "append", "clear", "update"}, display : Displays,
                      wait : BOOLEAN, data : Nat] /\ e.at \in Nat
    BY DEF Proper, Events
<1>2. /\ e.mutation.op \in {"none", "append", "clear", "update"} /\ e.mutation.wait \in BOOLEAN
      /\ e.mutation.display \in Displays /\ e.mutation.data \in Nat
    BY <1>1
<1> QED BY <1>1, <1>2 DEF Output, Outputs

(* The two sides carry out a mutation alike.                               *)
LEMMA RunsAgree ==
    ASSUME NEW run, NEW e
    PROVE  ViewRun(run, e) = HostRun(run, e)
BY DEF ViewRun, HostRun, Kept

LEMMA RunType ==
    ASSUME NEW e, Proper(e), e.kind = "output", NEW run \in Runs
    PROVE  /\ HostRun(run, e) \in Runs
           /\ HostRun(run, e).nb = run.nb /\ HostRun(run, e).cell = run.cell
           /\ HostRun(run, e).exec = run.exec
<1> DEFINE m == e.mutation
           kept == IF run.clear THEN <<>> ELSE run.outs
<1>1. m.op \in {"append", "clear", "update"} /\ m.wait \in BOOLEAN /\ m.data \in Nat /\ Output(e) \in Outputs
    BY MutationFields DEF Proper
<1>2. run.outs \in Seq(Outputs) /\ kept \in Seq(Outputs)
    BY DEF Runs
<1>3. Append(kept, Output(e)) \in Seq(Outputs) /\ Redisplayed(kept, m) \in Seq(Outputs)
    <2> HIDE DEF kept, m
    <2> QED BY <1>1, <1>2, RedisplayedType
<1>4. \A outs \in Seq(Outputs), clear \in BOOLEAN :
         LET new == [run EXCEPT !.outs = outs, !.clear = clear]
         IN  new \in Runs /\ new.nb = run.nb /\ new.cell = run.cell /\ new.exec = run.exec
    BY DEF Runs
<1>5. LET new == [run EXCEPT !.clear = TRUE]
      IN  new \in Runs /\ new.nb = run.nb /\ new.cell = run.cell /\ new.exec = run.exec
    BY DEF Runs
<1>6. CASE m.op = "append"
    <2>1. HostRun(run, e) = [run EXCEPT !.outs = Append(kept, Output(e)), !.clear = FALSE]
        BY <1>6 DEF HostRun
    <2> HIDE DEF kept, m
    <2> QED BY <1>3, <1>4, <2>1
<1>7. CASE m.op = "clear" /\ m.wait
    <2>1. HostRun(run, e) = [run EXCEPT !.clear = TRUE]
        BY <1>7 DEF HostRun
    <2> QED BY <1>5, <2>1
<1>8. CASE m.op = "clear" /\ ~m.wait
    <2>1. HostRun(run, e) = [run EXCEPT !.outs = <<>>, !.clear = FALSE]
        BY <1>8 DEF HostRun
    <2>2. <<>> \in Seq(Outputs)
        OBVIOUS
    <2> QED BY <1>4, <2>1, <2>2
<1>9. CASE m.op = "update"
    <2>1. HostRun(run, e) = [run EXCEPT !.outs = Redisplayed(kept, m), !.clear = FALSE]
        BY <1>9 DEF HostRun
    <2> HIDE DEF kept, m
    <2> QED BY <1>3, <1>4, <2>1
<1> QED BY <1>1, <1>6, <1>7, <1>8, <1>9

-----------------------------------------------------------------------------
(* Lists of cells. *)

(* Lists with the same ids have the same places.                           *)
LEMMA SameIds ==
    ASSUME NEW old, NEW new, DOMAIN new = DOMAIN old, \A i \in DOMAIN old : new[i].id = old[i].id
    PROVE  /\ \A id : Places(new, id) = Places(old, id)
           /\ Unique(old) => Unique(new)
BY DEF Places, Unique

(* A cell that is changed where it is.                                     *)
LEMMA CellChanged ==
    ASSUME NEW S, NEW cells \in Seq(S), NEW i \in 1..Len(cells), NEW c \in S, c.id = cells[i].id
    PROVE  /\ [cells EXCEPT ![i] = c] \in Seq(S) /\ DOMAIN [cells EXCEPT ![i] = c] = DOMAIN cells
           /\ \A j \in DOMAIN cells : [cells EXCEPT ![i] = c][j].id = cells[j].id
           /\ Unique(cells) => Unique([cells EXCEPT ![i] = c])
<1>1. /\ [cells EXCEPT ![i] = c] \in Seq(S) /\ DOMAIN [cells EXCEPT ![i] = c] = DOMAIN cells
      /\ \A j \in DOMAIN cells : [cells EXCEPT ![i] = c][j].id = cells[j].id
    OBVIOUS
<1> QED BY <1>1, SameIds

(* A cell that is put in.                                                  *)
LEMMA CellInserted ==
    ASSUME NEW cells \in Seq(CellStates), Unique(cells), NEW i \in 1..(Len(cells) + 1),
           NEW c \in CellStates, Places(cells, c.id) = {}
    PROVE  InsertAt(cells, i, c) \in Seq(CellStates) /\ Unique(InsertAt(cells, i, c))
<1> DEFINE new == InsertAt(cells, i, c)
<1>1. new \in Seq(CellStates) /\ Len(new) = Len(cells) + 1
    BY InsertAtType
<1>2. \A j \in 1..(Len(cells) + 1) :
         new[j] = IF j < i THEN cells[j] ELSE IF j = i THEN c ELSE cells[j - 1]
    BY InsertedAt
<1>3. Len(cells) \in Nat /\ i \in Nat /\ \A j \in 1..Len(cells) : cells[j].id # c.id
    BY DEF Places
<1>4. \A j, k \in 1..Len(cells) : cells[j].id = cells[k].id => j = k
    BY DEF Unique
<1> HIDE DEF new
<1>5. ASSUME NEW j \in 1..(Len(cells) + 1), NEW k \in 1..(Len(cells) + 1), new[j].id = new[k].id
      PROVE  j = k
    <2>1. /\ j < i => j \in 1..Len(cells) /\ new[j] = cells[j]
          /\ j = i => new[j] = c
          /\ j > i => j - 1 \in 1..Len(cells) /\ new[j] = cells[j - 1]
        BY <1>2, <1>3
    <2>2. /\ k < i => k \in 1..Len(cells) /\ new[k] = cells[k]
          /\ k = i => new[k] = c
          /\ k > i => k - 1 \in 1..Len(cells) /\ new[k] = cells[k - 1]
        BY <1>2, <1>3
    <2>3. CASE j < i
        <3>1. k # i
            BY <1>3, <1>5, <2>1, <2>2, <2>3
        <3>2. k > i => FALSE
            <4> SUFFICES ASSUME k > i PROVE FALSE
                OBVIOUS
            <4>1. j = k - 1
                BY <1>4, <1>5, <2>1, <2>2, <2>3
            <4> QED BY <1>3, <2>3, <4>1
        <3>3. k < i
            BY <1>3, <3>1, <3>2
        <3> QED BY <1>4, <1>5, <2>1, <2>2, <2>3, <3>3
    <2>4. CASE j = i
        <3>1. ~(k < i) /\ ~(k > i)
            BY <1>3, <1>5, <2>1, <2>2, <2>4
        <3> QED BY <1>3, <2>4, <3>1
    <2>5. CASE j > i
        <3>1. k # i
            BY <1>3, <1>5, <2>1, <2>2, <2>5
        <3>2. k < i => FALSE
            <4> SUFFICES ASSUME k < i PROVE FALSE
                OBVIOUS
            <4>1. j - 1 = k
                BY <1>4, <1>5, <2>1, <2>2, <2>5
            <4> QED BY <1>3, <2>5, <4>1
        <3>3. k > i
            BY <1>3, <3>1, <3>2
        <3>4. j - 1 = k - 1
            BY <1>4, <1>5, <2>1, <2>2, <2>5, <3>3
        <3> QED BY <3>4
    <2> QED BY <1>3, <2>3, <2>4, <2>5
<1>6. DOMAIN new = 1..(Len(cells) + 1)
    BY <1>1
<1> QED BY <1>1, <1>5, <1>6 DEF new, Unique

(* A cell that is taken out.                                               *)
LEMMA CellRemoved ==
    ASSUME NEW cells \in Seq(CellStates), Unique(cells), NEW i \in 1..Len(cells)
    PROVE  /\ RemoveAt(cells, i) \in Seq(CellStates) /\ Unique(RemoveAt(cells, i))
           /\ Places(RemoveAt(cells, i), cells[i].id) = {}
<1> DEFINE new == RemoveAt(cells, i)
           from(j) == IF j < i THEN j ELSE j + 1
<1>1. new \in Seq(CellStates) /\ Len(new) = Len(cells) - 1
    BY RemoveAtType
<1>2. \A j \in 1..(Len(cells) - 1) : new[j] = IF j < i THEN cells[j] ELSE cells[j + 1]
    BY RemovedAt
<1>3. Len(cells) \in Nat /\ i \in Nat
    OBVIOUS
<1>4. \A j, k \in 1..Len(cells) : cells[j].id = cells[k].id => j = k
    BY DEF Unique
<1> HIDE DEF new
<1>5. \A j \in 1..(Len(cells) - 1) : from(j) \in 1..Len(cells) /\ from(j) # i /\ new[j] = cells[from(j)]
    BY <1>2, <1>3
<1>6. \A j, k \in 1..(Len(cells) - 1) : from(j) = from(k) => j = k
    BY <1>3
<1> HIDE DEF from
<1>7. DOMAIN new = 1..(Len(cells) - 1)
    BY <1>1
<1>8. Unique(new)
    BY <1>4, <1>5, <1>6, <1>7 DEF Unique
<1>9. Places(new, cells[i].id) = {}
    BY <1>4, <1>5, <1>7 DEF Places
<1> QED BY <1>1, <1>8, <1>9 DEF new

LEMMA CellMoved ==
    ASSUME NEW cells \in Seq(CellStates), Unique(cells), NEW i \in 1..Len(cells), NEW j \in 1..Len(cells)
    PROVE  Moved(cells, i, j) \in Seq(CellStates) /\ Unique(Moved(cells, i, j))
<1> DEFINE rest == RemoveAt(cells, i)
<1>1. rest \in Seq(CellStates) /\ Unique(rest) /\ Places(rest, cells[i].id) = {}
    BY CellRemoved
<1>2. Len(rest) = Len(cells) - 1
    BY RemoveAtType
<1>3. j \in 1..(Len(rest) + 1) /\ cells[i] \in CellStates
    BY <1>2
<1> HIDE DEF rest
<1>4. InsertAt(rest, j, cells[i]) \in Seq(CellStates) /\ Unique(InsertAt(rest, j, cells[i]))
    BY <1>1, <1>3, CellInserted
<1> QED BY <1>4 DEF Moved, rest

(* Every cell of a document is given other outputs.                        *)
LEMMA CellsRedisplayed ==
    ASSUME NEW cells \in Seq(CellStates), NEW outs, \A i \in DOMAIN cells : outs[i] \in Seq(Outputs)
    PROVE  LET new == [i \in DOMAIN cells |-> [cells[i] EXCEPT !.outs = outs[i]]]
           IN  /\ new \in Seq(CellStates) /\ DOMAIN new = DOMAIN cells
               /\ \A i \in DOMAIN cells : new[i].id = cells[i].id
               /\ Unique(cells) => Unique(new)
<1> DEFINE new == [i \in DOMAIN cells |-> [cells[i] EXCEPT !.outs = outs[i]]]
<1>1. \A i \in DOMAIN cells : cells[i] \in CellStates
    OBVIOUS
<1>2. \A i \in DOMAIN cells : [cells[i] EXCEPT !.outs = outs[i]] \in CellStates
                              /\ [cells[i] EXCEPT !.outs = outs[i]].id = cells[i].id
    BY <1>1, CellFields
<1>3. new \in Seq(CellStates)
    BY <1>2
<1>4. DOMAIN new = DOMAIN cells /\ \A i \in DOMAIN cells : new[i].id = cells[i].id
    BY <1>2
<1> QED BY <1>3, <1>4, SameIds

-----------------------------------------------------------------------------
(* The fold of the host. *)

(* The cell that runs is there, says so, and shows what the run has.       *)
RunShown(docs, run) ==
    \E d \in Places(docs, run.nb) : \E i \in Places(docs[d].cells, run.cell) :
        docs[d].cells[i].status = "running" /\ docs[d].cells[i].outs = run.outs

HostSound(h) ==
    /\ h \in Folds
    /\ Unique(h.docs)
    /\ \A d \in DOMAIN h.docs : Unique(h.docs[d].cells)
    /\ \A nb \in Notebooks : h.active[nb] # NoRun =>
          /\ h.active[nb] \in Runs /\ h.active[nb].nb = nb /\ h.active[nb].exec # 0
          /\ RunShown(h.docs, h.active[nb])

LEMMA HostApplyForm ==
    ASSUME NEW h, NEW e, e.nb \in Notebooks, h \in Folds
    PROVE  /\ HostApply(h, e).docs = IF e.kind = "open" THEN Append(h.docs, NewDocument(e))
                                     ELSE [h.docs EXCEPT ![Place(h.docs, e.nb)] = HostDocument(h, e)]
           /\ HostApply(h, e).active = [h.active EXCEPT ![e.nb] = HostActive(h, e)]
           /\ HostApply(h, e) = [docs |-> HostApply(h, e).docs, active |-> HostApply(h, e).active]
<1>1. HostApply(h, e).docs = IF e.kind = "open" THEN Append(h.docs, NewDocument(e))
                             ELSE [h.docs EXCEPT ![Place(h.docs, e.nb)] = HostDocument(h, e)]
    BY DEF HostApply
<1>2. HostApply(h, e).active = [h.active EXCEPT ![e.nb] = HostActive(h, e)]
    BY DEF HostApply
<1>3. HostApply(h, e) = [docs |-> HostApply(h, e).docs, active |-> HostApply(h, e).active]
    BY DEF HostApply
<1> QED BY <1>1, <1>2, <1>3

LEMMA DocumentFields ==
    ASSUME NEW d \in Documents
    PROVE  d.id \in Notebooks /\ d.version \in Nat /\ d.kernel \in Nat /\ d.cells \in Seq(CellStates)
BY DEF Documents

LEMMA EventFields ==
    ASSUME NEW e, Proper(e)
    PROVE  /\ e.nb \in Notebooks /\ e.at \in Nat /\ e.at # 0 /\ e.exec \in Nat /\ e.index \in Nat /\ e.to \in Nat
           /\ e.kind \in {"open", "create", "update", "delete", "move", "execute", "output", "end",
                          "kernel", "reload"}
           /\ e.generation \in Nat /\ e.status \in {"none", "ok", "error"} /\ e.cells \in Seq(CellStates)
           /\ e.outs \in Seq(Outputs)
BY DEF Proper, Events

LEMMA LawfulIsProper ==
    ASSUME NEW h, NEW e \in Events, Lawful(h, e), e.at # 0
    PROVE  Proper(e)
BY DEF Lawful, Proper

LEMMA CellSteps ==
    ASSUME NEW c \in CellStates
    PROVE  /\ Begun(c) \in CellStates /\ Begun(c).id = c.id
           /\ Begun(c).status = "running" /\ Begun(c).outs = <<>>
           /\ \A outs \in Seq(Outputs) : \A e : Proper(e) =>
                 Ended(c, outs, e) \in CellStates /\ Ended(c, outs, e).id = c.id
<1>1. <<>> \in Seq(Outputs)
    OBVIOUS
<1>2. \A outs \in Seq(Outputs) :
         [c EXCEPT !.outs = outs, !.status = "running"] \in CellStates
         /\ [c EXCEPT !.outs = outs, !.status = "running"].id = c.id
         /\ [c EXCEPT !.outs = outs, !.status = "running"].status = "running"
         /\ [c EXCEPT !.outs = outs, !.status = "running"].outs = outs
    BY DEF CellStates
<1>3. \A outs \in Seq(Outputs), ending \in {"none", "ok", "error"}, n \in Nat :
         [c EXCEPT !.outs = outs, !.status = ending, !.count = n] \in CellStates
         /\ [c EXCEPT !.outs = outs, !.status = ending, !.count = n].id = c.id
    BY DEF CellStates
<1>4. ASSUME NEW outs \in Seq(Outputs), NEW e, Proper(e)
      PROVE  Ended(c, outs, e) \in CellStates /\ Ended(c, outs, e).id = c.id
    <2> DEFINE n == IF e.status = "ok" THEN e.at ELSE c.count
    <2>1. n \in Nat /\ e.status \in {"none", "ok", "error"}
        BY <1>4, EventFields, CellFields
    <2>2. Ended(c, outs, e) = [c EXCEPT !.outs = outs, !.status = e.status, !.count = n]
        BY DEF Ended
    <2> DEFINE ending == e.status
    <2> HIDE DEF n
    <2>3. [c EXCEPT !.outs = outs, !.status = ending, !.count = n] \in CellStates
          /\ [c EXCEPT !.outs = outs, !.status = ending, !.count = n].id = c.id
        <3>1. ending \in {"none", "ok", "error"}
            BY <2>1
        <3> HIDE DEF ending
        <3> QED BY <1>3, <2>1, <3>1
    <2> QED BY <2>2, <2>3
<1> QED BY <1>1, <1>2, <1>4 DEF Begun

(* The cells of a document after an event, and the run they show.          *)
LEMMA HostCellsSound ==
    ASSUME NEW h, HostSound(h), NEW e, Proper(e), Lawful(h, e), e.kind # "open"
    PROVE  LET d == Place(h.docs, e.nb)
               new == HostCellsAfter(h, e)
               run == HostActive(h, e)
           IN  /\ d \in DOMAIN h.docs /\ h.docs[d].id = e.nb /\ Places(h.docs, e.nb) = {d}
               /\ HostCells(h, e) = h.docs[d].cells
               /\ new \in Seq(CellStates) /\ Unique(new)
               /\ e.kind \in {"execute", "output"} =>
                     /\ run \in Runs /\ run.nb = e.nb /\ run.exec # 0
                     /\ \E i \in Places(new, run.cell) : new[i].status = "running" /\ new[i].outs = run.outs
<1> DEFINE d == Place(h.docs, e.nb)
           cells == h.docs[d].cells
           new == HostCellsAfter(h, e)
           run == HostActive(h, e)
           at == Place(cells, e.cell)
           Shown == \E i \in Places(new, run.cell) : new[i].status = "running" /\ new[i].outs = run.outs
<1>1. d \in DOMAIN h.docs /\ h.docs[d].id = e.nb
    <2>1. Places(h.docs, e.nb) # {}
        BY DEF Lawful
    <2> QED BY <2>1, PlaceFound
<1>2. Places(h.docs, e.nb) = {d}
    BY <1>1, PlaceOf DEF HostSound
<1>3. HostCells(h, e) = cells
    BY <1>2 DEF HostCells, CellsOf
<1>4. cells \in Seq(CellStates) /\ Unique(cells)
    <2>1. h.docs \in Seq(Documents)
        BY DEF HostSound, Folds
    <2>2. h.docs[d] \in Documents
        BY <1>1, <2>1
    <2> QED BY <1>1, <2>2, DocumentFields DEF HostSound
<1>5. Len(cells) \in Nat /\ DOMAIN cells = 1..Len(cells)
    BY <1>4
<1>6. e.kind = "create" => e.cell \in Cells /\ Places(cells, e.cell) = {} /\ e.index \in 1..(Len(cells) + 1)
    BY <1>3 DEF Lawful
<1>7. e.kind \in {"update", "delete"} => e.index \in DOMAIN cells
    BY <1>3 DEF Lawful, Places
<1>8. e.kind = "move" => e.index \in DOMAIN cells /\ e.to \in DOMAIN cells
    BY <1>3 DEF Lawful, Places
<1>9. e.kind \in {"execute", "output", "end"} => Places(cells, e.cell) # {}
    BY <1>3 DEF Lawful
<1>10. e.kind \in {"execute", "output", "end"} =>
          at \in DOMAIN cells /\ cells[at].id = e.cell /\ cells[at] \in CellStates
    <2>1. e.kind \in {"execute", "output", "end"} => at \in DOMAIN cells /\ cells[at].id = e.cell
        BY <1>9, PlaceFound
    <2> QED BY <1>4, <2>1
<1>11. e.kind \in {"output", "end"} =>
          /\ h.active[e.nb] # NoRun /\ h.active[e.nb] \in Runs /\ h.active[e.nb].nb = e.nb
          /\ h.active[e.nb].cell = e.cell /\ h.active[e.nb].exec # 0
    BY EventFields DEF Lawful, Running, HostSound
<1>12. CASE e.kind = "create"
    <2>1. new = InsertAt(cells, e.index, NewCell(e))
        BY <1>3, <1>12 DEF HostCellsAfter
    <2>2. NewCell(e) \in CellStates /\ NewCell(e).id = e.cell
        BY <1>6, <1>12, NewCellType
    <2>3. new \in Seq(CellStates) /\ Unique(new)
        <3> HIDE DEF new, cells
        <3> QED BY <1>4, <1>6, <1>12, <2>1, <2>2, CellInserted
    <2> QED BY <1>1, <1>2, <1>3, <1>12, <2>3
<1>13. CASE e.kind = "update"
    <2> DEFINE c == [cells[e.index] EXCEPT !.source = e.at]
    <2>1. new = [cells EXCEPT ![e.index] = c]
        BY <1>3, <1>13 DEF HostCellsAfter
    <2>2. c \in CellStates /\ c.id = cells[e.index].id
        BY <1>4, <1>7, <1>13, CellFields, EventFields
    <2>3. new \in Seq(CellStates) /\ Unique(new)
        <3> HIDE DEF cells, c, new
        <3> QED BY <1>4, <1>5, <1>7, <1>13, <2>1, <2>2, CellChanged
    <2> QED BY <1>1, <1>2, <1>3, <1>13, <2>3
<1>14. CASE e.kind = "delete"
    <2>1. new = RemoveAt(cells, e.index)
        BY <1>3, <1>14 DEF HostCellsAfter
    <2>2. new \in Seq(CellStates) /\ Unique(new)
        <3> HIDE DEF new, cells
        <3> QED BY <1>4, <1>5, <1>7, <1>14, <2>1, CellRemoved
    <2> QED BY <1>1, <1>2, <1>3, <1>14, <2>2
<1>15. CASE e.kind = "move"
    <2>1. new = Moved(cells, e.index, e.to)
        BY <1>3, <1>15 DEF HostCellsAfter
    <2>2. new \in Seq(CellStates) /\ Unique(new)
        <3> HIDE DEF new, cells
        <3> QED BY <1>4, <1>5, <1>8, <1>15, <2>1, CellMoved
    <2> QED BY <1>1, <1>2, <1>3, <1>15, <2>2
<1>16. CASE e.kind = "execute"
    <2> DEFINE c == Begun(cells[at])
    <2>1. new = [cells EXCEPT ![at] = c]
        BY <1>3, <1>16 DEF HostCellsAfter
    <2>2. cells[at] \in CellStates
        BY <1>10, <1>16
    <2>3. c \in CellStates /\ c.id = cells[at].id /\ c.status = "running" /\ c.outs = <<>>
        BY <2>2, CellSteps
    <2>4. new \in Seq(CellStates) /\ Unique(new) /\ at \in DOMAIN new /\ new[at] = c
        <3> HIDE DEF cells, at, c, new
        <3> QED BY <1>4, <1>5, <1>10, <1>16, <2>1, <2>3, CellChanged
    <2>5. run = NewRun(e)
        BY <1>16 DEF HostActive
    <2>6. e.cell \in Cells /\ e.nb \in Notebooks /\ e.exec \in Nat /\ e.exec # 0
        BY <1>10, <1>16, <2>2, CellFields, EventFields DEF Proper
    <2>7. run \in Runs /\ run.nb = e.nb /\ run.exec # 0 /\ run.cell = e.cell /\ run.outs = <<>>
        BY <2>5, <2>6 DEF Runs, NewRun
    <2>8. at \in Places(new, run.cell) /\ new[at].status = "running" /\ new[at].outs = run.outs
        <3> HIDE DEF cells, at, c, new, run
        <3> QED BY <1>10, <1>16, <2>3, <2>4, <2>7 DEF Places
    <2> QED BY <1>1, <1>2, <1>3, <1>16, <2>4, <2>7, <2>8
<1>17. CASE e.kind = "output"
    <2> DEFINE redrawn == IF e.mutation.op # "update" THEN cells
                        ELSE [i \in DOMAIN cells |-> [cells[i] EXCEPT !.outs = Redisplayed(@, e.mutation)]]
               c == [redrawn[at] EXCEPT !.outs = run.outs]
    <2>1. run = HostRun(h.active[e.nb], e)
        BY <1>17 DEF HostActive
    <2>2. run \in Runs /\ run.nb = e.nb /\ run.exec # 0 /\ run.cell = e.cell
        BY <1>11, <1>17, <2>1, RunType
    <2>3. run.outs \in Seq(Outputs)
        BY <2>2 DEF Runs
    <2>4. new = [redrawn EXCEPT ![at] = c]
        BY <1>3, <1>17, <2>1 DEF HostCellsAfter
    <2>5. /\ redrawn \in Seq(CellStates) /\ DOMAIN redrawn = DOMAIN cells
          /\ \A i \in DOMAIN cells : redrawn[i].id = cells[i].id /\ redrawn[i].status = cells[i].status
          /\ Unique(redrawn)
        <3>1. CASE e.mutation.op # "update"
            BY <1>4, <3>1
        <3>2. CASE e.mutation.op = "update"
            <4> DEFINE outs == [i \in DOMAIN cells |-> Redisplayed(cells[i].outs, e.mutation)]
            <4>1. redrawn = [i \in DOMAIN cells |-> [cells[i] EXCEPT !.outs = outs[i]]]
                BY <3>2
            <4>2. \A i \in DOMAIN cells : cells[i] \in CellStates /\ outs[i] \in Seq(Outputs)
                <5> HIDE DEF redrawn, c, new, run
                <5>1. \A i \in DOMAIN cells : cells[i] \in CellStates
                    <6> HIDE DEF outs, cells
                    <6> QED BY <1>4
                <5> SUFFICES ASSUME NEW i \in DOMAIN cells PROVE outs[i] \in Seq(Outputs)
                    BY <5>1
                <5>2. cells[i].outs \in Seq(Outputs)
                    <6> HIDE DEF outs, cells
                    <6> QED BY <5>1, CellFields
                <5>3. Redisplayed(cells[i].outs, e.mutation) \in Seq(Outputs)
                    <6> HIDE DEF outs, cells
                    <6> QED BY <5>2, <3>2, MutationFields, RedisplayedType
                <5> QED BY <5>3
            <4>3. \A i \in DOMAIN cells : redrawn[i].status = cells[i].status
                <5> HIDE DEF outs
                <5> QED BY <4>1, <4>2 DEF CellStates
            <4> HIDE DEF outs, cells, redrawn, c, new, run
            <4> DEFINE after == [i \in DOMAIN cells |-> [cells[i] EXCEPT !.outs = outs[i]]]
            <4>4. /\ after \in Seq(CellStates) /\ DOMAIN after = DOMAIN cells
                  /\ \A i \in DOMAIN cells : after[i].id = cells[i].id
                  /\ Unique(after)
                <5>1. cells \in Seq(CellStates) /\ Unique(cells)
                    BY <1>4
                <5>2. \A i \in DOMAIN cells : outs[i] \in Seq(Outputs)
                    BY <4>2
                <5> QED BY <5>1, <5>2, CellsRedisplayed
            <4>5. redrawn = after
                BY <4>1
            <4> HIDE DEF after
            <4> QED BY <4>3, <4>4, <4>5
        <3> QED BY <3>1, <3>2
    <2> HIDE DEF redrawn
    <2>6. redrawn[at] \in CellStates /\ at \in DOMAIN redrawn /\ at \in 1..Len(redrawn)
        <3> HIDE DEF cells, at
        <3> QED BY <1>10, <1>17, <2>5
    <2>7. c \in CellStates /\ c.id = e.cell /\ c.status = cells[at].status /\ c.outs = run.outs
        <3>1. \A outs \in Seq(Outputs) :
                 LET o == [redrawn[at] EXCEPT !.outs = outs]
                 IN  o \in CellStates /\ o.id = redrawn[at].id /\ o.status = redrawn[at].status /\ o.outs = outs
            BY <2>6 DEF CellStates
        <3> HIDE DEF cells, at, run
        <3> QED BY <1>10, <1>17, <2>3, <2>5, <2>6, <3>1
    <2>8. new \in Seq(CellStates) /\ Unique(new) /\ at \in DOMAIN new /\ new[at] = c
        <3>1. c.id = redrawn[at].id
            BY <1>10, <1>17, <2>5, <2>7
        <3> HIDE DEF cells, at, c, new
        <3>2. new \in Seq(CellStates) /\ Unique(new) /\ DOMAIN new = DOMAIN redrawn
            BY <2>4, <2>5, <2>6, <2>7, <3>1, CellChanged
        <3> QED BY <2>4, <2>6, <3>2
    <2>9. cells[at].status = "running"
        <3>1. RunShown(h.docs, h.active[e.nb])
            BY <1>11, <1>17, EventFields DEF HostSound
        <3>2. PICK i \in Places(cells, e.cell) : cells[i].status = "running"
            <4> HIDE DEF cells, d
            <4>1. PICK f \in Places(h.docs, e.nb) : \E i \in Places(h.docs[f].cells, e.cell) :
                                                      h.docs[f].cells[i].status = "running"
                BY <1>11, <1>17, <3>1 DEF RunShown
            <4>2. f = d
                BY <1>2, <4>1
            <4> QED BY <4>1, <4>2 DEF cells
        <3>3. i = at
            BY <1>4, <1>10, <1>17, <3>2 DEF Places, Unique
        <3> QED BY <3>2, <3>3
    <2>10. at \in Places(new, run.cell) /\ new[at].status = "running" /\ new[at].outs = run.outs
        <3> HIDE DEF cells, at, c, new, run
        <3> QED BY <2>2, <2>7, <2>8, <2>9 DEF Places
    <2> QED BY <1>1, <1>2, <1>3, <1>17, <2>2, <2>8, <2>10
<1>18. CASE e.kind = "end"
    <2> DEFINE c == Ended(cells[at], h.active[e.nb].outs, e)
    <2>1. new = [cells EXCEPT ![at] = c]
        BY <1>3, <1>18 DEF HostCellsAfter
    <2>2. cells[at] \in CellStates /\ h.active[e.nb].outs \in Seq(Outputs)
        BY <1>10, <1>11, <1>18 DEF Runs
    <2>3. c \in CellStates /\ c.id = cells[at].id
        BY <2>2, CellSteps
    <2>4. new \in Seq(CellStates) /\ Unique(new)
        <3> HIDE DEF cells, at, c, new
        <3> QED BY <1>4, <1>5, <1>10, <1>18, <2>1, <2>3, CellChanged
    <2> QED BY <1>1, <1>2, <1>3, <1>18, <2>4
<1>19. CASE e.kind = "reload"
    <2>1. new = e.cells
        BY <1>19 DEF HostCellsAfter
    <2>2. new \in Seq(CellStates) /\ Unique(new)
        BY <1>19, <2>1, EventFields DEF Lawful, Unique
    <2> QED BY <1>1, <1>2, <1>3, <1>19, <2>2
<1>20. CASE e.kind = "kernel"
    <2>1. new = cells
        BY <1>3, <1>20 DEF HostCellsAfter
    <2> QED BY <1>1, <1>2, <1>3, <1>4, <1>20, <2>1
<1> QED BY EventFields, <1>12, <1>13, <1>14, <1>15, <1>16, <1>17, <1>18, <1>19, <1>20

LEMMA HostDocumentSound ==
    ASSUME NEW h, HostSound(h), NEW e, Proper(e), Lawful(h, e), e.kind # "open"
    PROVE  LET new == HostDocument(h, e)
               doc == h.docs[Place(h.docs, e.nb)]
           IN  /\ new \in Documents /\ new.id = e.nb /\ new.cells = HostCellsAfter(h, e) /\ Unique(new.cells)
               /\ new.kernel = IF e.kind = "kernel" THEN e.generation ELSE doc.kernel
               /\ new.version = IF e.kind \in Versioned THEN e.at ELSE doc.version
<1> DEFINE d == Place(h.docs, e.nb)
           doc == h.docs[d]
           new == HostDocument(h, e)
           cells == HostCellsAfter(h, e)
           kernel == IF e.kind = "kernel" THEN e.generation ELSE doc.kernel
           version == IF e.kind \in Versioned THEN e.at ELSE doc.version
<1>1. d \in DOMAIN h.docs /\ doc.id = e.nb /\ cells \in Seq(CellStates) /\ Unique(cells)
    BY HostCellsSound
<1>2. doc \in Documents
    <2>1. h.docs \in Seq(Documents)
        BY DEF HostSound, Folds
    <2> QED BY <1>1, <2>1
<1>3. kernel \in Nat /\ version \in Nat
    BY <1>2, DocumentFields, EventFields
<1>4. new = [doc EXCEPT !.cells = cells, !.kernel = kernel, !.version = version]
    BY DEF HostDocument
<1> HIDE DEF doc, new, cells, kernel, version
<1>5. new \in Documents /\ new.id = doc.id /\ new.cells = cells /\ new.kernel = kernel /\ new.version = version
    BY <1>1, <1>2, <1>3, <1>4 DEF Documents
<1> QED BY <1>1, <1>5 DEF doc, new, cells, kernel, version, d

(* Every lawful event of a run that stands together leaves the fold sound. *)
LEMMA HostStepSound ==
    ASSUME NEW h, HostSound(h), NEW e, Proper(e), Lawful(h, e), InItsRun(h, e)
    PROVE  HostSound(HostApply(h, e))
<1> DEFINE new == HostApply(h, e)
           docs == new.docs
           active == new.active
<1>1. h.docs \in Seq(Documents) /\ h.active \in [Notebooks -> Runs \cup {NoRun}] /\ e.nb \in Notebooks
    BY EventFields DEF HostSound, Folds
<1>2. /\ docs = IF e.kind = "open" THEN Append(h.docs, NewDocument(e))
                ELSE [h.docs EXCEPT ![Place(h.docs, e.nb)] = HostDocument(h, e)]
      /\ active = [h.active EXCEPT ![e.nb] = HostActive(h, e)]
      /\ new = [docs |-> docs, active |-> active]
    BY <1>1, HostApplyForm DEF HostSound
<1> HIDE DEF new, docs, active
<1>3. ASSUME NEW nb \in Notebooks
      PROVE  active[nb] = IF nb = e.nb THEN HostActive(h, e) ELSE h.active[nb]
    BY <1>1, <1>2
<1>4. \A nb \in Notebooks : h.active[nb] # NoRun =>
         /\ h.active[nb] \in Runs /\ h.active[nb].nb = nb /\ h.active[nb].exec # 0
         /\ RunShown(h.docs, h.active[nb])
    BY DEF HostSound
<1>5. CASE e.kind = "open"
    <2>1. Places(h.docs, e.nb) = {}
        BY <1>5 DEF Lawful
    <2>2. h.active[e.nb] = NoRun
        BY <1>1, <1>4, <2>1 DEF RunShown
    <2>3. HostActive(h, e) = h.active[e.nb]
        BY <1>5 DEF HostActive
    <2>4. \A nb \in Notebooks : active[nb] = h.active[nb]
        BY <1>3, <2>3
    <2>5. NewDocument(e) \in Documents /\ NewDocument(e).id = e.nb /\ Unique(NewDocument(e).cells)
        BY NewDocumentType
    <2>6. docs = Append(h.docs, NewDocument(e))
        BY <1>2, <1>5
    <2>7. /\ docs \in Seq(Documents) /\ DOMAIN docs = 1..(Len(h.docs) + 1) /\ Len(h.docs) \in Nat
          /\ \A d \in 1..Len(h.docs) : docs[d] = h.docs[d]
          /\ docs[Len(h.docs) + 1] = NewDocument(e)
        BY <1>1, <2>5, <2>6
    <2>8. \A d \in 1..Len(h.docs) : h.docs[d].id # e.nb
        BY <1>1, <2>1 DEF Places
    <2>9. Unique(docs)
        <3>1. \A i, j \in 1..Len(h.docs) : h.docs[i].id = h.docs[j].id => i = j
            BY <1>1 DEF HostSound, Unique
        <3>2. \A i \in 1..(Len(h.docs) + 1) :
                 /\ i \in 1..Len(h.docs) => docs[i].id = h.docs[i].id
                 /\ i \notin 1..Len(h.docs) => i = Len(h.docs) + 1 /\ docs[i].id = e.nb
            BY <2>5, <2>7
        <3> QED BY <2>7, <2>8, <3>1, <3>2 DEF Unique
    <2>10. \A d \in DOMAIN docs : Unique(docs[d].cells)
        <3> SUFFICES ASSUME NEW d \in DOMAIN docs PROVE Unique(docs[d].cells)
            OBVIOUS
        <3>1. CASE d = Len(h.docs) + 1
            BY <2>5, <2>7, <3>1
        <3>2. CASE d # Len(h.docs) + 1
            <4>1. d \in 1..Len(h.docs) /\ d \in DOMAIN h.docs
                BY <1>1, <2>7, <3>2
            <4> QED BY <2>7, <4>1 DEF HostSound
        <3> QED BY <3>1, <3>2
    <2>11. ASSUME NEW nb \in Notebooks, active[nb] # NoRun
           PROVE  active[nb] \in Runs /\ active[nb].nb = nb /\ active[nb].exec # 0 /\ RunShown(docs, active[nb])
        <3> DEFINE run == h.active[nb]
        <3>1. active[nb] = run /\ run # NoRun
            BY <2>4, <2>11
        <3>2. run \in Runs /\ run.nb = nb /\ run.exec # 0 /\ RunShown(h.docs, run)
            BY <1>4, <3>1
        <3> HIDE DEF run
        <3>3. PICK d \in Places(h.docs, run.nb) : \E i \in Places(h.docs[d].cells, run.cell) :
                   h.docs[d].cells[i].status = "running" /\ h.docs[d].cells[i].outs = run.outs
            BY <3>2 DEF RunShown
        <3>4. d \in 1..Len(h.docs) /\ h.docs[d].id = run.nb
            BY <1>1 DEF Places
        <3>5. d \in Places(docs, run.nb) /\ docs[d] = h.docs[d]
            BY <2>7, <3>4 DEF Places
        <3>6. RunShown(docs, run)
            BY <3>3, <3>5 DEF RunShown
        <3> QED BY <3>1, <3>2, <3>6
    <2>12. active \in [Notebooks -> Runs \cup {NoRun}]
        BY <1>1, <1>2, <2>3
    <2>13. new \in Folds
        BY <1>2, <2>7, <2>12 DEF Folds
    <2> QED BY <2>9, <2>10, <2>11, <2>13 DEF HostSound, docs, active, new
<1>6. CASE e.kind # "open"
    <2> DEFINE p == Place(h.docs, e.nb)
               doc == HostDocument(h, e)
               cells == HostCellsAfter(h, e)
               run == HostActive(h, e)
    <2>1. /\ p \in DOMAIN h.docs /\ h.docs[p].id = e.nb /\ Places(h.docs, e.nb) = {p}
          /\ e.kind \in {"execute", "output"} =>
                /\ run \in Runs /\ run.nb = e.nb /\ run.exec # 0
                /\ \E i \in Places(cells, run.cell) : cells[i].status = "running" /\ cells[i].outs = run.outs
        BY <1>6, HostCellsSound
    <2>2. doc \in Documents /\ doc.id = e.nb /\ doc.cells = cells /\ Unique(doc.cells)
        BY <1>6, HostDocumentSound
    <2>3. docs = [h.docs EXCEPT ![p] = doc]
        BY <1>2, <1>6
    <2>4. e.kind \notin {"execute", "output", "end"} => run = h.active[e.nb]
        BY DEF HostActive
    <2>5. e.kind = "end" => run = NoRun
        BY DEF HostActive
    <2>6. e.kind \notin {"output", "end"} => h.active[e.nb] = NoRun
        BY DEF InItsRun
    <2> HIDE DEF p, doc, cells, run
    <2>7. /\ docs \in Seq(Documents) /\ DOMAIN docs = DOMAIN h.docs /\ docs[p] = doc
          /\ \A d \in DOMAIN h.docs : d # p => docs[d] = h.docs[d]
        BY <1>1, <2>1, <2>2, <2>3
    <2>8. /\ \A d \in DOMAIN h.docs : docs[d].id = h.docs[d].id
          /\ Unique(docs) /\ \A id : Places(docs, id) = Places(h.docs, id)
        <3>1. \A d \in DOMAIN h.docs : docs[d].id = h.docs[d].id
            BY <2>1, <2>2, <2>7
        <3> QED BY <2>7, <3>1, SameIds DEF HostSound
    <2>9. \A d \in DOMAIN docs : Unique(docs[d].cells)
        BY <2>2, <2>7 DEF HostSound
    <2>10. run # NoRun => e.kind \in {"execute", "output"}
        BY <2>4, <2>5, <2>6
    <2>11. run \in Runs \cup {NoRun}
        BY <2>1, <2>10
    <2>12. active \in [Notebooks -> Runs \cup {NoRun}]
        <3>1. active = [h.active EXCEPT ![e.nb] = run]
            BY <1>2 DEF run
        <3> QED BY <1>1, <2>11, <3>1
    <2>13. ASSUME NEW nb \in Notebooks, active[nb] # NoRun
           PROVE  active[nb] \in Runs /\ active[nb].nb = nb /\ active[nb].exec # 0 /\ RunShown(docs, active[nb])
        <3>1. CASE nb = e.nb
            <4>1. active[nb] = run
                BY <1>3, <3>1 DEF run
            <4>2. e.kind \in {"execute", "output"}
                BY <2>10, <2>13, <4>1
            <4>3. p \in Places(docs, run.nb) /\ docs[p].cells = cells
                BY <2>1, <2>2, <2>7, <2>8, <4>2
            <4>4. RunShown(docs, run)
                BY <2>1, <4>2, <4>3 DEF RunShown
            <4> QED BY <2>1, <3>1, <4>1, <4>2, <4>4
        <3>2. CASE nb # e.nb
            <4> DEFINE other == h.active[nb]
            <4>1. active[nb] = other /\ other # NoRun
                BY <1>3, <2>13, <3>2
            <4>2. other \in Runs /\ other.nb = nb /\ other.exec # 0 /\ RunShown(h.docs, other)
                BY <1>4, <4>1
            <4> HIDE DEF other
            <4>3. PICK d \in Places(h.docs, other.nb) : \E i \in Places(h.docs[d].cells, other.cell) :
                       h.docs[d].cells[i].status = "running" /\ h.docs[d].cells[i].outs = other.outs
                BY <4>2 DEF RunShown
            <4>4. d \in DOMAIN h.docs /\ h.docs[d].id = nb
                BY <4>2 DEF Places
            <4>5. d # p
                BY <2>1, <3>2, <4>4
            <4>6. docs[d] = h.docs[d] /\ d \in Places(docs, other.nb)
                BY <2>7, <2>8, <4>3, <4>4, <4>5
            <4>7. RunShown(docs, other)
                BY <4>3, <4>6 DEF RunShown
            <4> QED BY <4>1, <4>2, <4>7
        <3> QED BY <3>1, <3>2
    <2>14. new \in Folds
        BY <1>2, <2>7, <2>12 DEF Folds
    <2> QED BY <2>8, <2>9, <2>13, <2>14 DEF HostSound, docs, active, new
<1> QED BY <1>5, <1>6 DEF new

LEMMA NoFoldSound == HostSound(NoFold)
BY DEF HostSound, NoFold, Folds, Unique

(* Every state of the fold of a log is sound, and every event is proper.   *)
LEMMA FoldsAreSound ==
    ASSUME NEW events, Foldable(events)
    PROVE  /\ events \in Seq(Events) /\ Len(events) \in Nat /\ DOMAIN events = 1..Len(events)
           /\ HostStates(events)[0] = NoFold
           /\ \A n \in 0..Len(events) : HostSound(HostStates(events)[n])
           /\ \A n \in 1..Len(events) :
                 /\ n - 1 \in 0..Len(events)
                 /\ HostStates(events)[n] = HostApply(HostStates(events)[n - 1], events[n])
                 /\ Lawful(HostStates(events)[n - 1], events[n]) /\ InItsRun(HostStates(events)[n - 1], events[n])
                 /\ Proper(events[n]) /\ events[n].at = n
<1> DEFINE st == HostStates(events)
           T == {n \in Nat : n <= Len(events) => HostSound(st[n])}
<1>1. events \in Seq(Events) /\ Len(events) \in Nat /\ DOMAIN events = 1..Len(events)
    BY DEF Foldable
<1>2. st[0] = NoFold /\ \A n \in 1..Len(events) : st[n] = HostApply(st[n - 1], events[n])
    BY <1>1, HostStatesRecur
<1>3. ASSUME NEW n \in 1..Len(events)
      PROVE  /\ n - 1 \in 0..Len(events) /\ events[n] \in Events
             /\ events[n].at = n /\ Lawful(st[n - 1], events[n]) /\ InItsRun(st[n - 1], events[n])
    <2>1. events[n].at = n /\ Lawful(st[n - 1], events[n]) /\ InItsRun(st[n - 1], events[n])
        BY <1>1 DEF Foldable
    <2> QED BY <1>1, <2>1
<1> HIDE DEF st
<1>4. \A n \in 1..Len(events) : Proper(events[n])
    <2> SUFFICES ASSUME NEW n \in 1..Len(events) PROVE Proper(events[n])
        OBVIOUS
    <2>1. events[n] \in Events /\ Lawful(st[n - 1], events[n]) /\ events[n].at # 0
        BY <1>1, <1>3
    <2> QED BY <2>1, LawfulIsProper
<1>5. 0 \in T
    BY <1>2, NoFoldSound
<1>6. ASSUME NEW n \in T PROVE n + 1 \in T
    <2> SUFFICES ASSUME n + 1 <= Len(events) PROVE HostSound(st[n + 1])
        OBVIOUS
    <2>1. n \in Nat /\ n + 1 \in 1..Len(events) /\ (n + 1) - 1 = n /\ n <= Len(events)
        BY <1>1
    <2>2. HostSound(st[n])
        BY <2>1
    <2>3. st[n + 1] = HostApply(st[n], events[n + 1])
        BY <1>2, <2>1
    <2>4. Lawful(st[n], events[n + 1]) /\ InItsRun(st[n], events[n + 1]) /\ Proper(events[n + 1])
        BY <1>3, <1>4, <2>1
    <2> QED BY <2>2, <2>3, <2>4, HostStepSound
<1>7. T = Nat
    <2>1. T \in SUBSET Nat
        OBVIOUS
    <2> HIDE DEF T
    <2> QED BY <1>5, <1>6, <2>1, SetInduction
<1>8. \A n \in 0..Len(events) : HostSound(st[n])
    BY <1>1, <1>7
<1> QED BY <1>1, <1>2, <1>3, <1>4, <1>8 DEF st

-----------------------------------------------------------------------------
(* The projector of the browser, on any part of a log. *)

LEMMA ViewFields ==
    ASSUME NEW v \in Views
    PROVE  /\ v.docs \in Seq(Documents) /\ v.active \in SUBSET Runs
           /\ v.incomplete \in BOOLEAN /\ v.error \in BOOLEAN
           /\ \A docs \in Seq(Documents) :
                 LET w == [v EXCEPT !.docs = docs]
                 IN  /\ w \in Views /\ w.docs = docs /\ w.active = v.active
                     /\ w.incomplete = v.incomplete /\ w.error = v.error
           /\ \A active \in SUBSET Runs :
                 LET w == [v EXCEPT !.active = active]
                 IN  /\ w \in Views /\ w.docs = v.docs /\ w.active = active
                     /\ w.incomplete = v.incomplete /\ w.error = v.error
           /\ LET w == Incomplete(v)
              IN  w \in Views /\ w.docs = v.docs /\ w.active = v.active /\ w.incomplete /\ w.error = v.error
           /\ LET w == Incompatible(v)
              IN  w \in Views /\ w.docs = v.docs /\ w.active = v.active /\ w.incomplete = v.incomplete /\ w.error
BY DEF Views, Incomplete, Incompatible

(* A document is given other cells, another version, another kernel.       *)
LEMMA DocumentChanged ==
    ASSUME NEW v \in Views, NEW i \in DOMAIN v.docs, NEW new \in Documents, new.id = v.docs[i].id
    PROVE  LET docs == [v.docs EXCEPT ![i] = new]
               w == [v EXCEPT !.docs = docs]
           IN  /\ w \in Views /\ w.active = v.active /\ w.incomplete = v.incomplete /\ w.error = v.error
               /\ w.docs = docs
               /\ \A id : Places(docs, id) = Places(v.docs, id)
<1> DEFINE docs == [v.docs EXCEPT ![i] = new]
<1>1. v.docs \in Seq(Documents)
    BY ViewFields
<1>2. docs \in Seq(Documents) /\ DOMAIN docs = DOMAIN v.docs
    BY <1>1
<1>3. \A j \in DOMAIN v.docs : docs[j].id = v.docs[j].id
    BY <1>1
<1> HIDE DEF docs
<1>4. \A id : Places(docs, id) = Places(v.docs, id)
    BY <1>2, <1>3, SameIds
<1>5. LET w == [v EXCEPT !.docs = docs]
      IN  /\ w \in Views /\ w.active = v.active /\ w.incomplete = v.incomplete /\ w.error = v.error
          /\ w.docs = docs
    BY <1>2, ViewFields
<1> QED BY <1>4, <1>5 DEF docs

LEMMA WithCellsForm ==
    ASSUME NEW v \in Views, NEW e, Known(v, e), NEW cells \in Seq(CellStates)
    PROVE  LET i == Place(v.docs, e.nb)
               new == [v.docs[i] EXCEPT !.cells = cells]
               w == WithCells(v, e, cells)
           IN  /\ i \in DOMAIN v.docs /\ v.docs[i].id = e.nb /\ v.docs[i] \in Documents
               /\ new \in Documents /\ new.id = e.nb /\ new.cells = cells
               /\ new.kernel = v.docs[i].kernel /\ new.version = v.docs[i].version
               /\ w \in Views /\ w.active = v.active /\ w.incomplete = v.incomplete /\ w.error = v.error
               /\ w.docs = [v.docs EXCEPT ![i] = new]
               /\ \A id : Places(w.docs, id) = Places(v.docs, id)
<1> DEFINE i == Place(v.docs, e.nb)
           doc == v.docs[i]
           new == [doc EXCEPT !.cells = cells]
           w == WithCells(v, e, cells)
<1>1. i \in DOMAIN v.docs /\ doc.id = e.nb
    BY PlaceFound DEF Known
<1>2. doc \in Documents
    BY <1>1, ViewFields
<1>3. new \in Documents /\ new.id = doc.id /\ new.cells = cells /\ new.kernel = doc.kernel /\ new.version = doc.version
    <2> HIDE DEF doc
    <2> QED BY <1>2 DEF Documents
<1> DEFINE docs == [v.docs EXCEPT ![i] = new]
<1>4. w = [v EXCEPT !.docs = docs]
    BY DEF WithCells
<1> HIDE DEF i, new, w
<1>5. /\ w \in Views /\ w.active = v.active /\ w.incomplete = v.incomplete /\ w.error = v.error
      /\ w.docs = [v.docs EXCEPT ![i] = new]
      /\ \A id : Places(w.docs, id) = Places(v.docs, id)
    <2>1. new.id = v.docs[i].id
        BY <1>1, <1>3
    <2>2. LET u == [v EXCEPT !.docs = docs]
          IN  /\ u \in Views /\ u.active = v.active /\ u.incomplete = v.incomplete /\ u.error = v.error
              /\ u.docs = docs
              /\ \A id : Places(docs, id) = Places(v.docs, id)
        BY <1>1, <1>3, <2>1, DocumentChanged
    <2> QED BY <1>4, <2>2
<1> QED BY <1>1, <1>2, <1>3, <1>5 DEF i, new, w

LEMMA AtVersionForm ==
    ASSUME NEW v \in Views, NEW e, Known(v, e), Proper(e)
    PROVE  LET i == Place(v.docs, e.nb)
               new == [v.docs[i] EXCEPT !.version = e.at]
               w == AtVersion(v, e)
           IN  /\ i \in DOMAIN v.docs /\ v.docs[i] \in Documents
               /\ new \in Documents /\ new.id = e.nb /\ new.version = e.at
               /\ new.kernel = v.docs[i].kernel /\ new.cells = v.docs[i].cells
               /\ w \in Views /\ w.active = v.active /\ w.incomplete = v.incomplete /\ w.error = v.error
               /\ w.docs = [v.docs EXCEPT ![i] = new]
               /\ \A id : Places(w.docs, id) = Places(v.docs, id)
<1> DEFINE i == Place(v.docs, e.nb)
           doc == v.docs[i]
           new == [doc EXCEPT !.version = e.at]
           w == AtVersion(v, e)
<1>1. i \in DOMAIN v.docs /\ doc.id = e.nb
    BY PlaceFound DEF Known
<1>2. doc \in Documents /\ e.at \in Nat
    BY <1>1, ViewFields, EventFields
<1>3. new \in Documents /\ new.id = doc.id /\ new.version = e.at /\ new.kernel = doc.kernel /\ new.cells = doc.cells
    <2> HIDE DEF doc
    <2> QED BY <1>2 DEF Documents
<1> DEFINE docs == [v.docs EXCEPT ![i] = new]
<1>4. w = [v EXCEPT !.docs = docs]
    BY DEF AtVersion
<1> HIDE DEF i, new, w
<1>5. /\ w \in Views /\ w.active = v.active /\ w.incomplete = v.incomplete /\ w.error = v.error
      /\ w.docs = [v.docs EXCEPT ![i] = new]
      /\ \A id : Places(w.docs, id) = Places(v.docs, id)
    <2>1. new.id = v.docs[i].id
        BY <1>1, <1>3
    <2>2. LET u == [v EXCEPT !.docs = docs]
          IN  /\ u \in Views /\ u.active = v.active /\ u.incomplete = v.incomplete /\ u.error = v.error
              /\ u.docs = docs
              /\ \A id : Places(docs, id) = Places(v.docs, id)
        BY <1>1, <1>3, <2>1, DocumentChanged
    <2> QED BY <1>4, <2>2
<1> QED BY <1>1, <1>2, <1>3, <1>5 DEF i, new, w

(* Both at once, where ids are unique.                                     *)
LEMMA BothForms ==
    ASSUME NEW v \in Views, NEW e, Known(v, e), Proper(e), NEW cells \in Seq(CellStates)
    PROVE  LET w == AtVersion(WithCells(v, e, cells), e)
           IN  /\ w \in Views /\ w.active = v.active /\ w.incomplete = v.incomplete /\ w.error = v.error
               /\ \A id : Places(w.docs, id) = Places(v.docs, id)
               /\ Unique(v.docs) =>
                     LET i == Place(v.docs, e.nb)
                     IN  /\ i \in DOMAIN v.docs
                         /\ \E new \in Documents :
                               /\ w.docs = [v.docs EXCEPT ![i] = new]
                               /\ new.id = e.nb /\ new.cells = cells /\ new.version = e.at
                               /\ new.kernel = v.docs[i].kernel
<1> DEFINE i == Place(v.docs, e.nb)
           u == WithCells(v, e, cells)
           mid == [v.docs[i] EXCEPT !.cells = cells]
           w == AtVersion(u, e)
           j == Place(u.docs, e.nb)
           new == [u.docs[j] EXCEPT !.version = e.at]
<1>1. /\ i \in DOMAIN v.docs /\ v.docs[i].id = e.nb /\ v.docs[i] \in Documents
      /\ mid \in Documents /\ mid.id = e.nb /\ mid.cells = cells /\ mid.kernel = v.docs[i].kernel
      /\ u \in Views /\ u.active = v.active /\ u.incomplete = v.incomplete /\ u.error = v.error
      /\ u.docs = [v.docs EXCEPT ![i] = mid]
      /\ \A id : Places(u.docs, id) = Places(v.docs, id)
    BY WithCellsForm
<1>2. Known(u, e)
    BY <1>1 DEF Known
<1> HIDE DEF u
<1>3. /\ j \in DOMAIN u.docs /\ new \in Documents /\ new.id = e.nb /\ new.version = e.at
      /\ new.kernel = u.docs[j].kernel /\ new.cells = u.docs[j].cells
      /\ w \in Views /\ w.active = u.active /\ w.incomplete = u.incomplete /\ w.error = u.error
      /\ w.docs = [u.docs EXCEPT ![j] = new]
      /\ \A id : Places(w.docs, id) = Places(u.docs, id)
    BY <1>1, <1>2, AtVersionForm
<1> HIDE DEF w, new, mid
<1>4. /\ w \in Views /\ w.active = v.active /\ w.incomplete = v.incomplete /\ w.error = v.error
      /\ \A id : Places(w.docs, id) = Places(v.docs, id)
    BY <1>1, <1>3
<1>5. ASSUME Unique(v.docs)
      PROVE  \E new0 \in Documents :
                /\ w.docs = [v.docs EXCEPT ![i] = new0]
                /\ new0.id = e.nb /\ new0.cells = cells /\ new0.version = e.at
                /\ new0.kernel = v.docs[i].kernel
    <2>1. Places(v.docs, e.nb) = {i}
        BY <1>1, <1>5, PlaceOf
    <2>2. j = i
        <3>1. Places(u.docs, e.nb) = {i}
            BY <1>1, <2>1
        <3> QED BY <3>1 DEF Place
    <2> HIDE DEF i, j
    <2>3. u.docs[i] = mid
        BY <1>1
    <2>4. w.docs = [v.docs EXCEPT ![i] = new]
        BY <1>1, <1>3, <2>2
    <2>5. new.cells = cells /\ new.kernel = v.docs[i].kernel
        BY <1>1, <1>3, <2>2, <2>3
    <2> QED BY <1>3, <2>4, <2>5
<1> QED BY <1>1, <1>4, <1>5 DEF w, u, i

LEMMA ViewCellsType ==
    ASSUME NEW v \in Views, NEW e, Known(v, e)
    PROVE  /\ ViewCells(v, e) \in Seq(CellStates) /\ ViewCells(v, e) = v.docs[Place(v.docs, e.nb)].cells
           /\ Len(ViewCells(v, e)) \in Nat /\ DOMAIN ViewCells(v, e) = 1..Len(ViewCells(v, e))
<1> DEFINE i == Place(v.docs, e.nb)
<1>1. i \in DOMAIN v.docs
    BY PlaceFound DEF Known
<1>2. v.docs[i] \in Documents
    BY <1>1, ViewFields
<1>3. v.docs[i].cells \in Seq(CellStates)
    BY <1>2, DocumentFields
<1>4. ViewCells(v, e) = v.docs[i].cells
    BY DEF ViewCells, CellsOf, Known
<1> QED BY <1>3, <1>4

(* A cell that is located is in a document that is known.                  *)
LEMMA LocatedCell ==
    ASSUME NEW v \in Views, NEW e, Located(v, e)
    PROVE  LET cells == ViewCells(v, e)
               at == Place(cells, e.cell)
           IN  /\ Known(v, e) /\ at \in 1..Len(cells) /\ cells[at] \in CellStates
               /\ cells[at].id = e.cell /\ e.cell \in Cells
<1> DEFINE cells == ViewCells(v, e)
           at == Place(cells, e.cell)
<1>1. Known(v, e)
    BY DEF Located, ViewCells, CellsOf, Known, Places
<1>2. at \in DOMAIN cells /\ cells[at].id = e.cell
    BY PlaceFound DEF Located
<1>3. cells \in Seq(CellStates) /\ DOMAIN cells = 1..Len(cells)
    BY <1>1, ViewCellsType
<1> HIDE DEF cells, at
<1>4. cells[at] \in CellStates
    BY <1>2, <1>3
<1>5. cells[at].id \in Cells
    BY <1>4, CellFields
<1> QED BY <1>1, <1>2, <1>3, <1>4, <1>5 DEF cells, at

LEMMA RemoveInsertTypes ==
    ASSUME NEW cells \in Seq(CellStates), NEW e, Proper(e)
    PROVE  /\ e.index \in 1..(Len(cells) + 1) /\ e.cell \in Cells =>
                 InsertAt(cells, e.index, NewCell(e)) \in Seq(CellStates)
           /\ e.index \in 1..Len(cells) =>
                 /\ RemoveAt(cells, e.index) \in Seq(CellStates)
                 /\ [cells EXCEPT ![e.index].source = e.at] \in Seq(CellStates)
                 /\ e.to \in 1..Len(cells) => Moved(cells, e.index, e.to) \in Seq(CellStates)
<1>1. ASSUME e.index \in 1..(Len(cells) + 1), e.cell \in Cells
      PROVE  InsertAt(cells, e.index, NewCell(e)) \in Seq(CellStates)
    BY <1>1, NewCellType, InsertAtType
<1>2. ASSUME e.index \in 1..Len(cells)
      PROVE  [cells EXCEPT ![e.index].source = e.at] \in Seq(CellStates)
    <2> DEFINE c == [cells[e.index] EXCEPT !.source = e.at]
    <2>1. c \in CellStates
        BY <1>2, CellFields, EventFields
    <2>2. [cells EXCEPT ![e.index].source = e.at] = [cells EXCEPT ![e.index] = c]
        OBVIOUS
    <2> HIDE DEF c
    <2> QED BY <1>2, <2>1, <2>2
<1>3. ASSUME e.index \in 1..Len(cells)
      PROVE  RemoveAt(cells, e.index) \in Seq(CellStates) /\ Len(RemoveAt(cells, e.index)) = Len(cells) - 1
    BY <1>3, RemoveAtType
<1>4. ASSUME e.index \in 1..Len(cells), e.to \in 1..Len(cells)
      PROVE  Moved(cells, e.index, e.to) \in Seq(CellStates)
    <2> DEFINE rest == RemoveAt(cells, e.index)
    <2>1. rest \in Seq(CellStates) /\ Len(rest) = Len(cells) - 1
        BY <1>3, <1>4
    <2>2. e.to \in 1..(Len(rest) + 1) /\ cells[e.index] \in CellStates
        BY <1>4, <2>1
    <2> HIDE DEF rest
    <2>3. InsertAt(rest, e.to, cells[e.index]) \in Seq(CellStates)
        BY <2>1, <2>2, InsertAtType
    <2> QED BY <2>3 DEF Moved, rest
<1> QED BY <1>1, <1>2, <1>3, <1>4

(* The outputs of a run reach cells of its document.                       *)
LEMMA ViewOutputCellsType ==
    ASSUME NEW e, Proper(e), e.kind = "output", NEW run \in Runs, NEW cells \in Seq(CellStates),
           Place(cells, e.cell) \in 1..Len(cells)
    PROVE  ViewOutputCells(cells, run, e) \in Seq(CellStates)
<1> DEFINE at == Place(cells, e.cell)
<1>1. run.outs \in Seq(Outputs) /\ e.mutation.data \in Nat
      /\ e.mutation.op \in {"append", "clear", "update"} /\ e.mutation.wait \in BOOLEAN
    BY MutationFields DEF Runs, Proper
<1>2. \A i \in DOMAIN cells : cells[i] \in CellStates /\ cells[i].outs \in Seq(Outputs)
    BY CellFields
<1>3. CASE e.mutation.op = "update"
    <2> DEFINE outs == [i \in DOMAIN cells |->
                          IF cells[i].id = run.cell THEN run.outs ELSE Redisplayed(cells[i].outs, e.mutation)]
               new == [i \in DOMAIN cells |-> [cells[i] EXCEPT !.outs = outs[i]]]
    <2>1. ViewOutputCells(cells, run, e) = new
        BY <1>3 DEF ViewOutputCells, Elsewhere
    <2>2. \A i \in DOMAIN cells : outs[i] \in Seq(Outputs)
        BY <1>1, <1>2, RedisplayedType
    <2> HIDE DEF outs
    <2>3. new \in Seq(CellStates)
        BY <2>2, CellsRedisplayed
    <2> QED BY <2>1, <2>3
<1>4. CASE e.mutation.op = "clear" /\ e.mutation.wait
    BY <1>4 DEF ViewOutputCells
<1>5. CASE e.mutation.op \in {"append", "clear"} /\ ~(e.mutation.op = "clear" /\ e.mutation.wait)
    <2> DEFINE c == [cells[at] EXCEPT !.outs = run.outs, !.status = "running"]
    <2>1. ViewOutputCells(cells, run, e) = [cells EXCEPT ![at] = c]
        BY <1>5 DEF ViewOutputCells
    <2>2. \A outs \in Seq(Outputs) : [cells[at] EXCEPT !.outs = outs, !.status = "running"] \in CellStates
        <3>1. cells[at] \in CellStates
            BY <1>2
        <3> HIDE DEF at
        <3> QED BY <3>1 DEF CellStates
    <2>3. c \in CellStates
        BY <1>1, <2>2
    <2> HIDE DEF c, at
    <2> QED BY <2>1, <2>3 DEF at
<1> QED BY <1>1, <1>3, <1>4, <1>5

LEMMA WithCellsType ==
    ASSUME NEW v \in Views, NEW e, Known(v, e), NEW cells \in Seq(CellStates)
    PROVE  WithCells(v, e, cells) \in Views /\ WithCells(v, e, cells).active = v.active
<1> DEFINE i == Place(v.docs, e.nb)
           u == WithCells(v, e, cells)
           mid == [v.docs[i] EXCEPT !.cells = cells]
<1>1. /\ i \in DOMAIN v.docs /\ v.docs[i].id = e.nb /\ v.docs[i] \in Documents
      /\ mid \in Documents /\ mid.id = e.nb /\ mid.cells = cells /\ mid.kernel = v.docs[i].kernel
      /\ u \in Views /\ u.active = v.active /\ u.incomplete = v.incomplete /\ u.error = v.error
      /\ u.docs = [v.docs EXCEPT ![i] = mid]
      /\ \A id : Places(u.docs, id) = Places(v.docs, id)
    BY WithCellsForm
<1> QED BY <1>1

LEMMA BegunRun ==
    ASSUME NEW e, Proper(e), e.cell \in Cells
    PROVE  /\ NewRun(e) \in Runs /\ NewRun(e).nb = e.nb /\ NewRun(e).cell = e.cell
           /\ NewRun(e).exec = e.exec /\ NewRun(e).outs = <<>>
BY EventFields DEF NewRun, Runs

(* Whatever is missing, the projector keeps its types, and the runs it     *)
(* keeps began with events it was given.                                   *)
LEMMA ViewApplyType ==
    ASSUME NEW v \in Views, NEW e, Proper(e)
    PROVE  /\ ViewApply(v, e) \in Views
           /\ \A r \in ViewApply(v, e).active : r.exec = e.at \/ \E q \in v.active : r.exec = q.exec
<1> DEFINE new == ViewApply(v, e)
           Kept2 == \A r \in new.active : r.exec = e.at \/ \E q \in v.active : r.exec = q.exec
           cells == ViewCells(v, e)
           at == Place(cells, e.cell)
<1>1. v.active \in SUBSET Runs /\ v.error \in BOOLEAN
    BY ViewFields
<1>2. Incomplete(v) \in Views /\ Incomplete(v).active = v.active
      /\ Incompatible(v) \in Views /\ Incompatible(v).active = v.active
    BY ViewFields
<1>3. CASE v.error
    <2>1. new = v
        BY <1>3 DEF ViewApply
    <2> QED BY <2>1
<1>4. CASE ~v.error /\ e.kind = "open"
    <2>1. new = ViewOpen(v, e)
        BY <1>4 DEF ViewApply
    <2>2. CASE Known(v, e)
        BY <1>2, <2>1, <2>2 DEF ViewOpen
    <2>3. CASE ~Known(v, e)
        <3> DEFINE docs == Append(v.docs, NewDocument(e))
        <3>1. docs \in Seq(Documents)
            BY ViewFields, NewDocumentType
        <3>2. new = [v EXCEPT !.docs = docs]
            BY <2>1, <2>3 DEF ViewOpen
        <3> HIDE DEF docs, new
        <3>3. new \in Views /\ new.active = v.active
            BY <3>1, <3>2, ViewFields
        <3> QED BY <3>3 DEF new
    <2> QED BY <2>2, <2>3
<1>5. CASE ~v.error /\ e.kind \in {"create", "update", "delete", "move"}
    <2>1. new = ViewCell(v, e)
        BY <1>5 DEF ViewApply
    <2>2. CASE ~Applicable(v, e)
        BY <1>2, <2>1, <2>2 DEF ViewCell
    <2>3. CASE Applicable(v, e)
        <3> DEFINE after == CASE e.kind = "create" -> InsertAt(cells, e.index, NewCell(e))
                              [] e.kind = "delete" -> RemoveAt(cells, e.index)
                              [] e.kind = "move" -> Moved(cells, e.index, e.to)
                              [] e.kind = "update" -> [cells EXCEPT ![e.index].source = e.at]
        <3>1. Known(v, e) /\ cells \in Seq(CellStates) /\ DOMAIN cells = 1..Len(cells)
            BY <2>3, ViewCellsType DEF Applicable
        <3>2. new = AtVersion(WithCells(v, e, after), e)
            BY <2>1, <2>3 DEF ViewCell
        <3>3. /\ e.kind = "create" => e.index \in 1..(Len(cells) + 1) /\ e.cell \in Cells
              /\ e.kind \in {"update", "delete", "move"} => e.index \in 1..Len(cells)
              /\ e.kind = "move" => e.to \in 1..Len(cells)
            BY <2>3, <3>1 DEF Applicable, Places, Proper
        <3>4. after \in Seq(CellStates)
            <4> HIDE DEF cells
            <4> QED BY <1>5, <3>1, <3>3, RemoveInsertTypes
        <3> HIDE DEF after, new
        <3>5. new \in Views /\ new.active = v.active
            BY <3>1, <3>2, <3>4, BothForms
        <3> QED BY <3>5 DEF new
    <2> QED BY <2>2, <2>3
<1>6. CASE ~v.error /\ e.kind = "execute"
    <2>1. new = ViewExecute(v, e)
        BY <1>6 DEF ViewApply
    <2>2. CASE ~Located(v, e)
        BY <1>2, <2>1, <2>2 DEF ViewExecute
    <2>3. CASE Located(v, e)
        <3> DEFINE after == [cells EXCEPT ![at] = Begun(cells[at])]
                   w == WithCells(v, e, after)
                   run == NewRun(e)
                   active == (w.active \ ActiveRun(v, e)) \cup {run}
        <3>1. Known(v, e) /\ at \in 1..Len(cells) /\ cells[at] \in CellStates /\ e.cell \in Cells
              /\ cells \in Seq(CellStates)
            BY <2>3, LocatedCell, ViewCellsType
        <3>2. after \in Seq(CellStates)
            <4> HIDE DEF at, cells
            <4> QED BY <3>1, CellSteps, CellChanged
        <3>3. new = [w EXCEPT !.active = active]
            BY <2>1, <2>3 DEF ViewExecute
        <3>4. run \in Runs /\ run.exec = e.at
            BY <1>6, <3>1, BegunRun DEF Proper
        <3> HIDE DEF after, new, run, cells, at
        <3>5. w \in Views /\ w.active = v.active
            BY <3>1, <3>2, WithCellsType
        <3> HIDE DEF w
        <3>6. active \in SUBSET Runs
            BY <1>1, <3>4, <3>5
        <3>7. \A r \in active : r = run \/ r \in v.active
            BY <3>5
        <3> HIDE DEF active
        <3>8. new \in Views /\ new.active = active
            BY <3>3, <3>5, <3>6 DEF Views
        <3> QED BY <3>4, <3>7, <3>8 DEF new
    <2> QED BY <2>2, <2>3
<1>7. CASE ~v.error /\ e.kind = "output"
    <2>1. new = ViewOutput(v, e)
        BY <1>7 DEF ViewApply
    <2>2. CASE ActiveRun(v, e) = {} \/ ~Located(v, e)
        BY <1>2, <2>1, <2>2 DEF ViewOutput
    <2>3. CASE ActiveRun(v, e) # {} /\ Located(v, e)
        <3> DEFINE old == CHOOSE r \in ActiveRun(v, e) : TRUE
                   run == ViewRun(old, e)
                   after == ViewOutputCells(cells, run, e)
                   w == WithCells(v, e, after)
                   active == (w.active \ {old}) \cup {run}
        <3>1. Known(v, e) /\ at \in 1..Len(cells) /\ cells \in Seq(CellStates)
            BY <2>3, LocatedCell, ViewCellsType
        <3>2. old \in ActiveRun(v, e)
            BY <2>3
        <3>3. old \in v.active /\ old \in Runs
            BY <1>1, <3>2 DEF ActiveRun
        <3>4. new = [w EXCEPT !.active = active]
            BY <2>1, <2>3 DEF ViewOutput
        <3> HIDE DEF old
        <3>5. run \in Runs /\ run.exec = old.exec
            BY <1>7, <3>3, RunsAgree, RunType
        <3> HIDE DEF run
        <3>6. after \in Seq(CellStates)
            <4> HIDE DEF cells
            <4> QED BY <1>7, <3>1, <3>5, ViewOutputCellsType
        <3> HIDE DEF after, new, cells, at
        <3>7. w \in Views /\ w.active = v.active
            BY <3>1, <3>6, WithCellsType
        <3> HIDE DEF w
        <3>8. active \in SUBSET Runs /\ \A r \in active : r = run \/ r \in v.active
            BY <1>1, <3>5, <3>7
        <3> HIDE DEF active
        <3>9. new \in Views /\ new.active = active
            BY <3>4, <3>7, <3>8 DEF Views
        <3> QED BY <3>3, <3>5, <3>8, <3>9 DEF new
    <2> QED BY <2>2, <2>3
<1>8. CASE ~v.error /\ e.kind = "end"
    <2>1. new = ViewEnd(v, e)
        BY <1>8 DEF ViewApply
    <2>2. CASE ActiveRun(v, e) = {} \/ ~Located(v, e)
        BY <1>2, <2>1, <2>2 DEF ViewEnd
    <2>3. CASE ActiveRun(v, e) # {} /\ Located(v, e)
        <3> DEFINE run == CHOOSE r \in ActiveRun(v, e) : TRUE
                   after == [cells EXCEPT ![at] = Ended(cells[at], run.outs, e)]
                   w == AtVersion(WithCells(v, e, after), e)
                   active == w.active \ {run}
        <3>1. Known(v, e) /\ at \in 1..Len(cells) /\ cells[at] \in CellStates /\ cells \in Seq(CellStates)
            BY <2>3, LocatedCell, ViewCellsType
        <3>2. run \in ActiveRun(v, e)
            BY <2>3
        <3>3. run \in Runs /\ run.outs \in Seq(Outputs)
            BY <1>1, <3>2 DEF ActiveRun, Runs
        <3>4. new = [w EXCEPT !.active = active]
            BY <2>1, <2>3 DEF ViewEnd
        <3> HIDE DEF run
        <3>5. after \in Seq(CellStates)
            <4> DEFINE c == Ended(cells[at], run.outs, e)
            <4>1. c \in CellStates
                BY <3>1, <3>3, CellSteps
            <4>2. after = [cells EXCEPT ![at] = c]
                OBVIOUS
            <4> HIDE DEF at, cells, c, after
            <4> QED BY <3>1, <4>1, <4>2
        <3> HIDE DEF after, new
        <3>6. w \in Views /\ w.active = v.active
            BY <3>1, <3>5, BothForms
        <3> HIDE DEF w
        <3>7. active \in SUBSET Runs /\ active \subseteq v.active
            BY <1>1, <3>6
        <3> HIDE DEF active
        <3>8. new \in Views /\ new.active = active
            BY <3>4, <3>6, <3>7 DEF Views
        <3> QED BY <3>7, <3>8 DEF new
    <2> QED BY <2>2, <2>3
<1>9. CASE ~v.error /\ e.kind = "kernel"
    <2>1. new = ViewKernel(v, e)
        BY <1>9 DEF ViewApply
    <2>2. CASE ~Known(v, e) \/ \E d \in Places(v.docs, e.nb) : e.generation # v.docs[d].kernel + 1
        BY <1>2, <2>1, <2>2 DEF ViewKernel, Unknown
    <2>3. CASE ~(~Known(v, e) \/ \E d \in Places(v.docs, e.nb) : e.generation # v.docs[d].kernel + 1)
        <3> DEFINE i == Place(v.docs, e.nb)
                   doc == [v.docs[i] EXCEPT !.kernel = e.generation]
        <3>1. new = [v EXCEPT !.docs = [v.docs EXCEPT ![i] = doc]]
            BY <2>1, <2>3 DEF ViewKernel
        <3>2. i \in DOMAIN v.docs
            BY <2>3, PlaceFound DEF Known
        <3>3. v.docs[i] \in Documents /\ e.generation \in Nat
            BY <3>2, ViewFields, EventFields
        <3>4. doc \in Documents /\ doc.id = v.docs[i].id
            <4> HIDE DEF i
            <4> QED BY <3>3 DEF Documents
        <3> HIDE DEF i, doc, new
        <3>5. new \in Views /\ new.active = v.active
            BY <3>1, <3>2, <3>4, DocumentChanged
        <3> QED BY <3>5 DEF new
    <2> QED BY <2>2, <2>3
<1>10. CASE ~v.error /\ e.kind = "reload"
    <2>1. new = ViewReload(v, e)
        BY <1>10 DEF ViewApply
    <2>2. CASE ~Known(v, e)
        BY <1>2, <2>1, <2>2 DEF ViewReload
    <2>3. CASE Known(v, e)
        <3> DEFINE w == AtVersion(WithCells(v, e, e.cells), e)
                   active == {r \in w.active : r.nb # e.nb}
        <3>1. new = [w EXCEPT !.active = active]
            BY <2>1, <2>3 DEF ViewReload
        <3>2. e.cells \in Seq(CellStates)
            BY EventFields
        <3> HIDE DEF new
        <3>3. w \in Views /\ w.active = v.active
            BY <2>3, <3>2, BothForms
        <3> HIDE DEF w
        <3>4. active \in SUBSET Runs /\ active \subseteq v.active
            BY <1>1, <3>3
        <3> HIDE DEF active
        <3>5. new \in Views /\ new.active = active
            BY <3>1, <3>3, <3>4 DEF Views
        <3> QED BY <3>4, <3>5 DEF new
    <2> QED BY <2>2, <2>3
<1> QED BY EventFields, <1>1, <1>3, <1>4, <1>5, <1>6, <1>7, <1>8, <1>9, <1>10

-----------------------------------------------------------------------------
(* Batches. *)

LEMMA NoViewType == NoView \in Views
<1>1. <<>> \in Seq(Documents)
    OBVIOUS
<1> QED BY <1>1 DEF NoView, Views

(* Whatever the builder is given of a log, its state has its types.        *)
LEMMA ViewsAreTyped ==
    ASSUME NEW events, Foldable(events), NEW places
    PROVE  /\ ViewStates(events, NoView, places)[0] = NoView
           /\ \A n \in 0..Len(events) :
                 /\ ViewStates(events, NoView, places)[n] \in Views
                 /\ \A r \in ViewStates(events, NoView, places)[n].active : r.exec \in 1..n
           /\ \A n \in 1..Len(events) :
                 ViewStates(events, NoView, places)[n]
                    = ViewStep(ViewStates(events, NoView, places)[n - 1], events, places, n)
<1> DEFINE st == ViewStates(events, NoView, places)
           Good(n) == st[n] \in Views /\ \A r \in st[n].active : r.exec \in 1..n
           T == {n \in Nat : n <= Len(events) => Good(n)}
<1>1. events \in Seq(Events) /\ Len(events) \in Nat
    BY FoldsAreSound
<1>2. st[0] = NoView /\ \A n \in 1..Len(events) : st[n] = ViewStep(st[n - 1], events, places, n)
    BY <1>1, ViewStatesRecur
<1>3. \A n \in 1..Len(events) : Proper(events[n]) /\ events[n].at = n
    BY FoldsAreSound
<1> HIDE DEF st
<1>4. 0 \in T
    BY <1>2, NoViewType DEF NoView
<1>5. ASSUME NEW n \in T PROVE n + 1 \in T
    <2> SUFFICES ASSUME n + 1 <= Len(events) PROVE Good(n + 1)
        OBVIOUS
    <2>1. n \in Nat /\ n + 1 \in 1..Len(events) /\ (n + 1) - 1 = n /\ n <= Len(events)
        BY <1>1
    <2>2. Good(n)
        BY <2>1
    <2>3. st[n + 1] = IF n + 1 \in places THEN ViewApply(st[n], events[n + 1]) ELSE st[n]
        BY <1>2, <2>1 DEF ViewStep
    <2>4. Proper(events[n + 1]) /\ events[n + 1].at = n + 1
        BY <1>3, <2>1
    <2> DEFINE e == events[n + 1]
               old == st[n]
               new == ViewApply(old, e)
    <2>5. new \in Views /\ \A r \in new.active : r.exec = e.at \/ \E q \in old.active : r.exec = q.exec
        BY <2>2, <2>4, ViewApplyType
    <2>6. old \in Views /\ \A q \in old.active : q.exec \in 1..n
        BY <2>2
    <2>7. e.at = n + 1 /\ st[n + 1] = IF n + 1 \in places THEN new ELSE old
        BY <2>3, <2>4
    <2> HIDE DEF e, old, new
    <2>8. (\A r \in new.active : r.exec \in 1..(n + 1)) /\ \A r \in old.active : r.exec \in 1..(n + 1)
        BY <2>1, <2>5, <2>6, <2>7
    <2> QED BY <2>5, <2>6, <2>7, <2>8
<1>6. T = Nat
    <2>1. T \in SUBSET Nat
        OBVIOUS
    <2> HIDE DEF T
    <2> QED BY <1>4, <1>5, <2>1, SetInduction
<1>7. \A n \in 0..Len(events) : Good(n)
    BY <1>1, <1>6
<1> QED BY <1>2, <1>7 DEF st

(* Where there is nothing to fold the state stays.                         *)
LEMMA NothingToFold ==
    ASSUME NEW events \in Seq(Events), NEW v, NEW places, NEW m \in 0..Len(events),
           \A k \in places : k \in 1..Len(events) => k <= m
    PROVE  \A n \in m..Len(events) : ViewStates(events, v, places)[n] = ViewStates(events, v, places)[m]
<1> DEFINE st == ViewStates(events, v, places)
           T == {n \in Nat : n \in m..Len(events) => st[n] = st[m]}
<1>1. Len(events) \in Nat
    OBVIOUS
<1>2. \A n \in 1..Len(events) : st[n] = IF n \in places THEN ViewApply(st[n - 1], events[n]) ELSE st[n - 1]
    BY ViewStatesRecur DEF ViewStep
<1> HIDE DEF st
<1>3. 0 \in T
    BY <1>1
<1>4. ASSUME NEW n \in T PROVE n + 1 \in T
    <2> SUFFICES ASSUME n + 1 \in m..Len(events) PROVE st[n + 1] = st[m]
        OBVIOUS
    <2>1. n \in Nat /\ n + 1 \in 1..Len(events) /\ (n + 1) - 1 = n /\ m \in Nat
        BY <1>1
    <2>2. CASE n + 1 = m
        BY <2>2
    <2>3. CASE n + 1 # m
        <3>1. n \in m..Len(events) /\ n + 1 \notin places
            BY <1>1, <2>1, <2>3
        <3>2. st[n] = st[m] /\ st[n + 1] = st[n]
            BY <1>2, <2>1, <3>1
        <3> QED BY <3>2
    <2> QED BY <2>2, <2>3
<1>5. T = Nat
    <2>1. T \in SUBSET Nat
        OBVIOUS
    <2> HIDE DEF T
    <2> QED BY <1>3, <1>4, <2>1, SetInduction
<1>6. \A n \in m..Len(events) : n \in Nat /\ n \in T
    BY <1>1, <1>5
<1> QED BY <1>6 DEF st

(* Up to some place only the events up to there count.                     *)
LEMMA SamePrefix ==
    ASSUME NEW events \in Seq(Events), NEW v, NEW places, NEW more, NEW m \in 0..Len(events),
           \A k \in 1..m : k \in places <=> k \in more
    PROVE  \A n \in 0..m : ViewStates(events, v, places)[n] = ViewStates(events, v, more)[n]
<1> DEFINE st == ViewStates(events, v, places)
           su == ViewStates(events, v, more)
           T == {n \in Nat : n \in 0..m => st[n] = su[n]}
<1>1. Len(events) \in Nat
    OBVIOUS
<1>2. /\ st[0] = v /\ su[0] = v
      /\ \A n \in 1..Len(events) : st[n] = ViewStep(st[n - 1], events, places, n)
      /\ \A n \in 1..Len(events) : su[n] = ViewStep(su[n - 1], events, more, n)
    BY ViewStatesRecur
<1> HIDE DEF st, su
<1>3. 0 \in T
    BY <1>2
<1>4. ASSUME NEW n \in T PROVE n + 1 \in T
    <2> SUFFICES ASSUME n + 1 \in 0..m PROVE st[n + 1] = su[n + 1]
        OBVIOUS
    <2>1. n \in Nat /\ n \in 0..m /\ n + 1 \in 1..m /\ n + 1 \in 1..Len(events) /\ (n + 1) - 1 = n
        BY <1>1
    <2>2. st[n] = su[n]
        BY <2>1
    <2> QED BY <1>2, <2>1, <2>2 DEF ViewStep
<1>5. T = Nat
    <2>1. T \in SUBSET Nat
        OBVIOUS
    <2> HIDE DEF T
    <2> QED BY <1>3, <1>4, <2>1, SetInduction
<1>6. \A n \in 0..m : n \in T
    BY <1>5
<1> QED BY <1>6 DEF st, su

(* A batch that comes after everything folded so far can be folded alone.  *)
Follows(batch, places, m) == (\A k \in places : k <= m) /\ \A k \in batch : k \in Nat /\ k > m

LEMMA LaterBatch ==
    ASSUME NEW events \in Seq(Events), NEW v, NEW places, NEW batch, NEW m \in 0..Len(events),
           Follows(batch, places, m),
           NEW before, before = ViewStates(events, v, places)[Len(events)]
    PROVE  ViewStates(events, before, batch)[Len(events)]
              = ViewStates(events, v, places \cup batch)[Len(events)]
<1> DEFINE N == Len(events)
           sb == ViewStates(events, before, batch)
           su == ViewStates(events, v, places \cup batch)
           T == {n \in Nat : n \in m..N => sb[n] = su[n]}
<1>1. N \in Nat /\ m \in Nat /\ m <= N /\ N \in m..N /\ m \in 0..m
    OBVIOUS
<1>0. (\A k \in places : k <= m) /\ \A k \in batch : k \in Nat /\ k > m
    BY DEF Follows
<1>2. /\ sb[0] = before
      /\ \A n \in 1..N : sb[n] = ViewStep(sb[n - 1], events, batch, n)
      /\ \A n \in 1..N : su[n] = ViewStep(su[n - 1], events, places \cup batch, n)
    BY ViewStatesRecur
<1>3. before = ViewStates(events, v, places)[m]
    BY <1>0, <1>1, NothingToFold
<1>4. su[m] = before
    <2>1. \A k \in 1..m : k \in places <=> k \in places \cup batch
        BY <1>0, <1>1
    <2>2. \A n \in 0..m : ViewStates(events, v, places)[n] = su[n]
        BY <2>1, SamePrefix
    <2> QED BY <1>1, <1>3, <2>2
<1>5. sb[m] = before
    <2>1. \A k \in 1..m : k \in batch <=> k \in {}
        BY <1>0, <1>1
    <2>2. \A n \in 0..m : sb[n] = ViewStates(events, before, {})[n]
        BY <2>1, SamePrefix
    <2>3. \A n \in 0..N : ViewStates(events, before, {})[n] = ViewStates(events, before, {})[0]
        <3>1. 0 \in 0..N
            BY <1>1
        <3> QED BY <3>1, NothingToFold
    <2>4. ViewStates(events, before, {})[0] = before
        BY ViewStatesRecur
    <2> HIDE DEF sb
    <2>5. sb[m] = ViewStates(events, before, {})[m] /\ m \in 0..N
        BY <1>1, <2>2
    <2> QED BY <2>3, <2>4, <2>5
<1> HIDE DEF N, sb, su
<1>6. 0 \in T
    <2> SUFFICES ASSUME 0 \in m..N PROVE sb[0] = su[0]
        OBVIOUS
    <2>1. m = 0
        BY <1>1
    <2> QED BY <1>4, <1>5, <2>1
<1>7. ASSUME NEW n \in T PROVE n + 1 \in T
    <2> SUFFICES ASSUME n + 1 \in m..N PROVE sb[n + 1] = su[n + 1]
        OBVIOUS
    <2>1. n \in Nat /\ n + 1 \in 1..N /\ (n + 1) - 1 = n
        BY <1>1
    <2>2. CASE n + 1 = m
        BY <1>4, <1>5, <2>2
    <2>3. CASE n + 1 # m
        <3>1. n \in m..N /\ n + 1 > m
            BY <1>1, <2>1, <2>3
        <3>2. sb[n] = su[n] /\ n + 1 \notin places
            BY <1>0, <1>1, <2>1, <3>1
        <3>3. sb[n + 1] = ViewStep(sb[n], events, batch, n + 1)
              /\ su[n + 1] = ViewStep(su[n], events, places \cup batch, n + 1)
            BY <1>2, <2>1
        <3> QED BY <3>2, <3>3 DEF ViewStep
    <2> QED BY <2>2, <2>3
<1>8. T = Nat
    <2>1. T \in SUBSET Nat
        OBVIOUS
    <2> HIDE DEF T
    <2> QED BY <1>6, <1>7, <2>1, SetInduction
<1>9. sb[N] = su[N]
    BY <1>1, <1>8
<1> QED BY <1>9 DEF sb, su, N

(* The last place of a window. *)
LEMMA LargestIs ==
    ASSUME NEW N \in Nat, NEW places \in SUBSET (1..N)
    PROVE  /\ Largest(places) \in 0..N
           /\ \A n \in places : n <= Largest(places)
           /\ places # {} => Largest(places) \in places
<1>1. CASE places = {}
    BY <1>1 DEF Largest
<1>2. CASE places # {}
    <2> DEFINE T == {N - n : n \in places}
    <2>1. T \in SUBSET Nat /\ T # {}
        <3>1. \A n \in places : N - n \in Nat
            OBVIOUS
        <3>2. PICK n \in places : TRUE
            BY <1>2
        <3>3. N - n \in T
            BY <3>2
        <3> QED BY <3>1, <3>3
    <2>2. PICK t \in T : \A k \in T : t <= k
        <3> HIDE DEF T
        <3> QED BY <2>1, LeastMember
    <2>3. PICK x \in places : t = N - x
        OBVIOUS
    <2>4. \A y \in places : N - x <= N - y
        BY <2>2, <2>3
    <2>5. \A y \in places : x >= y
        BY <2>4
    <2>6. Max(places) \in places /\ \A y \in places : Max(places) >= y
        BY <2>5 DEF Max
    <2>7. Largest(places) = Max(places)
        BY <1>2 DEF Largest
    <2>8. Largest(places) \in places /\ \A y \in places : Largest(places) >= y
        BY <2>6, <2>7
    <2> DEFINE m == Largest(places)
    <2> HIDE DEF m
    <2>9. m \in places /\ \A y \in places : m >= y
        BY <2>8 DEF m
    <2>10. m \in 0..N /\ \A y \in places : y <= m
        BY <2>9
    <2> QED BY <2>9, <2>10 DEF m
<1> QED BY <1>1, <1>2

LEMMA LargestOfLater ==
    ASSUME NEW N \in Nat, NEW places \in SUBSET (1..N), NEW batch \in SUBSET (1..N), batch # {},
           \A n \in batch : n > Largest(places)
    PROVE  Largest(places \cup batch) = Largest(batch)
<1> DEFINE a == Largest(places)
           b == Largest(batch)
           c == Largest(places \cup batch)
<1>1. a \in 0..N /\ \A n \in places : n <= a
    BY LargestIs
<1>2. b \in batch /\ b \in Nat /\ \A n \in batch : n <= b
    BY LargestIs
<1>3. places \cup batch \in SUBSET (1..N) /\ places \cup batch # {}
    OBVIOUS
<1>4. c \in places \cup batch /\ \A n \in places \cup batch : n <= c
    BY <1>3, LargestIs
<1> HIDE DEF a, b, c
<1>5. b <= c
    BY <1>2, <1>4
<1>6. c <= b
    <2>1. c \notin places
        BY <1>1, <1>2, <1>4, <1>5 DEF a
    <2> QED BY <1>2, <1>4, <2>1
<1>7. c \in Nat
    BY <1>3, <1>4
<1>8. c = b
    BY <1>2, <1>5, <1>6, <1>7
<1> QED BY <1>8 DEF b, c

-----------------------------------------------------------------------------
(* The log grows. *)

LEMMA Appended ==
    ASSUME NEW events \in Seq(Events), NEW e \in Events
    PROVE  LET more == Append(events, e)
           IN  /\ more \in Seq(Events) /\ Len(more) = Len(events) + 1 /\ Len(events) \in Nat
               /\ \A n \in 1..Len(events) : more[n] = events[n] /\ n \in 1..Len(more)
               /\ more[Len(events) + 1] = e /\ Len(events) + 1 \in 1..Len(more)
OBVIOUS

LEMMA HostPrefix ==
    ASSUME NEW events \in Seq(Events), NEW e \in Events
    PROVE  \A n \in 0..Len(events) : HostStates(Append(events, e))[n] = HostStates(events)[n]
<1> DEFINE more == Append(events, e)
           st == HostStates(events)
           su == HostStates(more)
           T == {n \in Nat : n <= Len(events) => su[n] = st[n]}
<1>1. /\ more \in Seq(Events) /\ Len(more) = Len(events) + 1 /\ Len(events) \in Nat
      /\ \A n \in 1..Len(events) : more[n] = events[n] /\ n \in 1..Len(more)
    BY Appended
<1> HIDE DEF more
<1>2. /\ st[0] = NoFold /\ su[0] = NoFold
      /\ \A n \in 1..Len(events) : st[n] = HostApply(st[n - 1], events[n])
      /\ \A n \in 1..Len(more) : su[n] = HostApply(su[n - 1], more[n])
    BY <1>1, HostStatesRecur
<1> HIDE DEF st, su
<1>3. 0 \in T
    BY <1>2
<1>4. ASSUME NEW n \in T PROVE n + 1 \in T
    <2> SUFFICES ASSUME n + 1 <= Len(events) PROVE su[n + 1] = st[n + 1]
        OBVIOUS
    <2>1. n \in Nat /\ n <= Len(events) /\ n + 1 \in 1..Len(events) /\ (n + 1) - 1 = n
        BY <1>1
    <2>2. su[n] = st[n]
        BY <2>1
    <2>3. n + 1 \in 1..Len(more) /\ more[n + 1] = events[n + 1]
        BY <1>1, <2>1
    <2> QED BY <1>2, <2>1, <2>2, <2>3
<1>5. T = Nat
    <2>1. T \in SUBSET Nat
        OBVIOUS
    <2> HIDE DEF T
    <2> QED BY <1>3, <1>4, <2>1, SetInduction
<1>6. \A n \in 0..Len(events) : n \in T /\ n <= Len(events)
    BY <1>1, <1>5
<1> QED BY <1>6 DEF st, su, more

LEMMA ViewPrefix ==
    ASSUME NEW events \in Seq(Events), NEW e \in Events, NEW v, NEW places,
           \A n \in places : n <= Len(events)
    PROVE  ViewStates(Append(events, e), v, places)[Len(Append(events, e))]
              = ViewStates(events, v, places)[Len(events)]
<1> DEFINE more == Append(events, e)
           st == ViewStates(events, v, places)
           su == ViewStates(more, v, places)
           T == {n \in Nat : n <= Len(events) => su[n] = st[n]}
<1>1. /\ more \in Seq(Events) /\ Len(more) = Len(events) + 1 /\ Len(events) \in Nat
      /\ \A n \in 1..Len(events) : more[n] = events[n] /\ n \in 1..Len(more)
      /\ Len(more) \in 1..Len(more)
    BY Appended
<1> HIDE DEF more
<1>2. /\ st[0] = v /\ su[0] = v
      /\ \A n \in 1..Len(events) : st[n] = ViewStep(st[n - 1], events, places, n)
      /\ \A n \in 1..Len(more) : su[n] = ViewStep(su[n - 1], more, places, n)
    BY <1>1, ViewStatesRecur
<1> HIDE DEF st, su
<1>3. 0 \in T
    BY <1>2
<1>4. ASSUME NEW n \in T PROVE n + 1 \in T
    <2> SUFFICES ASSUME n + 1 <= Len(events) PROVE su[n + 1] = st[n + 1]
        OBVIOUS
    <2>1. n \in Nat /\ n <= Len(events) /\ n + 1 \in 1..Len(events) /\ (n + 1) - 1 = n
        BY <1>1
    <2>2. su[n] = st[n]
        BY <2>1
    <2>3. n + 1 \in 1..Len(more) /\ more[n + 1] = events[n + 1]
        BY <1>1, <2>1
    <2> QED BY <1>2, <2>1, <2>2, <2>3 DEF ViewStep
<1>5. T = Nat
    <2>1. T \in SUBSET Nat
        OBVIOUS
    <2> HIDE DEF T
    <2> QED BY <1>3, <1>4, <2>1, SetInduction
<1>6. su[Len(events)] = st[Len(events)]
    BY <1>1, <1>5
<1>7. su[Len(more)] = su[Len(events)]
    <2>1. Len(more) \notin places /\ Len(more) - 1 = Len(events)
        BY <1>1
    <2> QED BY <1>1, <1>2, <2>1 DEF ViewStep
<1> QED BY <1>6, <1>7 DEF st, su, more

(* A log stays one the host can fold, and the fold goes on from its end.   *)
LEMMA FoldableGrows ==
    ASSUME NEW events, Foldable(events), NEW e \in Events, e.at = Len(events) + 1,
           Lawful(foldNotebooks(events), e), InItsRun(foldNotebooks(events), e)
    PROVE  /\ Foldable(Append(events, e))
           /\ foldNotebooks(Append(events, e)) = HostApply(foldNotebooks(events), e)
<1> DEFINE more == Append(events, e)
           N == Len(events)
           st == HostStates(events)
           su == HostStates(more)
<1>1. events \in Seq(Events) /\ N \in Nat /\ DOMAIN events = 1..N
    BY FoldsAreSound
<1>2. /\ more \in Seq(Events) /\ Len(more) = N + 1
      /\ \A n \in 1..N : more[n] = events[n]
      /\ more[N + 1] = e /\ N + 1 \in 1..Len(more)
    BY <1>1, Appended
<1>3. DOMAIN more = 1..(N + 1)
    BY <1>2
<1>4. \A n \in 0..N : su[n] = st[n]
    BY <1>1, HostPrefix
<1>5. \A n \in 1..N : events[n].at = n /\ Lawful(st[n - 1], events[n]) /\ InItsRun(st[n - 1], events[n])
    BY FoldsAreSound
<1>6. Lawful(st[N], e) /\ InItsRun(st[N], e)
    BY DEF foldNotebooks
<1>7. su[N + 1] = HostApply(su[(N + 1) - 1], more[N + 1])
    <2> HIDE DEF more, N, su
    <2>1. \A n \in 1..Len(more) : su[n] = HostApply(su[n - 1], more[n])
        BY <1>2, HostStatesRecur DEF su
    <2> QED BY <1>2, <2>1
<1> HIDE DEF more, N, st, su
<1>8. (N + 1) - 1 = N /\ N \in 0..N
    BY <1>1
<1>9. ASSUME NEW n \in DOMAIN more
      PROVE  more[n].at = n /\ Lawful(su[n - 1], more[n]) /\ InItsRun(su[n - 1], more[n])
    <2>1. CASE n = N + 1
        <3>1. su[n - 1] = st[N] /\ more[n] = e
            BY <1>2, <1>4, <1>8, <2>1
        <3> QED BY <1>6, <2>1, <3>1 DEF N
    <2>2. CASE n # N + 1
        <3>1. n \in 1..N /\ n - 1 \in 0..N
            BY <1>1, <1>3, <2>2
        <3>2. su[n - 1] = st[n - 1] /\ more[n] = events[n]
            BY <1>2, <1>4, <3>1
        <3> QED BY <1>5, <3>1, <3>2
    <2> QED BY <2>1, <2>2
<1>10. Foldable(more)
    BY <1>2, <1>9 DEF Foldable, su
<1>11. foldNotebooks(more) = HostApply(st[N], e)
    <2>1. foldNotebooks(more) = su[N + 1]
        BY <1>2 DEF foldNotebooks, su
    <2> QED BY <1>2, <1>4, <1>7, <1>8, <2>1
<1> QED BY <1>10, <1>11 DEF more, st, N, foldNotebooks

-----------------------------------------------------------------------------
(* The readers of one log. *)

(* What holds between the log, the fold of the host and the builder.       *)
ReadersInv ==
    /\ Foldable(log)
    /\ folded = foldNotebooks(log)
    /\ loaded \subseteq 1..Len(log)
    /\ maxSeq = Largest(loaded)
    /\ view = ViewStates(log, NoView, loaded)[Len(log)]

LEMMA InitReaders == Init => ReadersInv
<1> SUFFICES ASSUME Init PROVE ReadersInv
    OBVIOUS
<1>1. Foldable(log) /\ folded = foldNotebooks(log) /\ loaded = {} /\ view = NoView /\ maxSeq = 0
    BY ViewsAssumption DEF Init
<1>2. log \in Seq(Events) /\ Len(log) \in Nat /\ 0 \in 0..Len(log) /\ Len(log) \in 0..Len(log)
    BY <1>1, FoldsAreSound
<1>3. ViewStates(log, NoView, {})[Len(log)] = ViewStates(log, NoView, {})[0]
    BY <1>2, NothingToFold
<1>4. ViewStates(log, NoView, {})[0] = NoView
    BY <1>2, ViewStatesRecur
<1>5. Largest({}) = 0
    BY DEF Largest
<1> QED BY <1>1, <1>3, <1>4, <1>5 DEF ReadersInv

LEMMA RecordStep ==
    ASSUME ReadersInv, NEW e, Record(e)
    PROVE  ReadersInv'
<1>1. /\ Foldable(log) /\ folded = foldNotebooks(log) /\ loaded \subseteq 1..Len(log)
      /\ maxSeq = Largest(loaded) /\ view = ViewStates(log, NoView, loaded)[Len(log)]
    BY DEF ReadersInv
<1>2. /\ e \in Events /\ e.at = Len(log) + 1 /\ Lawful(folded, e) /\ InItsRun(folded, e)
      /\ log' = Append(log, e) /\ folded' = HostApply(folded, e)
      /\ loaded' = loaded /\ view' = view /\ maxSeq' = maxSeq
    BY DEF Record
<1>3. log \in Seq(Events) /\ Len(log) \in Nat
    BY <1>1, FoldsAreSound
<1>4. Foldable(log') /\ folded' = foldNotebooks(log')
    BY <1>1, <1>2, FoldableGrows
<1>5. loaded' \subseteq 1..Len(log')
    <2>1. Len(log') = Len(log) + 1
        BY <1>2, <1>3
    <2> QED BY <1>1, <1>2, <1>3, <2>1
<1>6. ViewStates(log', NoView, loaded)[Len(log')] = ViewStates(log, NoView, loaded)[Len(log)]
    <2>1. \A n \in loaded : n <= Len(log)
        BY <1>1, <1>3
    <2> QED BY <1>2, <1>3, <2>1, ViewPrefix
<1> QED BY <1>1, <1>2, <1>4, <1>5, <1>6 DEF ReadersInv

LEMMA RebuiltStep ==
    ASSUME ReadersInv, NEW places \in SUBSET (1..Len(log)), loaded' = places, Rebuilt(places),
           log' = log, folded' = folded
    PROVE  ReadersInv'
BY DEF ReadersInv, Rebuilt, rebuild, InOrder

LEMMA ApplyStep ==
    ASSUME ReadersInv, NEW batch \in SUBSET (DOMAIN log \ loaded), NEW again, Apply(batch, again)
    PROVE  ReadersInv'
<1>1. /\ Foldable(log) /\ loaded \subseteq 1..Len(log)
      /\ maxSeq = Largest(loaded) /\ view = ViewStates(log, NoView, loaded)[Len(log)]
    BY DEF ReadersInv
<1>2. log \in Seq(Events) /\ Len(log) \in Nat /\ DOMAIN log = 1..Len(log)
    BY <1>1, FoldsAreSound
<1>3. loaded' = loaded \cup batch /\ log' = log /\ folded' = folded /\ batch \cup again # {}
    BY DEF Apply
<1>4. loaded \cup batch \in SUBSET (1..Len(log)) /\ batch \in SUBSET (1..Len(log))
    BY <1>1, <1>2
<1>5. CASE again # {} \/ Late(batch)
    <2>1. Rebuilt(loaded \cup batch)
        BY <1>3, <1>5 DEF Apply
    <2> QED BY <1>3, <1>4, <2>1, RebuiltStep
<1>6. CASE ~(again # {} \/ Late(batch))
    <2>1. view' = ViewStates(log, view, batch)[Len(log)] /\ maxSeq' = Largest(batch)
        BY <1>6 DEF Apply, InOrder
    <2>2. batch # {}
        BY <1>3, <1>6
    <2>3. maxSeq \in 0..Len(log) /\ \A n \in loaded : n <= maxSeq
        BY <1>1, <1>2, LargestIs
    <2>4. \A n \in batch : n \in Nat /\ n > maxSeq
        BY <1>4, <1>6, <2>3 DEF Late
    <2>5. ViewStates(log, view, batch)[Len(log)] = ViewStates(log, NoView, loaded \cup batch)[Len(log)]
        <3>1. Follows(batch, loaded, maxSeq)
            BY <2>3, <2>4 DEF Follows
        <3> QED BY <1>1, <1>2, <2>3, <3>1, LaterBatch
    <2>6. Largest(loaded \cup batch) = Largest(batch)
        <3>1. loaded \in SUBSET (1..Len(log)) /\ \A n \in batch : n > Largest(loaded)
            BY <1>1, <2>4
        <3> QED BY <1>2, <1>4, <2>2, <3>1, LargestOfLater
    <2> QED BY <1>3, <1>4, <2>1, <2>5, <2>6 DEF ReadersInv
<1> QED BY <1>5, <1>6

LEMMA NextReaders == ReadersInv /\ [Next]_vars => ReadersInv'
<1> SUFFICES ASSUME ReadersInv, [Next]_vars PROVE ReadersInv'
    OBVIOUS
<1>1. CASE \E e \in Candidates : Record(e)
    BY <1>1, RecordStep
<1>2. CASE \E batch \in SUBSET (DOMAIN log \ loaded), again \in {{}} \cup {{n} : n \in loaded} : Apply(batch, again)
    BY <1>2, ApplyStep
<1>3. CASE \E first \in 1..Len(log) + 1 : Replace(first)
    <2>1. PICK first \in 1..Len(log) + 1 : Replace(first)
        BY <1>3
    <2>2. Len(log) \in Nat
        BY FoldsAreSound DEF ReadersInv
    <2>3. first..Len(log) \in SUBSET (1..Len(log))
        BY <2>2
    <2>4. loaded' = first..Len(log) /\ Rebuilt(first..Len(log)) /\ log' = log /\ folded' = folded
        BY <2>1 DEF Replace
    <2> QED BY <2>3, <2>4, RebuiltStep
<1>4. CASE UNCHANGED vars
    BY <1>4 DEF vars, ReadersInv
<1> QED BY <1>1, <1>2, <1>3, <1>4 DEF Next

LEMMA SpecReaders == Spec => []ReadersInv
BY InitReaders, NextReaders, PTL DEF Spec

(* However the events of a log came in, in which batches, late or again,   *)
(* the builder is in the state a rebuild from them would give: the         *)
(* incremental path of apply never shows anything else than rebuild.       *)
THEOREM BatchesNeverMatter == Spec => []BatchesDoNotMatter
<1>1. ReadersInv => BatchesDoNotMatter
    <2> SUFFICES ASSUME ReadersInv PROVE BatchesDoNotMatter
        OBVIOUS
    <2>1. /\ Foldable(log) /\ loaded \subseteq 1..Len(log)
          /\ maxSeq = Largest(loaded) /\ view = ViewStates(log, NoView, loaded)[Len(log)]
        BY DEF ReadersInv
    <2>2. Len(log) \in Nat /\ DOMAIN log = 1..Len(log)
        BY <2>1, FoldsAreSound
    <2>3. view \in Views /\ \A r \in view.active : r.exec \in 1..Len(log)
        BY <2>1, <2>2, ViewsAreTyped
    <2>4. \A r \in view.active : r.nb \in Notebooks /\ r.cell \in Cells
        BY <2>3 DEF Views, Runs
    <2>5. TypeOK
        BY <2>1, <2>2, <2>3, <2>4 DEF TypeOK
    <2> QED BY <2>1, <2>5 DEF BatchesDoNotMatter, rebuild, InOrder
<1> QED BY <1>1, SpecReaders, PTL

-----------------------------------------------------------------------------
(* The builder follows the fold of the host, from any place on.            *)

(* The runs of the documents the builder has are those of the host.        *)
ActiveAgree(v, h) ==
    /\ \A nb \in Notebooks : Places(v.docs, nb) # {} /\ h.active[nb] # NoRun => h.active[nb] \in v.active
    /\ \A r \in v.active : Places(v.docs, r.nb) # {} /\ r # NoRun /\ h.active[r.nb] = r

(* What the builder shows are the documents of the host but the first k,   *)
(* and it says that some are missing only when some are.                   *)
Tracks(v, h, k) ==
    /\ v \in Views /\ ~v.error
    /\ Len(h.docs) = k + Len(v.docs)
    /\ \A i \in 1..Len(v.docs) : v.docs[i] = h.docs[k + i]
    /\ ActiveAgree(v, h)
    /\ v.incomplete => k # 0

LEMMA TrackedDocuments ==
    ASSUME NEW v, NEW h, NEW k \in Nat, HostSound(h), Tracks(v, h, k)
    PROVE  /\ h.docs \in Seq(Documents) /\ v.docs \in Seq(Documents)
           /\ Len(h.docs) \in Nat /\ Len(v.docs) \in Nat /\ Len(h.docs) = k + Len(v.docs)
           /\ DOMAIN v.docs = 1..Len(v.docs) /\ DOMAIN h.docs = 1..Len(h.docs)
           /\ \A i \in 1..Len(v.docs) : k + i \in 1..Len(h.docs) /\ v.docs[i] = h.docs[k + i]
           /\ Unique(v.docs) /\ Unique(h.docs)
<1>1. h.docs \in Seq(Documents) /\ v.docs \in Seq(Documents) /\ Unique(h.docs)
    BY ViewFields DEF HostSound, Folds, Tracks
<1>2. Len(h.docs) \in Nat /\ Len(v.docs) \in Nat /\ DOMAIN v.docs = 1..Len(v.docs) /\ DOMAIN h.docs = 1..Len(h.docs)
    BY <1>1
<1>3. Len(h.docs) = k + Len(v.docs) /\ \A i \in 1..Len(v.docs) : v.docs[i] = h.docs[k + i]
    BY DEF Tracks
<1>4. \A i \in 1..Len(v.docs) : k + i \in 1..Len(h.docs) /\ v.docs[i] = h.docs[k + i]
    BY <1>2, <1>3
<1>5. Unique(v.docs)
    <2> SUFFICES ASSUME NEW i \in 1..Len(v.docs), NEW j \in 1..Len(v.docs), v.docs[i].id = v.docs[j].id
                 PROVE  i = j
        BY <1>2 DEF Unique
    <2>1. k + i \in DOMAIN h.docs /\ k + j \in DOMAIN h.docs /\ h.docs[k + i].id = h.docs[k + j].id
        BY <1>2, <1>4
    <2>2. k + i = k + j
        BY <1>1, <2>1 DEF Unique
    <2> QED BY <2>2
<1> QED BY <1>1, <1>2, <1>3, <1>4, <1>5

(* A document of the builder is the host's. *)
Shared(v, h, k, e, i) ==
    /\ v.docs[i].id = e.nb /\ v.docs[i] = h.docs[k + i] /\ v.docs[i] \in Documents
    /\ Place(v.docs, e.nb) = i /\ Places(v.docs, e.nb) = {i}
    /\ Place(h.docs, e.nb) = k + i /\ Places(h.docs, e.nb) = {k + i}
    /\ ViewCells(v, e) = v.docs[i].cells /\ HostCells(h, e) = v.docs[i].cells
    /\ v.docs[i].cells \in Seq(CellStates) /\ Unique(v.docs[i].cells)

LEMMA KnownDocument ==
    ASSUME NEW v, NEW h, NEW k \in Nat, HostSound(h), Tracks(v, h, k), NEW e, Known(v, e)
    PROVE  \E i \in 1..Len(v.docs) : Shared(v, h, k, e, i)
<1>1. PICK i \in DOMAIN v.docs : v.docs[i].id = e.nb
    BY PlaceFound DEF Known
<1>2. /\ h.docs \in Seq(Documents) /\ v.docs \in Seq(Documents) /\ i \in 1..Len(v.docs)
      /\ v.docs[i] = h.docs[k + i] /\ k + i \in DOMAIN h.docs /\ Unique(v.docs) /\ Unique(h.docs)
    BY <1>1, TrackedDocuments
<1>3. Place(v.docs, e.nb) = i /\ Places(v.docs, e.nb) = {i}
    BY <1>1, <1>2, PlaceOf
<1>4. Place(h.docs, e.nb) = k + i /\ Places(h.docs, e.nb) = {k + i}
    <2> DEFINE j == k + i
    <2>1. j \in DOMAIN h.docs /\ h.docs[j].id = e.nb
        BY <1>1, <1>2
    <2> HIDE DEF j
    <2>2. Place(h.docs, e.nb) = j /\ Places(h.docs, e.nb) = {j}
        BY <1>2, <2>1, PlaceOf
    <2> QED BY <2>2 DEF j
<1>5. v.docs[i] \in Documents
    BY <1>2
<1>6. ViewCells(v, e) = v.docs[i].cells /\ HostCells(h, e) = v.docs[i].cells
    BY <1>2, <1>3, <1>4 DEF ViewCells, HostCells, CellsOf
<1>7. v.docs[i].cells \in Seq(CellStates) /\ Unique(v.docs[i].cells)
    BY <1>2, <1>5, DocumentFields DEF HostSound
<1> QED BY <1>1, <1>2, <1>3, <1>4, <1>5, <1>6, <1>7 DEF Shared

(* An event of a document the builder does not have makes it say so.       *)
LEMMA UnknownSaysSo ==
    ASSUME NEW v \in Views, ~v.error, NEW e, Proper(e), e.kind # "open", ~Known(v, e)
    PROVE  ViewApply(v, e) = Incomplete(v)
<1>1. ViewCells(v, e) = <<>> /\ ~Located(v, e) /\ ~Applicable(v, e)
    BY DEF Known, ViewCells, CellsOf, Located, Places, Applicable
<1>2. CASE e.kind \in {"create", "update", "delete", "move"}
    BY <1>1, <1>2 DEF ViewApply, ViewCell
<1>3. CASE e.kind = "execute"
    BY <1>1, <1>3 DEF ViewApply, ViewExecute
<1>4. CASE e.kind = "output"
    BY <1>1, <1>4 DEF ViewApply, ViewOutput
<1>5. CASE e.kind = "end"
    BY <1>1, <1>5 DEF ViewApply, ViewEnd
<1>6. CASE e.kind = "kernel"
    BY <1>6 DEF ViewApply, ViewKernel, Unknown
<1>7. CASE e.kind = "reload"
    BY <1>7 DEF ViewApply, ViewReload
<1> QED BY EventFields, <1>2, <1>3, <1>4, <1>5, <1>6, <1>7

(* Nothing of what it has changes then.                                    *)
LEMMA UnknownStep ==
    ASSUME NEW v, NEW h, NEW k \in Nat, HostSound(h), Tracks(v, h, k),
           NEW e, Proper(e), Lawful(h, e), e.kind # "open", ~Known(v, e)
    PROVE  /\ Tracks(ViewApply(v, e), HostApply(h, e), k)
           /\ ViewApply(v, e).incomplete /\ ViewApply(v, e).docs = v.docs
<1> DEFINE w == ViewApply(v, e)
           g == HostApply(h, e)
           d == Place(h.docs, e.nb)
           doc == HostDocument(h, e)
           run == HostActive(h, e)
<1>1. v \in Views /\ ~v.error /\ ActiveAgree(v, h)
    BY DEF Tracks
<1>2. w = Incomplete(v)
    BY <1>1, UnknownSaysSo
<1>3. w \in Views /\ w.docs = v.docs /\ w.active = v.active /\ w.incomplete /\ w.error = v.error
    BY <1>1, <1>2, ViewFields
<1>4. /\ h.docs \in Seq(Documents) /\ v.docs \in Seq(Documents)
      /\ Len(h.docs) \in Nat /\ Len(v.docs) \in Nat /\ Len(h.docs) = k + Len(v.docs)
      /\ DOMAIN v.docs = 1..Len(v.docs) /\ DOMAIN h.docs = 1..Len(h.docs)
      /\ \A i \in 1..Len(v.docs) : k + i \in 1..Len(h.docs) /\ v.docs[i] = h.docs[k + i]
    BY TrackedDocuments
<1>5. d \in DOMAIN h.docs /\ h.docs[d].id = e.nb
    BY HostCellsSound
<1>6. \A i \in 1..Len(v.docs) : v.docs[i].id # e.nb
    BY <1>4 DEF Known, Places
<1>7. d \notin {k + i : i \in 1..Len(v.docs)}
    BY <1>4, <1>5, <1>6
<1>8. k # 0
    <2> SUFFICES ASSUME k = 0 PROVE FALSE
        OBVIOUS
    <2>1. d \in 1..Len(v.docs) /\ k + d = d
        BY <1>4, <1>5
    <2> QED BY <1>7, <2>1
<1>9. doc \in Documents
    BY HostDocumentSound
<1>10. /\ g.docs = [h.docs EXCEPT ![d] = doc] /\ g.active = [h.active EXCEPT ![e.nb] = run]
    BY EventFields, HostApplyForm DEF HostSound
<1>11. h.active \in [Notebooks -> Runs \cup {NoRun}] /\ e.nb \in Notebooks
    BY EventFields DEF HostSound, Folds
<1> HIDE DEF w, g, d, doc, run
<1>12. Len(g.docs) = Len(h.docs) /\ \A i \in 1..Len(v.docs) : g.docs[k + i] = h.docs[k + i]
    BY <1>4, <1>5, <1>7, <1>9, <1>10
<1>13. \A nb \in Notebooks : nb # e.nb => g.active[nb] = h.active[nb]
    BY <1>10, <1>11
<1>14. Places(v.docs, e.nb) = {}
    BY DEF Known
<1>15. \A r \in v.active : r.nb \in Notebooks
    BY <1>1, ViewFields DEF Runs
<1>16. ActiveAgree(w, g)
    BY <1>1, <1>3, <1>13, <1>14, <1>15 DEF ActiveAgree
<1>17. Tracks(w, g, k)
    BY <1>1, <1>3, <1>4, <1>8, <1>12, <1>16 DEF Tracks
<1> QED BY <1>3, <1>17 DEF w, g

(* A document is opened on both sides.                                     *)
LEMMA OpenStep ==
    ASSUME NEW v, NEW h, NEW k \in Nat, HostSound(h), Tracks(v, h, k),
           NEW e, Proper(e), Lawful(h, e), e.kind = "open"
    PROVE  /\ Tracks(ViewApply(v, e), HostApply(h, e), k)
           /\ Places(ViewApply(v, e).docs, e.nb) # {} /\ ViewApply(v, e).incomplete = v.incomplete
           /\ \A id : Places(v.docs, id) # {} => Places(ViewApply(v, e).docs, id) # {}
<1> DEFINE w == ViewApply(v, e)
           g == HostApply(h, e)
           doc == NewDocument(e)
           docs == Append(v.docs, doc)
<1>1. v \in Views /\ ~v.error /\ ActiveAgree(v, h)
    BY DEF Tracks
<1>2. /\ h.docs \in Seq(Documents) /\ v.docs \in Seq(Documents)
      /\ Len(h.docs) \in Nat /\ Len(v.docs) \in Nat /\ Len(h.docs) = k + Len(v.docs)
      /\ DOMAIN v.docs = 1..Len(v.docs) /\ DOMAIN h.docs = 1..Len(h.docs)
      /\ \A i \in 1..Len(v.docs) : k + i \in 1..Len(h.docs) /\ v.docs[i] = h.docs[k + i]
    BY TrackedDocuments
<1>3. Places(h.docs, e.nb) = {}
    BY DEF Lawful
<1>4. ~Known(v, e)
    BY <1>2, <1>3 DEF Known, Places
<1>5. w = [v EXCEPT !.docs = docs]
    BY <1>1, <1>4 DEF ViewApply, ViewOpen
<1>6. doc \in Documents /\ doc.id = e.nb
    BY NewDocumentType
<1>7. docs \in Seq(Documents)
    BY <1>2, <1>6
<1>8. w \in Views /\ w.docs = docs /\ w.active = v.active /\ w.incomplete = v.incomplete /\ w.error = v.error
    <2> HIDE DEF w, docs
    <2>1. LET u == [v EXCEPT !.docs = docs]
          IN  /\ u \in Views /\ u.docs = docs /\ u.active = v.active
              /\ u.incomplete = v.incomplete /\ u.error = v.error
        BY <1>1, <1>7, ViewFields
    <2> QED BY <1>5, <2>1
<1>9. h.active[e.nb] = NoRun
    BY <1>3, EventFields DEF HostSound, RunShown
<1>10. g.docs = Append(h.docs, doc) /\ g.active = [h.active EXCEPT ![e.nb] = HostActive(h, e)]
    <2>1. h \in Folds /\ e.nb \in Notebooks
        BY EventFields DEF HostSound
    <2>2. g.docs = IF e.kind = "open" THEN Append(h.docs, doc)
                   ELSE [h.docs EXCEPT ![Place(h.docs, e.nb)] = HostDocument(h, e)]
        BY <2>1, HostApplyForm
    <2>3. g.active = [h.active EXCEPT ![e.nb] = HostActive(h, e)]
        BY <2>1, HostApplyForm
    <2> HIDE DEF g, doc
    <2> QED BY <2>2, <2>3
<1>11. HostActive(h, e) = h.active[e.nb]
    BY DEF HostActive
<1>12. h.active \in [Notebooks -> Runs \cup {NoRun}] /\ e.nb \in Notebooks
    BY EventFields DEF HostSound, Folds
<1>13. g.active = h.active
    BY <1>10, <1>11, <1>12
<1> HIDE DEF w, g, doc
<1>14. /\ Len(docs) = Len(v.docs) + 1 /\ DOMAIN docs = 1..(Len(v.docs) + 1)
       /\ \A i \in 1..Len(v.docs) : docs[i] = v.docs[i]
       /\ docs[Len(v.docs) + 1] = doc
    BY <1>2, <1>6
<1>15. /\ Len(g.docs) = Len(h.docs) + 1
       /\ \A i \in 1..Len(h.docs) : g.docs[i] = h.docs[i]
       /\ g.docs[Len(h.docs) + 1] = doc
    BY <1>2, <1>6, <1>10
<1> HIDE DEF docs
<1>16. Len(g.docs) = k + Len(docs)
    BY <1>2, <1>14, <1>15
<1>17. ASSUME NEW i \in 1..Len(docs) PROVE docs[i] = g.docs[k + i]
    <2>1. CASE i = Len(v.docs) + 1
        <3>1. k + i = Len(h.docs) + 1
            BY <1>2, <2>1
        <3> QED BY <1>14, <1>15, <2>1, <3>1
    <2>2. CASE i # Len(v.docs) + 1
        <3>1. i \in 1..Len(v.docs)
            BY <1>2, <1>14, <2>2
        <3> QED BY <1>2, <1>14, <1>15, <3>1
    <2> QED BY <2>1, <2>2
<1>18. \A id : Places(v.docs, id) # {} => Places(docs, id) # {}
    <2> SUFFICES ASSUME NEW id, NEW i \in Places(v.docs, id) PROVE i \in Places(docs, id)
        OBVIOUS
    <2>1. i \in 1..Len(v.docs) /\ v.docs[i].id = id
        BY <1>2 DEF Places
    <2>2. i \in DOMAIN docs /\ docs[i].id = id
        BY <1>2, <1>14, <2>1
    <2> QED BY <2>2 DEF Places
<1>19. \A id : id # e.nb => (Places(docs, id) # {} => Places(v.docs, id) # {})
    <2> SUFFICES ASSUME NEW id, id # e.nb, NEW i \in Places(docs, id) PROVE i \in Places(v.docs, id)
        OBVIOUS
    <2>1. i \in 1..(Len(v.docs) + 1) /\ docs[i].id = id
        BY <1>14 DEF Places
    <2>2. i # Len(v.docs) + 1
        BY <1>6, <1>14, <2>1
    <2>3. i \in 1..Len(v.docs)
        BY <1>2, <2>1, <2>2
    <2>4. i \in DOMAIN v.docs /\ v.docs[i].id = id
        BY <1>2, <1>14, <2>1, <2>3
    <2> QED BY <2>4 DEF Places
<1>20. Places(docs, e.nb) # {}
    <2>1. Len(v.docs) + 1 \in DOMAIN docs /\ docs[Len(v.docs) + 1].id = e.nb
        BY <1>2, <1>6, <1>14
    <2> QED BY <2>1 DEF Places
<1>21. ActiveAgree(w, g)
    BY <1>1, <1>8, <1>9, <1>13, <1>18, <1>19 DEF ActiveAgree
<1>22. v.incomplete => k # 0
    BY DEF Tracks
<1>23. Tracks(w, g, k)
    BY <1>1, <1>8, <1>16, <1>17, <1>21, <1>22 DEF Tracks
<1> QED BY <1>8, <1>18, <1>20, <1>23 DEF w, g

(* Both sides change a document they both have, and its run.               *)
Alike(w, v, h, e) ==
    /\ w \in Views /\ ~w.error /\ w.incomplete = v.incomplete
    /\ w.docs = [v.docs EXCEPT ![Place(v.docs, e.nb)] = HostDocument(h, e)]
    /\ \A r \in w.active : (r \in v.active /\ r.nb # e.nb) \/ (r = HostActive(h, e) /\ r # NoRun)
    /\ \A r \in v.active : r.nb # e.nb => r \in w.active
    /\ HostActive(h, e) # NoRun => HostActive(h, e) \in w.active

(* The event comes in its turn, and the builder has its document.          *)
Expected(v, h, k, e) ==
    /\ HostSound(h) /\ Tracks(v, h, k) /\ Proper(e) /\ Lawful(h, e) /\ InItsRun(h, e)
    /\ e.kind # "open" /\ Known(v, e)

LEMMA AlikeTracks ==
    ASSUME NEW v, NEW h, NEW k \in Nat, NEW e, Expected(v, h, k, e), NEW w, Alike(w, v, h, e)
    PROVE  /\ Tracks(w, HostApply(h, e), k)
           /\ \A id : Places(w.docs, id) = Places(v.docs, id)
<1> DEFINE g == HostApply(h, e)
           doc == HostDocument(h, e)
           run == HostActive(h, e)
<1>1. /\ HostSound(h) /\ Tracks(v, h, k) /\ Proper(e) /\ Lawful(h, e) /\ InItsRun(h, e)
      /\ e.kind # "open" /\ Known(v, e)
    BY DEF Expected
<1>2. HostSound(g)
    BY <1>1, HostStepSound
<1>3. PICK i \in 1..Len(v.docs) :
         /\ v.docs[i].id = e.nb /\ Place(v.docs, e.nb) = i /\ Places(v.docs, e.nb) = {i}
         /\ Place(h.docs, e.nb) = k + i
    <2>1. PICK i \in 1..Len(v.docs) : Shared(v, h, k, e, i)
        BY <1>1, KnownDocument
    <2> QED BY <2>1 DEF Shared
<1>4. /\ h.docs \in Seq(Documents) /\ v.docs \in Seq(Documents)
      /\ Len(h.docs) \in Nat /\ Len(v.docs) \in Nat /\ Len(h.docs) = k + Len(v.docs)
      /\ DOMAIN v.docs = 1..Len(v.docs) /\ DOMAIN h.docs = 1..Len(h.docs)
      /\ \A j \in 1..Len(v.docs) : k + j \in 1..Len(h.docs) /\ v.docs[j] = h.docs[k + j]
    BY <1>1, TrackedDocuments
<1>5. doc \in Documents /\ doc.id = e.nb
    BY <1>1, HostDocumentSound
<1>6. h \in Folds /\ e.nb \in Notebooks /\ h.active \in [Notebooks -> Runs \cup {NoRun}]
    BY <1>1, EventFields DEF HostSound, Folds
<1>7. g.docs = [h.docs EXCEPT ![k + i] = doc] /\ g.active = [h.active EXCEPT ![e.nb] = run]
    <2>1. g.docs = IF e.kind = "open" THEN Append(h.docs, NewDocument(e))
                   ELSE [h.docs EXCEPT ![Place(h.docs, e.nb)] = doc]
        BY <1>6, HostApplyForm
    <2>2. g.active = [h.active EXCEPT ![e.nb] = run]
        BY <1>6, HostApplyForm
    <2> HIDE DEF g, doc, run
    <2> QED BY <1>1, <1>3, <2>1, <2>2
<1>8. /\ w \in Views /\ ~w.error /\ w.incomplete = v.incomplete
      /\ w.docs = [v.docs EXCEPT ![i] = doc]
      /\ \A r \in w.active : (r \in v.active /\ r.nb # e.nb) \/ (r = run /\ r # NoRun)
      /\ \A r \in v.active : r.nb # e.nb => r \in w.active
      /\ run # NoRun => run \in w.active
    BY <1>3 DEF Alike
<1>9. \A nb \in Notebooks : g.active[nb] # NoRun => g.active[nb].nb = nb
    BY <1>2 DEF HostSound
<1> HIDE DEF g, doc, run
<1>10. \A nb \in Notebooks : g.active[nb] = IF nb = e.nb THEN run ELSE h.active[nb]
    BY <1>6, <1>7
<1>11. /\ Len(w.docs) = Len(v.docs) /\ DOMAIN w.docs = DOMAIN v.docs
       /\ \A j \in 1..Len(v.docs) : w.docs[j] = IF j = i THEN doc ELSE v.docs[j]
    BY <1>3, <1>4, <1>5, <1>8
<1>12. \A id : Places(w.docs, id) = Places(v.docs, id)
    <2>1. \A j \in DOMAIN v.docs : w.docs[j].id = v.docs[j].id
        BY <1>3, <1>4, <1>5, <1>11
    <2> QED BY <1>11, <2>1, SameIds
<1>13. Len(g.docs) = Len(h.docs) /\ \A j \in 1..Len(h.docs) : g.docs[j] = IF j = k + i THEN doc ELSE h.docs[j]
    BY <1>3, <1>4, <1>5, <1>7
<1>14. ASSUME NEW j \in 1..Len(w.docs) PROVE w.docs[j] = g.docs[k + j]
    <2>1. j \in 1..Len(v.docs) /\ k + j \in 1..Len(h.docs) /\ v.docs[j] = h.docs[k + j]
        BY <1>4, <1>11
    <2>2. k + j = k + i <=> j = i
        BY <1>3, <2>1
    <2> QED BY <1>11, <1>13, <2>1, <2>2
<1>15. ActiveAgree(v, h) /\ (v.incomplete => k # 0) /\ v.active \in SUBSET Runs
    BY <1>1, ViewFields DEF Tracks
<1>16. \A r \in v.active : r.nb \in Notebooks
    BY <1>15 DEF Runs
<1>17. ActiveAgree(w, g)
    <2>1. ASSUME NEW nb \in Notebooks, Places(w.docs, nb) # {}, g.active[nb] # NoRun
          PROVE  g.active[nb] \in w.active
        <3>1. CASE nb = e.nb
            BY <1>8, <1>10, <2>1, <3>1
        <3>2. CASE nb # e.nb
            <4>1. g.active[nb] = h.active[nb] /\ g.active[nb].nb = nb
                BY <1>9, <1>10, <2>1, <3>2
            <4>2. h.active[nb] \in v.active
                BY <1>12, <1>15, <2>1, <4>1 DEF ActiveAgree
            <4> QED BY <1>8, <3>2, <4>1, <4>2
        <3> QED BY <3>1, <3>2
    <2>2. ASSUME NEW r \in w.active
          PROVE  Places(w.docs, r.nb) # {} /\ r # NoRun /\ g.active[r.nb] = r
        <3>1. CASE r \in v.active /\ r.nb # e.nb
            <4>1. Places(v.docs, r.nb) # {} /\ r # NoRun /\ h.active[r.nb] = r /\ r.nb \in Notebooks
                BY <1>15, <1>16, <3>1 DEF ActiveAgree
            <4> QED BY <1>10, <1>12, <3>1, <4>1
        <3>2. CASE r = run /\ r # NoRun
            <4>1. g.active[e.nb] = r
                BY <1>6, <1>10, <3>2
            <4>2. r.nb = e.nb
                BY <1>6, <1>9, <3>2, <4>1
            <4>3. Places(w.docs, r.nb) # {}
                BY <1>3, <1>12, <4>2
            <4> QED BY <3>2, <4>1, <4>2, <4>3
        <3> QED BY <1>8, <3>1, <3>2
    <2> QED BY <2>1, <2>2 DEF ActiveAgree
<1>18. Len(g.docs) = k + Len(w.docs)
    BY <1>4, <1>11, <1>13
<1>19. Tracks(w, g, k)
    BY <1>8, <1>14, <1>15, <1>17, <1>18 DEF Tracks
<1> QED BY <1>12, <1>19 DEF g

(* The run of a document the builder has. *)
RunsShared(v, h, e) ==
    /\ h.active[e.nb] = NoRun => \A r \in v.active : r.nb # e.nb
    /\ h.active[e.nb] # NoRun => h.active[e.nb] \in v.active
    /\ \A r \in v.active : r.nb = e.nb => r = h.active[e.nb] /\ r # NoRun
    /\ e.kind \in {"output", "end"} =>
          /\ h.active[e.nb] # NoRun /\ h.active[e.nb] \in Runs
          /\ h.active[e.nb].nb = e.nb /\ h.active[e.nb].cell = e.cell
          /\ ActiveRun(v, e) = {h.active[e.nb]}

LEMMA KnownRuns ==
    ASSUME NEW v, NEW h, NEW k \in Nat, NEW e, Expected(v, h, k, e)
    PROVE  RunsShared(v, h, e)
<1>1. /\ HostSound(h) /\ Tracks(v, h, k) /\ Proper(e) /\ Lawful(h, e) /\ Known(v, e) /\ e.nb \in Notebooks
    BY EventFields DEF Expected
<1>2. ActiveAgree(v, h) /\ Places(v.docs, e.nb) # {}
    BY <1>1 DEF Tracks, Known
<1>3. \A r \in v.active : r.nb = e.nb => r = h.active[e.nb] /\ r # NoRun
    BY <1>2 DEF ActiveAgree
<1>4. h.active[e.nb] # NoRun => h.active[e.nb] \in v.active
    BY <1>1, <1>2 DEF ActiveAgree
<1>5. ASSUME e.kind \in {"output", "end"}
      PROVE  /\ h.active[e.nb] # NoRun /\ h.active[e.nb] \in Runs
             /\ h.active[e.nb].nb = e.nb /\ h.active[e.nb].cell = e.cell
             /\ ActiveRun(v, e) = {h.active[e.nb]}
    <2> DEFINE run == h.active[e.nb]
    <2>1. run # NoRun /\ run.cell = e.cell /\ run.exec = e.exec
        BY <1>1, <1>5 DEF Lawful, Running
    <2>2. run \in Runs /\ run.nb = e.nb
        BY <1>1, <2>1 DEF HostSound
    <2> HIDE DEF run
    <2>3. run \in ActiveRun(v, e)
        BY <1>4, <2>1, <2>2 DEF ActiveRun, run
    <2>4. \A r \in ActiveRun(v, e) : r = run
        BY <1>3 DEF ActiveRun, run
    <2> QED BY <2>1, <2>2, <2>3, <2>4 DEF run
<1> QED BY <1>3, <1>4, <1>5 DEF RunsShared

LEMMA SameDocument ==
    ASSUME NEW a \in Documents, NEW b \in Documents,
           a.id = b.id, a.version = b.version, a.kernel = b.kernel, a.cells = b.cells
    PROVE  a = b
BY DEF Documents

(* The two ways the builder puts cells in place give the host's document.  *)
LEMMA VersionedAlike ==
    ASSUME NEW v, NEW h, NEW k \in Nat, NEW e, Expected(v, h, k, e), e.kind \in Versioned
    PROVE  LET w == AtVersion(WithCells(v, e, HostCellsAfter(h, e)), e)
           IN  /\ w \in Views /\ w.active = v.active /\ w.incomplete = v.incomplete /\ ~w.error
               /\ w.docs = [v.docs EXCEPT ![Place(v.docs, e.nb)] = HostDocument(h, e)]
<1> DEFINE cells == HostCellsAfter(h, e)
           doc == HostDocument(h, e)
           w == AtVersion(WithCells(v, e, cells), e)
<1>1. /\ HostSound(h) /\ Tracks(v, h, k) /\ Proper(e) /\ Lawful(h, e) /\ Known(v, e) /\ e.kind # "open"
      /\ v \in Views /\ ~v.error
    BY DEF Expected, Tracks
<1>2. PICK i \in 1..Len(v.docs) :
         /\ Place(v.docs, e.nb) = i /\ Place(h.docs, e.nb) = k + i /\ v.docs[i] = h.docs[k + i]
    <2>1. PICK i \in 1..Len(v.docs) : Shared(v, h, k, e, i)
        BY <1>1, KnownDocument
    <2> QED BY <2>1 DEF Shared
<1>3. cells \in Seq(CellStates)
    BY <1>1, HostCellsSound
<1>4. /\ doc \in Documents /\ doc.id = e.nb /\ doc.cells = cells
      /\ doc.kernel = IF e.kind = "kernel" THEN e.generation ELSE h.docs[k + i].kernel
      /\ doc.version = IF e.kind \in Versioned THEN e.at ELSE h.docs[k + i].version
    <2>1. LET new == HostDocument(h, e)
              old == h.docs[Place(h.docs, e.nb)]
          IN  /\ new \in Documents /\ new.id = e.nb /\ new.cells = HostCellsAfter(h, e) /\ Unique(new.cells)
              /\ new.kernel = IF e.kind = "kernel" THEN e.generation ELSE old.kernel
              /\ new.version = IF e.kind \in Versioned THEN e.at ELSE old.version
        BY <1>1, HostDocumentSound
    <2> QED BY <1>2, <2>1
<1>5. e.kind # "kernel"
    BY DEF Versioned
<1> HIDE DEF cells
<1>6. /\ w \in Views /\ w.active = v.active /\ w.incomplete = v.incomplete /\ w.error = v.error
      /\ \E new \in Documents :
            /\ w.docs = [v.docs EXCEPT ![i] = new]
            /\ new.id = e.nb /\ new.cells = cells /\ new.version = e.at
            /\ new.kernel = v.docs[i].kernel
    <2>1. Unique(v.docs)
        BY <1>1, TrackedDocuments
    <2>2. LET u == AtVersion(WithCells(v, e, cells), e)
          IN  /\ u \in Views /\ u.active = v.active /\ u.incomplete = v.incomplete /\ u.error = v.error
              /\ \A id : Places(u.docs, id) = Places(v.docs, id)
              /\ Unique(v.docs) =>
                    LET j == Place(v.docs, e.nb)
                    IN  /\ j \in DOMAIN v.docs
                        /\ \E new \in Documents :
                              /\ u.docs = [v.docs EXCEPT ![j] = new]
                              /\ new.id = e.nb /\ new.cells = cells /\ new.version = e.at
                              /\ new.kernel = v.docs[j].kernel
        BY <1>1, <1>3, BothForms
    <2> QED BY <1>2, <2>1, <2>2
<1> HIDE DEF w, doc
<1>7. PICK new \in Documents :
         /\ w.docs = [v.docs EXCEPT ![i] = new]
         /\ new.id = e.nb /\ new.cells = cells /\ new.version = e.at
         /\ new.kernel = v.docs[i].kernel
    BY <1>6
<1>8. new = doc
    BY <1>2, <1>4, <1>5, <1>7, SameDocument
<1> QED BY <1>1, <1>2, <1>6, <1>7, <1>8 DEF w, doc, cells

LEMMA UnversionedAlike ==
    ASSUME NEW v, NEW h, NEW k \in Nat, NEW e, Expected(v, h, k, e), e.kind \in {"execute", "output"}
    PROVE  LET w == WithCells(v, e, HostCellsAfter(h, e))
           IN  /\ w \in Views /\ w.active = v.active /\ w.incomplete = v.incomplete /\ ~w.error
               /\ w.docs = [v.docs EXCEPT ![Place(v.docs, e.nb)] = HostDocument(h, e)]
<1> DEFINE cells == HostCellsAfter(h, e)
           doc == HostDocument(h, e)
           i == Place(v.docs, e.nb)
           new == [v.docs[i] EXCEPT !.cells = cells]
           w == WithCells(v, e, cells)
<1>1. /\ HostSound(h) /\ Tracks(v, h, k) /\ Proper(e) /\ Lawful(h, e) /\ Known(v, e) /\ e.kind # "open"
      /\ v \in Views /\ ~v.error
    BY DEF Expected, Tracks
<1>2. Place(h.docs, e.nb) = k + i /\ v.docs[i] = h.docs[k + i]
    <2>1. PICK j \in 1..Len(v.docs) : Shared(v, h, k, e, j)
        BY <1>1, KnownDocument
    <2> QED BY <2>1 DEF Shared
<1>3. cells \in Seq(CellStates)
    BY <1>1, HostCellsSound
<1>4. /\ doc \in Documents /\ doc.id = e.nb /\ doc.cells = cells
      /\ doc.kernel = IF e.kind = "kernel" THEN e.generation ELSE h.docs[k + i].kernel
      /\ doc.version = IF e.kind \in Versioned THEN e.at ELSE h.docs[k + i].version
    <2>1. LET this == HostDocument(h, e)
              old == h.docs[Place(h.docs, e.nb)]
          IN  /\ this \in Documents /\ this.id = e.nb /\ this.cells = HostCellsAfter(h, e) /\ Unique(this.cells)
              /\ this.kernel = IF e.kind = "kernel" THEN e.generation ELSE old.kernel
              /\ this.version = IF e.kind \in Versioned THEN e.at ELSE old.version
        BY <1>1, HostDocumentSound
    <2> QED BY <1>2, <2>1
<1>5. e.kind # "kernel" /\ e.kind \notin Versioned
    BY DEF Versioned
<1> HIDE DEF cells, doc
<1>6. /\ v.docs[i].id = e.nb /\ new \in Documents /\ new.id = e.nb /\ new.cells = cells
      /\ new.kernel = v.docs[i].kernel /\ new.version = v.docs[i].version
      /\ w \in Views /\ w.active = v.active /\ w.incomplete = v.incomplete /\ w.error = v.error
      /\ w.docs = [v.docs EXCEPT ![i] = new]
    BY <1>1, <1>3, WithCellsForm
<1> HIDE DEF new, w, i
<1>7. new = doc
    BY <1>2, <1>4, <1>5, <1>6, SameDocument
<1> QED BY <1>1, <1>6, <1>7 DEF w, doc, cells, i

(* A change of the cells that belongs to no run.                           *)
LEMMA CellAlike ==
    ASSUME NEW v, NEW h, NEW k \in Nat, NEW e, Expected(v, h, k, e),
           e.kind \in {"create", "update", "delete", "move"}
    PROVE  Alike(ViewApply(v, e), v, h, e)
<1> DEFINE w == AtVersion(WithCells(v, e, HostCellsAfter(h, e)), e)
           cells == ViewCells(v, e)
<1>1. /\ HostSound(h) /\ Tracks(v, h, k) /\ Proper(e) /\ Lawful(h, e) /\ InItsRun(h, e) /\ Known(v, e)
      /\ v \in Views /\ ~v.error
    BY DEF Expected, Tracks
<1>2. HostCells(h, e) = cells /\ cells \in Seq(CellStates)
    BY <1>1, KnownDocument DEF Shared
<1>3. e.kind \in Versioned
    BY DEF Versioned
<1>4. /\ w \in Views /\ w.active = v.active /\ w.incomplete = v.incomplete /\ ~w.error
      /\ w.docs = [v.docs EXCEPT ![Place(v.docs, e.nb)] = HostDocument(h, e)]
    BY <1>3, VersionedAlike
<1>5. Applicable(v, e)
    BY <1>1, <1>2 DEF Applicable, Lawful
<1>6. ViewApply(v, e) = w
    <2>1. ViewApply(v, e) = ViewCell(v, e)
        BY <1>1 DEF ViewApply
    <2>2. ViewCell(v, e) =
            AtVersion(WithCells(v, e,
               CASE e.kind = "create" -> InsertAt(cells, e.index, NewCell(e))
                 [] e.kind = "delete" -> RemoveAt(cells, e.index)
                 [] e.kind = "move" -> Moved(cells, e.index, e.to)
                 [] e.kind = "update" -> [cells EXCEPT ![e.index].source = e.at]), e)
        BY <1>5 DEF ViewCell
    <2>3. HostCellsAfter(h, e) =
             CASE e.kind = "create" -> InsertAt(cells, e.index, NewCell(e))
               [] e.kind = "delete" -> RemoveAt(cells, e.index)
               [] e.kind = "move" -> Moved(cells, e.index, e.to)
               [] e.kind = "update" -> [cells EXCEPT ![e.index].source = e.at]
        <3> HIDE DEF cells
        <3> QED BY <1>2 DEF HostCellsAfter
    <2> QED BY <2>1, <2>2, <2>3
<1>7. h.active[e.nb] = NoRun
    BY <1>1 DEF InItsRun
<1>8. HostActive(h, e) = NoRun
    BY <1>7 DEF HostActive
<1>9. \A r \in v.active : r.nb # e.nb
    <2>0. RunsShared(v, h, e)
        BY KnownRuns
    <2> QED BY <1>7, <2>0 DEF RunsShared
<1> HIDE DEF w
<1> QED BY <1>4, <1>6, <1>8, <1>9 DEF Alike

LEMMA ExecuteAlike ==
    ASSUME NEW v, NEW h, NEW k \in Nat, NEW e, Expected(v, h, k, e), e.kind = "execute"
    PROVE  Alike(ViewApply(v, e), v, h, e)
<1> DEFINE w == WithCells(v, e, HostCellsAfter(h, e))
           cells == ViewCells(v, e)
           at == Place(cells, e.cell)
           run == NewRun(e)
           active == (w.active \ ActiveRun(v, e)) \cup {run}
           new == ViewApply(v, e)
<1>1. /\ HostSound(h) /\ Tracks(v, h, k) /\ Proper(e) /\ Lawful(h, e) /\ Known(v, e)
      /\ v \in Views /\ ~v.error
    BY DEF Expected, Tracks
<1>2. HostCells(h, e) = cells /\ cells \in Seq(CellStates)
    BY <1>1, KnownDocument DEF Shared
<1>3. /\ w \in Views /\ w.active = v.active /\ w.incomplete = v.incomplete /\ ~w.error
      /\ w.docs = [v.docs EXCEPT ![Place(v.docs, e.nb)] = HostDocument(h, e)]
    BY UnversionedAlike
<1>4. Located(v, e) /\ h.active[e.nb] = NoRun
    BY <1>1, <1>2 DEF Located, Lawful
<1>5. HostCellsAfter(h, e) = [cells EXCEPT ![at] = Begun(cells[at])]
    BY <1>2 DEF HostCellsAfter
<1>6. new = [w EXCEPT !.active = active]
    <2>1. new = ViewExecute(v, e)
        BY <1>1 DEF ViewApply
    <2>2. ViewExecute(v, e) = [WithCells(v, e, [cells EXCEPT ![at] = Begun(cells[at])])
                               EXCEPT !.active = (@ \ ActiveRun(v, e)) \cup {NewRun(e)}]
        BY <1>4 DEF ViewExecute
    <2> HIDE DEF new, cells, at
    <2> QED BY <1>5, <2>1, <2>2
<1>7. HostActive(h, e) = run
    BY DEF HostActive
<1>8. run \in Runs /\ run.nb = e.nb /\ run.exec # 0
    <2>1. e.cell \in Cells
        BY <1>1, <1>4, LocatedCell
    <2> QED BY <1>1, <2>1, BegunRun, EventFields DEF Proper
<1>9. run # NoRun
    BY <1>8 DEF NoRun
<1>10. \A r \in v.active : r.nb # e.nb
    <2>0. RunsShared(v, h, e)
        BY KnownRuns
    <2> QED BY <1>4, <2>0 DEF RunsShared
<1>11. v.active \in SUBSET Runs
    BY <1>1, ViewFields
<1>12. ActiveRun(v, e) = {}
    BY <1>10 DEF ActiveRun
<1>13. active = v.active \cup {run}
    BY <1>3, <1>12
<1> HIDE DEF w, run, new, active
<1>14. active \in SUBSET Runs
    BY <1>8, <1>11, <1>13
<1>15. /\ new \in Views /\ new.docs = w.docs /\ new.active = active
       /\ new.incomplete = w.incomplete /\ new.error = w.error
    <2>1. new \in Views /\ new.active = active
        BY <1>3, <1>6, <1>14 DEF Views
    <2>2. new.docs = w.docs /\ new.incomplete = w.incomplete /\ new.error = w.error
        BY <1>3, <1>6 DEF Views
    <2> QED BY <2>1, <2>2
<1>16. Alike(new, v, h, e)
    BY <1>3, <1>7, <1>9, <1>10, <1>13, <1>15 DEF Alike
<1> QED BY <1>16 DEF new

(* The cell of the run of a document both have, and what it shows.         *)
LEMMA RunningCell ==
    ASSUME NEW v, NEW h, NEW k \in Nat, NEW e, Expected(v, h, k, e), e.kind \in {"output", "end"}
    PROVE  LET cells == ViewCells(v, e)
               at == Place(cells, e.cell)
           IN  /\ HostCells(h, e) = cells /\ cells \in Seq(CellStates) /\ Unique(cells)
               /\ Located(v, e) /\ at \in 1..Len(cells) /\ cells[at].id = e.cell
               /\ cells[at].status = "running" /\ cells[at].outs = h.active[e.nb].outs
<1> DEFINE cells == ViewCells(v, e)
           at == Place(cells, e.cell)
           run == h.active[e.nb]
<1>1. HostSound(h) /\ Tracks(v, h, k) /\ Proper(e) /\ Lawful(h, e) /\ Known(v, e) /\ e.nb \in Notebooks /\ v \in Views
    BY EventFields DEF Expected, Tracks
<1>2. PICK i \in 1..Len(v.docs) :
         /\ Places(h.docs, e.nb) = {k + i} /\ v.docs[i] = h.docs[k + i]
         /\ cells = v.docs[i].cells /\ HostCells(h, e) = cells
         /\ cells \in Seq(CellStates) /\ Unique(cells)
    <2> HIDE DEF cells, at, run
    <2>1. PICK i \in 1..Len(v.docs) : Shared(v, h, k, e, i)
        BY <1>1, KnownDocument
    <2> QED BY <2>1 DEF cells, Shared
<1>3. Located(v, e)
    <2>1. Places(HostCells(h, e), e.cell) # {}
        BY <1>1 DEF Lawful
    <2> QED BY <1>2, <2>1 DEF Located
<1>4. at \in 1..Len(cells) /\ cells[at].id = e.cell
    BY <1>1, <1>3, LocatedCell
<1>5. run # NoRun /\ run.nb = e.nb /\ run.cell = e.cell
    <2>0. RunsShared(v, h, e)
        BY KnownRuns
    <2> QED BY <2>0 DEF RunsShared
<1>6. RunShown(h.docs, run)
    BY <1>1, <1>5 DEF HostSound
<1>7. PICK j \in Places(cells, e.cell) : cells[j].status = "running" /\ cells[j].outs = run.outs
    <2> HIDE DEF run, cells
    <2>1. PICK f \in Places(h.docs, e.nb) : \E j \in Places(h.docs[f].cells, e.cell) :
                 h.docs[f].cells[j].status = "running" /\ h.docs[f].cells[j].outs = run.outs
        BY <1>5, <1>6 DEF RunShown
    <2>2. h.docs[f].cells = cells
        BY <1>2, <2>1
    <2> QED BY <2>1, <2>2
<1>8. j = at
    <2> HIDE DEF cells, at, run
    <2>1. j \in DOMAIN cells /\ cells[j].id = e.cell /\ at \in DOMAIN cells
        BY <1>2, <1>4, <1>7 DEF Places
    <2> QED BY <1>2, <1>4, <2>1 DEF Unique
<1> QED BY <1>2, <1>3, <1>4, <1>7, <1>8

LEMMA EndAlike ==
    ASSUME NEW v, NEW h, NEW k \in Nat, NEW e, Expected(v, h, k, e), e.kind = "end"
    PROVE  Alike(ViewApply(v, e), v, h, e)
<1> DEFINE w == AtVersion(WithCells(v, e, HostCellsAfter(h, e)), e)
           cells == ViewCells(v, e)
           at == Place(cells, e.cell)
           run == h.active[e.nb]
           active == w.active \ {run}
           new == ViewApply(v, e)
<1>1. Proper(e) /\ Known(v, e) /\ v \in Views /\ ~v.error
    BY DEF Expected, Tracks
<1>2. HostCells(h, e) = cells /\ Located(v, e)
    BY RunningCell
<1>3. /\ w \in Views /\ w.active = v.active /\ w.incomplete = v.incomplete /\ ~w.error
      /\ w.docs = [v.docs EXCEPT ![Place(v.docs, e.nb)] = HostDocument(h, e)]
    <2>1. e.kind \in Versioned
        BY DEF Versioned
    <2> QED BY <2>1, VersionedAlike
<1>4. /\ run # NoRun /\ run.nb = e.nb /\ ActiveRun(v, e) = {run}
      /\ \A r \in v.active : r.nb = e.nb => r = run
    <2>0. RunsShared(v, h, e)
        BY KnownRuns
    <2> QED BY <2>0 DEF RunsShared
<1>5. HostCellsAfter(h, e) = [cells EXCEPT ![at] = Ended(cells[at], run.outs, e)]
    BY <1>2 DEF HostCellsAfter
<1>6. (CHOOSE r \in ActiveRun(v, e) : TRUE) = run
    BY <1>4
<1>7. new = [w EXCEPT !.active = active]
    <2> DEFINE one == CHOOSE r \in ActiveRun(v, e) : TRUE
    <2>1. new = ViewEnd(v, e)
        BY <1>1 DEF ViewApply
    <2>2. ViewEnd(v, e) =
            [AtVersion(WithCells(v, e, [cells EXCEPT ![at] = Ended(cells[at], one.outs, e)]), e)
             EXCEPT !.active = @ \ {one}]
        <3>1. ~(ActiveRun(v, e) = {} \/ ~Located(v, e))
            BY <1>2, <1>4
        <3> QED BY <3>1 DEF ViewEnd
    <2>3. one = run
        BY <1>6
    <2> HIDE DEF one, run, new, cells, at
    <2>4. ViewEnd(v, e) = [w EXCEPT !.active = @ \ {run}]
        BY <1>5, <2>2, <2>3
    <2> HIDE DEF w
    <2> QED BY <2>1, <2>4
<1>8. HostActive(h, e) = NoRun
    BY DEF HostActive
<1>9. v.active \in SUBSET Runs
    BY <1>1, ViewFields
<1> HIDE DEF w, run, new
<1>10. active \in SUBSET Runs /\ \A r : r \in active <=> r \in v.active /\ r.nb # e.nb
    BY <1>3, <1>4, <1>9
<1> HIDE DEF active
<1>11. /\ new \in Views /\ new.docs = w.docs /\ new.active = active
       /\ new.incomplete = w.incomplete /\ new.error = w.error
    <2>1. new \in Views /\ new.active = active
        BY <1>3, <1>7, <1>10 DEF Views
    <2>2. new.docs = w.docs /\ new.incomplete = w.incomplete /\ new.error = w.error
        BY <1>3, <1>7 DEF Views
    <2> QED BY <2>1, <2>2
<1>12. Alike(new, v, h, e)
    BY <1>3, <1>8, <1>10, <1>11 DEF Alike
<1> QED BY <1>12 DEF new

LEMMA ReloadAlike ==
    ASSUME NEW v, NEW h, NEW k \in Nat, NEW e, Expected(v, h, k, e), e.kind = "reload"
    PROVE  Alike(ViewApply(v, e), v, h, e)
<1> DEFINE w == AtVersion(WithCells(v, e, HostCellsAfter(h, e)), e)
           active == {r \in w.active : r.nb # e.nb}
           new == ViewApply(v, e)
<1>1. Proper(e) /\ Known(v, e) /\ v \in Views /\ ~v.error /\ InItsRun(h, e)
    BY DEF Expected, Tracks
<1>2. /\ w \in Views /\ w.active = v.active /\ w.incomplete = v.incomplete /\ ~w.error
      /\ w.docs = [v.docs EXCEPT ![Place(v.docs, e.nb)] = HostDocument(h, e)]
    <2>1. e.kind \in Versioned
        BY DEF Versioned
    <2> QED BY <2>1, VersionedAlike
<1>3. HostCellsAfter(h, e) = e.cells
    BY DEF HostCellsAfter
<1>4. new = [w EXCEPT !.active = active]
    <2>1. new = ViewReload(v, e)
        BY <1>1 DEF ViewApply
    <2>2. ViewReload(v, e) = [AtVersion(WithCells(v, e, e.cells), e)
                              EXCEPT !.active = {r \in @ : r.nb # e.nb}]
        BY <1>1 DEF ViewReload
    <2> HIDE DEF new
    <2>3. ViewReload(v, e) = [w EXCEPT !.active = {r \in @ : r.nb # e.nb}]
        BY <1>3, <2>2
    <2> HIDE DEF w
    <2> QED BY <2>1, <2>3
<1>5. HostActive(h, e) = NoRun
    BY <1>1 DEF HostActive, InItsRun
<1>6. v.active \in SUBSET Runs
    BY <1>1, ViewFields
<1> HIDE DEF w, new
<1>7. active \in SUBSET Runs /\ \A r : r \in active <=> r \in v.active /\ r.nb # e.nb
    BY <1>2, <1>6
<1> HIDE DEF active
<1>8. /\ new \in Views /\ new.docs = w.docs /\ new.active = active
      /\ new.incomplete = w.incomplete /\ new.error = w.error
    <2>1. new \in Views /\ new.active = active
        BY <1>2, <1>4, <1>7 DEF Views
    <2>2. new.docs = w.docs /\ new.incomplete = w.incomplete /\ new.error = w.error
        BY <1>2, <1>4 DEF Views
    <2> QED BY <2>1, <2>2
<1>9. Alike(new, v, h, e)
    BY <1>2, <1>5, <1>7, <1>8 DEF Alike
<1> QED BY <1>9 DEF new

(* What an output does to the cells of its document is the same on both    *)
(* sides, though they say it in different ways.                            *)
LEMMA OutputCellsAgree ==
    ASSUME NEW v, NEW h, NEW k \in Nat, NEW e, Expected(v, h, k, e), e.kind = "output"
    PROVE  ViewOutputCells(ViewCells(v, e), HostRun(h.active[e.nb], e), e) = HostCellsAfter(h, e)
<1> DEFINE cells == ViewCells(v, e)
           at == Place(cells, e.cell)
           old == h.active[e.nb]
           run == HostRun(old, e)
           outs == run.outs
           m == e.mutation
           redrawn == IF m.op # "update" THEN cells
                    ELSE [i \in DOMAIN cells |-> [cells[i] EXCEPT !.outs = Redisplayed(@, m)]]
           after == [redrawn EXCEPT ![at].outs = outs]
           new == ViewOutputCells(cells, run, e)
<1>1. /\ HostCells(h, e) = cells /\ cells \in Seq(CellStates) /\ Unique(cells)
      /\ Located(v, e) /\ at \in 1..Len(cells) /\ cells[at].id = e.cell
      /\ cells[at].status = "running" /\ cells[at].outs = old.outs
    BY RunningCell
<1>2. HostCellsAfter(h, e) = after
    <2> HIDE DEF cells, at
    <2>1. HostCells(h, e) = cells
        BY <1>1
    <2> QED BY <2>1 DEF HostCellsAfter, at
<1>3. Proper(e) /\ old \in Runs /\ old.cell = e.cell
    <2>0. RunsShared(v, h, e)
        BY KnownRuns
    <2> QED BY <2>0 DEF RunsShared, Expected
<1>4. run \in Runs /\ run.cell = e.cell /\ outs \in Seq(Outputs)
    BY <1>3, RunType DEF Runs
<1>5. m.op \in {"append", "clear", "update"} /\ m.wait \in BOOLEAN /\ m.data \in Nat
    BY <1>3, MutationFields DEF Proper
<1>6. cells[at] \in CellStates /\ DOMAIN cells = 1..Len(cells) /\ at \in DOMAIN cells
    BY <1>1
<1>7. m.op = "clear" /\ m.wait => outs = old.outs
    <2> SUFFICES ASSUME m.op = "clear" /\ m.wait PROVE outs = old.outs
        OBVIOUS
    <2>1. run = [old EXCEPT !.clear = TRUE]
        BY DEF HostRun
    <2> HIDE DEF run, old
    <2> QED BY <1>3, <2>1 DEF Runs
<1>8. CASE m.op = "clear" /\ m.wait
    <2>1. new = cells
        BY <1>8 DEF ViewOutputCells
    <2>2. redrawn = cells
        BY <1>8
    <2>3. after = [cells EXCEPT ![at] = [cells[at] EXCEPT !.outs = cells[at].outs]]
        BY <1>1, <1>7, <1>8, <2>2
    <2> HIDE DEF after, new, redrawn, cells, at
    <2>4. [cells[at] EXCEPT !.outs = cells[at].outs] = cells[at]
        BY <1>6 DEF CellStates
    <2>5. [cells EXCEPT ![at] = cells[at]] = cells
        BY <1>1
    <2> QED BY <1>2, <2>1, <2>3, <2>4, <2>5 DEF new, cells, run
<1>9. CASE m.op \in {"append", "clear"} /\ ~(m.op = "clear" /\ m.wait)
    <2> DEFINE c == [cells[at] EXCEPT !.outs = outs, !.status = "running"]
               d == [cells[at] EXCEPT !.outs = outs]
    <2>1. new = [cells EXCEPT ![at] = c]
        BY <1>9 DEF ViewOutputCells
    <2>2. redrawn = cells
        BY <1>9
    <2>3. after = [cells EXCEPT ![at] = d]
        BY <2>2
    <2>4. c = d
        <3> HIDE DEF cells, at, outs
        <3> QED BY <1>1, <1>6 DEF CellStates
    <2> HIDE DEF after, new, c, d
    <2> QED BY <1>2, <2>1, <2>3, <2>4 DEF new
<1>10. CASE m.op = "update"
    <2> DEFINE redisplayed == [i \in DOMAIN cells |-> Redisplayed(cells[i].outs, m)]
               put == [i \in DOMAIN cells |-> IF cells[i].id = run.cell THEN outs ELSE redisplayed[i]]
               left == [i \in DOMAIN cells |-> [cells[i] EXCEPT !.outs = put[i]]]
               right == [i \in DOMAIN cells |-> [cells[i] EXCEPT !.outs = redisplayed[i]]]
               there == [right[at] EXCEPT !.outs = outs]
    <2>1. new = left
        BY <1>10 DEF ViewOutputCells, Elsewhere
    <2>2. redrawn = right
        BY <1>10
    <2>3. after = [right EXCEPT ![at] = there]
        BY <2>2
    <2>4. \A i \in DOMAIN cells : cells[i].id = run.cell <=> i = at
        <3> HIDE DEF cells, at, run
        <3> QED BY <1>1, <1>4, <1>6 DEF Unique
    <2>5. \A i \in DOMAIN cells : put[i] = IF i = at THEN outs ELSE redisplayed[i]
        BY <2>4
    <2>6. \A i \in DOMAIN cells : cells[i] \in CellStates
        <3> HIDE DEF cells
        <3> QED BY <1>1
    <2> HIDE DEF put, redisplayed, cells, at, outs
    <2>7. there = [cells[at] EXCEPT !.outs = outs]
        <3>1. right[at] = [cells[at] EXCEPT !.outs = redisplayed[at]]
            BY <1>6
        <3> DEFINE c == cells[at]
                   other == redisplayed[at]
        <3>2. c \in CellStates /\ there = [[c EXCEPT !.outs = other] EXCEPT !.outs = outs]
            BY <1>6, <3>1
        <3> HIDE DEF c, other, there, right
        <3>3. there = [c EXCEPT !.outs = outs]
            BY <3>2 DEF CellStates
        <3> QED BY <3>3 DEF c
    <2>8. DOMAIN right = DOMAIN cells /\ DOMAIN left = DOMAIN cells
        OBVIOUS
    <2>9. \A i \in DOMAIN cells : left[i] = IF i = at THEN there ELSE right[i]
        BY <2>5, <2>7
    <2>10. left = [i \in DOMAIN cells |-> left[i]] /\ right = [i \in DOMAIN cells |-> right[i]]
        OBVIOUS
    <2> HIDE DEF left, right, there
    <2>11. left = [right EXCEPT ![at] = there]
        BY <2>8, <2>9, <2>10
    <2> QED BY <1>2, <2>1, <2>3, <2>11 DEF cells
<1> QED BY <1>5, <1>8, <1>9, <1>10

LEMMA OutputAlike ==
    ASSUME NEW v, NEW h, NEW k \in Nat, NEW e, Expected(v, h, k, e), e.kind = "output"
    PROVE  Alike(ViewApply(v, e), v, h, e)
<1> DEFINE w == WithCells(v, e, HostCellsAfter(h, e))
           cells == ViewCells(v, e)
           old == h.active[e.nb]
           run == HostRun(old, e)
           active == (w.active \ {old}) \cup {run}
           new == ViewApply(v, e)
<1>1. Proper(e) /\ Known(v, e) /\ v \in Views /\ ~v.error /\ HostSound(h) /\ Lawful(h, e)
    BY DEF Expected, Tracks
<1>2. Located(v, e)
    BY RunningCell
<1>3. /\ w \in Views /\ w.active = v.active /\ w.incomplete = v.incomplete /\ ~w.error
      /\ w.docs = [v.docs EXCEPT ![Place(v.docs, e.nb)] = HostDocument(h, e)]
    BY UnversionedAlike
<1>4. /\ old # NoRun /\ old \in Runs /\ old.nb = e.nb /\ ActiveRun(v, e) = {old} /\ old \in v.active
      /\ \A r \in v.active : r.nb = e.nb => r = old
    <2>0. RunsShared(v, h, e)
        BY KnownRuns
    <2> QED BY <2>0 DEF RunsShared
<1>5. (CHOOSE r \in ActiveRun(v, e) : TRUE) = old
    BY <1>4
<1>6. ViewOutputCells(cells, run, e) = HostCellsAfter(h, e)
    BY OutputCellsAgree
<1>7. new = [w EXCEPT !.active = active]
    <2> DEFINE one == CHOOSE r \in ActiveRun(v, e) : TRUE
    <2>1. new = ViewOutput(v, e)
        BY <1>1 DEF ViewApply
    <2>2. ViewOutput(v, e) =
            [WithCells(v, e, ViewOutputCells(cells, ViewRun(one, e), e))
             EXCEPT !.active = (@ \ {one}) \cup {ViewRun(one, e)}]
        <3>1. ~(ActiveRun(v, e) = {} \/ ~Located(v, e))
            BY <1>2, <1>4
        <3> QED BY <3>1 DEF ViewOutput
    <2>3. one = old /\ ViewRun(one, e) = run
        BY <1>5, RunsAgree
    <2> HIDE DEF one, run, old, new, cells
    <2>4. ViewOutput(v, e) = [w EXCEPT !.active = (@ \ {old}) \cup {run}]
        BY <1>6, <2>2, <2>3
    <2> HIDE DEF w
    <2> QED BY <2>1, <2>4
<1>8. HostActive(h, e) = run
    BY DEF HostActive
<1>9. run \in Runs /\ run.nb = e.nb /\ run # NoRun
    <2>1. run \in Runs /\ run.nb = e.nb /\ run.exec = old.exec
        BY <1>1, <1>4, RunType
    <2>2. old.exec # 0
        BY <1>1, <1>4, EventFields DEF HostSound
    <2> QED BY <2>1, <2>2 DEF NoRun
<1>10. v.active \in SUBSET Runs
    BY <1>1, ViewFields
<1> HIDE DEF w, run, old, new
<1>11. /\ active \in SUBSET Runs
       /\ \A r : r \in active <=> (r \in v.active /\ r.nb # e.nb) \/ r = run
    BY <1>3, <1>4, <1>9, <1>10
<1> HIDE DEF active
<1>12. /\ new \in Views /\ new.docs = w.docs /\ new.active = active
       /\ new.incomplete = w.incomplete /\ new.error = w.error
    <2>1. new \in Views /\ new.active = active
        BY <1>3, <1>7, <1>11 DEF Views
    <2>2. new.docs = w.docs /\ new.incomplete = w.incomplete /\ new.error = w.error
        BY <1>3, <1>7 DEF Views
    <2> QED BY <2>1, <2>2
<1>13. Alike(new, v, h, e)
    BY <1>3, <1>8, <1>9, <1>11, <1>12 DEF Alike
<1> QED BY <1>13 DEF new

LEMMA KernelAlike ==
    ASSUME NEW v, NEW h, NEW k \in Nat, NEW e, Expected(v, h, k, e), e.kind = "kernel"
    PROVE  Alike(ViewApply(v, e), v, h, e)
<1> DEFINE new == ViewApply(v, e)
           i == Place(v.docs, e.nb)
           old == v.docs[i]
           put == [old EXCEPT !.kernel = e.generation]
           doc == HostDocument(h, e)
           docs == [v.docs EXCEPT ![i] = put]
<1>1. /\ Proper(e) /\ Known(v, e) /\ v \in Views /\ ~v.error /\ HostSound(h) /\ Lawful(h, e)
      /\ Tracks(v, h, k) /\ InItsRun(h, e)
    BY DEF Expected, Tracks
<1>2. PICK j \in 1..Len(v.docs) : Shared(v, h, k, e, j)
    BY <1>1, KnownDocument
<1>3. /\ i = j /\ i \in 1..Len(v.docs) /\ old.id = e.nb /\ old = h.docs[k + i] /\ old \in Documents
      /\ Places(v.docs, e.nb) = {i} /\ Place(h.docs, e.nb) = k + i /\ Places(h.docs, e.nb) = {k + i}
      /\ HostCells(h, e) = old.cells
    BY <1>2 DEF Shared
<1>4. e.generation = old.kernel + 1 /\ h.active[e.nb] = NoRun
    <2>1. h.active[e.nb] = NoRun /\ \E d \in Places(h.docs, e.nb) : e.generation = h.docs[d].kernel + 1
        BY <1>1 DEF Lawful
    <2> QED BY <1>3, <2>1
<1>5. new = [v EXCEPT !.docs = docs]
    <2>1. new = ViewKernel(v, e)
        BY <1>1 DEF ViewApply
    <2>2. ~(\E d \in Places(v.docs, e.nb) : e.generation # v.docs[d].kernel + 1)
        BY <1>3, <1>4
    <2>3. ViewKernel(v, e) = [v EXCEPT !.docs[i].kernel = e.generation]
        BY <1>1, <2>2 DEF ViewKernel
    <2> QED BY <2>1, <2>3
<1>6. /\ doc \in Documents /\ doc.id = e.nb /\ doc.cells = old.cells
      /\ doc.kernel = e.generation /\ doc.version = old.version
    <2>1. LET this == HostDocument(h, e)
              was == h.docs[Place(h.docs, e.nb)]
          IN  /\ this \in Documents /\ this.id = e.nb /\ this.cells = HostCellsAfter(h, e) /\ Unique(this.cells)
              /\ this.kernel = IF e.kind = "kernel" THEN e.generation ELSE was.kernel
              /\ this.version = IF e.kind \in Versioned THEN e.at ELSE was.version
        BY <1>1, HostDocumentSound
    <2>2. HostCellsAfter(h, e) = old.cells
        BY <1>3 DEF HostCellsAfter
    <2>3. h.docs[Place(h.docs, e.nb)] = old /\ e.kind \notin Versioned
        BY <1>3 DEF Versioned
    <2> HIDE DEF old, doc
    <2> QED BY <2>1, <2>2, <2>3 DEF doc
<1>7. HostActive(h, e) = NoRun
    BY <1>4 DEF HostActive
<1>8. \A r \in v.active : r.nb # e.nb
    <2>0. RunsShared(v, h, e)
        BY KnownRuns
    <2> QED BY <1>4, <2>0 DEF RunsShared
<1>9. v.docs \in Seq(Documents) /\ e.generation \in Nat
    BY <1>1, ViewFields, EventFields
<1> HIDE DEF new, doc, i, old
<1>10. /\ put \in Documents /\ put.id = e.nb /\ put.cells = old.cells
       /\ put.kernel = e.generation /\ put.version = old.version
    BY <1>3, <1>9 DEF Documents
<1> HIDE DEF put
<1>11. put = doc
    BY <1>6, <1>10, SameDocument
<1>12. docs \in Seq(Documents)
    BY <1>3, <1>9, <1>10
<1> HIDE DEF docs
<1>13. /\ new \in Views /\ new.docs = docs /\ new.active = v.active
       /\ new.incomplete = v.incomplete /\ new.error = v.error
    <2>1. LET u == [v EXCEPT !.docs = docs]
          IN  /\ u \in Views /\ u.docs = docs /\ u.active = v.active
              /\ u.incomplete = v.incomplete /\ u.error = v.error
        BY <1>1, <1>12, ViewFields
    <2> QED BY <1>5, <2>1
<1>14. docs = [v.docs EXCEPT ![i] = doc]
    BY <1>11 DEF docs
<1>15. Alike(new, v, h, e)
    BY <1>1, <1>7, <1>8, <1>13, <1>14 DEF Alike, i, doc
<1> QED BY <1>15 DEF new

(* An event that comes in its turn keeps the builder behind the host, and  *)
(* the builder either has its document then or says that something is     *)
(* missing.                                                                *)
LEMMA FollowingStep ==
    ASSUME NEW v, NEW h, NEW k \in Nat, HostSound(h), Tracks(v, h, k),
           NEW e, Proper(e), Lawful(h, e), InItsRun(h, e)
    PROVE  /\ Tracks(ViewApply(v, e), HostApply(h, e), k)
           /\ Places(ViewApply(v, e).docs, e.nb) = {} => ViewApply(v, e).incomplete
           /\ v.incomplete => ViewApply(v, e).incomplete
           /\ \A id : Places(v.docs, id) # {} => Places(ViewApply(v, e).docs, id) # {}
<1>1. CASE e.kind = "open"
    BY <1>1, OpenStep
<1>2. CASE e.kind # "open" /\ ~Known(v, e)
    BY <1>2, UnknownStep
<1>3. CASE e.kind # "open" /\ Known(v, e)
    <2> DEFINE w == ViewApply(v, e)
    <2>1. Expected(v, h, k, e)
        BY <1>3 DEF Expected
    <2>2. e.kind \in {"create", "update", "delete", "move"} => Alike(w, v, h, e)
        BY <2>1, CellAlike
    <2>3. e.kind = "execute" => Alike(w, v, h, e)
        BY <2>1, ExecuteAlike
    <2>4. e.kind = "output" => Alike(w, v, h, e)
        BY <2>1, OutputAlike
    <2>5. e.kind = "end" => Alike(w, v, h, e)
        BY <2>1, EndAlike
    <2>6. e.kind = "kernel" => Alike(w, v, h, e)
        BY <2>1, KernelAlike
    <2>7. e.kind = "reload" => Alike(w, v, h, e)
        BY <2>1, ReloadAlike
    <2>8. e.kind \in {"create", "update", "delete", "move", "execute", "output", "end", "kernel", "reload"}
        BY <1>3, EventFields
    <2> HIDE DEF w
    <2>9. Alike(w, v, h, e)
        BY <2>2, <2>3, <2>4, <2>5, <2>6, <2>7, <2>8
    <2>10. /\ Tracks(w, HostApply(h, e), k)
           /\ \A id : Places(w.docs, id) = Places(v.docs, id)
        <3>1. \A x : Alike(x, v, h, e) => Tracks(x, HostApply(h, e), k)
            BY <2>1, AlikeTracks
        <3>2. \A x : Alike(x, v, h, e) => \A id : Places(x.docs, id) = Places(v.docs, id)
            BY <2>1, AlikeTracks
        <3>3. \A id : Places(w.docs, id) = Places(v.docs, id)
            BY <2>9, <3>2
        <3> DEFINE g == HostApply(h, e)
        <3>4. Tracks(w, g, k)
            <4>1. \A x : Alike(x, v, h, e) => Tracks(x, g, k)
                BY <3>1
            <4> HIDE DEF g
            <4> QED BY <2>9, <4>1
        <3> QED BY <3>3, <3>4
    <2>11. w.incomplete = v.incomplete /\ Places(v.docs, e.nb) # {}
        BY <1>3, <2>9 DEF Alike, Known
    <2> QED BY <2>10, <2>11 DEF w
<1> QED BY <1>1, <1>2, <1>3

(* The events of the end of a log, folded by the builder.                  *)
LEMMA TailTracked ==
    ASSUME NEW events, Foldable(events), NEW first \in 1..(Len(events) + 1)
    PROVE  LET tail == first..Len(events)
               v == ViewStates(events, NoView, tail)[Len(events)]
           IN  \E k \in Nat :
                  /\ Tracks(v, foldNotebooks(events), k)
                  /\ first = 1 => k = 0
                  /\ \A m \in tail : Places(v.docs, events[m].nb) = {} => v.incomplete
<1> DEFINE N == Len(events)
           tail == first..N
           hs == HostStates(events)
           vs == ViewStates(events, NoView, tail)
           k == Len(hs[first - 1].docs)
           Said(n) == \A m \in first..n : Places(vs[n].docs, events[m].nb) = {} => vs[n].incomplete
           T == {n \in Nat : n \in (first - 1)..N => Tracks(vs[n], hs[n], k) /\ Said(n)}
<1>1. /\ N \in Nat /\ events \in Seq(Events) /\ hs[0] = NoFold
      /\ \A n \in 0..N : HostSound(hs[n])
      /\ \A n \in 1..N :
            /\ hs[n] = HostApply(hs[n - 1], events[n])
            /\ Lawful(hs[n - 1], events[n]) /\ InItsRun(hs[n - 1], events[n]) /\ Proper(events[n])
    BY FoldsAreSound
<1>2. /\ vs[0] = NoView
      /\ \A n \in 1..N : vs[n] = IF n \in tail THEN ViewApply(vs[n - 1], events[n]) ELSE vs[n - 1]
    BY <1>1, ViewStatesRecur DEF ViewStep
<1>3. first - 1 \in 0..N /\ first \in Nat /\ first - 1 \in Nat
    BY <1>1
<1>4. vs[first - 1] = NoView
    <2>1. \A j \in 1..(first - 1) : j \in tail <=> j \in {}
        BY <1>1, <1>3
    <2>2. \A n \in 0..(first - 1) : vs[n] = ViewStates(events, NoView, {})[n]
        BY <1>1, <1>3, <2>1, SamePrefix
    <2>3. \A n \in 0..N : ViewStates(events, NoView, {})[n] = ViewStates(events, NoView, {})[0]
        <3>1. 0 \in 0..N
            BY <1>1
        <3> QED BY <1>1, <3>1, NothingToFold
    <2>4. ViewStates(events, NoView, {})[0] = NoView
        BY <1>1, ViewStatesRecur
    <2> HIDE DEF vs
    <2> QED BY <1>3, <2>2, <2>3, <2>4
<1>5. k \in Nat
    <2>1. hs[first - 1].docs \in Seq(Documents)
        BY <1>1, <1>3 DEF HostSound, Folds
    <2> QED BY <2>1
<1> HIDE DEF hs, vs, k
<1>6. Tracks(vs[first - 1], hs[first - 1], k)
    <2>1. NoView \in Views /\ NoView.docs = <<>> /\ NoView.active = {} /\ ~NoView.error /\ ~NoView.incomplete
        BY NoViewType DEF NoView
    <2>2. Len(NoView.docs) = 0 /\ \A id : Places(NoView.docs, id) = {}
        BY <2>1 DEF Places
    <2>3. ActiveAgree(NoView, hs[first - 1])
        BY <2>1, <2>2 DEF ActiveAgree
    <2>4. Len(hs[first - 1].docs) = k + Len(NoView.docs)
        BY <1>5, <2>2 DEF k
    <2>5. \A i \in 1..Len(NoView.docs) : NoView.docs[i] = hs[first - 1].docs[k + i]
        BY <2>2
    <2>6. Tracks(NoView, hs[first - 1], k)
        BY <2>1, <2>3, <2>4, <2>5 DEF Tracks
    <2> QED BY <1>4, <2>6
<1>7. 0 \in T
    <2> SUFFICES ASSUME 0 \in (first - 1)..N PROVE Tracks(vs[0], hs[0], k) /\ Said(0)
        OBVIOUS
    <2>1. first - 1 = 0 /\ first..0 = {}
        BY <1>3
    <2> QED BY <1>6, <2>1
<1>8. ASSUME NEW n \in T PROVE n + 1 \in T
    <2> SUFFICES ASSUME n + 1 \in (first - 1)..N PROVE Tracks(vs[n + 1], hs[n + 1], k) /\ Said(n + 1)
        OBVIOUS
    <2>1. n \in Nat /\ n + 1 \in 1..N /\ (n + 1) - 1 = n
        BY <1>1, <1>3
    <2>2. CASE n + 1 = first - 1
        <3>1. first..(n + 1) = {}
            BY <1>3, <2>1, <2>2
        <3> QED BY <1>6, <2>2, <3>1
    <2>3. CASE n + 1 # first - 1
        <3>1. n \in (first - 1)..N /\ n + 1 \in tail /\ n \in 0..N
            BY <1>1, <1>3, <2>1, <2>3
        <3>2. Tracks(vs[n], hs[n], k) /\ Said(n)
            BY <3>1
        <3> DEFINE e == events[n + 1]
                   v == vs[n]
                   h == hs[n]
        <3>3. vs[n + 1] = ViewApply(v, e) /\ hs[n + 1] = HostApply(h, e)
            BY <1>1, <1>2, <2>1, <3>1
        <3>4. HostSound(h) /\ Proper(e) /\ Lawful(h, e) /\ InItsRun(h, e)
            BY <1>1, <2>1, <3>1
        <3>5. Tracks(v, h, k)
            BY <3>2
        <3> HIDE DEF e, v, h
        <3>6. /\ Tracks(ViewApply(v, e), HostApply(h, e), k)
              /\ Places(ViewApply(v, e).docs, e.nb) = {} => ViewApply(v, e).incomplete
              /\ v.incomplete => ViewApply(v, e).incomplete
              /\ \A id : Places(v.docs, id) # {} => Places(ViewApply(v, e).docs, id) # {}
            BY <1>5, <3>4, <3>5, FollowingStep
        <3>7. Said(n + 1)
            <4> SUFFICES ASSUME NEW m \in first..(n + 1), Places(vs[n + 1].docs, events[m].nb) = {}
                         PROVE  vs[n + 1].incomplete
                OBVIOUS
            <4>1. CASE m = n + 1
                BY <3>3, <3>6, <4>1 DEF e
            <4>2. CASE m # n + 1
                <5>1. m \in first..n
                    BY <1>3, <2>1, <4>2
                <5>2. Places(v.docs, events[m].nb) = {}
                    BY <3>3, <3>6
                <5>3. v.incomplete
                    BY <3>2, <5>1, <5>2 DEF v
                <5> QED BY <3>3, <3>6, <5>3
            <4> QED BY <4>1, <4>2
        <3> QED BY <3>3, <3>6, <3>7
    <2> QED BY <2>2, <2>3
<1>9. T = Nat
    <2>1. T \in SUBSET Nat
        OBVIOUS
    <2> HIDE DEF T
    <2> QED BY <1>7, <1>8, <2>1, SetInduction
<1>10. Tracks(vs[N], hs[N], k) /\ Said(N)
    <2>1. N \in (first - 1)..N /\ N \in T
        BY <1>1, <1>3, <1>9
    <2> QED BY <2>1
<1>11. first = 1 => k = 0
    <2> SUFFICES ASSUME first = 1 PROVE k = 0
        OBVIOUS
    <2>1. first - 1 = 0 /\ NoFold.docs = <<>>
        BY DEF NoFold
    <2> QED BY <1>1, <2>1 DEF k
<1>12. foldNotebooks(events) = hs[N]
    BY DEF foldNotebooks, hs
<1> QED BY <1>5, <1>10, <1>11, <1>12 DEF vs

(* A browser that has the whole log shows the documents of the host, one   *)
(* that has only its end shows none that differs from the host's and says  *)
(* what it cannot show, whatever came in which batch before.               *)
THEOREM ShownDocumentsStayTrue == Spec => []ShownDocumentsAreTrue
<1>1. ReadersInv => ShownDocumentsAreTrue
    <2> SUFFICES ASSUME ReadersInv PROVE ShownDocumentsAreTrue
        OBVIOUS
    <2>1. /\ Foldable(log) /\ folded = foldNotebooks(log) /\ loaded \subseteq 1..Len(log)
          /\ view = ViewStates(log, NoView, loaded)[Len(log)]
        BY DEF ReadersInv
    <2>2. Len(log) \in Nat /\ DOMAIN log = 1..Len(log) /\ HostSound(folded)
        <3>1. \A n \in 0..Len(log) : HostSound(HostStates(log)[n])
            BY <2>1, FoldsAreSound
        <3>2. Len(log) \in Nat /\ DOMAIN log = 1..Len(log)
            BY <2>1, FoldsAreSound
        <3> QED BY <2>1, <3>1, <3>2 DEF foldNotebooks
    <2>3. ASSUME NEW first \in 1..(Len(log) + 1), loaded = first..Len(log)
          PROVE  \E k \in Nat :
                    /\ Tracks(view, folded, k)
                    /\ first = 1 => k = 0
                    /\ \A m \in loaded : Places(view.docs, log[m].nb) = {} => view.incomplete
        <3>1. LET tail == first..Len(log)
                  v == ViewStates(log, NoView, tail)[Len(log)]
              IN  \E k \in Nat :
                     /\ Tracks(v, foldNotebooks(log), k)
                     /\ first = 1 => k = 0
                     /\ \A m \in tail : Places(v.docs, log[m].nb) = {} => v.incomplete
            BY <2>1, TailTracked
        <3> QED BY <2>1, <2>3, <3>1
    <2>4. ASSUME loaded = DOMAIN log
          PROVE  view.docs = folded.docs /\ ~view.incomplete /\ ~view.error
        <3>1. 1 \in 1..(Len(log) + 1) /\ loaded = 1..Len(log)
            BY <2>2, <2>4
        <3>2. PICK k \in Nat : Tracks(view, folded, k) /\ k = 0
            BY <2>3, <3>1
        <3>3. /\ folded.docs \in Seq(Documents) /\ view.docs \in Seq(Documents)
              /\ Len(folded.docs) \in Nat /\ Len(view.docs) \in Nat /\ Len(folded.docs) = k + Len(view.docs)
              /\ \A i \in 1..Len(view.docs) : view.docs[i] = folded.docs[k + i]
            BY <2>2, <3>2, TrackedDocuments
        <3>4. Len(folded.docs) = Len(view.docs) /\ \A i \in 1..Len(view.docs) : view.docs[i] = folded.docs[i]
            BY <3>2, <3>3
        <3> DEFINE a == view.docs
                   b == folded.docs
        <3> HIDE DEF a, b
        <3>5. a = b
            <4>1. a \in Seq(Documents) /\ b \in Seq(Documents)
                BY <3>3 DEF a, b
            <4>2. Len(a) = Len(b) /\ \A i \in 1..Len(a) : a[i] = b[i]
                BY <3>4 DEF a, b
            <4> QED BY <4>1, <4>2
        <3>6. view.docs = folded.docs
            BY <3>5 DEF a, b
        <3> QED BY <3>2, <3>6 DEF Tracks
    <2>5. ASSUME IsTail
          PROVE  /\ \A d \in DOMAIN view.docs : \E h \in DOMAIN folded.docs : view.docs[d] = folded.docs[h]
                 /\ \A n \in loaded : Places(view.docs, log[n].nb) = {} => view.incomplete
                 /\ ~view.error
        <3>1. PICK first \in 1..(Len(log) + 1) : loaded = first..Len(log)
            BY <2>5 DEF IsTail
        <3>2. PICK k \in Nat :
                 /\ Tracks(view, folded, k)
                 /\ \A m \in loaded : Places(view.docs, log[m].nb) = {} => view.incomplete
            BY <2>3, <3>1
        <3>3. /\ DOMAIN view.docs = 1..Len(view.docs) /\ DOMAIN folded.docs = 1..Len(folded.docs)
              /\ \A i \in 1..Len(view.docs) : k + i \in 1..Len(folded.docs) /\ view.docs[i] = folded.docs[k + i]
            BY <2>2, <3>2, TrackedDocuments
        <3> QED BY <3>2, <3>3 DEF Tracks
    <2> QED BY <2>4, <2>5 DEF ShownDocumentsAreTrue, MissingPastIsSaid
<1> QED BY <1>1, SpecReaders, PTL
=============================================================================
