------------------------- MODULE KernelGenerations -------------------------
(***************************************************************************)
(* What a notebook promises about its kernels: a generation is one kernel, *)
(* started for it and never used before; generations advance by one; a     *)
(* kernel that is no longer the current one never becomes it again.        *)
(***************************************************************************)
EXTENDS Naturals

CONSTANTS Kernels, NoKernel

VARIABLES current, generation, past

Init ==
    /\ current \in Kernels \cup {NoKernel}
    /\ generation = IF current = NoKernel THEN 0 ELSE 1
    /\ past = {}

Publish(k) ==
    /\ k # current /\ k \notin past
    /\ current' = k
    /\ generation' = generation + 1
    /\ past' = past \cup ({current} \ {NoKernel})

Retire ==
    /\ current # NoKernel
    /\ current' = NoKernel
    /\ past' = past \cup {current}
    /\ UNCHANGED generation

Next == Retire \/ \E k \in Kernels : Publish(k)

Spec == Init /\ [][Next]_<<current, generation, past>>
=============================================================================
