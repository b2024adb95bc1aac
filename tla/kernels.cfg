SPECIFICATION FairSpec
CONSTANTS
    Calls = {c1, c2}
    First = first
    NoKernel = none
    Kinds = {"run", "inspect", "restart", "attach"}
    Policies = {p, q}
    MaxEvents = 1
    Faults = {"reload", "deleted", "session", "backend", "stuck"}
INVARIANTS LiveKernelIsUsable KernelsAreAccountedFor RunsDoNotOverlap
PROPERTIES GenerationsAreKernels CallsSettle
CHECK_DEADLOCK FALSE
