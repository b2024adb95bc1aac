SPECIFICATION Spec
CONSTANTS
    o1 = o1
    o2 = o2
    o3 = o3
    m1 = m1
    m2 = m2
    m3 = m3
    Ops = {o1, o2, o3}
    Managers = {m1, m2}
    ManagerOf <- Shared
    Old = old
    User = user
    NoDir = nodir
    NoOp = noop
    Faults = {"crash", "user", "fail"}
INVARIANTS ProvisioningIsExclusive EnvironmentSurvives UserDirectoryIsLeftAlone
PROPERTIES SuccessLeavesNoStaging
CHECK_DEADLOCK FALSE
