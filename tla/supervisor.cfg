SPECIFICATION FairSpec
CONSTANTS
    Runs = {r1, r2}
    Start = Start
    Shutdown = Shutdown
    Nobody = Nobody
    MaxOutput = 1
    Faults = {"crash", "garbage", "limit", "stuck"}
INVARIANTS AnsweredRunsAreOver ResultsAreTheRunsOwn ThrownCallsAreJoined RunsDoNotCutTheShutdown
PROPERTIES CallsEnd
CHECK_DEADLOCK FALSE
