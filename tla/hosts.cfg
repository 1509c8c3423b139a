\* The programs around the executor, killed and started again.
SPECIFICATION FairHostSpec
CONSTANTS
    None = None
    sqlite = sqlite
    Providers <- MCProviders
    Declarations <- MCDeclarations
    MaxRegistrations = 1
    Configs <- MCHostConfigs
    Requests <- MCRequests
    HandlerStates = {"DONE", "FAILED"}
    RetainClosures = FALSE
    MaxSteps = 12
    MaxRuns = 1
    MaxCalls = 2
    DemoSop <- OrderProcessing
    DemoPolicy <- OrderPolicy
    Decisions <- MCDecisions
    MaxSessions = 2
INVARIANTS
    TableTellsTheRun
    SeededOnce
    DemoWritesOrRejects
    ExitTellsTheRun
    LimitOnlyAfterIterations
PROPERTIES
    ChangesAreGranted
    HostEnds
CHECK_DEADLOCK FALSE
