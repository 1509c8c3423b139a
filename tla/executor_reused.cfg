\* Three run()s of one Executor whose handler keeps closures and returns any state.
SPECIFICATION FairSpec
CONSTANTS
    None = None
    p1 = p1
    p2 = p2
    Providers <- NoProviders
    Declarations <- MCDeclarations
    MaxRegistrations = 0
    Configs <- ReuseConfigs
    Requests <- MCRequests
    HandlerStates <- StepStates
    RetainClosures = TRUE
    MaxSteps = 3
    MaxRuns = 3
    MaxCalls = 1
INVARIANTS
    PolicyCeiling
    StepBudget
PROPERTIES
    Termination
CHECK_DEADLOCK FALSE
