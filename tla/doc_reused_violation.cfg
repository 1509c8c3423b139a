\* Two run()s of one Executor, the first one denied.
SPECIFICATION Spec
CONSTANTS
    None = None
    p1 = p1
    p2 = p2
    Providers <- NoProviders
    Declarations <- MCDeclarations
    MaxRegistrations = 0
    Configs <- ReuseConfigs
    Requests <- MCRequests
    HandlerStates <- DoneOrFailed
    RetainClosures = FALSE
    MaxSteps = 4
    MaxRuns = 2
    MaxCalls = 2
INVARIANT ViolationBelongsToRun
CHECK_DEADLOCK FALSE
