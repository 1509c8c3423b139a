\* One run() of a fresh Executor without a registry, over every program.
SPECIFICATION FairSpec
CONSTANTS
    None = None
    p1 = p1
    p2 = p2
    Providers <- NoProviders
    Declarations <- MCDeclarations
    MaxRegistrations = 0
    Configs <- StubConfigs
    Requests <- MCRequests
    HandlerStates <- DoneOrFailed
    RetainClosures = FALSE
    MaxSteps = 4
    MaxRuns = 1
    MaxCalls = 2
INVARIANTS
    TypeOK
    PolicyCeiling
    DenialEndsRun
    DeniedHasEvidence
    TelemetryExplainsPath
PROPERTIES
    ImplementsLifecycle
CHECK_DEADLOCK FALSE
