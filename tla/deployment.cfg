\* Compiled programs, run without a policy, with theirs and with a narrower one.
SPECIFICATION Spec
CONSTANTS
    None = None
    p1 = p1
    p2 = p2
    Providers <- NoProviders
    Declarations <- MCDeclarations
    MaxRegistrations = 0
    Configs <- MCDeployments
    Requests <- MCRequests
    HandlerStates <- StepStates
    RetainClosures = FALSE
    MaxSteps = 4
    MaxRuns = 1
    MaxCalls = 2
INVARIANTS
    CompiledCeiling
    CompiledProgramsRun
CHECK_DEADLOCK FALSE
