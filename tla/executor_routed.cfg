\* Calls routed to providers that register late and change what they declare.
SPECIFICATION Spec
CONSTANTS
    None = None
    p1 = p1
    p2 = p2
    Providers <- TwoProviders
    Declarations <- MCDeclarations
    MaxRegistrations = 2
    Configs <- RoutedConfigs
    Requests <- MCRequests
    HandlerStates <- StepStates
    RetainClosures = FALSE
    MaxSteps = 2
    MaxRuns = 1
    MaxCalls = 1
INVARIANTS
    LastRegistrationWins
PROPERTIES
    ProviderScope
CHECK_DEADLOCK FALSE
