\* Every short file, through "compile --check" of the snapshot.
SPECIFICATION Spec
CONSTANTS
    Calls <- MCCalls
INVARIANTS
    ExitZeroIffWiderGrammar
    AcceptedIsWhole
    DiagnosticsAreExact
    PointsIntoTheFile
CHECK_DEADLOCK FALSE
