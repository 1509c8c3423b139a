\* Two runs log three events each; any write may fail.
SPECIFICATION Spec
CONSTANTS
    r1 = r1
    r2 = r2
    RunIds <- TwoRuns
    MaxEvents = 3
INVARIANTS
    TraceTellsTheTruth
    CleanTraceIsComplete
    DamageIsBounded
PROPERTIES
    LogIsAppendOnly
