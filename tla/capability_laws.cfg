SPECIFICATION Spec
CONSTANTS
    Strings <- MCStrings
    Base <- MCBase
INVARIANTS
    CeilingAsWritten
    GateComposesWithPolicy
    PagedIsConcrete
CHECK_DEADLOCK FALSE
