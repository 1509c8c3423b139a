SPECIFICATION Spec
CONSTANTS
    Strings <- MCStrings
    Base <- MCBase
INVARIANTS
    EveryComparatorCounts
CHECK_DEADLOCK FALSE
