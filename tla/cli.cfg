\* Every procedure, compiled and checked under policies that change.
SPECIFICATION Spec
CONSTANTS
    None = None
    Documents <- MCDocuments
    PolicyFiles <- MCPolicyFiles
    EditedIrs <- MCEditedIrs
INVARIANTS
    CheckIsSound
    CheckFindsNarrowing
    EveryWayLeadsToAStep
    NothingIsLost
