SPECIFICATION FairSpec
CONSTANTS
    MaxSets = 2
    Params <- AllParams
    Faults <- StartFaults
    MayOverlap <- Synchronised
    MaxData = 2
INVARIANTS
    SetsTracked
    AirMatchesState
PROPERTY
    FastIsLimited
