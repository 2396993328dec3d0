SPECIFICATION Spec
CONSTANTS
    Factory <- FactoryImages
    Types <- AllTypes
    Keys <- PrivateKeys
    Table <- OffsetTable
    Flags = "flags"
    Empty = "empty"
    NewTypes <- Diagnostic
    Align = 2
    Base = 4
    End = 18
    MaxElement = 3
    Reading <- Words
    Faults <- AllFaults
    MaxResets = 2
    MaxFaults = 1
    MaxWrites = 2
INVARIANTS
    KeysNotLost
    ReadyMeansComplete
    ConvertedOnce
CHECK_DEADLOCK FALSE
