SPECIFICATION FairSpec
CONSTANTS
    QueueSize = 2
    HeapSize = 3
    DefaultMask <- BLE
    Faults <- HandledFaults
    CloudReset = TRUE
    MaxStimuli = 4
    MaxReboots = 1
CHECK_DEADLOCK FALSE
INVARIANTS
    ContextsOwned
    HandleIffUp
    WorkIsScheduled
    RestartsOnSameLinks
PROPERTIES
    StatusNeverRegresses
    StatusApplied
