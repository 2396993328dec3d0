SPECIFICATION FairSpec
CONSTANTS
    f1 = f1
    f2 = f2
    Files <- TwoFiles
    UNUSED = UNUSED
    Chunks = 2
    MaxParallel = 2
    QueueSize = 2
    Liberties <- AllLiberties
    Faults <- AllFaults
    MaxRequests = 2
    MaxFaults = 1
    MaxLinkSwitches = 1
INVARIANTS
    ImageIsOneFile
    SuccessIsInstalled
    SlotsMatchTransfers
PROPERTY
    BuffersReturned
