SPECIFICATION DfuFairSpec
CONSTANTS
    Faults <- HostFaults
    MaxPresses = 4
    MaxUploads = 1
    MaxFailed = 1
INVARIANTS
    HostFollowsUsers
PROPERTY
    DfuModeEnds
