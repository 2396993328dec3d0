SPECIFICATION FairSpec
CONSTANTS
    t1 = t1
    t2 = t2
    t3 = t3
    Timers <- ThreeTimers
    NoTimer = NoTimer
    ClientRequests <- PeriodicTimer
    CallbackRequests <- SharedTimers
    LowPowerTolerance = 1
    MaxTime = 2
    Preemption = FALSE
INVARIANTS
    TypeOK
    ListSorted
    NoDoubleLink
    HeadCovered
    DisarmedStaysDisarmed
    WithinTolerance
PROPERTIES
    DueTimersFire
    ImplementsService
CHECK_DEADLOCK FALSE
