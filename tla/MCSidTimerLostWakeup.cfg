SPECIFICATION Spec
CONSTANTS
    t1 = t1
    t2 = t2
    t3 = t3
    Timers <- TwoTimers
    NoTimer = NoTimer
    ClientRequests <- PeriodicTimer
    CallbackRequests <- LowPowerTimer
    LowPowerTolerance = 1
    MaxTime = 2
    Preemption = TRUE
INVARIANT
    HeadCovered
CHECK_DEADLOCK FALSE
