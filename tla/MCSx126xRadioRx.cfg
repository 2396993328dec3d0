SPECIFICATION FairSpec
CONSTANTS
    Tcxo = FALSE
    Faults = {}
    MaxFailures = 0
    Caller = {}

PROPERTIES RxReported
