SPECIFICATION LrFairSpec
INVARIANTS
    RadioReturned
PROPERTIES
    ScanUndisturbed
    OperationsReported
