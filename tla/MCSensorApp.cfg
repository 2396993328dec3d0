SPECIFICATION FairSpec
CONSTANTS
    Buttons = {"b1", "b2"}
    Leds = {"l1"}
    Links = {"BLE"}
    TxQueueSize = 1
    RxQueueSize = 1
    SidQueueSize = 1
    MaxStimuli = 3
    MaxFailures = 1
INVARIANTS NoPressForgotten UplinksSound
PROPERTY PressesReported
