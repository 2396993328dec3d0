SPECIFICATION FairSpec
CONSTANTS
    Tcxo = FALSE
    Faults = {"configure", "set_cad", "pkt_type", "stop_timer", "set_rx", "set_duty_cycle", "set_tx_continuous", "read_packet"}
    MaxFailures = 1
    Caller = {}
INVARIANTS TxOnlyWhenAsked ChipTracked NoInterruptLost
PROPERTIES OperationsReported
