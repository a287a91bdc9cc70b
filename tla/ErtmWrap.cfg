SPECIFICATION Spec
CONSTANTS
    a = a
    b = b
    Peers = {a, b}
    SduChoices <- Lap
    FirstSeqs = {63}
    remote_tx_window_ = 1
    local_max_transmit_ = 1
    MaxFaults = 0
INVARIANTS
    Reliable
CHECK_DEADLOCK FALSE
