SPECIFICATION Spec
CONSTANTS
    a = a
    b = b
    Peers = {a, b}
    SduChoices <- Traffic
    FirstSeqs = {0}
    remote_tx_window_ = 2
    local_max_transmit_ = 2
    MaxFaults = 4
INVARIANTS
    InOrder
    WindowsAgree
    NoProtocolError
    NotifyOnEmptyOnce
    NeverStuck
CHECK_DEADLOCK FALSE
