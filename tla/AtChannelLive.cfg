SPECIFICATION LiveSpec
CONSTANTS
    Senders = {s1, s2}
    NoSender = NoSender
    MaxSend = 2
    MaxLink = 2
    MaxNoise = 0
    MaxLines = 2
    UrcCap = 1
INVARIANTS
    NoLostWakeup
    ConnectedImpliesConn
PROPERTIES
    EveryCallReturns
    Reconnects
    ImplementsCalls
CHECK_DEADLOCK FALSE
