SPECIFICATION Spec
CONSTANTS
    Senders = {s1, s2}
    NoSender = NoSender
    MaxSend = 2
    MaxLink = 1
    MaxNoise = 2
    MaxLines = 2
    UrcCap = 1
SYMMETRY SenderSymmetry
INVARIANTS
    ChannelInv
    Aligned
    OkHasFinal
    LongCountMatches
CHECK_DEADLOCK FALSE
