SPECIFICATION Spec
CONSTANTS
    Senders = {s1, s2}
    NoSender = NoSender
    MaxSend = 2
    MaxLink = 1
    MaxNoise = 0
    MaxLines = 2
    UrcCap = 1
SYMMETRY SenderSymmetry
INVARIANT
    NoForeignAnswer
CHECK_DEADLOCK FALSE
