SPECIFICATION InboxFairSpec
CONSTANTS
    Total = 3
    Target = 1
    MaxDelete = 5
    UrcCap = 2
    Cleaners = {k1, k2}
    MaxMsg = 4
    MaxFault = 1
    MaxTaken = 1
PROPERTIES
    RoomAlways
