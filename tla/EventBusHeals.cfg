SPECIFICATION Spec
CONSTANTS
    p1 = p1
    p2 = p2
    Pages = {p1, p2}
    Cap = 2
    Size <- BytesOf
    Budget = 2
    MaxSeq = 3
    MaxFlight <- Flights
    MaxTrouble = 1
INVARIANT CursorHeals
