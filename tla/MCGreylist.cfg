SPECIFICATION Spec
CONSTANTS
    c1 = c1
    c2 = c2
    w1 = w1
    w2 = w2
    Worker = {w1, w2}
    Client = {c1, c2}
    Subject = {"login", "other"}
    Config <- MCConfig
    Capacity = 2
    WallOffset = 0
    Word = 100000000
    Tick = 500
    MaxClock = 2500
    MaxExcess = 3000
SYMMETRY Symmetry
INVARIANT TypeOK
INVARIANT ZoneConsistent
PROPERTY ImplementsPenaltyBox
