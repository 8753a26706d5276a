SPECIFICATION RateSpec
CONSTANTS
    c1 = c1
    c2 = c2
    w1 = w1
    w2 = w2
    Worker = {w1}
    Client = {c1, c2}
    Subject = {"login"}
    Config <- MCConfig
    Capacity = 4
    WallOffset = 100000
    Word = 100000000
    Tick = 500
    MaxClock = 5000
    MaxExcess = 3000
PROPERTY IndependentBuckets
