SPECIFICATION ListSpec
CONSTANTS
    s1 = s1
    s2 = s2
    w1 = w1
    w2 = w2
    Service = {s1, s2}
    Worker = {w1, w2}
    Cleaner = w1
    TTL = 1
    Stall = 1
    MaxClock = 4
    MaxCrashes = 1
INVARIANT TypeOK
 
 
 
 
