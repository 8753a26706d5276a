SPECIFICATION Spec
CONSTANTS
    Fuzz = 5
    MaxName = 6
    MaxRdata = 6
    MaxRecords = 2
    MaxJumps = 2
    DefaultSize = 4096
    IpsSize = 22
    JsonSize = 100
    Unset = Unset
    Broken = Broken
    Talk <- AllTalk
INVARIANT TypeOK
INVARIANT InBuffer
INVARIANT RequestRight
INVARIANT ResponseRight
INVARIANT NearestLevelCounts
 
INVARIANT ListsFit
PROPERTY ParsedOnce
PROPERTY CallEnds
