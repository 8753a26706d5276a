SPECIFICATION Spec
CONSTANTS
    Fuzz = 0
    MaxName = 6
    MaxRdata = 6
    MaxRecords = 2
    MaxJumps = 2
    DefaultSize = 4096
    IpsSize = 22
    JsonSize = 100
    Unset = Unset
    Broken = Broken
    Talk <- StreamTalk
INVARIANT StreamRight
