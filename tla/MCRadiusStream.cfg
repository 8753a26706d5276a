SPECIFICATION Spec
CONSTANTS
    Area = 1
    HeaderLen = 4
    VendorLen = 1
    VendorSpecific = 5
    MaxAttrs = 3
    BufferSize = 10
    MaxPacket = 12
    Scenario <- AllSessions
INVARIANT StreamRecorded
