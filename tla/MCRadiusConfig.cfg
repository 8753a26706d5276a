SPECIFICATION ConfigSpec
CONSTANTS
    Area = 6
    HeaderLen = 4
    VendorLen = 1
    VendorSpecific = 5
    MaxAttrs = 3
    BufferSize = 10
    MaxPacket = 12
    FileLen = 3
    Scenario <- Sessions
    Case <- Cases
    Builtin <- Builtins
    Small <- Capitals
    Number <- Numbers
    VarSize = 4
    VendorIds = 256
    Null = Null
INVARIANT TypeOK
INVARIANT InsidePacket
INVARIANT ParsedRight
INVARIANT RequestIsWhole
INVARIANT DatagramNeverWaits
INVARIANT DatagramRecorded
INVARIANT ConfigTypeOK
INVARIANT VsaRight
INVARIANT DecodedRight
INVARIANT RefusedRight
PROPERTY ParseReturns
