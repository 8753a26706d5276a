SPECIFICATION Spec
CONSTANTS
    Plan <- Plans
    Location <- MCLocation
    Method = {"GET", "HEAD", "POST"}
    MaxFaults = 2
    Unset = Unset
    Sidecar = {s1, s2}
    Endpoint <- MCEndpoint
INVARIANT TypeOK
 
 
INVARIANT NoOverrun
 
 
PROPERTY Converges
