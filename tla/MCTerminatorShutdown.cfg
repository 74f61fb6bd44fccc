CONSTANTS
    c1 = c1
    c2 = c2
    d1 = d1
    d2 = d2
    s1 = s1
    s2 = s2
    Clients <- MCOneClient
    Ports = {p1}
    Backends = {b1}
    DCIDOf <- MCOneDCIDOf
    SCIDOf <- MCOneSCIDOf
    InternalAddr = InternalAddr
    NoBackend = NoBackend
    NoCID = NoCID
    NoPort = NoPort

SPECIFICATION Spec

PROPERTY ShutdownTerminates

\* Once the client has gone and Shutdown has finished, nothing is left to do.
CHECK_DEADLOCK FALSE
