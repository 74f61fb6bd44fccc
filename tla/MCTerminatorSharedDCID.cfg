CONSTANTS
    c1 = c1
    c2 = c2
    d1 = d1
    d2 = d2
    s1 = s1
    s2 = s2
    Clients <- MCClients
    Ports = {p1, p2}
    Backends = {b1, b2}
    DCIDOf <- MCSharedDCIDOf
    SCIDOf <- MCSCIDOf
    InternalAddr = InternalAddr
    NoBackend = NoBackend
    NoCID = NoCID
    NoPort = NoPort

SPECIFICATION Spec

INVARIANT NoMisroute

\* After every client has gone the proxy only waits for new datagrams.
CHECK_DEADLOCK FALSE
