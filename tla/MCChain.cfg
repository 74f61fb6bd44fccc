\* Three sessions over each chain the configurations build, two packets
\* each; two distinct DCIDs and a session without one; two backends.
CONSTANTS
    example = example
    logsni = logsni
    router = router
    terminator = terminator
    libterminator = libterminator
    forwarder = forwarder
    bogus = bogus
    c1 = c1
    c2 = c2
    c3 = c3
    d1 = d1
    d2 = d2
    Types <- MCTypes
    Registered <- MCRegistered
    MayFail <- MCMayFail
    Configs <- MCConfigs
    ConnectResults <- MCConnectResults
    PacketResults <- MCPacketResults
    Conns = {c1, c2, c3}
    MaxLen = 4
    MaxPackets = 1
    NoChain = NoChain
    Routers <- MCRouters
    Terminators <- MCTerminators
    LibTerminators <- MCLibTerminators
    Forwarders <- MCForwarders
    Backends = {b1}
    InternalAddr = InternalAddr
    NoBackend = NoBackend
    DCIDs <- MCDCIDs
    DCIDOf <- MCDCIDOf
    NoDCID = NoDCID
    NotYet = NotYet
    Refused = Refused

SPECIFICATION CTSpec

INVARIANT TypeOK
INVARIANT TermTypeOK
INVARIANT RegistryExact
PROPERTY ChainRefines
PROPERTY RegistryReleased

\* Every session ends closed, and a proxy whose chain failed to build
\* serves nothing.
CHECK_DEADLOCK FALSE
