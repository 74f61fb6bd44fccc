-------------------------- MODULE ChainTerminator --------------------------
(***************************************************************************)
(* The handler chain of Chain.tla with the terminator's registration in   *)
(* it.  A router writes the session's context value "backend"; the        *)
(* terminator's OnConnect reads it, stores DCID -> backend in its registry *)
(* and overwrites "backend" with the internal listener's address; the      *)
(* forwarder then relays the client's datagrams there, and the internal   *)
(* listener takes the registration when it accepts the connection.  The   *)
(* terminator's OnDisconnect deletes the DCID's registration.              *)
(*                                                                         *)
(* Two implementations of the "terminator" type exist: terminator.go,      *)
(* which keeps the registry itself (a sync.Map), and terminator_handler.go,*)
(* which delegates to the quic-terminator library (not under src/).        *)
(***************************************************************************)
EXTENDS Chain

CONSTANTS
    Routers,         \* handler types that set "backend" or drop
    Terminators,     \* handler types built by terminator.go
    LibTerminators,  \* handler types built by terminator_handler.go
    Forwarders,      \* handler types that relay to "backend" and handle
    Backends,        \* backend addresses a router may choose
    InternalAddr,    \* the internal listener's address
    NoBackend,       \* GetString("backend") = "", or no registration
    DCIDs,           \* connection IDs of clients' Initial packets
    DCIDOf,          \* DCIDOf[c]: what parseQUICDCID finds, or NoDCID
    NoDCID,          \* parseQUICDCID returned ""
    NotYet,          \* the internal listener has not accepted c
    Refused          \* the internal connection was closed with 0x01

Composed == Routers \cup Terminators \cup LibTerminators \cup Forwarders

VARIABLES
    backendCtx,      \* backendCtx[c]: ctx "backend" of session c
    registry,        \* registry[d]: the backend registered for DCID d
    routed,          \* routed[c]: the backend c's router chose (history)
    relayed,         \* relayed[c]: the forwarder relays c to "backend"
    correlated       \* correlated[c]: the internal accept's outcome for c

termVars == <<backendCtx, registry, routed, relayed, correlated>>
allVars == <<vars, termVars>>

NextHandler(c) == IF chain # NoChain /\ idx[c] < Len(chain) THEN chain[idx[c] + 1] ELSE NoChain

CTInit ==
    /\ Init
    /\ backendCtx = [c \in Conns |-> NoBackend]
    /\ registry = [d \in DCIDs |-> NoBackend]
    /\ routed = [c \in Conns |-> NoBackend]
    /\ relayed = [c \in Conns |-> FALSE]
    /\ correlated = [c \in Conns |-> NotYet]

\* A step of Chain that no composed handler takes part in.
ChainOnly(A) == A /\ UNCHANGED termVars

\* The factories that may reject their configuration: terminator.go's
\* NewTerminatorHandler (bad JSON, certificate or listen address) and
\* terminator_handler.go's (bad JSON, or terminator.New failing).
TerminatorFactoriesMayFail == Terminators \cup LibTerminators

-----------------------------------------------------------------------------
(* The registry: h.backends of terminator.go, or the library's one        *)

\* h.backends.Store(dcid, backend): a later Store overwrites.
Store(d, b) == registry' = [registry EXCEPT ![d] = b]

\* term.RegisterBackend: insert-once (spec.md 7, "one-shot DCID registry").
RegisterBackend(d, b) ==
    registry' = [registry EXCEPT ![d] = IF @ = NoBackend THEN b ELSE @]

\* How a terminator of type t registers: terminator.go stores,
\* terminator_handler.go calls the library.
Register(t, d, b) == IF t \in Terminators THEN Store(d, b) ELSE RegisterBackend(d, b)

\* h.backends.Delete(dcid) and term.UnregisterBackend(dcid).
Unregister(d) == registry' = [registry EXCEPT ![d] = NoBackend]

-----------------------------------------------------------------------------
(* The handlers' OnConnect                                                  *)

\* A router finds a backend for the SNI and sets "backend", or drops an
\* unknown SNI (spec.md 4.6).
RouterConnect(c) ==
    /\ stage[c] = "connect" /\ NextHandler(c) \in Routers
    /\ Record(c, "connect")
    /\ \/ \E b \in Backends :
             /\ backendCtx' = [backendCtx EXCEPT ![c] = b]
             /\ routed' = [routed EXCEPT ![c] = b]
             /\ idx' = [idx EXCEPT ![c] = @ + 1]
             /\ UNCHANGED stage
       \/ /\ Return(c, "disconnect")
          /\ UNCHANGED <<backendCtx, routed>>
    /\ UNCHANGED <<chain, npk, registry, relayed, correlated>>

\* A mutation of TermConnect: "backend" is redirected before the
\* registration, so the registry receives the internal address.
TermConnectRedirectFirst(c) ==
    /\ stage[c] = "connect"
    /\ Record(c, "connect")
    /\ IF backendCtx[c] = NoBackend \/ DCIDOf[c] = NoDCID
       THEN /\ Return(c, "disconnect")
            /\ UNCHANGED <<backendCtx, registry>>
       ELSE /\ Register(NextHandler(c), DCIDOf[c], InternalAddr)
            /\ backendCtx' = [backendCtx EXCEPT ![c] = InternalAddr]
            /\ idx' = [idx EXCEPT ![c] = @ + 1]
            /\ UNCHANGED stage
    /\ UNCHANGED <<chain, npk, routed, relayed, correlated>>

\* OnConnect of either terminator: Drop without a backend or a DCID;
\* otherwise register DCID -> backend, set "backend" to the internal
\* address and continue.
TermConnect(c) ==
    /\ stage[c] = "connect"
    /\ Record(c, "connect")
    /\ IF backendCtx[c] = NoBackend \/ DCIDOf[c] = NoDCID
       THEN /\ Return(c, "disconnect")
            /\ UNCHANGED <<backendCtx, registry>>
       ELSE /\ Register(NextHandler(c), DCIDOf[c], backendCtx[c])
            /\ backendCtx' = [backendCtx EXCEPT ![c] = InternalAddr]
            /\ idx' = [idx EXCEPT ![c] = @ + 1]
            /\ UNCHANGED stage
    /\ UNCHANGED <<chain, npk, routed, relayed, correlated>>

\* TerminatorHandler.OnConnect of terminator.go and of terminator_handler.go.
TerminatorConnect(c) == NextHandler(c) \in Terminators /\ TermConnect(c)
LibTerminatorConnect(c) == NextHandler(c) \in LibTerminators /\ TermConnect(c)

\* OnPacket of either terminator: the forwarder relays, so it continues.
TerminatorPacketResults == {"Continue"}

\* The forwarder starts relaying to "backend" and handles the session.
ForwarderConnect(c) ==
    /\ stage[c] = "connect" /\ NextHandler(c) \in Forwarders
    /\ Record(c, "connect")
    /\ Return(c, "open")
    /\ relayed' = [relayed EXCEPT ![c] = TRUE]
    /\ UNCHANGED <<chain, npk, backendCtx, registry, routed, correlated>>

-----------------------------------------------------------------------------
(* The terminators' OnDisconnect and the internal accept                   *)

\* A mutation of TermDisconnect: the registration is left in place.
TermDisconnectNoCleanup(c) ==
    /\ stage[c] = "disconnect"
    /\ Record(c, "disconnect")
    /\ idx' = [idx EXCEPT ![c] = @ + 1]
    /\ UNCHANGED <<chain, stage, npk, termVars>>

\* OnDisconnect of either terminator: delete the DCID's registration,
\* whether or not this session stored one.
TermDisconnect(c) ==
    /\ stage[c] = "disconnect"
    /\ Record(c, "disconnect")
    /\ idx' = [idx EXCEPT ![c] = @ + 1]
    /\ IF DCIDOf[c] # NoDCID THEN Unregister(DCIDOf[c]) ELSE UNCHANGED registry
    /\ UNCHANGED <<chain, stage, npk, backendCtx, routed, relayed, correlated>>

TerminatorDisconnect(c) == NextHandler(c) \in Terminators /\ TermDisconnect(c)
LibTerminatorDisconnect(c) == NextHandler(c) \in LibTerminators /\ TermDisconnect(c)

\* A mutation of Correlate: the registration is loaded but not deleted.
CorrelateKeeps(c) ==
    /\ relayed[c] /\ backendCtx[c] = InternalAddr
    /\ correlated[c] = NotYet
    /\ correlated' = [correlated EXCEPT ![c] =
                        IF registry[DCIDOf[c]] = NoBackend THEN Refused
                        ELSE registry[DCIDOf[c]]]
    /\ UNCHANGED <<vars, backendCtx, registry, routed, relayed>>

\* The internal listener accepts the connection the forwarder relayed to
\* it, loads the registration of the connection's DCID (0x01 if there is
\* none) and deletes it.  It may come after the outer session has ended.
Correlate(c) ==
    /\ relayed[c] /\ backendCtx[c] = InternalAddr
    /\ correlated[c] = NotYet
    /\ correlated' = [correlated EXCEPT ![c] =
                        IF registry[DCIDOf[c]] = NoBackend THEN Refused
                        ELSE registry[DCIDOf[c]]]
    /\ Unregister(DCIDOf[c])
    /\ UNCHANGED <<vars, backendCtx, routed, relayed>>

CTChainStep(c) ==
    \/ RouterConnect(c) \/ TerminatorConnect(c) \/ LibTerminatorConnect(c)
    \/ ForwarderConnect(c)
    \/ TerminatorDisconnect(c) \/ LibTerminatorDisconnect(c)
    \/ ChainOnly(NextHandler(c) \notin Composed /\ ConnectStep(c))
    \/ ChainOnly(NextHandler(c) \notin Terminators \cup LibTerminators /\ DisconnectStep(c))
    \/ ChainOnly(PacketStep(c) \/ HookExhausted(c, "connect")
                 \/ HookExhausted(c, "packet") \/ DisconnectEnd(c))

CTNext ==
    \E c \in Conns :
        \/ ChainOnly(Arrive(c) \/ PacketArrive(c) \/ Expire(c))
        \/ CTChainStep(c)
        \/ Correlate(c)

\* The chain's steps and idle expiry are fair as in Chain; the client may
\* never open its internal connection, so Correlate is not.
CTSpec ==
    /\ CTInit /\ [][CTNext]_allVars
    /\ \A c \in Conns : WF_allVars(CTChainStep(c)) /\ WF_allVars(ChainOnly(Expire(c)))

-----------------------------------------------------------------------------
(* Properties                                                              *)

TermTypeOK ==
    /\ backendCtx \in [Conns -> Backends \cup {NoBackend, InternalAddr}]
    /\ registry \in [DCIDs -> Backends \cup {NoBackend}]
    /\ routed \in [Conns -> Backends \cup {NoBackend}]
    /\ relayed \in [Conns -> BOOLEAN]
    /\ correlated \in [Conns -> Backends \cup {NotYet, Refused}]

\* The chain has called a terminator's OnDisconnect for session c.
TermDisconnected(c) ==
    \E i \in DOMAIN trace[c] :
        /\ trace[c][i][1] = "disconnect"
        /\ chain[trace[c][i][2]] \in Terminators \cup LibTerminators

\* The registry holds exactly the registrations of live sessions (spec.md
\* 3: it "never retains an entry after the corresponding client either
\* completes correlation or disconnects"): the DCID of a session that the
\* terminator's OnConnect redirected maps to the backend its router chose
\* until the internal accept takes it or the terminator's OnDisconnect
\* runs, and to nothing otherwise.
RegistryExact ==
    \A c \in Conns : DCIDOf[c] # NoDCID =>
        registry[DCIDOf[c]] =
            IF /\ backendCtx[c] = InternalAddr
               /\ correlated[c] = NotYet
               /\ ~TermDisconnected(c)
            THEN routed[c] ELSE NoBackend

\* Every registration is eventually removed: by the internal accept or by
\* the OnDisconnect that idle expiry guarantees.
RegistryReleased ==
    \A d \in DCIDs : registry[d] # NoBackend ~> registry[d] = NoBackend

=============================================================================
