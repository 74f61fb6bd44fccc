----------------------------- MODULE Terminator -----------------------------
(***************************************************************************)
(* The terminator handler of HyProxy (src/internal/handler/terminator.go)  *)
(* together with the dcidTracker that wraps its internal UDP socket        *)
(* (src/unnamed/part_002).                                                 *)
(*                                                                         *)
(* A client's first Initial reaches the public demultiplexer, which runs   *)
(* the handler chain: the router picks a backend, the terminator's         *)
(* OnConnect stores  DCID -> backend  in the `backends` sync.Map and       *)
(* redirects the session to the internal listener, and the forwarder       *)
(* opens a UDP socket (an ephemeral local port) towards that listener.     *)
(* The internal QUIC stack reads the relayed datagrams through the         *)
(* tracker, which latches the first DCID it sees per remote address.       *)
(* When the handshake completes, acceptLoop starts handleConnection, which *)
(* correlates  remote address -> DCID -> backend, deletes both entries,    *)
(* dials the backend and bridges.  OnDisconnect deletes the registration   *)
(* when the outer session ends.                                            *)
(*                                                                         *)
(* Each client makes one connection.  Ports are the forwarder sockets'     *)
(* local addresses as the internal listener sees them; a port is free      *)
(* again once its outer session has ended, so the operating system may    *)
(* hand it to a later session.                                             *)
(***************************************************************************)
EXTENDS FiniteSets, Functions

CONSTANTS
    Clients,      \* clients, one connection each
    Ports,        \* local addresses of forwarder sockets
    Backends,     \* backend addresses a router may choose
    DCIDOf,       \* DCIDOf[c]: the DCID of c's first Initial (client-chosen)
    SCIDOf,       \* SCIDOf[c]: the CID the internal server gives c's connection
    InternalAddr, \* h.internalAddr, the address OnConnect redirects to
    NoBackend, NoCID, NoPort

CIDs == Range(DCIDOf) \cup Range(SCIDOf)

ASSUME DCIDOf \in [Clients -> CIDs] /\ SCIDOf \in [Clients -> CIDs]
ASSUME InternalAddr \notin Backends

VARIABLES
    csess,      \* outer demux session of each client: "new", "live", "gone"
    want,       \* backend the router chose for the client
    fport,      \* local port of the client's forwarder socket
    backends,   \* h.backends: DCID -> backend address
    byAddr,     \* tracker.byAddr: remote address -> first DCID seen
    iconn,      \* client side of the internal QUIC connection, as the server holds it
    confirmed,  \* client has seen HANDSHAKE_DONE and sends short headers only
    hc,         \* program counter of handleConnection for the client's connection
    hdcid,      \* handleConnection's local dcid
    hbackend,   \* handleConnection's local backend
    srv,        \* serverConn, the QUIC connection to the backend
    sessions,   \* h.sessions: clients whose bridge session is stored
    outcome,    \* how handleConnection ended (close code / log line)
    phase,      \* Shutdown progress
    acceptLoop  \* the acceptLoop goroutine is running

vars == <<csess, want, fport, backends, byAddr, iconn, confirmed, hc, hdcid,
          hbackend, srv, sessions, outcome, phase, acceptLoop>>

HcStates == {"idle", "getdcid", "load", "cleanup", "dial", "check", "bridge", "done"}
Outcomes == {"none", "no_dcid", "no_backend", "dial_failed", "client_gone", "bridged"}
Phases   == {"running", "cancelled", "listener_closed", "transport_closed",
             "sessions_closed", "stopped", "abandoned"}

LivePorts == {fport[c] : c \in {x \in Clients : csess[x] = "live"}}

\* The transport (and with it the tracker) still reads datagrams.
TransportOpen == phase \in {"running", "cancelled", "listener_closed"}

Init ==
    /\ csess = [c \in Clients |-> "new"]
    /\ want = [c \in Clients |-> NoBackend]
    /\ fport = [c \in Clients |-> NoPort]
    /\ backends = [d \in CIDs |-> NoBackend]
    /\ byAddr = [p \in Ports |-> NoCID]
    /\ iconn = [c \in Clients |-> "none"]
    /\ confirmed = [c \in Clients |-> FALSE]
    /\ hc = [c \in Clients |-> "idle"]
    /\ hdcid = [c \in Clients |-> NoCID]
    /\ hbackend = [c \in Clients |-> NoBackend]
    /\ srv = [c \in Clients |-> "none"]
    /\ sessions = {}
    /\ outcome = [c \in Clients |-> "none"]
    /\ phase = "running"
    /\ acceptLoop = TRUE

\* handleConnection moves from one step to the next.
Goto(c, from, to) ==
    /\ hc[c] = from
    /\ hc' = [hc EXCEPT ![c] = to]

\* clientConn.CloseWithError(code, ...); handleConnection returns.
Reject(c, why) ==
    /\ iconn' = [iconn EXCEPT ![c] = "closed"]
    /\ hc' = [hc EXCEPT ![c] = "done"]
    /\ outcome' = [outcome EXCEPT ![c] = why]

\* tracker.GetDCID(addr): the DCID latched for the address, NoCID if none.
GetDCID(addr) == byAddr[addr]

\* tracker.Delete(addr): the address's entry is removed.
TrackerDelete(addr) == [byAddr EXCEPT ![addr] = NoCID]

-----------------------------------------------------------------------------
(* Faulty variants of the steps below, each a plausible slip in the code.  *)
(* Each property's mutation run puts one in place of its step.             *)

\* OnConnect with ctx.Set("backend", internalAddr) done before the Store,
\* so the registry records the internal address.
OnConnectRedirectFirst(c) ==
    /\ csess[c] = "new"
    /\ \E b \in Backends, p \in Ports \ LivePorts :
          /\ want' = [want EXCEPT ![c] = b]
          /\ backends' = [backends EXCEPT ![DCIDOf[c]] = InternalAddr]
          /\ fport' = [fport EXCEPT ![c] = p]
    /\ csess' = [csess EXCEPT ![c] = "live"]
    /\ UNCHANGED <<byAddr, iconn, confirmed, hc, hdcid, hbackend, srv,
                   sessions, outcome, phase, acceptLoop>>

\* OnDisconnect without the h.backends.Delete(dcid) cleanup.
OnDisconnectKeepsEntry(c) ==
    /\ csess[c] = "live"
    /\ csess' = [csess EXCEPT ![c] = "gone"]
    /\ UNCHANGED <<want, fport, backends, byAddr, iconn, confirmed, hc, hdcid,
                   hbackend, srv, sessions, outcome, phase, acceptLoop>>

\* handleConnection's one-time cleanup deleting only the tracker entry.
HandleCleanupKeepsEntry(c) ==
    /\ Goto(c, "cleanup", "dial")
    /\ byAddr' = [byAddr EXCEPT ![fport[c]] = NoCID]
    /\ UNCHANGED <<csess, want, fport, backends, iconn, confirmed, hdcid,
                   hbackend, srv, sessions, outcome, phase, acceptLoop>>

\* Shutdown closing the listener's socket without closing its connections.
ShutdownCloseTransportKeepsConns ==
    /\ phase = "listener_closed"
    /\ phase' = "transport_closed"
    /\ UNCHANGED <<csess, want, fport, backends, byAddr, iconn, confirmed, hc,
                   hdcid, hbackend, srv, sessions, outcome, acceptLoop>>

-----------------------------------------------------------------------------
(* The outer session and the chain's OnConnect                             *)

\* First Initial of c: the router sets ctx "backend" to b; the terminator's
\* OnConnect finds a non-empty backend and a DCID, stores DCID -> b and
\* redirects ctx "backend" to InternalAddr; the forwarder opens its socket
\* on a port no live session holds.
OnConnect(c) ==
    /\ csess[c] = "new"
    /\ \E b \in Backends, p \in Ports \ LivePorts :
          /\ want' = [want EXCEPT ![c] = b]
          /\ backends' = [backends EXCEPT ![DCIDOf[c]] = b]
          /\ fport' = [fport EXCEPT ![c] = p]
    /\ csess' = [csess EXCEPT ![c] = "live"]
    /\ UNCHANGED <<byAddr, iconn, confirmed, hc, hdcid, hbackend, srv,
                   sessions, outcome, phase, acceptLoop>>

\* The outer session ends (idle expiry or a forwarder error): the chain's
\* OnDisconnect deletes the registration of the session's own DCID and the
\* forwarder socket, and so its port, is released.
OnDisconnect(c) ==
    /\ csess[c] = "live"
    /\ csess' = [csess EXCEPT ![c] = "gone"]
    /\ backends' = [backends EXCEPT ![DCIDOf[c]] = NoBackend]
    /\ UNCHANGED <<want, fport, byAddr, iconn, confirmed, hc, hdcid, hbackend,
                   srv, sessions, outcome, phase, acceptLoop>>

\* First Initial of c, dropped by the chain: the router finds no backend,
\* or the terminator's OnConnect returns Drop for an empty ctx "backend" or
\* an empty DCID, before its Store.  The demultiplexer tears the session
\* down and the chain's OnDisconnect reaches the terminator all the same,
\* which deletes the registration of the packet's DCID.  No forwarder
\* socket was opened.
ConnectDropped(c) ==
    /\ csess[c] = "new"
    /\ csess' = [csess EXCEPT ![c] = "gone"]
    /\ backends' = [backends EXCEPT ![DCIDOf[c]] = NoBackend]
    /\ UNCHANGED <<want, fport, byAddr, iconn, confirmed, hc, hdcid, hbackend,
                   srv, sessions, outcome, phase, acceptLoop>>

-----------------------------------------------------------------------------
(* The internal listener: tracker, handshake, acceptLoop                   *)

\* The DCID parseQUICDCID finds in a long-header datagram of c's connection:
\* the client's own DCID until the server's first flight, the server's CID
\* after it; short-header datagrams (after confirmation) yield none.
PacketCIDs(c) ==
    CASE iconn[c] = "none"      -> {DCIDOf[c]}
      [] iconn[c] = "handshake" -> {DCIDOf[c], SCIDOf[c]}
      [] OTHER                  -> {SCIDOf[c]}

\* tracker.ReadFrom on a datagram relayed from c's forwarder socket: the
\* DCID is stored only when the address has no entry yet.  The first one
\* starts the server's handshake while the listener is open.
ReadFrom(c) ==
    /\ csess[c] = "live"
    /\ TransportOpen
    /\ iconn[c] # "closed"
    /\ ~confirmed[c]
    /\ \E cid \in PacketCIDs(c) :
          byAddr' = IF byAddr[fport[c]] = NoCID
                    THEN [byAddr EXCEPT ![fport[c]] = cid]
                    ELSE byAddr
    /\ iconn' = [iconn EXCEPT ![c] = IF @ = "none" /\ phase \in {"running", "cancelled"}
                                     THEN "handshake" ELSE @]
    /\ UNCHANGED <<csess, want, fport, backends, confirmed, hc, hdcid, hbackend,
                   srv, sessions, outcome, phase, acceptLoop>>

\* listener.Accept(h.ctx) returns c's connection once its handshake is
\* complete; acceptLoop starts handleConnection for it.
Accept(c) ==
    /\ acceptLoop
    /\ phase = "running"
    /\ iconn[c] = "handshake"
    /\ csess[c] = "live"
    /\ iconn' = [iconn EXCEPT ![c] = "open"]
    /\ Goto(c, "idle", "getdcid")
    /\ UNCHANGED <<csess, want, fport, backends, byAddr, confirmed, hdcid,
                   hbackend, srv, sessions, outcome, phase, acceptLoop>>

\* Accept fails once h.ctx is cancelled; acceptLoop returns.
AcceptLoopEnd ==
    /\ acceptLoop
    /\ phase # "running"
    /\ acceptLoop' = FALSE
    /\ UNCHANGED <<csess, want, fport, backends, byAddr, iconn, confirmed, hc,
                   hdcid, hbackend, srv, sessions, outcome, phase>>


-----------------------------------------------------------------------------
(* handleConnection, one goroutine per accepted connection                 *)

\* tracker.GetDCID(remoteAddr); no entry: close with 0x01 and return.
HandleGetDCID(c) ==
    LET d == GetDCID(fport[c]) IN
    /\ hc[c] = "getdcid"
    /\ IF d = NoCID
       THEN /\ Reject(c, "no_dcid")
            /\ UNCHANGED hdcid
       ELSE /\ hdcid' = [hdcid EXCEPT ![c] = d]
            /\ Goto(c, "getdcid", "load")
            /\ UNCHANGED <<iconn, outcome>>
    /\ UNCHANGED <<csess, want, fport, backends, byAddr, confirmed, hbackend,
                   srv, sessions, phase, acceptLoop>>

\* h.backends.Load(dcid); missing: close with 0x01, delete the tracker
\* entry and return.
HandleLoad(c) ==
    LET b == backends[hdcid[c]] IN
    /\ hc[c] = "load"
    /\ IF b = NoBackend
       THEN /\ Reject(c, "no_backend")
            /\ byAddr' = TrackerDelete(fport[c])
            /\ UNCHANGED hbackend
       ELSE /\ hbackend' = [hbackend EXCEPT ![c] = b]
            /\ Goto(c, "load", "cleanup")
            /\ UNCHANGED <<iconn, outcome, byAddr>>
    /\ UNCHANGED <<csess, want, fport, backends, confirmed, hdcid, srv,
                   sessions, phase, acceptLoop>>

\* One-time use: tracker.Delete(remoteAddr); h.backends.Delete(dcid).
HandleCleanup(c) ==
    /\ Goto(c, "cleanup", "dial")
    /\ byAddr' = TrackerDelete(fport[c])
    /\ backends' = [backends EXCEPT ![hdcid[c]] = NoBackend]
    /\ UNCHANGED <<csess, want, fport, iconn, confirmed, hdcid, hbackend, srv,
                   sessions, outcome, phase, acceptLoop>>

\* quic.DialAddr(dialCtx, backend, ...) with dialCtx derived from h.ctx:
\* it succeeds only while h.ctx is live, and may fail (unreachable backend,
\* 10 s timeout) at any time; failure closes the client with 0x02.
HandleDial(c) ==
    /\ hc[c] = "dial"
    /\ \/ /\ phase = "running"
          /\ srv' = [srv EXCEPT ![c] = "open"]
          /\ Goto(c, "dial", "check")
          /\ UNCHANGED <<iconn, outcome>>
       \/ /\ Reject(c, "dial_failed")
          /\ UNCHANGED srv
    /\ UNCHANGED <<csess, want, fport, backends, byAddr, confirmed, hdcid,
                   hbackend, sessions, phase, acceptLoop>>

\* select on clientConn.Context().Done(): a client already gone closes the
\* backend connection; otherwise the session is stored and bridging starts.
HandleCheckClient(c) ==
    /\ hc[c] = "check"
    /\ IF iconn[c] = "closed"
       THEN /\ srv' = [srv EXCEPT ![c] = "closed"]
            /\ hc' = [hc EXCEPT ![c] = "done"]
            /\ outcome' = [outcome EXCEPT ![c] = "client_gone"]
            /\ UNCHANGED sessions
       ELSE /\ sessions' = sessions \cup {c}
            /\ Goto(c, "check", "bridge")
            /\ outcome' = [outcome EXCEPT ![c] = "bridged"]
            /\ UNCHANGED srv
    /\ UNCHANGED <<csess, want, fport, backends, byAddr, iconn, confirmed,
                   hdcid, hbackend, phase, acceptLoop>>

\* session.bridge() returns once either connection is closed, closing the
\* other; the deferred h.sessions.Delete removes the session.
BridgeEnd(c) ==
    /\ hc[c] = "bridge"
    /\ iconn[c] = "closed" \/ srv[c] = "closed"
    /\ iconn' = [iconn EXCEPT ![c] = "closed"]
    /\ srv' = [srv EXCEPT ![c] = "closed"]
    /\ sessions' = sessions \ {c}
    /\ Goto(c, "bridge", "done")
    /\ UNCHANGED <<csess, want, fport, backends, byAddr, confirmed, hdcid,
                   hbackend, outcome, phase, acceptLoop>>

-----------------------------------------------------------------------------
(* The peers of the internal and backend connections                       *)

\* The client receives HANDSHAKE_DONE; from then on it sends short headers.
ClientConfirm(c) ==
    /\ iconn[c] = "open"
    /\ ~confirmed[c]
    /\ confirmed' = [confirmed EXCEPT ![c] = TRUE]
    /\ UNCHANGED <<csess, want, fport, backends, byAddr, iconn, hc, hdcid,
                   hbackend, srv, sessions, outcome, phase, acceptLoop>>

\* The internal connection ends: the client closes it or it idles out.
ClientClose(c) ==
    /\ iconn[c] \in {"handshake", "open"}
    /\ iconn' = [iconn EXCEPT ![c] = "closed"]
    /\ UNCHANGED <<csess, want, fport, backends, byAddr, confirmed, hc, hdcid,
                   hbackend, srv, sessions, outcome, phase, acceptLoop>>

\* The backend closes its connection.
BackendClose(c) ==
    /\ srv[c] = "open"
    /\ srv' = [srv EXCEPT ![c] = "closed"]
    /\ UNCHANGED <<csess, want, fport, backends, byAddr, iconn, confirmed, hc,
                   hdcid, hbackend, sessions, outcome, phase, acceptLoop>>

-----------------------------------------------------------------------------
(* Shutdown                                                                *)

ShutdownVars == <<csess, want, fport, backends, byAddr, confirmed, hc, hdcid,
                  hbackend, sessions, outcome, acceptLoop>>

\* h.cancel(): stops the accept loop and every dial in progress.
ShutdownCancel ==
    /\ phase = "running"
    /\ phase' = "cancelled"
    /\ UNCHANGED <<iconn, srv>>
    /\ UNCHANGED ShutdownVars

\* h.listener.Close(): no further handshakes are accepted.
ShutdownCloseListener ==
    /\ phase = "cancelled"
    /\ phase' = "listener_closed"
    /\ UNCHANGED <<iconn, srv>>
    /\ UNCHANGED ShutdownVars

\* h.transport.Close(): closes every connection of the transport and the
\* tracker's socket.
ShutdownCloseTransport ==
    /\ phase = "listener_closed"
    /\ phase' = "transport_closed"
    /\ iconn' = [c \in Clients |-> IF iconn[c] = "none" THEN "none" ELSE "closed"]
    /\ UNCHANGED srv
    /\ UNCHANGED ShutdownVars

\* h.sessions.Range(... Close()): closes both sides of every stored session.
ShutdownCloseSessions ==
    /\ phase = "transport_closed"
    /\ phase' = "sessions_closed"
    /\ iconn' = [c \in Clients |-> IF c \in sessions THEN "closed" ELSE iconn[c]]
    /\ srv' = [c \in Clients |-> IF c \in sessions THEN "closed" ELSE srv[c]]
    /\ UNCHANGED ShutdownVars

\* h.wg.Wait() finishes: the accept loop and every handleConnection returned.
ShutdownWait ==
    /\ phase = "sessions_closed"
    /\ ~acceptLoop
    /\ \A c \in Clients : hc[c] \in {"idle", "done"}
    /\ phase' = "stopped"
    /\ UNCHANGED <<iconn, srv>>
    /\ UNCHANGED ShutdownVars

\* The caller's context expires first: Shutdown returns ctx.Err() while
\* goroutines may still run.
ShutdownDeadline ==
    /\ phase = "sessions_closed"
    /\ phase' = "abandoned"
    /\ UNCHANGED <<iconn, srv>>
    /\ UNCHANGED ShutdownVars

-----------------------------------------------------------------------------

HandlerStep(c) ==
    \/ HandleGetDCID(c) \/ HandleLoad(c) \/ HandleCleanup(c)
    \/ HandleDial(c) \/ HandleCheckClient(c) \/ BridgeEnd(c)

ShutdownStep ==
    \/ ShutdownCloseListener \/ ShutdownCloseTransport
    \/ ShutdownCloseSessions \/ ShutdownWait

Next ==
    \/ \E c \in Clients :
          \/ OnConnect(c) \/ ConnectDropped(c) \/ OnDisconnect(c)
          \/ ReadFrom(c) \/ Accept(c)
          \/ HandlerStep(c)
          \/ ClientConfirm(c) \/ ClientClose(c) \/ BackendClose(c)
    \/ AcceptLoopEnd
    \/ ShutdownCancel \/ ShutdownStep \/ ShutdownDeadline

\* Goroutines that can run are eventually scheduled, a dial ends within its
\* timeout, and a started Shutdown call runs to its wait.  Clients,
\* backends and the decision to shut down are not obliged to act.
Fairness ==
    /\ \A c \in Clients : WF_vars(HandlerStep(c))
    /\ WF_vars(AcceptLoopEnd)
    /\ WF_vars(ShutdownStep)

Spec == Init /\ [][Next]_vars /\ Fairness


-----------------------------------------------------------------------------
(* Properties                                                              *)

TypeOK ==
    /\ csess \in [Clients -> {"new", "live", "gone"}]
    /\ want \in [Clients -> Backends \cup {NoBackend}]
    /\ fport \in [Clients -> Ports \cup {NoPort}]
    /\ backends \in [CIDs -> Backends \cup {NoBackend}]
    /\ byAddr \in [Ports -> CIDs \cup {NoCID}]
    /\ iconn \in [Clients -> {"none", "handshake", "open", "closed"}]
    /\ confirmed \in [Clients -> BOOLEAN]
    /\ hc \in [Clients -> HcStates]
    /\ hdcid \in [Clients -> CIDs \cup {NoCID}]
    /\ hbackend \in [Clients -> Backends \cup {NoBackend}]
    /\ srv \in [Clients -> {"none", "open", "closed"}]
    /\ sessions \subseteq Clients
    /\ outcome \in [Clients -> Outcomes]
    /\ phase \in Phases
    /\ acceptLoop \in BOOLEAN

\* A terminated connection is dialed only to the backend the router chose
\* for its own client: the correlation remote address -> DCID -> backend
\* done by handleConnection never hands a client another client's backend,
\* even when a forwarder port is reused by a later session.
NoMisroute ==
    \A c \in Clients : srv[c] # "none" => hbackend[c] = want[c]

\* handleConnection has taken its registration (or failed after taking it).
Correlated(c) ==
    \/ hc[c] \in {"dial", "check", "bridge"}
    \/ outcome[c] \in {"dial_failed", "client_gone", "bridged"}

\* The backend registry never retains an entry after the client either
\* completed correlation in handleConnection or disconnected (OnDisconnect):
\* every entry belongs to a live session that has not been correlated yet.
RegistryClean ==
    \A d \in CIDs : backends[d] # NoBackend =>
        \E c \in Clients : /\ DCIDOf[c] = d
                           /\ csess[c] = "live"
                           /\ ~Correlated(c)

\* handleConnection refuses a connection for want of a mapping (close code
\* 0x01, "no dcid mapping" or "no backend") only when the client's own
\* registration made by OnConnect is really absent.
RejectOnlyUnregistered ==
    [][\A c \in Clients :
          (outcome[c] = "none" /\ outcome'[c] \in {"no_dcid", "no_backend"})
             => backends[DCIDOf[c]] = NoBackend]_vars

\* Once Shutdown has cancelled h.ctx, the accept loop and every
\* handleConnection goroutine eventually return, so h.wg.Wait() can finish.
ShutdownTerminates ==
    phase = "cancelled" ~>
        (~acceptLoop /\ \A c \in Clients : hc[c] \in {"idle", "done"})

=============================================================================
