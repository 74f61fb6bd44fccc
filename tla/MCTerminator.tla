---------------------------- MODULE MCTerminator ----------------------------
(* Two clients, two forwarder ports (so a port can be reused by the second *)
(* session), two backends.                                                 *)
EXTENDS Terminator, TLC

CONSTANTS c1, c2, d1, d2, s1, s2

MCClients == {c1, c2}

\* Distinct client-chosen DCIDs, as random 8-byte DCIDs are in practice.
MCDCIDOf == [c \in MCClients |-> IF c = c1 THEN d1 ELSE d2]

\* Two clients that chose the same DCID.
MCSharedDCIDOf == [c \in MCClients |-> d1]

MCSCIDOf == [c \in MCClients |-> IF c = c1 THEN s1 ELSE s2]

\* Ports and backends are interchangeable model values.
MCSymmetry == Permutations(Ports) \cup Permutations(Backends)

\* One client for the liveness run: Shutdown racing one handleConnection.
MCOneClient == {c1}
MCOneDCIDOf == [c \in MCOneClient |-> d1]
MCOneSCIDOf == [c \in MCOneClient |-> s1]

=============================================================================
