--------------------------- MODULE ChainAbstract ---------------------------
(***************************************************************************)
(* What the handler chain promises (spec.md section 4.6), with every chain *)
(* invocation one atomic step.  OnConnect and OnPacket call the handlers   *)
(* in order up to the first one that does not return Continue, and return *)
(* that handler's result, or Drop when every handler continued.            *)
(* OnDisconnect calls every handler, in order, whatever came before.       *)
(*                                                                         *)
(* `trace[c]` records each handler call of session c as <<hook, position>>.*)
(* Handled keeps the session; Drop tears it down, which runs OnDisconnect. *)
(***************************************************************************)
EXTENDS Integers, Sequences

CONSTANTS
    Types,           \* handler types a chain may hold
    ConnectResults,  \* ConnectResults[t]: what OnConnect of a t may return
    PacketResults,   \* PacketResults[t]: what OnPacket of a t may return
    Conns,           \* sessions
    MaxLen,          \* longest chain
    MaxPackets,      \* packets per session
    NoChain          \* the chain could not be built

Actions == {"Continue", "Handled", "Drop"}
Stages  == {"idle", "connect", "open", "packet", "disconnect", "closed"}

VARIABLES chain, stage, trace, npk

vars == <<chain, stage, trace, npk>>

Chains == UNION {[1..k -> Types] : k \in 0..MaxLen}

\* The calls of one OnConnect or OnPacket invocation: the first k handlers,
\* with the result r the chain returns.
Invocations(hook, results) ==
    LET continues(n) == \A j \in 1..n : "Continue" \in results[chain[j]]
        stops(k) == {[k |-> k, r |-> r] : r \in results[chain[k]] \ {"Continue"}}
    IN
    UNION {stops(k) : k \in {j \in 1..Len(chain) : continues(j - 1)}}
    \cup
    IF continues(Len(chain)) THEN {[k |-> Len(chain), r |-> "Drop"]} ELSE {}

Calls(hook, k) == [i \in 1..k |-> <<hook, i>>]

Init ==
    /\ chain \in Chains \cup {NoChain}
    /\ stage = [c \in Conns |-> "idle"]
    /\ trace = [c \in Conns |-> <<>>]
    /\ npk = [c \in Conns |-> 0]

Arrive(c) ==
    /\ chain # NoChain
    /\ stage[c] = "idle"
    /\ stage' = [stage EXCEPT ![c] = "connect"]
    /\ UNCHANGED <<chain, trace, npk>>

Connect(c) ==
    /\ stage[c] = "connect"
    /\ \E inv \in Invocations("connect", ConnectResults) :
          /\ trace' = [trace EXCEPT ![c] = @ \o Calls("connect", inv.k)]
          /\ stage' = [stage EXCEPT ![c] = IF inv.r = "Handled" THEN "open" ELSE "disconnect"]
    /\ UNCHANGED <<chain, npk>>

PacketArrive(c) ==
    /\ stage[c] = "open"
    /\ npk[c] < MaxPackets
    /\ stage' = [stage EXCEPT ![c] = "packet"]
    /\ npk' = [npk EXCEPT ![c] = @ + 1]
    /\ UNCHANGED <<chain, trace>>

Packet(c) ==
    /\ stage[c] = "packet"
    /\ \E inv \in Invocations("packet", PacketResults) :
          /\ trace' = [trace EXCEPT ![c] = @ \o Calls("packet", inv.k)]
          /\ stage' = [stage EXCEPT ![c] = IF inv.r = "Handled" THEN "open" ELSE "disconnect"]
    /\ UNCHANGED <<chain, npk>>

Expire(c) ==
    /\ stage[c] = "open"
    /\ stage' = [stage EXCEPT ![c] = "disconnect"]
    /\ UNCHANGED <<chain, trace, npk>>

Disconnect(c) ==
    /\ stage[c] = "disconnect"
    /\ trace' = [trace EXCEPT ![c] = @ \o Calls("disconnect", Len(chain))]
    /\ stage' = [stage EXCEPT ![c] = "closed"]
    /\ UNCHANGED <<chain, npk>>

Next ==
    \E c \in Conns :
        \/ Arrive(c) \/ Connect(c) \/ PacketArrive(c) \/ Packet(c)
        \/ Expire(c) \/ Disconnect(c)

\* Every chain invocation returns, and an open session is eventually
\* evicted by the idle timeout.
Spec ==
    /\ Init /\ [][Next]_vars
    /\ \A c \in Conns : /\ WF_vars(Connect(c)) /\ WF_vars(Packet(c))
                        /\ WF_vars(Disconnect(c)) /\ WF_vars(Expire(c))

=============================================================================
