------------------------------- MODULE Chain -------------------------------
(***************************************************************************)
(* The handler chain of src/internal/handler/handler.go, built by          *)
(* BuildChain (src/unnamed/part_003), driven by the session lifecycle the  *)
(* demultiplexer gives it (spec.md 4.5: OnConnect on the first Initial,    *)
(* OnPacket per datagram, teardown on Drop or idle expiry).                *)
(*                                                                         *)
(* Each handler call is one step, so the calls of different sessions       *)
(* interleave.  `idx[c]` counts the handlers the loop in progress has      *)
(* called.  The chain refines ChainAbstract, in which each invocation of   *)
(* OnConnect, OnPacket or OnDisconnect is atomic.                          *)
(***************************************************************************)
EXTENDS Integers, Sequences

CONSTANTS
    Types,           \* handler types a chain may hold
    Registered,      \* types with a factory in the registry
    MayFail,         \* types whose factory may reject its configuration
    Configs,         \* handler configurations the proxy may be started with
    ConnectResults,  \* ConnectResults[t]: what OnConnect of a t may return
    PacketResults,   \* PacketResults[t]: what OnPacket of a t may return
    Conns,           \* sessions
    MaxLen,          \* longest configuration
    MaxPackets,      \* packets per session
    NoChain          \* BuildChain returned an error

ASSUME Registered \subseteq Types /\ MayFail \subseteq Registered
ASSUME \A cfg \in Configs : Len(cfg) <= MaxLen

VARIABLES chain, stage, idx, trace, npk

vars == <<chain, stage, idx, trace, npk>>

\* BuildChain(configs): an unknown type or a factory error ends it with an
\* error; otherwise the handlers, in configuration order.
BuildChain(cfg) ==
    LET types == {cfg[i] : i \in DOMAIN cfg} IN
    IF ~(types \subseteq Registered) THEN {NoChain}
    ELSE IF types \cap MayFail # {} THEN {cfg, NoChain}
    ELSE {cfg}

\* LogSNIHandler.OnConnect logs the SNI and continues; its OnPacket
\* continues and its OnDisconnect does nothing.
LogSNIResults == {"Continue"}

\* ExampleHandler's OnConnect and OnPacket continue; OnDisconnect does
\* nothing.
ExampleResults == {"Continue"}

Init ==
    /\ chain \in UNION {BuildChain(cfg) : cfg \in Configs}
    /\ stage = [c \in Conns |-> "idle"]
    /\ idx = [c \in Conns |-> 0]
    /\ trace = [c \in Conns |-> <<>>]
    /\ npk = [c \in Conns |-> 0]

Record(c, hook) == trace' = [trace EXCEPT ![c] = Append(@, <<hook, idx[c] + 1>>)]

\* The loop returned: the invocation is over and the session moves on.
Return(c, to) ==
    /\ stage' = [stage EXCEPT ![c] = to]
    /\ idx' = [idx EXCEPT ![c] = 0]

-----------------------------------------------------------------------------
(* The session lifecycle of the demultiplexer (spec.md 4.5)                *)

\* The first Initial of a new session: the demultiplexer creates it and
\* invokes chain.OnConnect.
Arrive(c) ==
    /\ chain # NoChain
    /\ stage[c] = "idle"
    /\ stage' = [stage EXCEPT ![c] = "connect"]
    /\ UNCHANGED <<chain, idx, trace, npk>>

\* A later datagram of an established session: chain.OnPacket.
PacketArrive(c) ==
    /\ stage[c] = "open"
    /\ npk[c] < MaxPackets
    /\ stage' = [stage EXCEPT ![c] = "packet"]
    /\ npk' = [npk EXCEPT ![c] = @ + 1]
    /\ UNCHANGED <<chain, idx, trace>>

\* Idle expiry: the session is torn down and chain.OnDisconnect runs.
Expire(c) ==
    /\ stage[c] = "open"
    /\ stage' = [stage EXCEPT ![c] = "disconnect"]
    /\ UNCHANGED <<chain, idx, trace, npk>>

-----------------------------------------------------------------------------
(* Chain.OnConnect, Chain.OnPacket, Chain.OnDisconnect                     *)

\* One iteration of the loop of OnConnect or OnPacket: call the next
\* handler; a result other than Continue is returned at once, Handled
\* keeping the session and Drop tearing it down.
HookStep(c, hook, results) ==
    /\ stage[c] = hook
    /\ idx[c] < Len(chain)
    /\ \E r \in results[chain[idx[c] + 1]] :
          /\ Record(c, hook)
          /\ IF r = "Continue"
             THEN /\ idx' = [idx EXCEPT ![c] = @ + 1]
                  /\ UNCHANGED stage
             ELSE Return(c, IF r = "Handled" THEN "open" ELSE "disconnect")
    /\ UNCHANGED <<chain, npk>>

\* A mutation of HookExhausted: a chain nobody claimed keeps the session
\* as if it had been handled.
HookExhaustedKeeps(c, hook) ==
    /\ stage[c] = hook
    /\ idx[c] = Len(chain)
    /\ Return(c, "open")
    /\ UNCHANGED <<chain, trace, npk>>

\* Every handler continued: the chain returns Drop.
HookExhausted(c, hook) ==
    /\ stage[c] = hook
    /\ idx[c] = Len(chain)
    /\ Return(c, "disconnect")
    /\ UNCHANGED <<chain, trace, npk>>

\* A mutation of DisconnectStep: the loop runs while idx <= len.
DisconnectStepPastEnd(c) ==
    /\ stage[c] = "disconnect"
    /\ idx[c] <= Len(chain)
    /\ Record(c, "disconnect")
    /\ idx' = [idx EXCEPT ![c] = @ + 1]
    /\ UNCHANGED <<chain, stage, npk>>

\* One iteration of OnDisconnect's loop: every handler is called.
DisconnectStep(c) ==
    /\ stage[c] = "disconnect"
    /\ idx[c] < Len(chain)
    /\ Record(c, "disconnect")
    /\ idx' = [idx EXCEPT ![c] = @ + 1]
    /\ UNCHANGED <<chain, stage, npk>>

\* OnDisconnect's loop is over.
DisconnectEnd(c) ==
    /\ stage[c] = "disconnect"
    /\ idx[c] = Len(chain)
    /\ Return(c, "closed")
    /\ UNCHANGED <<chain, trace, npk>>

ConnectStep(c) == HookStep(c, "connect", ConnectResults)
PacketStep(c)  == HookStep(c, "packet", PacketResults)

ChainStep(c) ==
    \/ ConnectStep(c) \/ HookExhausted(c, "connect")
    \/ PacketStep(c) \/ HookExhausted(c, "packet")
    \/ DisconnectStep(c) \/ DisconnectEnd(c)

Next ==
    \E c \in Conns :
        \/ Arrive(c) \/ PacketArrive(c) \/ Expire(c)
        \/ ChainStep(c)

\* A handler call is synchronous code and returns; the demultiplexer's
\* idle eviction tears down every open session.
Spec ==
    /\ Init /\ [][Next]_vars
    /\ \A c \in Conns : WF_vars(ChainStep(c)) /\ WF_vars(Expire(c))

-----------------------------------------------------------------------------
(* Properties                                                              *)

TypeOK ==
    /\ chain \in UNION {[1..k -> Registered] : k \in 0..MaxLen} \cup {NoChain}
    /\ stage \in [Conns -> {"idle", "connect", "open", "packet", "disconnect", "closed"}]
    /\ idx \in [Conns -> 0..MaxLen]
    /\ trace \in [Conns -> Seq({"connect", "packet", "disconnect"} \X (1..MaxLen))]
    /\ npk \in [Conns -> 0..MaxPackets]

\* The loop state is hidden: a session part-way through an invocation is,
\* abstractly, still waiting for it, with the calls made so far unmade.
Abstract == INSTANCE ChainAbstract WITH
    trace <- [c \in Conns |-> SubSeq(trace[c], 1, Len(trace[c]) - idx[c])]

\* Handler.go's loops implement the chain semantics: each OnConnect and
\* OnPacket calls the handlers in order up to the first non-Continue
\* result and returns it (Drop if none), each OnDisconnect calls every
\* handler once in order, even after an early Drop, and every session's
\* invocations return until it is closed.
ChainRefines == Abstract!Spec

=============================================================================
