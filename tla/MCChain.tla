------------------------------ MODULE MCChain ------------------------------
(* The chain configurations of the model check: the proxy of the README    *)
(* (logsni, a router, a terminator and the forwarder) with either          *)
(* terminator implementation, a chain that ends at the terminator, the     *)
(* empty chain, and a configuration with an unknown type.                  *)
EXTENDS ChainTerminator

CONSTANTS example, logsni, router, terminator, libterminator, forwarder, bogus,
          c1, c2, c3, d1, d2

MCTypes == {example, logsni, router, terminator, libterminator, forwarder, bogus}

MCRegistered == MCTypes \ {bogus}

\* Of the types with a factory under src/, only the terminators' can fail;
\* NewLogSNIHandler and NewExampleHandler always succeed.
MCMayFail == TerminatorFactoriesMayFail

MCConfigs ==
    { <<logsni, router, terminator, forwarder>>,
      <<logsni, router, libterminator, forwarder>>,
      <<example, router, terminator>>,
      <<>>,
      <<bogus, forwarder>> }

\* What each type's OnConnect may return; the router, terminators and
\* forwarder take their steps in ChainTerminator, within these results.
MCConnectResults ==
    [t \in MCTypes |->
        CASE t \in {router, terminator, libterminator} -> {"Continue", "Drop"}
          [] t = forwarder  -> {"Handled"}
          [] t = logsni     -> LogSNIResults
          [] t = example    -> ExampleResults
          [] OTHER          -> {"Continue"}]

\* Only the forwarder acts on later datagrams: it relays them, or drops
\* the session when its backend socket fails.
MCPacketResults ==
    [t \in MCTypes |->
        CASE t = forwarder -> {"Handled", "Drop"}
          [] t = logsni    -> LogSNIResults
          [] t = example   -> ExampleResults
          [] t \in {terminator, libterminator} -> TerminatorPacketResults
          [] OTHER         -> {"Continue"}]

MCRouters == {router}
MCTerminators == {terminator}
MCLibTerminators == {libterminator}
MCForwarders == {forwarder}
MCDCIDs == {d1, d2}

\* Two clients with their own DCIDs and one whose Initial yields none.
MCDCIDOf == [c \in {c1, c2, c3} |-> CASE c = c1 -> d1 [] c = c2 -> d2 [] OTHER -> NoDCID]

=============================================================================
