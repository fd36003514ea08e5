------------------------- MODULE MCBrokerConnection -------------------------
(* A user who connects one account of a broker and then another.           *)
EXTENDS BrokerConnection, TLC

\* A scan of a takes three pages, more than one sync reads; b is there for its
\* credentials to replace those of a.
MCMaxEvents == ("a" :> 3) @@ ("b" :> 1)
=============================================================================
