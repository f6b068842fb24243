-------------------------------- MODULE MCMesh --------------------------------
(***************************************************************************)
(* Two nodes, and a bus bridged in both directions to one of them, for     *)
(* TLC; and a listening node with two that dial it.                        *)
(***************************************************************************)
EXTENDS Mesh

CONSTANTS hub, spoke, local

PairLinks == {{hub, spoke}}
LocalBridges == {<<spoke, local>>, <<local, spoke>>}
StarLinks == {{hub, spoke}, {hub, local}}

\* In the first of the two there is one way from each bus to each other: what is made on
\* the hub or bridged to the spoke goes on over the connection, what came over it does not.
TheWay ==
    LET Mark(from, bridges) == [origin |-> from, hops |-> bridges] IN
    [p \in Buses \X Buses |->
        CASE p[1] = p[2]              -> Mark(Nobody, 0)
          [] p = <<hub, spoke>>       -> Mark(hub, 0)
          [] p = <<hub, local>>       -> Mark(hub, 1)
          [] p = <<spoke, hub>>       -> Mark(spoke, 0)
          [] p = <<spoke, local>>     -> Mark(Nobody, 1)
          [] p = <<local, spoke>>     -> Mark(Nobody, 1)
          [] p = <<local, hub>>       -> Mark(spoke, 1)]

ASSUME WayAssumption == Links = PairLinks /\ Bridges = LocalBridges => OneWay(TheWay)
=============================================================================
