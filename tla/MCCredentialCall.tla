-------------------------- MODULE MCCredentialCall --------------------------
(* Values for CredentialCall's constants, for TLC: servers that are well    *)
(* described but for one field, with ports on both sides of the bounds.     *)
EXTENDS CredentialCall, TLC

Server(host, port, protocol) ==
    [host |-> host, port |-> port, transportProtocol |-> protocol]

Servers ==
    {Server("host", port, "TCP") : port \in {0, 1, 65536, Nothing}}
        \cup {Server(host, 65535, Nothing) : host \in {"host", "", Nothing}}
        \cup {Server("host", 1, "UDP")}

EmptyHosts == {""}

\* Below zero, lapsed at once, short, longer (counted from a later moment, beyond
\* what a datetime can say), beyond what a float can.
SomeLifetimes == {-1, 0, 1, 3, 99}
SomeCountless == {99}

\* Resource Sets are alike.
AlikeResourceSets == Permutations(ResourceSets)
=============================================================================
