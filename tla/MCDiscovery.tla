----------------------------- MODULE MCDiscovery -----------------------------
(* An inbound peer p1; its endpoint is a gossiped address that is no seed.  *)
EXTENDS Discovery

CONSTANTS a1, a2, p1

RemoteEndpoint == [p \in Inbound |-> a1]
=============================================================================
