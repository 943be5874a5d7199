--------------------------- MODULE MCPeerLifecycle ---------------------------
EXTENDS PeerLifecycle, TLC

\* The table treats all addresses alike.
AddressSymmetry == Permutations(Addresses)
=============================================================================
