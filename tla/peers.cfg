SPECIFICATION Spec
CONSTANTS
    Addresses = {a1, a2}
    max_outbound_peers = 1
    max_inbound_peers = 2
    MAX_INBOUND_PER_IP = 1
    MaxPeerId = 3
SYMMETRY AddressSymmetry
CHECK_DEADLOCK FALSE
INVARIANTS
    InboundBounded
    OutboundBounded
    DialsFollowedUp
