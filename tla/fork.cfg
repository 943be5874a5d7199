SPECIFICATION Spec
CONSTANTS
  Headers <- ForkHeaders
  Genesis = 0
  PathTo <- ForkPaths
  nChainWork <- ForkWork
  Peers = {p1, p2}
  MAX_ORPHAN_HEADERS = 2
  MAX_ORPHAN_HEADERS_PER_PEER = 2
  nOrphanHeaderExpireTime = 0
  MaxTime = 1
  BadHeaders = {}
  EarlyHeaders = {4}
  ExpiredHeaders = {}
  MinedHeaders = {3}
  suspicious_reorg_depth_ = 0
  MaxInvalidations = 1
  MaxRestarts = 0
  NoTemplate = NoTemplate
SYMMETRY PeerSymmetry
CHECK_DEADLOCK FALSE
INVARIANTS
  TypeOK
  ActiveChainValid
  FailureInherited
  HeavierLeavesAreCandidates
  EventsMatchChain
  OrphansWait
  PeerCountsExact
  PoolBounded
PROPERTIES
  ImplementsBestChain
  EvictionOnlyUnderPressure
  ImplementsOrphanPool
