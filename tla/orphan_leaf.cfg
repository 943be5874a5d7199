SPECIFICATION Spec
CONSTANTS
  Headers <- ForkHeaders
  Genesis = 0
  PathTo <- ForkPaths
  nChainWork <- ForkWork
  Peers = {p1}
  MAX_ORPHAN_HEADERS = 2
  MAX_ORPHAN_HEADERS_PER_PEER = 2
  nOrphanHeaderExpireTime = 1
  MaxTime = 0
  BadHeaders = {}
  EarlyHeaders = {}
  ExpiredHeaders = {}
  MinedHeaders = {}
  suspicious_reorg_depth_ = 0
  MaxInvalidations = 0
  MaxRestarts = 0
  NoTemplate = NoTemplate
CHECK_DEADLOCK FALSE
INVARIANT OrphanLeavesAreCandidates
