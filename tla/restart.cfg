SPECIFICATION FairSpec
CONSTANTS
  Headers <- DeepHeaders
  Genesis = 0
  PathTo <- DeepPaths
  nChainWork <- DeepWork
  Peers = {p1}
  MAX_ORPHAN_HEADERS = 1
  MAX_ORPHAN_HEADERS_PER_PEER = 1
  nOrphanHeaderExpireTime = 0
  MaxTime = 0
  BadHeaders = {4}
  EarlyHeaders = {}
  ExpiredHeaders = {4}
  MinedHeaders = {3}
  suspicious_reorg_depth_ = 2
  MaxInvalidations = 1
  MaxRestarts = 1
  NoTemplate = NoTemplate
CHECK_DEADLOCK FALSE
PROPERTIES
  ReorgDepthBounded
  CleanRestartKeepsWork
  MinedBlockActivated
