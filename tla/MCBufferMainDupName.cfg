CONSTANTS
  p1 = p1
  p2 = p2
  p3 = p3
  n1 = n1
  n2 = n2
  n3 = n3
  NoPool = NoPool
  Pools <- MCPools
  Users <- MCUsers
  PoolName <- MCPoolNameDup
  PoolSize <- MCPoolSize
  Offsets <- MCOffsets
  CacheLineBytes = 64
  BufferRewriteBytes = 64

SPECIFICATION Spec

INVARIANT RegistryConsistent
