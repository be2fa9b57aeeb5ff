CONSTANTS
  NSlots <- MCNSlots
  Granule <- MCGranule
  BufBytes <- MCBufBytes
  MaxChunkBytes <- MCMaxChunkBytes
  MaxWant <- MCMaxWant
  MaxBatch <- MCMaxBatch
  TraceBuffers = TRUE

SPECIFICATION Spec

INVARIANT TypeOK
INVARIANT OwnershipExclusive
INVARIANT TraceConsistent
INVARIANT ChainLenMatches
INVARIANT ChainWalkMatches
PROPERTY PoolRefinement
