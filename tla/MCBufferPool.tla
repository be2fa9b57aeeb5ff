--------------------------- MODULE MCBufferPool ---------------------------
(***************************************************************************)
(* Model-checking instance of BufferPool.  Byte sizes are scaled so that  *)
(* the grow loop both rounds up to Granule and halves an oversized chunk: *)
(* a shortfall of 1 or 2 buffers carves one chunk of 2, a shortfall of 3  *)
(* rounds to 4 buffers = 4 bytes > MaxChunkBytes and is halved to 2, so   *)
(* the loop runs twice and leaves a spare buffer on the free list.        *)
(***************************************************************************)
EXTENDS BufferPool

MCNSlots        == 6
MCGranule       == 2
MCBufBytes      == 1
MCMaxChunkBytes == 2
MCMaxWant       == 3
MCMaxBatch      == 4
=============================================================================
