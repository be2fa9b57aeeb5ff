---------------------------- MODULE PoolAbstract ----------------------------
(***************************************************************************)
(* What a buffer pool promises its callers, with no free list order, no   *)
(* headers and no chains: a buffer the pool has created is either free or *)
(* in use; allocation hands out free (or freshly created) buffers and     *)
(* makes them in use; freeing returns in-use buffers to the free set.     *)
(* Pool memory is only ever added (the pool never returns a chunk to DMA  *)
(* except on DelBufferPool, which this specification does not cover).     *)
(***************************************************************************)
EXTENDS FiniteSets

CONSTANT Buffers   \* every buffer the DMA memory could hold

VARIABLES
  made,    \* buffers created from DMA chunks
  free,    \* buffers the pool may hand out
  inUse    \* buffers owned by callers

Init ==
  /\ made = {}
  /\ free = {}
  /\ inUse = {}

\* Allocate the non-empty set S, creating the buffers in fresh if needed.
Alloc(fresh, S) ==
  /\ fresh \cap made = {}
  /\ S # {}
  /\ S \subseteq free \cup fresh
  /\ made' = made \cup fresh
  /\ free' = (free \cup fresh) \ S
  /\ inUse' = inUse \cup S

\* Return the non-empty set S of in-use buffers.
Free(S) ==
  /\ S # {}
  /\ S \subseteq inUse
  /\ free' = free \cup S
  /\ inUse' = inUse \ S
  /\ UNCHANGED made

Next ==
  \/ \E fresh \in SUBSET (Buffers \ made) : \E S \in SUBSET (free \cup fresh) : Alloc(fresh, S)
  \/ \E S \in SUBSET inUse : Free(S)

Spec == Init /\ [][Next]_<<made, free, inUse>>

\* Free and in-use buffers partition the buffers created.
Partition == free \cap inUse = {} /\ free \cup inUse = made

=============================================================================
