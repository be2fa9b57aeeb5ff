----------------------------- MODULE BufferMain -----------------------------
(***************************************************************************)
(* hw.BufferMain (elib/hw/buf.go): the registry of buffer pools and the   *)
(* debug allocation-state trace they share, with each pool's lazy Init.   *)
(*                                                                         *)
(* Every pool has an owner goroutine that calls AddBufferPool, then later *)
(* DelBufferPool; a pool in Users also has a user goroutine that calls    *)
(* AllocRefs once it can reach the pool and FreeRefs on what it got.      *)
(*  - AddBufferPool registers the pool under m.Mutex (unless its name is  *)
(*    taken) and then runs Init without any lock;                          *)
(*  - AllocRefsStride runs Init itself when !isInitialized(), before      *)
(*    p.mu, so the two Inits interleave (RoundSize, SetSizeIncl, FixSize);*)
(*  - DelBufferPool unregisters the pool under m.Mutex, then returns its  *)
(*    DMA chunks with DmaFree and unsetStates its free refs (putTrace     *)
(*    only resets a trace's event list: the state stays).                 *)
(* The DMA allocator (outside src/) hands out any free memory, so a pool  *)
(* created after a deletion can get offsets whose trace state the deleted *)
(* pool left.  A chunk is modelled as one buffer at one DMA offset.        *)
(* bufferPools is an elib.Pool (not under src/): GetIndex reuses the last *)
(* freed index, else appends; PutIndex of a free index does nothing.       *)
(***************************************************************************)
EXTENDS Integers, Sequences, FiniteSets

CONSTANTS
  Pools,               \* BufferPool structs
  Users,               \* pools that a goroutine allocates from
  PoolName,            \* p.Name of each pool
  PoolSize,            \* p.Size each pool is created with
  Offsets,             \* DMA offsets of the buffers the allocator can give
  CacheLineBytes,      \* cpu.CacheLineBytes
  BufferRewriteBytes,  \* 64 in code
  NoPool               \* a nil *BufferPool

ASSUME Users \subseteq Pools /\ NoPool \notin Pools
ASSUME PoolSize \in [Pools -> Nat]
ASSUME CacheLineBytes \in Nat \ {0} /\ BufferRewriteBytes \in Nat

Names == {PoolName[p] : p \in Pools}
Index == 0 .. Cardinality(Pools) - 1
Threads == (Pools \X {"add"}) \cup (Users \X {"alloc"})
NoOffset == -1

BufferHeaderBytes == CacheLineBytes
overheadBytes == BufferHeaderBytes + BufferRewriteBytes

BufferUnknown        == "unknown"
BufferKnownAllocated == "known-allocated"
BufferKnownFree      == "known-free"

VARIABLES
  size,       \* p.Size
  sizeIncl,   \* p.sizeIncludingOverhead (0: not initialized)
  pc,         \* where each goroutine is
  byName,     \* m.PoolByName (NoPool: no entry)
  elts,       \* m.bufferPools.elts
  nIdx,       \* len(m.bufferPools.elts)
  freeIdx,    \* m.bufferPools free indices, last freed last
  index,      \* p.index (0 until AddBufferPool assigns one)
  dma,        \* DMA offsets free in the allocator
  chunks,     \* p.memChunkIDs, as the offsets they hold
  refs,       \* p.refs: the free list
  held,       \* the buffer the user goroutine holds, or NoOffset
  trace,      \* traceByOffset[o].state
  panicked,   \* a panicState happened
  listed      \* history: pools AddBufferPool registered, not yet deleted

vars == <<size, sizeIncl, pc, byName, elts, nIdx, freeIdx, index,
          dma, chunks, refs, held, trace, panicked, listed>>
registry == <<byName, elts, nIdx, freeIdx, index, listed>>
memory == <<dma, chunks, refs, held, trace, panicked>>

-----------------------------------------------------------------------------
(* Pool size: bufferSize and Init                                          *)

\* elib.Word.RoundCacheLine
RoundCacheLine(x) == ((x + CacheLineBytes - 1) \div CacheLineBytes) * CacheLineBytes

\* uint(math.Sqrt(float64(i))): the float root is exact for these counts.
IsqrtFloor(i) == CHOOSE r \in 0 .. i : r * r <= i /\ (r + 1) * (r + 1) > i

\* Mutant of isPrime: the loop bound j < max, so squares of primes pass.
isPrimeShort(i) == \A j \in 2 .. IsqrtFloor(i) - 1 : i % j # 0

\* isPrime: trial division by j in 2 .. max.
isPrime(i) == \A j \in 2 .. IsqrtFloor(i) : i % j # 0

\* bufferSize: the first prime line count from (overhead + Size) / line.
bufferSize(s) ==
  LET first == (overheadBytes + s) \div CacheLineBytes
      lines == CHOOSE n \in first .. first + 64 :
                 isPrime(n) /\ \A m \in first .. n - 1 : ~isPrime(m)
  IN lines * CacheLineBytes

\* Where a goroutine goes when it leaves Init.
AfterInit(t) == IF t[2] = "add" THEN "ready" ELSE "alloc"

\* p.Size = uint(elib.Word(p.Size).RoundCacheLine())
RoundSize(t) ==
  /\ pc[t] = "round"
  /\ size' = [size EXCEPT ![t[1]] = RoundCacheLine(@)]
  /\ pc' = [pc EXCEPT ![t] = "size"]
  /\ UNCHANGED <<sizeIncl, registry, memory>>

\* p.sizeIncludingOverhead = p.bufferSize()
SetSizeIncl(t) ==
  /\ pc[t] = "size"
  /\ sizeIncl' = [sizeIncl EXCEPT ![t[1]] = bufferSize(size[t[1]])]
  /\ pc' = [pc EXCEPT ![t] = "fix"]
  /\ UNCHANGED <<size, registry, memory>>

\* Mutant of FixSize: Size left as the whole buffer, overhead included.
FixSizeNoOverhead(t) ==
  /\ pc[t] = "fix"
  /\ size' = [size EXCEPT ![t[1]] = sizeIncl[t[1]]]
  /\ pc' = [pc EXCEPT ![t] = AfterInit(t)]
  /\ UNCHANGED <<sizeIncl, registry, memory>>

\* p.Size = p.sizeIncludingOverhead - overheadBytes
FixSize(t) ==
  /\ pc[t] = "fix"
  /\ size' = [size EXCEPT ![t[1]] = sizeIncl[t[1]] - overheadBytes]
  /\ pc' = [pc EXCEPT ![t] = AfterInit(t)]
  /\ UNCHANGED <<sizeIncl, registry, memory>>

-----------------------------------------------------------------------------
(* Registry: bufferPools (elib.Pool, from the spec) and AddBufferPool,     *)
(* DelBufferPool                                                           *)

\* Mutant of GetIndex: the free list is read at its head but popped at
\* its tail.
GetIndexFirst == IF freeIdx # <<>> THEN Head(freeIdx) ELSE nIdx

\* Mutant of GetIndex: a new index is one past the end.
GetIndexOffByOne == IF freeIdx # <<>> THEN freeIdx[Len(freeIdx)] ELSE nIdx + 1

\* bufferPools.GetIndex: the last freed index, else a new one at the end.
GetIndex == IF freeIdx # <<>> THEN freeIdx[Len(freeIdx)] ELSE nIdx

\* The free list and length after GetIndex.
TakeIndex ==
  IF freeIdx # <<>> THEN <<SubSeq(freeIdx, 1, Len(freeIdx) - 1), nIdx>>
  ELSE <<freeIdx, nIdx + 1>>

\* bufferPools.PutIndex(i): ignored for an index that is already free.
PutIndex(i) ==
  IF \E k \in 1 .. Len(freeIdx) : freeIdx[k] = i THEN freeIdx ELSE Append(freeIdx, i)

\* AddBufferPool(p): under m.Mutex, register p unless its name is taken;
\* after m.Unlock, p.Init() when it was registered.
AddBufferPool(p) ==
  LET t == <<p, "add">>
      exists == byName[PoolName[p]] # NoPool
      i == GetIndex
  IN /\ pc[t] = "new"
     /\ IF exists
        THEN /\ pc' = [pc EXCEPT ![t] = "ready"]
             /\ UNCHANGED registry
        ELSE /\ index' = [index EXCEPT ![p] = i]
             /\ elts' = [elts EXCEPT ![i] = p]
             /\ byName' = [byName EXCEPT ![PoolName[p]] = p]
             /\ freeIdx' = TakeIndex[1] /\ nIdx' = TakeIndex[2]
             /\ listed' = listed \cup {p}
             /\ pc' = [pc EXCEPT ![t] = "round"]
     /\ UNCHANGED <<size, sizeIncl, memory>>

\* DelBufferPool(p), the part under m.Mutex: delete p.Name from
\* PoolByName, PutIndex(p.index), elts[p.index] = nil.  The owner deletes
\* a pool only once nobody uses it.
DelBufferPool(p) ==
  LET t == <<p, "add">>
  IN /\ pc[t] = "ready"
     /\ p \in Users => pc[<<p, "alloc">>] \in {"idle", "done"}
     /\ byName' = [byName EXCEPT ![PoolName[p]] = NoPool]
     /\ freeIdx' = PutIndex(index[p])
     /\ elts' = [elts EXCEPT ![index[p]] = NoPool]
     /\ listed' = listed \ {p}
     /\ pc' = [pc EXCEPT ![t] = "free"]
     /\ UNCHANGED <<size, sizeIncl, nIdx, index, memory>>

\* Mutant of DelFree: p.memChunkIDs is not cleared.
DelFreeKeepChunks(p) ==
  /\ pc[<<p, "add">>] = "free"
  /\ dma' = dma \cup chunks[p]
  /\ refs' = [refs EXCEPT ![p] = {}]
  /\ pc' = [pc EXCEPT ![<<p, "add">>] = "gone"]
  /\ UNCHANGED <<size, sizeIncl, registry, chunks, held, trace, panicked>>

\* DelBufferPool(p), after m.Unlock: DmaFree every chunk, memChunkIDs =
\* nil, unsetState of every free ref (putTrace resets only the event
\* list, so the known-free state stays), refs = nil.
DelFree(p) ==
  /\ pc[<<p, "add">>] = "free"
  /\ dma' = dma \cup chunks[p]
  /\ chunks' = [chunks EXCEPT ![p] = {}]
  /\ refs' = [refs EXCEPT ![p] = {}]
  /\ pc' = [pc EXCEPT ![<<p, "add">>] = "gone"]
  /\ UNCHANGED <<size, sizeIncl, registry, held, trace, panicked>>

-----------------------------------------------------------------------------
(* A user of the pool: AllocRefs(1), then FreeRefs of it                   *)

\* The pool can be reached: AddBufferPool has run, DelBufferPool has not.
Reachable(p) == pc[<<p, "add">>] \in {"round", "size", "fix", "ready"}

\* AllocRefsStride: if !p.isInitialized() { p.Init() }.
AllocStart(p) ==
  LET t == <<p, "alloc">>
  IN /\ pc[t] = "idle" /\ Reachable(p)
     /\ pc' = [pc EXCEPT ![t] = IF sizeIncl[p] = 0 THEN "round" ELSE "alloc"]
     /\ UNCHANGED <<size, sizeIncl, registry, memory>>

\* Mutant of validateSetState: allocation accepts only an unknown state.
AcceptsAllocUnknownOnly(old, new) ==
  IF new = BufferKnownAllocated THEN old = BufferUnknown ELSE old = BufferKnownAllocated

\* validateSetState: allocation accepts known-free or unknown (a buffer
\* never traced), freeing accepts known-allocated.
Accepts(old, new) ==
  IF new = BufferKnownAllocated THEN old \in {BufferKnownFree, BufferUnknown}
  ELSE old = BufferKnownAllocated

\* setState(o, new) with validateSetState's check.
SetState(o, new) ==
  /\ trace' = [trace EXCEPT ![o] = new]
  /\ panicked' = (panicked \/ ~Accepts(trace[o], new))

\* AllocRefsStride under p.mu: when the free list is empty, grow by one
\* DmaAlloc chunk; take a free ref; validateSetState known-allocated.
AllocRefs(p) ==
  LET t == <<p, "alloc">>
  IN /\ pc[t] = "alloc"
     /\ \E o \in (IF refs[p] = {} THEN dma ELSE refs[p]) :
          /\ dma' = dma \ {o}
          /\ chunks' = [chunks EXCEPT ![p] = IF refs[p] = {} THEN @ \cup {o} ELSE @]
          /\ refs' = [refs EXCEPT ![p] = @ \ {o}]
          /\ held' = [held EXCEPT ![p] = o]
          /\ SetState(o, BufferKnownAllocated)
     /\ pc' = [pc EXCEPT ![t] = "hold"]
     /\ UNCHANGED <<size, sizeIncl, registry>>

\* FreeRefs under p.mu: validateSetState known-free; back on p.refs.
FreeRefs(p) ==
  LET t == <<p, "alloc">>
  IN /\ pc[t] = "hold"
     /\ refs' = [refs EXCEPT ![p] = @ \cup {held[p]}]
     /\ held' = [held EXCEPT ![p] = NoOffset]
     /\ SetState(held[p], BufferKnownFree)
     /\ pc' = [pc EXCEPT ![t] = "done"]
     /\ UNCHANGED <<size, sizeIncl, registry, dma, chunks>>

-----------------------------------------------------------------------------

Init ==
  /\ size = PoolSize
  /\ sizeIncl = [p \in Pools |-> 0]
  /\ pc = [t \in Threads |-> IF t[2] = "add" THEN "new" ELSE "idle"]
  /\ byName = [n \in Names |-> NoPool]
  /\ elts = [i \in Index |-> NoPool]
  /\ nIdx = 0 /\ freeIdx = <<>>
  /\ index = [p \in Pools |-> 0]
  /\ dma = Offsets
  /\ chunks = [p \in Pools |-> {}]
  /\ refs = [p \in Pools |-> {}]
  /\ held = [p \in Pools |-> NoOffset]
  /\ trace = [o \in Offsets |-> BufferUnknown]
  /\ panicked = FALSE
  /\ listed = {}

\* Every owner has deleted its pool and every user is finished.
Finished ==
  /\ \A t \in Threads : pc[t] \in {"gone", "idle", "done"}
  /\ UNCHANGED vars

Next ==
  \/ \E p \in Pools : AddBufferPool(p) \/ DelBufferPool(p) \/ DelFree(p)
  \/ \E p \in Users : AllocStart(p) \/ AllocRefs(p) \/ FreeRefs(p)
  \/ \E t \in Threads : RoundSize(t) \/ SetSizeIncl(t) \/ FixSize(t)
  \/ Finished

Spec == Init /\ [][Next]_vars

-----------------------------------------------------------------------------
(* Properties                                                              *)

TypeOK ==
  /\ size \in [Pools -> Nat] /\ sizeIncl \in [Pools -> Nat]
  /\ byName \in [Names -> Pools \cup {NoPool}]
  /\ elts \in [Index -> Pools \cup {NoPool}]
  /\ index \in [Pools -> Index] /\ nIdx \in 0 .. Cardinality(Pools)
  /\ dma \subseteq Offsets /\ chunks \in [Pools -> SUBSET Offsets]
  /\ held \in [Pools -> Offsets \cup {NoOffset}]
  /\ trace \in [Offsets -> {BufferUnknown, BufferKnownAllocated, BufferKnownFree}]

\* The registry stays consistent across any sequence of AddBufferPool and
\* DelBufferPool calls by any goroutines: a pool AddBufferPool registered
\* and not yet deleted is found under its name and at its index, and its
\* index is not on the free list for another pool to be given.
RegistryConsistent ==
  \A p \in listed :
    /\ byName[PoolName[p]] = p
    /\ elts[index[p]] = p
    /\ \A k \in 1 .. Len(freeIdx) : freeIdx[k] # index[p]

\* Every DMA offset is free in the allocator or a chunk of exactly one
\* pool, also after pools were deleted and their memory reused.
MemoryOwned ==
  /\ \A o \in Offsets : o \notin dma <=> \E p \in Pools : o \in chunks[p]
  /\ \A p, q \in Pools : p # q => chunks[p] \cap chunks[q] = {}

\* The allocation-state trace survives DelBufferPool and stays right: no
\* validateSetState ever panics, even when a new pool is given memory a
\* deleted pool had traced, and an offset is known-allocated exactly when
\* a user holds it.
TraceSafe ==
  /\ ~panicked
  /\ \A o \in Offsets :
       trace[o] = BufferKnownAllocated <=> \E p \in Pools : held[p] = o

\* Reference: primality by definition, and the least size that is a prime
\* number of whole cache lines and holds the payload plus the overhead.
IsPrimeRef(n) == n > 1 /\ \A d \in 2 .. n - 1 : n % d # 0
RefBufferSize(s) ==
  CacheLineBytes *
    (CHOOSE n \in 1 .. (overheadBytes + s) \div CacheLineBytes + 64 :
       /\ IsPrimeRef(n) /\ n * CacheLineBytes >= s + overheadBytes
       /\ \A m \in 1 .. n - 1 : ~(IsPrimeRef(m) /\ m * CacheLineBytes >= s + overheadBytes))

\* Pool size contract (spec 8.1), whenever a pool reads as initialized:
\* sizeIncludingOverhead is the least prime number of cache lines that
\* holds the requested payload and the overhead.
SizeContract ==
  \A p \in Pools : sizeIncl[p] # 0 => sizeIncl[p] = RefBufferSize(PoolSize[p])

\* The Inits of AddBufferPool (run after m.Unlock, with the pool already
\* registered) and of a first AllocRefs converge: once no goroutine is
\* inside Init for a pool that is initialized, Size is the payload part
\* of sizeIncludingOverhead.
InitConverges ==
  \A p \in Pools :
    (sizeIncl[p] # 0 /\ \A t \in Threads : t[1] = p => pc[t] \notin {"round", "size", "fix"})
      => size[p] = sizeIncl[p] - overheadBytes

====
