----------------------------- MODULE BufferPool -----------------------------
(***************************************************************************)
(* One hw.BufferPool (elib/hw/buf.go): the free list p.refs, the buffer    *)
(* headers in DMA memory (only their nextRef word matters here), the DMA   *)
(* memory the pool has carved so far, and the debug allocation-state       *)
(* tracing of BufferMain.traceByOffset.                                    *)
(*                                                                         *)
(* Every pool operation runs under p.mu, so each is one atomic step.  A    *)
(* buffer is identified by its slot in the DMA arena: slot s stands for    *)
(* the buffer at DMA offset s * sizeIncludingOverhead.  A Ref is the part  *)
(* of a RefHeader the pool reads: the offset and the NextValid flag.       *)
(*                                                                         *)
(* The callers (packet-processing nodes) hold the refs they allocated in   *)
(* held: each held ref is the head of a packet, possibly a chain linked    *)
(* through the nextRef words of the buffers.  Callers follow the API       *)
(* contract: they free only what they hold, and link only segments that   *)
(* end a chain.  A caller may also build a packet with a RefChain         *)
(* (module RefChain, instantiated on the same nextRef words): it appends  *)
(* held single-segment refs, then holds the chain's head.                 *)
(***************************************************************************)
EXTENDS Integers, Sequences, SequencesExt, FiniteSets, FiniteSetsExt

CONSTANTS
  NSlots,         \* buffers the DMA arena can hold (bound on DmaAlloc)
  Granule,        \* a grow rounds the shortfall up to this (256 in code)
  BufBytes,       \* sizeIncludingOverhead, in the model's byte unit
  MaxChunkBytes,  \* largest single DmaAlloc request (1<<20 in code)
  MaxWant,        \* largest AllocRefs request a caller makes
  MaxBatch,       \* largest FreeRefs batch a caller makes
  TraceBuffers    \* traceBuffers == elib.Debug

ASSUME NSlots \in Nat \ {0}
ASSUME Granule \in Nat \ {0}
ASSUME BufBytes \in Nat \ {0} /\ MaxChunkBytes \in Nat \ {0}
\* With a buffer larger than one chunk the grow loop halves n_alloc to 0
\* and never terminates (see the hazards); the pool model needs progress.
ASSUME BufBytes <= MaxChunkBytes
ASSUME MaxWant \in Nat \ {0} /\ MaxBatch \in 1..4
ASSUME TraceBuffers \in BOOLEAN

Slot == 0 .. NSlots - 1

\* BufferState
BufferUnknown        == "unknown"
BufferKnownAllocated == "known-allocated"
BufferKnownFree      == "known-free"
BufferState == {BufferUnknown, BufferKnownAllocated, BufferKnownFree}

\* No state check has failed (no panicState).
NoPanic == -1

Ref == [off : Slot, nv : BOOLEAN]

\* The zero RefHeader: the nextRef word of a buffer reset from the template.
ZeroRef == [off |-> 0, nv |-> FALSE]

\* p.BufferTemplate.Ref with the buffer's offset added (template flags 0).
TemplateRef(o) == [off |-> o, nv |-> FALSE]

VARIABLES
  refs,      \* p.refs: the free list; allocation takes from its end
  buf,       \* buf[s]: nextRef word of buffer s's BufferHeader
  carved,    \* slots 0..carved-1 have been carved from DMA chunks
  trace,     \* traceByOffset[s].state
  panicked,  \* offset whose state check failed, or NoPanic
  held,      \* refs held by callers: heads of packets
  chead,     \* c.head of the RefChain a caller is building
  clen,      \* c.len
  ctail,     \* c.tail
  cprev,     \* c.prev_tail
  capp       \* history: buffers appended to the chain, in order

chain == <<chead, clen, ctail, cprev, capp>>
vars == <<refs, buf, carved, trace, panicked, held, chain>>

\* The RefChain on the pool's headers; what the caller appends comes from
\* held, and every buffer's dataLen counts as one.
RC == INSTANCE RefChain
        WITH buf <- buf, head <- chead, clen <- clen, tail <- ctail,
             prevTail <- cprev, pending <- held, appended <- capp,
             dlen <- [s \in Slot |-> 1], Lens <- {1}, MultiSegment <- FALSE

-----------------------------------------------------------------------------
(* Helpers                                                                 *)

\* elib.RoundPow2(x, p): round x up to a multiple of the power of two p.
RoundPow2(x, p) == ((x + p - 1) \div p) * p

\* The buffers in the chain headed by r, following NextValid through the
\* nextRef words (RefHeader.NextRef).  fuel bounds the walk on a cycle.
RECURSIVE ChainFrom(_, _, _)
ChainFrom(r, bf, fuel) ==
  IF fuel = 0 THEN <<r.off>>
  ELSE <<r.off>> \o (IF r.nv THEN ChainFrom(bf[r.off], bf, fuel - 1) ELSE <<>>)

Chain(r) == ChainFrom(r, buf, NSlots)

\* validateSetState: the state transition accepted by the tracing layer.
Accepts(old, new) ==
  IF new = BufferKnownAllocated
  THEN old \in {BufferKnownFree, BufferUnknown}
  ELSE old = BufferKnownAllocated

\* getTrace: an offset never traced before gets a new trace, state unknown.
TraceOf(tr, o) == IF o \in DOMAIN tr THEN tr[o] ELSE BufferUnknown

\* validateSetStateRefs over a sequence of refs, stopping at the first
\* offset whose state check fails.  Returns [tr, bad].
ValidateSetStates(tr, rs, new) ==
  LET step(acc, r) ==
        IF ~TraceBuffers \/ acc.bad # NoPanic THEN acc
        ELSE [tr  |-> [acc.tr EXCEPT ![r.off] = new],
              bad |-> IF Accepts(TraceOf(acc.tr, r.off), new) THEN NoPanic ELSE r.off]
  IN FoldLeft(step, [tr |-> tr, bad |-> NoPanic], rs)

-----------------------------------------------------------------------------
(* AllocRefsStride: the grow loop                                          *)

\* Buffers requested from DmaAlloc for a shortfall: rounded up to Granule,
\* then halved while the chunk's byte size exceeds MaxChunkBytes.
RECURSIVE HalveChunk(_, _)
HalveChunk(n, nb) == IF nb > MaxChunkBytes THEN HalveChunk(n \div 2, nb \div 2) ELSE n

GrowCount(short) ==
  LET n == RoundPow2(short, Granule) IN HalveChunk(n, n * BufBytes)

\* Mutant of CarveChunk: the carving loop stops one buffer short.
CarveChunkShort(c, n) == [i \in 1 .. n - 1 |-> TemplateRef(c + n - i)]

\* Mutant of CarveChunk: offsets counted from one past the chunk start.
CarveChunkOffByOne(c, n) == [i \in 1 .. n |-> TemplateRef(c + n - i + 1)]

\* Refs carved from a chunk of n buffers at slot c: highest offset first so
\* the smallest offsets sit at the end of the free list.
CarveChunk(c, n) == [i \in 1 .. n |-> TemplateRef(c + n - i)]

\* for got < want { ...DmaAlloc, carve, append... }: returns [list, carved].
RECURSIVE Grow(_, _, _)
Grow(list, want, c) ==
  IF Len(list) >= want THEN [list |-> list, carved |-> c]
  ELSE LET n == GrowCount(want - Len(list))
       IN  Grow(list \o CarveChunk(c, n), want, c + n)

-----------------------------------------------------------------------------
(* FreeRefs                                                                *)

RECURSIVE CollectNext(_, _, _, _)

\* Mutant of CollectNext: chain segments are collected without the
\* validateSetState call, so their trace stays known-allocated.
CollectNextUntraced(acc, nextRef, bf, fuel) ==
  LET acc2 == [acc EXCEPT !.segs = Append(@, nextRef)]
  IN IF ~nextRef.nv \/ fuel = 0 THEN acc2
     ELSE CollectNext(acc2, bf[nextRef.off], bf, fuel - 1)

\* freeNext.add: collect the chain after a freed ref, checking each
\* segment's state, reading each segment's nextRef before it is reset.
CollectNext(acc, nextRef, bf, fuel) ==
  LET v == ValidateSetStates(acc.tr, <<nextRef>>, BufferKnownFree)
      acc2 == [acc EXCEPT !.tr = v.tr, !.bad = v.bad,
                          !.segs = Append(@, nextRef)]
  IN IF v.bad # NoPanic \/ ~nextRef.nv \/ fuel = 0 THEN acc2
     ELSE CollectNext(acc2, bf[nextRef.off], bf, fuel - 1)

\* free1: reset ref and buffer header from the template; report the old
\* nextRef; then, with freeNext, follow the chain when NextValid was set.
Free1(acc, r, followNext) ==
  IF acc.bad # NoPanic THEN acc
  ELSE LET n0 == acc.bf[r.off]
           acc2 == [acc EXCEPT !.bf[r.off] = ZeroRef,
                               !.out = Append(@, TemplateRef(r.off))]
       IN IF followNext /\ r.nv
          THEN CollectNext(acc2, n0, acc2.bf, NSlots)
          ELSE acc2

\* Mutant of Free4: freeNext.add only for the first of the four refs.
Free4FirstOnly(acc, rs, followNext) ==
  IF acc.bad # NoPanic THEN acc
  ELSE LET offs == {rs[j].off : j \in 1 .. 4}
           ns == [j \in 1 .. 4 |-> acc.bf[rs[j].off]]
           acc2 == [acc EXCEPT !.bf = [s \in Slot |-> IF s \in offs THEN ZeroRef ELSE @[s]],
                               !.out = @ \o [j \in 1 .. 4 |-> TemplateRef(rs[j].off)]]
       IN IF followNext /\ rs[1].nv
          THEN CollectNext(acc2, ns[1], acc2.bf, NSlots)
          ELSE acc2

\* free4: reset four refs and their buffers, the four nextRef words read
\* first; slowPath when any of the four had NextValid, and then, with
\* freeNext, freeNext.add for each of them in order, walking memory in
\* which all four buffers are already reset.
Free4(acc, rs, followNext) ==
  IF acc.bad # NoPanic THEN acc
  ELSE LET offs == {rs[j].off : j \in 1 .. 4}
           ns == [j \in 1 .. 4 |-> acc.bf[rs[j].off]]
           acc2 == [acc EXCEPT !.bf = [s \in Slot |-> IF s \in offs THEN ZeroRef ELSE @[s]],
                               !.out = @ \o [j \in 1 .. 4 |-> TemplateRef(rs[j].off)]]
           add(a, j) == IF a.bad = NoPanic /\ rs[j].nv
                        THEN CollectNext(a, ns[j], a.bf, NSlots) ELSE a
       IN IF followNext /\ \E j \in 1 .. 4 : rs[j].nv
          THEN FoldLeft(add, acc2, <<1, 2, 3, 4>>)
          ELSE acc2

\* freeRefsNext / freeRefsNoNext: free4 while four or more are left, then
\* free1 for the rest.
RECURSIVE FreeRefsNext(_, _, _)
FreeRefsNext(acc, batch, followNext) ==
  IF Len(batch) >= 4
  THEN FreeRefsNext(Free4(acc, SubSeq(batch, 1, 4), followNext),
                    SubSeq(batch, 5, Len(batch)), followNext)
  ELSE FoldLeft(LAMBDA a, r : Free1(a, r, followNext), acc, batch)

\* freeRefsNoNext over the collected chain segments.
FreeSegments(acc) ==
  LET step(a, r) == [a EXCEPT !.bf[r.off] = ZeroRef,
                              !.out = Append(@, TemplateRef(r.off))]
  IN FoldLeft(step, acc, acc.segs)

-----------------------------------------------------------------------------
(* Operations                                                              *)

Init ==
  /\ refs = <<>>
  /\ buf = [s \in Slot |-> ZeroRef]
  /\ carved = 0
  /\ trace = [s \in Slot |-> BufferUnknown]
  /\ panicked = NoPanic
  /\ held = {}
  /\ chead = ZeroRef /\ clen = 0 /\ ctail = RC!Nil /\ cprev = RC!Nil /\ capp = <<>>

\* AllocRefsStride(out, want, stride): grow from DMA until the free list
\* holds want refs, hand out the last want of them, mark them allocated.
AllocRefsStride(want) ==
  LET g    == Grow(refs, want, carved)
      got  == Len(g.list)
      out  == SubSeq(g.list, got - want + 1, got)
      v    == ValidateSetStates(trace, out, BufferKnownAllocated)
  IN /\ panicked = NoPanic
     /\ g.carved <= NSlots
     /\ refs' = SubSeq(g.list, 1, got - want)
     /\ carved' = g.carved
     /\ buf' = [s \in Slot |-> IF carved <= s /\ s < g.carved THEN ZeroRef ELSE buf[s]]
     /\ trace' = v.tr
     /\ panicked' = v.bad
     /\ held' = held \cup ToSet(out)
     /\ UNCHANGED chain

\* AllocCachedRefs: take the whole free list.
AllocCachedRefs ==
  LET v == ValidateSetStates(trace, refs, BufferKnownAllocated)
  IN /\ panicked = NoPanic
     /\ refs # <<>>
     /\ refs' = <<>>
     /\ trace' = v.tr
     /\ panicked' = v.bad
     /\ held' = held \cup ToSet(refs)
     /\ UNCHANGED <<buf, carved, chain>>

\* FreeRefs(rh, n, freeNext): check every ref is allocated, reset each and
\* its buffer, collect and reset followed chains, append all to p.refs.
FreeRefs(batch, followNext) ==
  LET v    == ValidateSetStates(trace, batch, BufferKnownFree)
      a0   == [tr |-> v.tr, bad |-> v.bad, bf |-> buf, out |-> <<>>, segs |-> <<>>]
      a1   == FreeRefsNext(a0, batch, followNext)
      a2   == IF a1.bad = NoPanic THEN FreeSegments(a1) ELSE a1
  IN /\ panicked = NoPanic
     /\ trace' = a2.tr
     /\ panicked' = a2.bad
     /\ IF v.bad = NoPanic
        THEN /\ refs' = refs \o a2.out
             /\ buf' = a2.bf
        ELSE UNCHANGED <<refs, buf>>
     /\ held' = held \ ToSet(batch)
     /\ UNCHANGED <<carved, chain>>

\* LinkRefs(nil, b, c): flag b NextValid and store c in b's buffer.
LinkRefs(b, c) ==
  /\ panicked = NoPanic
  /\ buf' = [buf EXCEPT ![b.off] = c]
  /\ held' = (held \ {b, c}) \cup {[b EXCEPT !.nv = TRUE]}
  /\ UNCHANGED <<refs, carved, trace, panicked, chain>>

\* LinkRefs(a, b, c): a's buffer already holds b; flag that stored copy of
\* b NextValid and store c in b's buffer.
LinkRefsAs(a, c) ==
  LET b == buf[a.off]
  IN /\ panicked = NoPanic
     /\ buf' = [buf EXCEPT ![a.off].nv = TRUE, ![b.off] = c]
     /\ held' = held \ {c}
     /\ UNCHANGED <<refs, carved, trace, panicked, chain>>

\* RefChain.Append of a held single-segment ref: the ref is written into
\* the chain's tail word (c.head first, then the nextRef word of the last
\* buffer appended) and leaves the caller's hands.
AppendToChain(r) ==
  /\ panicked = NoPanic
  /\ ~r.nv
  /\ RC!AppendRef(r)
  /\ UNCHANGED <<refs, carved, trace, panicked>>

\* The caller is done with the chain: RefChain.Validate (a panic on a
\* length mismatch, when elib.Debug), then it holds c.Head() as a packet
\* and the RefChain value is dropped.
ChainHandOff ==
  /\ panicked = NoPanic
  /\ clen > 0
  /\ TraceBuffers => clen = RC!ChainLen(chead, buf)
  /\ held' = held \cup {chead}
  /\ chead' = ZeroRef /\ clen' = 0 /\ ctail' = RC!Nil /\ cprev' = RC!Nil /\ capp' = <<>>
  /\ UNCHANGED <<refs, buf, carved, trace, panicked>>

-----------------------------------------------------------------------------
(* Callers: what the packet-processing nodes may ask of the pool.          *)

\* Batches a caller may free: distinct held refs, in any order.
Batches == {s \in BoundedSeq(held, MaxBatch) : s # <<>> /\ IsInjective(s)}

\* A held ref is a single segment or the head of a chain.
LastSegment(a) == buf[a.off]

Next ==
  \/ \E want \in 1 .. MaxWant : AllocRefsStride(want)
  \/ AllocCachedRefs
  \/ \E batch \in Batches :
       \* freeNext = FALSE is only for refs that are not chain heads.
       \/ FreeRefs(batch, TRUE)
       \/ (\A i \in 1 .. Len(batch) : ~batch[i].nv) /\ FreeRefs(batch, FALSE)
  \/ \E b, c \in held : b # c /\ ~b.nv /\ LinkRefs(b, c)
  \/ \E a, c \in held : /\ a # c /\ a.nv
                        /\ ~LastSegment(a).nv
                        /\ LinkRefsAs(a, c)
  \/ \E r \in held : AppendToChain(r)
  \/ ChainHandOff

Spec == Init /\ [][Next]_vars

-----------------------------------------------------------------------------
(* Properties                                                              *)

TypeOK ==
  /\ refs \in Seq(Ref)
  /\ buf \in [Slot -> Ref]
  /\ carved \in 0 .. NSlots
  /\ trace \in [Slot -> BufferState]
  /\ panicked \in Slot \cup {NoPanic}
  /\ held \subseteq Ref
  /\ chead \in Ref /\ clen \in 0 .. NSlots
  /\ ctail \in Slot \cup {RC!Nil} /\ cprev \in RC!Loc \cup {RC!Nil}

\* The packet heads callers have: those held and the chain being built.
Holders == held \cup (IF clen > 0 THEN {chead} ELSE {})

\* Times buffer s is on the free list, and in the chains callers hold.
FreeCount(s) == Cardinality({i \in 1 .. Len(refs) : refs[i].off = s})
HeldCount(s) ==
  MapThenSumSet(LAMBDA h : Cardinality({i \in 1 .. Len(Chain(h)) : Chain(h)[i] = s}), Holders)

\* Conservation (AllocRefsStride, FreeRefs with freeNext, LinkRefs): every
\* buffer carved from DMA is in exactly one place -- once on the free list
\* or once in exactly one caller's packet chain; none is lost or shared.
OwnershipExclusive ==
  \A s \in Slot : FreeCount(s) + HeldCount(s) = IF s < carved THEN 1 ELSE 0

\* Debug tracing agrees with where buffers really are (setState calls in
\* AllocRefsStride, FreeRefs and freeNext.add): a buffer on the free list is
\* known-free, or unknown if never handed out since it was carved; one in a
\* caller's chain is known-allocated; so legal use never trips panicState.
TraceConsistent ==
  TraceBuffers =>
    /\ panicked = NoPanic
    /\ \A s \in 0 .. carved - 1 :
         IF FreeCount(s) > 0 THEN trace[s] \in {BufferKnownFree, BufferUnknown}
                             ELSE trace[s] = BufferKnownAllocated

\* RefChain over pool buffers (spec 8.3): while a caller appends buffers it
\* allocated, and other callers link, free and reuse buffers of the same
\* pool, the chain's counted length equals the walk from c.head, and the
\* walk visits exactly the appended buffers in append order; so Validate
\* never panics and FreeRefs(freeNext) of the head frees just those.
ChainLenMatches == RC!LenMatches
ChainWalkMatches == RC!WalkMatches

\* The pool as PoolAbstract sees it: created buffers, the set on the free
\* list, and the set reachable from the callers' chains.
FreeSet == {refs[i].off : i \in 1 .. Len(refs)}
InUseSet == UNION {ToSet(Chain(h)) : h \in Holders}

Abstract == INSTANCE PoolAbstract
              WITH Buffers <- Slot, made <- 0 .. carved - 1,
                   free <- FreeSet, inUse <- InUseSet

\* Refinement: every AllocRefsStride, AllocCachedRefs, FreeRefs and
\* LinkRefs step is an allocation of free or freshly carved buffers, a
\* return of in-use buffers (a whole chain with freeNext), or invisible.
PoolRefinement == Abstract!Spec

=============================================================================
