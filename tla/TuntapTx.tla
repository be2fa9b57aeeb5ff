------------------------------ MODULE TuntapTx ------------------------------
(***************************************************************************)
(* The transmit path of a tuntap interface (vnet/unix/tx.go).  Three      *)
(* actors share one interface:                                             *)
(*  - the vnet goroutine runs NodeOutput: it packs the packets of its      *)
(*    input frame into packet vectors of at most MaxVec packets and hands *)
(*    each to tx_queue, which adds its refs to the atomic active_refs,    *)
(*    calls iomux.Update when the count crossed zero, and sends the       *)
(*    vector on the buffered channel to_tx;                                *)
(*  - the tx thread (tx_thread) waits for a token on to_tx_thread and      *)
(*    runs tx_write: take a vector (intf.pv, else one from to_tx), write  *)
(*    its packets (write_packet_vector), free what was written (advance), *)
(*    subtract the refs written from active_refs and call iomux.Update    *)
(*    when it reached zero; stop when to_tx is empty or a write blocks;   *)
(*  - the poller: while the interface asks for write readiness            *)
(*    (WriteAvailable at its last iomux.Update) and the tun device has    *)
(*    room, it calls WriteReady, a non-blocking send of a token.           *)
(* The kernel's tun queue is full or not; a blocked write fills it and the *)
(* kernel drains it.  A packet is an id with its number of buffer         *)
(* segments; freeing a packet is FreeRefs(.., freeNext = true) of its     *)
(* head ref.                                                               *)
(***************************************************************************)
EXTENDS Integers, Sequences, SequencesExt, FiniteSets, FiniteSetsExt

CONSTANTS
  Packets,       \* packet ids, handed to NodeOutput in increasing order
  Unknown,       \* packets whose Si has no tuntap interface
  SegCounts,     \* number of buffers a packet may have
  MaxVec,        \* tx_packet_vector_max_len
  ToTxCap,       \* capacity of to_tx (vnet.MaxOutstandingTxRefs)
  TokCap,        \* capacity of to_tx_thread (64 in code)
  WriteErrors    \* errnos a write may return other than 0 and EWOULDBLOCK

ASSUME Packets \subseteq Nat \ {0} /\ Unknown \subseteq Packets
ASSUME SegCounts \subseteq Nat \ {0} /\ MaxVec \in Nat \ {0}
ASSUME ToTxCap \in Nat \ {0} /\ TokCap \in Nat \ {0}

\* write results: 0, EWOULDBLOCK, and the error numbers the switch names.
OK == "ok"
EIO == "EIO"
EMSGSIZE == "EMSGSIZE"
EBADF == "EBADF"     \* stands for any errno the switch sends to default
ASSUME WriteErrors \subseteq {EIO, EMSGSIZE, EBADF}

Input == SetToSortSeq(Packets, <)

VARIABLES
  segs,        \* segs[p]: buffers in packet p (iovs.Len() of its tx_packet)
  input,       \* packets not yet given to NodeOutput
  frame,       \* out.Refs of the running NodeOutput not yet looked at
  vpv,         \* the vector NodeOutput is filling or queueing
  vpc,         \* vnet goroutine: "idle" "build" "queue" "update" "send"
  toTx,        \* to_tx: vectors in the channel
  txPv,        \* intf.pv (<<>> is nil)
  txpc,        \* tx thread: "wait" "take" "write" "dec" "update"
  txNr,        \* n_refs of the last write_packet_vector
  txWb,        \* its would_block
  activeRefs,  \* intf.active_refs
  interest,    \* the poller watches for writability (WriteAvailable at Update)
  tokens,      \* tokens in to_tx_thread
  full,        \* the tun device queue has no room
  written,     \* packets whose write returned (sent or dropped)
  freed,       \* freed[p]: times packet p's buffers were freed
  panicked     \* a goroutine panicked: "none", "tx full" or "slice bounds"

vars == <<segs, input, frame, vpv, vpc, toTx, txPv, txpc, txNr, txWb,
          activeRefs, interest, tokens, full, written, freed, panicked>>

-----------------------------------------------------------------------------

\* Refs of the packets in a vector (v.n_refs).
Refs(v) == FoldLeft(LAMBDA acc, p : acc + segs[p], 0, v)

\* FreeRefs(&pv.r[0], n, true) of packets ps.
FreeAll(f, ps) == [p \in DOMAIN f |-> IF p \in ps THEN f[p] + 1 ELSE f[p]]

Init ==
  /\ segs \in [Packets -> SegCounts]
  /\ input = Input
  /\ frame = <<>>
  /\ vpv = <<>>
  /\ vpc = "idle"
  /\ toTx = <<>>
  /\ txPv = <<>>
  /\ txpc = "wait"
  /\ txNr = 0
  /\ txWb = FALSE
  /\ activeRefs = 0
  /\ interest = FALSE
  /\ tokens = 0
  /\ full = FALSE
  /\ written = {}
  /\ freed = [p \in Packets |-> 0]
  /\ panicked = "none"

NoPanic == panicked = "none"

-----------------------------------------------------------------------------
(* vnet goroutine                                                          *)

\* The vnet loop calls NodeOutput with the next n packets as out.Refs.
NodeOutput ==
  /\ NoPanic /\ vpc = "idle" /\ input # <<>>
  /\ \E n \in 1 .. Len(input) :
       /\ frame' = SubSeq(input, 1, n)
       /\ input' = SubSeq(input, n + 1, Len(input))
  /\ vpc' = "build"
  /\ UNCHANGED <<segs, vpv, toTx, txPv, txpc, txNr, txWb, activeRefs,
                 interest, tokens, full, written, freed, panicked>>

\* The NodeOutput loop up to its next tx_queue: packets with no tuntap
\* interface are freed at once; the others are added to the vector until
\* it holds MaxVec packets or the frame ends.
RECURSIVE Fill(_, _, _)
Fill(fr, v, drop) ==
  IF fr = <<>> \/ Len(v) = MaxVec THEN [fr |-> fr, v |-> v, drop |-> drop]
  ELSE IF Head(fr) \in Unknown THEN Fill(Tail(fr), v, drop \cup {Head(fr)})
  ELSE Fill(Tail(fr), Append(v, Head(fr)), drop)

BuildVector ==
  LET f == Fill(frame, <<>>, {})
  IN /\ NoPanic /\ vpc = "build"
     /\ frame' = f.fr
     /\ vpv' = f.v
     /\ freed' = FreeAll(freed, f.drop)
     /\ vpc' = IF f.v = <<>> THEN "idle" ELSE "queue"
     /\ UNCHANGED <<segs, input, toTx, txPv, txpc, txNr, txWb, activeRefs,
                    interest, tokens, full, written, panicked>>

\* Mutant of TxQueue: active_refs counts packets (n_packets), not refs.
TxQueuePackets ==
  LET da == Len(vpv)
  IN /\ NoPanic /\ vpc = "queue"
     /\ activeRefs' = activeRefs + da
     /\ vpc' = IF activeRefs = 0 THEN "update" ELSE "send"
     /\ UNCHANGED <<segs, input, frame, vpv, toTx, txPv, txpc, txNr, txWb,
                    interest, tokens, full, written, freed, panicked>>

\* tx_queue: da == atomic.AddInt32(&intf.active_refs, da) -> iomux.Update.
TxQueue ==
  LET da == Refs(vpv)
  IN /\ NoPanic /\ vpc = "queue"
     /\ activeRefs' = activeRefs + da
     /\ vpc' = IF activeRefs = 0 THEN "update" ELSE "send"
     /\ UNCHANGED <<segs, input, frame, vpv, toTx, txPv, txpc, txNr, txWb,
                    interest, tokens, full, written, freed, panicked>>

\* iomux.Update(intf): the poller re-reads WriteAvailable().
TxQueueUpdate ==
  /\ NoPanic /\ vpc = "update"
  /\ interest' = (activeRefs > 0)
  /\ vpc' = "send"
  /\ UNCHANGED <<segs, input, frame, vpv, toTx, txPv, txpc, txNr, txWb,
                 activeRefs, tokens, full, written, freed, panicked>>

\* select { case intf.to_tx <- v: default: panic("tx full") }
TxQueueSend ==
  /\ NoPanic /\ vpc = "send"
  /\ IF Len(toTx) < ToTxCap
     THEN /\ toTx' = Append(toTx, vpv)
          /\ panicked' = panicked
     ELSE /\ toTx' = toTx
          /\ panicked' = "tx full"
  /\ vpv' = <<>>
  /\ vpc' = "build"
  /\ UNCHANGED <<segs, input, frame, txPv, txpc, txNr, txWb, activeRefs,
                 interest, tokens, full, written, freed>>

-----------------------------------------------------------------------------
(* tx thread                                                               *)

\* for range intf.to_tx_thread { intf.tx_write() }
TxThreadRecv ==
  /\ NoPanic /\ txpc = "wait" /\ tokens > 0
  /\ tokens' = tokens - 1
  /\ txpc' = "take"
  /\ UNCHANGED <<segs, input, frame, vpv, vpc, toTx, txPv, txNr, txWb,
                 activeRefs, interest, full, written, freed, panicked>>

\* tx_write: if intf.pv == nil { select { case intf.pv = <-intf.to_tx:
\* default: break loop } }
TxWriteTake ==
  /\ NoPanic /\ txpc = "take"
  /\ IF txPv # <<>>
     THEN UNCHANGED <<toTx, txPv>> /\ txpc' = "write"
     ELSE IF toTx # <<>>
     THEN /\ txPv' = Head(toTx) /\ toTx' = Tail(toTx)
          /\ txpc' = "write"
     ELSE UNCHANGED <<toTx, txPv>> /\ txpc' = "wait"
  /\ UNCHANGED <<segs, input, frame, vpv, vpc, txNr, txWb, activeRefs,
                 interest, tokens, full, written, freed, panicked>>

\* Mutant of WrittenRefs: n_refs counts the whole vector, blocked packets
\* included.
WrittenRefsAll(pv, k) == Refs(pv)

\* write_packet_vector's n_refs: iovs.Len() of every packet whose write
\* returned, sent or dropped.
WrittenRefs(pv, k) == Refs(SubSeq(pv, 1, k))

\* Mutant of Advance: the whole vector is freed even when a write blocked.
AdvanceAll(pv, i) ==
  [rest |-> <<>>, free |-> ToSet(pv), bounds |-> FALSE]

\* pv.advance(n, intf, i): FreeRefs(&pv.r[0], i, true), then keep the
\* n_left = np - i unsent packets, or hand the vector back when none is
\* left.  n_left is a uint: with i > np it wraps and copy(pv.a[:n_left])
\* panics (slice bounds out of range).  Before the panic FreeRefs frees i
\* entries of pv.r: the np packets and i - np stale entries past them, left
\* from an earlier use of the recycled vector.  The model keeps no stale
\* entries, frees the np packets and flags the panic in bounds.
Advance(pv, i) ==
  LET np == Len(pv)
  IN [rest   |-> IF i >= np THEN <<>> ELSE SubSeq(pv, i + 1, np),
      free   |-> ToSet(SubSeq(pv, 1, IF i > np THEN np ELSE i)),
      bounds |-> i > np]

\* write_packet_vector: the first k packets' writes return (errno 0 or an
\* error in res); if k < np the next one returns EWOULDBLOCK and the tun
\* queue is full.  A full queue blocks the first write; one the poller
\* reported writable accepts at least one.  The switch counts EIO and
\* EMSGSIZE as drops, and the default case counts an error both as a drop
\* and as a packet.  Then advance(n_packets + n_drops).
WritePacketVector ==
  /\ NoPanic /\ txpc = "write"
  /\ \E k \in (IF full THEN {0} ELSE 1 .. Len(txPv)) :
     \E res \in [1 .. k -> {OK} \cup WriteErrors] :
       LET nPackets == Cardinality({i \in 1 .. k : res[i] \in {OK, EBADF}})
           nDrops   == Cardinality({i \in 1 .. k : res[i] # OK})
           nAdvance == nPackets + nDrops
           a        == Advance(txPv, nAdvance)
       IN /\ txNr' = WrittenRefs(txPv, k)
          /\ txWb' = (k < Len(txPv))
          /\ full' = (k < Len(txPv))
          /\ written' = written \cup ToSet(SubSeq(txPv, 1, k))
          /\ IF nAdvance > 0
             THEN /\ txPv' = a.rest
                  /\ freed' = FreeAll(freed, a.free)
                  /\ panicked' = IF a.bounds THEN "slice bounds" ELSE panicked
             ELSE UNCHANGED <<txPv, freed, panicked>>
  /\ txpc' = "dec"
  /\ UNCHANGED <<segs, input, frame, vpv, vpc, toTx, activeRefs, interest, tokens>>

\* Mutant of TxWriteDec: iomux.Update is never called from tx_write.
TxWriteDecNoUpdate ==
  /\ NoPanic /\ txpc = "dec"
  /\ activeRefs' = activeRefs - txNr
  /\ txpc' = IF txWb THEN "wait" ELSE "take"
  /\ UNCHANGED <<segs, input, frame, vpv, vpc, toTx, txPv, txNr, txWb,
                 interest, tokens, full, written, freed, panicked>>

\* if 0 == atomic.AddInt32(&intf.active_refs, -int32(nr)) { iomux.Update }
\* if would_block { break loop }
TxWriteDec ==
  /\ NoPanic /\ txpc = "dec"
  /\ activeRefs' = activeRefs - txNr
  /\ txpc' = IF activeRefs - txNr = 0 THEN "update"
             ELSE IF txWb THEN "wait" ELSE "take"
  /\ UNCHANGED <<segs, input, frame, vpv, vpc, toTx, txPv, txNr, txWb,
                 interest, tokens, full, written, freed, panicked>>

TxWriteUpdate ==
  /\ NoPanic /\ txpc = "update"
  /\ interest' = (activeRefs > 0)
  /\ txpc' = IF txWb THEN "wait" ELSE "take"
  /\ UNCHANGED <<segs, input, frame, vpv, vpc, toTx, txPv, txNr, txWb,
                 activeRefs, tokens, full, written, freed, panicked>>

-----------------------------------------------------------------------------
(* Poller and kernel                                                       *)

\* WriteReady: select { case intf.to_tx_thread <- struct{}{}: default: }
\* (a token sent to a full channel is dropped: no change).
WriteReady ==
  /\ NoPanic /\ interest /\ ~full /\ tokens < TokCap
  /\ tokens' = tokens + 1
  /\ UNCHANGED <<segs, input, frame, vpv, vpc, toTx, txPv, txpc, txNr, txWb,
                 activeRefs, interest, full, written, freed, panicked>>

\* The kernel sends queued tun packets and makes room.
KernelDrain ==
  /\ NoPanic /\ full
  /\ full' = FALSE
  /\ UNCHANGED <<segs, input, frame, vpv, vpc, toTx, txPv, txpc, txNr, txWb,
                 activeRefs, interest, tokens, written, freed, panicked>>

\* Every packet has been handed to NodeOutput and the goroutines wait.
Quiescent ==
  /\ input = <<>> /\ vpc = "idle" /\ txpc = "wait" /\ tokens = 0
  /\ UNCHANGED vars

VnetStep == NodeOutput \/ BuildVector \/ TxQueue \/ TxQueueUpdate \/ TxQueueSend
TxStep == TxThreadRecv \/ TxWriteTake \/ WritePacketVector \/ TxWriteDec \/ TxWriteUpdate

Next == VnetStep \/ TxStep \/ WriteReady \/ KernelDrain \/ Quiescent

\* The vnet loop and the tx thread are goroutines that run when they can;
\* the poller keeps reporting a writable fd it watches; the kernel
\* eventually sends what the tun queue holds.
Fairness ==
  /\ WF_vars(VnetStep) /\ WF_vars(TxStep)
  /\ WF_vars(WriteReady) /\ WF_vars(KernelDrain)

Spec == Init /\ [][Next]_vars /\ Fairness

-----------------------------------------------------------------------------
(* Properties                                                              *)

TypeOK ==
  /\ segs \in [Packets -> SegCounts]
  /\ input \in Seq(Packets) /\ frame \in Seq(Packets) /\ vpv \in Seq(Packets)
  /\ vpc \in {"idle", "build", "queue", "update", "send"}
  /\ toTx \in Seq(Seq(Packets)) /\ txPv \in Seq(Packets)
  /\ txpc \in {"wait", "take", "write", "dec", "update"}
  /\ txNr \in Nat /\ txWb \in BOOLEAN
  /\ activeRefs \in Nat /\ interest \in BOOLEAN
  /\ tokens \in 0 .. TokCap /\ full \in BOOLEAN
  /\ written \subseteq Packets /\ freed \in [Packets -> Nat]
  /\ panicked \in {"none", "tx full", "slice bounds"}

\* advance frees a packet's buffers exactly once, and only after its write
\* returned (or at once when its Si has no tuntap interface): no buffer is
\* freed while it is still queued for the tun device, none twice.
FreedOnceAfterWrite ==
  \A p \in Packets :
    /\ freed[p] <= 1
    /\ freed[p] = 1 => p \in written \cup Unknown

\* Vectors queued to the tx thread: in to_tx, in intf.pv, and the one
\* tx_queue has counted but not yet sent.
Queued ==
  FoldLeft(LAMBDA acc, v : acc + Refs(v), 0, toTx) + Refs(txPv)
    + (IF vpc \in {"update", "send"} THEN Refs(vpv) ELSE 0)

\* active_refs, added to by tx_queue and subtracted from by tx_write, is
\* the number of refs queued to the tx thread and not yet written, plus
\* the refs of a write whose subtraction is still to come.
ActiveRefsAccount ==
  activeRefs = Queued + (IF txpc = "dec" THEN txNr ELSE 0)

\* Every packet given to NodeOutput is eventually freed, active_refs drains
\* to zero and the poller stops watching for writability (WriteAvailable
\* false), whatever the order of the zero crossings of active_refs in
\* tx_queue and tx_write and their iomux.Update calls.
TxDrains ==
  <>[](/\ \A p \in Packets : freed[p] = 1
       /\ activeRefs = 0
       /\ ~interest)

=============================================================================
