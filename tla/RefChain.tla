------------------------------ MODULE RefChain ------------------------------
(***************************************************************************)
(* hw.RefChain (elib/hw/buf.go): a caller builds one multi-segment packet *)
(* by Append-ing refs it obtained elsewhere.  The chain keeps the head    *)
(* ref, the running byte count, and two pointers: tail, the RefHeader     *)
(* word the next Append writes, and prev_tail, the word that must get     *)
(* NextValid when it does.  A pointer is a location: &c.head or a        *)
(* buffer slot s (the nextRef word in buffer s's header).                  *)
(*                                                                         *)
(* The refs to append are given in Init: one per buffer, each a single    *)
(* segment, except that with MultiSegment the ref of buffer 0 arrives     *)
(* already linked to buffer 1 (as LinkRefs leaves it), the case Append's  *)
(* comment calls "everything already chained after it".                    *)
(***************************************************************************)
EXTENDS Integers, Sequences, SequencesExt, FiniteSets

CONSTANTS
  NSlots,        \* buffers in play
  Lens,          \* dataLen values a segment may have
  MultiSegment   \* buffer 0's ref arrives as a two-segment chain

ASSUME NSlots \in Nat /\ NSlots >= 2 /\ Lens \subseteq Nat \ {0}
ASSUME MultiSegment \in BOOLEAN

Slot == 0 .. NSlots - 1
\* Pointer values that are not a buffer's nextRef word: nil and &c.head.
Nil == -2
HeadLoc == -1
Loc == {HeadLoc} \cup Slot

\* The RefHeader fields the chain follows: offset and NextValid flag.  A
\* ref's dataLen is the same in every copy of it: dlen[offset].
RefHeader == [off : Slot, nv : BOOLEAN]
ZeroHeader == [off |-> 0, nv |-> FALSE]

VARIABLES
  buf,        \* buf[s]: nextRef word of buffer s
  head,       \* c.head.RefHeader
  clen,       \* c.len
  tail,       \* c.tail
  prevTail,   \* c.prev_tail
  pending,    \* refs the caller still has to append
  appended,   \* history: buffers appended so far, in order, with their chains
  dlen        \* dlen[s]: dataLen of the refs to buffer s

vars == <<buf, head, clen, tail, prevTail, pending, appended, dlen>>

-----------------------------------------------------------------------------

\* RefHeader.NextRef walk: the buffers of the chain from ref r, with the
\* RefHeader word of each step.  fuel bounds the walk.
RECURSIVE Walk(_, _, _)
Walk(r, bf, fuel) ==
  <<r>> \o (IF r.nv /\ fuel > 0 THEN Walk(bf[r.off], bf, fuel - 1) ELSE <<>>)

SumLen(ws) == FoldLeft(LAMBDA acc, w : acc + dlen[w.off], 0, ws)

\* RefHeader.ChainLen from the head.
ChainLen(hd, bf) == SumLen(Walk(hd, bf, NSlots))

Init ==
  /\ dlen \in [Slot -> Lens]
  /\ LET single(s) == [off |-> s, nv |-> FALSE]
       IN IF MultiSegment
          THEN /\ buf = [s \in Slot |-> IF s = 0 THEN single(1) ELSE ZeroHeader]
               /\ pending = {[single(0) EXCEPT !.nv = TRUE]}
                              \cup {single(s) : s \in Slot \ {0, 1}}
          ELSE /\ buf = [s \in Slot |-> ZeroHeader]
               /\ pending = {single(s) : s \in Slot}
  /\ head = ZeroHeader
  /\ clen = 0
  /\ tail = Nil
  /\ prevTail = Nil
  /\ appended = <<>>

\* *c.tail = *r, c.tail defaulting to &c.head: the words [hd, bf] after.
WriteTail(t, r) ==
  IF t = HeadLoc THEN [hd |-> r, bf |-> buf] ELSE [hd |-> head, bf |-> [buf EXCEPT ![t] = r]]

\* Mutant of FlagPrevTail: prev_tail never gets NextValid.
FlagPrevTailNone(w) == w

\* if c.prev_tail != nil { c.prev_tail.SetFlags(NextValid) }
FlagPrevTail(w) ==
  CASE prevTail = HeadLoc -> [w EXCEPT !.hd.nv = TRUE]
    [] prevTail \in Slot -> [w EXCEPT !.bf[prevTail].nv = TRUE]
    [] OTHER             -> w

\* Mutant of AddLen: c.len = instead of c.len +=.
AddLenAssign(l, ws) == SumLen(ws)

\* c.addLen(r), then c.addLen(x) for each segment chained after r.
AddLen(l, ws) == l + SumLen(ws)

\* RefChain.Append(r) (Append is taken by Sequences): count r and every segment chained after it; write
\* r into the tail word; flag prev_tail NextValid; walk r's chain to its
\* last segment: prev_tail becomes the word r was written to, and tail the
\* nextRef word of the last segment's buffer.
AppendRef(r) ==
  LET t0 == IF tail = Nil THEN HeadLoc ELSE tail
      w  == FlagPrevTail(WriteTail(t0, r))
      ws == Walk(r, w.bf, NSlots)
  IN /\ r \in pending
     /\ clen' = AddLen(clen, ws)
     /\ head' = w.hd
     /\ buf' = w.bf
     /\ prevTail' = t0
     /\ tail' = Last(ws).off
     /\ pending' = pending \ {r}
     /\ appended' = appended \o [i \in 1 .. Len(ws) |-> ws[i].off]
     /\ UNCHANGED dlen

\* The caller has appended everything it had.
Finished == pending = {} /\ UNCHANGED vars

Next == (\E r \in pending : AppendRef(r)) \/ Finished

Spec == Init /\ [][Next]_vars

-----------------------------------------------------------------------------

TypeOK ==
  /\ buf \in [Slot -> RefHeader]
  /\ head \in RefHeader
  /\ clen \in Nat
  /\ tail \in Slot \cup {Nil}
  /\ prevTail \in Loc \cup {Nil}
  /\ pending \subseteq RefHeader
  /\ dlen \in [Slot -> Lens]

\* RefChain.Validate / spec 8.3: the byte count kept by Append equals
\* ChainLen() walked from the head.
LenMatches == appended # <<>> => clen = ChainLen(head, buf)

\* Spec 8.3: walking NextRef from the head visits exactly the appended
\* segments, in append order.
WalkMatches ==
  appended # <<>> =>
    LET ws == Walk(head, buf, NSlots) IN [i \in 1 .. Len(ws) |-> ws[i].off] = appended

=============================================================================
