------------------------------ MODULE VlanPunt ------------------------------
(***************************************************************************)
(* The vlan punt and inject nodes of vnet/ethernet (punt_1tag.go,          *)
(* punt_2tag.go).  A punt node takes frames with NTags vlan headers, looks *)
(* up a disposition by tag in punt_packet_disposition_pool, rewrites the   *)
(* header (strip, replace or skip to layer 3) and sends the frame to the   *)
(* disposition's next with its RefOpaque.  An inject node takes frames     *)
(* from a software interface, pushes that interface's tag(s) in front of   *)
(* the ethertype and picks a next, possibly alternating by vector.         *)
(*                                                                         *)
(* Node kind k is 1 (SingleTagged) or 2 (DoubleTagged).  A buffer is its   *)
(* memory as halfwords (every offset the nodes use is even); positions and *)
(* dataOffset are in bytes, as in the code.  Between the nodes a tap       *)
(* interface hands a punted frame back to inject as a fresh buffer of the  *)
(* same interface (vnet/unix, not part of these nodes).                    *)
(*                                                                         *)
(* The pool is an elib.Pool (not under src/): GetIndex reuses the last     *)
(* freed index, else appends; PutIndex of a free index does nothing; an    *)
(* element keeps its old contents when its index is reused.  The inject   *)
(* table is an elib vec: ValidateInit(i, zero) grows it to i + 1 with      *)
(* zero elements and leaves existing ones alone.                           *)
(***************************************************************************)
EXTENDS Integers, Sequences, FiniteSets, SequencesExt, TLC

CONSTANTS
  Pkt,          \* packets
  PktNode,      \* PktNode[p]: kind of the punt node p arrives at
  Frame,        \* Frame[p]: p's frame on the wire, as halfwords
  Si,           \* software interface indices (RefOpaque, inject Si)
  PuntConfigs,  \* PuntConfig values callers add
  InjectNexts,  \* next indices callers give inject AddDisposition
  InjectTags,   \* InjectTags[k]: tag pairs callers give node k's inject
  MaxDisp,      \* bound on punt_packet_disposition_pool.Len()
  HostIsNetworkByteOrder

Kinds == {1, 2}

\* ethernet.TYPE_VLAN, and the headers PuntConfig.ReplaceVlanHeaders holds.
TypeVlan == 33024
ReplaceVlanHeaders == <<<<TypeVlan, 5>>, <<TypeVlan, 6>>>>

\* hw.BufferRewriteBytes: the template's dataOffset.
BufferRewriteBytes == 64
SizeofHeader == 14
SizeofVlanHeader == 4
SizeofHeaderNoType == 12

\* Next and error indices of the punt nodes (equal in both files).
PuntNextPunt == 0
PuntNextError == 1
PuntErrorNone == 0
PuntErrorNotTagged == 1
PuntErrorUnknownDisposition == 2
InjectNextError == 0
InjectErrorUnknownInterface == 1

Stage == {"puntq", "tap", "drop", "injq", "out"}

VARIABLES
  pdisp,   \* pdisp[k][i]: dispositions[i] of node k's pool
  plen,    \* plen[k]: pool Len()
  pfree,   \* pfree[k]: free indices, last freed last
  idisp,   \* idisp[k]: node k's inject dispositions, by Si (index si + 1)
  iseq,    \* iseq[k]: n.sequence & 1 (the sequence is a uint32 counter)
  pkt,     \* pkt[p]: p's buffer, RefHeader, RefOpaque, error, next, stage
  pair     \* the node pair a behaviour exercises (see Next)

vars == <<pdisp, plen, pfree, idisp, iseq, pkt, pair>>

-----------------------------------------------------------------------------
(* Buffers                                                                 *)

MemLen(p) == BufferRewriteBytes \div 2 + Len(Frame[p])

\* RefHeader.DataOffset(o): offset + dataOffset + uint32(o) in uint32, so a
\* negative header_index converted to uint lands o bytes before the data:
\* the sum wraps to off + o whenever that is not negative (dataOffset is at
\* least 64 here and o at least -4).
DataAt(off, o) == off + o

\* The n halfwords at byte position b, and m with vals written there.
Get(m, b, n) == [j \in 1 .. n |-> m[b \div 2 + j - 1]]
Put(m, b, vals) ==
  [i \in DOMAIN m |-> IF b \div 2 <= i /\ i < b \div 2 + Len(vals)
                      THEN vals[i - b \div 2 + 1] ELSE m[i]]

\* RefHeader.Advance(i): dataOffset and dataLen are uint16.
Advance(r, i) ==
  [r EXCEPT !.off = (@ + i) % 65536, !.dlen = (@ - i) % 65536]

\* The bytes of the packet: [dataOffset, dataOffset + dataLen).
Data(r) == Get(r.mem, r.off, r.dlen \div 2)

\* A buffer from the template holding frame f.
FreshBuffer(f) ==
  [mem |-> [i \in 0 .. BufferRewriteBytes \div 2 + Len(f) - 1 |->
              IF i < BufferRewriteBytes \div 2 THEN 0 ELSE f[i - BufferRewriteBytes \div 2 + 1]],
   off |-> BufferRewriteBytes, dlen |-> 2 * Len(f)]

-----------------------------------------------------------------------------
(* punt_packet_disposition_pool                                            *)

\* A PuntConfig with Next "punt": RefOpaque's Si, AdvanceL3Header and
\* NReplaceVlanHeaders.  The zero one is what the nodes' Init add.
PuntConfig == [o : Si, l3 : BOOLEAN, nrep : 0 .. 2]
ZeroConfig == [o |-> 0, l3 |-> FALSE, nrep |-> 0]

\* The zero punt_packet_disposition; cf is the PuntConfig it was made from
\* (a history field the code does not keep).
ZeroDisp == [o |-> 0, next |-> 0, adv |-> 0, hidx |-> 0,
             rt |-> <<0, 0, 0, 0>>, cf |-> ZeroConfig]

\* GetIndex: the last freed index, else a new one at the end.
GetIndex(k) == IF pfree[k] # <<>> THEN Last(pfree[k]) ELSE plen[k]

\* add_disposition(cf, n_tags) into element d, which keeps its old
\* replace_tags where the switch on NReplaceVlanHeaders writes none.
\* cf.Next is "punt", which AddNamedNext maps to punt_Ntag_next_punt.
MakeDisposition(d, cf, ntags) ==
  LET adv == IF cf.l3 THEN SizeofHeader + ntags * SizeofVlanHeader
             ELSE SizeofVlanHeader * (ntags - cf.nrep)
  IN [o |-> cf.o, next |-> PuntNextPunt, adv |-> adv,
      hidx |-> IF cf.l3 THEN 0 ELSE adv,
      rt |-> CASE cf.nrep = 1 -> SubSeq(d.rt, 1, 2) \o ReplaceVlanHeaders[1]
               [] cf.nrep = 2 -> ReplaceVlanHeaders[1] \o ReplaceVlanHeaders[2]
               [] OTHER       -> d.rt,
      cf |-> cf]

\* Node k's AddDisposition(cf): GetIndex, then fill the element.
PuntAddDisposition(k, cf) ==
  LET i == GetIndex(k) IN
  /\ i < MaxDisp
  /\ pdisp' = [pdisp EXCEPT ![k][i] = MakeDisposition(@, cf, k)]
  /\ IF pfree[k] # <<>>
       THEN pfree' = [pfree EXCEPT ![k] = Front(@)] /\ UNCHANGED plen
       ELSE plen' = [plen EXCEPT ![k] = @ + 1] /\ UNCHANGED pfree
  /\ UNCHANGED <<idisp, iseq, pkt, pair>>

\* Mutant of PuntDelDisposition: the zero-disposition panic is gone.
PuntDelDispositionZero(k, i) ==
  /\ i \notin ToSet(pfree[k])
  /\ pfree' = [pfree EXCEPT ![k] = Append(@, i)]
  /\ UNCHANGED <<pdisp, plen, idisp, iseq, pkt, pair>>

\* del_disposition(i): panics on 0 (never asked here), else PutIndex(i),
\* which ignores an index already free.  The element is left as it was.
PuntDelDisposition(k, i) ==
  /\ i # 0
  /\ i \notin ToSet(pfree[k])
  /\ pfree' = [pfree EXCEPT ![k] = Append(@, i)]
  /\ UNCHANGED <<pdisp, plen, idisp, iseq, pkt, pair>>

-----------------------------------------------------------------------------
(* Punt nodes                                                              *)

\* The result of a punt on buffer r through disposition d with error e.
PuntResult(r, d, e, mem) ==
  Advance([r EXCEPT !.mem = mem, !.si = d.o, !.err = e,
                    !.next = IF e # PuntErrorNone THEN PuntNextError ELSE d.next,
                    !.cf = d.cf], d.adv)

\* Mutant of Punt1X1: the addresses are read after the replace_tags store.
Punt1X1NoSave(r) ==
  LET tag == Get(r.mem, r.off + SizeofHeaderNoType + 2, 1)[1]
      unknown == tag >= plen[1]
      d == pdisp[1][IF unknown THEN 0 ELSE tag]
      e == CASE Get(r.mem, r.off + SizeofHeaderNoType, 1)[1] # TypeVlan -> PuntErrorNotTagged
             [] unknown -> PuntErrorUnknownDisposition
             [] OTHER   -> PuntErrorNone
      m1 == Put(r.mem, DataAt(r.off, SizeofHeaderNoType - SizeofVlanHeader), d.rt)
  IN PuntResult(r, d, e, Put(m1, DataAt(r.off, d.hidx), Get(m1, r.off, SizeofHeaderNoType \div 2)))

\* SingleTaggedPuntNode.punt_x1: the tag is the disposition index; the
\* 12 address bytes are saved, the 8 bytes of replace_tags written at
\* offset 8 (over the last 4 address bytes), the addresses written back at
\* header_index, and the data advanced by data_advance.
Punt1X1(r) ==
  LET typ == Get(r.mem, r.off + SizeofHeaderNoType, 1)[1]
      tag == Get(r.mem, r.off + SizeofHeaderNoType + 2, 1)[1]
      unknown == tag >= plen[1]
      d == pdisp[1][IF unknown THEN 0 ELSE tag]
      e == CASE typ # TypeVlan -> PuntErrorNotTagged
             [] unknown        -> PuntErrorUnknownDisposition
             [] OTHER          -> PuntErrorNone
      h0 == Get(r.mem, r.off, SizeofHeaderNoType \div 2)
      m1 == Put(r.mem, DataAt(r.off, SizeofHeaderNoType - SizeofVlanHeader), d.rt)
  IN PuntResult(r, d, e, Put(m1, DataAt(r.off, d.hidx), h0))

\* DoubleTaggedPuntNode.punt_x1: the index is inner << 16 | outer; both
\* type fields must be TYPE_VLAN; replace_tags goes over the two vlan
\* headers, then the addresses are copied from offset 0 to header_index.
Punt2X1(r) ==
  LET q == Get(r.mem, r.off + SizeofHeaderNoType, 4)
      di == q[4] * 65536 + q[2]
      unknown == di >= plen[2]
      d == pdisp[2][IF unknown THEN 0 ELSE di]
      e == CASE q[1] # TypeVlan \/ q[3] # TypeVlan -> PuntErrorNotTagged
             [] unknown                           -> PuntErrorUnknownDisposition
             [] OTHER                             -> PuntErrorNone
      m1 == Put(r.mem, DataAt(r.off, SizeofHeaderNoType), d.rt)
  IN PuntResult(r, d, e, Put(m1, DataAt(r.off, d.hidx), Get(m1, r.off, SizeofHeaderNoType \div 2)))

PuntX1(k, r) == IF k = 1 THEN Punt1X1(r) ELSE Punt2X1(r)

\* punt_x2: punt_x1's steps on two buffers, interleaved statement by
\* statement; the two buffers share nothing, so it is two punt_x1.
PuntX2(k, r0, r1) == <<PuntX1(k, r0), PuntX1(k, r1)>>

\* The packets of vector v after NodeInput: pairs by punt_x2, then the
\* odd one by punt_x1.
PuntVector(k, v) ==
  [j \in 1 .. Len(v) |->
     IF j <= 2 * (Len(v) \div 2)
     THEN LET b == 2 * ((j + 1) \div 2) - 1 IN PuntX2(k, pkt[v[b]], pkt[v[b + 1]])[j - b + 1]
     ELSE PuntX1(k, pkt[v[j]])]

\* Stage after the punt node: next punt is the tap interface.
AfterPunt(r) == IF r.next = PuntNextPunt THEN "tap" ELSE "drop"

\* NodeInput of node k on a vector of the packets queued to it.
PuntNodeInput(k, V) ==
  LET v == SetToSeq(V)
      out == PuntVector(k, v)
  IN /\ V # {}
     /\ \A p \in V : pkt[p].stage = "puntq" /\ PktNode[p] = k
     /\ pkt' = [p \in Pkt |-> IF p \in V
                 THEN LET r == out[CHOOSE j \in 1 .. Len(v) : v[j] = p]
                      IN [r EXCEPT !.stage = AfterPunt(r)]
                 ELSE pkt[p]]
     /\ UNCHANGED <<pdisp, plen, pfree, idisp, iseq, pair>>

-----------------------------------------------------------------------------
(* Inject nodes                                                            *)

\* inject_next.set(next, offset_valid) and .get(next_offset).
NextSet(next, ov) == 2 * next + (IF ov THEN 1 ELSE 0)
NextGet(n, off) == n \div 2 + (IF n % 2 = 1 THEN off ELSE 0)

\* The zero inject_packet_disposition of sw_if_add_del.
ZeroInject == [next |-> NextSet(InjectNextError, FALSE), tags |-> <<0, 0>>]

\* vec.ValidateInit(i, zero): index i (element i + 1) exists afterwards.
ValidateInit(vec, i) ==
  IF i < Len(vec) THEN vec ELSE vec \o [j \in 1 .. i + 1 - Len(vec) |-> ZeroInject]

\* sw_if_add_del of both inject nodes, run as vnet's SwIfAddDel hooks when
\* interface si is created or deleted: the same for isUp true and false.
SwIfAddDel(si) ==
  /\ idisp' = [k \in Kinds |-> ValidateInit(idisp[k], si)]
  /\ UNCHANGED <<pdisp, plen, pfree, iseq, pkt, pair>>

\* Node k's inject AddDisposition(next, offset_valid, si, tags): the
\* single-tagged node sets tags[0] only.
InjectAddDisposition(k, next, ov, si, tags) ==
  LET vec == ValidateInit(idisp[k], si)
      d == vec[si + 1]
  IN /\ idisp' = [idisp EXCEPT ![k] = [vec EXCEPT ![si + 1] =
                    [next |-> NextSet(next, ov),
                     tags |-> IF k = 1 THEN <<tags[1], d.tags[2]>> ELSE tags]]]
     /\ UNCHANGED <<pdisp, plen, pfree, iseq, pkt, pair>>

\* The result of injecting buffer r with disposition d: the 12 address
\* bytes saved, the data moved back by the tag bytes, tag halfwords written
\* at offset 12, the addresses written back at 0.
InjectResult(r, d, tagHws, off) ==
  LET h0 == Get(r.mem, r.off, SizeofHeaderNoType \div 2)
      r1 == Advance(r, -Len(tagHws) * 2)
      m1 == Put(r1.mem, r1.off + SizeofHeaderNoType, tagHws)
  IN [r1 EXCEPT !.mem = Put(m1, r1.off, h0), !.err = InjectErrorUnknownInterface,
                !.next = NextGet(d.next, off), !.itags = d.tags]

\* SingleTaggedInjectNode.inject_x1.
Inject1X1(r, off) ==
  LET d == idisp[1][r.si + 1] IN InjectResult(r, d, <<TypeVlan, d.tags[1]>>, off)

\* Mutant of Inject2X1: the network-order layout on every host.
Inject2X1TagsSwapped(r, off) ==
  LET d == idisp[2][r.si + 1]
  IN InjectResult(r, d, <<TypeVlan, d.tags[2], TypeVlan, d.tags[1]>>, off)

\* DoubleTaggedInjectNode.inject_x1: one uint64 store of t | tags, its
\* halfwords in memory order; on a network-order host tags[0] is shifted
\* to bits 0..15 and tags[1] to bits 32..47.
Inject2X1(r, off) ==
  LET d == idisp[2][r.si + 1]
      o0 == IF HostIsNetworkByteOrder
            THEN <<TypeVlan, d.tags[2], TypeVlan, d.tags[1]>>
            ELSE <<TypeVlan, d.tags[1], TypeVlan, d.tags[2]>>
  IN InjectResult(r, d, o0, off)

InjectX1(k, r, off) == IF k = 1 THEN Inject1X1(r, off) ELSE Inject2X1(r, off)

\* inject_x2: two inject_x1 with the vector's next_offset.
InjectX2(k, r0, r1, off) == <<InjectX1(k, r0, off), InjectX1(k, r1, off)>>

InjectVector(k, v, off) ==
  [j \in 1 .. Len(v) |->
     IF j <= 2 * (Len(v) \div 2)
     THEN LET b == 2 * ((j + 1) \div 2) - 1 IN InjectX2(k, pkt[v[b]], pkt[v[b + 1]], off)[j - b + 1]
     ELSE InjectX1(k, pkt[v[j]], off)]

\* NodeInput of inject node k: next_offset is the low bit of the
\* incremented sequence, one per vector.
InjectNodeInput(k, V) ==
  LET v == SetToSeq(V)
      off == (iseq[k] + 1) % 2
      out == InjectVector(k, v, off)
  IN /\ V # {}
     /\ \A p \in V : pkt[p].stage = "injq" /\ PktNode[p] = k
     /\ iseq' = [iseq EXCEPT ![k] = off]
     /\ pkt' = [p \in Pkt |-> IF p \in V
                 THEN [out[CHOOSE j \in 1 .. Len(v) : v[j] = p] EXCEPT !.stage = "out"]
                 ELSE pkt[p]]
     /\ UNCHANGED <<pdisp, plen, pfree, idisp, pair>>

\* The tap interface of RefOpaque's Si sends the punted bytes to the
\* kernel, which writes them back; rx puts them in a fresh buffer of that
\* interface.  The interface exists, so its hooks have run; what comes
\* back is an ethernet frame (a layer-3 punt never returns through it).
TapEcho(p) ==
  LET r == pkt[p] IN
  /\ r.stage = "tap"
  /\ r.dlen >= SizeofHeader
  /\ r.si < Len(idisp[PktNode[p]])
  /\ pkt' = [pkt EXCEPT ![p] = [FreshBuffer(Data(r)) @@ r EXCEPT !.stage = "injq"]]
  /\ UNCHANGED <<pdisp, plen, pfree, idisp, iseq, pair>>

-----------------------------------------------------------------------------

\* The nodes' Init: AddDisposition(PuntConfig{Next: "punt"}) is index 0.
Init ==
  /\ pdisp = [k \in Kinds |-> [i \in 0 .. MaxDisp - 1 |->
               IF i = 0 THEN MakeDisposition(ZeroDisp, ZeroConfig, k) ELSE ZeroDisp]]
  /\ plen = [k \in Kinds |-> 1]
  /\ pfree = [k \in Kinds |-> <<>>]
  /\ idisp = [k \in Kinds |-> <<>>]
  /\ iseq = [k \in Kinds |-> 0]
  /\ pair \in Kinds
  /\ pkt = [p \in Pkt |-> FreshBuffer(Frame[p]) @@
              [si |-> 0, err |-> 0, next |-> 0, cf |-> ZeroConfig,
               itags |-> <<0, 0>>, stage |-> "puntq"]]

\* The single- and double-tagged pairs share no state (each sw_if_add_del
\* hook touches only its own node's table), and every property is about
\* the packets of one pair; a behaviour of both is an interleaving of one
\* of each.  So a behaviour exercises one pair, chosen at Init, and the
\* two state spaces add up instead of multiplying.
Next ==
  LET k == pair IN
  \/ \E cf \in PuntConfigs : PuntAddDisposition(k, cf)
  \/ \E i \in 0 .. plen[k] - 1 : PuntDelDisposition(k, i)
  \/ \E si \in Si : SwIfAddDel(si)
  \/ \E next \in InjectNexts, ov \in BOOLEAN, si \in Si, tags \in InjectTags[k] :
       InjectAddDisposition(k, next, ov, si, tags)
  \/ \E V \in SUBSET Pkt : PuntNodeInput(k, V)
  \/ \E p \in Pkt : TapEcho(p)
  \/ \E V \in SUBSET Pkt : InjectNodeInput(k, V)

Spec == Init /\ [][Next]_vars

-----------------------------------------------------------------------------
(* Properties                                                              *)

TypeOK ==
  /\ \A k \in Kinds :
       /\ plen[k] \in 1 .. MaxDisp
       /\ pfree[k] \in Seq(1 .. plen[k] - 1)
       /\ \A i \in DOMAIN pdisp[k] : pdisp[k][i].cf \in PuntConfig
       /\ \A j \in DOMAIN idisp[k] : idisp[k][j].tags \in Seq(Int)
       /\ iseq[k] \in 0 .. 1
  /\ \A p \in Pkt : /\ pkt[p].stage \in Stage
                    /\ pkt[p].off \in 0 .. 65535
                    /\ pkt[p].dlen \in 0 .. 65535

\* What a frame of k vlan headers should become under PuntConfig cf: with
\* AdvanceL3Header, the bytes after the ethertype; otherwise the
\* addresses, cf's NReplaceVlanHeaders headers instead of the k vlan
\* headers, and the rest.
PuntReference(f, k, cf) ==
  IF cf.l3 THEN SubSeq(f, 8 + 2 * k, Len(f))
  ELSE SubSeq(f, 1, 6) \o FlattenSeq(SubSeq(ReplaceVlanHeaders, 1, cf.nrep))
         \o SubSeq(f, 7 + 2 * k, Len(f))

\* punt_x1 / punt_x2 of both nodes: a frame the punt node sends to the tap
\* interface is the reference rewrite of the frame that arrived under the
\* disposition it was looked up by, for every PuntConfig, with negative
\* header_index, with replace_tags partly left over from a deleted
\* disposition whose index was reused, and with the address bytes the
\* replace_tags store overwrites.
PuntRewrite ==
  \A p \in Pkt : pkt[p].stage = "tap" =>
    Data(pkt[p]) = PuntReference(Frame[p], PktNode[p], pkt[p].cf)

\* The vlan tags of frame f at a node of kind k.
FrameTags(f, k) == IF k = 1 THEN <<f[8]>> ELSE <<f[8], f[10]>>

\* Punt then inject: a frame punted by a stripping disposition (no
\* replacement, no L3 advance) and injected through an interface whose
\* inject disposition holds the frame's tags leaves inject as it arrived
\* at punt: inject_x1 puts the tags back in order in front of the
\* ethertype and the addresses in front of them.
RoundTrip ==
  \A p \in Pkt :
    LET k == PktNode[p] IN
    (/\ pkt[p].stage = "out"
     /\ pkt[p].cf.nrep = 0 /\ ~pkt[p].cf.l3
     /\ SubSeq(pkt[p].itags, 1, k) = FrameTags(Frame[p], k))
      => Data(pkt[p]) = Frame[p]

====
