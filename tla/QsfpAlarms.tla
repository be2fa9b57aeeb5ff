------------------------------ MODULE QsfpAlarms ------------------------------
(***************************************************************************)
(* The qsfp daemon's decoding of a module's lower memory page               *)
(* (goes/cmd/qsfp/qsfp.go): DynamicBlocks copies the flag and monitor      *)
(* bytes out of the 32-byte block read of the page, ChannelAlarms and      *)
(* FreeSideAlarms turn the flag bytes into the alarm lists updateMonitor   *)
(* publishes under port-N.qsfp.rxL.alarms, port-N.qsfp.txL.alarms and      *)
(* port-N.qsfp.alarms, and Temp decodes the temperature.                   *)
(*                                                                         *)
(* A page is a function from byte offsets to byte values.  The block read  *)
(* hands the page over as D with D[k] holding page byte k-1 (D[0] is the   *)
(* I2C block length).  An alarm list is the set of its names: the code     *)
(* appends names in a fixed order, trims the last comma and writes "none"  *)
(* for an empty list, so the string is a function of the set.  A          *)
(* temperature is kept in the module's unit, 1/256 degree C; the          *)
(* FormatFloat rounding to one decimal is left out.                        *)
(***************************************************************************)
EXTENDS Integers, Sequences, FiniteSets, Bitwise

PageBytes == 0 .. 31

\* (1 << n) & x != 0
BitSet(x, n) == (x \div 2^n) % 2 = 1

\* The words DynamicBlocks stores in portLpage0[port] from the lpage0b block.
DynamicBlocks(pg) ==
  LET D(k) == pg[k - 1]
  IN [id |-> D(1),
      status |-> D(2) + D(3) * 256,
      channelStatusInterrupt |-> [j \in 0 .. 2 |-> D(4 + j)],
      freeMonitorInterruptFlags |-> [j \in 0 .. 2 |-> D(7 + j)],
      channelMonitorInterruptFlags |-> [j \in 0 .. 5 |-> D(10 + j)],
      freeMonTemp |-> D(24) + D(23) * 256,
      freeMonVoltage |-> D(28) + D(27) * 256]

\* The levels the code names for bits 4, 5, 6 and 7 of a monitor nibble.
Levels == <<"LowWarn", "HighWarn", "LowAlarm", "HighAlarm">>

StatusFlag(x, n, name) == IF BitSet(x, n) THEN {name} ELSE {}

\* Mutant: the nibble is not moved, so lanes 2 and 4 read the bits of
\* lanes 1 and 3.
LevelFlagsNoShift(x, sh, q) ==
  {q \o Levels[n - 3] : n \in {m \in 4 .. 7 : BitSet(x, m)}}

\* The levels of quantity q flagged in byte x, the nibble moved down by sh.
LevelFlags(x, sh, q) == {q \o Levels[n - 3] : n \in {m \in 4 .. 7 : BitSet(x, m - sh)}}

\* FreeSideAlarms: temperature flags in t[0], supply voltage flags in t[1].
FreeSideAlarms(t) == LevelFlags(t[0], 0, "Temp") \cup LevelFlags(t[1], 0, "Vcc")

\* ChannelAlarms: v[i] is receive lane i+1, v[i+4] transmit lane i+1; lanes
\* 1 and 3 take the upper nibble of their monitor byte, lanes 2 and 4 the
\* lower one.
ChannelAlarms(t, w) ==
  [c \in 0 .. 7 |->
     LET i == c % 4
         sh == (i % 2) * 4
     IN IF c < 4
        THEN StatusFlag(t[0], i, "RxLos") \cup StatusFlag(t[2], i, "RxCdrLol")
             \cup LevelFlags(w[i \div 2], sh, "Power")
        ELSE StatusFlag(t[0], i + 4, "TxLos") \cup StatusFlag(t[1], i, "TxFault")
             \cup StatusFlag(t[1], i + 4, "TxEqFault")
             \cup StatusFlag(t[2], i + 4, "TxCdrLol")
             \cup LevelFlags(w[i \div 2 + 2], sh, "Bias")
             \cup LevelFlags(w[i \div 2 + 4], sh, "Power")]

\* The keys updateMonitor publishes alarms under.
Rx(l) == <<"rx", l>>
Tx(l) == <<"tx", l>>
Module == <<"module", 0>>
AlarmKeys == {Rx(l) : l \in 1 .. 4} \cup {Tx(l) : l \in 1 .. 4} \cup {Module}

\* updateMonitor's alarm lists for a page: vs[x] goes to rx(x+1) for x < 4
\* and to tx(x-3) otherwise, FreeSideAlarms to the port's own key.
MonitorAlarms(pg) ==
  LET b == DynamicBlocks(pg)
      vs == ChannelAlarms(b.channelStatusInterrupt, b.channelMonitorInterruptFlags)
  IN [k \in AlarmKeys |->
        CASE k = Module -> FreeSideAlarms(b.freeMonitorInterruptFlags)
          [] k[1] = "rx" -> vs[k[2] - 1]
          [] OTHER -> vs[k[2] + 3]]

\* Temp (and the same lines of CheckTemp): the word read as two's complement.
Temp(t) == IF BitSet(t, 15) THEN -((t ^^ 65535) + 1) ELSE t

-----------------------------------------------------------------------------
(* The reference: SFF-8636 lower page, bytes 3-14 and 22-23.               *)

\* The bit of each monitor level within a lane's nibble.
LevelBit == [LowWarn |-> 0, HighWarn |-> 1, LowAlarm |-> 2, HighAlarm |-> 3]

\* Byte 3: Rx LOS (bits 0-3) and Tx LOS (4-7); byte 4: Tx fault and Tx
\* adaptive equalization fault; byte 5: Rx and Tx CDR loss of lock.
LaneFlags ==
  UNION {{[byte |-> 3, bit |-> l - 1, key |-> Rx(l), name |-> "RxLos"],
          [byte |-> 3, bit |-> l + 3, key |-> Tx(l), name |-> "TxLos"],
          [byte |-> 4, bit |-> l - 1, key |-> Tx(l), name |-> "TxFault"],
          [byte |-> 4, bit |-> l + 3, key |-> Tx(l), name |-> "TxEqFault"],
          [byte |-> 5, bit |-> l - 1, key |-> Rx(l), name |-> "RxCdrLol"],
          [byte |-> 5, bit |-> l + 3, key |-> Tx(l), name |-> "TxCdrLol"]}
         : l \in 1 .. 4}

\* Bytes 9-10 Rx power, 11-12 Tx bias, 13-14 Tx power: two lanes a byte,
\* the odd lane in bits 7-4.
MonitorFlags ==
  LET Quantity == {<<9, "Power", "rx">>, <<11, "Bias", "tx">>, <<13, "Power", "tx">>}
  IN {[byte |-> q[1] + (l - 1) \div 2,
       bit |-> LevelBit[lv] + (IF l % 2 = 1 THEN 4 ELSE 0),
       key |-> <<q[3], l>>, name |-> q[2] \o lv]
      : q \in Quantity, l \in 1 .. 4, lv \in DOMAIN LevelBit}

\* Byte 6 temperature, byte 7 supply voltage, in bits 7-4.
FreeSideFlags ==
  {[byte |-> q[1], bit |-> LevelBit[lv] + 4, key |-> Module, name |-> q[2] \o lv]
   : q \in {<<6, "Temp">>, <<7, "Vcc">>}, lv \in DOMAIN LevelBit}

Sff8636Flags == LaneFlags \cup MonitorFlags \cup FreeSideFlags

RefAlarms(pg) ==
  [k \in AlarmKeys |->
     {f.name : f \in {g \in Sff8636Flags : g.key = k /\ BitSet(pg[g.byte], g.bit)}}]

\* Bytes 22-23: signed, most significant byte first, 1/256 degree C.
RefTemp(pg) ==
  LET raw == pg[22] * 256 + pg[23] IN IF raw >= 2^15 THEN raw - 2^16 ELSE raw

\* The pages checked: the empty page, every page with one bit set in bytes
\* 2-15 (the flag bytes and their neighbours), the page with all of them
\* set, and temperatures at the edges of the two's complement range.
ZeroPage == [o \in PageBytes |-> 0]
TestPages ==
  {ZeroPage}
  \cup {[ZeroPage EXCEPT ![o] = 2^n] : o \in 2 .. 15, n \in 0 .. 7}
  \cup {[o \in PageBytes |-> IF o \in 2 .. 15 THEN 255 ELSE 0]}
  \cup {[ZeroPage EXCEPT ![22] = hi, ![23] = lo]
        : hi \in {0, 1, 127, 128, 255}, lo \in {0, 1, 255}}

\* updateMonitor's alarm lists and DynamicBlocks' temperature for page pg
\* are SFF-8636's reading of it.
Decodes(pg) ==
  /\ MonitorAlarms(pg) = RefAlarms(pg)
  /\ Temp(DynamicBlocks(pg).freeMonTemp) = RefTemp(pg)

TestPagesDecode == \A pg \in TestPages : Decodes(pg)

=============================================================================
