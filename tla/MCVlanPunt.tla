----------------------------- MODULE MCVlanPunt -----------------------------
(* Three frames: single-tagged with tag 1 (a disposition callers add) and *)
(* tag 0 (the nodes' Init disposition), and double-tagged with outer tag  *)
(* 1 and inner tag 0 (index 0 << 16 | 1).                                  *)
EXTENDS VlanPunt

MCPkt == {"a", "b", "c"}
MCPktNode == [p \in MCPkt |-> IF p = "b" THEN 2 ELSE 1]
MCFrame ==
  [p \in MCPkt |->
     CASE p = "a" -> <<11, 12, 13, 14, 15, 16, TypeVlan, 1, 2048, 7>>
       [] p = "b" -> <<11, 12, 13, 14, 15, 16, TypeVlan, 1, TypeVlan, 0, 2048, 7>>
       [] p = "c" -> <<21, 22, 23, 24, 25, 26, TypeVlan, 0, 2048, 8>>]
MCSi == {0, 1}
MCPuntConfigs == {cf \in PuntConfig : cf.o = 1}
MCInjectNexts == {2}
MCInjectTags == [k \in Kinds |-> IF k = 1 THEN {<<0, 0>>, <<1, 0>>} ELSE {<<1, 0>>}]
=============================================================================
