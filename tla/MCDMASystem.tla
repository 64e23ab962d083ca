---------------------------- MODULE MCDMASystem ----------------------------
(* Small instances of DMASystem: two addresses that hold different data,   *)
(* and the debug instructions of either level that copy one to the other,  *)
(* or none.                                                                *)
EXTENDS DMASystem

CONSTANTS d1, d2

MCAddr       == {0, 1}
MCTag        == {"dma"}
MCInitMem    == [a \in MCAddr |-> IF a = 0 THEN d1 ELSE d2]
MCDebugInsts == {inst \in DebugInst : inst.src # inst.dest}
MCNoDebug    == {}
=============================================================================
