------------------------------- MODULE MemPath -------------------------------
(***************************************************************************)
(* The data memory path of plab5_mcore_ProcNetCacheMem: data_mem_arbiter,  *)
(* data_mem_addr_ctrl and data_mem, wired as the top module wires them.    *)
(* All registers load on the same clock edge, so a step of the path is a   *)
(* step of each of its parts.                                              *)
(***************************************************************************)
EXTENDS MemArbiter, MemAddrCtrl, TestMem

pathVars == <<arbVars, ctlVars, memVars>>

PathTypeOK == ArbTypeOK /\ CtlTypeOK /\ MemTypeOK

PathInit == ArbInit /\ CtlInit /\ MemInit

(* What the address controller answers the arbiter in this cycle.  The     *)
(* arbiter's resp_rdy is 1 in every state.                                 *)
PathResp == CtlRespOut(MemRespOut)

(* in0 and in1 are the request ports of the arbiter.  par_en and par_addr  *)
(* of the address controller are left unconnected by the top module.       *)
PathTick(in0, in1) ==
  /\ ArbTick(in0, in1, PathResp)
  /\ CtlTick(ArbReq, FALSE, InitialPar)
  /\ MemTick(CtlMemReq, CtlMemRespRdy(TRUE))
=============================================================================
