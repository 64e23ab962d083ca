----------------------------- MODULE DMAChecker -----------------------------
(***************************************************************************)
(* plab5_mcore_DMA_checker: stands between the on-chip network and the DMA *)
(* controller.  A request below the controller's level is answered without *)
(* being passed on.  A request names the core it came from (the high bits  *)
(* of its opaque field) and its level; the rest is the job.                *)
(* One step is one clock edge.                                             *)
(***************************************************************************)
EXTENDS DMAController

CONSTANTS
  Core,      \* the cores on the network
  DmaDomain  \* dma_domain: secure_reg of the controller

ASSUME DmaDomainAssumption == DmaDomain \in Domain

VARIABLES
  chk_state,  \* state_reg
  chk_reg     \* noc_{domain,src_addr,dest_addr,req_control}_reg

chkVars == <<chk_state, chk_reg>>

NocReq == [core : Core, domain : Domain, src : Addr, dest : Addr]

ASSUME NocReqAssumption == NoMsg \notin NocReq

ChkTypeOK ==
  /\ chk_state \in {"IDLE", "NOC_CHECK", "NOC_REQ", "NOC_WAIT", "NOC_RESP"}
  /\ chk_reg \in NocReq \cup {NoMsg}

ChkInit ==
  /\ chk_state = "IDLE"
  /\ chk_reg = NoMsg

-----------------------------------------------------------------------------
(* Outputs. *)

ChkNocRdy == chk_state \in {"IDLE", "NOC_RESP"}
ChkNocAck == chk_state = "NOC_RESP"

ChkJob ==
  IF chk_state = "NOC_REQ" THEN [src |-> chk_reg.src, dest |-> chk_reg.dest]
                           ELSE NoMsg

-----------------------------------------------------------------------------
(* The registers load in every cycle with noc_val, in any state. *)
ChkLoad(noc) == chk_reg' = IF noc = NoMsg THEN chk_reg ELSE noc

ChkIdle(noc) ==
  /\ chk_state = "IDLE"
  /\ chk_state' = IF noc = NoMsg THEN "IDLE" ELSE "NOC_CHECK"

(* Mutants: no check; and a refused request without an answer. *)
ChkCheckNothing ==
  /\ chk_state = "NOC_CHECK"
  /\ chk_state' = "NOC_REQ"

ChkCheckSilent ==
  /\ chk_state = "NOC_CHECK"
  /\ chk_state' = IF chk_reg.domain >= DmaDomain THEN "NOC_REQ" ELSE "IDLE"

ChkCheck ==
  /\ chk_state = "NOC_CHECK"
  /\ chk_state' = IF chk_reg.domain >= DmaDomain THEN "NOC_REQ" ELSE "NOC_RESP"

(* dma_val is high for this one cycle, whatever dma_rdy says. *)
ChkPass ==
  /\ chk_state = "NOC_REQ"
  /\ chk_state' = "NOC_WAIT"

(* Mutants: the ack not waited for; and no NOC_RESP after it. *)
ChkWaitNot ==
  /\ chk_state = "NOC_WAIT"
  /\ chk_state' = "NOC_RESP"

ChkWaitForgets ==
  /\ chk_state = "NOC_WAIT"
  /\ chk_state' = IF DmacAck THEN "IDLE" ELSE "NOC_WAIT"

ChkWait ==
  /\ chk_state = "NOC_WAIT"
  /\ chk_state' = IF DmacAck THEN "NOC_RESP" ELSE "NOC_WAIT"

ChkRespond ==
  /\ chk_state = "NOC_RESP"
  /\ chk_state' = "IDLE"

ChkTick(noc) ==
  /\ ChkLoad(noc)
  /\ ChkIdle(noc) \/ ChkCheck \/ ChkPass \/ ChkWait \/ ChkRespond
=============================================================================
