---------------------------- MODULE MemAddrCtrl ----------------------------
(***************************************************************************)
(* plab5_mcore_mem_addr_ctrl_fsm: the controller that guards a main memory *)
(* with an address partition.  Addresses below par_ctrl_reg are public;    *)
(* the others may be reached by requests of domain 1 only, a request of    *)
(* domain 0 for them gets a made-up response and the insecure flag.        *)
(* One step is one clock edge.                                             *)
(***************************************************************************)
EXTENDS MemMsgs

CONSTANT InitialPar  \* initial_par: the partition after reset

ASSUME InitialParAssumption == InitialPar \in Nat

VARIABLES
  ctl_state,     \* state_reg
  ctl_req,       \* req_addr, req_control, req_data, resp_sec_level_pre
  par_ctrl_reg   \* the partition control register

ctlVars == <<ctl_state, ctl_req, par_ctrl_reg>>

CtlStates ==
  {"IDLE", "SEC_CHECK", "MEM_REQ", "MEM_RESP", "FAKE_RESP", "CH_PAR"}

CtlTypeOK ==
  /\ ctl_state \in CtlStates
  /\ ctl_req \in Req \cup {NoMsg}
  /\ par_ctrl_reg \in Nat

CtlInit ==
  /\ ctl_state = "IDLE"
  /\ ctl_req = NoMsg
  /\ par_ctrl_reg = InitialPar

-----------------------------------------------------------------------------
(* Outputs. *)

Public(addr) == addr < par_ctrl_reg

CtlReqRdy == ctl_state = "IDLE"

(* The request on the memory port: one cycle, whatever mem_req_rdy says. *)
CtlMemReq == IF ctl_state = "MEM_REQ" THEN ctl_req ELSE NoMsg

Insecure == ctl_state = "FAKE_RESP"

(* Mutant: the two levels exchanged. *)
RelabelSwapped(resp) ==
  [type |-> resp.type, tag |-> resp.tag, data |-> resp.data,
   domain |-> IF Public(ctl_req.addr) THEN 1 ELSE 0]

(* The response port: the memory's response of this very cycle, relabelled *)
(* with the level of its address, or a made-up one at the requester's      *)
(* level.                                                                  *)
Relabel(resp) ==
  [type |-> resp.type, tag |-> resp.tag, data |-> resp.data,
   domain |-> IF Public(ctl_req.addr) THEN 0 ELSE 1]

(* Mutant: the type of the request not copied. *)
MadeUpRead ==
  [type |-> "read", tag |-> ctl_req.tag, data |-> Unknown,
   domain |-> ctl_req.domain]

(* mem2cache_resp_control_dump is cut out of the request at the bit        *)
(* positions of a 32-bit message.  At the 128 bits of the top module this  *)
(* is the whole opaque field and the low two bits of the type, which is    *)
(* the type of a read or a write; len, not modelled, gets address bits.    *)
MadeUp ==
  [type |-> ctl_req.type, tag |-> ctl_req.tag, data |-> Unknown,
   domain |-> ctl_req.domain]

(* Mutant: a refused request gets no response. *)
CtlRespOutSilent(memresp) ==
  IF ctl_state = "MEM_RESP" /\ memresp # NoMsg THEN Relabel(memresp) ELSE NoMsg

CtlRespOut(memresp) ==
  CASE ctl_state = "MEM_RESP" /\ memresp # NoMsg -> Relabel(memresp)
    [] ctl_state = "FAKE_RESP"                   -> MadeUp
    [] OTHER                                     -> NoMsg

(* Mutant: the default of the output block not overridden in MEM_RESP. *)
CtlMemRespRdyNever(rdy) == FALSE

(* mem_resp_rdy: the consumer's ready, in MEM_RESP only. *)
CtlMemRespRdy(rdy) == ctl_state = "MEM_RESP" /\ rdy

-----------------------------------------------------------------------------
(* IDLE: a request has priority over a new partition. *)
CtlAccept(req) ==
  /\ ctl_state = "IDLE"
  /\ req # NoMsg
  /\ ctl_req' = req
  /\ ctl_state' = "SEC_CHECK"
  /\ UNCHANGED par_ctrl_reg

CtlStartPar(req, par_en) ==
  /\ ctl_state = "IDLE"
  /\ req = NoMsg
  /\ par_en
  /\ ctl_state' = "CH_PAR"
  /\ UNCHANGED <<ctl_req, par_ctrl_reg>>

CtlStayIdle(req, par_en) ==
  /\ ctl_state = "IDLE"
  /\ req = NoMsg
  /\ ~par_en
  /\ UNCHANGED ctlVars

(* Mutant: <= for <. *)
CtlAllowOffByOne ==
  /\ ctl_state = "SEC_CHECK"
  /\ ctl_req.domain = 1 \/ ctl_req.addr <= par_ctrl_reg
  /\ ctl_state' = "MEM_REQ"
  /\ UNCHANGED <<ctl_req, par_ctrl_reg>>

CtlAllow ==
  /\ ctl_state = "SEC_CHECK"
  /\ ctl_req.domain = 1 \/ Public(ctl_req.addr)
  /\ ctl_state' = "MEM_REQ"
  /\ UNCHANGED <<ctl_req, par_ctrl_reg>>

(* Mutant: the level of the request not looked at. *)
CtlRefuseAnyone ==
  /\ ctl_state = "SEC_CHECK"
  /\ ~Public(ctl_req.addr)
  /\ ctl_state' = "FAKE_RESP"
  /\ UNCHANGED <<ctl_req, par_ctrl_reg>>

CtlRefuse ==
  /\ ctl_state = "SEC_CHECK"
  /\ ctl_req.domain = 0 /\ ~Public(ctl_req.addr)
  /\ ctl_state' = "FAKE_RESP"
  /\ UNCHANGED <<ctl_req, par_ctrl_reg>>

CtlIssue ==
  /\ ctl_state = "MEM_REQ"
  /\ ctl_state' = "MEM_RESP"
  /\ UNCHANGED <<ctl_req, par_ctrl_reg>>

(* MEM_RESP and FAKE_RESP last one cycle, whether or not a response is     *)
(* there and whether or not it is taken.                                   *)
CtlFinish ==
  /\ ctl_state \in {"MEM_RESP", "FAKE_RESP"}
  /\ ctl_state' = "IDLE"
  /\ UNCHANGED <<ctl_req, par_ctrl_reg>>

(* CH_PAR: the latch takes the value par_addr has in this cycle. *)
CtlChangePar(par_addr) ==
  /\ ctl_state = "CH_PAR"
  /\ par_ctrl_reg' = par_addr
  /\ ctl_state' = "IDLE"
  /\ UNCHANGED ctl_req

CtlTick(req, par_en, par_addr) ==
  \/ CtlAccept(req)
  \/ CtlStartPar(req, par_en)
  \/ CtlStayIdle(req, par_en)
  \/ CtlAllow
  \/ CtlRefuse
  \/ CtlIssue
  \/ CtlFinish
  \/ CtlChangePar(par_addr)
=============================================================================
