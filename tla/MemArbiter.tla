----------------------------- MODULE MemArbiter -----------------------------
(***************************************************************************)
(* plab5_mcore_mem_arbiter: the two-port arbiter in front of the shared    *)
(* data memory.  Port 0 is the L2 data cache, port 1 the DMA controller.   *)
(*                                                                         *)
(* A step is one rising clock edge.  The inputs of the clock cycle are     *)
(* the parameters of an action: a message, or NoMsg for a cycle in which   *)
(* the val wire is low (the payload registers then hold an unused x).      *)
(* The outputs are functions of the registers.                             *)
(***************************************************************************)
EXTENDS MemMsgs

VARIABLES
  arb_state,  \* state_reg
  req0_reg,   \* req0_{val,control,data,domain}_reg
  req1_reg,   \* req1_{control,data,domain}_reg
  resp_reg,   \* resp_{control,data,domain}_reg
  resp_sel    \* the latch that remembers which port was granted

arbVars == <<arb_state, req0_reg, req1_reg, resp_reg, resp_sel>>

ArbStates == {"IDLE", "ARB", "WAIT", "RESP"}

ArbTypeOK ==
  /\ arb_state \in ArbStates
  /\ req0_reg \in Req \cup {NoMsg}
  /\ req1_reg \in Req \cup {NoMsg}
  /\ resp_reg \in Resp \cup {NoMsg}
  /\ resp_sel \in {"port0", "port1", "x"}

ArbInit ==
  /\ arb_state = "IDLE"
  /\ req0_reg = NoMsg
  /\ req1_reg = NoMsg
  /\ resp_reg = NoMsg
  /\ resp_sel = "x"

-----------------------------------------------------------------------------
(* Outputs. *)

Granted == IF req0_reg # NoMsg THEN "port0" ELSE "port1"

ArbReq == IF arb_state # "ARB" THEN NoMsg
          ELSE IF Granted = "port0" THEN req0_reg ELSE req1_reg

Req0Rdy == arb_state = "ARB" /\ Granted = "port0"
Req1Rdy == arb_state = "ARB" /\ Granted = "port1"

Resp0 == IF arb_state = "RESP" /\ resp_sel = "port0" THEN resp_reg ELSE NoMsg
Resp1 == IF arb_state = "RESP" /\ resp_sel # "port0" THEN resp_reg ELSE NoMsg

-----------------------------------------------------------------------------
(* Mutants: port 0 lost when both ports ask; and the ports exchanged.      *)
LatchOne(in0, in1) ==
  /\ arb_state = "IDLE"
  /\ req0_reg' = IF in1 = NoMsg THEN in0 ELSE NoMsg
  /\ req1_reg' = in1
  /\ arb_state' = IF in0 # NoMsg \/ in1 # NoMsg THEN "ARB" ELSE "IDLE"
  /\ UNCHANGED <<resp_reg, resp_sel>>

LatchSwapped(in0, in1) ==
  /\ arb_state = "IDLE"
  /\ req0_reg' = in1
  /\ req1_reg' = in0
  /\ arb_state' = IF in0 # NoMsg \/ in1 # NoMsg THEN "ARB" ELSE "IDLE"
  /\ UNCHANGED <<resp_reg, resp_sel>>

(* IDLE: both request ports are latched every cycle (req_en). *)
Latch(in0, in1) ==
  /\ arb_state = "IDLE"
  /\ req0_reg' = in0
  /\ req1_reg' = in1
  /\ arb_state' = IF in0 # NoMsg \/ in1 # NoMsg THEN "ARB" ELSE "IDLE"
  /\ UNCHANGED <<resp_reg, resp_sel>>

(* Mutant: the granted port not remembered. *)
ArbitrateForgets ==
  /\ arb_state = "ARB"
  /\ arb_state' = "WAIT"
  /\ UNCHANGED <<req0_reg, req1_reg, resp_reg, resp_sel>>

(* ARB: the granted request is on the memory port for this one cycle; the  *)
(* memory side's ready is not looked at.                                   *)
Arbitrate ==
  /\ arb_state = "ARB"
  /\ resp_sel' = Granted
  /\ arb_state' = "WAIT"
  /\ UNCHANGED <<req0_reg, req1_reg, resp_reg>>

(* WAIT: the response register is written every cycle (resp_en). *)
Await(resp) ==
  /\ arb_state = "WAIT"
  /\ resp_reg' = resp
  /\ arb_state' = IF resp # NoMsg THEN "RESP" ELSE "WAIT"
  /\ UNCHANGED <<req0_reg, req1_reg, resp_sel>>

(* RESP: the response is on the granted port for this one cycle. *)
Respond ==
  /\ arb_state = "RESP"
  /\ arb_state' = "IDLE"
  /\ UNCHANGED <<req0_reg, req1_reg, resp_reg, resp_sel>>

ArbTick(in0, in1, resp) ==
  \/ Latch(in0, in1)
  \/ Arbitrate
  \/ Await(resp)
  \/ Respond
=============================================================================
