------------------------------ MODULE MemPorts ------------------------------
(***************************************************************************)
(* The data memory path between its two users, of whom only the port side  *)
(* is kept: the L2 data cache wrapper (BlockingCacheSec-FSM1) on port 0    *)
(* and the DMA controller on port 1.                                       *)
(*                                                                         *)
(* The L2 has two ways to reach memory.  A refill, an eviction or a        *)
(* prefetch (CACHE_MEM_REQ) holds its request until it is taken; an        *)
(* uncacheable access (DIR_MEM_REQ) shows its request for one cycle and    *)
(* then waits for the response, taken or not.  The DMA controller holds    *)
(* its requests, and they are all of domain 1.                             *)
(***************************************************************************)
EXTENDS MemPath

CONSTANT DmaTag  \* the opaque field of every DMA request

ASSUME DmaTagAssumption == DmaTag \in Tag

(* memreq_domain of data_mem is tied to 1: the memory itself refuses       *)
(* nothing, only the address controller does.                              *)
ASSUME DataMemAssumption == MemDomain = 1

VARIABLES
  l2_state,   \* state_reg of the wrapper, the states off the port as "REST"
  l2_msg,     \* req_msg_extend with cur_domain
  dma_state,  \* state_reg of the DMA controller, off the port as "OFF"
  dma_msg     \* the request the DMA controller makes from its registers

userVars == <<l2_state, l2_msg, dma_state, dma_msg>>
vars     == <<pathVars, userVars>>

L2States ==
  {"REST", "CACHE_MEM_REQ", "CACHE_MEM_WAIT", "DIR_MEM_REQ", "DIR_MEM_WAIT",
   "MEM_RESP"}

DmaStates == {"OFF", "MEM_REQ", "MEM_WAIT"}

L2Msg  == Message(Tag, Domain)
DmaMsg == Message({DmaTag}, {1})

(* The registers of the arbiter hold messages of their own port, and no x  *)
(* gets into the memory.                                                   *)
TypeOK ==
  /\ PathTypeOK
  /\ req0_reg \in L2Msg \cup {NoMsg}
  /\ req1_reg \in DmaMsg \cup {NoMsg}
  /\ mem \in [Addr -> Data]
  /\ l2_state \in L2States
  /\ l2_msg \in L2Msg \cup {NoMsg}
  /\ dma_state \in DmaStates
  /\ dma_msg \in DmaMsg \cup {NoMsg}

Init ==
  /\ PathInit
  /\ l2_state = "REST"
  /\ l2_msg = NoMsg
  /\ dma_state = "OFF"
  /\ dma_msg = NoMsg

-----------------------------------------------------------------------------
(* The L2 wrapper's side of port 0. *)

L2Out == IF l2_state \in {"CACHE_MEM_REQ", "DIR_MEM_REQ"} THEN l2_msg ELSE NoMsg

L2Rest == l2_state = "REST" /\ UNCHANGED <<l2_state, l2_msg>>

L2Ask ==
  /\ l2_state = "REST"
  /\ l2_state' \in {"CACHE_MEM_REQ", "DIR_MEM_REQ"}
  /\ l2_msg' \in L2Msg

L2Hold ==
  /\ l2_state = "CACHE_MEM_REQ"
  /\ l2_state' = IF Req0Rdy THEN "CACHE_MEM_WAIT" ELSE "CACHE_MEM_REQ"
  /\ UNCHANGED l2_msg

(* insecure comes before memresp_val: it is wired from the address         *)
(* controller past the arbiter, and arrives a cycle before the response.   *)
L2CacheWait ==
  /\ l2_state = "CACHE_MEM_WAIT"
  /\ l2_state' = IF Insecure \/ Resp0 # NoMsg
                 THEN "MEM_RESP" ELSE "CACHE_MEM_WAIT"
  /\ UNCHANGED l2_msg

(* One cycle, whatever memreq_rdy says. *)
L2Pulse ==
  /\ l2_state = "DIR_MEM_REQ"
  /\ l2_state' = "DIR_MEM_WAIT"
  /\ UNCHANGED l2_msg

L2DirWait ==
  /\ l2_state = "DIR_MEM_WAIT"
  /\ l2_state' = IF Resp0 # NoMsg THEN "MEM_RESP" ELSE "DIR_MEM_WAIT"
  /\ UNCHANGED l2_msg

(* CACHE_MEM_RESP, PREFETCH_MEM_RESP, DIR_MEM_RESP, or the CACHE_WAIT      *)
(* after insecure: one cycle in which the L2 cannot ask again.             *)
L2Deliver ==
  /\ l2_state = "MEM_RESP"
  /\ l2_state' = "REST"
  /\ l2_msg' = NoMsg

L2Tick ==
  L2Rest \/ L2Ask \/ L2Hold \/ L2CacheWait \/ L2Pulse \/ L2DirWait \/ L2Deliver

-----------------------------------------------------------------------------
(* The DMA controller's side of port 1. *)

DmaOut == IF dma_state = "MEM_REQ" THEN dma_msg ELSE NoMsg

DmaRest == dma_state = "OFF" /\ UNCHANGED <<dma_state, dma_msg>>

DmaAsk ==
  /\ dma_state = "OFF"
  /\ dma_state' = "MEM_REQ"
  /\ dma_msg' \in DmaMsg

DmaHold ==
  /\ dma_state = "MEM_REQ"
  /\ dma_state' = IF Req1Rdy THEN "MEM_WAIT" ELSE "MEM_REQ"
  /\ UNCHANGED dma_msg

DmaWait ==
  /\ dma_state = "MEM_WAIT"
  /\ IF Resp1 # NoMsg
     THEN dma_state' = "OFF" /\ dma_msg' = NoMsg
     ELSE UNCHANGED <<dma_state, dma_msg>>

DmaTick == DmaRest \/ DmaAsk \/ DmaHold \/ DmaWait

-----------------------------------------------------------------------------
Next == PathTick(L2Out, DmaOut) /\ L2Tick /\ DmaTick

Spec == Init /\ [][Next]_vars

(* The clock does not stop. *)
FairSpec == Spec /\ WF_vars(Next)
-----------------------------------------------------------------------------
(* Properties. *)

L2Waits  == l2_state \in {"CACHE_MEM_WAIT", "DIR_MEM_WAIT"}
DmaWaits == dma_state = "MEM_WAIT"

(* The guard of the memory: a request of domain 1 may go anywhere, one of  *)
(* domain 0 below the partition only.                                      *)
Allowed(req) == req.domain = 1 \/ Public(req.addr)

(* The arbiter shows a request for one cycle without looking at the ready  *)
(* of the address controller, whose own states last one cycle each whether *)
(* or not the memory has answered.  Still no request is lost on the way:   *)
(* while the arbiter waits the controller is working on the granted        *)
(* request, and in the one cycle it listens the memory's response is there.*)
NothingLost ==
  arb_state = "WAIT" =>
    /\ ctl_state \in {"SEC_CHECK", "MEM_REQ", "MEM_RESP", "FAKE_RESP"}
    /\ ctl_state = "MEM_RESP" => MemRespOut # NoMsg
    /\ ctl_req = IF resp_sel = "port0" THEN l2_msg ELSE dma_msg

(* "All memories should guarantee that every response includes the opaque  *)
(* field corresponding to the request that generated the response"         *)
(* (vc-mem-msgs.v): what a waiting user finds on its response port answers *)
(* its own request, although no tag takes part in the routing.             *)
Answers(resp, req) == resp.tag = req.tag /\ resp.type = req.type

ResponseMatches ==
  /\ L2Waits /\ Resp0 # NoMsg  => Answers(Resp0, l2_msg)
  /\ DmaWaits /\ Resp1 # NoMsg => Answers(Resp1, dma_msg)

(* insecure bypasses the arbiter: when it is up, the request refused is    *)
(* the one of the L2, never one of the DMA controller, and the L2 waits.   *)
InsecureIsForL2 ==
  Insecure => L2Waits /\ resp_sel = "port0" /\ ~Allowed(l2_msg)

(* An entry of the memory changes only by a write that a user now waits    *)
(* for and that the guard allows, and to what this write carries.          *)
Writer(a, data, req) ==
  req.type = "write" /\ req.addr = a /\ req.data = data /\ Allowed(req)

Owned(a) ==
  mem'[a] # mem[a] => \/ L2Waits /\ Writer(a, mem'[a], l2_msg)
                      \/ DmaWaits /\ Writer(a, mem'[a], dma_msg)

WritesAreOwned == [][\A a \in Addr : Owned(a)]_vars

(* A request that is held until it is taken is answered, on either port;   *)
(* port 0 has priority, and the DMA controller is served all the same.     *)
HeldRequestsServed ==
  /\ (l2_state = "CACHE_MEM_REQ") ~> (l2_state = "MEM_RESP")
  /\ (dma_state = "MEM_REQ") ~> (dma_state = "OFF")

(* An uncacheable access that meets an idle arbiter is answered (one that  *)
(* does not is never seen: DIR_MEM_REQ lasts one cycle).                   *)
DirectServedWhenIdle ==
  (l2_state = "DIR_MEM_REQ" /\ arb_state = "IDLE") ~> (l2_state = "MEM_RESP")

(* The registers of the path abstract to a service that executes one       *)
(* request at a time on the memory and hands back its answer.              *)
Port == {"port0", "port1"}

Asked(p) == IF p = "port0" THEN l2_state \notin {"REST", "MEM_RESP"}
                           ELSE dma_state # "OFF"

Answered(p) == arb_state = "RESP" /\ resp_sel = p

pendingBar ==
  [p \in Port |-> IF Asked(p) /\ ~Answered(p)
                  THEN IF p = "port0" THEN l2_msg ELSE dma_msg
                  ELSE NoMsg]

answerBar == [p \in Port |-> IF Answered(p) THEN resp_reg ELSE NoMsg]

Service == INSTANCE MemService
             WITH Par <- InitialPar,
                  Request <- [p \in Port |->
                                IF p = "port0" THEN L2Msg ELSE DmaMsg],
                  pending <- pendingBar, answer <- answerBar, store <- mem

ServiceSpec == Service!Spec
=============================================================================
