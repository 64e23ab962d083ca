--------------------------- MODULE MemPortsProofs ---------------------------
(***************************************************************************)
(* The theorems about MemPorts: for every set of addresses, data and tags, *)
(* and every partition.                                                    *)
(***************************************************************************)
EXTENDS MemPorts, MemLemmas

(* The inductive invariant.  No part of the path looks at a ready or at a  *)
(* tag, so everything rests on where each part is while the others are     *)
(* where they are.                                                         *)

Waits(p)   == IF p = "port0" THEN L2Waits ELSE DmaWaits
Request(p) == IF p = "port0" THEN l2_msg ELSE dma_msg

(* A user has a message exactly while it is not at rest, and waits for a   *)
(* held request only while the arbiter is at work on it.                   *)
UsersInStep ==
  /\ IF l2_state = "REST" THEN l2_msg = NoMsg ELSE l2_msg \in L2Msg
  /\ IF dma_state = "OFF" THEN dma_msg = NoMsg ELSE dma_msg \in DmaMsg
  /\ l2_state = "CACHE_MEM_WAIT" =>
       arb_state \in {"WAIT", "RESP"} /\ resp_sel = "port0"
  /\ DmaWaits => arb_state \in {"WAIT", "RESP"} /\ resp_sel = "port1"

(* ARB: what has been latched is what its user still asks for. *)
ArbInStep ==
  arb_state = "ARB" =>
    /\ req0_reg # NoMsg \/ req1_reg # NoMsg
    /\ req0_reg # NoMsg =>
         req0_reg = l2_msg /\ l2_state \in {"CACHE_MEM_REQ", "DIR_MEM_WAIT"}
    /\ req1_reg # NoMsg => req1_reg = dma_msg /\ dma_state = "MEM_REQ"

(* WAIT: the controller works on the request of the granted user, in which *)
(* it has followed its check.  In all other states it is idle.             *)
CtlInStep ==
  /\ par_ctrl_reg = InitialPar
  /\ arb_state # "WAIT" => ctl_state = "IDLE"
  /\ arb_state = "WAIT" =>
       /\ ctl_state \in {"SEC_CHECK", "MEM_REQ", "MEM_RESP", "FAKE_RESP"}
       /\ resp_sel \in Port /\ Waits(resp_sel) /\ ctl_req = Request(resp_sel)
       /\ ctl_state \in {"MEM_REQ", "MEM_RESP"} => Allowed(ctl_req)
       /\ ctl_state = "FAKE_RESP" => ~Allowed(ctl_req)

(* RESP: the response is there and answers the granted user, who waits for *)
(* it or, being the L2, was told by insecure not to.                       *)
RespInStep ==
  arb_state = "RESP" =>
    /\ resp_sel \in Port /\ resp_reg \in Resp
    /\ Answers(resp_reg, Request(resp_sel))
    /\ Waits(resp_sel) \/ (resp_sel = "port0" /\ l2_state = "MEM_RESP")

Lockstep == UsersInStep /\ ArbInStep /\ CtlInStep /\ RespInStep /\ MemInStep

IInv == TypeOK /\ Lockstep

LEMMA UserMsgs ==
  /\ L2Msg \subseteq Req /\ DmaMsg \subseteq Req
  /\ \A req \in L2Msg : req # NoMsg
  /\ \A req \in DmaMsg : req # NoMsg /\ req.domain = 1
  <1>1. L2Msg \subseteq Req /\ DmaMsg \subseteq Req /\ NoMsg \notin Req
    BY MessageIsReq, DmaTagAssumption DEF L2Msg, DmaMsg, Domain
  <1>2. \A req \in DmaMsg : req.domain = 1
    BY DEF DmaMsg, Message
  <1>3. QED
    BY <1>1, <1>2

-----------------------------------------------------------------------------
(* What the parts show each other in a cycle, when they are in step. *)

(* The controller answers in MEM_RESP and in FAKE_RESP, and it answers the *)
(* request it works on.                                                    *)
LEMMA PathRespShape ==
  ASSUME IInv
  PROVE  /\ PathResp # NoMsg <=> ctl_state \in {"MEM_RESP", "FAKE_RESP"}
         /\ PathResp # NoMsg => PathResp \in Resp /\ Answers(PathResp, ctl_req)
         /\ PathResp # NoMsg => arb_state = "WAIT"
  <1>1. CASE ctl_state = "MEM_RESP"
    <2>1. MemRespOut = Serve(ctl_req) /\ ctl_req \in Req
      BY <1>1, AnswerInStep DEF IInv, Lockstep, MemInStep
    <2>2. Serve(ctl_req) \in MemResp /\ Serve(ctl_req) # NoMsg
      BY <2>1, ServeType DEF IInv, TypeOK, PathTypeOK, MemTypeOK
    <2>3. PathResp = Relabel(Serve(ctl_req))
      BY <1>1, <2>1, <2>2 DEF PathResp, CtlRespOut
    <2>4. PathResp \in Resp /\ PathResp # NoMsg
      BY <2>2, <2>3, RelabelType
    <2>5. Answers(PathResp, ctl_req)
      BY <2>3 DEF Answers, Relabel, Serve
    <2>6. QED
      BY <1>1, <2>4, <2>5 DEF IInv, Lockstep, CtlInStep
  <1>2. CASE ctl_state = "FAKE_RESP"
    <2>1. ctl_req \in Req
      BY <1>2, UserMsgs
         DEF IInv, Lockstep, CtlInStep, UsersInStep, Waits, L2Waits, DmaWaits,
             Request, Port
    <2>2. PathResp = MadeUp
      BY <1>2 DEF PathResp, CtlRespOut
    <2>3. Answers(MadeUp, ctl_req)
      BY DEF Answers, MadeUp
    <2>4. QED
      BY <1>2, <2>1, <2>2, <2>3, MadeUpType DEF IInv, Lockstep, CtlInStep
  <1>3. CASE ctl_state \notin {"MEM_RESP", "FAKE_RESP"}
    BY <1>3 DEF PathResp, CtlRespOut
  <1>4. QED
    BY <1>1, <1>2, <1>3

LEMMA ArbReqShape ==
  ASSUME IInv
  PROVE  /\ ArbReq \in Req \cup {NoMsg}
         /\ ArbReq # NoMsg <=> arb_state = "ARB"
  <1>1. CASE arb_state # "ARB"
    BY <1>1 DEF ArbReq
  <1>2. CASE arb_state = "ARB"
    <2>1. ArbReq = IF req0_reg # NoMsg THEN req0_reg ELSE req1_reg
      BY <1>2 DEF ArbReq, Granted
    <2>2. QED
      BY <1>2, <2>1
         DEF IInv, Lockstep, ArbInStep, TypeOK, PathTypeOK, ArbTypeOK
  <1>3. QED
    BY <1>1, <1>2

-----------------------------------------------------------------------------
(* What a step does to the memory. *)

LEMMA MemoryStep ==
  ASSUME IInv, Next
  PROVE  mem' = IF ctl_state = "MEM_RESP" /\ ctl_req.type = "write"
                THEN [mem EXCEPT ![ctl_req.addr] = ctl_req.data] ELSE mem
  <1>1. MemWrite
    BY DEF Next, PathTick, MemTick
  <1>2. memreq_queue # NoMsg <=> ctl_state = "MEM_RESP"
    BY NoMsgAssumption DEF IInv, Lockstep, MemInStep
  <1>3. QED
    BY <1>1, <1>2, DataMemAssumption
       DEF MemWrite, Accessible, IInv, Lockstep, MemInStep

-----------------------------------------------------------------------------
(* One step keeps the types. *)

LEMMA ArbTickType ==
  ASSUME ArbTypeOK, NEW in0 \in Req \cup {NoMsg}, NEW in1 \in Req \cup {NoMsg},
         NEW resp \in Resp \cup {NoMsg}, ArbTick(in0, in1, resp)
  PROVE  ArbTypeOK'
  BY DEF ArbTypeOK, ArbStates, ArbTick, Latch, Arbitrate, Await, Respond,
         Granted

LEMMA L2TickType ==
  ASSUME l2_state \in L2States, l2_msg \in L2Msg \cup {NoMsg}, L2Tick
  PROVE  l2_state' \in L2States /\ l2_msg' \in L2Msg \cup {NoMsg}
  BY DEF L2States, L2Tick, L2Rest, L2Ask, L2Hold, L2CacheWait, L2Pulse,
         L2DirWait, L2Deliver

LEMMA DmaTickType ==
  ASSUME dma_state \in DmaStates, dma_msg \in DmaMsg \cup {NoMsg}, DmaTick
  PROVE  dma_state' \in DmaStates /\ dma_msg' \in DmaMsg \cup {NoMsg}
  BY DEF DmaStates, DmaTick, DmaRest, DmaAsk, DmaHold, DmaWait

LEMMA TypeStep ==
  ASSUME IInv, Next
  PROVE  TypeOK'
  <1>1. ArbTypeOK'
    <2>1. L2Out \in Req \cup {NoMsg} /\ DmaOut \in Req \cup {NoMsg}
      BY UserMsgs DEF L2Out, DmaOut, IInv, TypeOK
    <2>2. PathResp \in Resp \cup {NoMsg}
      BY PathRespShape
    <2>3. QED
      BY <2>1, <2>2, ArbTickType DEF Next, PathTick, IInv, TypeOK, PathTypeOK
  <1>2. CtlTypeOK'
    BY ArbReqShape, CtlTickType, InitialParAssumption
       DEF Next, PathTick, IInv, TypeOK, PathTypeOK
  <1>3. MemTypeOK'
    <2>1. CtlMemReq \in Req \cup {NoMsg}
      BY DEF CtlMemReq, IInv, TypeOK, PathTypeOK, CtlTypeOK
    <2>2. QED
      BY <2>1, MemTickType DEF Next, PathTick, IInv, TypeOK, PathTypeOK
  <1>4. req0_reg' \in L2Msg \cup {NoMsg} /\ req1_reg' \in DmaMsg \cup {NoMsg}
    BY DEF Next, PathTick, ArbTick, Latch, Arbitrate, Await, Respond, L2Out,
           DmaOut, IInv, TypeOK
  <1>5. mem' \in [Addr -> Data]
    <2>1. CASE ctl_state = "MEM_RESP" /\ ctl_req.type = "write"
      <3>1. ctl_req \in L2Msg \cup DmaMsg
        BY <2>1 DEF IInv, Lockstep, CtlInStep, UsersInStep, Waits, L2Waits,
                    DmaWaits, Request, Port
      <3>2. ctl_req.data \in Data
        BY <2>1, <3>1 DEF L2Msg, DmaMsg, Message
      <3>3. QED
        BY <2>1, <3>2, MemoryStep DEF IInv, TypeOK
    <2>2. CASE ~(ctl_state = "MEM_RESP" /\ ctl_req.type = "write")
      BY <2>2, MemoryStep DEF IInv, TypeOK
    <2>3. QED
      BY <2>1, <2>2
  <1>6. QED
    BY <1>1, <1>2, <1>3, <1>4, <1>5, L2TickType, DmaTickType
       DEF Next, IInv, TypeOK, PathTypeOK

-----------------------------------------------------------------------------
(* One step of the parts that are at work.                                 *)

(* The controller takes what the arbiter shows, follows its own check, and *)
(* is idle again when the arbiter gets its answer.                         *)
LEMMA CtlMoves ==
  ASSUME IInv, Next
  PROVE  /\ par_ctrl_reg' = InitialPar
         /\ arb_state = "ARB" => ctl_state' = "SEC_CHECK" /\ ctl_req' = ArbReq
         /\ arb_state \in {"IDLE", "RESP"} => ctl_state' = "IDLE"
         /\ arb_state = "WAIT" =>
              /\ ctl_req' = ctl_req
              /\ ctl_state' =
                   IF ctl_state = "SEC_CHECK"
                   THEN IF Allowed(ctl_req) THEN "MEM_REQ" ELSE "FAKE_RESP"
                   ELSE IF ctl_state = "MEM_REQ" THEN "MEM_RESP" ELSE "IDLE"
  <1> USE DEF CtlTick, ctlVars, CtlAccept, CtlStartPar, CtlStayIdle, CtlAllow,
              CtlRefuse, CtlIssue, CtlFinish, CtlChangePar
  <1>1. CtlTick(ArbReq, FALSE, InitialPar)
    BY DEF Next, PathTick
  <1>2. par_ctrl_reg' = InitialPar
    BY <1>1 DEF IInv, Lockstep, CtlInStep
  <1>3. CASE arb_state # "WAIT"
    <2>1. ctl_state = "IDLE"
      BY <1>3 DEF IInv, Lockstep, CtlInStep
    <2>2. QED
      BY <1>1, <1>2, <1>3, <2>1, ArbReqShape
  <1>4. CASE arb_state = "WAIT"
    <2>1. ctl_state \in {"SEC_CHECK", "MEM_REQ", "MEM_RESP", "FAKE_RESP"}
      BY <1>4 DEF IInv, Lockstep, CtlInStep
    <2>2. QED
      BY <1>1, <1>2, <1>4, <2>1 DEF Allowed
  <1>5. QED
    BY <1>3, <1>4

LEMMA MemStep ==
  ASSUME IInv, Next
  PROVE  MemInStep'
  <1>1. /\ memreq_queue' = IF ctl_state = "MEM_REQ" THEN ctl_req ELSE NoMsg
        /\ memresp_queue' = NoMsg
    BY MemFollows DEF Next, PathTick, IInv, TypeOK, PathTypeOK, Lockstep
  <1>2. ctl_state' = "MEM_RESP" <=> ctl_state = "MEM_REQ"
    BY CtlMoves
       DEF IInv, Lockstep, CtlInStep, TypeOK, PathTypeOK, ArbTypeOK, ArbStates
  <1>3. ctl_state = "MEM_REQ" => ctl_req' = ctl_req /\ ctl_req \in Req
    <2> SUFFICES ASSUME ctl_state = "MEM_REQ"
                 PROVE  ctl_req' = ctl_req /\ ctl_req \in Req
      OBVIOUS
    <2>1. arb_state = "WAIT"
      BY DEF IInv, Lockstep, CtlInStep
    <2>2. ctl_req \in L2Msg \cup DmaMsg
      BY <2>1 DEF IInv, Lockstep, CtlInStep, UsersInStep, Waits, L2Waits,
                  DmaWaits, Request, Port
    <2>3. QED
      BY <2>1, <2>2, CtlMoves, UserMsgs
  <1>4. QED
    BY <1>1, <1>2, <1>3 DEF MemInStep

(* The users, seen from the arbiter: one cycle of each of its states.      *)

(* Nothing is on the response ports outside RESP, and no insecure outside  *)
(* WAIT; a held request is taken in ARB only.                              *)
LEMMA UsersSee ==
  ASSUME IInv
  PROVE  /\ arb_state # "RESP" => Resp0 = NoMsg /\ Resp1 = NoMsg
         /\ arb_state = "RESP" /\ resp_sel = "port0" =>
              Resp0 = resp_reg /\ Resp0 # NoMsg /\ Resp1 = NoMsg
         /\ arb_state = "RESP" /\ resp_sel = "port1" =>
              Resp1 = resp_reg /\ Resp1 # NoMsg /\ Resp0 = NoMsg
         /\ Insecure => /\ arb_state = "WAIT" /\ resp_sel = "port0"
                        /\ L2Waits /\ ~Allowed(l2_msg)
         /\ Req0Rdy <=> arb_state = "ARB" /\ req0_reg # NoMsg
         /\ Req1Rdy <=> arb_state = "ARB" /\ req0_reg = NoMsg
  <1>1. /\ arb_state # "RESP" => Resp0 = NoMsg /\ Resp1 = NoMsg
        /\ arb_state = "RESP" /\ resp_sel = "port0" =>
             Resp0 = resp_reg /\ Resp0 # NoMsg /\ Resp1 = NoMsg
        /\ arb_state = "RESP" /\ resp_sel = "port1" =>
             Resp1 = resp_reg /\ Resp1 # NoMsg /\ Resp0 = NoMsg
    BY NoMsgAssumption DEF Resp0, Resp1, IInv, Lockstep, RespInStep
  <1>2. Insecure => /\ arb_state = "WAIT" /\ resp_sel = "port0"
                    /\ L2Waits /\ ~Allowed(l2_msg)
    <2> SUFFICES ASSUME ctl_state = "FAKE_RESP"
                 PROVE  /\ arb_state = "WAIT" /\ resp_sel = "port0"
                        /\ L2Waits /\ ~Allowed(l2_msg)
      BY DEF Insecure
    <2>1. /\ arb_state = "WAIT" /\ resp_sel \in Port /\ Waits(resp_sel)
          /\ ~Allowed(Request(resp_sel))
      BY DEF IInv, Lockstep, CtlInStep
    <2>2. resp_sel # "port1"
      BY <2>1, UserMsgs
         DEF IInv, Lockstep, UsersInStep, Waits, DmaWaits, Request, Allowed
    <2>3. QED
      BY <2>1, <2>2 DEF Port, Waits, Request
  <1>3. /\ Req0Rdy <=> arb_state = "ARB" /\ req0_reg # NoMsg
        /\ Req1Rdy <=> arb_state = "ARB" /\ req0_reg = NoMsg
    BY DEF Req0Rdy, Req1Rdy, Granted
  <1>4. QED
    BY <1>1, <1>2, <1>3

(* A user keeps its message while it has one. *)
LEMMA MessagesStep ==
  ASSUME IInv, Next
  PROVE  /\ IF l2_state' = "REST" THEN l2_msg' = NoMsg ELSE l2_msg' \in L2Msg
         /\ IF dma_state' = "OFF" THEN dma_msg' = NoMsg ELSE dma_msg' \in DmaMsg
  <1>1. IF l2_state' = "REST" THEN l2_msg' = NoMsg ELSE l2_msg' \in L2Msg
    BY DEF Next, IInv, Lockstep, UsersInStep, L2Tick, L2Rest, L2Ask, L2Hold,
           L2CacheWait, L2Pulse, L2DirWait, L2Deliver
  <1>2. IF dma_state' = "OFF" THEN dma_msg' = NoMsg ELSE dma_msg' \in DmaMsg
    BY DEF Next, IInv, Lockstep, UsersInStep, DmaTick, DmaRest, DmaAsk,
           DmaHold, DmaWait
  <1>3. QED
    BY <1>1, <1>2

-----------------------------------------------------------------------------
(* One step of the arbiter, the users moving with it. *)

PortsInStep == UsersInStep /\ ArbInStep /\ CtlInStep /\ RespInStep

LEMMA LatchStep ==
  ASSUME IInv, Next, arb_state = "IDLE"
  PROVE  PortsInStep'
  <1>1. Latch(L2Out, DmaOut)
    BY DEF Next, PathTick, ArbTick, Latch, Arbitrate, Await, Respond
  <1>2. /\ l2_state # "CACHE_MEM_WAIT" /\ dma_state # "MEM_WAIT"
        /\ ~Req0Rdy /\ ~Req1Rdy
    BY UsersSee DEF IInv, Lockstep, UsersInStep, DmaWaits
  <1>3. l2_state' # "CACHE_MEM_WAIT" /\ dma_state' # "MEM_WAIT"
    BY <1>2 DEF Next, L2Tick, L2Rest, L2Ask, L2Hold, L2CacheWait, L2Pulse,
                L2DirWait, L2Deliver, DmaTick, DmaRest, DmaAsk, DmaHold, DmaWait
  <1>4. UsersInStep'
    BY <1>3, MessagesStep DEF UsersInStep, DmaWaits
  <1>5. L2Out # NoMsg => L2Out = l2_msg' /\ l2_state' \in {"CACHE_MEM_REQ",
                                                         "DIR_MEM_WAIT"}
    BY <1>2 DEF Next, L2Out, L2Tick, L2Rest, L2Ask, L2Hold, L2CacheWait,
                L2Pulse, L2DirWait, L2Deliver
  <1>6. DmaOut # NoMsg => DmaOut = dma_msg' /\ dma_state' = "MEM_REQ"
    BY <1>2 DEF Next, DmaOut, DmaTick, DmaRest, DmaAsk, DmaHold, DmaWait
  <1>7. ArbInStep'
    BY <1>1, <1>5, <1>6 DEF ArbInStep, Latch
  <1>8. CtlInStep' /\ RespInStep'
    BY <1>1, CtlMoves DEF CtlInStep, RespInStep, Latch
  <1>9. QED
    BY <1>4, <1>7, <1>8 DEF PortsInStep

LEMMA ArbitrateStep ==
  ASSUME IInv, Next, arb_state = "ARB"
  PROVE  PortsInStep'
  <1>1. Arbitrate
    BY DEF Next, PathTick, ArbTick, Latch, Arbitrate, Await, Respond
  <1>2. /\ Resp0 = NoMsg /\ ~Insecure
        /\ l2_state # "CACHE_MEM_WAIT" /\ dma_state # "MEM_WAIT"
    BY UsersSee DEF IInv, Lockstep, UsersInStep, DmaWaits
  <1>3. CASE req0_reg # NoMsg
    <2>1. resp_sel' = "port0" /\ arb_state' = "WAIT" /\ Req0Rdy /\ ~Req1Rdy
      BY <1>1, <1>3, UsersSee DEF Arbitrate, Granted
    <2>2. req0_reg = l2_msg /\ l2_state \in {"CACHE_MEM_REQ", "DIR_MEM_WAIT"}
      BY <1>3 DEF IInv, Lockstep, ArbInStep
    <2>3. /\ l2_state' \in {"CACHE_MEM_WAIT", "DIR_MEM_WAIT"}
          /\ l2_msg' = req0_reg
      BY <1>2, <2>1, <2>2
         DEF Next, L2Tick, L2Rest, L2Ask, L2Hold, L2CacheWait, L2Pulse,
             L2DirWait, L2Deliver
    <2>4. dma_state' # "MEM_WAIT"
      BY <1>2, <2>1 DEF Next, DmaTick, DmaRest, DmaAsk, DmaHold, DmaWait
    <2>5. ctl_state' = "SEC_CHECK" /\ ctl_req' = req0_reg
      BY <1>3, CtlMoves DEF ArbReq, Granted
    <2>6. CtlInStep'
      BY <2>1, <2>3, <2>5, CtlMoves
         DEF CtlInStep, Port, Waits, L2Waits, Request
    <2>7. QED
      BY <2>1, <2>3, <2>4, <2>6, MessagesStep
         DEF PortsInStep, UsersInStep, DmaWaits, ArbInStep, RespInStep
  <1>4. CASE req0_reg = NoMsg
    <2>1. resp_sel' = "port1" /\ arb_state' = "WAIT" /\ ~Req0Rdy /\ Req1Rdy
      BY <1>1, <1>4, UsersSee DEF Arbitrate, Granted
    <2>2. req1_reg = dma_msg /\ dma_state = "MEM_REQ"
      BY <1>4 DEF IInv, Lockstep, ArbInStep
    <2>3. dma_state' = "MEM_WAIT" /\ dma_msg' = req1_reg
      BY <2>1, <2>2 DEF Next, DmaTick, DmaRest, DmaAsk, DmaHold, DmaWait
    <2>4. l2_state' # "CACHE_MEM_WAIT"
      BY <1>2, <2>1 DEF Next, L2Tick, L2Rest, L2Ask, L2Hold, L2CacheWait,
                        L2Pulse, L2DirWait, L2Deliver
    <2>5. ctl_state' = "SEC_CHECK" /\ ctl_req' = req1_reg
      BY <1>4, CtlMoves DEF ArbReq, Granted
    <2>6. CtlInStep'
      BY <2>1, <2>3, <2>5, CtlMoves
         DEF CtlInStep, Port, Waits, DmaWaits, Request
    <2>7. QED
      BY <2>1, <2>3, <2>4, <2>6, MessagesStep
         DEF PortsInStep, UsersInStep, DmaWaits, ArbInStep, RespInStep
  <1>5. QED
    BY <1>3, <1>4

(* While the arbiter waits, the user that was granted waits with it; only  *)
(* an L2 that has been refused leaves, and that in the cycle the answer is *)
(* there.                                                                  *)
LEMMA AwaitStep ==
  ASSUME IInv, Next, arb_state = "WAIT"
  PROVE  PortsInStep'
  <1>1. Await(PathResp)
    BY DEF Next, PathTick, ArbTick, Latch, Arbitrate, Await, Respond
  <1>2. /\ Resp0 = NoMsg /\ Resp1 = NoMsg /\ ~Req0Rdy /\ ~Req1Rdy
        /\ resp_sel' = resp_sel /\ resp_sel \in Port
        /\ Waits(resp_sel) /\ ctl_req = Request(resp_sel)
    BY <1>1, UsersSee DEF IInv, Lockstep, CtlInStep, Await
  <1>3. /\ l2_state' = "CACHE_MEM_WAIT" => l2_state = "CACHE_MEM_WAIT"
        /\ dma_state' = "MEM_WAIT" => dma_state = "MEM_WAIT"
    BY <1>2 DEF Next, L2Tick, L2Rest, L2Ask, L2Hold, L2CacheWait, L2Pulse,
                L2DirWait, L2Deliver, DmaTick, DmaRest, DmaAsk, DmaHold, DmaWait
  <1>4. arb_state' \in {"WAIT", "RESP"}
    BY <1>1 DEF Await
  <1>5. UsersInStep'
    BY <1>2, <1>3, <1>4, MessagesStep
       DEF UsersInStep, DmaWaits, IInv, Lockstep
  <1>6. Request(resp_sel)' = Request(resp_sel)
    BY <1>2 DEF Next, Port, Waits, L2Waits, DmaWaits, Request, L2Tick, L2Rest,
                L2Ask, L2Hold, L2CacheWait, L2Pulse, L2DirWait, L2Deliver,
                DmaTick, DmaRest, DmaAsk, DmaHold, DmaWait
  <1>7. \/ Waits(resp_sel)'
        \/ Insecure /\ resp_sel = "port0" /\ l2_state' = "MEM_RESP"
    BY <1>2, UsersSee
       DEF Next, Port, Waits, L2Waits, DmaWaits, L2Tick, L2Rest, L2Ask, L2Hold,
           L2CacheWait, L2Pulse, L2DirWait, L2Deliver, DmaTick, DmaRest,
           DmaAsk, DmaHold, DmaWait
  <1>8. CASE PathResp = NoMsg
    <2>1. arb_state' = "WAIT"
      BY <1>1, <1>8 DEF Await
    <2>2. ctl_state \in {"SEC_CHECK", "MEM_REQ"} /\ ~Insecure
      BY <1>8, PathRespShape DEF IInv, Lockstep, CtlInStep, Insecure
    <2>3. Allowed(ctl_req)' = Allowed(ctl_req)
      BY CtlMoves DEF Allowed, Public, IInv, Lockstep, CtlInStep
    <2>4. Waits(resp_sel)'
      BY <1>7, <2>2
    <2>5. /\ ctl_state' \in {"MEM_REQ", "MEM_RESP", "FAKE_RESP"}
          /\ ctl_state' \in {"MEM_REQ", "MEM_RESP"} => Allowed(ctl_req)
          /\ ctl_state' = "FAKE_RESP" => ~Allowed(ctl_req)
      BY <2>2, CtlMoves DEF IInv, Lockstep, CtlInStep
    <2>6. CtlInStep'
      BY <1>2, <1>6, <2>1, <2>3, <2>4, <2>5, CtlMoves DEF CtlInStep
    <2>7. QED
      BY <1>5, <2>1, <2>6 DEF PortsInStep, ArbInStep, RespInStep
  <1>9. CASE PathResp # NoMsg
    <2>1. arb_state' = "RESP" /\ resp_reg' = PathResp
      BY <1>1, <1>9 DEF Await
    <2>2. ctl_state' = "IDLE"
      BY <1>9, PathRespShape, CtlMoves
    <2>3. PathResp \in Resp /\ Answers(PathResp, Request(resp_sel))
      BY <1>2, <1>9, PathRespShape
    <2>4. Answers(resp_reg, Request(resp_sel))'
      BY <1>2, <1>6, <2>1, <2>3 DEF Answers
    <2>5. RespInStep'
      BY <1>2, <1>7, <2>1, <2>3, <2>4 DEF RespInStep
    <2>6. QED
      BY <1>5, <2>1, <2>2, <2>5, CtlMoves DEF PortsInStep, ArbInStep, CtlInStep
  <1>10. QED
    BY <1>8, <1>9

LEMMA RespondStep ==
  ASSUME IInv, Next, arb_state = "RESP"
  PROVE  PortsInStep'
  <1>1. Respond
    BY DEF Next, PathTick, ArbTick, Latch, Arbitrate, Await, Respond
  <1>2. arb_state' = "IDLE" /\ ~Req0Rdy /\ ~Req1Rdy
    BY <1>1, UsersSee DEF Respond
  <1>3. resp_sel \in Port
    BY DEF IInv, Lockstep, RespInStep
  <1>4. l2_state' # "CACHE_MEM_WAIT"
    BY <1>2, UsersSee
       DEF Next, IInv, Lockstep, UsersInStep, L2Tick, L2Rest, L2Ask, L2Hold,
           L2CacheWait, L2Pulse, L2DirWait, L2Deliver
  <1>5. dma_state' # "MEM_WAIT"
    BY <1>2, UsersSee
       DEF Next, IInv, Lockstep, UsersInStep, DmaWaits, DmaTick, DmaRest,
           DmaAsk, DmaHold, DmaWait
  <1>6. QED
    BY <1>2, <1>4, <1>5, MessagesStep, CtlMoves
       DEF PortsInStep, UsersInStep, DmaWaits, ArbInStep, CtlInStep, RespInStep

LEMMA IInvStep ==
  ASSUME IInv, Next
  PROVE  IInv'
  <1>1. arb_state \in ArbStates
    BY DEF IInv, TypeOK, PathTypeOK, ArbTypeOK
  <1>2. PortsInStep'
    BY <1>1, LatchStep, ArbitrateStep, AwaitStep, RespondStep DEF ArbStates
  <1>3. QED
    BY <1>2, TypeStep, MemStep DEF IInv, Lockstep, PortsInStep

LEMMA IInvStutter ==
  ASSUME IInv, UNCHANGED vars
  PROVE  IInv'
  <1>1. TypeOK'
    BY DEF IInv, TypeOK, PathTypeOK, ArbTypeOK, CtlTypeOK, MemTypeOK, vars,
           pathVars, arbVars, ctlVars, memVars, userVars
  <1>2. Lockstep'
    BY DEF IInv, Lockstep, UsersInStep, ArbInStep, CtlInStep, RespInStep,
           MemInStep, Waits, L2Waits, DmaWaits, Request, Allowed, Public,
           Answers, vars, pathVars, arbVars, ctlVars, memVars, userVars
  <1>3. QED
    BY <1>1, <1>2 DEF IInv

LEMMA IInvInit == Init => IInv
  BY InitialParAssumption, TestMemAssumption
     DEF Init, PathInit, ArbInit, CtlInit, MemInit, IInv, TypeOK, PathTypeOK,
         ArbTypeOK, ArbStates, CtlTypeOK, CtlStates, MemTypeOK, L2States,
         DmaStates, Lockstep, UsersInStep, DmaWaits, ArbInStep, CtlInStep,
         RespInStep, MemInStep

THEOREM IInvHolds == Spec => []IInv
  <1>1. IInv /\ [Next]_vars => IInv'
    BY IInvStep, IInvStutter
  <1>2. QED
    BY <1>1, IInvInit, PTL DEF Spec

-----------------------------------------------------------------------------
(* Every register of the path and of its users keeps its type. *)
THEOREM TypeCorrect == Spec => []TypeOK
  <1>1. IInv => TypeOK
    BY DEF IInv
  <1>2. QED
    BY <1>1, IInvHolds, PTL

(* No request is lost between the arbiter, the controller and the memory,  *)
(* and no response is missed, though none of them looks at a ready.        *)
THEOREM NoRequestIsLost == Spec => []NothingLost
  <1>1. IInv => NothingLost
    <2> SUFFICES ASSUME IInv, arb_state = "WAIT"
                 PROVE  /\ ctl_state \in {"SEC_CHECK", "MEM_REQ", "MEM_RESP",
                                          "FAKE_RESP"}
                        /\ ctl_state = "MEM_RESP" => MemRespOut # NoMsg
                        /\ ctl_req = IF resp_sel = "port0" THEN l2_msg
                                                           ELSE dma_msg
      BY DEF NothingLost
    <2>1. ctl_state = "MEM_RESP" => MemRespOut # NoMsg
      BY AnswerInStep, ServeType
         DEF IInv, Lockstep, MemInStep, TypeOK, PathTypeOK, MemTypeOK
    <2>2. QED
      BY <2>1 DEF IInv, Lockstep, CtlInStep, Request
  <1>2. QED
    BY <1>1, IInvHolds, PTL

(* A waiting user finds the response to its own request on its port.       *)
THEOREM ResponsesMatch == Spec => []ResponseMatches
  <1>1. IInv => ResponseMatches
    BY UsersSee DEF ResponseMatches, IInv, Lockstep, UsersInStep, RespInStep,
                    Port, Request, Waits
  <1>2. QED
    BY <1>1, IInvHolds, PTL

(* The insecure wire, which goes past the arbiter, reaches only the user   *)
(* it is about: no request of the DMA controller is ever refused.          *)
THEOREM InsecureReachesL2 == Spec => []InsecureIsForL2
  <1>1. IInv => InsecureIsForL2
    BY UsersSee DEF InsecureIsForL2
  <1>2. QED
    BY <1>1, IInvHolds, PTL

-----------------------------------------------------------------------------
(* An entry changes only by a write its requester waits for and may make.  *)
THEOREM EveryWriteIsOwned == Spec => WritesAreOwned
  <1>1. IInv /\ [Next]_vars => [\A a \in Addr : Owned(a)]_vars
    <2> SUFFICES ASSUME IInv, Next, NEW a \in Addr, mem'[a] # mem[a]
                 PROVE  Owned(a)
      BY DEF Owned
    <2>1. /\ ctl_state = "MEM_RESP" /\ ctl_req.type = "write"
          /\ mem' = [mem EXCEPT ![ctl_req.addr] = ctl_req.data]
      BY MemoryStep
    <2>2. ctl_req.addr = a /\ ctl_req.data = mem'[a]
      BY <2>1 DEF IInv, TypeOK, PathTypeOK, MemTypeOK
    <2>3. /\ resp_sel \in Port /\ Waits(resp_sel)
          /\ ctl_req = Request(resp_sel) /\ Allowed(ctl_req)
      BY <2>1 DEF IInv, Lockstep, CtlInStep
    <2>4. QED
      BY <2>1, <2>2, <2>3 DEF Owned, Writer, Waits, Request, Port
  <1>2. QED
    BY <1>1, IInvHolds, PTL DEF Spec, WritesAreOwned

-----------------------------------------------------------------------------
(* The path implements the service.  A request is executed in the step in  *)
(* which the arbiter gets its answer; in every other step the ports submit *)
(* or rest.                                                                *)

Executes(p) == arb_state = "WAIT" /\ PathResp # NoMsg /\ resp_sel = p

(* The bars, port by port. *)
LEMMA Bars ==
  /\ pendingBar["port0"] = IF Asked("port0") /\ ~Answered("port0")
                           THEN l2_msg ELSE NoMsg
  /\ pendingBar["port1"] = IF Asked("port1") /\ ~Answered("port1")
                           THEN dma_msg ELSE NoMsg
  /\ \A p \in Port : answerBar[p] = IF Answered(p) THEN resp_reg ELSE NoMsg
  BY DEF pendingBar, answerBar, Port

LEMMA BarsPrime ==
  /\ pendingBar'["port0"] = IF Asked("port0")' /\ ~Answered("port0")'
                            THEN l2_msg' ELSE NoMsg
  /\ pendingBar'["port1"] = IF Asked("port1")' /\ ~Answered("port1")'
                            THEN dma_msg' ELSE NoMsg
  /\ \A p \in Port : answerBar'[p] = IF Answered(p)' THEN resp_reg' ELSE NoMsg
  BY DEF pendingBar, answerBar, Port

(* The arbiter shows an answer in the next cycle exactly when it gets it   *)
(* in this one.                                                            *)
LEMMA AnsweredNext ==
  ASSUME IInv, Next, NEW p \in Port
  PROVE  Answered(p)' <=> Executes(p)
  BY PathRespShape
     DEF Next, PathTick, ArbTick, Latch, Arbitrate, Await, Respond, Answered,
         Executes, IInv, TypeOK, PathTypeOK, ArbTypeOK, ArbStates

(* A port that is not executed submits a request or rests. *)
Quiet(p) == Service!Submit(p) \/ Service!Rest(p)

LEMMA L2Quiet ==
  ASSUME IInv, Next, ~Executes("port0")
  PROVE  Quiet("port0")
  <1> USE DEF Asked, Answered, Port
  <1>1. ~Answered("port0")' /\ answerBar'["port0"] = NoMsg
    BY AnsweredNext, BarsPrime
  <1>2. CASE Answered("port0")
    <2>1. l2_state \in {"CACHE_MEM_WAIT", "DIR_MEM_WAIT", "MEM_RESP"}
      BY <1>2 DEF IInv, Lockstep, RespInStep, Waits, L2Waits
    <2>2. l2_state' \in {"MEM_RESP", "REST"}
      BY <1>2, <2>1, UsersSee
         DEF Next, L2Tick, L2Rest, L2Ask, L2Hold, L2CacheWait, L2Pulse,
             L2DirWait, L2Deliver
    <2>3. pendingBar["port0"] = NoMsg /\ pendingBar'["port0"] = NoMsg
      BY <1>2, <2>2, Bars, BarsPrime
    <2>4. QED
      BY <1>1, <2>3 DEF Quiet, Service!Rest
  <1>3. CASE ~Answered("port0")
    <2>1. ~Insecure /\ Resp0 = NoMsg
      <3>1. ~Insecure
        BY UsersSee, PathRespShape DEF Insecure, Executes
      <3>2. Resp0 = NoMsg
        BY <1>3 DEF Resp0
      <3>3. QED
        BY <3>1, <3>2
    <2>2. CASE Asked("port0")
      <3>1. l2_state' \notin {"REST", "MEM_RESP"} /\ l2_msg' = l2_msg
        BY <2>1, <2>2
           DEF Next, L2Tick, L2Rest, L2Ask, L2Hold, L2CacheWait, L2Pulse,
               L2DirWait, L2Deliver, IInv, TypeOK, L2States
      <3>2. pendingBar'["port0"] = pendingBar["port0"]
        BY <1>1, <1>3, <2>2, <3>1, Bars, BarsPrime
      <3>3. QED
        BY <1>1, <3>2 DEF Quiet, Service!Rest
    <2>3. CASE ~Asked("port0")
      <3>1. pendingBar["port0"] = NoMsg
        BY <2>3, Bars
      <3>2. pendingBar'["port0"] \in L2Msg \cup {NoMsg}
        BY BarsPrime, MessagesStep
      <3>3. QED
        BY <1>1, <3>1, <3>2 DEF Quiet, Service!Rest, Service!Submit
    <2>4. QED
      BY <2>2, <2>3
  <1>4. QED
    BY <1>2, <1>3

LEMMA DmaQuiet ==
  ASSUME IInv, Next, ~Executes("port1")
  PROVE  Quiet("port1")
  <1> USE DEF Asked, Answered, Port
  <1>1. ~Answered("port1")' /\ answerBar'["port1"] = NoMsg
    BY AnsweredNext, BarsPrime
  <1>2. CASE Answered("port1")
    <2>1. dma_state = "MEM_WAIT"
      BY <1>2 DEF IInv, Lockstep, RespInStep, Waits, DmaWaits
    <2>2. dma_state' = "OFF"
      BY <1>2, <2>1, UsersSee DEF Next, DmaTick, DmaRest, DmaAsk, DmaHold, DmaWait
    <2>3. pendingBar["port1"] = NoMsg /\ pendingBar'["port1"] = NoMsg
      BY <1>2, <2>2, Bars, BarsPrime
    <2>4. QED
      BY <1>1, <2>3 DEF Quiet, Service!Rest
  <1>3. CASE ~Answered("port1") /\ Asked("port1")
    <2>1. ~DmaWaits \/ Resp1 = NoMsg
      BY <1>3, UsersSee DEF IInv, Lockstep, UsersInStep
    <2>2. dma_state' # "OFF" /\ dma_msg' = dma_msg
      BY <1>3, <2>1
         DEF Next, DmaWaits, DmaTick, DmaRest, DmaAsk, DmaHold, DmaWait
    <2>3. pendingBar'["port1"] = pendingBar["port1"]
      BY <1>1, <1>3, <2>2, Bars, BarsPrime
    <2>4. QED
      BY <1>1, <2>3 DEF Quiet, Service!Rest
  <1>4. CASE ~Answered("port1") /\ ~Asked("port1")
    <2>1. pendingBar["port1"] = NoMsg
      BY <1>4, Bars
    <2>2. pendingBar'["port1"] \in DmaMsg \cup {NoMsg}
      BY BarsPrime, MessagesStep
    <2>3. QED
      BY <1>1, <2>1, <2>2 DEF Quiet, Service!Rest, Service!Submit
  <1>5. QED
    BY <1>2, <1>3, <1>4

(* The answer of the path is the one the service gives. *)
LEMMA AnswerIsOutcome ==
  ASSUME IInv, PathResp # NoMsg
  PROVE  PathResp = Service!Outcome(ctl_req)
  <1>1. ctl_req.domain \in Domain /\ par_ctrl_reg = InitialPar
    <2>1. ctl_req \in L2Msg \cup DmaMsg
      BY PathRespShape
         DEF IInv, Lockstep, CtlInStep, UsersInStep, Waits, L2Waits, DmaWaits,
             Request, Port
    <2>2. QED
      BY <2>1, UserMsgs DEF Req, IInv, Lockstep, CtlInStep
  <1>2. CASE ctl_state = "MEM_RESP"
    <2>1. PathResp = Relabel(Serve(ctl_req))
      BY <1>2, AnswerInStep, ServeType
         DEF PathResp, CtlRespOut, IInv, Lockstep, MemInStep, TypeOK,
             PathTypeOK, MemTypeOK
    <2>2. Allowed(ctl_req)
      BY <1>2 DEF IInv, Lockstep, CtlInStep
    <2>3. QED
      BY <1>1, <2>1, <2>2, DataMemAssumption
         DEF Relabel, Serve, Accessible, Service!Outcome, Service!Permitted,
             Allowed, Public
  <1>3. CASE ctl_state = "FAKE_RESP"
    <2>1. PathResp = MadeUp
      BY <1>3 DEF PathResp, CtlRespOut
    <2>2. ~Allowed(ctl_req)
      BY <1>3 DEF IInv, Lockstep, CtlInStep
    <2>3. QED
      BY <1>1, <2>1, <2>2
         DEF MadeUp, Service!Outcome, Service!Permitted, Allowed, Public
  <1>4. QED
    BY <1>2, <1>3, PathRespShape

LEMMA PortExecutes ==
  ASSUME IInv, Next, NEW p \in Port, Executes(p)
  PROVE  Service!Execute(p)
  <1>1. /\ Waits(p) /\ ctl_req = Request(p)
        /\ ctl_state \in {"MEM_RESP", "FAKE_RESP"}
        /\ ctl_state = "MEM_RESP" <=> Allowed(ctl_req)
    BY PathRespShape DEF Executes, IInv, Lockstep, CtlInStep
  <1>2. pendingBar[p] = ctl_req /\ ctl_req # NoMsg /\ answerBar[p] = NoMsg
    BY <1>1, Bars, UserMsgs
       DEF Executes, Port, Asked, Answered, Waits, L2Waits, DmaWaits, Request,
           IInv, Lockstep, UsersInStep
  <1>3. Answered(p)' /\ resp_reg' = PathResp
    BY AnsweredNext
       DEF Executes, Next, PathTick, ArbTick, Latch, Arbitrate, Await, Respond
  <1>4. answerBar'[p] = Service!Outcome(pendingBar[p])
    BY <1>2, <1>3, BarsPrime, AnswerIsOutcome DEF Executes
  <1>5. pendingBar'[p] = NoMsg
    BY <1>3, BarsPrime DEF Port
  <1>6. mem' = Service!Effect(pendingBar[p])
    <2>1. Service!Permitted(ctl_req) <=> Allowed(ctl_req)
      BY DEF Service!Permitted, Allowed, Public, IInv, Lockstep, CtlInStep
    <2>2. QED
      BY <1>1, <1>2, <2>1, MemoryStep DEF Service!Effect
  <1>7. QED
    BY <1>2, <1>4, <1>5, <1>6 DEF Service!Execute

(* The service speaks of the same messages. *)
LEMMA SameMessages == Service!Req = Req /\ Service!Resp = Resp
  BY DEF Service!Req, Service!Resp, Service!ReqType, Service!Domain, Req, Resp,
         ReqType, Domain

LEMMA BarTypes ==
  ASSUME IInv'
  PROVE  /\ pendingBar' \in [Port -> Service!Req \cup {NoMsg}]
         /\ answerBar' \in [Port -> Service!Resp \cup {NoMsg}]
  BY UserMsgs, SameMessages
     DEF IInv, TypeOK, PathTypeOK, ArbTypeOK, pendingBar, answerBar

LEMMA ServiceStep ==
  ASSUME IInv, Next
  PROVE  Service!Next
  <1>1. /\ pendingBar' \in [Port -> Service!Req \cup {NoMsg}]
        /\ answerBar' \in [Port -> Service!Resp \cup {NoMsg}]
    BY IInvStep, BarTypes
  <1>2. CASE Executes("port0")
    <2>1. ~Executes("port1")
      BY <1>2 DEF Executes
    <2>2. Service!Execute("port0") /\ Quiet("port1")
      BY <1>2, <2>1, PortExecutes, DmaQuiet DEF Port
    <2>3. QED
      BY <1>1, <2>2 DEF Service!Next, Quiet, Port
  <1>3. CASE Executes("port1")
    <2>1. ~Executes("port0")
      BY <1>3 DEF Executes
    <2>2. Service!Execute("port1") /\ Quiet("port0")
      BY <1>3, <2>1, PortExecutes, L2Quiet DEF Port
    <2>3. QED
      BY <1>1, <2>2 DEF Service!Next, Quiet, Port
  <1>4. CASE ~Executes("port0") /\ ~Executes("port1")
    <2>1. Quiet("port0") /\ Quiet("port1")
      BY <1>4, L2Quiet, DmaQuiet
    <2>2. ctl_state # "MEM_RESP"
      BY <1>4, PathRespShape DEF Executes, IInv, Lockstep, CtlInStep, Port
    <2>3. mem' = mem
      BY <2>2, MemoryStep
    <2>4. QED
      BY <1>1, <2>1, <2>3 DEF Service!Next, Quiet, Port
  <1>5. QED
    BY <1>2, <1>3, <1>4

(* The data memory path is a memory that executes the requests of its two  *)
(* users one at a time, guards the partition, and answers each its own.    *)
THEOREM PathImplementsService == Spec => ServiceSpec
  <1>1. Init => Service!Init
    BY DEF Init, PathInit, ArbInit, MemInit, Service!Init, pendingBar,
           answerBar, Asked, Answered, Port
  <1>2. IInv /\ [Next]_vars => [Service!Next]_(Service!serviceVars)
    <2>1. ASSUME UNCHANGED vars
          PROVE  UNCHANGED Service!serviceVars
      BY <2>1 DEF vars, pathVars, arbVars, memVars, userVars, Service!serviceVars,
                  pendingBar, answerBar, Asked, Answered
    <2>2. QED
      BY <2>1, ServiceStep
  <1>3. QED
    BY <1>1, <1>2, IInvHolds, PTL DEF Spec, ServiceSpec, Service!Spec
=============================================================================
