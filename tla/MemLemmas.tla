----------------------------- MODULE MemLemmas -----------------------------
(***************************************************************************)
(* Facts about the address controller and the memory behind it that the    *)
(* proofs of their compositions share.                                     *)
(***************************************************************************)
EXTENDS MemAddrCtrl, TestMem, TLAPS

(* A request of a user is a request, and no request is NoMsg. *)
LEMMA MessageIsReq ==
  ASSUME NEW tags \in SUBSET Tag, NEW domains \in SUBSET Domain
  PROVE  /\ Message(tags, domains) \subseteq Req
         /\ NoMsg \notin Req /\ NoMsg \notin Resp /\ NoMsg \notin MemResp
  BY NoMsgAssumption, MemRespAssumption DEF Message, Req, ReqType

(* What the memory serves is well formed and never NoMsg. *)
LEMMA ServeType ==
  ASSUME NEW req \in Req, mem \in [Addr -> Data \cup {Unknown}]
  PROVE  Serve(req) \in MemResp /\ Serve(req) # NoMsg
  <1>1. Serve(req) \in MemResp
    BY DEF Serve, MemResp, Req
  <1>2. QED
    BY <1>1, MemRespAssumption

(* A response the controller passes on is well formed and never NoMsg. *)
LEMMA RelabelType ==
  ASSUME NEW resp \in MemResp
  PROVE  Relabel(resp) \in Resp /\ Relabel(resp) # NoMsg
  <1>1. Relabel(resp) \in Resp
    BY DEF Relabel, MemResp, Resp, Domain
  <1>2. QED
    BY <1>1, NoMsgAssumption

LEMMA MadeUpType ==
  ASSUME ctl_req \in Req
  PROVE  MadeUp \in Resp /\ MadeUp # NoMsg
  <1>1. MadeUp \in Resp
    BY DEF MadeUp, Req, Resp
  <1>2. QED
    BY <1>1, NoMsgAssumption

(* The controller keeps its registers well formed. *)
LEMMA CtlTickType ==
  ASSUME CtlTypeOK, NEW req \in Req \cup {NoMsg}, NEW par_en,
         NEW par_addr \in Nat, CtlTick(req, par_en, par_addr)
  PROVE  CtlTypeOK'
  BY DEF CtlTypeOK, CtlTick, CtlStates, ctlVars, CtlAccept, CtlStartPar,
         CtlStayIdle, CtlAllow, CtlRefuse, CtlIssue, CtlFinish, CtlChangePar

-----------------------------------------------------------------------------
(* The memory, when it works in step with the controller: it holds the     *)
(* request of the controller in MEM_RESP and nothing in any other state.   *)
MemInStep ==
  /\ ctl_state = "MEM_RESP" => ctl_req \in Req
  /\ memreq_queue = IF ctl_state = "MEM_RESP" THEN ctl_req ELSE NoMsg
  /\ memresp_queue = NoMsg

(* In step, the memory answers in MEM_RESP, and the request of the         *)
(* controller, and in no other state.                                      *)
LEMMA AnswerInStep ==
  ASSUME MemInStep
  PROVE  MemRespOut = IF ctl_state = "MEM_RESP" THEN Serve(ctl_req) ELSE NoMsg
  BY NoMsgAssumption DEF MemInStep, MemRespOut, RespQ!DeqMsg, Served

(* A queue of the memory holds what it held, what comes, or nothing. *)
LEMMA ReqQueueMoves ==
  ASSUME NEW req, NEW rdy, ReqQ!QueueTick(req, rdy)
  PROVE  memreq_queue' \in {memreq_queue, req, NoMsg}
  BY DEF ReqQ!QueueTick

LEMMA RespQueueMoves ==
  ASSUME NEW resp, NEW rdy, RespQ!QueueTick(resp, rdy)
  PROVE  memresp_queue' \in {memresp_queue, resp, NoMsg}
  BY DEF RespQ!QueueTick

(* The memory keeps its queues and its entries well formed. *)
LEMMA MemTickType ==
  ASSUME MemTypeOK, NEW req \in Req \cup {NoMsg}, NEW rdy, MemTick(req, rdy)
  PROVE  MemTypeOK'
  <1>1. memreq_queue' \in Req \cup {NoMsg}
    BY ReqQueueMoves DEF MemTick, MemTypeOK
  <1>2. Served \in MemResp \cup {NoMsg}
    BY ServeType DEF Served, MemTypeOK
  <1>3. memresp_queue' \in MemResp \cup {NoMsg}
    BY <1>2, RespQueueMoves DEF MemTick, MemTypeOK
  <1>4. mem' \in [Addr -> Data \cup {Unknown}]
    BY DEF MemTick, MemWrite, MemTypeOK, Req
  <1>5. QED
    BY <1>1, <1>3, <1>4 DEF MemTypeOK

(* In step, what comes in is stored, and what is stored is served and      *)
(* leaves.                                                                 *)
LEMMA MemFollows ==
  ASSUME MemTypeOK, MemInStep, MemTick(CtlMemReq, CtlMemRespRdy(TRUE))
  PROVE  /\ memreq_queue' = IF ctl_state = "MEM_REQ" THEN ctl_req ELSE NoMsg
         /\ memresp_queue' = NoMsg
  <1>1. CASE ctl_state = "MEM_RESP"
    <2>1. ctl_req \in Req /\ ctl_req # NoMsg
      BY <1>1, NoMsgAssumption DEF MemInStep
    <2>2. Served = Serve(ctl_req) /\ Served # NoMsg
      BY <1>1, <2>1, ServeType DEF MemInStep, Served, MemTypeOK
    <2>3. CtlMemReq = NoMsg /\ CtlMemRespRdy(TRUE)
      BY <1>1 DEF CtlMemReq, CtlMemRespRdy
    <2>4. memresp_queue' = NoMsg
      BY <2>3 DEF MemInStep, MemTick, RespQ!QueueTick, RespQ!DoEnq,
         RespQ!DoDeq, RespQ!DoBypass, RespQ!DoPipe, RespQ!EnqRdy, RespQ!DeqMsg
    <2>5. memreq_queue' = NoMsg
      BY <1>1, <2>3 DEF MemInStep, MemTick, ReqQ!QueueTick, ReqQ!DoEnq,
         ReqQ!DoDeq, ReqQ!DoBypass, ReqQ!DoPipe, ReqQ!EnqRdy, ReqQ!DeqMsg,
         RespQ!EnqRdy
    <2>6. QED
      BY <1>1, <2>4, <2>5
  <1>2. CASE ctl_state # "MEM_RESP"
    <2>1. memreq_queue = NoMsg /\ memresp_queue = NoMsg /\ Served = NoMsg
      BY <1>2 DEF MemInStep, Served
    <2>2. memresp_queue' = NoMsg
      BY <2>1 DEF MemTick, RespQ!QueueTick, RespQ!DoEnq, RespQ!DoDeq,
         RespQ!DoBypass, RespQ!DoPipe, RespQ!EnqRdy, RespQ!DeqMsg
    <2>3. memreq_queue' = CtlMemReq
      BY <2>1 DEF MemTick, ReqQ!QueueTick, ReqQ!DoEnq, ReqQ!DoDeq,
         ReqQ!DoBypass, ReqQ!DoPipe, ReqQ!EnqRdy, ReqQ!DeqMsg
    <2>4. QED
      BY <1>2, <2>2, <2>3 DEF CtlMemReq
  <1>3. QED
    BY <1>1, <1>2
=============================================================================
