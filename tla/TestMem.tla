------------------------------- MODULE TestMem -------------------------------
(***************************************************************************)
(* plab5_mcore_TestMem_Uni: the main memory.  A request waits in a pipe    *)
(* queue of one entry, is served combinationally in the next cycle, and    *)
(* its response leaves through a bypass queue of one entry.  Addresses     *)
(* from SecureBase on belong to m_sec, the ones below to m_pub; m_sec is   *)
(* reached only while the registered memreq_domain is 1.                   *)
(*                                                                         *)
(* Of the request types, read and write are modelled (the amo types and    *)
(* mem_clear are not).                                                     *)
(***************************************************************************)
EXTENDS MemMsgs

CONSTANTS
  SecureBase,  \* the fixed address where m_sec begins
  InitData,    \* what every entry holds at first
  MemDomain    \* memreq_domain: tied to 1 on data_mem

ASSUME TestMemAssumption ==
  SecureBase \in Nat /\ InitData \in Data /\ MemDomain \in Domain

VARIABLES
  memreq_queue,   \* memreq_control_queue and memreq_data_queue
  memresp_queue,  \* memresp_control_queue and memresp_data_queue
  mem             \* m_pub and m_sec

memVars == <<memreq_queue, memresp_queue, mem>>

(* What travels back from the memory: the level is added by its user. *)
MemResp == [type : ReqType, tag : Tag, data : Data \cup {Unknown}]

ASSUME MemRespAssumption == NoMsg \notin MemResp

ReqQ  == INSTANCE VcQueue1
           WITH slot <- memreq_queue, PipeEn <- TRUE, BypassEn <- FALSE
RespQ == INSTANCE VcQueue1
           WITH slot <- memresp_queue, PipeEn <- FALSE, BypassEn <- TRUE

MemTypeOK ==
  /\ memreq_queue \in Req \cup {NoMsg}
  /\ memresp_queue \in MemResp \cup {NoMsg}
  /\ mem \in [Addr -> Data \cup {Unknown}]

MemInit ==
  /\ memreq_queue = NoMsg
  /\ memresp_queue = NoMsg
  /\ mem = [a \in Addr |-> InitData]

-----------------------------------------------------------------------------
Accessible(addr) == addr < SecureBase \/ MemDomain = 1

(* read_block_M, packed with the type and the opaque field of the request. *)
(* The response of a write carries what the entry held before.             *)
Serve(req) ==
  [type |-> req.type, tag |-> req.tag,
   data |-> IF Accessible(req.addr) THEN mem[req.addr] ELSE Unknown]

Served == IF memreq_queue = NoMsg THEN NoMsg ELSE Serve(memreq_queue)

MemReqRdy == ReqQ!EnqRdy(RespQ!EnqRdy(TRUE))

MemRespOut == RespQ!DeqMsg(Served)

(* Mutant: the type of the request not looked at. *)
MemWriteAny ==
  mem' = IF memreq_queue # NoMsg /\ Accessible(memreq_queue.addr)
         THEN [mem EXCEPT ![memreq_queue.addr] = memreq_queue.data]
         ELSE mem

(* write_en_M looks at memreq_val_M only: a write is repeated in every     *)
(* cycle its request waits in the queue.                                   *)
MemWrite ==
  mem' = IF /\ memreq_queue # NoMsg
            /\ memreq_queue.type = "write"
            /\ Accessible(memreq_queue.addr)
         THEN [mem EXCEPT ![memreq_queue.addr] = memreq_queue.data]
         ELSE mem

MemTick(req, resp_rdy) ==
  /\ ReqQ!QueueTick(req, RespQ!EnqRdy(resp_rdy))
  /\ RespQ!QueueTick(Served, resp_rdy)
  /\ MemWrite
=============================================================================
