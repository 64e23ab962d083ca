---------------------------- MODULE DMAController ----------------------------
(***************************************************************************)
(* plab5_mcore_DMA_Controller: copies one entry of the memory per request. *)
(* Requests come as one-cycle pulses from the DMA checker (for the cores)  *)
(* and from the debug checker.  A debug request either copies as well or   *)
(* reads one entry for the debug interface.                                *)
(* The inputs of the clock cycle are parameters: a job, or NoMsg while the *)
(* val wire is low.  One step is one clock edge.                           *)
(* The reset value 0 of mem_resp_data_reg is not told from an unknown one. *)
(***************************************************************************)
EXTENDS MemMsgs

VARIABLES
  dmac_state,   \* state_reg
  dmac_status,  \* the latch that tells a debug job ("1") from a core's ("0")
  dmac_job,     \* src_addr_reg, dest_addr_reg
  dmac_db_job,  \* db_src_addr_reg, db_dest_addr_reg, inst_type_reg
  dmac_data,    \* mem_resp_data_reg
  hold_queue,   \* the entry on its way from the source to the destination
  debug_data    \* the latch of the debug result

dmacVars ==
  <<dmac_state, dmac_status, dmac_job, dmac_db_job, dmac_data, hold_queue,
    debug_data>>

HoldQ == INSTANCE VcQueue1
           WITH slot <- hold_queue, PipeEn <- FALSE, BypassEn <- FALSE

DmacStates ==
  {"IDLE", "DEBUG_REG", "NET_REG", "READ_MEM_REQ", "READ_MEM_WAIT",
   "READ_MEM_DONE", "WRITE_MEM_REQ", "WRITE_MEM_WAIT", "WRITE_MEM_DONE",
   "ACK", "DEBUG_RES"}

(* read_back is db_inst: read the source for the debug interface. *)
Job   == [src : Addr, dest : Addr]
DbJob == [src : Addr, dest : Addr \cup {Unknown}, read_back : BOOLEAN]

ASSUME JobAssumption  == NoMsg \notin Job \cup DbJob
ASSUME HoldAssumption == NoMsg \notin Data \cup {Unknown}

DmacTypeOK ==
  /\ dmac_state \in DmacStates
  /\ dmac_status \in {"0", "1", "x"}
  /\ dmac_job \in Job \cup {NoMsg}
  /\ dmac_db_job \in DbJob \cup {NoMsg}
  /\ dmac_data \in Data \cup {Unknown}
  /\ hold_queue \in Data \cup {Unknown, NoMsg}
  /\ debug_data \in Data \cup {Unknown}

DmacInit ==
  /\ dmac_state = "IDLE"
  /\ dmac_status = "x"
  /\ dmac_job = NoMsg
  /\ dmac_db_job = NoMsg
  /\ dmac_data = Unknown
  /\ hold_queue = NoMsg
  /\ debug_data = Unknown

-----------------------------------------------------------------------------
(* Outputs. *)

DmacAck == dmac_state \in {"ACK", "DEBUG_RES"}

(* The job that is being done. *)
Current == IF dmac_status = "0" THEN dmac_job ELSE dmac_db_job

HeldData == IF hold_queue = NoMsg THEN Unknown ELSE hold_queue

(* mem_req: all requests are of domain 1 and carry opaque 0, here tag. *)
DmacMemReq(tag) ==
  CASE dmac_state = "READ_MEM_REQ" ->
         [type |-> "read", tag |-> tag, addr |-> Current.src,
          data |-> HeldData, domain |-> 1]
    [] dmac_state = "WRITE_MEM_REQ" ->
         [type |-> "write", tag |-> tag, addr |-> Current.dest,
          data |-> HeldData, domain |-> 1]
    [] OTHER -> NoMsg

-----------------------------------------------------------------------------
(* Mutants: a queue that only a write request empties, and a response      *)
(* register that does not load.                                            *)
DmacDatapathKeeps(mem_req_rdy, mem_resp) ==
  /\ HoldQ!QueueTick(IF dmac_state = "READ_MEM_DONE" THEN dmac_data ELSE NoMsg,
                     mem_req_rdy /\ dmac_state = "WRITE_MEM_REQ")
  /\ dmac_data' = IF mem_resp = NoMsg THEN dmac_data ELSE mem_resp.data

DmacDatapathDeaf(mem_req_rdy, mem_resp) ==
  /\ HoldQ!QueueTick(IF dmac_state = "READ_MEM_DONE" THEN dmac_data ELSE NoMsg,
                     mem_req_rdy)
  /\ UNCHANGED dmac_data

(* The hold queue and the response register move in every cycle; the queue *)
(* is emptied by mem_req_rdy whatever the state is.                        *)
DmacDatapath(mem_req_rdy, mem_resp) ==
  /\ HoldQ!QueueTick(IF dmac_state = "READ_MEM_DONE" THEN dmac_data ELSE NoMsg,
                     mem_req_rdy)
  /\ dmac_data' = IF mem_resp = NoMsg THEN dmac_data ELSE mem_resp.data

(* IDLE: the job registers load whatever is on their inputs, and a debug   *)
(* job goes first.                                                         *)
DmacIdle(job, db_job) ==
  /\ dmac_state = "IDLE"
  /\ dmac_job' = job
  /\ dmac_db_job' = db_job
  /\ dmac_state' = IF db_job # NoMsg   THEN "DEBUG_REG"
                   ELSE IF job # NoMsg THEN "NET_REG"
                   ELSE "IDLE"
  /\ dmac_status' = IF db_job # NoMsg   THEN "1"
                    ELSE IF job # NoMsg THEN "0"
                    ELSE "x"
  /\ UNCHANGED debug_data

DmacGo(from, guard, to) ==
  /\ dmac_state = from
  /\ dmac_state' = IF guard THEN to ELSE from
  /\ UNCHANGED <<dmac_job, dmac_db_job, debug_data>>
  /\ dmac_status' = IF dmac_state' = "IDLE" THEN "x" ELSE dmac_status

DmacRead(mem_req_rdy, mem_resp) ==
  \/ DmacGo("DEBUG_REG", TRUE, "READ_MEM_REQ")
  \/ DmacGo("NET_REG", TRUE, "READ_MEM_REQ")
  \/ DmacGo("READ_MEM_REQ", mem_req_rdy, "READ_MEM_WAIT")
  \/ DmacGo("READ_MEM_WAIT", mem_resp # NoMsg, "READ_MEM_DONE")

(* Mutant: debug_data not assigned. *)
DmacReadDoneSilent ==
  /\ dmac_state = "READ_MEM_DONE"
  /\ dmac_state' = IF dmac_status = "1" /\ dmac_db_job.read_back
                   THEN "DEBUG_RES" ELSE "WRITE_MEM_REQ"
  /\ UNCHANGED <<dmac_status, dmac_job, dmac_db_job, debug_data>>

(* READ_MEM_DONE: a read-back ends here, every other job goes on. The      *)
(* latch debug_data takes its value in DEBUG_RES.                          *)
DmacReadDone ==
  /\ dmac_state = "READ_MEM_DONE"
  /\ dmac_state' = IF dmac_status = "1" /\ dmac_db_job.read_back
                   THEN "DEBUG_RES" ELSE "WRITE_MEM_REQ"
  /\ debug_data' = IF dmac_state' = "DEBUG_RES" THEN dmac_data ELSE debug_data
  /\ UNCHANGED <<dmac_status, dmac_job, dmac_db_job>>

DmacWrite(mem_req_rdy, mem_resp) ==
  \/ DmacGo("WRITE_MEM_REQ", mem_req_rdy, "WRITE_MEM_WAIT")
  \/ DmacGo("WRITE_MEM_WAIT", mem_resp # NoMsg, "WRITE_MEM_DONE")
  \/ DmacGo("WRITE_MEM_DONE", TRUE, "ACK")

DmacFinish ==
  \/ DmacGo("ACK", TRUE, "IDLE")
  \/ DmacGo("DEBUG_RES", TRUE, "IDLE")

DmacTick(job, db_job, mem_req_rdy, mem_resp) ==
  /\ DmacDatapath(mem_req_rdy, mem_resp)
  /\ \/ DmacIdle(job, db_job)
     \/ DmacRead(mem_req_rdy, mem_resp)
     \/ DmacReadDone
     \/ DmacWrite(mem_req_rdy, mem_resp)
     \/ DmacFinish
=============================================================================
