-------------------------- MODULE DMASystemProofs --------------------------
(***************************************************************************)
(* The theorems about DMASystem: for every set of cores, addresses and     *)
(* data, and every set of debug instructions.                              *)
(***************************************************************************)
EXTENDS DMASystem, TLAPS

(* The inductive invariant.  The units find each other by time only: one   *)
(* pulse starts a job and one ack ends it, so the invariant says which     *)
(* state each unit is in while another one is at work for it, and that the *)
(* registers of both agree.                                                *)

(* A core that waits is known to the network by its own name, and the one  *)
(* the checker works for still waits for this very request.                *)
CoresInStep ==
  /\ \A c \in Core :
       core_state[c] # "free" => core_req[c] \in NocReq /\ core_req[c].core = c
  /\ chk_state # "IDLE" =>
       /\ chk_reg \in NocReq
       /\ core_state[chk_reg.core] = "taken"
       /\ core_req[chk_reg.core] = chk_reg

(* Only an authorised request gets past the check. *)
ChkInStep == chk_state \in {"NOC_REQ", "NOC_WAIT"} => Authorised(chk_reg.domain)

(* The debug checker is at work exactly while the interface waits for it,  *)
(* on the job the interface has given it.                                  *)
DbiWaits == dbi_state \in {"DEBUG_WAIT", "EXTRACT_WAIT"}

GivenJob ==
  IF dbi_state = "DEBUG_WAIT"
  THEN [src |-> dbi_reg.src, dest |-> dbi_reg.dest, read_back |-> FALSE]
  ELSE [src |-> dbi_reg.dest, dest |-> Unknown, read_back |-> TRUE]

DebugInStep ==
  /\ dbi_state # "IDLE" => dbi_reg \in DebugInst
  /\ dbc_state # "IDLE" <=> DbiWaits
  /\ DbiWaits => dbc_reg = GivenJob
  /\ dbc_state \in {"DEB_REQ", "DEB_WAIT"} => Authorised(dbi_reg.domain)

(* The status latch tells whose job runs; a read-back never writes. *)
Writing ==
  dmac_state \in {"WRITE_MEM_REQ", "WRITE_MEM_WAIT", "WRITE_MEM_DONE", "ACK"}

StatusInStep ==
  /\ dmac_state = "IDLE"  => dmac_status = "x"
  /\ dmac_state # "IDLE"  => dmac_status \in {"0", "1"}
  /\ Writing /\ dmac_status = "1" => ~dmac_db_job.read_back

(* The memory port is busy only while the controller waits for it, with    *)
(* the read of the source first and the write of what was read then.       *)
PortInStep ==
  /\ port_req = NoMsg \/ port_resp = NoMsg
  /\ dmac_state \notin {"READ_MEM_WAIT", "WRITE_MEM_WAIT"} =>
       port_req = NoMsg /\ port_resp = NoMsg
  /\ dmac_state = "READ_MEM_WAIT" =>
       /\ port_req # NoMsg => port_req.type = "read" /\ port_req.addr = Current.src
       /\ port_resp # NoMsg => port_resp.data = mem[Current.src]
  /\ dmac_state \in {"READ_MEM_DONE", "WRITE_MEM_REQ"} =>
       dmac_data = mem[Current.src]
  /\ dmac_state = "WRITE_MEM_WAIT" /\ port_req # NoMsg =>
       /\ port_req.type = "write" /\ port_req.addr = Current.dest
       /\ port_req.data = mem[Current.src]

(* The read request drains what a read-back has left in the hold queue. *)
HoldInStep ==
  /\ dmac_state \in {"READ_MEM_WAIT", "READ_MEM_DONE"} => hold_queue = NoMsg
  /\ dmac_state = "WRITE_MEM_REQ" => hold_queue = dmac_data

InStep ==
  /\ CoresInStep /\ ChkInStep /\ DebugInStep /\ StatusInStep
  /\ RunningIsChecked /\ PortInStep /\ HoldInStep

IInv == TypeOK /\ InStep

-----------------------------------------------------------------------------
(* What the units see of each other in a cycle. *)

(* The network shows a request only to a checker that is ready, and it is  *)
(* the request of a core that has sent it.                                 *)
LEMMA NocShape ==
  ASSUME IInv, NEW noc \in NocShows, noc # NoMsg
  PROVE  /\ chk_state \in {"IDLE", "NOC_RESP"}
         /\ noc \in NocReq
         /\ core_state[noc.core] = "sent"
         /\ core_req[noc.core] = noc
  BY DEF NocShows, ChkNocRdy, IInv, InStep, CoresInStep

(* In every other state the checker keeps the request it works on. *)
LEMMA ChkKeeps ==
  ASSUME IInv, NEW noc \in NocShows, ChkTick(noc),
         chk_state \notin {"IDLE", "NOC_RESP"}
  PROVE  noc = NoMsg /\ chk_reg' = chk_reg
  BY NocShape DEF ChkTick, ChkLoad

LEMMA ChkJobShape ==
  ASSUME IInv, ChkJob # NoMsg
  PROVE  /\ chk_state = "NOC_REQ" /\ ChkJob \in Job
         /\ ChkJob = [src |-> chk_reg.src, dest |-> chk_reg.dest]
  BY DEF ChkJob, Job, NocReq, IInv, InStep, CoresInStep

LEMMA DbcJobShape ==
  ASSUME IInv, DbcJob # NoMsg
  PROVE  dbc_state = "DEB_REQ" /\ DbcJob = dbc_reg /\ DbcJob \in DbJob
  BY DEF DbcJob, IInv, TypeOK, DebugTypeOK

(* While the debug checker is at work, no new job is started. *)
LEMMA DbcKeeps ==
  ASSUME IInv, NEW inst, DebugTick(inst), dbc_state # "IDLE"
  PROVE  DbiStart = NoMsg /\ dbc_reg' = dbc_reg /\ dbi_reg' = dbi_reg
  BY DEF IInv, InStep, DebugInStep, DbiWaits, DbiStart, DebugTick, DbcTick,
         DbiTick, DbiIdle, DbiGo

(* The job that runs has addresses in its registers. *)
LEMMA CurrentShape ==
  ASSUME IInv, dmac_state # "IDLE"
  PROVE  /\ Current.src \in Addr
         /\ Writing => Current.dest \in Addr
  <1>1. CASE dmac_status = "0"
    BY <1>1 DEF IInv, InStep, RunningIsChecked, Current, CoresInStep, NocReq
  <1>2. CASE dmac_status = "1"
    <2>1. dbc_reg = GivenJob /\ dmac_db_job = dbc_reg /\ dbi_reg \in DebugInst
      BY <1>2 DEF IInv, InStep, RunningIsChecked, DebugInStep, DbiWaits
    <2>2. Writing => dbi_state = "DEBUG_WAIT"
      BY <1>2, <2>1 DEF IInv, InStep, StatusInStep, GivenJob
    <2>3. QED
      BY <1>2, <2>1, <2>2 DEF Current, GivenJob, DebugInst
  <1>3. QED
    BY <1>1, <1>2 DEF IInv, InStep, StatusInStep

-----------------------------------------------------------------------------
(* One step: one lemma per part of the invariant. *)

LEMMA CoresStep ==
  ASSUME IInv, NEW noc \in NocShows, ChkTick(noc), CoreTick(noc)
  PROVE  CoresInStep'
  <1> PICK senders \in SUBSET {c \in Core : core_state[c] = "free"} :
        Sends(noc, senders)
    BY DEF CoreTick
  <1> PICK reqs \in [senders -> NocReq] :
        /\ \A c \in senders : reqs[c].core = c
        /\ core_req' = [c \in Core |->
                          IF c \in senders THEN reqs[c] ELSE core_req[c]]
    BY DEF Sends
  <1>1. \A c \in Core :
          core_state'[c] = IF c \in senders         THEN "sent"
                           ELSE IF c \in Taken(noc) THEN "taken"
                           ELSE IF c \in Acked      THEN "free"
                           ELSE core_state[c]
    BY DEF Sends
  <1>2. \A c \in Taken(noc) : core_state[c] = "sent" /\ core_req[c] = noc
    BY NocShape DEF Taken
  <1>3. ASSUME NEW c \in Core, core_state'[c] # "free"
        PROVE  core_req'[c] \in NocReq /\ core_req'[c].core = c
    <2>1. CASE c \in senders
      BY <2>1
    <2>2. CASE c \notin senders
      <3>1. core_state[c] # "free"
        BY <1>1, <1>2, <1>3, <2>2
      <3>2. QED
        BY <2>2, <3>1 DEF IInv, InStep, CoresInStep
    <2>3. QED
      BY <2>1, <2>2
  <1>4. ASSUME chk_state' # "IDLE"
        PROVE  /\ chk_reg' \in NocReq
               /\ core_state'[chk_reg'.core] = "taken"
               /\ core_req'[chk_reg'.core] = chk_reg'
    <2>1. CASE chk_state = "IDLE"
      <3>1. noc # NoMsg /\ chk_reg' = noc
        BY <1>4, <2>1 DEF ChkTick, ChkLoad, ChkIdle, ChkCheck, ChkPass, ChkWait,
                          ChkRespond
      <3>2. noc \in NocReq /\ core_state[noc.core] = "sent"
              /\ core_req[noc.core] = noc
        BY <3>1, NocShape
      <3>3. noc.core \in Core /\ noc.core \in Taken(noc) /\ noc.core \notin senders
        BY <3>1, <3>2 DEF NocReq, Taken
      <3>4. QED
        BY <1>1, <3>1, <3>2, <3>3
    <2>2. CASE chk_state # "IDLE"
      <3>1. chk_state # "NOC_RESP"
        BY <1>4, <2>2 DEF ChkTick, ChkIdle, ChkCheck, ChkPass, ChkWait, ChkRespond
      <3>2. noc = NoMsg /\ chk_reg' = chk_reg
        BY <2>2, <3>1, ChkKeeps
      <3>3. /\ chk_reg \in NocReq
            /\ core_state[chk_reg.core] = "taken"
            /\ core_req[chk_reg.core] = chk_reg
        BY <2>2 DEF IInv, InStep, CoresInStep
      <3>4. chk_reg.core \in Core /\ chk_reg.core \notin senders
        BY <3>3 DEF NocReq
      <3>5. Taken(noc) = {} /\ Acked = {}
        BY <3>1, <3>2 DEF Taken, Acked, ChkNocAck
      <3>6. QED
        BY <1>1, <3>2, <3>3, <3>4, <3>5
    <2>3. QED
      BY <2>1, <2>2
  <1>5. QED
    BY <1>3, <1>4 DEF CoresInStep

LEMMA ChkStep ==
  ASSUME IInv, NEW noc \in NocShows, ChkTick(noc)
  PROVE  ChkInStep'
  <1> SUFFICES ASSUME chk_state' \in {"NOC_REQ", "NOC_WAIT"}
               PROVE  chk_reg'.domain >= DmaDomain
    BY DEF ChkInStep, Authorised
  <1>1. /\ chk_state \in {"NOC_CHECK", "NOC_REQ", "NOC_WAIT"}
        /\ chk_reg.domain >= DmaDomain
    BY DEF ChkTick, ChkIdle, ChkCheck, ChkPass, ChkWait, ChkRespond, IInv,
           InStep, ChkInStep, Authorised
  <1>2. chk_reg' = chk_reg
    BY <1>1, ChkKeeps
  <1>3. QED
    BY <1>1, <1>2

(* The interface starts a job only while the debug checker rests. *)
LEMMA DbiStartShape ==
  ASSUME IInv, DbiStart # NoMsg \/ dbi_state \in {"DEBUG_REQ", "EXTRACT_RES"}
  PROVE  /\ DbiStart \in DbJob /\ DbiStart # NoMsg
         /\ dbi_state \in {"DEBUG_REQ", "EXTRACT_RES"}
         /\ dbc_state = "IDLE" /\ dbi_reg \in DebugInst
  <1>1. dbi_state \in {"DEBUG_REQ", "EXTRACT_RES"}
    BY DEF DbiStart
  <1>2. dbc_state = "IDLE" /\ dbi_reg \in DebugInst
    BY <1>1 DEF IInv, InStep, DebugInStep, DbiWaits
  <1>3. DbiStart \in DbJob
    BY <1>1, <1>2 DEF DbiStart, DbJob, DebugInst
  <1>4. QED
    BY <1>1, <1>2, <1>3, JobAssumption

LEMMA DebugStep ==
  ASSUME IInv, NEW inst \in DebugInsts \cup {NoMsg}, DebugTick(inst)
  PROVE  DebugInStep'
  <1>1. CASE dbi_state \in {"DEBUG_REQ", "EXTRACT_RES"}
    <2>1. dbc_reg' = DbiStart /\ dbi_reg' = dbi_reg /\ dbc_state' = "DEB_CHECK"
      BY <1>1, DbiStartShape DEF DebugTick, DbiTick, DbiIdle, DbiGo, DbcTick,
                                 DbcGo, DbcCheck
    <2>2. dbi_state' = IF dbi_state = "DEBUG_REQ" THEN "DEBUG_WAIT"
                                                  ELSE "EXTRACT_WAIT"
      BY <1>1 DEF DebugTick, DbiTick, DbiIdle, DbiGo
    <2>3. QED
      BY <1>1, <2>1, <2>2, DbiStartShape
         DEF DbiStart, DebugInStep, DbiWaits, GivenJob
  <1>2. CASE dbi_state = "IDLE"
    <2>1. dbi_state' = "IDLE" \/ (dbi_state' = "DEBUG_REQ" /\ inst # NoMsg)
      BY <1>2 DEF DebugTick, DbiTick, DbiIdle, DbiGo
    <2>2. dbi_reg' = inst
      BY <1>2 DEF DebugTick, DbiTick, DbiIdle, DbiGo
    <2>3. dbc_state' = "IDLE"
      BY <1>2, DbiStartShape
         DEF IInv, InStep, DebugInStep, DbiWaits, DebugTick, DbcTick, DbcGo,
             DbcCheck
    <2>4. QED
      BY <2>1, <2>2, <2>3, DmaSystemAssumption DEF DebugInStep, DbiWaits
  <1>3. CASE dbi_state = "RES_CHECK"
    <2>1. dbc_state = "IDLE" /\ DbiStart = NoMsg
      BY <1>3, DbiStartShape DEF IInv, InStep, DebugInStep, DbiWaits
    <2>2. dbi_state' = "IDLE" /\ dbc_state' = "IDLE"
      BY <1>3, <2>1 DEF DebugTick, DbiTick, DbiIdle, DbiGo, DbcTick, DbcGo,
                        DbcCheck
    <2>3. QED
      BY <2>2 DEF DebugInStep, DbiWaits
  <1>4. CASE dbi_state \in {"DEBUG_WAIT", "EXTRACT_WAIT"}
    <2>1. dbc_state # "IDLE" /\ dbc_reg = GivenJob /\ dbi_reg \in DebugInst
      BY <1>4 DEF IInv, InStep, DebugInStep, DbiWaits
    <2>2. dbc_reg' = dbc_reg /\ dbi_reg' = dbi_reg /\ DbiStart = NoMsg
      BY <2>1, DbcKeeps
    <2>3. dbi_state' = IF dbc_state # "DEB_RESP"       THEN dbi_state
                       ELSE IF dbi_state = "DEBUG_WAIT" THEN "EXTRACT_RES"
                       ELSE "RES_CHECK"
      BY <1>4 DEF DebugTick, DbiTick, DbiIdle, DbiGo, DbcAck
    <2>4. dbc_state' = "IDLE" <=> dbc_state = "DEB_RESP"
      BY <2>1, <2>2 DEF DebugTick, DbcTick, DbcGo, DbcCheck
    <2>5. dbc_state' \in {"DEB_REQ", "DEB_WAIT"} => Authorised(dbi_reg.domain)
      BY <2>1, <2>2 DEF DebugTick, DbcTick, DbcGo, DbcCheck, IInv, InStep,
                        DebugInStep, Authorised
    <2>6. dbi_state' = dbi_state => GivenJob' = GivenJob
      BY <2>2 DEF GivenJob
    <2>7. QED
      BY <1>4, <2>1, <2>2, <2>3, <2>4, <2>5, <2>6
         DEF DebugInStep, DbiWaits, Authorised
  <1>5. QED
    BY <1>1, <1>2, <1>3, <1>4 DEF IInv, TypeOK, DebugTypeOK

LEMMA StatusStep ==
  ASSUME IInv, NEW rdy \in BOOLEAN, DmacTick(ChkJob, DbcJob, rdy, port_resp)
  PROVE  StatusInStep'
  BY DEF IInv, InStep, StatusInStep, Writing, DmacTick, DmacIdle, DmacRead,
         DmacReadDone, DmacWrite, DmacFinish, DmacGo, TypeOK, DmacTypeOK,
         DmacStates

LEMMA RunningStep ==
  ASSUME IInv, NEW noc \in NocShows, NEW inst \in DebugInsts \cup {NoMsg},
         NEW rdy \in BOOLEAN, DmacTick(ChkJob, DbcJob, rdy, port_resp),
         ChkTick(noc), DebugTick(inst)
  PROVE  RunningIsChecked'
  <1> SUFFICES ASSUME dmac_state' # "IDLE"
               PROVE  RunningIsChecked'
    BY DEF RunningIsChecked
  <1>1. CASE dmac_state = "IDLE"
    <2>1. /\ dmac_job' = ChkJob /\ dmac_db_job' = DbcJob
          /\ DbcJob # NoMsg \/ ChkJob # NoMsg
          /\ dmac_status' = IF DbcJob # NoMsg THEN "1" ELSE "0"
      BY <1>1 DEF DmacTick, DmacIdle, DmacRead, DmacReadDone, DmacWrite,
                  DmacFinish, DmacGo
    <2>2. CASE DbcJob # NoMsg
      <3>1. dbc_state = "DEB_REQ" /\ DbcJob = dbc_reg
        BY <2>2, DbcJobShape
      <3>2. dbc_reg' = dbc_reg /\ dbi_reg' = dbi_reg /\ dbc_state' = "DEB_WAIT"
        BY <3>1, DbcKeeps DEF DebugTick, DbcTick, DbcGo, DbcCheck
      <3>3. Authorised(dbi_reg.domain)
        BY <3>1 DEF IInv, InStep, DebugInStep
      <3>4. QED
        BY <2>1, <2>2, <3>1, <3>2, <3>3 DEF RunningIsChecked, Authorised
    <2>3. CASE DbcJob = NoMsg
      <3>1. /\ chk_state = "NOC_REQ"
            /\ ChkJob = [src |-> chk_reg.src, dest |-> chk_reg.dest]
        BY <2>1, <2>3, ChkJobShape
      <3>2. chk_reg' = chk_reg /\ chk_state' = "NOC_WAIT"
        BY <3>1, ChkKeeps DEF ChkTick, ChkIdle, ChkCheck, ChkPass, ChkWait,
                              ChkRespond
      <3>3. Authorised(chk_reg.domain)
        BY <3>1 DEF IInv, InStep, ChkInStep
      <3>4. QED
        BY <2>1, <2>3, <3>1, <3>2, <3>3 DEF RunningIsChecked, Authorised
    <2>4. QED
      BY <2>2, <2>3
  <1>2. CASE dmac_state # "IDLE"
    <2>1. ~DmacAck /\ UNCHANGED <<dmac_status, dmac_job, dmac_db_job>>
      BY <1>2 DEF DmacAck, DmacTick, DmacIdle, DmacRead, DmacReadDone,
                  DmacWrite, DmacFinish, DmacGo
    <2>2. CASE dmac_status = "0"
      <3>1. chk_state = "NOC_WAIT" /\ Authorised(chk_reg.domain)
              /\ dmac_job = [src |-> chk_reg.src, dest |-> chk_reg.dest]
        BY <1>2, <2>2 DEF IInv, InStep, RunningIsChecked
      <3>2. chk_reg' = chk_reg /\ chk_state' = "NOC_WAIT"
        BY <2>1, <3>1, ChkKeeps DEF ChkTick, ChkIdle, ChkCheck, ChkPass,
                                    ChkWait, ChkRespond
      <3>3. QED
        BY <2>1, <2>2, <3>1, <3>2 DEF RunningIsChecked, Authorised
    <2>3. CASE dmac_status # "0"
      <3>1. dbc_state = "DEB_WAIT" /\ Authorised(dbi_reg.domain)
              /\ dmac_db_job = dbc_reg
        BY <1>2, <2>3 DEF IInv, InStep, RunningIsChecked
      <3>2. dbc_reg' = dbc_reg /\ dbi_reg' = dbi_reg /\ dbc_state' = "DEB_WAIT"
        BY <2>1, <3>1, DbcKeeps DEF DebugTick, DbcTick, DbcGo, DbcCheck
      <3>3. QED
        BY <2>1, <2>3, <3>1, <3>2 DEF RunningIsChecked, Authorised
    <2>4. QED
      BY <2>2, <2>3
  <1>3. QED
    BY <1>1, <1>2

(* What the memory port does, with mem_req_rdy as it is in the cycle. *)
PortTick(rdy) ==
  IF rdy THEN PortTake(DmacMemReq(DmaTag))
         ELSE PortRest \/ PortBusy \/ PortExecute

LEMMA TakeShape ==
  ASSUME PortTake(DmacMemReq(DmaTag))
  PROVE  dmac_state \in {"READ_MEM_REQ", "WRITE_MEM_REQ"}
  BY DEF PortTake, DmacMemReq

LEMMA HoldTick ==
  ASSUME IInv, NEW rdy \in BOOLEAN, DmacTick(ChkJob, DbcJob, rdy, port_resp)
  PROVE  hold_queue' =
           IF hold_queue # NoMsg
           THEN IF rdy THEN NoMsg ELSE hold_queue
           ELSE IF dmac_state = "READ_MEM_DONE" THEN dmac_data ELSE NoMsg
  <1>1. dmac_data # NoMsg
    BY HoldAssumption DEF IInv, TypeOK, DmacTypeOK
  <1>2. QED
    BY <1>1 DEF DmacTick, DmacDatapath, HoldQ!QueueTick, HoldQ!DoDeq,
                HoldQ!DoEnq, HoldQ!DoPipe, HoldQ!DoBypass, HoldQ!DeqMsg,
                HoldQ!EnqRdy

LEMMA DataTick ==
  ASSUME IInv, NEW rdy \in BOOLEAN, DmacTick(ChkJob, DbcJob, rdy, port_resp),
         dmac_state \notin {"READ_MEM_WAIT", "WRITE_MEM_WAIT"}
  PROVE  dmac_data' = dmac_data
  BY DEF IInv, InStep, PortInStep, DmacTick, DmacDatapath

LEMMA HoldStep ==
  ASSUME IInv, NEW rdy \in BOOLEAN, DmacTick(ChkJob, DbcJob, rdy, port_resp),
         PortTick(rdy)
  PROVE  HoldInStep'
  <1>1. CASE dmac_state = "READ_MEM_REQ"
    <2>1. dmac_state' = "READ_MEM_REQ"
            \/ (dmac_state' = "READ_MEM_WAIT" /\ rdy)
      BY <1>1 DEF DmacTick, DmacIdle, DmacRead, DmacReadDone, DmacWrite,
                  DmacFinish, DmacGo
    <2>2. QED
      BY <1>1, <2>1, HoldTick DEF HoldInStep
  <1>2. CASE dmac_state = "READ_MEM_WAIT"
    <2>1. dmac_state' \in {"READ_MEM_WAIT", "READ_MEM_DONE"}
      BY <1>2 DEF DmacTick, DmacIdle, DmacRead, DmacReadDone, DmacWrite,
                  DmacFinish, DmacGo
    <2>2. QED
      BY <1>2, <2>1, HoldTick DEF HoldInStep, IInv, InStep
  <1>3. CASE dmac_state = "READ_MEM_DONE"
    <2>1. dmac_state' \in {"WRITE_MEM_REQ", "DEBUG_RES"}
      BY <1>3 DEF DmacTick, DmacIdle, DmacRead, DmacReadDone, DmacWrite,
                  DmacFinish, DmacGo
    <2>2. hold_queue' = dmac_data /\ dmac_data' = dmac_data
      BY <1>3, HoldTick, DataTick DEF HoldInStep, IInv, InStep
    <2>3. QED
      BY <2>1, <2>2 DEF HoldInStep
  <1>4. CASE dmac_state = "WRITE_MEM_REQ"
    <2>1. (dmac_state' = "WRITE_MEM_REQ" /\ ~rdy)
            \/ dmac_state' = "WRITE_MEM_WAIT"
      BY <1>4 DEF DmacTick, DmacIdle, DmacRead, DmacReadDone, DmacWrite,
                  DmacFinish, DmacGo
    <2>2. ~rdy => hold_queue' = hold_queue
      BY <1>4, HoldTick
    <2>3. QED
      BY <1>4, <2>1, <2>2, DataTick DEF HoldInStep, IInv, InStep
  <1>5. CASE dmac_state \notin {"READ_MEM_REQ", "READ_MEM_WAIT", "READ_MEM_DONE",
                                "WRITE_MEM_REQ"}
    <2>1. dmac_state' \notin {"READ_MEM_WAIT", "READ_MEM_DONE", "WRITE_MEM_REQ"}
      BY <1>5 DEF DmacTick, DmacIdle, DmacRead, DmacReadDone, DmacWrite,
                  DmacFinish, DmacGo
    <2>2. QED
      BY <2>1 DEF HoldInStep
  <1>6. QED
    BY <1>1, <1>2, <1>3, <1>4, <1>5

(* The controller works on one job until it is idle again. *)
LEMMA JobKept ==
  ASSUME IInv, NEW rdy \in BOOLEAN, DmacTick(ChkJob, DbcJob, rdy, port_resp),
         dmac_state # "IDLE", dmac_state' # "IDLE"
  PROVE  Current' = Current
  BY DEF Current, DmacTick, DmacIdle, DmacRead, DmacReadDone, DmacWrite,
         DmacFinish, DmacGo

(* A request that is taken asks for what the job needs. *)
LEMMA TakenShape ==
  ASSUME IInv, PortTake(DmacMemReq(DmaTag))
  PROVE  /\ port_req' \in Req /\ port_resp' = NoMsg /\ mem' = mem
         /\ dmac_state = "READ_MEM_REQ" =>
              port_req'.type = "read" /\ port_req'.addr = Current.src
         /\ dmac_state = "WRITE_MEM_REQ" =>
              /\ port_req'.type = "write" /\ port_req'.addr = Current.dest
              /\ port_req'.data = mem[Current.src]
  <1>1. HeldData \in Data \cup {Unknown}
    BY DEF HeldData, IInv, TypeOK, DmacTypeOK
  <1>2. CASE dmac_state = "READ_MEM_REQ"
    <2>1. port_req' = [type |-> "read", tag |-> DmaTag, addr |-> Current.src,
                       data |-> HeldData, domain |-> 1]
      BY <1>2 DEF PortTake, DmacMemReq
    <2>2. QED
      BY <1>1, <1>2, <2>1, CurrentShape, DmaSystemAssumption
         DEF PortTake, Req, ReqType, Domain
  <1>3. CASE dmac_state = "WRITE_MEM_REQ"
    <2>1. port_req' = [type |-> "write", tag |-> DmaTag, addr |-> Current.dest,
                       data |-> HeldData, domain |-> 1]
      BY <1>3 DEF PortTake, DmacMemReq
    <2>2. HeldData = mem[Current.src]
      BY <1>3, HoldAssumption DEF HeldData, IInv, InStep, HoldInStep,
                                  PortInStep, TypeOK, DmacTypeOK
    <2>3. QED
      BY <1>1, <1>3, <2>1, <2>2, CurrentShape, DmaSystemAssumption
         DEF PortTake, Req, ReqType, Domain, Writing
  <1>4. QED
    BY <1>2, <1>3, TakeShape

(* The memory changes only when a write is executed, and then as asked. *)
LEMMA ExecuteShape ==
  ASSUME IInv, PortExecute
  PROVE  /\ port_req # NoMsg /\ port_resp = NoMsg /\ port_req' = NoMsg
         /\ dmac_state \in {"READ_MEM_WAIT", "WRITE_MEM_WAIT"}
         /\ port_resp' = Serve(port_req) /\ port_resp' \in Resp
         /\ dmac_state = "READ_MEM_WAIT" =>
              mem' = mem /\ port_resp'.data = mem[Current.src]
         /\ dmac_state = "WRITE_MEM_WAIT" =>
              mem' = [mem EXCEPT ![Current.dest] = mem[Current.src]]
  <1>1. /\ port_req \in Req /\ port_resp = NoMsg /\ port_req' = NoMsg
        /\ port_req # NoMsg
        /\ dmac_state \in {"READ_MEM_WAIT", "WRITE_MEM_WAIT"}
        /\ port_resp' = Serve(port_req)
    BY DEF PortExecute, IInv, InStep, PortInStep, TypeOK
  <1>2. Serve(port_req) \in Resp /\ Serve(port_req).data = mem[port_req.addr]
    BY <1>1 DEF Serve, Req, Resp, Domain, IInv, TypeOK
  <1>3. dmac_state = "READ_MEM_WAIT" =>
          port_req.type = "read" /\ port_req.addr = Current.src
    BY <1>1 DEF IInv, InStep, PortInStep
  <1>4. dmac_state = "WRITE_MEM_WAIT" =>
          /\ port_req.type = "write" /\ port_req.addr = Current.dest
          /\ port_req.data = mem[Current.src]
    BY <1>1 DEF IInv, InStep, PortInStep
  <1>5. QED
    BY <1>1, <1>2, <1>3, <1>4 DEF PortExecute

LEMMA PortStep ==
  ASSUME IInv, NEW rdy \in BOOLEAN, DmacTick(ChkJob, DbcJob, rdy, port_resp),
         PortTick(rdy)
  PROVE  PortInStep'
  <1>1. CASE rdy
    <2>1. PortTake(DmacMemReq(DmaTag))
      BY <1>1 DEF PortTick
    <2>2. CASE dmac_state = "READ_MEM_REQ"
      <3>1. dmac_state' = "READ_MEM_WAIT"
        BY <1>1, <2>2 DEF DmacTick, DmacIdle, DmacRead, DmacReadDone, DmacWrite,
                          DmacFinish, DmacGo
      <3>2. QED
        BY <2>1, <2>2, <3>1, TakenShape, JobKept DEF PortInStep
    <2>3. CASE dmac_state = "WRITE_MEM_REQ"
      <3>1. dmac_state' = "WRITE_MEM_WAIT"
        BY <1>1, <2>3 DEF DmacTick, DmacIdle, DmacRead, DmacReadDone, DmacWrite,
                          DmacFinish, DmacGo
      <3>2. QED
        BY <2>1, <2>3, <3>1, TakenShape, JobKept DEF PortInStep
    <2>4. QED
      BY <2>1, <2>2, <2>3, TakeShape
  <1>2. CASE ~rdy /\ PortRest
    <2>1. port_req' = NoMsg /\ port_resp' = NoMsg /\ mem' = mem
      BY <1>2 DEF PortRest
    <2>2. CASE dmac_state = "READ_MEM_WAIT"
      <3>1. dmac_state' = "READ_MEM_WAIT"
              \/ (dmac_state' = "READ_MEM_DONE" /\ port_resp # NoMsg)
        BY <2>2 DEF DmacTick, DmacIdle, DmacRead, DmacReadDone, DmacWrite,
                    DmacFinish, DmacGo
      <3>2. port_resp # NoMsg => dmac_data' = mem[Current.src]
        BY <2>2 DEF DmacTick, DmacDatapath, IInv, InStep, PortInStep
      <3>3. QED
        BY <2>1, <2>2, <3>1, <3>2, JobKept DEF PortInStep
    <2>3. CASE dmac_state \in {"READ_MEM_DONE", "WRITE_MEM_REQ"}
      <3>1. dmac_data' = mem[Current.src]
        BY <2>3, DataTick DEF IInv, InStep, PortInStep
      <3>2. dmac_state' \in {"WRITE_MEM_REQ", "DEBUG_RES", "WRITE_MEM_WAIT"}
        BY <2>3 DEF DmacTick, DmacIdle, DmacRead, DmacReadDone, DmacWrite,
                    DmacFinish, DmacGo
      <3>3. QED
        BY <2>1, <2>3, <3>1, <3>2, JobKept DEF PortInStep
    <2>4. CASE dmac_state \notin {"READ_MEM_WAIT", "READ_MEM_DONE",
                                  "WRITE_MEM_REQ"}
      <3>1. dmac_state' \notin {"READ_MEM_DONE", "WRITE_MEM_REQ"}
        BY <2>4 DEF DmacTick, DmacIdle, DmacRead, DmacReadDone, DmacWrite,
                    DmacFinish, DmacGo
      <3>2. QED
        BY <2>1, <3>1 DEF PortInStep
    <2>5. QED
      BY <2>2, <2>3, <2>4
  <1>3. CASE ~rdy /\ port_req # NoMsg
    <2>1. /\ dmac_state \in {"READ_MEM_WAIT", "WRITE_MEM_WAIT"}
          /\ port_resp = NoMsg
      BY <1>3 DEF IInv, InStep, PortInStep
    <2>2. dmac_state' = dmac_state
      BY <2>1 DEF DmacTick, DmacIdle, DmacRead, DmacReadDone, DmacWrite,
                  DmacFinish, DmacGo
    <2>3. Current' = Current
      BY <2>1, <2>2, JobKept
    <2>4. CASE PortBusy
      BY <2>1, <2>2, <2>3, <2>4 DEF PortBusy, PortInStep, IInv, InStep
    <2>5. CASE PortExecute
      BY <2>1, <2>2, <2>3, <2>5, ExecuteShape DEF PortInStep
    <2>6. QED
      BY <1>3, <2>4, <2>5 DEF PortTick, PortRest
  <1>4. QED
    BY <1>1, <1>2, <1>3 DEF PortTick, PortBusy, PortExecute

LEMMA TypeStep ==
  ASSUME IInv, NEW noc \in NocShows, NEW inst \in DebugInsts \cup {NoMsg},
         NEW rdy \in BOOLEAN, System(noc, inst, rdy), PortTick(rdy)
  PROVE  TypeOK'
  <1>1. DmacTypeOK'
    <2>1. ChkJob \in Job \cup {NoMsg} /\ DbcJob \in DbJob \cup {NoMsg}
      BY ChkJobShape, DbcJobShape
    <2>2. dmac_data' \in Data \cup {Unknown}
      BY DEF System, DmacTick, DmacDatapath, IInv, TypeOK, DmacTypeOK, Resp
    <2>3. hold_queue' \in Data \cup {Unknown, NoMsg}
      BY HoldTick DEF System, IInv, TypeOK, DmacTypeOK
    <2>4. QED
      BY <2>1, <2>2, <2>3
         DEF System, DmacTick, DmacIdle, DmacRead, DmacReadDone, DmacWrite,
             DmacFinish, DmacGo, IInv, TypeOK, DmacTypeOK, DmacStates
  <1>2. ChkTypeOK'
    BY NocShape DEF System, ChkTick, ChkLoad, ChkIdle, ChkCheck, ChkPass, ChkWait,
                    ChkRespond, IInv, TypeOK, ChkTypeOK
  <1>3. DebugTypeOK'
    <2>1. dbi_reg' \in DebugInst \cup {NoMsg}
      BY DmaSystemAssumption
         DEF System, DebugTick, DbiTick, DbiIdle, DbiGo, IInv, TypeOK, DebugTypeOK
    <2>2. dbc_reg' \in DbJob \cup {NoMsg}
      BY DbiStartShape DEF System, DebugTick, DbcTick, IInv, TypeOK, DebugTypeOK
    <2>3. db_result' \in Data \cup {Unknown}
      BY DEF System, DebugTick, DbiTick, IInv, TypeOK, DmacTypeOK, DebugTypeOK
    <2>4. dbi_state' \in {"IDLE", "DEBUG_REQ", "DEBUG_WAIT", "EXTRACT_RES",
                          "EXTRACT_WAIT", "RES_CHECK"}
      BY DEF System, DebugTick, DbiTick, DbiIdle, DbiGo
    <2>5. dbc_state' \in {"IDLE", "DEB_CHECK", "DEB_REQ", "DEB_WAIT", "DEB_RESP"}
      BY DEF System, DebugTick, DbcTick, DbcGo, DbcCheck
    <2>6. QED
      BY <2>1, <2>2, <2>3, <2>4, <2>5 DEF DebugTypeOK
  <1>4. /\ core_state' \in [Core -> {"free", "sent", "taken"}]
        /\ core_req' \in [Core -> NocReq \cup {NoMsg}]
    <2>1. PICK senders \in SUBSET {c \in Core : core_state[c] = "free"} :
            Sends(noc, senders)
      BY DEF System, CoreTick
    <2>2. QED
      BY <2>1 DEF Sends, IInv, TypeOK
  <1>5. /\ port_req' \in Req \cup {NoMsg} /\ port_resp' \in Resp \cup {NoMsg}
        /\ mem' \in [Addr -> Data]
    <2>1. CASE rdy
      BY <2>1, TakenShape DEF PortTick, IInv, TypeOK
    <2>2. CASE PortRest \/ PortBusy
      BY <2>2 DEF PortRest, PortBusy, IInv, TypeOK
    <2>3. CASE PortExecute
      BY <2>3, ExecuteShape, CurrentShape DEF IInv, TypeOK
    <2>4. QED
      BY <2>1, <2>2, <2>3 DEF PortTick
  <1>6. QED
    BY <1>1, <1>2, <1>3, <1>4, <1>5 DEF TypeOK

-----------------------------------------------------------------------------
(* The invariant holds. *)

LEMMA StepShape ==
  ASSUME Next
  PROVE  \E noc \in NocShows, inst \in DebugInsts \cup {NoMsg}, rdy \in BOOLEAN :
           System(noc, inst, rdy) /\ PortTick(rdy)
  BY DEF Next, Tick, PortTick

LEMMA IInvStep ==
  ASSUME IInv, Next
  PROVE  IInv'
  <1>1. PICK noc \in NocShows, inst \in DebugInsts \cup {NoMsg}, rdy \in BOOLEAN :
          System(noc, inst, rdy) /\ PortTick(rdy)
    BY StepShape
  <1>2. /\ DmacTick(ChkJob, DbcJob, rdy, port_resp)
        /\ ChkTick(noc) /\ DebugTick(inst) /\ CoreTick(noc)
    BY <1>1 DEF System
  <1>3. TypeOK'
    BY <1>1, TypeStep
  <1>4. CoresInStep' /\ ChkInStep'
    BY <1>2, CoresStep, ChkStep
  <1>5. DebugInStep' /\ StatusInStep'
    BY <1>2, DebugStep, StatusStep
  <1>6. RunningIsChecked'
    BY <1>2, RunningStep
  <1>7. PortInStep' /\ HoldInStep'
    BY <1>1, <1>2, PortStep, HoldStep
  <1>8. QED
    BY <1>3, <1>4, <1>5, <1>6, <1>7 DEF IInv, InStep

LEMMA IInvStutter ==
  ASSUME IInv, UNCHANGED vars
  PROVE  IInv'
  <1>1. UNCHANGED <<dmacVars, chkVars, debugVars, envVars>>
    BY DEF vars
  <1>2. TypeOK'
    BY <1>1 DEF IInv, TypeOK, DmacTypeOK, ChkTypeOK, DebugTypeOK, dmacVars,
                chkVars, debugVars, envVars
  <1>3. CoresInStep' /\ ChkInStep' /\ DebugInStep' /\ StatusInStep'
    BY <1>1 DEF IInv, InStep, CoresInStep, ChkInStep, DebugInStep, DbiWaits,
                GivenJob, StatusInStep, Writing, Authorised, dmacVars, chkVars,
                debugVars, envVars
  <1>4. RunningIsChecked' /\ PortInStep' /\ HoldInStep'
    BY <1>1 DEF IInv, InStep, RunningIsChecked, PortInStep, HoldInStep, Current,
                Authorised, dmacVars, chkVars, debugVars, envVars
  <1>5. QED
    BY <1>2, <1>3, <1>4 DEF IInv, InStep

LEMMA IInvInit ==
  ASSUME Init
  PROVE  IInv
  <1>1. TypeOK
    BY DmaSystemAssumption
       DEF Init, DmacInit, ChkInit, DebugInit, TypeOK, DmacTypeOK, DmacStates,
           ChkTypeOK, DebugTypeOK
  <1>2. InStep
    BY DEF Init, DmacInit, ChkInit, DebugInit, InStep, CoresInStep, ChkInStep,
           DebugInStep, DbiWaits, StatusInStep, Writing, RunningIsChecked,
           PortInStep, HoldInStep
  <1>3. QED
    BY <1>1, <1>2 DEF IInv

(* The units stay in step. *)
THEOREM IInvHolds == Spec => []IInv
  <1>1. Init => IInv
    BY IInvInit
  <1>2. IInv /\ [Next]_vars => IInv'
    BY IInvStep, IInvStutter
  <1>3. QED
    BY <1>1, <1>2, PTL DEF Spec

(* Every register, queue and wire of the DMA units holds a value it can    *)
(* hold.                                                                   *)
THEOREM TypeCorrect == Spec => []TypeOK
  <1>1. IInv => TypeOK
    BY DEF IInv
  <1>2. QED
    BY <1>1, IInvHolds, PTL

(* While a job runs, the checker that has passed it waits for it and was   *)
(* right to pass it: one ack wire for two checkers is enough for that.     *)
THEOREM RunningJobIsChecked == Spec => []RunningIsChecked
  <1>1. IInv => RunningIsChecked
    BY DEF IInv, InStep
  <1>2. QED
    BY <1>1, IInvHolds, PTL

(* The controller may enqueue blindly: what a write sends is the entry     *)
(* just read, also after a read-back that has left its own in the queue.   *)
THEOREM HoldQueueIsRight == Spec => []HoldQueueCarries
  <1>1. IInv => HoldQueueCarries
    BY DEF IInv, InStep, HoldInStep, HoldQueueCarries
  <1>2. QED
    BY <1>1, IInvHolds, PTL

(* Where and what a job that is being written writes. *)
LEMMA WriteIsAuthorised ==
  ASSUME IInv, dmac_state = "WRITE_MEM_WAIT"
  PROVE  \/ \E c \in Core :
              /\ core_state[c] = "taken"
              /\ Authorised(core_req[c].domain)
              /\ core_req[c].dest = Current.dest
         \/ /\ dbi_state = "DEBUG_WAIT"
            /\ Authorised(dbi_reg.domain) /\ dbi_reg.dest = Current.dest
  <1>1. CASE dmac_status = "0"
    <2>1. /\ chk_state = "NOC_WAIT" /\ Authorised(chk_reg.domain)
          /\ Current.dest = chk_reg.dest
      BY <1>1 DEF IInv, InStep, RunningIsChecked, Current
    <2>2. /\ chk_reg.core \in Core /\ core_state[chk_reg.core] = "taken"
          /\ core_req[chk_reg.core] = chk_reg
      BY <2>1 DEF IInv, InStep, CoresInStep, NocReq
    <2>3. QED
      BY <2>1, <2>2
  <1>2. CASE dmac_status = "1"
    <2>1. dbc_state = "DEB_WAIT" /\ Authorised(dbi_reg.domain)
            /\ dmac_db_job = dbc_reg /\ dbc_reg = GivenJob /\ DbiWaits
      BY <1>2 DEF IInv, InStep, RunningIsChecked, DebugInStep
    <2>2. dbi_state = "DEBUG_WAIT"
      BY <1>2, <2>1 DEF IInv, InStep, StatusInStep, Writing, GivenJob
    <2>3. QED
      BY <1>2, <2>1, <2>2 DEF Current, GivenJob
  <1>3. QED
    BY <1>1, <1>2 DEF IInv, InStep, StatusInStep

(* The memory changes only at the destination of a job that an authorised  *)
(* requester still waits for, and to what the source holds.                *)
THEOREM EveryWriteIsRequested == Spec => WritesAreRequested
  <1>1. IInv /\ [Next]_vars => [\A a \in Addr : Requested(a)]_vars
    <2>1. SUFFICES ASSUME IInv, Next, NEW a \in Addr, mem'[a] # mem[a]
                   PROVE  Requested(a)
      BY DEF Requested
    <2>2. PICK rdy \in BOOLEAN : PortTick(rdy)
      BY <2>1, StepShape
    <2>3. PortExecute
      BY <2>1, <2>2 DEF PortTick, PortTake, PortRest, PortBusy
    <2>4. dmac_state = "WRITE_MEM_WAIT"
      BY <2>1, <2>3, ExecuteShape
    <2>5. a = Current.dest /\ mem'[a] = mem[Current.src]
      BY <2>1, <2>3, <2>4, ExecuteShape DEF IInv, TypeOK
    <2>6. QED
      BY <2>1, <2>4, <2>5, WriteIsAuthorised DEF Requested
  <1>2. QED
    BY <1>1, IInvHolds, PTL DEF Spec, WritesAreRequested

-----------------------------------------------------------------------------
(* What the copying has done so far.  The ack follows the answer to the    *)
(* write, and the result of a debug instruction is the entry just read.    *)
CopyInStep ==
  /\ \/ dmac_state \in {"WRITE_MEM_DONE", "ACK"}
     \/ dmac_state = "WRITE_MEM_WAIT" /\ port_resp # NoMsg
     => mem[Current.dest] = mem[Current.src]
  /\ dmac_state = "DEBUG_RES" =>
       /\ dmac_status = "1" /\ dmac_db_job.read_back
       /\ debug_data = mem[Current.src]

LEMMA CopyStep ==
  ASSUME IInv, CopyInStep, NEW rdy \in BOOLEAN,
         DmacTick(ChkJob, DbcJob, rdy, port_resp), PortTick(rdy)
  PROVE  CopyInStep'
  <1>1. CASE dmac_state = "WRITE_MEM_WAIT"
    <2>1. dmac_state' = IF port_resp # NoMsg THEN "WRITE_MEM_DONE"
                                             ELSE "WRITE_MEM_WAIT"
      BY <1>1 DEF DmacTick, DmacIdle, DmacRead, DmacReadDone, DmacWrite,
                  DmacFinish, DmacGo
    <2>2. Current' = Current
      BY <1>1, <2>1, JobKept
    <2>3. CASE PortExecute
      <3>1. /\ port_resp = NoMsg
            /\ mem' = [mem EXCEPT ![Current.dest] = mem[Current.src]]
        BY <1>1, <2>3, ExecuteShape
      <3>2. Current.src \in Addr /\ Current.dest \in Addr
        BY <1>1, CurrentShape DEF Writing
      <3>3. mem'[Current.dest] = mem'[Current.src]
        BY <3>1, <3>2 DEF IInv, TypeOK
      <3>4. QED
        BY <2>1, <2>2, <3>1, <3>3 DEF CopyInStep
    <2>4. CASE ~PortExecute
      <3>1. mem' = mem /\ (port_resp' # NoMsg => port_resp # NoMsg)
        BY <2>4 DEF PortTick, PortTake, PortRest, PortBusy
      <3>2. QED
        BY <1>1, <2>1, <2>2, <3>1 DEF CopyInStep
    <2>5. QED
      BY <2>3, <2>4
  <1>2. CASE dmac_state = "READ_MEM_DONE"
    <2>1. /\ dmac_state' \in {"WRITE_MEM_REQ", "DEBUG_RES"}
          /\ dmac_state' = "DEBUG_RES" =>
               /\ dmac_status = "1" /\ dmac_db_job.read_back
               /\ debug_data' = dmac_data
          /\ UNCHANGED <<dmac_status, dmac_db_job>>
      BY <1>2 DEF DmacTick, DmacIdle, DmacRead, DmacReadDone, DmacWrite,
                  DmacFinish, DmacGo
    <2>2. mem' = mem /\ dmac_data = mem[Current.src] /\ Current' = Current
      BY <1>2, <2>1, ExecuteShape, JobKept
         DEF PortTick, PortTake, PortRest, PortBusy, IInv, InStep, PortInStep
    <2>3. QED
      BY <2>1, <2>2 DEF CopyInStep
  <1>3. CASE dmac_state = "WRITE_MEM_DONE"
    <2>1. dmac_state' = "ACK"
      BY <1>3 DEF DmacTick, DmacIdle, DmacRead, DmacReadDone, DmacWrite,
                  DmacFinish, DmacGo
    <2>2. mem' = mem /\ Current' = Current
      BY <1>3, <2>1, ExecuteShape, JobKept
         DEF PortTick, PortTake, PortRest, PortBusy
    <2>3. QED
      BY <1>3, <2>1, <2>2 DEF CopyInStep
  <1>4. CASE dmac_state = "WRITE_MEM_REQ"
    <2>1. dmac_state' \in {"WRITE_MEM_REQ", "WRITE_MEM_WAIT"}
      BY <1>4 DEF DmacTick, DmacIdle, DmacRead, DmacReadDone, DmacWrite,
                  DmacFinish, DmacGo
    <2>2. port_resp' = NoMsg
      BY <1>4, ExecuteShape
         DEF PortTick, PortTake, PortRest, PortBusy, IInv, InStep, PortInStep
    <2>3. QED
      BY <2>1, <2>2 DEF CopyInStep
  <1>5. CASE dmac_state \notin {"READ_MEM_DONE", "WRITE_MEM_REQ",
                                "WRITE_MEM_WAIT", "WRITE_MEM_DONE"}
    <2>1. dmac_state' \notin {"WRITE_MEM_WAIT", "WRITE_MEM_DONE", "ACK",
                              "DEBUG_RES"}
      BY <1>5 DEF DmacTick, DmacIdle, DmacRead, DmacReadDone, DmacWrite,
                  DmacFinish, DmacGo
    <2>2. QED
      BY <2>1 DEF CopyInStep
  <1>6. QED
    BY <1>1, <1>2, <1>3, <1>4, <1>5

LEMMA CopyStutter ==
  ASSUME CopyInStep, UNCHANGED vars
  PROVE  CopyInStep'
  BY DEF CopyInStep, Current, vars, dmacVars, envVars

(* What the memory holds in the cycle of the ack, whoever the job was for. *)
THEOREM CopyIsInStep == Spec => []CopyInStep
  <1>1. Init => CopyInStep
    BY DEF Init, DmacInit, CopyInStep
  <1>2. IInv /\ CopyInStep /\ [Next]_vars => CopyInStep'
    <2>1. SUFFICES ASSUME IInv, CopyInStep, Next
                   PROVE  CopyInStep'
      BY CopyStutter
    <2>2. QED
      BY <2>1, StepShape, CopyStep DEF System
  <1>3. QED
    BY <1>1, <1>2, IInvHolds, PTL DEF Spec

-----------------------------------------------------------------------------
(* One request at a time. *)

OneAtATime ==
  \A c, d \in Core : core_state[c] # "free" /\ core_state[d] # "free" => c = d

LEMMA TakenStep ==
  ASSUME IInv, OneAtATime, TakenIsChecked, NEW noc \in NocShows,
         ChkTick(noc), CoreTick(noc)
  PROVE  TakenIsChecked'
  <1> SUFFICES ASSUME NEW c \in Core, core_state'[c] = "taken"
               PROVE  chk_state' # "IDLE" /\ chk_reg'.core = c
    BY DEF TakenIsChecked
  <1>1. c \in Taken(noc) \/ (core_state[c] = "taken" /\ c \notin Acked)
    BY DEF CoreTick, Sends
  <1>2. CASE c \in Taken(noc)
    <2>1. noc # NoMsg /\ c = noc.core
      BY <1>2 DEF Taken
    <2>2. core_state[c] = "sent" /\ noc \in NocReq
      BY <2>1, NocShape
    <2>3. chk_state = "IDLE"
      <3>1. SUFFICES ASSUME chk_state # "IDLE"
                     PROVE  FALSE
        OBVIOUS
      <3>2. chk_reg.core \in Core /\ core_state[chk_reg.core] = "taken"
        BY <3>1 DEF IInv, InStep, CoresInStep, NocReq
      <3>3. QED
        BY <2>2, <3>2 DEF OneAtATime
    <2>4. chk_state' = "NOC_CHECK" /\ chk_reg' = noc
      BY <2>1, <2>3 DEF ChkTick, ChkLoad, ChkIdle, ChkCheck, ChkPass, ChkWait,
                        ChkRespond
    <2>5. QED
      BY <2>1, <2>4
  <1>3. CASE core_state[c] = "taken" /\ c \notin Acked
    <2>1. chk_state # "IDLE" /\ chk_reg.core = c
      BY <1>3 DEF TakenIsChecked
    <2>2. chk_state # "NOC_RESP"
      BY <1>3, <2>1 DEF Acked, ChkNocAck
    <2>3. chk_reg' = chk_reg
      BY <2>1, <2>2, ChkKeeps
    <2>4. chk_state' # "IDLE"
      BY <2>1, <2>2 DEF ChkTick, ChkIdle, ChkCheck, ChkPass, ChkWait, ChkRespond
    <2>5. QED
      BY <2>1, <2>3, <2>4
  <1>4. QED
    BY <1>1, <1>2, <1>3

(* Every request taken from the network is in the checker's hands, however *)
(* many cores there are and whatever the debug port does, if no core sends *)
(* one before the last has been answered.                                  *)
THEOREM OneRequestIsKept == Spec /\ []OneAtATime => []TakenIsChecked
  <1>1. Init => TakenIsChecked
    BY DEF Init, TakenIsChecked
  <1>2. IInv /\ OneAtATime /\ TakenIsChecked /\ [Next]_vars => TakenIsChecked'
    <2>1. CASE Next
      BY <2>1, StepShape, TakenStep DEF System
    <2>2. CASE UNCHANGED vars
      BY <2>2 DEF TakenIsChecked, vars, chkVars, envVars
    <2>3. QED
      BY <2>1, <2>2
  <1>3. QED
    BY <1>1, <1>2, IInvHolds, PTL DEF Spec

(* In particular with one core; MCDMATwoCores refutes it for two. *)
COROLLARY OneCoreIsKept ==
  ASSUME \A c, d \in Core : c = d
  PROVE  Spec => []TakenIsChecked
  <1>1. OneAtATime
    BY DEF OneAtATime
  <1>2. QED
    BY <1>1, OneRequestIsKept, PTL

-----------------------------------------------------------------------------
(* Cores without a debug port.                                             *)

NoDebug == dbi_state = "IDLE"

(* The checker waits while the controller works, and the entry has been    *)
(* copied when it answers a core that may use the controller.              *)
AckInStep ==
  /\ chk_state = "NOC_WAIT" => dmac_state # "IDLE"
  /\ AckMeansCopied

(* Without a debug instruction every job is a core's. *)
LEMMA JobOfCore ==
  ASSUME IInv, NoDebug
  PROVE  /\ DbcJob = NoMsg
         /\ dmac_state # "IDLE" => chk_state = "NOC_WAIT" /\ dmac_status = "0"
  <1>1. dbc_state = "IDLE"
    BY DEF NoDebug, DbiWaits, IInv, InStep, DebugInStep
  <1>2. QED
    BY <1>1 DEF DbcJob, IInv, InStep, RunningIsChecked

LEMMA AckStep ==
  ASSUME IInv, CopyInStep, NoDebug, AckInStep, NEW noc \in NocShows,
         NEW rdy \in BOOLEAN, DmacTick(ChkJob, DbcJob, rdy, port_resp),
         ChkTick(noc), PortTick(rdy)
  PROVE  AckInStep'
  <1>1. ASSUME chk_state' = "NOC_WAIT"
        PROVE  dmac_state' # "IDLE"
    <2>1. CASE chk_state = "NOC_REQ"
      <3>1. dmac_state = "IDLE" /\ ChkJob # NoMsg
        <4>1. chk_reg \in NocReq
          BY <2>1 DEF IInv, InStep, CoresInStep
        <4>2. ChkJob \in Job
          BY <2>1, <4>1 DEF ChkJob, Job, NocReq
        <4>3. QED
          BY <2>1, <4>2, JobOfCore, JobAssumption
      <3>2. QED
        BY <3>1, JobOfCore DEF DmacTick, DmacIdle, DmacRead, DmacReadDone,
                               DmacWrite, DmacFinish, DmacGo
    <2>2. CASE chk_state = "NOC_WAIT"
      <3>1. dmac_state # "IDLE" /\ ~DmacAck
        BY <1>1, <2>2 DEF AckInStep, ChkTick, ChkIdle, ChkCheck, ChkPass,
                          ChkWait, ChkRespond
      <3>2. QED
        BY <3>1 DEF DmacAck, DmacTick, DmacIdle, DmacRead, DmacReadDone,
                    DmacWrite, DmacFinish, DmacGo
    <2>3. QED
      BY <1>1, <2>1, <2>2 DEF ChkTick, ChkIdle, ChkCheck, ChkPass, ChkWait,
                              ChkRespond
  <1>2. ASSUME chk_state' = "NOC_RESP", Authorised(chk_reg'.domain)
        PROVE  mem'[chk_reg'.dest] = mem'[chk_reg'.src]
    <2>1. chk_state \in {"NOC_CHECK", "NOC_WAIT"}
      BY <1>2 DEF ChkTick, ChkIdle, ChkCheck, ChkPass, ChkWait, ChkRespond
    <2>2. chk_reg' = chk_reg
      BY <2>1, ChkKeeps
    <2>3. chk_state = "NOC_WAIT" /\ DmacAck
      BY <1>2, <2>1, <2>2 DEF ChkTick, ChkIdle, ChkCheck, ChkPass, ChkWait,
                              ChkRespond, Authorised
    <2>4. dmac_status = "0" /\ dmac_state = "ACK"
      BY <2>3, JobOfCore DEF AckInStep, DmacAck, CopyInStep
    <2>5. Current = [src |-> chk_reg.src, dest |-> chk_reg.dest]
      BY <2>4 DEF IInv, InStep, RunningIsChecked, Current
    <2>6. mem' = mem
      BY <2>4, ExecuteShape DEF PortTick, PortTake, PortRest, PortBusy
    <2>7. QED
      BY <2>2, <2>4, <2>5, <2>6 DEF CopyInStep
  <1>3. QED
    BY <1>1, <1>2 DEF AckInStep, AckMeansCopied, ChkNocAck, Authorised

(* Where no debug instruction is issued, a core that may use the           *)
(* controller is notified when its entry has been copied, and not before,  *)
(* however many cores compete for the checker.                             *)
THEOREM AckIsRight == Spec /\ []NoDebug => []AckMeansCopied
  <1>1. Init => AckInStep
    BY DEF Init, ChkInit, AckInStep, AckMeansCopied, ChkNocAck
  <1>2. IInv /\ CopyInStep /\ NoDebug /\ AckInStep /\ [Next]_vars => AckInStep'
    <2>1. ASSUME IInv, CopyInStep, NoDebug, AckInStep, Next
          PROVE  AckInStep'
      BY <2>1, StepShape, AckStep DEF System
    <2>2. ASSUME AckInStep, UNCHANGED vars
          PROVE  AckInStep'
      BY <2>2 DEF AckInStep, AckMeansCopied, ChkNocAck, Authorised, vars,
                  dmacVars, chkVars, envVars
    <2>3. QED
      BY <2>1, <2>2
  <1>3. AckInStep => AckMeansCopied
    BY DEF AckInStep
  <1>4. QED
    BY <1>1, <1>2, <1>3, IInvHolds, CopyIsInStep, PTL DEF Spec

(* In particular where there are no instructions to issue; MCDMAWithDebug  *)
(* refutes it where there are.                                             *)
COROLLARY AckWithoutDebug ==
  ASSUME DebugInsts = {}
  PROVE  Spec => []AckMeansCopied
  <1>1. Init => NoDebug
    BY DEF Init, DebugInit, NoDebug
  <1>2. NoDebug /\ [Next]_vars => NoDebug'
    <2>1. ASSUME NoDebug, Next
          PROVE  NoDebug'
      <3>1. PICK noc \in NocShows, inst \in {NoMsg} : Tick(noc, inst)
        BY <2>1 DEF Next
      <3>2. DbiTick(inst)
        BY <3>1 DEF Tick, System, DebugTick
      <3>3. QED
        BY <2>1, <3>2 DEF NoDebug, DbiTick, DbiIdle, DbiGo
    <2>2. NoDebug /\ UNCHANGED vars => NoDebug'
      BY DEF NoDebug, vars, debugVars
    <2>3. QED
      BY <2>1, <2>2
  <1>3. QED
    BY <1>1, <1>2, AckIsRight, PTL DEF Spec

-----------------------------------------------------------------------------
(* A debug port without cores that make requests. *)

CoresRest == \A c \in Core : core_state[c] = "free"

(* The instruction has been carried out as far as its first job. *)
FirstJobDone ==
  \/ dbi_state \in {"EXTRACT_RES", "EXTRACT_WAIT", "RES_CHECK"}
  \/ dbi_state = "DEBUG_WAIT" /\ dbc_state = "DEB_RESP"

(* What an authorised instruction has copied stays, and what the second    *)
(* job has read waits in the latch for the interface.                      *)
ResultInStep ==
  /\ dbc_state = "DEB_WAIT" => dmac_state # "IDLE"
  /\ Authorised(dbi_reg.domain) =>
       /\ FirstJobDone => mem[dbi_reg.dest] = mem[dbi_reg.src]
       /\ dbi_state = "EXTRACT_WAIT" /\ dbc_state = "DEB_RESP" =>
            debug_data = mem[dbi_reg.dest]
       /\ DbiResultRdy => db_result = mem[dbi_reg.dest]

(* Without requests of cores every job is the debug instruction's. *)
LEMMA JobOfDebug ==
  ASSUME IInv, CoresRest
  PROVE  /\ ChkJob = NoMsg
         /\ dmac_state # "IDLE" =>
              /\ dbc_state = "DEB_WAIT" /\ dmac_status = "1"
              /\ dmac_db_job = GivenJob /\ Current = GivenJob /\ DbiWaits
  <1>1. chk_state = "IDLE"
    BY DEF CoresRest, IInv, InStep, CoresInStep, NocReq
  <1>2. dmac_state # "IDLE" => dmac_status = "1" /\ dbc_state = "DEB_WAIT"
                                 /\ dmac_db_job = dbc_reg
    BY <1>1 DEF IInv, InStep, RunningIsChecked, StatusInStep
  <1>3. QED
    BY <1>1, <1>2 DEF ChkJob, Current, IInv, InStep, DebugInStep

LEMMA DebugWaitStep ==
  ASSUME IInv, CoresRest, ResultInStep, NEW inst,
         NEW rdy \in BOOLEAN, DmacTick(ChkJob, DbcJob, rdy, port_resp),
         DebugTick(inst), dbc_state' = "DEB_WAIT"
  PROVE  dmac_state' # "IDLE"
  <1>1. CASE dbc_state = "DEB_REQ"
    <2>1. dmac_state = "IDLE"
      BY <1>1, JobOfDebug
    <2>2. DbcJob = GivenJob /\ dbi_reg \in DebugInst
      BY <1>1 DEF DbcJob, IInv, InStep, DebugInStep, DbiWaits
    <2>3. GivenJob \in DbJob
      BY <2>2 DEF GivenJob, DbJob, DebugInst
    <2>4. DbcJob # NoMsg
      BY <2>2, <2>3, JobAssumption
    <2>5. QED
      BY <2>1, <2>4 DEF DmacTick, DmacIdle, DmacRead, DmacReadDone, DmacWrite,
                        DmacFinish, DmacGo
  <1>2. CASE dbc_state = "DEB_WAIT"
    <2>1. dmac_state # "IDLE" /\ ~DmacAck
      BY <1>2 DEF ResultInStep, DebugTick, DbcTick, DbcGo, DbcCheck
    <2>2. QED
      BY <2>1 DEF DmacAck, DmacTick, DmacIdle, DmacRead, DmacReadDone,
                  DmacWrite, DmacFinish, DmacGo
  <1>3. QED
    BY <1>1, <1>2 DEF DebugTick, DbcTick, DbcGo, DbcCheck

(* The memory is not written once the first job of the instruction is      *)
(* done.                                                                   *)
LEMMA FirstJobStays ==
  ASSUME IInv, CoresRest, NEW rdy \in BOOLEAN, PortTick(rdy),
         FirstJobDone \/ DmacAck
  PROVE  mem' = mem
  <1>1. dmac_state # "WRITE_MEM_WAIT"
    BY JobOfDebug DEF FirstJobDone, DmacAck, GivenJob, DbiWaits, IInv, InStep,
                      StatusInStep, Writing
  <1>2. QED
    BY <1>1, ExecuteShape DEF PortTick, PortTake, PortRest, PortBusy

LEMMA ResultStep ==
  ASSUME IInv, CopyInStep, CoresRest, ResultInStep,
         NEW inst \in DebugInsts \cup {NoMsg},
         NEW rdy \in BOOLEAN, DmacTick(ChkJob, DbcJob, rdy, port_resp),
         DebugTick(inst), PortTick(rdy)
  PROVE  ResultInStep'
  <1> SUFFICES ASSUME dbi_reg'.domain >= DmaDomain
               PROVE  /\ FirstJobDone' => mem'[dbi_reg'.dest] = mem'[dbi_reg'.src]
                      /\ dbi_state' = "EXTRACT_WAIT" /\ dbc_state' = "DEB_RESP" =>
                           debug_data' = mem'[dbi_reg'.dest]
                      /\ dbi_state' = "RES_CHECK" =>
                           db_result' = mem'[dbi_reg'.dest]
    BY DebugWaitStep DEF ResultInStep, Authorised, DbiResultRdy
  (* Where the interface is once the first job is done. *)
  <1>1. CASE FirstJobDone'
    <2>1. /\ dbi_state # "IDLE" /\ dbi_reg' = dbi_reg
          /\ FirstJobDone \/ (dbi_state = "DEBUG_WAIT" /\ dbc_state # "DEB_RESP"
                               /\ dbc_state' = "DEB_RESP")
      <3>1. CASE dbi_state' = "DEBUG_WAIT" /\ dbc_state' = "DEB_RESP"
        <4>1. dbc_state # "IDLE" /\ dbc_state # "DEB_RESP"
          BY <3>1 DEF DebugTick, DbcTick, DbcGo, DbcCheck
        <4>2. dbi_state = "DEBUG_WAIT" /\ dbi_reg' = dbi_reg
          BY <3>1, <4>1 DEF DebugTick, DbiTick, DbiIdle, DbiGo, IInv, InStep,
                            DebugInStep, DbiWaits
        <4>3. QED
          BY <3>1, <4>1, <4>2
      <3>2. CASE dbi_state' \in {"EXTRACT_RES", "EXTRACT_WAIT", "RES_CHECK"}
        BY <3>2 DEF FirstJobDone, DebugTick, DbiTick, DbiIdle, DbiGo, DbcAck
      <3>3. QED
        BY <1>1, <3>1, <3>2 DEF FirstJobDone
    <2>2. CASE FirstJobDone
      <3>1. mem' = mem /\ mem[dbi_reg.dest] = mem[dbi_reg.src]
        BY <2>1, <2>2, FirstJobStays DEF ResultInStep, Authorised
      <3>2. ASSUME dbi_state' = "EXTRACT_WAIT", dbc_state' = "DEB_RESP"
            PROVE  debug_data' = mem'[dbi_reg'.dest]
        <4>1. dbi_state \in {"EXTRACT_RES", "EXTRACT_WAIT"}
          BY <3>2 DEF DebugTick, DbiTick, DbiIdle, DbiGo
        <4>2. dbi_state = "EXTRACT_WAIT" /\ dbc_state = "DEB_WAIT" /\ DmacAck
          BY <2>1, <3>2, <4>1 DEF DebugTick, DbiTick, DbiIdle, DbiGo, DbcTick,
                   DbcGo, DbcCheck, IInv, InStep, DebugInStep, DbiWaits
        <4>3. dmac_state # "IDLE" /\ Current.src = dbi_reg.dest
                /\ dmac_db_job.read_back
          BY <4>2, JobOfDebug DEF ResultInStep, GivenJob
        <4>4. dmac_state = "DEBUG_RES"
          BY <4>2, <4>3, JobOfDebug DEF DmacAck, IInv, InStep, StatusInStep, Writing
        <4>5. debug_data' = debug_data
          BY <4>4 DEF DmacTick, DmacIdle, DmacRead, DmacReadDone, DmacWrite,
                      DmacFinish, DmacGo
        <4>6. QED
          BY <2>1, <3>1, <4>3, <4>4, <4>5 DEF CopyInStep
      <3>3. ASSUME dbi_state' = "RES_CHECK"
            PROVE  db_result' = mem'[dbi_reg'.dest]
        <4>1. dbi_state = "EXTRACT_WAIT" /\ dbc_state = "DEB_RESP"
                /\ db_result' = debug_data
          BY <3>3 DEF DebugTick, DbiTick, DbiIdle, DbiGo, DbcAck
        <4>2. QED
          BY <2>1, <3>1, <4>1 DEF ResultInStep, Authorised
      <3>4. QED
        BY <2>1, <3>1, <3>2, <3>3
    <2>3. CASE /\ dbi_state = "DEBUG_WAIT" /\ dbc_state # "DEB_RESP"
               /\ dbc_state' = "DEB_RESP"
      <3>1. dbi_state' = "DEBUG_WAIT"
        BY <2>3 DEF DebugTick, DbiTick, DbiIdle, DbiGo, DbcAck
      <3>2. dbc_state = "DEB_WAIT" /\ DmacAck
        BY <2>1, <2>3 DEF DebugTick, DbcTick, DbcGo, DbcCheck, Authorised
      <3>3. dmac_state # "IDLE" /\ Current = GivenJob /\ ~dmac_db_job.read_back
        BY <2>3, <3>2, JobOfDebug DEF ResultInStep, GivenJob
      <3>4. dmac_state = "ACK" /\ mem[dbi_reg.dest] = mem[dbi_reg.src]
        BY <2>3, <3>2, <3>3 DEF DmacAck, CopyInStep, GivenJob
      <3>5. mem' = mem
        BY <3>2, FirstJobStays
      <3>6. QED
        BY <2>1, <3>1, <3>4, <3>5
    <2>4. QED
      BY <2>1, <2>2, <2>3
  <1>2. QED
    BY <1>1 DEF FirstJobDone

(* Where no core makes a request, an authorised debug instruction shows    *)
(* the entry it has copied: the second job reads what the first has        *)
(* written, and the latch keeps it until the interface looks.              *)
THEOREM ResultIsRight == Spec /\ []CoresRest => []DebugReadsBack
  <1>1. Init => ResultInStep
    BY DEF Init, DebugInit, ResultInStep, FirstJobDone, DbiResultRdy
  <1>2. IInv /\ CopyInStep /\ CoresRest /\ ResultInStep /\ [Next]_vars
          => ResultInStep'
    <2>1. ASSUME IInv, CopyInStep, CoresRest, ResultInStep, Next
          PROVE  ResultInStep'
      BY <2>1, StepShape, ResultStep DEF System
    <2>2. ASSUME ResultInStep, UNCHANGED vars
          PROVE  ResultInStep'
      BY <2>2 DEF ResultInStep, FirstJobDone, DbiResultRdy, Authorised, vars,
                  dmacVars, debugVars, envVars
    <2>3. QED
      BY <2>1, <2>2
  <1>3. ResultInStep => DebugReadsBack
    BY DEF ResultInStep, DebugReadsBack, DbiResultRdy, FirstJobDone
  <1>4. QED
    BY <1>1, <1>2, <1>3, IInvHolds, CopyIsInStep, PTL DEF Spec

(* In particular where there is no core that could. *)
COROLLARY DebugAlone == ASSUME Core = {} PROVE Spec => []DebugReadsBack
  <1>1. CoresRest
    BY DEF CoresRest
  <1>2. QED
    BY <1>1, ResultIsRight, PTL
=============================================================================
