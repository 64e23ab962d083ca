------------------------------ MODULE DMASystem ------------------------------
(***************************************************************************)
(* DMA_checker, DMA_ctrl, Debug_checker and Debug_interface as             *)
(* plab5_mcore_ProcNetCacheMem wires them, with what surrounds them:       *)
(*   - cores that each have at most one DMA request in flight.  A request  *)
(*     spends any time in the network; the router shows it to the checker  *)
(*     only in a cycle in which noc_rdy is high (RouterOutputCtrl-Sep);    *)
(*   - a core that may start a debug instruction in any cycle, at the      *)
(*     level it has then;                                                  *)
(*   - the memory port, as MemService describes it for one port: a request *)
(*     is taken after any time, executed whole after any time, and its     *)
(*     response is there for one cycle.                                    *)
(***************************************************************************)
EXTENDS DebugPort

CONSTANTS
  DmaTag,    \* the opaque field of the controller's requests
  InitMem,   \* what the memory holds at first
  DebugInsts \* the debug instructions that may be issued

ASSUME DmaSystemAssumption ==
  /\ DmaTag \in Tag
  /\ InitMem \in [Addr -> Data]
  /\ DebugInsts \subseteq DebugInst

VARIABLES
  core_state,  \* where each core's DMA request is
  core_req,    \* the last request each core made
  port_req,    \* the request the memory has taken
  port_resp,   \* the response it shows
  mem          \* the memory

envVars == <<core_state, core_req, port_req, port_resp, mem>>
vars    == <<dmacVars, chkVars, debugVars, envVars>>

TypeOK ==
  /\ DmacTypeOK /\ ChkTypeOK /\ DebugTypeOK
  /\ core_state \in [Core -> {"free", "sent", "taken"}]
  /\ core_req \in [Core -> NocReq \cup {NoMsg}]
  /\ port_req \in Req \cup {NoMsg}
  /\ port_resp \in Resp \cup {NoMsg}
  /\ mem \in [Addr -> Data]

Init ==
  /\ DmacInit /\ ChkInit /\ DebugInit
  /\ core_state = [c \in Core |-> "free"]
  /\ core_req = [c \in Core |-> NoMsg]
  /\ port_req = NoMsg
  /\ port_resp = NoMsg
  /\ mem = InitMem

-----------------------------------------------------------------------------
(* The cores and the network. *)

(* What the network may show on noc_val in this cycle. *)
NocShows ==
  {NoMsg} \cup
  (IF ChkNocRdy THEN {core_req[c] : c \in {d \in Core : core_state[d] = "sent"}}
                ELSE {})

(* The core a response is routed to, if any. *)
Acked == IF ChkNocAck THEN {chk_reg.core} ELSE {}

Taken(noc) == IF noc = NoMsg THEN {} ELSE {noc.core}

Sends(noc, senders) ==
  /\ core_state' =
       [c \in Core |-> IF c \in senders         THEN "sent"
                       ELSE IF c \in Taken(noc) THEN "taken"
                       ELSE IF c \in Acked      THEN "free"
                       ELSE core_state[c]]
  /\ \E reqs \in [senders -> NocReq] :
       /\ \A c \in senders : reqs[c].core = c
       /\ core_req' = [c \in Core |->
                         IF c \in senders THEN reqs[c] ELSE core_req[c]]

CoreTick(noc) ==
  \E senders \in SUBSET {c \in Core : core_state[c] = "free"} :
    Sends(noc, senders)

-----------------------------------------------------------------------------
(* The memory port. *)

Serve(req) ==
  [type |-> req.type, tag |-> req.tag, data |-> mem[req.addr], domain |-> 1]

PortRest ==
  /\ port_req = NoMsg
  /\ port_resp' = NoMsg
  /\ UNCHANGED <<port_req, mem>>

PortBusy == port_req # NoMsg /\ UNCHANGED <<port_req, port_resp, mem>>

PortTake(req) ==
  /\ port_req = NoMsg /\ port_resp = NoMsg /\ req # NoMsg
  /\ port_req' = req
  /\ UNCHANGED <<port_resp, mem>>

PortExecute ==
  /\ port_req # NoMsg
  /\ port_resp' = Serve(port_req)
  /\ mem' = IF port_req.type = "write"
            THEN [mem EXCEPT ![port_req.addr] = port_req.data] ELSE mem
  /\ port_req' = NoMsg

-----------------------------------------------------------------------------
(* mem_req_rdy is high in the cycle the request is taken. *)
System(noc, inst, rdy) ==
  /\ DmacTick(ChkJob, DbcJob, rdy, port_resp)
  /\ ChkTick(noc)
  /\ DebugTick(inst)
  /\ CoreTick(noc)

Tick(noc, inst) ==
  \/ System(noc, inst, TRUE) /\ PortTake(DmacMemReq(DmaTag))
  \/ System(noc, inst, FALSE) /\ (PortRest \/ PortBusy \/ PortExecute)

Next ==
  \E noc \in NocShows, inst \in DebugInsts \cup {NoMsg} : Tick(noc, inst)

Spec == Init /\ [][Next]_vars

(* The clock runs, the arbiter grants and the memory answers, and the      *)
(* network delivers.                                                       *)
TakesOne    == Next /\ port_req = NoMsg /\ port_req' # NoMsg
ExecutesOne == Next /\ port_req # NoMsg /\ port_req' = NoMsg
Delivers(c) == Next /\ core_state[c] = "sent" /\ core_state'[c] = "taken"

FairSpec ==
  /\ Spec /\ WF_vars(Next) /\ WF_vars(TakesOne) /\ WF_vars(ExecutesOne)
  /\ \A c \in Core : SF_vars(Delivers(c))
-----------------------------------------------------------------------------
(* Properties. *)

Authorised(domain) == domain >= DmaDomain

(* Neither checker keeps a copy of the job the controller has taken, and   *)
(* both share its one ack wire.  Still, while a job runs, the checker that *)
(* passed it waits for it, holds the same addresses, and was right to pass *)
(* it.                                                                     *)
RunningIsChecked ==
  dmac_state # "IDLE" =>
    IF dmac_status = "0"
    THEN /\ chk_state = "NOC_WAIT"
         /\ Authorised(chk_reg.domain)
         /\ dmac_job = [src |-> chk_reg.src, dest |-> chk_reg.dest]
    ELSE /\ dbc_state = "DEB_WAIT"
         /\ Authorised(dbi_reg.domain)
         /\ dmac_db_job = dbc_reg

(* The controller enqueues without looking at enq_rdy, and a read-back     *)
(* leaves an entry behind in the hold queue.  Still the queue has room     *)
(* when an entry comes, and what a write sends is the entry just read.     *)
HoldQueueCarries ==
  /\ dmac_state = "READ_MEM_DONE" => hold_queue = NoMsg
  /\ dmac_state = "WRITE_MEM_REQ" => hold_queue = dmac_data

Requested(a) ==
  mem'[a] # mem[a] =>
    /\ mem'[a] = mem[Current.src]
    /\ \/ \E c \in Core :
            /\ core_state[c] = "taken"
            /\ Authorised(core_req[c].domain) /\ core_req[c].dest = a
       \/ /\ dbi_state = "DEBUG_WAIT"
          /\ Authorised(dbi_reg.domain) /\ dbi_reg.dest = a

(* The controller changes the memory only at the destination of a job that *)
(* an authorised requester still waits for, and to what the source holds.  *)
WritesAreRequested == [][\A a \in Addr : Requested(a)]_vars

(* The DMA controller's ack: "when operations done, notify core"           *)
(* (DMA-controller.v).  A core that may use the controller is notified     *)
(* when its entry has been copied, and not before.                         *)
AckMeansCopied ==
  ChkNocAck /\ Authorised(chk_reg.domain) =>
    mem[chk_reg.dest] = mem[chk_reg.src]

(* "The module will check whether DMA requests from cores match the        *)
(* security level of DMA checker, if yes, the DMA requests will be passed  *)
(* to DMA controller. Otherwise, it will be rejected" (DMA-checker.v):     *)
(* every request taken from the network is in the checker's hands.         *)
TakenIsChecked ==
  \A c \in Core :
    core_state[c] = "taken" => chk_state # "IDLE" /\ chk_reg.core = c

(* A core whose DMA request has been taken is answered. *)
TakenIsAnswered ==
  \A c \in Core : (core_state[c] = "taken") ~> (core_state[c] = "free")

(* An authorised debug instruction shows, as its result, the entry it has  *)
(* copied: the read-back is a second job, started by the interface after   *)
(* the first, through the same controller and a latch.                     *)
DebugReadsBack ==
  DbiResultRdy /\ Authorised(dbi_reg.domain) =>
    db_result = mem[dbi_reg.dest] /\ db_result = mem[dbi_reg.src]

(* A debug instruction comes to an end, authorised or not. *)
DebugEnds == (dbi_state = "DEBUG_REQ") ~> (dbi_state = "IDLE")
=============================================================================
