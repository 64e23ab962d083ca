------------------------------ MODULE MemGuard ------------------------------
(***************************************************************************)
(* The address controller on its memory, with nothing assumed of the       *)
(* request port and of the partition port: in every cycle there may be a   *)
(* request, a new partition, both or neither.  This is how the instruction *)
(* memory is wired (the request port comes straight from the cache, and    *)
(* MemDomain is as good as 0, for memreq_domain is not driven), and it uses *)
(* the partition port, which the top module leaves unconnected.            *)
(***************************************************************************)
EXTENDS MemAddrCtrl, TestMem

CONSTANT ParValues  \* the values par_addr may have

ASSUME ParValuesAssumption == ParValues \subseteq Nat

vars == <<ctlVars, memVars>>

Asks == Message(Tag, Domain)

(* No x gets into the memory. *)
TypeOK == CtlTypeOK /\ MemTypeOK /\ mem \in [Addr -> Data]

Init == CtlInit /\ MemInit

(* The consumer of the responses is always ready, as the arbiter is.       *)
GuardTick(req, par_en, par_addr) ==
  /\ CtlTick(req, par_en, par_addr)
  /\ MemTick(CtlMemReq, CtlMemRespRdy(TRUE))

Next ==
  \E req \in Asks \cup {NoMsg}, par_en \in BOOLEAN, par_addr \in ParValues :
    GuardTick(req, par_en, par_addr)

Spec == Init /\ [][Next]_vars
-----------------------------------------------------------------------------
(* Properties. *)

Allowed(req) == req.domain = 1 \/ Public(req.addr)

(* The check of SEC_CHECK is used two cycles later: the partition may not  *)
(* move in between, so a request on its way to or from the memory is one   *)
(* that the partition of now allows, and FAKE_RESP is for the others.      *)
CheckStillHolds ==
  /\ ctl_state \in {"MEM_REQ", "MEM_RESP"} => Allowed(ctl_req)
  /\ ctl_state = "FAKE_RESP"               => ~Allowed(ctl_req)

(* MEM_RESP lasts one cycle and pairs the response with the request by     *)
(* time alone: in that cycle the memory shows a response, it is the one of *)
(* the request of the controller, and outside it the memory is empty, so   *)
(* that no late response is taken for a later request.                     *)
HearsItsOwn ==
  IF ctl_state = "MEM_RESP"
  THEN memreq_queue = ctl_req /\ MemRespOut = Serve(ctl_req)
  ELSE MemRespOut = NoMsg

(* An entry changes only by the write the controller has let through, and  *)
(* an entry from the partition on only for a requester of domain 1.        *)
Guarded(a) ==
  mem'[a] # mem[a] =>
    /\ ctl_req.type = "write" /\ ctl_req.addr = a /\ ctl_req.data = mem'[a]
    /\ a >= par_ctrl_reg => ctl_req.domain = 1

GuardedWrites == [][\A a \in Addr : Guarded(a)]_vars
=============================================================================
