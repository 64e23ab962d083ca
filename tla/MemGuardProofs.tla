--------------------------- MODULE MemGuardProofs ---------------------------
(***************************************************************************)
(* The theorems about MemGuard: for every set of addresses, data and tags, *)
(* every partition and every sequence of requests and partition changes.   *)
(***************************************************************************)
EXTENDS MemGuard, MemLemmas

(* The inductive invariant.  The controller has a request while it is at   *)
(* work, the memory holds that very request in MEM_RESP and nothing in any *)
(* other state, and its response queue is bypassed in the one cycle it is  *)
(* used.                                                                   *)
Working == ctl_state \in {"SEC_CHECK", "MEM_REQ", "MEM_RESP", "FAKE_RESP"}

InStep == MemInStep /\ (Working => ctl_req \in Asks)

IInv == TypeOK /\ CheckStillHolds /\ InStep

LEMMA AsksAreReqs == Asks \subseteq Req /\ NoMsg \notin Asks
  BY MessageIsReq DEF Asks

-----------------------------------------------------------------------------
(* One step: one lemma per part of the invariant. *)

LEMMA TypeStep ==
  ASSUME IInv, Next
  PROVE  TypeOK'
  <1> PICK req \in Asks \cup {NoMsg}, par_en \in BOOLEAN,
           par_addr \in ParValues : GuardTick(req, par_en, par_addr)
    BY DEF Next
  <1>1. req \in Req \cup {NoMsg} /\ par_addr \in Nat
    BY AsksAreReqs, ParValuesAssumption
  <1>2. CtlTypeOK'
    BY <1>1, CtlTickType DEF GuardTick, IInv, TypeOK
  <1>3. CtlMemReq \in Req \cup {NoMsg}
    BY DEF CtlMemReq, IInv, TypeOK, CtlTypeOK
  <1>4. MemTypeOK'
    BY <1>3, MemTickType DEF GuardTick, IInv, TypeOK
  <1>5. mem' \in [Addr -> Data]
    <2>1. memreq_queue # NoMsg => memreq_queue \in Asks
      BY DEF IInv, InStep, MemInStep, Working
    <2>2. memreq_queue # NoMsg /\ memreq_queue.type = "write" =>
            memreq_queue.data \in Data
      BY <2>1 DEF Asks, Message
    <2>3. QED
      BY <2>2 DEF GuardTick, MemTick, MemWrite, IInv, TypeOK
  <1>6. QED
    BY <1>2, <1>4, <1>5 DEF TypeOK

LEMMA CheckStep ==
  ASSUME IInv, Next
  PROVE  CheckStillHolds'
  <1> PICK req \in Asks \cup {NoMsg}, par_en \in BOOLEAN,
           par_addr \in ParValues : CtlTick(req, par_en, par_addr)
    BY DEF Next, GuardTick
  <1> USE DEF IInv, CheckStillHolds, Allowed, Public
  <1>1. CASE CtlAccept(req)
    BY <1>1 DEF CtlAccept
  <1>2. CASE CtlStartPar(req, par_en)
    BY <1>2 DEF CtlStartPar
  <1>3. CASE CtlStayIdle(req, par_en)
    BY <1>3 DEF CtlStayIdle, ctlVars
  <1>4. CASE CtlAllow
    BY <1>4 DEF CtlAllow
  <1>5. CASE CtlRefuse
    BY <1>5 DEF CtlRefuse
  <1>6. CASE CtlIssue
    BY <1>6 DEF CtlIssue
  <1>7. CASE CtlFinish
    BY <1>7 DEF CtlFinish
  <1>8. CASE CtlChangePar(par_addr)
    BY <1>8 DEF CtlChangePar
  <1>9. QED
    BY <1>1, <1>2, <1>3, <1>4, <1>5, <1>6, <1>7, <1>8 DEF CtlTick

LEMMA InStepStep ==
  ASSUME IInv, Next
  PROVE  InStep'
  <1> PICK req \in Asks \cup {NoMsg}, par_en \in BOOLEAN,
           par_addr \in ParValues : GuardTick(req, par_en, par_addr)
    BY DEF Next
  <1>1. /\ memreq_queue' = IF ctl_state = "MEM_REQ" THEN ctl_req ELSE NoMsg
        /\ memresp_queue' = NoMsg
    BY MemFollows DEF GuardTick, IInv, InStep, TypeOK
  <1> USE <1>1, AsksAreReqs DEF IInv, InStep, MemInStep, Working
  <1>2. CASE CtlAccept(req)
    BY <1>2 DEF CtlAccept
  <1>3. CASE CtlStartPar(req, par_en)
    BY <1>3 DEF CtlStartPar
  <1>4. CASE CtlStayIdle(req, par_en)
    BY <1>4 DEF CtlStayIdle, ctlVars
  <1>5. CASE CtlAllow
    BY <1>5 DEF CtlAllow
  <1>6. CASE CtlRefuse
    BY <1>6 DEF CtlRefuse
  <1>7. CASE CtlIssue
    BY <1>7 DEF CtlIssue
  <1>8. CASE CtlFinish
    BY <1>8 DEF CtlFinish
  <1>9. CASE CtlChangePar(par_addr)
    BY <1>9 DEF CtlChangePar
  <1>10. QED
    BY <1>2, <1>3, <1>4, <1>5, <1>6, <1>7, <1>8, <1>9 DEF GuardTick, CtlTick

LEMMA IInvStutter ==
  ASSUME IInv, UNCHANGED vars
  PROVE  IInv'
  BY DEF IInv, TypeOK, CtlTypeOK, MemTypeOK, CheckStillHolds, Allowed, Public,
         InStep, MemInStep, Working, vars, ctlVars, memVars

THEOREM IInvHolds == Spec => []IInv
  <1>1. Init => IInv
    BY InitialParAssumption, TestMemAssumption
       DEF Init, CtlInit, MemInit, IInv, TypeOK, CtlTypeOK, CtlStates,
           MemTypeOK, CheckStillHolds, InStep, MemInStep, Working
  <1>2. IInv /\ [Next]_vars => IInv'
    BY TypeStep, CheckStep, InStepStep, IInvStutter DEF IInv
  <1>3. QED
    BY <1>1, <1>2, PTL DEF Spec

-----------------------------------------------------------------------------
(* Every register of the controller and of the memory keeps its type.      *)
THEOREM TypeCorrect == Spec => []TypeOK
  <1>1. IInv => TypeOK
    BY DEF IInv
  <1>2. QED
    BY <1>1, IInvHolds, PTL

(* The check of SEC_CHECK stays true until the request is done, however    *)
(* the partition port is driven.                                           *)
THEOREM CheckIsStable == Spec => []CheckStillHolds
  <1>1. IInv => CheckStillHolds
    BY DEF IInv
  <1>2. QED
    BY <1>1, IInvHolds, PTL

(* In the one cycle the controller listens, the memory answers the request *)
(* it was given; in every other cycle the memory is silent.                *)
THEOREM ListensInTime == Spec => []HearsItsOwn
  <1>1. IInv => HearsItsOwn
    BY AnswerInStep DEF HearsItsOwn, IInv, InStep, MemInStep
  <1>2. QED
    BY <1>1, IInvHolds, PTL

(* No write reaches an entry but the one the controller has let through,   *)
(* and only domain 1 writes from the partition on.                         *)
THEOREM WritesAreGuarded == Spec => GuardedWrites
  <1>1. IInv /\ [Next]_vars => [\A a \in Addr : Guarded(a)]_vars
    <2> SUFFICES ASSUME IInv, Next, NEW a \in Addr, mem'[a] # mem[a]
                 PROVE  /\ ctl_req.type = "write" /\ ctl_req.addr = a
                        /\ ctl_req.data = mem'[a]
                        /\ a >= par_ctrl_reg => ctl_req.domain = 1
      BY DEF Guarded
    <2>1. MemWrite
      BY DEF Next, GuardTick, MemTick
    <2>2. /\ memreq_queue # NoMsg /\ memreq_queue.type = "write"
          /\ mem' = [mem EXCEPT ![memreq_queue.addr] = memreq_queue.data]
      BY <2>1 DEF MemWrite
    <2>3. ctl_state = "MEM_RESP" /\ memreq_queue = ctl_req
      BY <2>2 DEF IInv, InStep, MemInStep
    <2>4. ctl_req.addr = a /\ ctl_req.data = mem'[a]
      BY <2>2, <2>3 DEF IInv, TypeOK, MemTypeOK
    <2>5. a >= par_ctrl_reg => ctl_req.domain = 1
      BY <2>3, <2>4, AddrAssumption
         DEF IInv, CheckStillHolds, Allowed, Public, TypeOK, CtlTypeOK
    <2>6. QED
      BY <2>2, <2>3, <2>4, <2>5
  <1>2. QED
    BY <1>1, IInvHolds, PTL DEF Spec, GuardedWrites
=============================================================================
