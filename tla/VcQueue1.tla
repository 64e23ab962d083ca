------------------------------ MODULE VcQueue1 ------------------------------
(***************************************************************************)
(* vc_Queue with p_num_msgs = 1 (vc_QueueCtrl1 and vc_QueueDpath1).  The   *)
(* status bit and the storage register are one variable: slot is the       *)
(* stored message when full is set, NoMsg when it is not.                  *)
(***************************************************************************)
CONSTANTS
  PipeEn,    \* c_pipe_en
  BypassEn,  \* c_bypass_en
  NoMsg

VARIABLE slot

EnqRdy(deq_rdy) == slot = NoMsg \/ (PipeEn /\ deq_rdy)

(* deq_val and deq_msg together. *)
DeqMsg(enq_msg) ==
  IF slot = NoMsg /\ BypassEn THEN enq_msg ELSE slot

DoEnq(enq_msg, deq_rdy) == enq_msg # NoMsg /\ EnqRdy(deq_rdy)
DoDeq(enq_msg, deq_rdy) == DeqMsg(enq_msg) # NoMsg /\ deq_rdy

DoPipe(enq_msg, deq_rdy) ==
  PipeEn /\ slot # NoMsg /\ DoEnq(enq_msg, deq_rdy) /\ DoDeq(enq_msg, deq_rdy)

DoBypass(enq_msg, deq_rdy) ==
  BypassEn /\ slot = NoMsg /\ DoEnq(enq_msg, deq_rdy) /\ DoDeq(enq_msg, deq_rdy)

QueueTick(enq_msg, deq_rdy) ==
  slot' = IF DoDeq(enq_msg, deq_rdy) /\ ~DoPipe(enq_msg, deq_rdy) THEN NoMsg
          ELSE IF DoEnq(enq_msg, deq_rdy) /\ ~DoBypass(enq_msg, deq_rdy)
               THEN enq_msg ELSE slot
=============================================================================
