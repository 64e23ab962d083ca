------------------------------ MODULE VcQueueN ------------------------------
(***************************************************************************)
(* vc_Queue with p_num_msgs > 1 (vc_QueueCtrl and vc_QueueDpath): two      *)
(* pointers into a register file, and a bit that tells full from empty     *)
(* when they are equal.  The pointers have c_addr_nbits bits and wrap      *)
(* around by themselves if p_num_msgs is a power of two, else by the       *)
(* comparison with p_num_msgs.                                             *)
(***************************************************************************)
EXTENDS Integers, Sequences

CONSTANTS
  NumMsgs,   \* p_num_msgs
  PtrRange,  \* 2^c_addr_nbits
  PipeEn,    \* c_pipe_en
  BypassEn,  \* c_bypass_en
  Msg, NoMsg

ASSUME QueueAssumption ==
  /\ NumMsgs \in Nat /\ NumMsgs > 1
  /\ PtrRange \in Nat /\ NumMsgs <= PtrRange
  /\ PipeEn \in BOOLEAN /\ BypassEn \in BOOLEAN
  /\ NoMsg \notin Msg

VARIABLES
  enq_ptr, deq_ptr, full,
  qstore,      \* NoMsg: not written since reset
  took, gave,  \* what was enqueued and dequeued at the last clock edge
  level        \* how many messages are inside: what took and gave add up to

regs == <<enq_ptr, deq_ptr, full, qstore>>
vars == <<regs, took, gave, level>>

Entries == 0 .. NumMsgs - 1

TypeOK ==
  /\ enq_ptr \in Entries /\ deq_ptr \in Entries /\ full \in BOOLEAN
  /\ qstore \in [Entries -> Msg \cup {NoMsg}]
  /\ took \in Msg \cup {NoMsg} /\ gave \in Msg \cup {NoMsg}
  /\ level \in 0 .. NumMsgs

-----------------------------------------------------------------------------
(* The wires.  enq_msg is NoMsg when enq_val is low. *)

Plus1(ptr) == IF ptr + 1 = PtrRange THEN 0 ELSE ptr + 1

(* Without the comparison. *)
IncNoWrap(ptr) == Plus1(ptr)
Inc(ptr) == IF Plus1(ptr) = NumMsgs THEN 0 ELSE Plus1(ptr)

Empty == ~full /\ enq_ptr = deq_ptr

EnqRdy(deq_rdy) == ~full \/ (PipeEn /\ deq_rdy)

(* deq_val and deq_msg together. *)
DeqMsg(enq_msg) ==
  IF ~Empty THEN qstore[deq_ptr] ELSE IF BypassEn THEN enq_msg ELSE NoMsg

DoEnq(enq_msg, deq_rdy) == enq_msg # NoMsg /\ EnqRdy(deq_rdy)
DoDeq(enq_msg, deq_rdy) == deq_rdy /\ (~Empty \/ (BypassEn /\ enq_msg # NoMsg))

DoPipe(enq_msg, deq_rdy) ==
  PipeEn /\ full /\ DoEnq(enq_msg, deq_rdy) /\ DoDeq(enq_msg, deq_rdy)

DoBypass(enq_msg, deq_rdy) ==
  BypassEn /\ Empty /\ DoEnq(enq_msg, deq_rdy) /\ DoDeq(enq_msg, deq_rdy)

NumFree ==
  CASE full                           -> 0
    [] ~full /\ enq_ptr = deq_ptr     -> NumMsgs
    [] ~full /\ enq_ptr > deq_ptr     -> NumMsgs - (enq_ptr - deq_ptr)
    [] ~full /\ deq_ptr > enq_ptr     -> deq_ptr - enq_ptr

(* The full bit is set although an entry leaves in the same cycle. *)
FullNextAnyEnq(enq, deq, pipe) ==
  \/ enq /\ Inc(enq_ptr) = deq_ptr
  \/ full /\ ~(deq /\ ~pipe)

FullNext(enq, deq, pipe) ==
  \/ enq /\ ~deq /\ Inc(enq_ptr) = deq_ptr
  \/ full /\ ~(deq /\ ~pipe)

Reset == enq_ptr = 0 /\ deq_ptr = 0 /\ full = FALSE /\ qstore = [e \in Entries |-> NoMsg]

QueueTick(enq_msg, deq_rdy) ==
  LET enq    == DoEnq(enq_msg, deq_rdy)
      deq    == DoDeq(enq_msg, deq_rdy)
      bypass == DoBypass(enq_msg, deq_rdy)
  IN  /\ enq_ptr' = IF enq /\ ~bypass THEN Inc(enq_ptr) ELSE enq_ptr
      /\ deq_ptr' = IF deq /\ ~bypass THEN Inc(deq_ptr) ELSE deq_ptr
      /\ full' = FullNext(enq, deq, DoPipe(enq_msg, deq_rdy))
      /\ qstore' = IF enq /\ ~bypass THEN [qstore EXCEPT ![enq_ptr] = enq_msg] ELSE qstore

-----------------------------------------------------------------------------
(* The queue among neighbours that offer and take what they like. *)

Count(m) == IF m = NoMsg THEN 0 ELSE 1

Init == Reset /\ took = NoMsg /\ gave = NoMsg /\ level = 0

Tick(enq_msg, deq_rdy) ==
  /\ QueueTick(enq_msg, deq_rdy)
  /\ took' = IF DoEnq(enq_msg, deq_rdy) THEN enq_msg ELSE NoMsg
  /\ gave' = IF DoDeq(enq_msg, deq_rdy) THEN DeqMsg(enq_msg) ELSE NoMsg
  /\ level' = level + Count(took') - Count(gave')

Next == \E enq_msg \in Msg \cup {NoMsg}, deq_rdy \in BOOLEAN : Tick(enq_msg, deq_rdy)

Spec == Init /\ [][Next]_vars

-----------------------------------------------------------------------------
(* Properties *)

(* full and empty say what they are called and num_free_entries, which the *)
(* routers' flow control goes by, is right; its fifth case, an x, is never *)
(* met.  The pointers may be equal in a queue of either kind.              *)
CountsRight ==
  /\ NumFree = NumMsgs - level
  /\ full <=> level = NumMsgs
  /\ Empty <=> level = 0

(* The entries from the dequeue pointer on. *)
Entry(k) == IF deq_ptr + k >= NumMsgs THEN deq_ptr + k - NumMsgs ELSE deq_ptr + k
Contents == [i \in 1 .. level |-> qstore[Entry(i - 1)]]

Abstract == INSTANCE Fifo WITH contents <- Contents, Capacity <- NumMsgs

(* Pointers, full bit and register file are a queue: nothing is lost,      *)
(* repeated or reordered at a wrap-around, when full, when empty, or when  *)
(* messages pass both ends in one cycle, for every type of queue.          *)
QueueIsFifo == Abstract!Spec
=============================================================================
