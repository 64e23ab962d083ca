---------------------------- MODULE VcQueueProofs ----------------------------
(***************************************************************************)
(* vc_Queue is a queue: for every number of entries greater than one,      *)
(* every type and every behaviour of its neighbours.                       *)
(***************************************************************************)
EXTENDS VcQueueN, SequenceTheorems, TLAPS

(* The inductive invariant: level tells the distance of the pointers, full *)
(* which of two distances equal pointers have, and what lies between them  *)
(* has been written.                                                       *)
Distance ==
  IF full THEN NumMsgs
  ELSE IF enq_ptr >= deq_ptr THEN enq_ptr - deq_ptr ELSE NumMsgs + enq_ptr - deq_ptr

InStep ==
  /\ full => enq_ptr = deq_ptr
  /\ level = Distance
  /\ \A k \in 0 .. level - 1 : qstore[Entry(k)] \in Msg

IInv == TypeOK /\ InStep

-----------------------------------------------------------------------------
(* The pointers. *)

LEMMA IncIs ==
  ASSUME NEW p \in Entries
  PROVE  /\ Inc(p) = IF p + 1 = NumMsgs THEN 0 ELSE p + 1
         /\ Inc(p) \in Entries
  BY QueueAssumption DEF Inc, Plus1, Entries

(* What Entry(k) is, and that the next free entry follows the last one. *)
LEMMA EntryIs ==
  ASSUME TypeOK, NEW k \in 0 .. NumMsgs
  PROVE  /\ Entry(k) = IF deq_ptr + k >= NumMsgs THEN deq_ptr + k - NumMsgs ELSE deq_ptr + k
         /\ Entry(k) \in Entries
  BY QueueAssumption DEF Entry, TypeOK, Entries

LEMMA EnqPtrIsNext ==
  ASSUME IInv
  PROVE  Entry(level) = enq_ptr
  BY QueueAssumption DEF IInv, TypeOK, InStep, Distance, Entry, Entries

LEMMA EntriesDiffer ==
  ASSUME IInv, NEW k \in 0 .. level - 1, level < NumMsgs
  PROVE  Entry(k) # enq_ptr
  BY QueueAssumption DEF IInv, TypeOK, InStep, Distance, Entry, Entries

LEMMA CountsFollow ==
  ASSUME IInv
  PROVE  CountsRight
  <1>1. full <=> level = NumMsgs
    BY QueueAssumption DEF IInv, TypeOK, InStep, Distance, Entries
  <1>2. Empty <=> level = 0
    BY QueueAssumption DEF IInv, TypeOK, InStep, Distance, Entries, Empty
  <1>3. CASE full
    BY <1>1, <1>2, <1>3, QueueAssumption DEF CountsRight, NumFree, IInv, TypeOK
  <1>4. CASE ~full /\ enq_ptr = deq_ptr
    BY <1>1, <1>2, <1>4, QueueAssumption DEF CountsRight, NumFree, IInv, TypeOK, InStep, Distance, Entries
  <1>5. CASE ~full /\ enq_ptr > deq_ptr
    BY <1>1, <1>2, <1>5, QueueAssumption DEF CountsRight, NumFree, IInv, TypeOK, InStep, Distance, Entries
  <1>6. CASE ~full /\ deq_ptr > enq_ptr
    BY <1>1, <1>2, <1>6, QueueAssumption DEF CountsRight, NumFree, IInv, TypeOK, InStep, Distance, Entries
  <1>7. QED
    BY <1>3, <1>4, <1>5, <1>6 DEF IInv, TypeOK, Entries

-----------------------------------------------------------------------------
(* The five things a cycle may do. *)

Rests ==
  /\ UNCHANGED <<regs, level>>
  /\ took' = NoMsg /\ gave' = NoMsg

Enters(m) ==
  /\ m \in Msg /\ level < NumMsgs
  /\ enq_ptr' = Inc(enq_ptr) /\ deq_ptr' = deq_ptr
  /\ full' = (Inc(enq_ptr) = deq_ptr)
  /\ qstore' = [qstore EXCEPT ![enq_ptr] = m]
  /\ took' = m /\ gave' = NoMsg /\ level' = level + 1

Leaves ==
  /\ level > 0
  /\ enq_ptr' = enq_ptr /\ deq_ptr' = Inc(deq_ptr)
  /\ full' = FALSE
  /\ qstore' = qstore
  /\ took' = NoMsg /\ gave' = qstore[deq_ptr] /\ level' = level - 1

Passes(m) ==
  /\ m \in Msg /\ level > 0
  /\ enq_ptr' = Inc(enq_ptr) /\ deq_ptr' = Inc(deq_ptr)
  /\ full' = full
  /\ qstore' = [qstore EXCEPT ![enq_ptr] = m]
  /\ took' = m /\ gave' = qstore[deq_ptr] /\ level' = level

Bypasses(m) ==
  /\ m \in Msg /\ level = 0
  /\ UNCHANGED <<regs, level>>
  /\ took' = m /\ gave' = m

LEMMA FirstIsMsg ==
  ASSUME IInv, level > 0
  PROVE  Entry(0) = deq_ptr /\ qstore[deq_ptr] \in Msg
  BY QueueAssumption DEF IInv, TypeOK, InStep, Entry, Entries

LEMMA Shape ==
  ASSUME IInv, Next
  PROVE  Rests \/ Leaves \/ \E m \in Msg : Enters(m) \/ Passes(m) \/ Bypasses(m)
  <1> PICK m \in Msg \cup {NoMsg}, rdy \in BOOLEAN : Tick(m, rdy)
    BY DEF Next
  <1> DEFINE enq == DoEnq(m, rdy)
             deq == DoDeq(m, rdy)
  <1>1. (full <=> level = NumMsgs) /\ (Empty <=> level = 0) /\ level \in 0 .. NumMsgs
    BY CountsFollow DEF CountsRight, IInv, TypeOK
  <1>2. QueueTick(m, rdy) /\ full \in BOOLEAN /\ level \in Int
    BY DEF Tick, IInv, TypeOK
  <1>3. enq => m \in Msg /\ (full => deq)
    BY <1>1, QueueAssumption DEF DoEnq, DoDeq, EnqRdy, Empty
  <1>4. CASE ~enq /\ ~deq
    <2>1. ~DoBypass(m, rdy) /\ ~DoPipe(m, rdy)
      BY <1>4 DEF DoBypass, DoPipe
    <2>2. took' = NoMsg /\ gave' = NoMsg
      BY <1>4 DEF Tick
    <2>3. UNCHANGED regs
      BY <1>2, <1>4, <2>1 DEF QueueTick, FullNext, regs
    <2>4. level' = level
      BY <1>2, <2>2 DEF Tick, Count
    <2>5. QED
      BY <2>2, <2>3, <2>4 DEF Rests
  <1>5. CASE enq /\ ~deq
    <2>1. ~DoBypass(m, rdy) /\ ~DoPipe(m, rdy) /\ ~full /\ m \in Msg
      BY <1>3, <1>5 DEF DoBypass, DoPipe
    <2>2. took' = m /\ gave' = NoMsg
      BY <1>5 DEF Tick
    <2>3. /\ enq_ptr' = Inc(enq_ptr) /\ deq_ptr' = deq_ptr
          /\ qstore' = [qstore EXCEPT ![enq_ptr] = m]
          /\ full' = (Inc(enq_ptr) = deq_ptr)
      BY <1>2, <1>5, <2>1 DEF QueueTick, FullNext
    <2>4. level' = level + 1
      BY <1>2, <2>1, <2>2, QueueAssumption DEF Tick, Count
    <2>5. level < NumMsgs
      BY <1>1, <2>1, QueueAssumption
    <2>6. Enters(m)
      BY <2>1, <2>2, <2>3, <2>4, <2>5 DEF Enters
    <2>7. QED
      BY <2>1, <2>6
  <1>6. CASE ~enq /\ deq
    <2>1. ~DoBypass(m, rdy) /\ ~DoPipe(m, rdy)
      BY <1>6 DEF DoBypass, DoPipe
    <2>2. ~Empty
      BY <1>6, QueueAssumption DEF DoEnq, DoDeq, EnqRdy, Empty
    <2>3. level > 0 /\ DeqMsg(m) = qstore[deq_ptr]
      BY <1>1, <2>2 DEF DeqMsg
    <2>4. qstore[deq_ptr] \in Msg
      BY <2>3, FirstIsMsg
    <2>5. took' = NoMsg /\ gave' = qstore[deq_ptr]
      BY <1>6, <2>3 DEF Tick
    <2>6. /\ enq_ptr' = enq_ptr /\ deq_ptr' = Inc(deq_ptr)
          /\ qstore' = qstore /\ full' = FALSE
      BY <1>2, <1>6, <2>1 DEF QueueTick, FullNext
    <2>7. level' = level - 1
      BY <1>2, <2>4, <2>5, QueueAssumption DEF Tick, Count
    <2>8. QED
      BY <2>3, <2>5, <2>6, <2>7 DEF Leaves
  <1>7. CASE enq /\ deq /\ ~Empty
    <2>1. ~DoBypass(m, rdy) /\ m \in Msg /\ level > 0
      BY <1>1, <1>3, <1>7 DEF DoBypass
    <2>2. DeqMsg(m) = qstore[deq_ptr] /\ qstore[deq_ptr] \in Msg
      BY <1>7, <2>1, FirstIsMsg DEF DeqMsg
    <2>3. took' = m /\ gave' = qstore[deq_ptr]
      BY <1>7, <2>2 DEF Tick
    <2>4. full => DoPipe(m, rdy)
      BY <1>7 DEF DoPipe, DoEnq, EnqRdy
    <2>5. /\ enq_ptr' = Inc(enq_ptr) /\ deq_ptr' = Inc(deq_ptr)
          /\ qstore' = [qstore EXCEPT ![enq_ptr] = m]
          /\ full' = full
      BY <1>2, <1>7, <2>1, <2>4 DEF QueueTick, FullNext
    <2>6. level' = level
      BY <1>2, <2>1, <2>2, <2>3, QueueAssumption DEF Tick, Count
    <2>7. Passes(m)
      BY <2>1, <2>3, <2>5, <2>6 DEF Passes
    <2>8. QED
      BY <2>1, <2>7
  <1>8. CASE enq /\ deq /\ Empty
    <2>1. DoBypass(m, rdy) /\ ~DoPipe(m, rdy) /\ ~full /\ m \in Msg /\ level = 0 /\ DeqMsg(m) = m
      BY <1>1, <1>3, <1>8 DEF DoBypass, DoPipe, DoDeq, Empty, DeqMsg
    <2>2. took' = m /\ gave' = m
      BY <1>8, <2>1 DEF Tick
    <2>3. UNCHANGED regs
      BY <1>2, <1>8, <2>1 DEF QueueTick, FullNext, regs
    <2>4. level' = level
      BY <1>2, <2>2 DEF Tick, Count
    <2>5. Bypasses(m)
      BY <2>1, <2>2, <2>3, <2>4 DEF Bypasses
    <2>6. QED
      BY <2>1, <2>5
  <1>9. QED
    BY <1>4, <1>5, <1>6, <1>7, <1>8

-----------------------------------------------------------------------------
(* The invariant. *)

LEMMA RestsKeeps ==
  ASSUME IInv, Rests \/ \E m \in Msg : Bypasses(m)
  PROVE  IInv'
  <1>1. UNCHANGED <<regs, level>> /\ took' \in Msg \cup {NoMsg} /\ gave' \in Msg \cup {NoMsg}
    BY DEF Rests, Bypasses
  <1>2. QED
    BY <1>1 DEF regs, IInv, TypeOK, InStep, Distance, Entry

LEMMA EntersKeeps ==
  ASSUME IInv, NEW m \in Msg, Enters(m)
  PROVE  IInv'
  <1> USE QueueAssumption
  <1>1. TypeOK /\ InStep /\ CountsRight
    BY CountsFollow DEF IInv
  <1>2. Inc(enq_ptr) = (IF enq_ptr + 1 = NumMsgs THEN 0 ELSE enq_ptr + 1) /\ Inc(enq_ptr) \in Entries
    BY <1>1, IncIs DEF TypeOK
  <1>3. TypeOK'
    BY <1>1, <1>2 DEF TypeOK, Enters, Entries
  <1>4. full' => enq_ptr' = deq_ptr'
    BY DEF Enters
  <1>5. ~full
    BY <1>1 DEF CountsRight, Enters
  <1>6. level' = Distance'
    <2>1. level = IF enq_ptr >= deq_ptr THEN enq_ptr - deq_ptr ELSE NumMsgs + enq_ptr - deq_ptr
      BY <1>1, <1>5 DEF InStep, Distance
    <2>2. CASE Inc(enq_ptr) = deq_ptr
      <3>1. Distance' = NumMsgs
        BY <2>2 DEF Enters, Distance
      <3>2. level + 1 = NumMsgs
        BY <1>1, <1>2, <2>1, <2>2 DEF TypeOK, Entries
      <3>3. QED
        BY <3>1, <3>2 DEF Enters
    <2>3. CASE Inc(enq_ptr) # deq_ptr
      <3>1. Distance' = IF Inc(enq_ptr) >= deq_ptr THEN Inc(enq_ptr) - deq_ptr
                        ELSE NumMsgs + Inc(enq_ptr) - deq_ptr
        BY <2>3 DEF Enters, Distance
      <3>2. level + 1 = IF Inc(enq_ptr) >= deq_ptr THEN Inc(enq_ptr) - deq_ptr
                        ELSE NumMsgs + Inc(enq_ptr) - deq_ptr
        BY <1>1, <1>2, <2>1, <2>3 DEF TypeOK, Entries
      <3>3. QED
        BY <3>1, <3>2 DEF Enters
    <2>4. QED
      BY <2>2, <2>3
  <1>7. ASSUME NEW k \in 0 .. level' - 1  PROVE qstore'[Entry(k)'] \in Msg
    <2>1. Entry(k)' = Entry(k) /\ k \in 0 .. level /\ level \in 0 .. NumMsgs
      BY <1>1 DEF Enters, Entry, TypeOK
    <2>2. CASE k = level
      <3>1. Entry(k) = enq_ptr
        BY <2>2, EnqPtrIsNext
      <3>2. QED
        BY <1>1, <2>1, <3>1 DEF Enters, TypeOK
    <2>3. CASE k # level
      <3>1. k \in 0 .. level - 1
        BY <2>1, <2>3
      <3>2. Entry(k) # enq_ptr /\ qstore[Entry(k)] \in Msg
        BY <1>1, <3>1, EntriesDiffer DEF Enters, InStep
      <3>3. Entry(k) \in Entries
        BY <1>1, <2>1, EntryIs
      <3>4. QED
        BY <1>1, <2>1, <3>2, <3>3 DEF Enters, TypeOK
    <2>4. QED
      BY <2>2, <2>3
  <1>8. QED
    BY <1>3, <1>4, <1>6, <1>7 DEF IInv, InStep

LEMMA LeavesKeeps ==
  ASSUME IInv, Leaves
  PROVE  IInv'
  <1> USE QueueAssumption
  <1>1. TypeOK /\ InStep /\ CountsRight
    BY CountsFollow DEF IInv
  <1>2. Inc(deq_ptr) = (IF deq_ptr + 1 = NumMsgs THEN 0 ELSE deq_ptr + 1) /\ Inc(deq_ptr) \in Entries
    BY <1>1, IncIs DEF TypeOK
  <1>3. TypeOK'
    <2>1. gave' \in Msg
      BY FirstIsMsg DEF Leaves
    <2>2. level' \in 0 .. NumMsgs
      BY <1>1 DEF TypeOK, Leaves
    <2>3. QED
      BY <1>1, <1>2, <2>1, <2>2 DEF TypeOK, Leaves
  <1>4. level' = Distance'
    BY <1>1, <1>2 DEF Leaves, TypeOK, InStep, Distance, Entries
  <1>5. ASSUME NEW k \in 0 .. level' - 1  PROVE qstore'[Entry(k)'] \in Msg
    <2>1. k + 1 \in 0 .. level - 1
      BY <1>1 DEF Leaves, TypeOK
    <2>2. Entry(k)' = Entry(k + 1)
      BY <1>1, <1>2, <2>1 DEF Leaves, Entry, TypeOK, Entries
    <2>3. QED
      BY <1>1, <2>1, <2>2 DEF Leaves, InStep
  <1>6. QED
    BY <1>3, <1>4, <1>5 DEF IInv, InStep, Leaves

LEMMA PassesKeeps ==
  ASSUME IInv, NEW m \in Msg, Passes(m)
  PROVE  IInv'
  <1> USE QueueAssumption
  <1>1. TypeOK /\ InStep /\ CountsRight
    BY CountsFollow DEF IInv
  <1>2. /\ Inc(deq_ptr) = (IF deq_ptr + 1 = NumMsgs THEN 0 ELSE deq_ptr + 1) /\ Inc(deq_ptr) \in Entries
        /\ Inc(enq_ptr) = (IF enq_ptr + 1 = NumMsgs THEN 0 ELSE enq_ptr + 1) /\ Inc(enq_ptr) \in Entries
    BY <1>1, IncIs DEF TypeOK
  <1>3. TypeOK'
    <2>1. gave' \in Msg
      BY FirstIsMsg DEF Passes
    <2>2. QED
      BY <1>1, <1>2, <2>1 DEF TypeOK, Passes
  <1>4. (full' => enq_ptr' = deq_ptr') /\ level' = Distance'
    BY <1>1, <1>2 DEF Passes, TypeOK, InStep, Distance, Entries
  <1>5. ASSUME NEW k \in 0 .. level' - 1  PROVE qstore'[Entry(k)'] \in Msg
    <2>1. k + 1 \in 0 .. level /\ level \in 0 .. NumMsgs
      BY <1>1 DEF Passes, TypeOK
    <2>2. Entry(k)' = Entry(k + 1) /\ Entry(k + 1) \in Entries
      BY <1>1, <1>2, <2>1, EntryIs DEF Passes, Entry, TypeOK, Entries
    <2>3. CASE Entry(k + 1) = enq_ptr
      BY <1>1, <2>2, <2>3 DEF Passes, TypeOK
    <2>4. CASE Entry(k + 1) # enq_ptr
      <3>1. k + 1 \in 0 .. level - 1
        BY <2>1, <2>4, EnqPtrIsNext
      <3>2. qstore[Entry(k + 1)] \in Msg
        BY <1>1, <3>1 DEF InStep
      <3>3. QED
        BY <1>1, <2>2, <2>4, <3>2 DEF Passes, TypeOK
    <2>5. QED
      BY <2>3, <2>4
  <1>6. QED
    BY <1>3, <1>4, <1>5 DEF IInv, InStep

LEMMA InvInit == Init => IInv
  <1> SUFFICES ASSUME Init  PROVE IInv
    OBVIOUS
  <1> USE QueueAssumption
  <1>1. 0 \in Entries /\ 0 \in 0 .. NumMsgs
    BY DEF Entries
  <1>2. enq_ptr = 0 /\ deq_ptr = 0 /\ full = FALSE /\ level = 0
    BY DEF Init, Reset
  <1>3. TypeOK
    BY <1>1, <1>2 DEF TypeOK, Init, Reset
  <1>4. level = Distance
    BY <1>2 DEF Distance
  <1>5. 0 .. level - 1 = {}
    BY <1>2
  <1>6. QED
    BY <1>2, <1>3, <1>4, <1>5 DEF IInv, InStep

LEMMA InvStep == IInv /\ [Next]_vars => IInv'
  <1> SUFFICES ASSUME IInv, [Next]_vars  PROVE IInv'
    OBVIOUS
  <1>1. CASE UNCHANGED vars
    BY <1>1 DEF vars, regs, IInv, TypeOK, InStep, Distance, Entry
  <1>2. CASE Next
    BY <1>2, Shape, RestsKeeps, EntersKeeps, LeavesKeeps, PassesKeeps
  <1>3. QED
    BY <1>1, <1>2

(* In every reachable state the pointers, the full bit and the register    *)
(* file of vc_QueueCtrl fit together as IInv says.                         *)
THEOREM IInvHolds == Spec => []IInv
  BY InvInit, InvStep, PTL DEF Spec

(* full, empty and num_free_entries of vc_QueueCtrl are right.             *)
THEOREM CountsAreRight == Spec => []CountsRight
  BY IInvHolds, CountsFollow, PTL
(* The registers keep their widths and the level never exceeds the number  *)
(* of entries.                                                             *)
THEOREM TypeCorrect == Spec => []TypeOK
  BY IInvHolds, PTL DEF IInv

-----------------------------------------------------------------------------
(* The refinement: what the messages between the pointers do in a cycle. *)

LEMMA ContentsAre ==
  ASSUME IInv
  PROVE  /\ Contents \in Seq(Msg) /\ Len(Contents) = level /\ level \in 0 .. NumMsgs
         /\ \A i \in 1 .. level : Contents[i] = qstore[Entry(i - 1)]
  <1>1. level \in Nat /\ level \in 0 .. NumMsgs
    BY QueueAssumption DEF IInv, TypeOK
  <1>2. \A i \in 1 .. level : qstore[Entry(i - 1)] \in Msg
    <2> SUFFICES ASSUME NEW i \in 1 .. level  PROVE qstore[Entry(i - 1)] \in Msg
      OBVIOUS
    <2>1. i - 1 \in 0 .. level - 1
      BY <1>1
    <2>2. QED
      BY <2>1 DEF IInv, InStep
  <1>3. Contents \in [1 .. level -> Msg]
    BY <1>2 DEF Contents
  <1>4. QED
    BY <1>1, <1>3, SeqDef DEF Contents

LEMMA RestsIs ==
  ASSUME IInv, Rests
  PROVE  Abstract!Next
  <1>1. Contents' = Contents
    BY DEF Rests, regs, Contents, Entry
  <1>2. Len(Contents) <= NumMsgs
    BY ContentsAre, QueueAssumption
  <1>3. QED
    BY <1>1, <1>2 DEF Rests, Abstract!Next, Abstract!Pass

LEMMA EntersIs ==
  ASSUME IInv, NEW m \in Msg, Enters(m)
  PROVE  Abstract!Next
  <1> USE QueueAssumption
  <1>1. IInv'
    BY EntersKeeps
  <1>2. /\ Contents \in Seq(Msg) /\ Len(Contents) = level /\ level \in 0 .. NumMsgs
        /\ \A i \in 1 .. level : Contents[i] = qstore[Entry(i - 1)]
    BY ContentsAre
  <1>3. /\ Contents' \in Seq(Msg) /\ Len(Contents') = level' /\ level' \in 0 .. NumMsgs
        /\ \A i \in 1 .. level' : Contents'[i] = qstore'[Entry(i - 1)']
    <2>1. (Contents \in Seq(Msg) /\ Len(Contents) = level /\ level \in 0 .. NumMsgs
           /\ \A i \in 1 .. level : Contents[i] = qstore[Entry(i - 1)])'
      BY <1>1, ContentsAre, PTL
    <2>2. QED
      BY <2>1
  <1>4. level' = level + 1
    BY DEF Enters
  <1> DEFINE all == Append(Contents, m)
  <1>5. /\ all \in Seq(Msg) /\ Len(all) = level + 1
        /\ \A i \in 1 .. level + 1 : all[i] = IF i = level + 1 THEN m ELSE Contents[i]
    BY <1>2
  <1>6. ASSUME NEW i \in 1 .. level + 1  PROVE Contents'[i] = all[i]
    <2>1. Entry(i - 1)' = Entry(i - 1) /\ Contents'[i] = qstore'[Entry(i - 1)]
      BY <1>2, <1>3, <1>4 DEF Enters, Entry
    <2>2. CASE i = level + 1
      <3>1. Entry(i - 1) = enq_ptr
        BY <1>2, <2>2, EnqPtrIsNext
      <3>2. QED
        BY <1>5, <2>1, <2>2, <3>1 DEF Enters, IInv, TypeOK
    <2>3. CASE i # level + 1
      <3>1. i \in 1 .. level /\ i - 1 \in 0 .. level - 1
        BY <1>2, <2>3
      <3>2. Entry(i - 1) # enq_ptr /\ qstore[Entry(i - 1)] = Contents[i]
        BY <1>2, <3>1, EntriesDiffer DEF Enters
      <3>3. Entry(i - 1) \in Entries
        BY <1>2, <3>1, EntryIs DEF IInv
      <3>4. QED
        BY <1>5, <2>1, <2>3, <3>2, <3>3 DEF Enters, IInv, TypeOK
    <2>4. QED
      BY <2>2, <2>3
  <1>7. Contents' = all
    BY <1>3, <1>4, <1>5, <1>6, SeqEqual
  <1>8. Len(Contents') <= NumMsgs
    BY <1>3
  <1>9. QED
    BY <1>7, <1>8 DEF Enters, Abstract!Next, Abstract!Pass

(* Moving the dequeue pointer renumbers the entries. *)
LEMMA EntryMoves ==
  ASSUME TypeOK, deq_ptr' = Inc(deq_ptr), NEW i \in 1 .. NumMsgs
  PROVE  Entry(i - 1)' = Entry(i)
  <1> USE QueueAssumption
  <1>1. deq_ptr \in 0 .. NumMsgs - 1
    BY DEF TypeOK, Entries
  <1>2. deq_ptr' = IF deq_ptr + 1 = NumMsgs THEN 0 ELSE deq_ptr + 1
    BY IncIs DEF TypeOK
  <1>3. Entry(i - 1)' = IF deq_ptr' + (i - 1) >= NumMsgs THEN deq_ptr' + (i - 1) - NumMsgs ELSE deq_ptr' + (i - 1)
    BY DEF Entry
  <1>4. QED
    BY <1>1, <1>2, <1>3 DEF Entry

LEMMA LeavesIs ==
  ASSUME IInv, Leaves
  PROVE  Abstract!Next
  <1> USE QueueAssumption
  <1>1. IInv'
    BY LeavesKeeps
  <1>2. /\ Contents \in Seq(Msg) /\ Len(Contents) = level /\ level \in 0 .. NumMsgs
        /\ \A i \in 1 .. level : Contents[i] = qstore[Entry(i - 1)]
    BY ContentsAre
  <1>3. /\ Contents' \in Seq(Msg) /\ Len(Contents') = level' /\ level' \in 0 .. NumMsgs
        /\ \A i \in 1 .. level' : Contents'[i] = qstore'[Entry(i - 1)']
    <2>1. (Contents \in Seq(Msg) /\ Len(Contents) = level /\ level \in 0 .. NumMsgs
           /\ \A i \in 1 .. level : Contents[i] = qstore[Entry(i - 1)])'
      BY <1>1, ContentsAre, PTL
    <2>2. QED
      BY <2>1
  <1>4. level' = level - 1 /\ level > 0
    BY DEF Leaves
  <1>5. Contents # <<>>
    BY <1>2, <1>4
  <1>6. /\ Tail(Contents) \in Seq(Msg) /\ Len(Tail(Contents)) = level - 1
        /\ \A i \in 1 .. level - 1 : Tail(Contents)[i] = Contents[i + 1]
        /\ Head(Contents) = Contents[1]
    BY <1>2, <1>5, HeadTailProperties
  <1>7. ASSUME NEW i \in 1 .. level - 1  PROVE Contents'[i] = Tail(Contents)[i]
    <2>1. Entry(i - 1)' = Entry(i)
      BY <1>2, EntryMoves DEF Leaves, IInv
    <2>2. i + 1 \in 1 .. level /\ i + 1 - 1 = i
      BY <1>2
    <2>3. Contents[i + 1] = qstore[Entry(i)]
      BY <1>2, <2>2
    <2>4. QED
      BY <1>3, <1>4, <1>6, <2>1, <2>3 DEF Leaves
  <1>8. Contents' = Tail(Contents)
    BY <1>3, <1>4, <1>6, <1>7, SeqEqual
  <1>9. gave' = Head(Contents)
    <2>1. Contents[1] = qstore[Entry(0)]
      BY <1>2, <1>4
    <2>2. QED
      BY <1>4, <1>6, <2>1, FirstIsMsg DEF Leaves
  <1>10. Len(Contents') <= NumMsgs
    BY <1>3
  <1>11. QED
    BY <1>5, <1>8, <1>9, <1>10 DEF Leaves, Abstract!Next, Abstract!Pass

LEMMA PassesIs ==
  ASSUME IInv, NEW m \in Msg, Passes(m)
  PROVE  Abstract!Next
  <1> USE QueueAssumption
  <1>1. IInv'
    BY PassesKeeps
  <1>2. /\ Contents \in Seq(Msg) /\ Len(Contents) = level /\ level \in 0 .. NumMsgs
        /\ \A i \in 1 .. level : Contents[i] = qstore[Entry(i - 1)]
    BY ContentsAre
  <1>3. /\ Contents' \in Seq(Msg) /\ Len(Contents') = level' /\ level' \in 0 .. NumMsgs
        /\ \A i \in 1 .. level' : Contents'[i] = qstore'[Entry(i - 1)']
    <2>1. (Contents \in Seq(Msg) /\ Len(Contents) = level /\ level \in 0 .. NumMsgs
           /\ \A i \in 1 .. level : Contents[i] = qstore[Entry(i - 1)])'
      BY <1>1, ContentsAre, PTL
    <2>2. QED
      BY <2>1
  <1>4. level' = level /\ level > 0
    BY DEF Passes
  <1> DEFINE all == Append(Contents, m)
  <1>5. /\ all \in Seq(Msg) /\ Len(all) = level + 1
        /\ \A i \in 1 .. level + 1 : all[i] = IF i = level + 1 THEN m ELSE Contents[i]
    BY <1>2
  <1>6. all # <<>>
    <2>1. Len(all) # Len(<<>>)
      BY <1>2, <1>5, EmptySeq
    <2>2. QED
      BY <2>1, Zenon
  <1>7. /\ Tail(all) \in Seq(Msg) /\ Len(Tail(all)) = level
        /\ \A i \in 1 .. level : Tail(all)[i] = all[i + 1]
        /\ Head(all) = all[1]
    BY <1>2, <1>5, <1>6, HeadTailProperties
  <1>8. ASSUME NEW i \in 1 .. level  PROVE Contents'[i] = Tail(all)[i]
    <2>1. Entry(i - 1)' = Entry(i) /\ Contents'[i] = qstore'[Entry(i - 1)']
      BY <1>2, <1>3, <1>4, EntryMoves DEF Passes, IInv
    <2>2. Entry(i) \in Entries
      BY <1>2, EntryIs DEF IInv
    <2>3. CASE i = level
      <3>1. Entry(i) = enq_ptr
        BY <2>3, EnqPtrIsNext
      <3>2. QED
        BY <1>2, <1>5, <1>7, <2>1, <2>3, <3>1 DEF Passes, IInv, TypeOK
    <2>4. CASE i # level
      <3>1. i + 1 \in 1 .. level /\ i + 1 - 1 = i /\ i \in 0 .. level - 1
        BY <1>2, <2>4
      <3>2. qstore[Entry(i)] = Contents[i + 1] /\ all[i + 1] = Contents[i + 1]
        BY <1>2, <1>5, <3>1
      <3>3. qstore'[Entry(i)] = qstore[Entry(i)]
        <4>1. CASE level < NumMsgs
          <5>1. Entry(i) # enq_ptr
            BY <3>1, <4>1, EntriesDiffer
          <5>2. QED
            BY <2>2, <5>1 DEF Passes, IInv, TypeOK
        <4>2. CASE level = NumMsgs
          <5>1. Entry(i) # enq_ptr
            BY <1>2, <2>4, <4>2 DEF IInv, TypeOK, InStep, Distance, Entry, Entries
          <5>2. QED
            BY <2>2, <5>1 DEF Passes, IInv, TypeOK
        <4>3. QED
          BY <1>2, <4>1, <4>2
      <3>4. QED
        BY <1>7, <2>1, <3>2, <3>3
    <2>5. QED
      BY <2>3, <2>4
  <1>9. Contents' = Tail(all)
    BY <1>3, <1>4, <1>7, <1>8, SeqEqual
  <1>10. gave' = Head(all)
    <2>1. all[1] = Contents[1] /\ Contents[1] = qstore[Entry(0)]
      BY <1>2, <1>4, <1>5
    <2>2. QED
      BY <1>4, <1>7, <2>1, FirstIsMsg DEF Passes
  <1>11. Len(Contents') <= NumMsgs
    BY <1>3
  <1>12. QED
    BY <1>6, <1>9, <1>10, <1>11 DEF Passes, Abstract!Next, Abstract!Pass

LEMMA BypassesIs ==
  ASSUME IInv, NEW m \in Msg, Bypasses(m)
  PROVE  Abstract!Next
  <1>1. Contents' = Contents /\ Contents \in Seq(Msg) /\ Len(Contents) = 0
    BY ContentsAre DEF Bypasses, regs, Contents, Entry
  <1>2. Contents = <<>>
    BY <1>1, EmptySeq
  <1> DEFINE all == Append(Contents, m)
  <1>3. all = <<m>>
    BY <1>2
  <1>4. all # <<>> /\ Head(all) = m /\ Tail(all) = <<>>
    BY <1>3
  <1>5. Len(Contents') <= NumMsgs
    BY <1>1, QueueAssumption
  <1>6. QED
    BY <1>1, <1>2, <1>4, <1>5 DEF Bypasses, Abstract!Next, Abstract!Pass

LEMMA InitIs == Init => Abstract!Init
  <1> SUFFICES ASSUME Init  PROVE Abstract!Init
    OBVIOUS
  <1>1. IInv /\ level = 0
    BY InvInit DEF Init
  <1>2. Contents = <<>>
    BY <1>1, ContentsAre, EmptySeq
  <1>3. QED
    BY <1>2 DEF Init, Abstract!Init

LEMMA StepIs == IInv /\ [Next]_vars => [Abstract!Next]_(Abstract!vars)
  <1> SUFFICES ASSUME IInv, [Next]_vars  PROVE [Abstract!Next]_(Abstract!vars)
    OBVIOUS
  <1>1. CASE UNCHANGED vars
    BY <1>1 DEF vars, regs, Contents, Entry, Abstract!vars
  <1>2. CASE Next
    BY <1>2, Shape, RestsIs, LeavesIs, EntersIs, PassesIs, BypassesIs
  <1>3. QED
    BY <1>1, <1>2

(* Pointers, full bit and register file are a queue, for every number of   *)
(* entries and every type: each cycle is one of Fifo's.                    *)
THEOREM QueueRefinesFifo == Spec => QueueIsFifo
  BY InitIs, StepIs, IInvHolds, PTL DEF Spec, QueueIsFifo, Abstract!Spec
=============================================================================
