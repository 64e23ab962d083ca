-------------------------------- MODULE Fifo --------------------------------
(***************************************************************************)
(* What a queue promises: what goes in comes out, once and in order, and   *)
(* no more than Capacity messages are inside.  took and gave are what      *)
(* passed its two ends at the last clock edge; a message may pass both at  *)
(* once.                                                                   *)
(***************************************************************************)
EXTENDS Naturals, Sequences

CONSTANTS Msg, NoMsg, Capacity

VARIABLES contents, took, gave
vars == <<contents, took, gave>>

Init == contents = <<>> /\ took = NoMsg /\ gave = NoMsg

Pass(all) ==
  /\ \/ gave' = NoMsg /\ contents' = all
     \/ all # <<>> /\ gave' = Head(all) /\ contents' = Tail(all)
  /\ Len(contents') <= Capacity

Next ==
  \/ took' = NoMsg /\ Pass(contents)
  \/ \E m \in Msg : took' = m /\ Pass(Append(contents, m))

Spec == Init /\ [][Next]_vars
=============================================================================
