----------------------------- MODULE MCConditions -----------------------------
(* The two ends of an if statement: what the checker takes from the        *)
(* condition, with three variables of which it knows two, and what it      *)
(* keeps of the facts of the branches, with four facts of which two have   *)
(* the same text.  Either half of the state rests while the other runs.    *)
EXTENDS WellFormed, FactMerge

CONSTANTS u, w, h, h1, h2, h3, h4
MCVars == {u, w, h}
MCDep  == {u, w}
MCHypotheses == {h1, h2, h3, h4}
MCText == [f \in MCHypotheses |-> CASE f \in {h1, h2} -> 1 [] f = h3 -> 2 [] f = h4 -> 3]

MCInit ==
  \/ /\ Init
     /\ first = <<>> /\ second = <<>>
     /\ i = 1 /\ j = 1 /\ ret = {}
  \/ /\ MergeInit
     /\ stack = <<>> /\ ops = MaxOps + 1

Parse      == Next /\ UNCHANGED mergeVars
MergeFacts == MergeNext /\ UNCHANGED vars

MCSpec == MCInit /\ [][Parse \/ MergeFacts]_<<vars, mergeVars>>
=============================================================================
