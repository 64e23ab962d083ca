------------------------------ MODULE MCLabels ------------------------------
(* Labels and where they meet, over the lattice of four labels SecVerilog  *)
(* declares (D1 and D2 are unordered), with a family whose values are      *)
(* these two: SecTypes, and instances of a module with two pins in one     *)
(* with two wires, one of them called as a pin.  Either half of the state  *)
(* rests while the other runs.                                             *)
EXTENDS SecTypes, ModuleInst

CONSTANT x

FourLabels == {"LOW", "D1", "D2", "HIGH"}
Diamond ==
  {<<l, l>> : l \in FourLabels} \cup {<<"LOW", l>> : l \in FourLabels}
    \cup {<<l, "HIGH">> : l \in FourLabels}
MCFamily == [n \in {0, 1} |-> IF n = 0 THEN "D1" ELSE "D2"]
MCVars   == {x}
MCWritten == {"LOW", "HIGH"}

MCPins     == {"p", "q"}
MCWires    == {"q", "w"}
Rank       == [n \in MCPins \cup MCWires |-> CASE n = "p" -> 1 [] n = "q" -> 2 [] n = "w" -> 3]
Directed   == {"input", "output"}

Rest ==
  /\ param = [p \in MCPins |-> "w"] /\ dir = [p \in MCPins |-> "input"]
  /\ pinType = [p \in MCPins |-> <<"const", "LOW">>]
  /\ wireType = [v \in MCWires |-> <<"const", "LOW">>]
  /\ pending = {} /\ accepted = MCPins

MCInit ==
  \/ LabelInit /\ Rest
  \/ /\ InstInit
     /\ objs = <<>> /\ meaning = <<>> /\ calls = <<>> /\ printing = FALSE
     /\ label = Const("LOW") /\ meant = DenOfAtom(label) /\ labelSteps = MaxSteps

Compute == LabelNext /\ UNCHANGED instVars
Connect == InstNext /\ UNCHANGED labelVars

MCSpec ==
  /\ MCInit /\ [][Compute \/ Connect]_<<labelVars, instVars>>
  /\ WF_labelVars(Simplify /\ UNCHANGED instVars)
=============================================================================
