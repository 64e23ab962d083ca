----------------------------- MODULE ModuleInst -----------------------------
(***************************************************************************)
(* PGModule::typecheck (typecheck.cc): how SecVerilog's label checker      *)
(* treats an instance of a module.                                         *)
(*                                                                         *)
(* A pin of the module has a direction and a label, which may depend on    *)
(* other pins; what is connected to it is a wire of the instantiating      *)
(* module, with a label that may depend on other wires.  The checker       *)
(* compares the two labels after it has renamed what they depend on, so    *)
(* that both speak of the same variables.  It goes through the pins in     *)
(* order; the renamings are applied one after the other, in the order of   *)
(* the names.  The pins are connected in the order of their names.         *)
(***************************************************************************)
EXTENDS Integers, FiniteSets

CONSTANTS
  Pins, Wires,    \* names; they may overlap, in different modules
  LastRank,
  Name,           \* Name[n]: the rank of n among all names
  Directions,     \* the directions of pins that occur
  Levels, FlowsTo, \* the lattice
  LH              \* the type-level function

Names == Pins \cup Wires

ASSUME NameAssumption ==
  /\ LastRank \in Nat
  /\ Name \in [Names -> 1 .. LastRank]
  /\ \A n, m \in Names : Name[n] = Name[m] => n = m
ASSUME DirectionAssumption == Directions \subseteq {"input", "output", "inout"}
ASSUME LabelAssumption ==
  /\ LH \in [{0, 1} -> Levels]
  /\ \A l \in Levels : <<l, l>> \in FlowsTo

VARIABLES
  param,      \* param[p]: the wire connected to the pin p
  dir,        \* port->get_port_type()
  pinType,    \* port->get_sec_type()
  wireType,   \* env.varsToType
  pending,    \* the pins not looked at yet
  accepted    \* those whose constraint was valid
instVars == <<param, dir, pinType, wireType, pending, accepted>>

Type(ns) == {<<"const", l>> : l \in Levels} \cup {<<"dep", n>> : n \in ns}

LabelIn(ty, s) == IF ty[1] = "const" THEN ty[2] ELSE LH[s[ty[2]]]
DepExpr(ty) == IF ty[1] = "dep" THEN {ty[2]} ELSE {}

-----------------------------------------------------------------------------
(* The two substitutions; a wire connected to several pins gets what the   *)
(* last of them says.                                                      *)

Inputs  == {p \in Pins : dir[p] \in {"input", "inout"}}
Outputs == {p \in Pins : dir[p] \in {"output", "inout"}}

PinSubstKeeps == [p \in Pins |-> p]
PinSubst == [p \in Pins |-> IF p \in Inputs THEN param[p] ELSE p]

PinsOf(w)  == {p \in Pins : param[p] = w}
LastPin(w) == CHOOSE p \in PinsOf(w) : \A q \in PinsOf(w) : Name[q] <= Name[p]
Connected  == {param[p] : p \in Pins}
ParaSubst  == [w \in Connected |-> IF LastPin(w) \in Outputs THEN LastPin(w) ELSE w]

(* subst of the name of rank k, if subst has one. *)
SubstName(ty, subst, k) ==
  IF ty[1] = "dep" /\ ty[2] \in DOMAIN subst /\ Name[ty[2]] = k
  THEN <<"dep", subst[ty[2]]>> ELSE ty

(* One name after the other. *)
SubstUpTo(ty, subst) ==
  LET upTo[k \in 0 .. LastRank] ==
        IF k = 0 THEN ty ELSE SubstName(upTo[k - 1], subst, k)
  IN  upTo
SubstAll(ty, subst) == SubstUpTo(ty, subst)[LastRank]

RenamedPin(p)  == SubstAll(pinType[p], PinSubst)
RenamedWire(w) == SubstAll(wireType[w], ParaSubst)

-----------------------------------------------------------------------------
(* The constraint.  The checker declares what the pin's label depends on,  *)
(* and has declared what labels of its own module depend on; an undeclared *)
(* name is an error of Z3 and nothing is found valid.                      *)

Declared(p) == UNION {DepExpr(wireType[w]) : w \in Wires} \cup DepExpr(RenamedPin(p))

Below(a, b) == \A s \in [Names -> {0, 1}] : <<LabelIn(a, s), LabelIn(b, s)>> \in FlowsTo

ConstraintOfUse(p) == Below(RenamedWire(param[p]), RenamedPin(p))
ConstraintOfDef(p) == Below(RenamedPin(p), RenamedWire(param[p]))

(* The inputs first, and else the outputs. *)
Constraint(p) == IF p \in Inputs THEN ConstraintOfUse(p) ELSE ConstraintOfDef(p)

Accepts(p) ==
  /\ DepExpr(RenamedWire(param[p])) \cup DepExpr(RenamedPin(p)) \subseteq Declared(p)
  /\ Constraint(p)

Check(p) ==
  /\ p \in pending
  /\ \A q \in pending : Name[p] <= Name[q]
  /\ accepted' = IF Accepts(p) THEN accepted \cup {p} ELSE accepted
  /\ pending' = pending \ {p}
  /\ UNCHANGED <<param, dir, pinType, wireType>>

InstInit ==
  /\ param \in [Pins -> Wires]
  /\ dir \in [Pins -> Directions]
  /\ pinType \in [Pins -> Type(Pins)]
  /\ wireType \in [Wires -> Type(Wires)]
  /\ pending = Pins /\ accepted = {}

InstNext == \E p \in Pins : Check(p)

InstSpec == InstInit /\ [][InstNext]_instVars

-----------------------------------------------------------------------------
(* Properties *)

(* The states of the instance and of its surroundings: a pin has the value *)
(* of the wire it is connected to.                                         *)
Outside == [Wires -> {0, 1}]
Inside(s) == [p \in Pins |-> s[param[p]]]

(* The checker does not tell the names of the two modules apart.  It means *)
(* one variable by a name if a wire that is called as a pin is connected   *)
(* to that pin, as in .clk(clk).                                           *)
OneMeaning == \A n \in Pins \cap Wires : param[n] = n

(* What flows into the instance, or out of it, through p is public enough. *)
FlowsIn(p)  == \A s \in Outside : <<LabelIn(wireType[param[p]], s), LabelIn(pinType[p], Inside(s))>> \in FlowsTo
FlowsOut(p) == \A s \in Outside : <<LabelIn(pinType[p], Inside(s)), LabelIn(wireType[param[p]], s)>> \in FlowsTo

(* The label of a connected wire and that of the pin agree, in the         *)
(* direction of the pin, in every state the two modules can be in          *)
(* together, however the labels depend on other pins and wires, if names   *)
(* have one meaning.                                                       *)
AcceptedConnects ==
  OneMeaning =>
    \A p \in accepted :
      /\ p \in Inputs => FlowsIn(p)
      /\ p \in Outputs => FlowsOut(p)

(* Labels that depend on inputs only, and that are the same on both sides  *)
(* but for the names, are accepted.                                        *)
Same(p) ==
  \/ pinType[p] = wireType[param[p]]
  \/ DepExpr(pinType[p]) = {p} /\ DepExpr(wireType[param[p]]) = {param[p]}
SameLabelAccepted ==
  pending = {} /\ OneMeaning =>
    \A p \in Pins : (Outputs = {} /\ Same(p)) => p \in accepted
=============================================================================
