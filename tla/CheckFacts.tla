------------------------------ MODULE CheckFacts ------------------------------
(***************************************************************************)
(* The facts SecVerilog's label checker works with (absinterp.cc and the   *)
(* expressions it looks at): what it may assume of the hardware state when *)
(* a statement is executed.                                                *)
(*                                                                         *)
(* A variable has Size[x] values, 0 .. Size[x]-1.  An expression is a      *)
(* number, an identifier, or a compound one: what matters of those is that *)
(* the checker does not understand them, so one operation, x + 1, stands   *)
(* for all.  A condition is a comparison (a literal) or one && or || of    *)
(* two; the module WellFormed looks at deeper ones.  A fact is a condition *)
(* or the negation of one; the code compares facts by their text, so two   *)
(* of the same form are the same fact.                                     *)
(***************************************************************************)
EXTENDS Integers, FiniteSets

CONSTANTS
  Vars,      \* the variables of the module under check
  Dep,       \* env.dep_exprs: the variables that occur in a label
  Size,      \* Size[x] is the number of values of x
  GetRange,  \* PWire::getRange: the width less one, or -1 if it is no constant
  Numbers,   \* the literals of the program
  NoVar

ASSUME VarsAssumption == Dep \subseteq Vars /\ NoVar \notin Vars
ASSUME SizeAssumption == Size \in [Vars -> Nat \ {0}]
ASSUME RangeAssumption ==
  \A x \in Vars : GetRange[x] = -1 \/ (GetRange[x] \in 0 .. 29 /\ Size[x] = 2 ^ (GetRange[x] + 1))
ASSUME NumbersAssumption == Numbers \subseteq Nat

-----------------------------------------------------------------------------
(* Expressions. *)

Num(n) == [kind |-> "num", x |-> NoVar, n |-> n]
Id(x)  == [kind |-> "id",  x |-> x,     n |-> 0]
Inc(x) == [kind |-> "inc", x |-> x,     n |-> 0]

Simple == {Num(n) : n \in Numbers} \cup {Id(x) : x \in Vars}
Expr   == Simple \cup {Inc(x) : x \in Vars}

Values == UNION {0 .. Size[x] - 1 : x \in Vars}
State  == {s \in [Vars -> Values] : \A x \in Vars : s[x] \in 0 .. Size[x] - 1}

(* The states Z3 is told of: (1 << (getRange() + 1)) - 1 is the bound it is *)
(* given for a variable.  Ranges of more than 30 bits overflow the int and *)
(* are left out.                                                           *)
UpperBound(x) == 2 ^ (GetRange[x] + 1) - 1
Declared == {s \in State : \A x \in Dep : s[x] <= UpperBound(x)}

VarsOf(e) == IF e.kind = "num" THEN {} ELSE {e.x}

Val(e, s) ==
  CASE e.kind = "num" -> e.n
    [] e.kind = "id"  -> s[e.x]
    [] e.kind = "inc" -> s[e.x] + 1

(* The value x has after an assignment of n: what fits into its bits. *)
Fit(x, n) == n % Size[x]

(* PENumber, or the name of the expression is in dep_exprs. *)
Understood(e) == e.kind = "num" \/ (e.kind = "id" /\ e.x \in Dep)

-----------------------------------------------------------------------------
(* Conditions and facts. *)

Literal == [op : {"e", "n"}, l : Simple, r : Simple]

Cond(form, a, b)  == [form |-> form, a |-> a, b |-> b, neg |-> FALSE]
Conds == [form : {"one", "and", "or"}, a : Literal, b : Literal, neg : {FALSE}]
Not(c) == [c EXCEPT !.neg = TRUE]
Fact   == [form : {"one", "and", "or"}, a : Literal, b : Literal, neg : BOOLEAN]

Equal(l, r) == LET a == [op |-> "e", l |-> l, r |-> r] IN Cond("one", a, a)

LitVars(a)  == VarsOf(a.l) \cup VarsOf(a.r)
FactVars(h) == LitVars(h.a) \cup LitVars(h.b)

LitTrue(a, s) == (a.op = "e") <=> (Val(a.l, s) = Val(a.r, s))
CondTrue(c, s) ==
  IF c.form = "and" THEN LitTrue(c.a, s) /\ LitTrue(c.b, s)
                    ELSE LitTrue(c.a, s) \/ LitTrue(c.b, s)
FactTrue(h, s) == h.neg <=> ~CondTrue(h, s)
AllTrue(hs, s) == \A h \in hs : FactTrue(h, s)

(* is_wellformed of a comparison. *)
LitKnown(a) == LitVars(a) \subseteq Dep

(* What a true condition tells: of a conjunction the part that is known.   *)
KnownIfTrue(c) ==
  CASE LitKnown(c.a) /\ LitKnown(c.b)                  -> {c}
    [] c.form = "and" /\ LitKnown(c.a) /\ ~LitKnown(c.b) -> {Cond("one", c.a, c.a)}
    [] c.form = "and" /\ ~LitKnown(c.a) /\ LitKnown(c.b) -> {Cond("one", c.b, c.b)}
    [] OTHER                                           -> {}

(* What a false condition tells: of a disjunction the part that is known.  *)
KnownIfFalse(c) ==
  CASE LitKnown(c.a) /\ LitKnown(c.b)                 -> {Not(c)}
    [] c.form = "or" /\ LitKnown(c.a) /\ ~LitKnown(c.b) -> {Not(Cond("one", c.a, c.a))}
    [] c.form = "or" /\ ~LitKnown(c.a) /\ LitKnown(c.b) -> {Not(Cond("one", c.b, c.b))}
    [] OTHER                                          -> {}

-----------------------------------------------------------------------------
(* How facts pass a statement. *)

(* The target of an assignment: the variable it writes and the name it has *)
(* in the program, which differs from the variable's in a part select.     *)
Whole(x) == [name |-> x, var |-> x]

InvalidateNothing(hs, name) == hs
Invalidate(hs, name) == {h \in hs : name \notin FactVars(h)}

(* PAssign::absintp *)
AfterAssign(hs, t, e) ==
  Invalidate(hs, t.name)
    \cup {h \in {Equal(Id(t.name), e)} : Understood(e) /\ t.name \in Dep}

(* PCondit::merge.  The sets are ordered by address and intersected by an  *)
(* algorithm that needs them ordered by name (module FactMerge): what is   *)
(* in both sets may get lost on the way, what is not is never added.       *)
MergesAll(hs1, hs2) == {hs1 \cup hs2}
Merges(hs1, hs2) == SUBSET (hs1 \cap hs2)

(* Predicate::operator= builds a copy of its argument and returns it; the  *)
(* predicate assigned to stays as it is.                                   *)
PredicateAssign(old, new) == old
=============================================================================
