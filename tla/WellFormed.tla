------------------------------ MODULE WellFormed ------------------------------
(***************************************************************************)
(* What the label checker takes from the condition of an if statement      *)
(* (PExpr.cc): is_wellformed says whether it understands the condition,    *)
(* to_wellformed keeps the part it understands, and the two neg_ functions *)
(* do so for the else branch.  CheckFacts has the outcome for conditions   *)
(* of at most one connective; here they are of any depth, and the parser   *)
(* builds them up from the inside, on its stack.                           *)
(*                                                                         *)
(* The functions ask an operand for its four answers only, so a condition  *)
(* is a record of these answers.  The conditions and what is kept of them  *)
(* are expressions, of which matters what they evaluate to, which          *)
(* variables are in them, and which operators: the code's letters, e for   *)
(* ==, n for !=, L for <=, a for &&, o for ||, + for those the checker     *)
(* does not know, and of the unary ones N for ~| and ! for the others.     *)
(* Below a unary operator nobody looks.                                    *)
(***************************************************************************)
EXTENDS Integers, Sequences

CONSTANTS
  Vars, Dep,        \* the variables, and those labels depend on
  Values, Numbers,  \* of the variables, and in the conditions
  MaxOps, MaxDepth

ASSUME ConditionAssumption ==
  /\ Dep \subseteq Vars
  /\ Values \subseteq Int /\ Numbers \subseteq Int

VARIABLES stack, ops
vars == <<stack, ops>>

-----------------------------------------------------------------------------
(* Expressions. *)

States == [Vars -> Values]

Known   == {"e", "n", "L", "a", "o"}
Letters == Known \cup {"+", "N", "!"}
Exprs   == [value : [States -> Int], vars : SUBSET Vars, has : SUBSET (Letters \cup {"null"})]

Bit(b) == IF b THEN 1 ELSE 0

Apply(op, l, r) ==
  IF op = "e"      THEN Bit(l = r)
  ELSE IF op = "n" THEN Bit(l # r)
  ELSE IF op = "L" THEN Bit(l <= r)
  ELSE IF op = "a" THEN Bit(l # 0 /\ r # 0)
  ELSE IF op = "o" THEN Bit(l # 0 \/ r # 0)
  ELSE l + r

Number(n) == [value |-> [s \in States |-> n], vars |-> {}, has |-> {}]
Ident(x)  == [value |-> [s \in States |-> s[x]], vars |-> {x}, has |-> {}]
Null      == [value |-> [s \in States |-> 0], vars |-> {}, has |-> {"null"}]

Unary(op, e) ==
  [value |-> [s \in States |-> Bit(e.value[s] = 0)], vars |-> e.vars, has |-> {op}]

Binary(op, l, r) ==
  [value |-> [s \in States |-> Apply(op, l.value[s], r.value[s])],
   vars  |-> l.vars \cup r.vars,
   has   |-> {op} \cup l.has \cup r.has]

True(e, s) == e.value[s] # 0

-----------------------------------------------------------------------------
(* Of a condition c: c.expr as it is written, c.wf and c.negwf what the    *)
(* functions is_wellformed and is_neg_wellformed return, c.kept and        *)
(* c.negkept what to_wellformed and neg_to_wellformed do.  c.plain is not  *)
(* in the code: no && or || is an operand of another operator.             *)
Conditions ==
  [expr : Exprs, wf : BOOLEAN, kept : Exprs, negwf : BOOLEAN, negkept : Exprs, plain : BOOLEAN]

(* The connectives of which a half is enough, when the expression is known *)
(* to be true and when it is known to be false; the others need both.      *)
AnyConnective == {"a", "o"}
HalfIfTrue    == {"a"}
HalfIfFalse   == {"o"}

(* Always the one side. *)
LeftSide(op, l, lok, r, rok) == IF lok THEN l ELSE r

(* Both sides, or of the connective that allows it the one there is. *)
EitherSide(op, l, lok, r, rok) ==
  IF lok /\ rok THEN Binary(op, l, r)
  ELSE IF lok   THEN l
  ELSE IF rok   THEN r
  ELSE Null

IsWellFormed(op, l, r) ==
  \/ op \in Known \ HalfIfTrue /\ l.wf /\ r.wf
  \/ op \in HalfIfTrue /\ (l.wf \/ r.wf)

(* The half of a conjunction as it stands, not what is known of it. *)
ToWellFormedShallow(op, l, r) == EitherSide(op, l.expr, l.wf, r.expr, r.wf)

ToWellFormed(op, l, r) ==
  IF op \in HalfIfTrue                               THEN EitherSide(op, l.kept, l.wf, r.kept, r.wf)
  ELSE IF op \in Known \ HalfIfTrue /\ l.wf /\ r.wf THEN Binary(op, l.kept, r.kept)
  ELSE Null

IsNegWellFormed(op, l, r) ==
  \/ op \in Known \ HalfIfFalse /\ l.negwf /\ r.negwf
  \/ op \in HalfIfFalse /\ (l.negwf \/ r.negwf)

NegToWellFormed(op, l, r) ==
  IF op \in HalfIfFalse THEN EitherSide(op, l.negkept, l.negwf, r.negkept, r.negwf)
  ELSE IF op \in Known \ HalfIfFalse /\ l.negwf /\ r.negwf THEN Binary(op, l.negkept, r.negkept)
  ELSE Null

(* A number, a name or a unary operator is kept as it stands or not at     *)
(* all, and the neg_ functions are the others.                             *)
Whole(e, ok) ==
  LET kept == IF ok THEN e ELSE Null
  IN  [expr |-> e, wf |-> ok, kept |-> kept, negwf |-> ok, negkept |-> kept, plain |-> TRUE]

PENumber(n)    == Whole(Number(n), TRUE)
PEIdent(x)     == Whole(Ident(x), x \in Dep)
PEUnary(op, e) == Whole(Unary(op, e), op = "N")

PEBinary(op, l, r) ==
  [expr    |-> Binary(op, l.expr, r.expr),
   wf      |-> IsWellFormed(op, l, r),
   kept    |-> ToWellFormed(op, l, r),
   negwf   |-> IsNegWellFormed(op, l, r),
   negkept |-> NegToWellFormed(op, l, r),
   plain   |-> IF op \in AnyConnective THEN l.plain /\ r.plain
               ELSE (l.expr.has \cup r.expr.has) \cap AnyConnective = {}]

-----------------------------------------------------------------------------
(* The parser. *)

Operands == {PENumber(n) : n \in Numbers} \cup {PEIdent(x) : x \in Vars}

Init == stack = <<>> /\ ops = 0

(* Not more than can still be connected. *)
Shift(c) ==
  /\ Len(stack) < MaxDepth /\ Len(stack) + ops <= MaxOps
  /\ stack' = Append(stack, c)
  /\ UNCHANGED ops

(* n on top of the stack become c. *)
Reduce(n, c) ==
  /\ ops < MaxOps /\ ops' = ops + 1
  /\ stack' = Append(SubSeq(stack, 1, Len(stack) - n), c)

FromTop(k) == stack[Len(stack) - k]

ReduceUnary(op)  == Len(stack) >= 1 /\ Reduce(1, PEUnary(op, FromTop(0).expr))
ReduceBinary(op) == Len(stack) >= 2 /\ Reduce(2, PEBinary(op, FromTop(1), FromTop(0)))

Next ==
  \/ \E c \in Operands : Shift(c)
  \/ \E op \in {"N", "!"} : ReduceUnary(op)
  \/ \E op \in Known \cup {"+"} : ReduceBinary(op)

Spec == Init /\ [][Next]_vars

-----------------------------------------------------------------------------
(* Properties *)

Parsed == {stack[k] : k \in 1 .. Len(stack)}

Implied(c) ==
  \A s \in States :
    /\ c.wf /\ True(c.expr, s) => True(c.kept, s)
    /\ c.negwf /\ ~True(c.expr, s) => ~True(c.negkept, s)

(* What is kept of a condition is true in the branch that is taken when    *)
(* the condition is, and what is kept for the else branch is false in it,  *)
(* however deep && and || are nested.                                      *)
PlainImplied == \A c \in Parsed : c.plain => Implied(c)

(* The same for every condition the parser builds. *)
AlwaysImplied == \A c \in Parsed : Implied(c)

Dependent(e) == e.vars \subseteq Dep /\ "null" \notin e.has

(* What is kept mentions only variables Z3 is told of, and never is a null *)
(* pointer inside an expression.  (A reduction is kept as it stands.)      *)
OnlyDependent ==
  \A c \in Parsed : "N" \notin c.expr.has =>
    (c.wf => Dependent(c.kept)) /\ (c.negwf => Dependent(c.negkept))

(* A condition over such variables and the known operators is kept whole.  *)
KeptWhole ==
  \A c \in Parsed : (c.expr.vars \subseteq Dep /\ c.expr.has \subseteq Known) =>
    \A s \in States : /\ True(c.kept, s) <=> True(c.expr, s)
                      /\ True(c.negkept, s) <=> True(c.expr, s)
=============================================================================
