--------------------------- MODULE CheckStatements ---------------------------
(***************************************************************************)
(* SecVerilog's label checker on one always block (typecheck.cc with       *)
(* absinterp.cc), next to an execution of the block.                       *)
(*                                                                         *)
(* The checker walks over the text of the block once, in order; the block  *)
(* is not fixed, any statement may come next.  A step is one statement, or *)
(* the beginning, the else, the next item or the end of a compound one.    *)
(* With the checker walks an execution: sigma is the state of the          *)
(* variables, and active tells whether the execution gets to the point the *)
(* checker is at; in a branch the execution does not take nothing changes  *)
(* in sigma.  The walk starts from every state, so what holds of sigma     *)
(* while active is true holds in every execution that gets there.          *)
(*                                                                         *)
(* A frame of the stack is an activation of PCondit::typecheck or          *)
(* PCase::typecheck, with its local variables and what the execution       *)
(* decided at its head.                                                    *)
(*                                                                         *)
(* Declared labels are atoms here, a constant label or LH of a variable    *)
(* (module SecTypes has the compound ones); a join is the set of its       *)
(* atoms, bottom left out.                                                 *)
(***************************************************************************)
EXTENDS CheckFacts, Sequences

CONSTANTS
  Labels, Leq,   \* the lattice: its elements and its order, a set of pairs
  LH,            \* the type-level function of the dependent labels
  Gamma,         \* varsToType
  Targets,       \* what may stand on the left of an assignment
  Exprs,         \* what may stand on the right
  Branches,      \* the conditions of if statements
  Selections,    \* the ?: expressions that may stand there
  Cases,         \* the pairs of an expression and the sets of labels of items
  CaseFacts,     \* do items assign what the checker takes facts from?
  MaxDepth,      \* bound on nesting
  MaxSteps       \* bound on the length of the walk

Atoms == [kind : {"const"}, label : Labels, x : {NoVar}]
           \cup {[kind |-> "dep", label |-> l, x |-> v] : l \in Labels, v \in Dep}

ASSUME LabelsAssumption == Leq \subseteq Labels \X Labels
ASSUME GammaAssumption  == Gamma \in [Vars -> Atoms]
ASSUME StatementsAssumption ==
  /\ Targets \subseteq {Whole(x) : x \in Vars} \cup [name : {NoVar}, var : Vars]
  /\ Exprs \subseteq Expr
  /\ Branches \subseteq Conds
  /\ Selections \subseteq [cond : Conds, tru : Expr, fal : Expr]
  /\ \A p \in Cases : p.expr \in Expr /\ p.items \subseteq SUBSET Numbers

VARIABLES
  pred,     \* the facts, Predicate& pred
  pc,       \* env.pc
  alive,    \* env.aliveVars
  must,     \* what mustmodify collects in the current branch
  frames,   \* the activations of PCondit and PCase
  sigma, active,   \* the execution
  written,  \* what the execution has assigned in the current branch
  unchecked,\* self-dependent variables assigned in it while not in aliveVars
  steps

checker == <<pred, pc, alive, must, frames>>
vars == <<pred, pc, alive, must, frames, sigma, active, written, unchecked, steps>>

-----------------------------------------------------------------------------
(* Labels and constraints. *)

Den(a, s) == IF a.kind = "const" THEN a.label ELSE LH[s[a.x]]

LabelOf(e)   == {Gamma[x] : x \in VarsOf(e)}
CondLabel(c) == {Gamma[x] : x \in FactVars(c)}

(* Under the facts hs every atom of rhs is below lhs: "unsat" of Z3.       *)
Valid(hs, rhs, lhs) ==
  \A s \in Declared :
    AllTrue(hs, s) => \A a \in rhs : <<Den(a, s), Den(lhs, s)>> \in Leq

(* The same for the label lhs gets by the assignment, the fresh variable   *)
(* of typecheck_assignment: it equals e if the checker understands e.      *)
ValidFresh(hs, rhs, x, e) ==
  \A s \in Declared : \A new \in {n \in 0 .. Size[x] - 1 : n <= UpperBound(x)} :
    (AllTrue(hs, s) /\ (Understood(e) => new = Val(e, s)))
      => \A a \in rhs : <<Den(a, s), LH[new]>> \in Leq

(* hasExpr: does the label of the target depend on the target itself?      *)
SelfDep(t) == Gamma[t.var].kind = "dep" /\ Gamma[t.var].x = t.name

(* No second constraint for a variable that other paths may leave alone.   *)
AcceptedWithoutUpgradeCheck(hs, guard, t, e) ==
  IF SelfDep(t) THEN ValidFresh(hs, LabelOf(e) \cup guard, t.var, e)
                ELSE Valid(hs, LabelOf(e) \cup guard, Gamma[t.var])

(* typecheck_assignment: are its constraints all valid?                    *)
Accepted(hs, guard, t, e) ==
  IF ~SelfDep(t) THEN Valid(hs, LabelOf(e) \cup guard, Gamma[t.var])
  ELSE IF t.name \in alive
    THEN Valid(hs, guard, Gamma[t.var]) /\ ValidFresh(hs, guard, t.var, e)
    ELSE ValidFresh(hs, LabelOf(e) \cup guard, t.var, e)

-----------------------------------------------------------------------------
(* Statements that are not compound. *)

Walk == steps < MaxSteps /\ steps' = steps + 1

Top    == frames[Len(frames)]
InCase == \E i \in 1 .. Len(frames) : frames[i].at \in {"case", "last"}

(* What an assignment of one of the values in ns does to the execution: a  *)
(* part select leaves the other bits of the variable as they are.          *)
Execute(t, n) ==
  IF active
  THEN \E v \in (IF t.name = t.var THEN {Fit(t.var, n)} ELSE 0 .. Size[t.var] - 1) :
         sigma' = [sigma EXCEPT ![t.var] = v]
  ELSE UNCHANGED sigma

(* mustmodify of an assignment, and what is to be known of it later.       *)
Record(t) ==
  /\ must' = must \cup ({t.name} \cap Dep)
  /\ written' = IF active THEN written \cup {t.var} ELSE written
  /\ unchecked' = IF SelfDep(t) /\ t.name \notin alive
                    THEN unchecked \cup {t.var} ELSE unchecked

(* PAssign::typecheck of a blocking assignment. *)
Assign(t, e) ==
  /\ (InCase /\ ~CaseFacts) => ~(Understood(e) /\ t.name \in Dep)
  /\ pred' = AfterAssign(pred, t, e)
  /\ Execute(t, Val(e, sigma))
  /\ Record(t)
  /\ UNCHANGED <<pc, alive, frames, active>>

(* PAssignNB::typecheck: not visible until the next cycle. *)
AssignNB(t, e) ==
  /\ Record(t)
  /\ UNCHANGED <<pred, pc, alive, frames, sigma, active>>

(* PAssign::typecheck of an assignment of q.cond ? q.tru : q.fal.  The     *)
(* statements it is translated to are checked on a copy of the facts; the  *)
(* assignment itself only invalidates.                                     *)
AssignTernary(t, q) ==
  /\ pred' = Invalidate(pred, t.name)
  /\ Execute(t, Val(IF CondTrue(q.cond, sigma) THEN q.tru ELSE q.fal, sigma))
  /\ Record(t)
  /\ UNCHANGED <<pc, alive, frames, active>>
-----------------------------------------------------------------------------
(* PCondit::typecheck. *)

Frame(at, rest) ==
  [at |-> at, cond |-> rest.cond, taken |-> rest.taken, outer |-> active,
   before |-> pred, after |-> {}, oldpc |-> pc, oldalive |-> alive,
   mine |-> rest.mine, ifmust |-> {},
   outermust |-> must, outerwritten |-> written, outerunchecked |-> unchecked]

(* What mustmodify may ever return. *)
Assignable == {t.name : t \in Targets} \cap Dep

(* The dependent variables that some path through the statement may leave  *)
(* as they are.                                                            *)
MayKeepEverything(mine) == Vars \ mine
MayKeep(mine) == Dep \ mine

(* mine is the result of mustmodify of the whole statement, which the      *)
(* checker computes ahead; CondEnd is there for the right guess only.      *)
CondBegin(c, mine) ==
  /\ Len(frames) < MaxDepth
  /\ frames' = Append(frames,
                 Frame("if", [cond |-> c, taken |-> CondTrue(c, sigma), mine |-> mine]))
  /\ pc' = pc \cup CondLabel(c)
  /\ alive' = alive \cup MayKeep(mine)
  /\ pred' = pred \cup KnownIfTrue(c)
  /\ active' = (active /\ CondTrue(c, sigma))
  /\ must' = {} /\ written' = {} /\ unchecked' = {}
  /\ UNCHANGED sigma

CondElse ==
  /\ frames # <<>> /\ Top.at = "if"
  /\ frames' = [frames EXCEPT ![Len(frames)] =
                  [@ EXCEPT !.at = "else", !.after = pred, !.ifmust = must]]
  /\ pred' = Top.before \cup KnownIfFalse(Top.cond)
  /\ active' = (Top.outer /\ ~Top.taken)
  /\ must' = {}
  /\ UNCHANGED <<pc, alive, sigma, written, unchecked>>

(* mustmodify of an if statement: what both branches modify. *)
EitherModifies(ifmust, elsemust) == ifmust \cup elsemust
BothModify(ifmust, elsemust) == ifmust \cap elsemust

Leave ==
  /\ frames' = SubSeq(frames, 1, Len(frames) - 1)
  /\ pc' = Top.oldpc
  /\ active' = Top.outer
  /\ written' = Top.outerwritten \cup written
  /\ unchecked' = Top.outerunchecked \cup unchecked
  /\ UNCHANGED sigma

CondEnd ==
  /\ frames # <<>> /\ Top.at \in {"if", "else"}
  /\ LET afterif   == IF Top.at = "else" THEN Top.after ELSE pred
         afterelse == IF Top.at = "else" THEN pred ELSE Top.before
     IN  pred' \in Merges(afterif, afterelse)
  /\ LET both == IF Top.at = "else" THEN BothModify(Top.ifmust, must) ELSE {}
     IN  Top.mine = both /\ must' = Top.outermust \cup both
  /\ alive' = Top.oldalive
  /\ Leave
-----------------------------------------------------------------------------
(* PCase::typecheck.  before is the local oldh, cond the selecting         *)
(* expression; taken tells that an item has matched, "last" that the       *)
(* default item, which comes last, is being checked.                       *)

CaseBegin(e) ==
  /\ Len(frames) < MaxDepth
  /\ frames' = Append(frames, [Frame("case", [cond |-> e, taken |-> FALSE, mine |-> {}])
                                 EXCEPT !.at = "case"])
  /\ active' = FALSE
  /\ must' = {} /\ written' = {} /\ unchecked' = {}
  /\ UNCHANGED <<pred, pc, alive, sigma>>

CaseLabelDropped(e) == Top.oldpc
CaseLabel(e) == Top.oldpc \cup LabelOf(e)

(* The item for the numbers ls; no number at all is the default item. An   *)
(* item ends where the next begins: pc is set again, the facts are not.    *)
CaseItem(e, ls) ==
  /\ frames # <<>> /\ Top.at = "case" /\ Top.cond = e
  /\ LET hits == Top.outer /\ ~Top.taken /\ (ls = {} \/ Val(e, sigma) \in ls)
     IN
     /\ pred' = PredicateAssign(pred, Top.before)
                  \cup {Equal(e, Num(n)) : n \in {m \in ls : e.kind = "id" /\ Understood(e)}}
     /\ pc' = CaseLabel(e)
     /\ active' = hits
     /\ frames' = [frames EXCEPT ![Len(frames)] =
                     [Top EXCEPT !.at = IF ls = {} THEN "last" ELSE "case",
                                 !.taken = Top.taken \/ hits]]
  /\ UNCHANGED <<alive, must, sigma, written, unchecked>>

(* PCase has no mustmodify of its own: it adds nothing. *)
CaseEnd ==
  /\ frames # <<>> /\ Top.at \in {"case", "last"}
  /\ pred' = PredicateAssign(pred, Top.before)
  /\ must' = Top.outermust
  /\ UNCHANGED alive
  /\ Leave
-----------------------------------------------------------------------------
Init ==
  /\ pred = {} /\ alive = {} /\ must = {} /\ frames = <<>>
  /\ pc = {}
  /\ sigma \in State /\ active = TRUE
  /\ written = {} /\ unchecked = {}
  /\ steps = 0

Next ==
  /\ Walk
  /\ \/ \E t \in Targets, e \in Exprs : Assign(t, e)
     \/ \E t \in Targets, e \in Exprs : AssignNB(t, e)
     \/ \E t \in Targets, q \in Selections : AssignTernary(t, q)
     \/ \E c \in Branches, mine \in SUBSET Assignable : CondBegin(c, mine)
     \/ CondElse
     \/ CondEnd
     \/ \E p \in Cases : CaseBegin(p.expr)
     \/ \E p \in Cases : \E ls \in p.items : CaseItem(p.expr, ls)
     \/ CaseEnd

Spec == Init /\ [][Next]_vars

-----------------------------------------------------------------------------
(* Properties *)

TypeOK ==
  /\ pred \subseteq Fact
  /\ pc \subseteq Atoms /\ alive \subseteq Dep /\ must \subseteq Dep
  /\ sigma \in State /\ active \in BOOLEAN
  /\ written \subseteq Vars /\ unchecked \subseteq Vars
  /\ steps \in Nat

(* Whatever the checker assumes at a point of the program is true in every *)
(* execution that gets there: through assignments that overwrite what a    *)
(* fact is about, into and out of nested branches, and after a merge.      *)
PredicateHolds == active => AllTrue(pred, sigma)

(* The conditions the current point depends on. *)
Guards ==
  UNION {LET f == frames[i] IN
         IF f.at \in {"if", "else"} THEN CondLabel(f.cond) ELSE LabelOf(f.cond) :
           i \in 1 .. Len(frames)}

After(t, e) ==
  IF SelfDep(t) THEN LH[Fit(t.var, Val(e, sigma))] ELSE Den(Gamma[t.var], sigma)

(* If the constraints of an assignment are valid then, in any execution    *)
(* that performs it, the labels of all conditions it depends on are below  *)
(* the label the target has after it, and below the label it had if some   *)
(* path leaves it alone; of a target every path assigns, so is the label   *)
(* of the assigned value.                                                  *)
AcceptedFlows ==
  [][\A t \in Targets, e \in Exprs :
       (active /\ (Assign(t, e) \/ AssignNB(t, e)) /\ Accepted(pred, pc, t, e)) =>
         /\ \A a \in Guards : <<Den(a, sigma), After(t, e)>> \in Leq
         /\ IF SelfDep(t) /\ t.name \in alive
              THEN \A a \in Guards : <<Den(a, sigma), Den(Gamma[t.var], sigma)>> \in Leq
              ELSE \A a \in LabelOf(e) : <<Den(a, sigma), After(t, e)>> \in Leq]_vars

(* As AcceptedFlows for the assigned value, whatever the other paths do.   *)
ValueFlows ==
  [][\A t \in Targets, e \in Exprs :
       (active /\ (Assign(t, e) \/ AssignNB(t, e)) /\ Accepted(pred, pc, t, e)) =>
         \A a \in LabelOf(e) : <<Den(a, sigma), After(t, e)>> \in Leq]_vars

(* When an execution leaves a compound statement without having assigned a *)
(* self-dependent variable, all assignments to it in the statement were    *)
(* made under the no-sensitive-upgrade check.                              *)
LeavesSafely(leave) ==
  (frames # <<>> /\ leave /\ Top.outer) => unchecked \subseteq written

UnwrittenWasAlive == [][LeavesSafely(CondEnd \/ CaseEnd)]_vars

(* The same of if statements only, whatever they contain: case statements  *)
(* within them too, and what is left alone there.                          *)
UnwrittenInIfsWasAlive == [][LeavesSafely(CondEnd)]_vars
=============================================================================
