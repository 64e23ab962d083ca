----------------------------- MODULE CheckProofs -----------------------------
(***************************************************************************)
(* The facts the label checker assumes are true wherever it assumes them,  *)
(* and what it accepts respects the labels, for all programs without part  *)
(* selects whose assigned values fit into their targets and whose case     *)
(* statements are ones the checker takes no facts from.  Each of the three *)
(* conditions is needed: a run of MCCheck, or a constant of its cfg        *)
(* changed, shows what goes wrong without it.  The types, and what         *)
(* mustmodify looks ahead for, need none.                                  *)
(***************************************************************************)
EXTENDS CheckStatements, SequenceTheorems, TLAPS

(* No case statement selects by a variable the checker takes facts about,  *)
(* and none has an assignment in it that a fact is taken from.             *)
QuietCases ==
  Cases # {} => ~CaseFacts /\ \A p \in Cases : p.expr.kind = "id" => ~Understood(p.expr)
WholeOnly  == Targets \subseteq {Whole(x) : x \in Vars}
ValuesFit  ==
  \A t \in Targets, e \in Exprs : (Understood(e) /\ t.name \in Dep) =>
    \A s \in State : Val(e, s) < Size[t.var]

ConstantRanges == \A x \in Vars : GetRange[x] # -1

-----------------------------------------------------------------------------
(* The activations. *)

IfLike(f) == f.at \in {"if", "else"}

Frames ==
  {f \in [at : {"if", "else", "case", "last"}, cond : Conds \cup Expr,
          taken : BOOLEAN, outer : BOOLEAN, before : SUBSET Fact, after : SUBSET Fact,
          oldpc : SUBSET Atoms, oldalive : SUBSET Dep, mine : SUBSET Dep,
          ifmust : SUBSET Dep, outermust : SUBSET Dep,
          outerwritten : SUBSET Vars, outerunchecked : SUBSET Vars] :
     IF IfLike(f) THEN f.cond \in Conds ELSE f.cond \in Expr}

(* The execution is in the branch that is being checked. *)
Inside(f) == f.outer /\ (f.at = "if" <=> f.taken)

(* The branch that is being checked is the one the condition chose, when   *)
(* it was evaluated where the statement begins.  All items of a case       *)
(* statement count as chosen: the checker takes no facts from them, and    *)
(* the facts it keeps are true while it checks any of them.                *)
Chosen(f) == IfLike(f) => (f.at = "if" <=> f.taken)
UpTo(fs, i) == \A j \in 1 .. i : Chosen(fs[j])
OnlyIfs(fs, i) == \A j \in 1 .. i : IfLike(fs[j])

(* What holds while the other branch of f is the chosen one. *)
OtherBranch(f) ==
  /\ f.at = "if" /\ ~f.taken => AllTrue(f.before, sigma) /\ ~CondTrue(f.cond, sigma)
  /\ f.at = "else" /\ f.taken => AllTrue(f.after, sigma)

(* The labels f adds to that of the program counter, and those it has in   *)
(* the branch.                                                             *)
Guard(f) == IF IfLike(f) THEN CondLabel(f.cond) ELSE LabelOf(f.cond)
PcIn(i)  == IF i = Len(frames) THEN pc ELSE frames[i + 1].oldpc

Typed  == TypeOK /\ frames \in Seq(Frames)
Nested ==
  /\ active => UpTo(frames, Len(frames))
  /\ \A i \in 1 .. Len(frames) : frames[i].outer => UpTo(frames, i - 1)
  /\ UpTo(frames, Len(frames)) /\ OnlyIfs(frames, Len(frames)) => active
  /\ \A i \in 1 .. Len(frames) : UpTo(frames, i - 1) /\ OnlyIfs(frames, i - 1) => frames[i].outer
NoneWithout == Cases = {} => OnlyIfs(frames, Len(frames))
Others == \A i \in 1 .. Len(frames) : UpTo(frames, i - 1) => OtherBranch(frames[i])
Tainted ==
  /\ active => \A i \in 1 .. Len(frames) : Guard(frames[i]) \subseteq pc
  /\ \A i, j \in 1 .. Len(frames) :
       i < j /\ frames[j].outer => Guard(frames[i]) \subseteq frames[j].oldpc
  /\ \A i \in 1 .. Len(frames) :
       IfLike(frames[i]) => frames[i].oldpc \cup Guard(frames[i]) \subseteq PcIn(i)

(* The facts are true where all branches around are chosen, even if it is  *)
(* in an item the execution does not get to.                               *)
FactsHold == UpTo(frames, Len(frames)) => AllTrue(pred, sigma)

IInv == Typed /\ Nested /\ NoneWithout /\ Others /\ Tainted /\ FactsHold

-----------------------------------------------------------------------------
(* Expressions and states. *)

(* A variable's value is a number below its size. *)
LEMMA StateValues ==
  ASSUME NEW s \in State, NEW x \in Vars
  PROVE  s[x] \in Nat /\ s[x] < Size[x] /\ Size[x] \in Nat /\ Size[x] > 0
<1>1. Size[x] \in Nat /\ Size[x] > 0
  BY SizeAssumption
<1> QED BY <1>1 DEF State

(* A state stays one when a variable gets a value of its range. *)
LEMMA StateUpdate ==
  ASSUME NEW s \in State, NEW x \in Vars, NEW v \in 0 .. Size[x] - 1
  PROVE  [s EXCEPT ![x] = v] \in State
<1>1. v \in Values
  BY DEF Values
<1>2. [s EXCEPT ![x] = v] \in [Vars -> Values]
  BY <1>1 DEF State
<1> QED BY <1>2 DEF State

(* An expression is a number, a variable or a compound. *)
LEMMA ExprForms ==
  ASSUME NEW e \in Expr
  PROVE  \/ \E n \in Numbers : e = Num(n)
         \/ \E x \in Vars : e = Id(x)
         \/ \E x \in Vars : e = Inc(x)
BY DEF Expr, Simple

(* What the checker understands may be part of a fact. *)
LEMMA UnderstoodIsSimple ==
  ASSUME NEW e \in Expr, Understood(e)
  PROVE  e \in Simple
BY ExprForms DEF Understood, Simple, Num, Id, Inc

(* The value of an expression is a natural number. *)
LEMMA ValNat ==
  ASSUME NEW e \in Expr, NEW s \in State
  PROVE  Val(e, s) \in Nat
<1>1. ASSUME NEW n \in Numbers, e = Num(n) PROVE Val(e, s) \in Nat
  BY <1>1, NumbersAssumption DEF Val, Num
<1>2. ASSUME NEW x \in Vars, e = Id(x) PROVE Val(e, s) \in Nat
  BY <1>2, StateValues DEF Val, Id
<1>3. ASSUME NEW x \in Vars, e = Inc(x) PROVE Val(e, s) \in Nat
  BY <1>3, StateValues DEF Val, Inc
<1> QED BY <1>1, <1>2, <1>3, ExprForms

(* What is assigned is cut to the range of the variable. *)
LEMMA FitRange ==
  ASSUME NEW x \in Vars, NEW n \in Nat
  PROVE  Fit(x, n) \in 0 .. Size[x] - 1 /\ (n < Size[x] => Fit(x, n) = n)
<1>1. Size[x] \in Nat /\ Size[x] > 0
  BY SizeAssumption
<1> QED BY <1>1 DEF Fit

(* An expression keeps its value when another variable is written. *)
LEMMA ValUnaffected ==
  ASSUME NEW e \in Simple, NEW s \in State, NEW x \in Vars, NEW v,
         x \notin VarsOf(e)
  PROVE  Val(e, [s EXCEPT ![x] = v]) = Val(e, s)
<1>1. ASSUME NEW n \in Numbers, e = Num(n)
      PROVE  Val(e, [s EXCEPT ![x] = v]) = Val(e, s)
  BY <1>1 DEF Val, Num
<1>2. ASSUME NEW y \in Vars, e = Id(y)
      PROVE  Val(e, [s EXCEPT ![x] = v]) = Val(e, s)
  <2>1. y # x
    BY <1>2 DEF VarsOf, Id
  <2> QED BY <1>2, <2>1 DEF Val, Id, State
<1> QED BY <1>1, <1>2 DEF Simple

-----------------------------------------------------------------------------
(* Facts. *)

(* A fact survives an assignment to a variable it does not mention. *)
LEMMA FactUnaffected ==
  ASSUME NEW h \in Fact, NEW s \in State, NEW x \in Vars, NEW v,
         x \notin FactVars(h), FactTrue(h, s)
  PROVE  FactTrue(h, [s EXCEPT ![x] = v])
<1> DEFINE r == [s EXCEPT ![x] = v]
<1>1. h.a \in Literal /\ h.b \in Literal
  BY DEF Fact
<1>2. ASSUME NEW a \in Literal, x \notin LitVars(a)
      PROVE  LitTrue(a, r) <=> LitTrue(a, s)
  <2>1. a.l \in Simple /\ a.r \in Simple /\ x \notin VarsOf(a.l) /\ x \notin VarsOf(a.r)
    BY <1>2 DEF Literal, LitVars
  <2>2. Val(a.l, r) = Val(a.l, s) /\ Val(a.r, r) = Val(a.r, s)
    BY <2>1, ValUnaffected
  <2> QED BY <2>2 DEF LitTrue
<1>3. x \notin LitVars(h.a) /\ x \notin LitVars(h.b)
  BY DEF FactVars
<1>4. (LitTrue(h.a, r) <=> LitTrue(h.a, s)) /\ (LitTrue(h.b, r) <=> LitTrue(h.b, s))
  BY <1>1, <1>2, <1>3
<1> QED BY <1>4 DEF FactTrue, CondTrue

(* A condition is made of two literals. *)
LEMMA CondParts ==
  ASSUME NEW c \in Conds
  PROVE  /\ c.a \in Literal /\ c.b \in Literal /\ c.neg = FALSE /\ c \in Fact
         /\ Not(c) \in Fact /\ Not(c).neg = TRUE
         /\ Not(c).form = c.form /\ Not(c).a = c.a /\ Not(c).b = c.b
BY DEF Conds, Fact, Not

(* A literal on its own is a condition that says the same. *)
LEMMA SingleLiteral ==
  ASSUME NEW a \in Literal, NEW s
  PROVE  /\ Cond("one", a, a) \in Conds
         /\ CondTrue(Cond("one", a, a), s) <=> LitTrue(a, s)
BY DEF Conds, Cond, CondTrue

(* PEBinary::to_wellformed keeps only what a true condition implies. *)
LEMMA KnownIfTrueSound ==
  ASSUME NEW c \in Conds, NEW s, CondTrue(c, s)
  PROVE  AllTrue(KnownIfTrue(c), s)
<1>1. FactTrue(c, s)
  BY CondParts DEF FactTrue
<1>2. ASSUME NEW a \in Literal, LitTrue(a, s)
      PROVE  FactTrue(Cond("one", a, a), s)
  BY <1>2, SingleLiteral DEF FactTrue, Cond
<1>3. c.form = "and" => LitTrue(c.a, s) /\ LitTrue(c.b, s)
  BY DEF CondTrue
<1> QED BY <1>1, <1>2, <1>3, CondParts DEF AllTrue, KnownIfTrue

(* PEBinary::neg_to_wellformed keeps only what a false condition implies. *)
LEMMA KnownIfFalseSound ==
  ASSUME NEW c \in Conds, NEW s, ~CondTrue(c, s)
  PROVE  AllTrue(KnownIfFalse(c), s)
<1>1. FactTrue(Not(c), s)
  BY CondParts DEF FactTrue, CondTrue
<1>2. ASSUME NEW a \in Literal, ~LitTrue(a, s)
      PROVE  FactTrue(Not(Cond("one", a, a)), s)
  <2> DEFINE one == Cond("one", a, a)
  <2>1. one \in Conds /\ ~CondTrue(one, s)
    BY <1>2, SingleLiteral
  <2> HIDE DEF one
  <2> QED BY <2>1, CondParts DEF FactTrue, CondTrue, one
<1>3. c.form = "or" => ~LitTrue(c.a, s) /\ ~LitTrue(c.b, s)
  BY DEF CondTrue
<1> QED BY <1>1, <1>2, <1>3, CondParts DEF AllTrue, KnownIfFalse

(* What a condition tells is a set of facts. *)
LEMMA KnownTyped ==
  ASSUME NEW c \in Conds
  PROVE  KnownIfTrue(c) \subseteq Fact /\ KnownIfFalse(c) \subseteq Fact
BY CondParts, SingleLiteral DEF KnownIfTrue, KnownIfFalse

(* PAssign::absintp: after an assignment all that is left, and what is     *)
(* added, is true.                                                         *)
LEMMA AfterAssignSound ==
  ASSUME NEW hs \in SUBSET Fact, NEW s \in State, NEW x \in Vars, NEW e \in Expr,
         AllTrue(hs, s), Understood(e) /\ x \in Dep => Val(e, s) < Size[x]
  PROVE  AllTrue(AfterAssign(hs, Whole(x), e), [s EXCEPT ![x] = Fit(x, Val(e, s))])
<1> DEFINE r == [s EXCEPT ![x] = Fit(x, Val(e, s))]
<1>1. ASSUME NEW h \in Invalidate(hs, x) PROVE FactTrue(h, r)
  BY FactUnaffected DEF Invalidate, AllTrue
<1>2. ASSUME Understood(e), x \in Dep PROVE FactTrue(Equal(Id(x), e), r)
  <2>1. Fit(x, Val(e, s)) = Val(e, s)
    BY <1>2, FitRange, ValNat
  <2>2. r[x] = Val(e, s)
    BY <2>1 DEF State
  <2>3. e \in Simple
    BY <1>2, UnderstoodIsSimple
  <2>4. CASE x \notin VarsOf(e)
    <3>1. Val(e, r) = Val(e, s)
      BY <2>3, <2>4, ValUnaffected
    <3>2. Val(Id(x), r) = r[x]
      BY DEF Val, Id
    <3> QED BY <3>1, <3>2, <2>2 DEF FactTrue, Equal, Cond, CondTrue, LitTrue
  <2>5. CASE x \in VarsOf(e)
    <3>1. e = Id(x)
      BY <2>3, <2>5 DEF Simple, VarsOf, Num, Id
    <3> QED BY <3>1 DEF FactTrue, Equal, Cond, CondTrue, LitTrue
  <2> QED BY <2>4, <2>5
<1> QED BY <1>1, <1>2 DEF AfterAssign, AllTrue, Whole

(* What is known after an assignment is a set of facts. *)
LEMMA AfterAssignTyped ==
  ASSUME NEW hs \in SUBSET Fact, NEW x \in Vars, NEW e \in Expr
  PROVE  AfterAssign(hs, Whole(x), e) \subseteq Fact
<1>1. ASSUME Understood(e), x \in Dep PROVE Equal(Id(x), e) \in Fact
  <2>1. e \in Simple /\ Id(x) \in Simple
    BY <1>1, UnderstoodIsSimple DEF Simple
  <2> QED BY <2>1 DEF Equal, Cond, Fact, Literal
<1> QED BY <1>1 DEF AfterAssign, Invalidate, Whole

-----------------------------------------------------------------------------
(* The types of what the checker keeps, for any program: part selects,     *)
(* wide values and case statements of all kinds included.                  *)

(* The labels of a condition are atoms. *)
LEMMA LabelsTyped ==
  ASSUME NEW c \in Conds PROVE CondLabel(c) \subseteq Atoms
<1>1. ASSUME NEW a \in Literal PROVE LitVars(a) \subseteq Vars
  <2>1. ASSUME NEW e \in Simple PROVE VarsOf(e) \subseteq Vars
    BY DEF Simple, VarsOf, Num, Id
  <2> QED BY <2>1 DEF LitVars, Literal
<1>2. FactVars(c) \subseteq Vars
  BY <1>1, CondParts DEF FactVars
<1> QED BY <1>2, GammaAssumption DEF CondLabel

LEMMA ExprLabelsTyped ==
  ASSUME NEW e \in Expr PROVE LabelOf(e) \subseteq Atoms
<1>1. VarsOf(e) \subseteq Vars
  BY ExprForms DEF VarsOf, Num, Id, Inc
<1> QED BY <1>1, GammaAssumption DEF LabelOf

(* The stack after an activation is put on it. *)
LEMMA Pushed ==
  ASSUME NEW S, NEW fs \in Seq(S), NEW f \in S
  PROVE  /\ Append(fs, f) \in Seq(S) /\ Append(fs, f) # <<>>
         /\ Len(Append(fs, f)) = Len(fs) + 1 /\ Len(fs) \in Nat
         /\ Append(fs, f)[Len(fs) + 1] = f
         /\ \A i \in 1 .. Len(fs) : Append(fs, f)[i] = fs[i] /\ fs[i] \in S
OBVIOUS

(* The stack after the innermost activation returned. *)
LEMMA Popped ==
  ASSUME NEW S, NEW fs \in Seq(S), fs # <<>>
  PROVE  /\ SubSeq(fs, 1, Len(fs) - 1) \in Seq(S)
         /\ Len(SubSeq(fs, 1, Len(fs) - 1)) = Len(fs) - 1
         /\ Len(fs) \in Nat /\ Len(fs) > 0 /\ fs[Len(fs)] \in S
         /\ \A i \in 1 .. Len(fs) - 1 : SubSeq(fs, 1, Len(fs) - 1)[i] = fs[i]
<1>1. Len(fs) \in Nat /\ Len(fs) > 0 /\ fs[Len(fs)] \in S
  OBVIOUS
<1>2. \A i \in 1 .. Len(fs) - 1 : fs[i] \in S
  OBVIOUS
<1>3. /\ SubSeq(fs, 1, Len(fs) - 1) \in Seq(S)
      /\ Len(SubSeq(fs, 1, Len(fs) - 1)) = Len(fs) - 1
      /\ \A i \in 1 .. Len(fs) - 1 : SubSeq(fs, 1, Len(fs) - 1)[i] = fs[i]
  <2> PICK m \in Nat : m = Len(fs) - 1
    BY <1>1
  <2>1. m \in Int /\ m - 1 + 1 = m /\ (1 <= m \/ m = 0)
    OBVIOUS
  <2>2. \A i \in 1 .. m : fs[i] \in S
    BY <1>2
  <2>3. /\ SubSeq(fs, 1, m) \in Seq(S)
        /\ Len(SubSeq(fs, 1, m)) = IF 1 <= m THEN m - 1 + 1 ELSE 0
        /\ \A i \in 1 .. m - 1 + 1 : SubSeq(fs, 1, m)[i] = fs[1 + i - 1]
    BY <2>1, <2>2, SubSeqProperties
  <2>4. \A i \in 1 .. m : 1 + i - 1 = i
    BY <2>1
  <2>5. Len(SubSeq(fs, 1, m)) = m /\ \A i \in 1 .. m : SubSeq(fs, 1, m)[i] = fs[i]
    BY <2>1, <2>3, <2>4
  <2> QED BY <2>3, <2>5
<1> QED BY <1>1, <1>3

(* The stack after the innermost activation changed. *)
LEMMA Replaced ==
  ASSUME NEW S, NEW fs \in Seq(S), fs # <<>>, NEW f \in S
  PROVE  /\ [fs EXCEPT ![Len(fs)] = f] \in Seq(S)
         /\ [fs EXCEPT ![Len(fs)] = f] # <<>>
         /\ Len([fs EXCEPT ![Len(fs)] = f]) = Len(fs)
         /\ Len(fs) \in Nat /\ Len(fs) > 0 /\ fs[Len(fs)] \in S
         /\ [fs EXCEPT ![Len(fs)] = f][Len(fs)] = f
         /\ \A i \in 1 .. Len(fs) - 1 : [fs EXCEPT ![Len(fs)] = f][i] = fs[i]
OBVIOUS

(* What is written is in the range of the variable, and a part select      *)
(* takes nothing into the facts.                                           *)
LEMMA TargetForms ==
  ASSUME NEW t \in Targets
  PROVE  t.var \in Vars /\ (t.name \in Dep => t = Whole(t.name) /\ t.name \in Vars)
BY StatementsAssumption, VarsAssumption DEF Whole

LEMMA ExecuteTyped ==
  ASSUME Typed, NEW t \in Targets, NEW n \in Nat, Execute(t, n)
  PROVE  sigma' \in State
<1>1. t.var \in Vars /\ sigma \in State
  BY TargetForms DEF Typed, TypeOK
<1>2. Fit(t.var, n) \in 0 .. Size[t.var] - 1
  BY <1>1, FitRange
<1>3. CASE active
  <2>1. PICK v \in 0 .. Size[t.var] - 1 : sigma' = [sigma EXCEPT ![t.var] = v]
    BY <1>2, <1>3 DEF Execute
  <2> QED BY <1>1, <2>1, StateUpdate
<1>4. CASE ~active
  BY <1>1, <1>4 DEF Execute
<1> QED BY <1>3, <1>4

(* The types after a statement that is not compound. *)
LEMMA SimpleTyped ==
  ASSUME Typed, Walk, NEW t \in Targets, Record(t), UNCHANGED <<frames, active, pc, alive>>,
         pred' \subseteq Fact, sigma' \in State
  PROVE  Typed'
<1>1. t.var \in Vars
  BY TargetForms
<1>2. must' \subseteq Dep /\ written' \subseteq Vars /\ unchecked' \subseteq Vars
  BY <1>1 DEF Typed, TypeOK, Record
<1>3. steps' \in Nat
  BY DEF Typed, TypeOK, Walk
<1> QED BY <1>2, <1>3 DEF Typed, TypeOK

LEMMA AssignTyped ==
  ASSUME Typed, Walk, NEW t \in Targets, NEW e \in Exprs, Assign(t, e)
  PROVE  Typed'
<1>1. e \in Expr /\ sigma \in State /\ pred \in SUBSET Fact
  BY StatementsAssumption DEF Typed, TypeOK
<1>2. sigma' \in State
  BY <1>1, ValNat, ExecuteTyped DEF Assign
<1>3. pred' \subseteq Fact
  <2>1. CASE t.name \in Dep
    BY <1>1, <2>1, TargetForms, AfterAssignTyped DEF Assign
  <2>2. CASE t.name \notin Dep
    BY <1>1, <2>2 DEF Assign, AfterAssign, Invalidate
  <2> QED BY <2>1, <2>2
<1> QED BY <1>2, <1>3, SimpleTyped DEF Assign

LEMMA AssignNBTyped ==
  ASSUME Typed, Walk, NEW t \in Targets, NEW e \in Exprs, AssignNB(t, e)
  PROVE  Typed'
<1>1. sigma' \in State /\ pred' \subseteq Fact
  BY DEF Typed, TypeOK, AssignNB
<1> QED BY <1>1, SimpleTyped DEF AssignNB

LEMMA AssignTernaryTyped ==
  ASSUME Typed, Walk, NEW t \in Targets, NEW q \in Selections, AssignTernary(t, q)
  PROVE  Typed'
<1> DEFINE n == Val(IF CondTrue(q.cond, sigma) THEN q.tru ELSE q.fal, sigma)
<1>1. q.tru \in Expr /\ q.fal \in Expr /\ sigma \in State /\ pred \in SUBSET Fact
  BY StatementsAssumption DEF Typed, TypeOK
<1>2. n \in Nat
  BY <1>1, ValNat
<1>3. Execute(t, n)
  BY DEF AssignTernary
<1> HIDE DEF n
<1>4. sigma' \in State
  BY <1>2, <1>3, ExecuteTyped
<1>5. pred' \subseteq Fact
  BY <1>1 DEF AssignTernary, Invalidate
<1> QED BY <1>4, <1>5, SimpleTyped DEF AssignTernary

(* What is put on the stack when a statement begins. *)
LEMMA FrameTyped ==
  ASSUME Typed, NEW c, NEW taken \in BOOLEAN, NEW mine \in SUBSET Dep
  PROVE  /\ c \in Conds => Frame("if", [cond |-> c, taken |-> taken, mine |-> mine]) \in Frames
         /\ c \in Expr =>
              [Frame("case", [cond |-> c, taken |-> taken, mine |-> mine]) EXCEPT !.at = "case"] \in Frames
BY DEF Typed, TypeOK, Frame, Frames, IfLike

LEMMA CondBeginTyped ==
  ASSUME Typed, Walk, NEW c \in Branches, NEW mine \in SUBSET Dep, CondBegin(c, mine)
  PROVE  Typed'
<1> DEFINE f == Frame("if", [cond |-> c, taken |-> CondTrue(c, sigma), mine |-> mine])
<1>1. c \in Conds /\ CondLabel(c) \subseteq Atoms /\ KnownIfTrue(c) \subseteq Fact
  BY StatementsAssumption, LabelsTyped, KnownTyped
<1>2. TypeOK /\ frames \in Seq(Frames)
  BY DEF Typed
<1>3. CondTrue(c, sigma) \in BOOLEAN /\ active \in BOOLEAN
  BY <1>2 DEF CondTrue, LitTrue, TypeOK
<1>4. f \in Frames
  BY <1>1, <1>3, FrameTyped
<1>5. frames' = Append(frames, f)
  BY DEF CondBegin
<1> HIDE DEF f
<1>6. frames' \in Seq(Frames)
  BY <1>2, <1>4, <1>5, Pushed
<1>7. pred' \subseteq Fact /\ pc' \subseteq Atoms
  BY <1>1, <1>2 DEF CondBegin, TypeOK
<1>8. alive' \subseteq Dep /\ must' \subseteq Dep
  BY <1>2 DEF CondBegin, TypeOK, MayKeep
<1>9. active' \in BOOLEAN /\ sigma' \in State /\ steps' \in Nat
  BY <1>2, <1>3 DEF CondBegin, TypeOK, Walk
<1> QED BY <1>6, <1>7, <1>8, <1>9 DEF Typed, TypeOK, CondBegin

LEMMA CondElseTyped ==
  ASSUME Typed, Walk, CondElse
  PROVE  Typed'
<1> DEFINE f == [Top EXCEPT !.at = "else", !.after = pred, !.ifmust = must]
<1>1. TypeOK /\ frames \in Seq(Frames) /\ frames # <<>> /\ Top.at = "if" /\ Top \in Frames
  BY Popped DEF Typed, CondElse, Top
<1>2. f \in Frames /\ Top.cond \in Conds /\ Top.before \subseteq Fact
  BY <1>1 DEF Frames, TypeOK, IfLike
<1>3. frames' = [frames EXCEPT ![Len(frames)] = f]
  BY DEF CondElse, Top
<1> HIDE DEF f
<1>4. frames' \in Seq(Frames)
  BY <1>1, <1>2, <1>3, Replaced
<1>5. pred' \subseteq Fact
  BY <1>2, KnownTyped DEF CondElse
<1>6. active' \in BOOLEAN
  BY <1>1 DEF CondElse, Frames
<1> QED BY <1>1, <1>4, <1>5, <1>6 DEF Typed, TypeOK, CondElse, Walk

(* The types when a compound statement ends. *)
LEMMA ReturnsTyped ==
  ASSUME Typed, Walk, frames # <<>>, Leave,
         pred' \subseteq Fact, alive' \subseteq Dep, must' \subseteq Dep
  PROVE  Typed'
<1>1. TypeOK /\ Top \in Frames /\ frames' \in Seq(Frames)
  BY Popped DEF Typed, Top, Leave
<1>2. pc' \subseteq Atoms /\ active' \in BOOLEAN
  BY <1>1 DEF Leave, Frames
<1>3. written' \subseteq Vars /\ unchecked' \subseteq Vars
  BY <1>1 DEF Leave, Frames, TypeOK
<1> QED BY <1>1, <1>2, <1>3 DEF Typed, TypeOK, Walk, Leave

LEMMA CondEndTyped ==
  ASSUME Typed, Walk, CondEnd
  PROVE  Typed'
<1>1. TypeOK /\ frames # <<>> /\ Leave /\ Top \in Frames
  BY Popped DEF Typed, CondEnd, Top
<1>2. pred' \subseteq Fact
  <2>1. /\ pred' \subseteq (IF Top.at = "else" THEN Top.after ELSE pred)
        /\ Top.after \subseteq Fact /\ pred \subseteq Fact
    BY <1>1 DEF CondEnd, Merges, Frames, TypeOK
  <2> QED BY <2>1
<1>3. alive' \subseteq Dep /\ must' \subseteq Dep
  BY <1>1 DEF CondEnd, TypeOK, Frames, BothModify
<1> QED BY <1>1, <1>2, <1>3, ReturnsTyped

LEMMA CaseBeginTyped ==
  ASSUME Typed, Walk, NEW p \in Cases, CaseBegin(p.expr)
  PROVE  Typed'
<1> DEFINE f == [Frame("case", [cond |-> p.expr, taken |-> FALSE, mine |-> {}]) EXCEPT !.at = "case"]
<1>1. p.expr \in Expr /\ TypeOK /\ frames \in Seq(Frames)
  BY StatementsAssumption DEF Typed
<1>2. f \in Frames
  <2>1. FALSE \in BOOLEAN /\ {} \in SUBSET Dep
    OBVIOUS
  <2> QED BY <1>1, <2>1, FrameTyped
<1>3. frames' = Append(frames, f)
  BY DEF CaseBegin
<1> HIDE DEF f
<1>4. frames' \in Seq(Frames)
  BY <1>1, <1>2, <1>3, Pushed
<1>5. pred' \subseteq Fact /\ pc' \subseteq Atoms /\ alive' \subseteq Dep /\ sigma' \in State
  BY <1>1 DEF TypeOK, CaseBegin
<1>6. must' \subseteq Dep /\ written' \subseteq Vars /\ unchecked' \subseteq Vars
  <2>1. must' = {} /\ written' = {} /\ unchecked' = {}
    BY DEF CaseBegin
  <2> QED BY <2>1, Zenon
<1>7. active' \in BOOLEAN
  <2>1. active' = FALSE
    BY DEF CaseBegin
  <2> QED BY <2>1, Zenon
<1>8. steps' \in Nat
  BY <1>1 DEF TypeOK, Walk
<1> QED BY <1>4, <1>5, <1>6, <1>7, <1>8 DEF Typed, TypeOK

(* The label of an item is compared with a variable: that is a fact. *)
LEMMA ItemFactsTyped ==
  ASSUME NEW e \in Expr, NEW ls \in SUBSET Numbers
  PROVE  {Equal(e, Num(n)) : n \in {m \in ls : e.kind = "id" /\ Understood(e)}} \subseteq Fact
<1> SUFFICES ASSUME NEW n \in ls, Understood(e) PROVE Equal(e, Num(n)) \in Fact
  OBVIOUS
<1>1. e \in Simple /\ Num(n) \in Simple
  BY UnderstoodIsSimple DEF Simple
<1> QED BY <1>1 DEF Equal, Cond, Fact, Literal

LEMMA CaseItemTyped ==
  ASSUME Typed, Walk, NEW p \in Cases, NEW ls \in p.items, CaseItem(p.expr, ls)
  PROVE  Typed'
<1> DEFINE hits == Top.outer /\ ~Top.taken /\ (ls = {} \/ Val(p.expr, sigma) \in ls)
           f == [Top EXCEPT !.at = IF ls = {} THEN "last" ELSE "case", !.taken = Top.taken \/ hits]
<1>1. p.expr \in Expr /\ ls \in SUBSET Numbers
  BY StatementsAssumption
<1>2. TypeOK /\ frames \in Seq(Frames) /\ frames # <<>> /\ Top.at = "case" /\ Top \in Frames
  BY Popped DEF Typed, CaseItem, Top
<1>3. hits \in BOOLEAN
  OBVIOUS
<1>4. /\ frames' = [frames EXCEPT ![Len(frames)] = f] /\ active' \in BOOLEAN
      /\ pc' = Top.oldpc \cup LabelOf(p.expr)
  BY <1>3 DEF CaseItem, CaseLabel
<1>5. f \in Frames
  <2> HIDE DEF hits
  <2> QED BY <1>2, <1>3 DEF Frames, IfLike
<1> HIDE DEF hits, f
<1>6. frames' \in Seq(Frames)
  BY <1>2, <1>4, <1>5, Replaced
<1>7. pred' \subseteq Fact
  <2>1. pred' = pred \cup {Equal(p.expr, Num(m)) : m \in {k \in ls : p.expr.kind = "id" /\ Understood(p.expr)}}
    BY DEF CaseItem, PredicateAssign
  <2>2. pred \subseteq Fact
    BY <1>2 DEF TypeOK
  <2> QED BY <1>1, <2>1, <2>2, ItemFactsTyped
<1>8. pc' \subseteq Atoms
  BY <1>1, <1>2, <1>4, ExprLabelsTyped DEF Frames
<1> QED BY <1>2, <1>4, <1>6, <1>7, <1>8 DEF Typed, TypeOK, CaseItem, Walk

LEMMA CaseEndTyped ==
  ASSUME Typed, Walk, CaseEnd
  PROVE  Typed'
<1>1. TypeOK /\ frames # <<>> /\ Leave /\ Top \in Frames /\ pred' = pred
  BY Popped DEF Typed, CaseEnd, PredicateAssign, Top
<1>2. pred' \subseteq Fact /\ alive' \subseteq Dep /\ must' \subseteq Dep
  BY <1>1 DEF CaseEnd, TypeOK, Frames
<1> QED BY <1>1, <1>2, ReturnsTyped

LEMMA StartTyped == Init => Typed
<1>1. frames = <<>> => frames \in Seq(Frames)
  OBVIOUS
<1> QED BY <1>1 DEF Init, Typed, TypeOK

LEMMA TypedSteps == Typed /\ [Next]_vars => Typed'
<1> SUFFICES ASSUME Typed, [Next]_vars PROVE Typed'
  OBVIOUS
<1>1. ASSUME Walk, NEW t \in Targets, NEW e \in Exprs, Assign(t, e) PROVE Typed'
  BY <1>1, AssignTyped
<1>2. ASSUME Walk, NEW t \in Targets, NEW e \in Exprs, AssignNB(t, e) PROVE Typed'
  BY <1>2, AssignNBTyped
<1>3. ASSUME Walk, NEW t \in Targets, NEW q \in Selections, AssignTernary(t, q) PROVE Typed'
  BY <1>3, AssignTernaryTyped
<1>4. ASSUME Walk, NEW c \in Branches, NEW mine \in SUBSET Assignable, CondBegin(c, mine)
      PROVE  Typed'
  <2>1. mine \in SUBSET Dep
    BY DEF Assignable
  <2> QED BY <1>4, <2>1, CondBeginTyped
<1>5. ASSUME Walk, CondElse PROVE Typed'
  BY <1>5, CondElseTyped
<1>6. ASSUME Walk, CondEnd PROVE Typed'
  BY <1>6, CondEndTyped
<1>7. ASSUME Walk, NEW p \in Cases, CaseBegin(p.expr) PROVE Typed'
  BY <1>7, CaseBeginTyped
<1>8. ASSUME Walk, NEW p \in Cases, NEW ls \in p.items, CaseItem(p.expr, ls) PROVE Typed'
  BY <1>8, CaseItemTyped
<1>9. ASSUME Walk, CaseEnd PROVE Typed'
  BY <1>9, CaseEndTyped
<1>10. ASSUME UNCHANGED vars PROVE Typed'
  BY <1>10 DEF Typed, TypeOK, vars
<1> QED BY <1>1, <1>2, <1>3, <1>4, <1>5, <1>6, <1>7, <1>8, <1>9, <1>10 DEF Next

(* The checker's data stay within their types, in every program. *)
THEOREM Types == Spec => []TypeOK
<1>1. Typed => TypeOK
  BY DEF Typed
<1> QED BY <1>1, StartTyped, TypedSteps, PTL DEF Spec

-----------------------------------------------------------------------------
(* The invariant, one part at a time: first what each kind of step does to *)
(* the activations.                                                        *)

(* An execution that gets here is where all branches around are chosen. *)
LEMMA FactsAreTrue == IInv => PredicateHolds
BY DEF IInv, Nested, FactsHold, PredicateHolds

(* The invariant does not depend on more than these variables. *)
LEMMA Stutter == IInv /\ UNCHANGED vars => IInv'
BY DEF IInv, Typed, TypeOK, Nested, NoneWithout, Others, OtherBranch, Tainted, PcIn,
       FactsHold, AllTrue, vars

LEMMA Start == Init => IInv
<1> SUFFICES ASSUME Init PROVE IInv
  OBVIOUS
<1>1. frames \in Seq(Frames) /\ Len(frames) = 0 /\ \A i \in 1 .. 0 : FALSE
  BY DEF Init
<1>2. Typed
  BY StartTyped
<1>3. UpTo(frames, Len(frames)) /\ OnlyIfs(frames, Len(frames))
  BY <1>1 DEF UpTo, OnlyIfs
<1>4. Nested /\ NoneWithout
  BY <1>1, <1>3 DEF Init, Nested, NoneWithout
<1>5. Others /\ Tainted
  BY <1>1 DEF Others, Tainted
<1>6. FactsHold
  BY DEF Init, FactsHold, AllTrue
<1> QED BY <1>2, <1>4, <1>5, <1>6 DEF IInv

(* A statement that is not compound leaves the activations alone; it is    *)
(* performed in the branch the execution is in, or not at all.             *)
LEMMA SimpleStatement ==
  ASSUME IInv, UNCHANGED <<frames, active, pc>>, active \/ UNCHANGED sigma
  PROVE  Nested' /\ NoneWithout' /\ Others' /\ Tainted'
<1> USE DEF IInv
<1>1. Nested' /\ NoneWithout' /\ Tainted'
  BY DEF Nested, NoneWithout, Tainted, PcIn
<1>2. Others'
  <2> SUFFICES ASSUME NEW i \in 1 .. Len(frames), UpTo(frames, i - 1) PROVE OtherBranch(frames[i])'
    BY DEF Others
  <2>1. CASE active
    <3>1. Chosen(frames[i])
      BY <2>1 DEF Nested, UpTo
    <3> QED BY <3>1 DEF Chosen, IfLike, OtherBranch
  <2>2. CASE UNCHANGED sigma
    BY <2>2 DEF Others, OtherBranch, AllTrue
  <2> QED BY <2>1, <2>2
<1> QED BY <1>1, <1>2

(* Where the branches around are chosen and the execution is not, there is *)
(* a case statement around.                                                *)
LEMMA InItem ==
  ASSUME IInv, UpTo(frames, Len(frames)), ~active
  PROVE  InCase /\ Cases # {}
<1>1. PICK j \in 1 .. Len(frames) : ~IfLike(frames[j])
  BY DEF IInv, Nested, OnlyIfs
<1>2. frames[j] \in Frames
  BY DEF IInv, Typed
<1>3. frames[j].at \in {"case", "last"}
  BY <1>1, <1>2 DEF Frames, IfLike
<1> QED BY <1>1, <1>3 DEF InCase, IInv, NoneWithout, OnlyIfs

LEMMA AssignStep ==
  ASSUME IInv, QuietCases, WholeOnly, ValuesFit, Walk, NEW t \in Targets, NEW e \in Exprs, Assign(t, e)
  PROVE  IInv'
<1> PICK x \in Vars : t = Whole(x)
  BY DEF WholeOnly
<1>1. t.name = x /\ t.var = x
  BY DEF Whole
<1>2. e \in Expr /\ sigma \in State /\ pred \in SUBSET Fact
  BY StatementsAssumption DEF IInv, Typed, TypeOK
<1>3. sigma' = IF active THEN [sigma EXCEPT ![x] = Fit(x, Val(e, sigma))] ELSE sigma
  BY <1>1 DEF Assign, Execute
<1>4. Typed'
  BY AssignTyped DEF IInv
<1>5. FactsHold'
  <2> SUFFICES ASSUME UpTo(frames, Len(frames)) PROVE AllTrue(pred', sigma')
    BY DEF Assign, FactsHold, AllTrue
  <2>1. AllTrue(pred, sigma)
    BY DEF IInv, FactsHold
  <2>2. CASE active
    <3>1. Understood(e) /\ x \in Dep => Val(e, sigma) < Size[x]
      BY <1>1, <1>2 DEF ValuesFit
    <3>2. AllTrue(AfterAssign(pred, t, e), [sigma EXCEPT ![x] = Fit(x, Val(e, sigma))])
      BY <1>2, <2>1, <3>1, AfterAssignSound
    <3> QED BY <1>3, <2>2, <3>2 DEF Assign
  <2>3. CASE ~active
    <3>1. ~(Understood(e) /\ t.name \in Dep)
      BY <2>3, InItem DEF Assign, QuietCases
    <3>2. pred' \subseteq pred /\ sigma' = sigma
      BY <1>3, <2>3, <3>1 DEF Assign, AfterAssign, Invalidate
    <3> QED BY <2>1, <3>2 DEF AllTrue
  <2> QED BY <2>2, <2>3
<1>6. Nested' /\ NoneWithout' /\ Others' /\ Tainted'
  BY <1>3, SimpleStatement DEF Assign
<1> QED BY <1>4, <1>5, <1>6 DEF IInv

LEMMA AssignNBStep ==
  ASSUME IInv, Walk, NEW t \in Targets, NEW e \in Exprs, AssignNB(t, e)
  PROVE  IInv'
<1>1. Typed'
  BY AssignNBTyped DEF IInv
<1>2. Nested' /\ NoneWithout' /\ Others' /\ Tainted'
  BY SimpleStatement DEF AssignNB
<1>3. FactsHold'
  BY DEF IInv, AssignNB, FactsHold, AllTrue
<1> QED BY <1>1, <1>2, <1>3 DEF IInv

LEMMA AssignTernaryStep ==
  ASSUME IInv, WholeOnly, Walk, NEW t \in Targets, NEW q \in Selections, AssignTernary(t, q)
  PROVE  IInv'
<1> PICK x \in Vars : t = Whole(x)
  BY DEF WholeOnly
<1> DEFINE n == Val(IF CondTrue(q.cond, sigma) THEN q.tru ELSE q.fal, sigma)
<1>1. t.name = x /\ t.var = x
  BY DEF Whole
<1>2. sigma \in State /\ pred \in SUBSET Fact
  BY DEF IInv, Typed, TypeOK
<1>3. sigma' = IF active THEN [sigma EXCEPT ![x] = Fit(x, n)] ELSE sigma
  BY <1>1 DEF AssignTernary, Execute
<1> HIDE DEF n
<1>4. Typed'
  BY AssignTernaryTyped DEF IInv
<1>5. FactsHold'
  <2> SUFFICES ASSUME UpTo(frames, Len(frames)), NEW h \in Invalidate(pred, x)
               PROVE  FactTrue(h, sigma')
    BY <1>1 DEF AssignTernary, FactsHold, AllTrue
  <2>1. h \in Fact /\ x \notin FactVars(h) /\ FactTrue(h, sigma)
    BY <1>2 DEF Invalidate, IInv, FactsHold, AllTrue
  <2> QED BY <1>2, <1>3, <2>1, FactUnaffected
<1>6. Nested' /\ NoneWithout' /\ Others' /\ Tainted'
  BY <1>3, SimpleStatement DEF AssignTernary
<1> QED BY <1>4, <1>5, <1>6 DEF IInv

-----------------------------------------------------------------------------
(* The compound statements. *)

(* The branches around an activation are those around it in any stack that *)
(* is the same below it.                                                   *)
LEMMA SameBelow ==
  ASSUME NEW fs, NEW gs, NEW m \in Nat, \A i \in 1 .. m : gs[i] = fs[i]
  PROVE  \A i \in 0 .. m : /\ UpTo(gs, i) <=> UpTo(fs, i)
                           /\ OnlyIfs(gs, i) <=> OnlyIfs(fs, i)
BY DEF UpTo, OnlyIfs

LEMMA OneMore ==
  ASSUME NEW fs, NEW m \in Nat
  PROVE  /\ UpTo(fs, m + 1) <=> UpTo(fs, m) /\ Chosen(fs[m + 1])
         /\ OnlyIfs(fs, m + 1) <=> OnlyIfs(fs, m) /\ IfLike(fs[m + 1])
<1>1. \A j \in 1 .. m + 1 : j \in 1 .. m \/ j = m + 1
  OBVIOUS
<1>2. m + 1 \in 1 .. m + 1 /\ \A j \in 1 .. m : j \in 1 .. m + 1
  OBVIOUS
<1> QED BY <1>1, <1>2 DEF UpTo, OnlyIfs

(* A statement begins. *)
LEMMA Begins ==
  ASSUME IInv, NEW f \in Frames, NEW n, n = Len(frames),
         frames' = Append(frames, f), f.outer = active, f.oldpc = pc, UNCHANGED sigma,
         active' => active /\ Chosen(f) /\ pc \cup Guard(f) \subseteq pc',
         IfLike(f) => (active /\ Chosen(f) => active') /\ pc \cup Guard(f) \subseteq pc',
         UpTo(frames, n) => OtherBranch(f),
         IfLike(f) \/ Cases # {}
  PROVE  /\ Nested' /\ NoneWithout' /\ Others' /\ Tainted'
         /\ frames' \in Seq(Frames)
         /\ UpTo(frames', Len(frames')) <=> UpTo(frames, n) /\ Chosen(f)
<1>1. /\ frames' \in Seq(Frames) /\ Len(frames') = n + 1 /\ n \in Nat
      /\ frames'[n + 1] = f /\ \A i \in 1 .. n : frames'[i] = frames[i]
  <2>1. frames \in Seq(Frames)
    BY DEF IInv, Typed
  <2> QED BY <2>1, Pushed
<1>2. /\ UpTo(frames', n + 1) <=> UpTo(frames, n) /\ Chosen(f)
      /\ OnlyIfs(frames', n + 1) <=> OnlyIfs(frames, n) /\ IfLike(f)
  <2>1. /\ UpTo(frames', n + 1) <=> UpTo(frames', n) /\ Chosen(f)
        /\ OnlyIfs(frames', n + 1) <=> OnlyIfs(frames', n) /\ IfLike(f)
    <3>1. n \in Nat /\ frames'[n + 1] = f
      BY <1>1
    <3> QED BY <3>1, OneMore, Zenon
  <2>2. (UpTo(frames', n) <=> UpTo(frames, n)) /\ (OnlyIfs(frames', n) <=> OnlyIfs(frames, n))
    <3>1. n \in 0 .. n
      BY <1>1
    <3> QED BY <1>1, <3>1, SameBelow
  <2> QED BY <2>1, <2>2
<1>3. \A i \in 0 .. n : /\ UpTo(frames', i) <=> UpTo(frames, i)
                        /\ OnlyIfs(frames', i) <=> OnlyIfs(frames, i)
  BY <1>1, SameBelow
<1>4. \A i \in 1 .. n + 1 : i - 1 \in 0 .. n /\ (i = n + 1 \/ i \in 1 .. n) /\ (i = n + 1 => i - 1 = n)
  BY <1>1
<1>5. /\ active => UpTo(frames, n)
      /\ \A i \in 1 .. n : frames[i].outer => UpTo(frames, i - 1)
      /\ UpTo(frames, n) /\ OnlyIfs(frames, n) => active
      /\ \A i \in 1 .. n : UpTo(frames, i - 1) /\ OnlyIfs(frames, i - 1) => frames[i].outer
      /\ Cases = {} => OnlyIfs(frames, n)
      /\ \A i \in 1 .. n : UpTo(frames, i - 1) => OtherBranch(frames[i])
  BY DEF IInv, Nested, NoneWithout, Others
<1>6. Nested'
  <2>1. ASSUME NEW i \in 1 .. n + 1
        PROVE  /\ frames'[i].outer => UpTo(frames', i - 1)
               /\ UpTo(frames', i - 1) /\ OnlyIfs(frames', i - 1) => frames'[i].outer
    <3>1. CASE i = n + 1
      BY <1>1, <1>3, <1>4, <1>5, <3>1
    <3>2. CASE i \in 1 .. n
      BY <1>1, <1>3, <1>4, <1>5, <3>2
    <3> QED BY <1>4, <3>1, <3>2
  <2> QED BY <1>1, <1>2, <1>5, <2>1 DEF Nested
<1>7. NoneWithout'
  BY <1>1, <1>2, <1>5 DEF NoneWithout
<1>8. Others'
  <2> SUFFICES ASSUME NEW i \in 1 .. n + 1, UpTo(frames', i - 1) PROVE OtherBranch(frames[i])'
    BY <1>1 DEF Others
  <2>1. OtherBranch(frames'[i])
    <3>1. CASE i = n + 1
      BY <1>1, <1>3, <1>4, <3>1
    <3>2. CASE i \in 1 .. n
      BY <1>1, <1>3, <1>4, <1>5, <3>2
    <3> QED BY <1>4, <3>1, <3>2
  <2> QED BY <2>1 DEF OtherBranch, AllTrue
<1>9. Tainted'
  <2>1. /\ active => \A i \in 1 .. n : Guard(frames[i]) \subseteq pc
        /\ \A i, j \in 1 .. n : i < j /\ frames[j].outer => Guard(frames[i]) \subseteq frames[j].oldpc
        /\ \A i \in 1 .. n : IfLike(frames[i]) => frames[i].oldpc \cup Guard(frames[i]) \subseteq PcIn(i)
    BY DEF IInv, Tainted
  <2>2. ASSUME NEW i \in 1 .. n + 1, active' PROVE Guard(frames'[i]) \subseteq pc'
    BY <1>1, <1>4, <2>1, <2>2
  <2>3. ASSUME NEW i \in 1 .. n + 1, NEW j \in 1 .. n + 1, i < j, frames'[j].outer
        PROVE  Guard(frames'[i]) \subseteq frames'[j].oldpc
    <3>1. i \in 1 .. n /\ frames'[i] = frames[i]
      BY <1>1, <2>3
    <3>2. CASE j = n + 1
      BY <1>1, <2>1, <2>3, <3>1, <3>2
    <3>3. CASE j \in 1 .. n
      BY <1>1, <2>1, <2>3, <3>1, <3>3
    <3> QED BY <1>4, <3>2, <3>3
  <2>4. ASSUME NEW i \in 1 .. n + 1, IfLike(frames'[i])
        PROVE  frames'[i].oldpc \cup Guard(frames'[i]) \subseteq (IF i = n + 1 THEN pc' ELSE frames'[i + 1].oldpc)
    <3>1. CASE i = n + 1
      BY <1>1, <2>4, <3>1
    <3>2. CASE i = n
      BY <1>1, <2>1, <2>4, <3>2 DEF PcIn
    <3>3. CASE i \in 1 .. n - 1
      <4>1. i + 1 \in 1 .. n /\ i # n /\ i \in 1 .. n /\ i # n + 1
        BY <1>1, <3>3
      <4> QED BY <1>1, <2>1, <2>4, <4>1 DEF PcIn
    <3> QED BY <1>1, <1>4, <3>1, <3>2, <3>3
  <2> QED BY <1>1, <2>2, <2>3, <2>4 DEF Tainted, PcIn, Guard
<1> QED BY <1>1, <1>2, <1>6, <1>7, <1>8, <1>9

(* Another branch of it is checked. *)
LEMMA GoesOn ==
  ASSUME IInv, frames # <<>>, NEW f \in Frames, NEW n, n = Len(frames),
         frames' = [frames EXCEPT ![n] = f], f.outer = Top.outer, f.oldpc = Top.oldpc,
         UNCHANGED sigma,
         IfLike(f) <=> IfLike(Top), Guard(f) = Guard(Top),
         active' => Top.outer /\ Chosen(f),
         IfLike(f) /\ Top.outer /\ Chosen(f) => active',
         ~IfLike(f) => pc' = Top.oldpc \cup Guard(f),
         IfLike(f) => pc' = pc,
         UpTo(frames, n - 1) => OtherBranch(f)
  PROVE  /\ Nested' /\ NoneWithout' /\ Others' /\ Tainted'
         /\ frames' \in Seq(Frames)
         /\ UpTo(frames', Len(frames')) <=> UpTo(frames, n - 1) /\ Chosen(f)
<1>1. /\ frames' \in Seq(Frames) /\ Len(frames') = n /\ n \in Nat /\ n > 0 /\ Top = frames[n]
      /\ frames'[n] = f /\ \A i \in 1 .. n - 1 : frames'[i] = frames[i]
  <2>1. frames \in Seq(Frames)
    BY DEF IInv, Typed
  <2> QED BY <2>1, Replaced DEF Top
<1>2. n - 1 \in Nat /\ (n - 1) + 1 = n
  BY <1>1
<1>3. \A i \in 0 .. n - 1 : /\ UpTo(frames', i) <=> UpTo(frames, i)
                            /\ OnlyIfs(frames', i) <=> OnlyIfs(frames, i)
  BY <1>1, <1>2, SameBelow
<1>4. /\ UpTo(frames', n) <=> UpTo(frames, n - 1) /\ Chosen(f)
      /\ OnlyIfs(frames', n) <=> OnlyIfs(frames, n - 1) /\ IfLike(f)
      /\ OnlyIfs(frames, n) <=> OnlyIfs(frames, n - 1) /\ IfLike(Top)
  <2>1. n - 1 \in 0 .. n - 1
    BY <1>2
  <2>2. /\ UpTo(frames', (n - 1) + 1) <=> UpTo(frames', n - 1) /\ Chosen(frames'[(n - 1) + 1])
        /\ OnlyIfs(frames', (n - 1) + 1) <=> OnlyIfs(frames', n - 1) /\ IfLike(frames'[(n - 1) + 1])
        /\ OnlyIfs(frames, (n - 1) + 1) <=> OnlyIfs(frames, n - 1) /\ IfLike(frames[(n - 1) + 1])
    BY <1>2, OneMore
  <2> QED BY <1>1, <1>2, <1>3, <2>1, <2>2
<1>5. \A i \in 1 .. n : i - 1 \in 0 .. n - 1 /\ (i = n \/ i \in 1 .. n - 1)
  BY <1>1
<1>6. /\ \A i \in 1 .. n : frames[i].outer => UpTo(frames, i - 1)
      /\ \A i \in 1 .. n : UpTo(frames, i - 1) /\ OnlyIfs(frames, i - 1) => frames[i].outer
      /\ Cases = {} => OnlyIfs(frames, n)
      /\ \A i \in 1 .. n : UpTo(frames, i - 1) => OtherBranch(frames[i])
      /\ n \in 1 .. n
  BY <1>1 DEF IInv, Nested, NoneWithout, Others
<1>7. Nested'
  <2>1. ASSUME NEW i \in 1 .. n
        PROVE  /\ frames'[i].outer => UpTo(frames', i - 1)
               /\ UpTo(frames', i - 1) /\ OnlyIfs(frames', i - 1) => frames'[i].outer
    <3>1. frames'[i].outer = frames[i].outer
      BY <1>1, <1>5
    <3> QED BY <1>3, <1>5, <1>6, <3>1
  <2>2. active' => UpTo(frames', n)
    BY <1>1, <1>4, <1>6
  <2>3. UpTo(frames', n) /\ OnlyIfs(frames', n) => active'
    BY <1>1, <1>4, <1>6
  <2> QED BY <1>1, <2>1, <2>2, <2>3 DEF Nested
<1>8. NoneWithout'
  BY <1>1, <1>4, <1>6 DEF NoneWithout
<1>9. Others'
  <2> SUFFICES ASSUME NEW i \in 1 .. n, UpTo(frames', i - 1) PROVE OtherBranch(frames[i])'
    BY <1>1 DEF Others
  <2>1. OtherBranch(frames'[i])
    BY <1>1, <1>3, <1>5, <1>6
  <2> QED BY <2>1 DEF OtherBranch, AllTrue
<1>10. Tainted'
  <2>1. /\ \A i, j \in 1 .. n : i < j /\ frames[j].outer => Guard(frames[i]) \subseteq frames[j].oldpc
        /\ \A i \in 1 .. n : IfLike(frames[i]) => frames[i].oldpc \cup Guard(frames[i]) \subseteq PcIn(i)
    BY DEF IInv, Tainted
  <2>2. \A i \in 1 .. n : /\ frames'[i].outer = frames[i].outer /\ frames'[i].oldpc = frames[i].oldpc
                          /\ Guard(frames'[i]) = Guard(frames[i])
                          /\ IfLike(frames'[i]) <=> IfLike(frames[i])
    BY <1>1, <1>5
  <2>3. Top.oldpc \cup Guard(Top) \subseteq pc'
    <3>1. CASE IfLike(Top)
      BY <1>1, <1>6, <2>1, <3>1 DEF PcIn
    <3>2. CASE ~IfLike(Top)
      BY <3>2
    <3> QED BY <3>1, <3>2
  <2>4. ASSUME NEW i \in 1 .. n, active' PROVE Guard(frames'[i]) \subseteq pc'
    <3>1. CASE i = n
      BY <1>1, <2>2, <2>3, <3>1
    <3>2. CASE i \in 1 .. n - 1
      <4>1. i < n /\ frames[n].outer
        BY <1>1, <2>4, <3>2
      <4> QED BY <1>1, <1>6, <2>1, <2>2, <2>3, <4>1
    <3> QED BY <1>5, <3>1, <3>2
  <2>5. ASSUME NEW i \in 1 .. n, IfLike(frames'[i])
        PROVE  frames'[i].oldpc \cup Guard(frames'[i]) \subseteq (IF i = n THEN pc' ELSE frames'[i + 1].oldpc)
    <3>1. CASE i = n
      BY <1>1, <2>2, <2>3, <3>1
    <3>2. CASE i \in 1 .. n - 1
      <4>1. i + 1 \in 1 .. n /\ i # n
        BY <1>1, <3>2
      <4> QED BY <2>1, <2>2, <2>5, <4>1 DEF PcIn
    <3> QED BY <1>5, <3>1, <3>2
  <2>6. \A i, j \in 1 .. n : i < j /\ frames'[j].outer => Guard(frames'[i]) \subseteq frames'[j].oldpc
    BY <2>1, <2>2
  <2> QED BY <1>1, <2>4, <2>5, <2>6 DEF Tainted, PcIn, Guard
<1> QED BY <1>1, <1>4, <1>7, <1>8, <1>9, <1>10

(* It ends. *)
LEMMA Returns ==
  ASSUME IInv, frames # <<>>, Leave, NEW n, n = Len(frames)
  PROVE  /\ Nested' /\ NoneWithout' /\ Others' /\ Tainted'
         /\ frames' \in Seq(Frames)
         /\ n \in Nat /\ n > 0 /\ Top = frames[n] /\ Top \in Frames
         /\ UpTo(frames', Len(frames')) <=> UpTo(frames, n - 1)
         /\ UpTo(frames, n) <=> UpTo(frames, n - 1) /\ Chosen(Top)
<1>1. /\ frames' \in Seq(Frames) /\ Len(frames') = n - 1 /\ n \in Nat /\ n > 0
      /\ Top = frames[n] /\ Top \in Frames
      /\ \A i \in 1 .. n - 1 : frames'[i] = frames[i]
  <2>1. frames \in Seq(Frames)
    BY DEF IInv, Typed
  <2> QED BY <2>1, Popped DEF Leave, Top
<1>2. pc' = Top.oldpc /\ active' = Top.outer /\ UNCHANGED sigma
  BY DEF Leave
<1>3. n - 1 \in Nat /\ (n - 1) + 1 = n /\ n \in 1 .. n
  BY <1>1
<1>4. \A i \in 0 .. n - 1 : /\ UpTo(frames', i) <=> UpTo(frames, i)
                            /\ OnlyIfs(frames', i) <=> OnlyIfs(frames, i)
  BY <1>1, <1>3, SameBelow
<1>5. /\ UpTo(frames, n) <=> UpTo(frames, n - 1) /\ Chosen(Top)
      /\ OnlyIfs(frames, n) <=> OnlyIfs(frames, n - 1) /\ IfLike(Top)
  <2>1. /\ UpTo(frames, (n - 1) + 1) <=> UpTo(frames, n - 1) /\ Chosen(frames[(n - 1) + 1])
        /\ OnlyIfs(frames, (n - 1) + 1) <=> OnlyIfs(frames, n - 1) /\ IfLike(frames[(n - 1) + 1])
    BY <1>3, OneMore
  <2> QED BY <1>1, <1>3, <2>1
<1>6. \A i \in 1 .. n - 1 : i - 1 \in 0 .. n - 1 /\ i \in 1 .. n /\ i < n
  BY <1>1
<1>7. /\ \A i \in 1 .. n : frames[i].outer => UpTo(frames, i - 1)
      /\ \A i \in 1 .. n : UpTo(frames, i - 1) /\ OnlyIfs(frames, i - 1) => frames[i].outer
      /\ Cases = {} => OnlyIfs(frames, n)
      /\ \A i \in 1 .. n : UpTo(frames, i - 1) => OtherBranch(frames[i])
  BY DEF IInv, Nested, NoneWithout, Others
<1>8. n - 1 \in 0 .. n - 1
  BY <1>3
<1>9. Nested'
  <2>1. ASSUME NEW i \in 1 .. n - 1
        PROVE  /\ frames'[i].outer => UpTo(frames', i - 1)
               /\ UpTo(frames', i - 1) /\ OnlyIfs(frames', i - 1) => frames'[i].outer
    BY <1>1, <1>4, <1>6, <1>7
  <2>2. active' <=> Top.outer
    BY <1>2
  <2>3. /\ active' => UpTo(frames', n - 1)
        /\ UpTo(frames', n - 1) /\ OnlyIfs(frames', n - 1) => active'
    BY <1>1, <1>3, <1>4, <1>7, <1>8, <2>2
  <2> QED BY <1>1, <2>1, <2>3 DEF Nested
<1>10. NoneWithout'
  BY <1>1, <1>4, <1>5, <1>7, <1>8 DEF NoneWithout
<1>11. Others'
  <2> SUFFICES ASSUME NEW i \in 1 .. n - 1, UpTo(frames', i - 1) PROVE OtherBranch(frames[i])'
    BY <1>1 DEF Others
  <2>1. OtherBranch(frames'[i])
    BY <1>1, <1>4, <1>6, <1>7
  <2> QED BY <1>2, <2>1 DEF OtherBranch, AllTrue
<1>12. Tainted'
  <2>1. /\ \A i, j \in 1 .. n : i < j /\ frames[j].outer => Guard(frames[i]) \subseteq frames[j].oldpc
        /\ \A i \in 1 .. n : IfLike(frames[i]) => frames[i].oldpc \cup Guard(frames[i]) \subseteq PcIn(i)
    BY DEF IInv, Tainted
  <2>2. \A i \in 1 .. n - 1 : PcIn(i) = IF i = n - 1 THEN pc' ELSE frames'[i + 1].oldpc
    <3> SUFFICES ASSUME NEW i \in 1 .. n - 1
                 PROVE  frames[i + 1].oldpc = IF i = n - 1 THEN pc' ELSE frames'[i + 1].oldpc
      BY <1>6 DEF PcIn
    <3>1. CASE i = n - 1
      BY <1>1, <1>2, <1>3, <3>1
    <3>2. CASE i # n - 1
      <4>1. i + 1 \in 1 .. n - 1
        BY <1>1, <3>2
      <4> QED BY <1>1, <3>2, <4>1
    <3> QED BY <3>1, <3>2
  <2>3. \A i \in 1 .. n - 1 : active' => Guard(frames'[i]) \subseteq pc'
    BY <1>1, <1>2, <1>3, <1>6, <2>1
  <2>4. \A i, j \in 1 .. n - 1 : i < j /\ frames'[j].outer => Guard(frames'[i]) \subseteq frames'[j].oldpc
    BY <1>1, <1>6, <2>1
  <2>5. \A i \in 1 .. n - 1 : IfLike(frames'[i]) =>
          frames'[i].oldpc \cup Guard(frames'[i]) \subseteq (IF i = n - 1 THEN pc' ELSE frames'[i + 1].oldpc)
    BY <1>1, <1>6, <2>1, <2>2
  <2> QED BY <1>1, <2>3, <2>4, <2>5 DEF Tainted, PcIn, Guard
<1> QED BY <1>1, <1>4, <1>5, <1>8, <1>9, <1>10, <1>11, <1>12

LEMMA CondBeginStep ==
  ASSUME IInv, Walk, NEW c \in Branches, NEW mine \in SUBSET Dep, CondBegin(c, mine)
  PROVE  IInv'
<1> DEFINE f == Frame("if", [cond |-> c, taken |-> CondTrue(c, sigma), mine |-> mine])
           n == Len(frames)
<1>1. c \in Conds /\ CondLabel(c) \subseteq Atoms /\ KnownIfTrue(c) \subseteq Fact
  BY StatementsAssumption, LabelsTyped, KnownTyped
<1>2. TypeOK
  BY DEF IInv, Typed
<1>3. CondTrue(c, sigma) \in BOOLEAN /\ active \in BOOLEAN
  BY <1>2 DEF CondTrue, LitTrue, TypeOK
<1>4. /\ f.at = "if" /\ f.cond = c /\ f.taken = CondTrue(c, sigma) /\ f.outer = active
      /\ f.before = pred /\ f.oldpc = pc
  BY DEF Frame
<1>5. f \in Frames
  BY <1>1, <1>2, <1>3 DEF Frame, Frames, TypeOK, IfLike
<1>6. frames' = Append(frames, f) /\ UNCHANGED sigma
  BY DEF CondBegin
<1> HIDE DEF f
<1>7. IfLike(f) /\ Guard(f) = CondLabel(c) /\ (Chosen(f) <=> CondTrue(c, sigma))
  BY <1>3, <1>4 DEF IfLike, Guard, Chosen
<1>8. (active' <=> active /\ Chosen(f)) /\ pc' = pc \cup Guard(f)
  BY <1>3, <1>7 DEF CondBegin
<1>9. UpTo(frames, n) => OtherBranch(f)
  BY <1>4 DEF IInv, FactsHold, OtherBranch
<1>10. /\ Nested' /\ NoneWithout' /\ Others' /\ Tainted' /\ frames' \in Seq(Frames)
       /\ UpTo(frames', Len(frames')) <=> UpTo(frames, n) /\ Chosen(f)
  <2> HIDE DEF n
  <2>1. n = Len(frames)
    BY DEF n
  <2> QED BY <1>4, <1>5, <1>6, <1>7, <1>8, <1>9, <2>1, Begins
<1>11. Typed'
  BY CondBeginTyped DEF IInv
<1>12. FactsHold'
  <2> SUFFICES ASSUME UpTo(frames, n), CondTrue(c, sigma) PROVE AllTrue(pred', sigma)
    BY <1>6, <1>7, <1>10 DEF FactsHold, AllTrue
  <2>1. AllTrue(pred, sigma) /\ AllTrue(KnownIfTrue(c), sigma)
    BY <1>1, KnownIfTrueSound DEF IInv, FactsHold
  <2> QED BY <2>1 DEF CondBegin, AllTrue
<1> QED BY <1>10, <1>11, <1>12 DEF IInv

LEMMA CondElseStep ==
  ASSUME IInv, Walk, CondElse
  PROVE  IInv'
<1> DEFINE n == Len(frames)
           f == [Top EXCEPT !.at = "else", !.after = pred, !.ifmust = must]
<1>1. TypeOK /\ frames \in Seq(Frames) /\ frames # <<>> /\ Top.at = "if" /\ Top = frames[n]
  BY DEF IInv, Typed, CondElse, Top
<1>2. Top \in Frames /\ Top.cond \in Conds /\ n \in Nat /\ n > 0
  <2>1. Top \in Frames /\ n \in Nat /\ n > 0
    BY <1>1, Popped
  <2> QED BY <1>1, <2>1 DEF Frames, IfLike
<1>3. /\ f \in Frames /\ f.at = "else" /\ f.after = pred /\ f.cond = Top.cond
      /\ f.outer = Top.outer /\ f.taken = Top.taken /\ f.oldpc = Top.oldpc
  BY <1>1, <1>2 DEF Frames, TypeOK, IfLike
<1>4. frames' = [frames EXCEPT ![n] = f]
  BY <1>1 DEF CondElse
<1> HIDE DEF f
<1>5. Top.outer \in BOOLEAN /\ Top.taken \in BOOLEAN /\ UNCHANGED <<pc, sigma>>
  BY <1>2 DEF Frames, CondElse
<1>6. /\ IfLike(f) /\ IfLike(Top) /\ Guard(f) = Guard(Top)
      /\ Chosen(f) <=> ~Top.taken
      /\ Chosen(Top) <=> Top.taken
  BY <1>1, <1>3, <1>5 DEF IfLike, Guard, Chosen
<1>7. active' <=> Top.outer /\ Chosen(f)
  BY <1>5, <1>6 DEF CondElse
<1>8. (n - 1) + 1 = n /\ n - 1 \in Nat
  BY <1>2
<1>9. UpTo(frames, n) <=> UpTo(frames, n - 1) /\ Top.taken
  <2>1. UpTo(frames, (n - 1) + 1) <=> UpTo(frames, n - 1) /\ Chosen(frames[(n - 1) + 1])
    BY <1>8, OneMore
  <2> QED BY <1>1, <1>6, <1>8, <2>1
<1>10. UpTo(frames, n - 1) => OtherBranch(f)
  BY <1>3, <1>9 DEF IInv, FactsHold, OtherBranch
<1>11. UpTo(frames, n - 1) => OtherBranch(Top)
  BY <1>1, <1>2 DEF IInv, Others
<1>12. /\ Nested' /\ NoneWithout' /\ Others' /\ Tainted' /\ frames' \in Seq(Frames)
       /\ UpTo(frames', Len(frames')) <=> UpTo(frames, n - 1) /\ Chosen(f)
  <2> HIDE DEF n
  <2>1. n = Len(frames)
    BY DEF n
  <2> QED BY <1>1, <1>3, <1>4, <1>5, <1>6, <1>7, <1>10, <2>1, GoesOn
<1>13. Typed'
  BY CondElseTyped DEF IInv
<1>14. FactsHold'
  <2> SUFFICES ASSUME UpTo(frames, n - 1), ~Top.taken PROVE AllTrue(pred', sigma)
    BY <1>5, <1>6, <1>12 DEF FactsHold, AllTrue
  <2>1. AllTrue(Top.before, sigma) /\ ~CondTrue(Top.cond, sigma)
    BY <1>1, <1>11 DEF OtherBranch
  <2>2. AllTrue(KnownIfFalse(Top.cond), sigma)
    BY <1>2, <2>1, KnownIfFalseSound
  <2> QED BY <2>1, <2>2 DEF CondElse, AllTrue
<1> QED BY <1>12, <1>13, <1>14 DEF IInv

LEMMA CondEndStep ==
  ASSUME IInv, Walk, CondEnd
  PROVE  IInv'
<1> DEFINE n == Len(frames)
<1>1. TypeOK /\ frames # <<>> /\ Top.at \in {"if", "else"} /\ Leave
  BY DEF IInv, Typed, CondEnd
<1>2. /\ Nested' /\ NoneWithout' /\ Others' /\ Tainted' /\ frames' \in Seq(Frames)
      /\ n \in Nat /\ n > 0 /\ Top = frames[n] /\ Top \in Frames
      /\ UpTo(frames', Len(frames')) <=> UpTo(frames, n - 1)
      /\ UpTo(frames, n) <=> UpTo(frames, n - 1) /\ Chosen(Top)
  <2> HIDE DEF n
  <2>1. n = Len(frames)
    BY DEF n
  <2> QED BY <1>1, <2>1, Returns
<1>3. /\ pred' \subseteq (IF Top.at = "else" THEN Top.after ELSE pred)
      /\ pred' \subseteq (IF Top.at = "else" THEN pred ELSE Top.before)
  BY DEF CondEnd, Merges
<1>4. Typed'
  BY CondEndTyped DEF IInv
<1>5. FactsHold'
  <2>1. Top.taken \in BOOLEAN /\ UNCHANGED sigma
    BY <1>1, <1>2 DEF Frames, Leave
  <2> SUFFICES ASSUME UpTo(frames, n - 1), NEW h \in pred' PROVE FactTrue(h, sigma)
    BY <1>2, <2>1 DEF FactsHold, AllTrue
  <2>2. OtherBranch(Top)
    BY <1>2 DEF IInv, Others
  <2>3. CASE Top.at = "if" <=> Top.taken
    <3>1. AllTrue(pred, sigma)
      BY <1>2, <2>3 DEF Chosen, IInv, FactsHold
    <3> QED BY <1>3, <3>1 DEF AllTrue
  <2>4. CASE Top.at = "if" /\ ~Top.taken
    BY <1>3, <2>2, <2>4 DEF OtherBranch, AllTrue
  <2>5. CASE Top.at = "else" /\ Top.taken
    BY <1>3, <2>2, <2>5 DEF OtherBranch, AllTrue
  <2> QED BY <1>1, <2>1, <2>3, <2>4, <2>5
<1> QED BY <1>2, <1>4, <1>5 DEF IInv

LEMMA CaseBeginStep ==
  ASSUME IInv, Walk, NEW p \in Cases, CaseBegin(p.expr)
  PROVE  IInv'
<1> DEFINE f == [Frame("case", [cond |-> p.expr, taken |-> FALSE, mine |-> {}]) EXCEPT !.at = "case"]
           n == Len(frames)
<1>1. p.expr \in Expr /\ TypeOK
  BY StatementsAssumption DEF IInv, Typed
<1>2. f.at = "case" /\ f.cond = p.expr /\ f.outer = active /\ f.oldpc = pc
  BY DEF Frame
<1>3. f \in Frames
  BY <1>1 DEF Frame, Frames, TypeOK, IfLike
<1>4. frames' = Append(frames, f) /\ UNCHANGED <<pred, sigma>> /\ ~active'
  BY DEF CaseBegin
<1> HIDE DEF f
<1>5. ~IfLike(f) /\ Chosen(f) /\ OtherBranch(f)
  BY <1>2 DEF IfLike, Chosen, OtherBranch
<1>6. /\ Nested' /\ NoneWithout' /\ Others' /\ Tainted' /\ frames' \in Seq(Frames)
      /\ UpTo(frames', Len(frames')) <=> UpTo(frames, n) /\ Chosen(f)
  <2> HIDE DEF n
  <2>1. n = Len(frames)
    BY DEF n
  <2> QED BY <1>2, <1>3, <1>4, <1>5, <2>1, Begins
<1>7. Typed'
  BY CaseBeginTyped DEF IInv
<1>8. FactsHold'
  BY <1>4, <1>6 DEF IInv, FactsHold, AllTrue
<1> QED BY <1>6, <1>7, <1>8 DEF IInv

LEMMA CaseItemStep ==
  ASSUME IInv, QuietCases, Walk, NEW p \in Cases, NEW ls \in p.items, CaseItem(p.expr, ls)
  PROVE  IInv'
<1> DEFINE n == Len(frames)
           hits == Top.outer /\ ~Top.taken /\ (ls = {} \/ Val(p.expr, sigma) \in ls)
           f == [Top EXCEPT !.at = IF ls = {} THEN "last" ELSE "case", !.taken = Top.taken \/ hits]
<1>1. /\ p.expr \in Expr /\ TypeOK /\ frames \in Seq(Frames) /\ frames # <<>>
      /\ Top.at = "case" /\ Top.cond = p.expr /\ Top = frames[n]
  BY StatementsAssumption DEF IInv, Typed, CaseItem, Top
<1>2. Top \in Frames /\ Top.outer \in BOOLEAN /\ n \in Nat /\ n > 0
  <2>1. Top \in Frames /\ n \in Nat /\ n > 0
    BY <1>1, Popped
  <2> QED BY <2>1 DEF Frames
<1>3. /\ frames' = [frames EXCEPT ![n] = f] /\ (active' <=> hits) /\ active' \in BOOLEAN
      /\ pc' = Top.oldpc \cup LabelOf(p.expr) /\ UNCHANGED sigma
  <2>1. hits \in BOOLEAN
    OBVIOUS
  <2> QED BY <2>1 DEF CaseItem, CaseLabel
<1>4. pred' = pred
  <2>1. {Equal(p.expr, Num(m)) : m \in {k \in ls : p.expr.kind = "id" /\ Understood(p.expr)}} = {}
    BY DEF QuietCases
  <2>2. pred' = pred \cup {Equal(p.expr, Num(m)) : m \in {k \in ls : p.expr.kind = "id" /\ Understood(p.expr)}}
    BY DEF CaseItem, PredicateAssign
  <2> QED BY <2>1, <2>2
<1>5. hits => Top.outer
  OBVIOUS
<1>6. hits \in BOOLEAN
  OBVIOUS
<1> HIDE DEF hits
<1>7. /\ f \in Frames /\ f.at \in {"case", "last"} /\ f.cond = Top.cond
      /\ f.outer = Top.outer /\ f.oldpc = Top.oldpc
  BY <1>1, <1>2, <1>6 DEF Frames, IfLike
<1> HIDE DEF f
<1>8. /\ ~IfLike(f) /\ ~IfLike(Top) /\ Chosen(f) /\ Chosen(Top) /\ OtherBranch(f)
      /\ Guard(f) = LabelOf(p.expr) /\ Guard(Top) = Guard(f)
  BY <1>1, <1>7 DEF IfLike, Chosen, OtherBranch, Guard
<1>9. /\ Nested' /\ NoneWithout' /\ Others' /\ Tainted' /\ frames' \in Seq(Frames)
      /\ UpTo(frames', Len(frames')) <=> UpTo(frames, n - 1) /\ Chosen(f)
  <2> HIDE DEF n
  <2>1. n = Len(frames)
    BY DEF n
  <2> QED BY <1>1, <1>3, <1>5, <1>7, <1>8, <2>1, GoesOn
<1>10. UpTo(frames, n) <=> UpTo(frames, n - 1)
  <2>1. UpTo(frames, (n - 1) + 1) <=> UpTo(frames, n - 1) /\ Chosen(frames[(n - 1) + 1])
    BY <1>2, OneMore
  <2>2. (n - 1) + 1 = n
    BY <1>2
  <2> QED BY <1>1, <1>8, <2>1, <2>2
<1>11. Typed'
  BY CaseItemTyped DEF IInv
<1>12. FactsHold'
  BY <1>3, <1>4, <1>9, <1>10 DEF IInv, FactsHold, AllTrue
<1> QED BY <1>9, <1>11, <1>12 DEF IInv

LEMMA CaseEndStep ==
  ASSUME IInv, Walk, CaseEnd
  PROVE  IInv'
<1> DEFINE n == Len(frames)
<1>1. TypeOK /\ frames # <<>> /\ Top.at \in {"case", "last"} /\ Leave /\ pred' = pred
  BY DEF IInv, Typed, CaseEnd, PredicateAssign
<1>2. /\ Nested' /\ NoneWithout' /\ Others' /\ Tainted' /\ frames' \in Seq(Frames)
      /\ n \in Nat /\ n > 0 /\ Top = frames[n] /\ Top \in Frames
      /\ UpTo(frames', Len(frames')) <=> UpTo(frames, n - 1)
      /\ UpTo(frames, n) <=> UpTo(frames, n - 1) /\ Chosen(Top)
  <2> HIDE DEF n
  <2>1. n = Len(frames)
    BY DEF n
  <2> QED BY <1>1, <2>1, Returns
<1>3. Typed'
  BY CaseEndTyped DEF IInv
<1>4. FactsHold'
  <2>1. Chosen(Top) /\ UNCHANGED sigma
    BY <1>1 DEF Chosen, IfLike, Leave
  <2> QED BY <1>1, <1>2, <2>1 DEF IInv, FactsHold, AllTrue
<1> QED BY <1>2, <1>3, <1>4 DEF IInv

-----------------------------------------------------------------------------
(* The theorems. *)

(* Every step keeps the invariant. *)
LEMMA Steps ==
  ASSUME QuietCases, WholeOnly, ValuesFit, IInv, [Next]_vars
  PROVE  IInv'
<1>1. ASSUME Walk, NEW t \in Targets, NEW e \in Exprs, Assign(t, e) PROVE IInv'
  BY <1>1, AssignStep
<1>2. ASSUME Walk, NEW t \in Targets, NEW e \in Exprs, AssignNB(t, e) PROVE IInv'
  BY <1>2, AssignNBStep
<1>3. ASSUME Walk, NEW t \in Targets, NEW q \in Selections, AssignTernary(t, q) PROVE IInv'
  BY <1>3, AssignTernaryStep
<1>4. ASSUME Walk, NEW c \in Branches, NEW mine \in SUBSET Assignable, CondBegin(c, mine)
      PROVE  IInv'
  <2>1. mine \in SUBSET Dep
    BY DEF Assignable
  <2> QED BY <1>4, <2>1, CondBeginStep
<1>5. ASSUME Walk, CondElse PROVE IInv'
  BY <1>5, CondElseStep
<1>6. ASSUME Walk, CondEnd PROVE IInv'
  BY <1>6, CondEndStep
<1>7. ASSUME Walk, NEW p \in Cases, CaseBegin(p.expr) PROVE IInv'
  BY <1>7, CaseBeginStep
<1>8. ASSUME Walk, NEW p \in Cases, NEW ls \in p.items, CaseItem(p.expr, ls) PROVE IInv'
  BY <1>8, CaseItemStep
<1>9. ASSUME Walk, CaseEnd PROVE IInv'
  BY <1>9, CaseEndStep
<1> QED BY <1>1, <1>2, <1>3, <1>4, <1>5, <1>6, <1>7, <1>8, <1>9, Stutter DEF Next

(* The invariant holds in every state of every walk. *)
LEMMA Always ==
  ASSUME QuietCases, WholeOnly, ValuesFit
  PROVE  Spec => []IInv
<1>1. IInv /\ [Next]_vars => IInv'
  BY Steps
<1> QED BY <1>1, Start, PTL DEF Spec

(* Where the checker takes no facts from case statements, and there are no *)
(* part selects and no values that do not fit, what it assumes of the      *)
(* hardware state holds when it assumes it.                                *)
THEOREM PredicateSound ==
  ASSUME QuietCases, WholeOnly, ValuesFit
  PROVE  Spec => []PredicateHolds
<1> QED BY FactsAreTrue, Always, PTL

(* With constant ranges Z3 is told of every state. *)
LEMMA BoundsCover ==
  ASSUME ConstantRanges
  PROVE  Declared = State /\ \A x \in Vars : \A n \in 0 .. Size[x] - 1 : n <= UpperBound(x)
<1>1. \A x \in Vars : UpperBound(x) = Size[x] - 1
  <2> SUFFICES ASSUME NEW x \in Vars PROVE UpperBound(x) = Size[x] - 1
    OBVIOUS
  <2>1. Size[x] = 2 ^ (GetRange[x] + 1)
    BY RangeAssumption, Zenon DEF ConstantRanges
  <2> QED BY <2>1, Zenon DEF UpperBound
<1>2. \A x \in Vars : Size[x] \in Nat
  BY SizeAssumption
<1>3. ASSUME NEW s \in State, NEW x \in Dep PROVE s[x] <= UpperBound(x)
  BY <1>1, <1>2, StateValues, VarsAssumption
<1> QED BY <1>1, <1>2, <1>3 DEF Declared

(* A label below which the checker proved an atom to be is above it in the *)
(* state of the execution, before ...                                      *)
LEMMA ValidApplies ==
  ASSUME IInv, active, ConstantRanges, NEW rhs, NEW lhs, Valid(pred, rhs, lhs), NEW a \in rhs
  PROVE  <<Den(a, sigma), Den(lhs, sigma)>> \in Leq
BY BoundsCover, FactsAreTrue DEF IInv, Typed, TypeOK, PredicateHolds, Valid

(* ... and after the assignment.                                           *)
LEMMA ValidFreshApplies ==
  ASSUME IInv, active, ValuesFit, ConstantRanges, NEW t \in Targets, NEW e \in Exprs, t.var \in Vars,
         SelfDep(t), NEW rhs, ValidFresh(pred, rhs, t.var, e), NEW a \in rhs
  PROVE  <<Den(a, sigma), After(t, e)>> \in Leq
<1> DEFINE n == Fit(t.var, Val(e, sigma))
<1>1. sigma \in State /\ AllTrue(pred, sigma) /\ e \in Expr
  BY StatementsAssumption, FactsAreTrue DEF IInv, Typed, TypeOK, PredicateHolds
<1>2. Val(e, sigma) \in Nat
  BY <1>1, ValNat
<1>3. n \in 0 .. Size[t.var] - 1
  BY <1>2, FitRange
<1>4. t.name \in Dep
  <2>1. Gamma[t.var] \in Atoms /\ Gamma[t.var].kind = "dep" /\ Gamma[t.var].x = t.name
    BY GammaAssumption DEF SelfDep
  <2>2. \A b \in Atoms : b.kind = "dep" => b.x \in Dep
    <3> SUFFICES ASSUME NEW b \in Atoms, b.kind = "dep" PROVE b.x \in Dep
      OBVIOUS
    <3>1. b \notin [kind : {"const"}, label : Labels, x : {NoVar}]
      OBVIOUS
    <3>2. PICK l \in Labels, v \in Dep : b = [kind |-> "dep", label |-> l, x |-> v]
      BY <3>1 DEF Atoms
    <3> QED BY <3>2
  <2> QED BY <2>1, <2>2
<1>5. Understood(e) => n = Val(e, sigma)
  BY <1>1, <1>2, <1>4, FitRange DEF ValuesFit
<1> HIDE DEF n
<1>6. <<Den(a, sigma), LH[n]>> \in Leq
  BY <1>1, <1>3, <1>5, BoundsCover DEF ValidFresh
<1> QED BY <1>6 DEF After, n

(* Of an accepted assignment that is executed, the label of each condition *)
(* it depends on, and of the assigned value unless another path leaves the *)
(* target alone, is below the label of the target.                         *)
THEOREM FlowsSound ==
  ASSUME QuietCases, WholeOnly, ValuesFit, ConstantRanges
  PROVE  Spec => AcceptedFlows
<1> DEFINE Flow(t, e) ==
      /\ \A a \in Guards : <<Den(a, sigma), After(t, e)>> \in Leq
      /\ IF SelfDep(t) /\ t.name \in alive
           THEN \A a \in Guards : <<Den(a, sigma), Den(Gamma[t.var], sigma)>> \in Leq
           ELSE \A a \in LabelOf(e) : <<Den(a, sigma), After(t, e)>> \in Leq
<1>1. ASSUME IInv, active, NEW t \in Targets, NEW e \in Exprs, Accepted(pred, pc, t, e)
      PROVE  Flow(t, e)
  <2>1. t.var \in Vars
    BY DEF WholeOnly, Whole
  <2>2. Guards \subseteq pc
    <3>1. ASSUME NEW i \in 1 .. Len(frames) PROVE Guard(frames[i]) \subseteq pc
      BY <1>1 DEF IInv, Tainted
    <3>2. Guards = UNION {Guard(frames[i]) : i \in 1 .. Len(frames)}
      BY DEF Guards, Guard, IfLike
    <3> QED BY <3>1, <3>2
  <2>3. CASE ~SelfDep(t)
    <3>1. Valid(pred, LabelOf(e) \cup pc, Gamma[t.var])
      BY <1>1, <2>3 DEF Accepted
    <3>2. \A a \in LabelOf(e) \cup pc : <<Den(a, sigma), Den(Gamma[t.var], sigma)>> \in Leq
      BY <1>1, <3>1, ValidApplies
    <3> QED BY <2>2, <2>3, <3>2 DEF After
  <2>4. CASE SelfDep(t) /\ t.name \in alive
    <3>1. Valid(pred, pc, Gamma[t.var]) /\ ValidFresh(pred, pc, t.var, e)
      BY <1>1, <2>4 DEF Accepted
    <3>2. \A a \in pc : <<Den(a, sigma), Den(Gamma[t.var], sigma)>> \in Leq
      BY <1>1, <3>1, ValidApplies
    <3>3. \A a \in pc : <<Den(a, sigma), After(t, e)>> \in Leq
      BY <1>1, <2>1, <2>4, <3>1, ValidFreshApplies
    <3> QED BY <2>2, <2>4, <3>2, <3>3
  <2>5. CASE SelfDep(t) /\ t.name \notin alive
    <3>1. ValidFresh(pred, LabelOf(e) \cup pc, t.var, e)
      BY <1>1, <2>5 DEF Accepted
    <3>2. \A a \in LabelOf(e) \cup pc : <<Den(a, sigma), After(t, e)>> \in Leq
      BY <1>1, <2>1, <2>5, <3>1, ValidFreshApplies
    <3> QED BY <2>2, <2>5, <3>2
  <2> QED BY <2>3, <2>4, <2>5
<1>2. IInv => [\A t \in Targets, e \in Exprs :
         (active /\ (Assign(t, e) \/ AssignNB(t, e)) /\ Accepted(pred, pc, t, e)) => Flow(t, e)]_vars
  BY <1>1
<1> QED BY <1>2, Always, PTL DEF AcceptedFlows

-----------------------------------------------------------------------------
(* The no-sensitive-upgrade check, for all programs: case statements, part *)
(* selects and values that do not fit included.                            *)

(* The stack is a sequence of records with the fields that change. *)
Stack ==
  /\ \E S : frames \in Seq(S)
  /\ \A i \in 1 .. Len(frames) : {"at", "taken", "after", "ifmust"} \subseteq DOMAIN frames[i]

(* The execution is in the branch of the innermost if statement that is    *)
(* being checked, and was where the next one began, or it is elsewhere.    *)
Executing ==
  /\ frames = <<>> => active
  /\ frames # <<>> => frames[1].outer
  /\ frames # <<>> /\ IfLike(Top) => (active <=> Inside(Top))
  /\ \A i \in 1 .. Len(frames) - 1 :
       IfLike(frames[i]) => (frames[i + 1].outer <=> Inside(frames[i]))

(* What an if statement may leave alone is in aliveVars all through it, so *)
(* what escapes the check is a variable that it modifies on every path.    *)
LookedAhead ==
  \A i \in 1 .. Len(frames) : IfLike(frames[i]) =>
    /\ MayKeep(frames[i].mine) \subseteq alive
    /\ unchecked \subseteq frames[i].mine
    /\ \A j \in i + 1 .. Len(frames) :
         /\ MayKeep(frames[i].mine) \subseteq frames[j].oldalive
         /\ frames[j].outerunchecked \subseteq frames[i].mine

(* What the execution has written since the activation of frames[i] began, *)
(* inner activations that have not returned left out.                      *)
WrittenIn(i) == IF i = Len(frames) THEN written ELSE frames[i + 1].outerwritten

(* What mustmodify has collected in a branch the execution has assigned if *)
(* it took that branch; of the items of a case this does not hold.         *)
Collected ==
  /\ (frames = <<>> \/ IfLike(Top)) /\ active => must \subseteq written
  /\ \A i \in 1 .. Len(frames) :
       /\ (i = 1 \/ IfLike(frames[i - 1])) /\ frames[i].outer =>
            frames[i].outermust \subseteq frames[i].outerwritten
       /\ frames[i].at = "else" /\ frames[i].outer /\ frames[i].taken =>
            frames[i].ifmust \subseteq WrittenIn(i)

UpgradeInv == Stack /\ Executing /\ LookedAhead /\ Collected

(* A self-dependent target is a whole variable that occurs in a label. *)
LEMMA SelfDepShape ==
  ASSUME NEW t \in Targets, SelfDep(t)
  PROVE  t.name \in Dep /\ t.var = t.name
<1>1. t.var \in Vars /\ (t.name = t.var \/ t.name = NoVar)
  BY StatementsAssumption DEF Whole
<1>2. Gamma[t.var] \in Atoms /\ Gamma[t.var].kind = "dep" /\ Gamma[t.var].x = t.name
  BY <1>1, GammaAssumption DEF SelfDep
<1>3. Gamma[t.var] \notin [kind : {"const"}, label : Labels, x : {NoVar}]
  BY <1>2
<1>4. PICK l \in Labels, v \in Dep : Gamma[t.var] = [kind |-> "dep", label |-> l, x |-> v]
  BY <1>2, <1>3 DEF Atoms
<1> QED BY <1>1, <1>2, <1>4, VarsAssumption

(* What mustmodify collects of a target is the variable it writes. *)
LEMMA CollectedShape ==
  ASSUME NEW t \in Targets
  PROVE  {t.name} \cap Dep \subseteq {t.var}
BY StatementsAssumption, VarsAssumption DEF Whole

LEMMA UpgradeSimple ==
  ASSUME UpgradeInv, NEW t \in Targets, Record(t), UNCHANGED <<alive, frames, active>>
  PROVE  UpgradeInv'
<1>1. Stack' /\ Executing'
  BY DEF UpgradeInv, Stack, Executing, Top, Inside, IfLike
<1>2. LookedAhead'
  <2> SUFFICES ASSUME NEW i \in 1 .. Len(frames), IfLike(frames[i]),
                      SelfDep(t), t.name \notin alive
               PROVE  t.var \in frames[i].mine
    BY DEF LookedAhead, UpgradeInv, Record, MayKeep, IfLike
  <2>1. MayKeep(frames[i].mine) \subseteq alive
    BY DEF UpgradeInv, LookedAhead
  <2> QED BY <2>1, SelfDepShape DEF MayKeep
<1>3. written \subseteq written' /\ (active => must' \subseteq must \cup written')
  BY CollectedShape DEF Record
<1>4. Collected'
  BY <1>3 DEF UpgradeInv, Collected, WrittenIn, Top, IfLike
<1> QED BY <1>1, <1>2, <1>4 DEF UpgradeInv

(* A statement begins. *)
LEMMA UpgradePush ==
  ASSUME UpgradeInv, NEW f, frames' = Append(frames, f),
         {"at", "taken", "after", "ifmust"} \subseteq DOMAIN f, f.at # "else",
         f.outer = active, f.oldalive = alive, f.outermust = must,
         f.outerwritten = written, f.outerunchecked = unchecked,
         unchecked' = {}, must' = {}, alive \subseteq alive',
         IfLike(f) => (active' <=> Inside(f)) /\ MayKeep(f.mine) \subseteq alive'
  PROVE  UpgradeInv'
<1> DEFINE n == Len(frames)
<1>1. PICK S : frames \in Seq(S)
  BY DEF UpgradeInv, Stack
<1>2. /\ frames' \in Seq(S \cup {f}) /\ frames' # <<>> /\ Len(frames') = n + 1 /\ n \in Nat
      /\ frames'[n + 1] = f /\ \A i \in 1 .. n : frames'[i] = frames[i]
  BY <1>1
<1>3. n = 0 <=> frames = <<>>
  BY <1>1
<1>4. Top' = f /\ (n > 0 => Top = frames[n])
  BY <1>2 DEF Top
<1> HIDE DEF n
<1>5. Stack'
  BY <1>2 DEF UpgradeInv, Stack, n
<1>6. Executing'
  <2>1. ASSUME NEW i \in 1 .. n, IfLike(frames'[i])
        PROVE  frames'[i + 1].outer <=> Inside(frames'[i])
    <3>1. CASE i = n
      BY <1>2, <1>3, <1>4, <2>1, <3>1 DEF UpgradeInv, Executing
    <3>2. CASE i \in 1 .. n - 1
      BY <1>2, <2>1, <3>2 DEF UpgradeInv, Executing, n
    <3> QED BY <1>2, <3>1, <3>2
  <2>2. frames'[1].outer
    <3>1. CASE n = 0
      <4>1. frames'[1] = f
        BY <1>2, <3>1
      <4>2. active
        BY <1>3, <3>1 DEF UpgradeInv, Executing
      <4> QED BY <4>1, <4>2
    <3>2. CASE n > 0
      BY <1>2, <1>3, <3>2 DEF UpgradeInv, Executing
    <3> QED BY <1>2, <3>1, <3>2
  <2> QED BY <1>2, <1>4, <2>1, <2>2 DEF Executing, Inside, IfLike
<1>7. LookedAhead'
  <2>1. ASSUME NEW i \in 1 .. n, IfLike(frames[i])
        PROVE  /\ MayKeep(frames[i].mine) \subseteq alive
               /\ unchecked \subseteq frames[i].mine
               /\ \A j \in i + 1 .. n :
                    /\ MayKeep(frames[i].mine) \subseteq frames[j].oldalive
                    /\ frames[j].outerunchecked \subseteq frames[i].mine
    BY <2>1 DEF UpgradeInv, LookedAhead, n
  <2>2. ASSUME NEW i \in 1 .. n, IfLike(frames[i]), NEW j \in i + 1 .. n + 1
        PROVE  /\ MayKeep(frames[i].mine) \subseteq frames'[j].oldalive
               /\ frames'[j].outerunchecked \subseteq frames[i].mine
    <3>1. CASE j = n + 1
      BY <1>2, <2>1, <2>2, <3>1
    <3>2. CASE j \in i + 1 .. n
      BY <1>2, <2>1, <2>2, <3>2
    <3> QED BY <1>2, <3>1, <3>2
  <2>3. ASSUME NEW i \in 1 .. Len(frames'), IfLike(frames'[i])
        PROVE  /\ MayKeep(frames'[i].mine) \subseteq alive'
               /\ unchecked' \subseteq frames'[i].mine
               /\ \A j \in i + 1 .. Len(frames') :
                    /\ MayKeep(frames'[i].mine) \subseteq frames'[j].oldalive
                    /\ frames'[j].outerunchecked \subseteq frames'[i].mine
    <3>1. CASE i = n + 1
      <4>1. frames'[i] = f /\ \A j \in i + 1 .. Len(frames') : FALSE
        BY <1>2, <3>1
      <4> QED BY <2>3, <4>1
    <3>2. CASE i \in 1 .. n
      <4>1. frames'[i] = frames[i] /\ Len(frames') = n + 1
        BY <1>2, <3>2
      <4> QED BY <2>1, <2>2, <2>3, <3>2, <4>1
    <3> QED BY <1>2, <2>3, <3>1, <3>2
  <2> QED BY <2>3, Zenon DEF LookedAhead, MayKeep, IfLike
<1>8. Collected'
  <2>1. f.at # "else"
    OBVIOUS
  <2>2. ASSUME NEW i \in 1 .. n PROVE WrittenIn(i)' = WrittenIn(i)
    <3>1. CASE i = n
      BY <1>2, <3>1 DEF WrittenIn, n
    <3>2. CASE i \in 1 .. n - 1
      BY <1>2, <3>2 DEF WrittenIn, n
    <3> QED BY <1>2, <3>1, <3>2
  <2>3. ASSUME (n + 1 = 1 \/ IfLike(frames'[n])), f.outer
        PROVE  f.outermust \subseteq f.outerwritten
    BY <1>2, <1>3, <1>4, <2>3 DEF UpgradeInv, Collected
  <2>4. ASSUME NEW i \in 1 .. n
        PROVE  /\ (i = 1 \/ IfLike(frames'[i - 1])) /\ frames'[i].outer =>
                    frames'[i].outermust \subseteq frames'[i].outerwritten
               /\ frames'[i].at = "else" /\ frames'[i].outer /\ frames'[i].taken =>
                    frames'[i].ifmust \subseteq WrittenIn(i)
    <3>1. i # 1 => i - 1 \in 1 .. n
      BY <1>2
    <3> QED BY <1>2, <3>1 DEF UpgradeInv, Collected, n
  <2> QED BY <1>2, <2>1, <2>2, <2>3, <2>4 DEF Collected, IfLike
<1> QED BY <1>5, <1>6, <1>7, <1>8 DEF UpgradeInv

(* The next part of a statement begins. *)
LEMMA UpgradeReplace ==
  ASSUME UpgradeInv, frames # <<>>, NEW f, frames' = [frames EXCEPT ![Len(frames)] = f],
         {"at", "taken", "after", "ifmust"} \subseteq DOMAIN f, IfLike(f) <=> IfLike(Top),
         f.outer = Top.outer, f.oldalive = Top.oldalive, f.mine = Top.mine,
         f.outermust = Top.outermust, f.outerwritten = Top.outerwritten,
         f.outerunchecked = Top.outerunchecked,
         UNCHANGED <<alive, unchecked, written>>,
         IfLike(f) => /\ active' <=> Inside(f)
                      /\ active' => must' \subseteq written
                      /\ f.at = "else" /\ f.outer /\ f.taken => f.ifmust \subseteq written
  PROVE  UpgradeInv'
<1> DEFINE n == Len(frames)
<1>1. PICK S : frames \in Seq(S)
  BY DEF UpgradeInv, Stack
<1>2. /\ frames' \in Seq(S \cup {f}) /\ frames' # <<>> /\ Len(frames') = n /\ n \in Nat /\ n > 0
      /\ frames'[n] = f /\ \A i \in 1 .. n - 1 : frames'[i] = frames[i]
  <2>1. frames \in Seq(S \cup {f})
    BY <1>1
  <2> QED BY <2>1
<1>3. Top' = f /\ Top = frames[n]
  BY <1>2 DEF Top
<1> HIDE DEF n
<1>4. \A i \in 1 .. n : i = n \/ (i \in 1 .. n - 1 /\ frames'[i] = frames[i])
  BY <1>2
<1>5. Stack'
  BY <1>2, <1>4 DEF UpgradeInv, Stack, n
<1>6. ASSUME NEW i \in 1 .. n
      PROVE  /\ IfLike(frames'[i]) <=> IfLike(frames[i])
             /\ frames'[i].outer = frames[i].outer /\ frames'[i].oldalive = frames[i].oldalive
             /\ frames'[i].mine = frames[i].mine /\ frames'[i].outermust = frames[i].outermust
             /\ frames'[i].outerwritten = frames[i].outerwritten
             /\ frames'[i].outerunchecked = frames[i].outerunchecked
  BY <1>2, <1>3, <1>4
<1>7. Executing'
  <2>1. ASSUME NEW i \in 1 .. n - 1, IfLike(frames'[i])
        PROVE  frames'[i + 1].outer <=> Inside(frames'[i])
    <3>1. i + 1 \in 1 .. n /\ i \in 1 .. n
      BY <1>2
    <3> QED BY <1>2, <1>6, <2>1, <3>1 DEF UpgradeInv, Executing, n
  <2>2. frames'[1].outer
    <3>1. 1 \in 1 .. n
      BY <1>2
    <3> QED BY <1>6, <3>1 DEF UpgradeInv, Executing
  <2> QED BY <1>2, <1>3, <2>1, <2>2 DEF Executing, Inside, IfLike
<1>8. LookedAhead'
  <2> SUFFICES ASSUME NEW i \in 1 .. n, IfLike(frames'[i])
               PROVE  /\ MayKeep(frames'[i].mine) \subseteq alive
                      /\ unchecked \subseteq frames'[i].mine
                      /\ \A j \in i + 1 .. n :
                           /\ MayKeep(frames'[i].mine) \subseteq frames'[j].oldalive
                           /\ frames'[j].outerunchecked \subseteq frames'[i].mine
    BY <1>2 DEF LookedAhead, MayKeep, IfLike
  <2>1. IfLike(frames[i]) /\ frames'[i].mine = frames[i].mine
    BY <1>6
  <2>2. \A j \in i + 1 .. n : j \in 1 .. n
    BY <1>2
  <2> QED BY <1>6, <2>1, <2>2 DEF UpgradeInv, LookedAhead, n
<1>9. Collected'
  <2>1. ASSUME NEW i \in 1 .. n, i = 1 \/ IfLike(frames'[i - 1]), frames'[i].outer
        PROVE  frames'[i].outermust \subseteq frames'[i].outerwritten
    <3>1. i # 1 => i - 1 \in 1 .. n
      BY <1>2
    <3> QED BY <1>6, <2>1, <3>1 DEF UpgradeInv, Collected, n
  <2>2. ASSUME NEW i \in 1 .. n, frames'[i].at = "else", frames'[i].outer, frames'[i].taken
        PROVE  frames'[i].ifmust \subseteq WrittenIn(i)'
    <3>1. CASE i = n
      BY <1>2, <2>2, <3>1 DEF WrittenIn, IfLike
    <3>2. CASE i \in 1 .. n - 1
      <4>1. i \in 1 .. n /\ i + 1 \in 1 .. n /\ i # n
        BY <1>2, <3>2
      <4>2. frames[i].ifmust \subseteq WrittenIn(i)
        BY <1>2, <2>2, <3>2, <4>1 DEF UpgradeInv, Collected, n
      <4>3. WrittenIn(i)' = WrittenIn(i)
        BY <1>2, <1>6, <4>1 DEF WrittenIn, n
      <4> QED BY <1>2, <3>2, <4>2, <4>3
    <3> QED BY <1>4, <3>1, <3>2
  <2>3. (frames' = <<>> \/ IfLike(Top')) /\ active' => must' \subseteq written'
    BY <1>2, <1>3
  <2> QED BY <1>2, <2>1, <2>2, <2>3 DEF Collected, IfLike
<1> QED BY <1>5, <1>7, <1>8, <1>9 DEF UpgradeInv

(* The innermost statement ends. *)
LEMMA UpgradePop ==
  ASSUME UpgradeInv, frames # <<>>, Leave,
         alive' = alive \/ alive' = Top.oldalive,
         IfLike(Top) => alive' = Top.oldalive,
         NEW both, must' = Top.outermust \cup both,
         Top.outer => both \subseteq written
  PROVE  UpgradeInv'
<1> DEFINE n == Len(frames)
<1>1. PICK S : frames \in Seq(S)
  BY DEF UpgradeInv, Stack
<1>2. /\ frames' \in Seq(S) /\ Len(frames') = n - 1 /\ n \in Nat /\ n > 0
      /\ \A i \in 1 .. n - 1 : frames'[i] = frames[i]
  BY <1>1, Popped DEF Leave
<1>3. /\ Top = frames[n] /\ n \in 1 .. n
      /\ frames' = <<>> <=> n = 1
      /\ n > 1 => Top' = frames[n - 1] /\ n - 1 \in 1 .. n - 1
  BY <1>2 DEF Top
<1>4. /\ active' = Top.outer /\ written' = Top.outerwritten \cup written
      /\ unchecked' = Top.outerunchecked \cup unchecked
  BY DEF Leave
<1> HIDE DEF n
<1>5. \A i \in 1 .. n - 1 : i \in 1 .. n /\ i # n /\ n \in i + 1 .. n
  BY <1>2
<1>6. Stack'
  BY <1>2, <1>5 DEF UpgradeInv, Stack, n
<1>7. Executing'
  <2>1. n = 1 => Top.outer
    BY <1>3 DEF UpgradeInv, Executing, n
  <2>2. n > 1 /\ IfLike(frames[n - 1]) => (Top.outer <=> Inside(frames[n - 1]))
    <3>1. n - 1 + 1 = n
      BY <1>2
    <3> QED BY <1>3, <3>1 DEF UpgradeInv, Executing, n
  <2>3. ASSUME NEW i \in 1 .. n - 1 - 1, IfLike(frames'[i])
        PROVE  frames'[i + 1].outer <=> Inside(frames'[i])
    <3>1. i \in 1 .. n - 1 /\ i + 1 \in 1 .. n - 1
      BY <1>2
    <3> QED BY <1>2, <2>3, <3>1 DEF UpgradeInv, Executing, n
  <2>4. n > 1 => frames'[1].outer
    BY <1>2 DEF UpgradeInv, Executing
  <2> QED BY <1>2, <1>3, <1>4, <2>1, <2>2, <2>3, <2>4 DEF Executing, Inside, IfLike
<1>8. LookedAhead'
  <2> SUFFICES ASSUME NEW i \in 1 .. n - 1, IfLike(frames[i])
               PROVE  /\ MayKeep(frames[i].mine) \subseteq alive'
                      /\ unchecked' \subseteq frames[i].mine
                      /\ \A j \in i + 1 .. n - 1 :
                           /\ MayKeep(frames[i].mine) \subseteq frames'[j].oldalive
                           /\ frames'[j].outerunchecked \subseteq frames[i].mine
    BY <1>2 DEF LookedAhead, MayKeep, IfLike
  <2>1. /\ MayKeep(frames[i].mine) \subseteq alive
        /\ unchecked \subseteq frames[i].mine
        /\ \A j \in i + 1 .. n :
             /\ MayKeep(frames[i].mine) \subseteq frames[j].oldalive
             /\ frames[j].outerunchecked \subseteq frames[i].mine
    BY <1>5 DEF UpgradeInv, LookedAhead, n
  <2>2. \A j \in i + 1 .. n - 1 : j \in 1 .. n - 1 /\ j \in i + 1 .. n
    BY <1>2
  <2> QED BY <1>2, <1>3, <1>4, <1>5, <2>1, <2>2
<1>9. Collected'
  <2>1. ASSUME frames' = <<>> \/ IfLike(Top'), active' PROVE must' \subseteq written'
    <3>1. n = 1 \/ IfLike(frames[n - 1])
      BY <1>2, <1>3, <2>1
    <3>2. Top.outermust \subseteq Top.outerwritten
      BY <1>3, <1>4, <2>1, <3>1 DEF UpgradeInv, Collected, n
    <3> QED BY <1>4, <2>1, <3>2
  <2>2. ASSUME NEW i \in 1 .. n - 1, i = 1 \/ IfLike(frames'[i - 1]), frames'[i].outer
        PROVE  frames'[i].outermust \subseteq frames'[i].outerwritten
    <3>1. i # 1 => i - 1 \in 1 .. n - 1
      BY <1>2
    <3> QED BY <1>2, <1>5, <2>2, <3>1 DEF UpgradeInv, Collected, n
  <2>3. ASSUME NEW i \in 1 .. n - 1, frames'[i].at = "else", frames'[i].outer, frames'[i].taken
        PROVE  frames'[i].ifmust \subseteq WrittenIn(i)'
    <3>1. frames[i].ifmust \subseteq WrittenIn(i)
      BY <1>2, <1>5, <2>3 DEF UpgradeInv, Collected, n
    <3>2. WrittenIn(i) \subseteq WrittenIn(i)'
      <4>1. WrittenIn(i) = frames[i + 1].outerwritten
        BY <1>5 DEF WrittenIn, n
      <4>2. CASE i = n - 1
        BY <1>2, <1>3, <1>4, <4>1, <4>2 DEF WrittenIn
      <4>3. CASE i # n - 1
        <5>1. i + 1 \in 1 .. n - 1
          BY <1>2, <4>3
        <5> QED BY <1>2, <4>1, <4>3, <5>1 DEF WrittenIn
      <4> QED BY <4>2, <4>3
    <3> QED BY <1>2, <3>1, <3>2
  <2> QED BY <1>2, <2>1, <2>2, <2>3 DEF Collected, IfLike
<1> QED BY <1>6, <1>7, <1>8, <1>9 DEF UpgradeInv

(* What both branches modify the execution has written, whichever it took. *)
LEMMA BothWritten ==
  ASSUME UpgradeInv, frames # <<>>, Top.at = "else", Top.outer
  PROVE  BothModify(Top.ifmust, must) \subseteq written
<1>1. PICK S : frames \in Seq(S)
  BY DEF UpgradeInv, Stack
<1>2. Len(frames) \in 1 .. Len(frames) /\ Top = frames[Len(frames)]
  BY <1>1 DEF Top
<1>3. CASE Top.taken
  BY <1>2, <1>3 DEF UpgradeInv, Collected, WrittenIn, BothModify
<1>4. CASE ~Top.taken
  <2>1. active
    BY <1>4 DEF UpgradeInv, Executing, Inside, IfLike
  <2> QED BY <2>1 DEF UpgradeInv, Collected, IfLike, BothModify
<1> QED BY <1>3, <1>4

(* So a variable that escaped the check in an if statement is written when *)
(* the execution leaves the statement.                                     *)
LEMMA LeavesIfSafely == UpgradeInv => LeavesSafely(CondEnd)
<1> SUFFICES ASSUME UpgradeInv, frames # <<>>, CondEnd, Top.outer
             PROVE  unchecked \subseteq written
  BY DEF LeavesSafely
<1>1. PICK S : frames \in Seq(S)
  BY DEF UpgradeInv, Stack
<1>2. Len(frames) \in 1 .. Len(frames) /\ Top = frames[Len(frames)]
  BY <1>1 DEF Top
<1>3. unchecked \subseteq Top.mine
  BY <1>2 DEF UpgradeInv, LookedAhead, CondEnd, IfLike
<1>4. Top.mine \subseteq written
  BY BothWritten DEF CondEnd
<1> QED BY <1>3, <1>4

LEMMA UpgradeSteps ==
  ASSUME UpgradeInv, [Next]_vars
  PROVE  UpgradeInv'
<1>1. ASSUME NEW t \in Targets, NEW e \in Exprs, Assign(t, e) \/ AssignNB(t, e)
      PROVE  UpgradeInv'
  BY <1>1, UpgradeSimple DEF Assign, AssignNB
<1>2. ASSUME NEW t \in Targets, NEW q \in Selections, AssignTernary(t, q)
      PROVE  UpgradeInv'
  BY <1>2, UpgradeSimple DEF AssignTernary
<1>3. ASSUME NEW c, NEW mine, CondBegin(c, mine) PROVE UpgradeInv'
  <2> DEFINE f == Frame("if", [cond |-> c, taken |-> CondTrue(c, sigma), mine |-> mine])
  <2>1. frames' = Append(frames, f) /\ active' = (active /\ CondTrue(c, sigma))
    BY <1>3 DEF CondBegin
  <2>2. /\ f.at = "if" /\ f.taken = CondTrue(c, sigma) /\ f.outer = active
        /\ f.oldalive = alive /\ f.outermust = must /\ f.outerwritten = written
        /\ f.outerunchecked = unchecked /\ f.mine = mine
        /\ {"at", "taken", "after", "ifmust"} \subseteq DOMAIN f
    BY DEF Frame
  <2> HIDE DEF f
  <2>3. active' <=> Inside(f)
    BY <2>1, <2>2 DEF Inside
  <2> QED BY <1>3, <2>1, <2>2, <2>3, UpgradePush DEF CondBegin
<1>4. ASSUME NEW e, CaseBegin(e) PROVE UpgradeInv'
  <2> DEFINE f == [Frame("case", [cond |-> e, taken |-> FALSE, mine |-> {}])
                     EXCEPT !.at = "case"]
  <2>1. frames' = Append(frames, f)
    BY <1>4 DEF CaseBegin
  <2>2. /\ f.at = "case" /\ f.outer = active
        /\ f.oldalive = alive /\ f.outermust = must /\ f.outerwritten = written
        /\ f.outerunchecked = unchecked
        /\ {"at", "taken", "after", "ifmust"} \subseteq DOMAIN f
    BY DEF Frame
  <2> HIDE DEF f
  <2> QED BY <1>4, <2>1, <2>2, UpgradePush DEF CaseBegin, IfLike
<1>5. ASSUME UpgradeInv, frames # <<>>
      PROVE  {"at", "taken", "after", "ifmust"} \subseteq DOMAIN Top
  <2>1. PICK S : frames \in Seq(S)
    BY DEF UpgradeInv, Stack
  <2>2. Len(frames) \in 1 .. Len(frames)
    BY <1>5, <2>1
  <2> QED BY <2>2 DEF UpgradeInv, Stack, Top
<1>6. ASSUME CondElse PROVE UpgradeInv'
  <2> DEFINE f == [Top EXCEPT !.at = "else", !.after = pred, !.ifmust = must]
  <2>1. frames # <<>> /\ Top.at = "if" /\ frames' = [frames EXCEPT ![Len(frames)] = f]
    BY <1>6 DEF CondElse, Top
  <2>2. {"at", "taken", "after", "ifmust"} \subseteq DOMAIN Top
    BY <1>5, <2>1
  <2>3. /\ f.at = "else" /\ f.ifmust = must /\ f.taken = Top.taken
        /\ f.outer = Top.outer /\ f.oldalive = Top.oldalive /\ f.mine = Top.mine
        /\ f.outermust = Top.outermust /\ f.outerwritten = Top.outerwritten
        /\ f.outerunchecked = Top.outerunchecked
        /\ {"at", "taken", "after", "ifmust"} \subseteq DOMAIN f
    BY <2>2
  <2> HIDE DEF f
  <2>4. active' <=> Inside(f)
    BY <1>6, <2>3 DEF CondElse, Inside
  <2>5. f.outer /\ f.taken => f.ifmust \subseteq written
    BY <2>1, <2>3 DEF UpgradeInv, Executing, Collected, Inside, IfLike
  <2> QED BY <1>6, <2>1, <2>3, <2>4, <2>5, UpgradeReplace DEF CondElse, IfLike
<1>7. ASSUME NEW e, NEW ls, CaseItem(e, ls) PROVE UpgradeInv'
  <2> DEFINE f(b) == [Top EXCEPT !.at = IF ls = {} THEN "last" ELSE "case",
                                 !.taken = b]
  <2>1. frames # <<>> /\ Top.at = "case"
    BY <1>7 DEF CaseItem
  <2>2. PICK b : frames' = [frames EXCEPT ![Len(frames)] = f(b)]
    <3>1. frames' =
            [frames EXCEPT ![Len(frames)] =
               [Top EXCEPT !.at = IF ls = {} THEN "last" ELSE "case",
                           !.taken = Top.taken \/ (Top.outer /\ ~Top.taken
                                          /\ (ls = {} \/ Val(e, sigma) \in ls))]]
      BY <1>7 DEF CaseItem
    <3> QED BY <3>1
  <2>3. {"at", "taken", "after", "ifmust"} \subseteq DOMAIN Top
    BY <1>5, <2>1
  <2>4. /\ f(b).at \in {"case", "last"}
        /\ f(b).outer = Top.outer /\ f(b).oldalive = Top.oldalive
        /\ f(b).mine = Top.mine /\ f(b).outermust = Top.outermust
        /\ f(b).outerwritten = Top.outerwritten
        /\ f(b).outerunchecked = Top.outerunchecked
        /\ {"at", "taken", "after", "ifmust"} \subseteq DOMAIN f(b)
    BY <2>3
  <2> HIDE DEF f
  <2> QED BY <1>7, <2>1, <2>2, <2>4, UpgradeReplace DEF CaseItem, IfLike
<1>8. ASSUME CondEnd PROVE UpgradeInv'
  <2> DEFINE both == IF Top.at = "else" THEN BothModify(Top.ifmust, must) ELSE {}
  <2>1. Top.outer => both \subseteq written
    BY <1>8, BothWritten DEF CondEnd
  <2>2. must' = Top.outermust \cup both
    BY <1>8 DEF CondEnd
  <2> HIDE DEF both
  <2> QED BY <1>8, <2>1, <2>2, UpgradePop DEF CondEnd
<1>9. ASSUME CaseEnd PROVE UpgradeInv'
  <2>1. must' = Top.outermust \cup {}
    BY <1>9 DEF CaseEnd
  <2>2. /\ frames # <<>> /\ Leave /\ alive' = alive
        /\ ~IfLike(Top)
    BY <1>9 DEF CaseEnd, IfLike
  <2>3. Top.outer => {} \subseteq written
    OBVIOUS
  <2> QED BY <2>1, <2>2, <2>3, UpgradePop
<1>10. ASSUME UNCHANGED vars PROVE UpgradeInv'
  BY <1>10 DEF vars, UpgradeInv, Stack, Executing, LookedAhead, Collected, WrittenIn,
               Top, Inside, IfLike, MayKeep
<1> QED BY <1>1, <1>2, <1>3, <1>4, <1>6, <1>7, <1>8, <1>9, <1>10 DEF Next

(* mustmodify looks ahead over an if statement well enough: for every      *)
(* program, an execution that leaves one has assigned each self-dependent  *)
(* variable whose assignment in it escaped the no-sensitive-upgrade check. *)
THEOREM UpgradeChecked == Spec => UnwrittenInIfsWasAlive
<1>1. Init => UpgradeInv
  <2> SUFFICES ASSUME Init PROVE UpgradeInv
    OBVIOUS
  <2>1. frames = <<>> /\ frames \in Seq({}) /\ Len(frames) = 0
    BY DEF Init
  <2> QED BY <2>1 DEF Init, UpgradeInv, Stack, Executing, LookedAhead, Collected
<1>2. UpgradeInv /\ [Next]_vars => UpgradeInv'
  BY UpgradeSteps
<1>3. UpgradeInv => [LeavesSafely(CondEnd)]_vars
  BY LeavesIfSafely
<1> QED BY <1>1, <1>2, <1>3, PTL DEF Spec, UnwrittenInIfsWasAlive
=============================================================================
