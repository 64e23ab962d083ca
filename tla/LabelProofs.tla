----------------------------- MODULE LabelProofs -----------------------------
(***************************************************************************)
(* Theorems about the parts of the label checker that CheckProofs takes    *)
(* for granted: what is kept of a condition (WellFormed), the merge of the *)
(* facts of two branches (FactMerge), the instances of modules             *)
(* (ModuleInst) and the labels themselves (SecTypes).  They hold for       *)
(* conditions and labels of any depth, any facts, names and lattice.       *)
(***************************************************************************)
EXTENDS WellFormed, FactMerge, ModuleInst, SecTypes, SequenceTheorems, FiniteSetTheorems,
        WellFoundedInduction, TLAPS

-----------------------------------------------------------------------------
(* Conditions. *)

StackType == stack \in Seq(Conditions)

LEMMA ValueIs ==
  /\ \A op, l, r : l \in Int /\ r \in Int => Apply(op, l, r) \in Int
  /\ \A b : Bit(b) \in Int
<1>1. \A b : Bit(b) \in Int
  BY DEF Bit
<1> QED BY <1>1 DEF Apply

LEMMA NullType == Null \in Exprs
  BY DEF Null, Exprs, Letters

LEMMA UnaryType ==
  ASSUME NEW op \in {"N", "!"}, NEW e \in Exprs
  PROVE  Unary(op, e) \in Exprs
<1>1. [s \in States |-> Bit(e.value[s] = 0)] \in [States -> Int]
  BY ValueIs
<1> QED BY <1>1 DEF Unary, Exprs, Letters

LEMMA BinaryType ==
  ASSUME NEW op \in Known \cup {"+"}, NEW l \in Exprs, NEW r \in Exprs
  PROVE  Binary(op, l, r) \in Exprs
<1>1. \A s \in States : l.value[s] \in Int /\ r.value[s] \in Int
  BY DEF Exprs
<1>2. [s \in States |-> Apply(op, l.value[s], r.value[s])] \in [States -> Int]
  BY <1>1, ValueIs
<1>3. l.vars \cup r.vars \in SUBSET Vars
  BY DEF Exprs
<1>4. {op} \cup l.has \cup r.has \in SUBSET (Letters \cup {"null"})
  BY DEF Exprs, Letters
<1> QED BY <1>2, <1>3, <1>4, Zenon DEF Binary, Exprs

LEMMA WholeType ==
  ASSUME NEW e \in Exprs, NEW ok \in BOOLEAN
  PROVE  Whole(e, ok) \in Conditions
  BY NullType DEF Whole, Conditions

LEMMA EitherSideType ==
  ASSUME NEW op \in Known \cup {"+"}, NEW l \in Exprs, NEW r \in Exprs, NEW lok, NEW rok
  PROVE  EitherSide(op, l, lok, r, rok) \in Exprs
  BY BinaryType, NullType, Zenon DEF EitherSide

LEMMA ConnectType ==
  ASSUME NEW op \in Known \cup {"+"}, NEW l \in Conditions, NEW r \in Conditions
  PROVE  PEBinary(op, l, r) \in Conditions
<1>1. /\ {l.expr, l.kept, l.negkept, r.expr, r.kept, r.negkept} \subseteq Exprs
      /\ {l.wf, l.negwf, l.plain, r.wf, r.negwf, r.plain} \subseteq BOOLEAN
  BY DEF Conditions
<1>2. Binary(op, l.expr, r.expr) \in Exprs
  BY <1>1, BinaryType
<1>3. ToWellFormed(op, l, r) \in Exprs
  BY <1>1, BinaryType, NullType, EitherSideType DEF ToWellFormed
<1>4. NegToWellFormed(op, l, r) \in Exprs
  BY <1>1, BinaryType, NullType, EitherSideType DEF NegToWellFormed
<1>5. IsWellFormed(op, l, r) \in BOOLEAN /\ IsNegWellFormed(op, l, r) \in BOOLEAN
  BY DEF IsWellFormed, IsNegWellFormed
<1>6. (IF op \in AnyConnective THEN l.plain /\ r.plain
       ELSE (l.expr.has \cup r.expr.has) \cap AnyConnective = {}) \in BOOLEAN
  BY <1>1
<1> QED BY <1>2, <1>3, <1>4, <1>5, <1>6 DEF PEBinary, Conditions

-----------------------------------------------------------------------------
(* What is known of one condition.  Without connectives it is kept as it   *)
(* is or not at all.                                                       *)
Unconnected(c) ==
  c.expr.has \cap AnyConnective = {} =>
    /\ c.plain
    /\ c.wf => c.kept = c.expr
    /\ c.negwf => c.negkept = c.expr

OnlyDep(c) ==
  "N" \notin c.expr.has =>
    (c.wf => Dependent(c.kept)) /\ (c.negwf => Dependent(c.negkept))

AllKept(c) ==
  (c.expr.vars \subseteq Dep /\ c.expr.has \subseteq Known) =>
    c.wf /\ c.kept = c.expr /\ c.negwf /\ c.negkept = c.expr

Right(c) ==
  /\ Unconnected(c)
  /\ c.plain => Implied(c)
  /\ OnlyDep(c)
  /\ AllKept(c)

LEMMA WholeRight ==
  ASSUME NEW e \in Exprs, NEW ok \in BOOLEAN,
         "null" \notin e.has,
         e.vars \subseteq Dep /\ e.has \subseteq Known => ok,
         ok => e.vars \subseteq Dep \/ "N" \in e.has
  PROVE  Right(Whole(e, ok))
  BY DEF Right, Whole, Unconnected, OnlyDep, AllKept, Implied, Dependent, True

LEMMA BinaryIs ==
  ASSUME NEW op, NEW l, NEW r
  PROVE  /\ Binary(op, l, r).vars = l.vars \cup r.vars
         /\ Binary(op, l, r).has = {op} \cup l.has \cup r.has
         /\ \A s \in States : op = "a" => (True(Binary(op, l, r), s) <=> True(l, s) /\ True(r, s))
         /\ \A s \in States : op = "o" => (True(Binary(op, l, r), s) <=> True(l, s) \/ True(r, s))
  BY DEF Binary, Apply, Bit, True

LEMMA ConnectRight ==
  ASSUME NEW op \in Known \cup {"+"}, NEW l \in Conditions, NEW r \in Conditions,
         Right(l), Right(r)
  PROVE  Right(PEBinary(op, l, r))
<1> DEFINE c == PEBinary(op, l, r)
<1>1. /\ c.expr = Binary(op, l.expr, r.expr)
      /\ c.wf = IsWellFormed(op, l, r) /\ c.kept = ToWellFormed(op, l, r)
      /\ c.negwf = IsNegWellFormed(op, l, r) /\ c.negkept = NegToWellFormed(op, l, r)
      /\ c.plain = IF op \in AnyConnective THEN l.plain /\ r.plain
                   ELSE (l.expr.has \cup r.expr.has) \cap AnyConnective = {}
  BY DEF PEBinary
<1>2. c.expr.has = {op} \cup l.expr.has \cup r.expr.has /\ c.expr.vars = l.expr.vars \cup r.expr.vars
  BY <1>1, BinaryIs
<1> HIDE DEF c
<1>3. ASSUME op \in Known \ AnyConnective
      PROVE  /\ c.wf => l.wf /\ r.wf /\ c.kept = Binary(op, l.kept, r.kept)
             /\ c.negwf => l.negwf /\ r.negwf /\ c.negkept = Binary(op, l.negkept, r.negkept)
             /\ l.wf /\ r.wf => c.wf
             /\ l.negwf /\ r.negwf => c.negwf
  BY <1>1, <1>3 DEF IsWellFormed, ToWellFormed, IsNegWellFormed, NegToWellFormed,
                    HalfIfTrue, HalfIfFalse, AnyConnective, Known
<1>4. ASSUME op = "+" PROVE ~c.wf /\ ~c.negwf
  BY <1>1, <1>4 DEF IsWellFormed, IsNegWellFormed, HalfIfTrue, HalfIfFalse, Known
<1>5. ASSUME op = "a"
      PROVE  /\ c.wf <=> l.wf \/ r.wf
             /\ c.kept = EitherSide(op, l.kept, l.wf, r.kept, r.wf)
             /\ c.negwf <=> l.negwf /\ r.negwf
             /\ c.negwf => c.negkept = Binary(op, l.negkept, r.negkept)
  BY <1>1, <1>5 DEF IsWellFormed, ToWellFormed, IsNegWellFormed, NegToWellFormed,
                    HalfIfTrue, HalfIfFalse, Known
<1>6. ASSUME op = "o"
      PROVE  /\ c.wf <=> l.wf /\ r.wf
             /\ c.wf => c.kept = Binary(op, l.kept, r.kept)
             /\ c.negwf <=> l.negwf \/ r.negwf
             /\ c.negkept = EitherSide(op, l.negkept, l.negwf, r.negkept, r.negwf)
  BY <1>1, <1>6 DEF IsWellFormed, ToWellFormed, IsNegWellFormed, NegToWellFormed,
                    HalfIfTrue, HalfIfFalse, Known
<1>7. op \in Known \ AnyConnective \/ op = "+" \/ op = "a" \/ op = "o"
  BY DEF Known, AnyConnective
<1>8. Unconnected(c)
  <2> SUFFICES ASSUME c.expr.has \cap AnyConnective = {}
               PROVE  /\ c.plain
                      /\ c.wf => c.kept = c.expr
                      /\ c.negwf => c.negkept = c.expr
    BY DEF Unconnected
  <2>1. op \notin AnyConnective /\ c.plain
    BY <1>1, <1>2
  <2>2. /\ l.wf => l.kept = l.expr
        /\ l.negwf => l.negkept = l.expr
        /\ r.wf => r.kept = r.expr
        /\ r.negwf => r.negkept = r.expr
    BY <1>2 DEF Right, Unconnected
  <2> QED BY <1>1, <1>3, <1>4, <1>7, <2>1, <2>2 DEF AnyConnective
<1>9. ASSUME c.plain, op \in AnyConnective, NEW s \in States
      PROVE  /\ c.wf /\ True(c.expr, s) => True(c.kept, s)
             /\ c.negwf /\ ~True(c.expr, s) => ~True(c.negkept, s)
  <2>1. Implied(l) /\ Implied(r)
    BY <1>1, <1>9 DEF Right
  <2>2. /\ l.wf /\ True(l.expr, s) => True(l.kept, s)
        /\ l.negwf /\ ~True(l.expr, s) => ~True(l.negkept, s)
        /\ r.wf /\ True(r.expr, s) => True(r.kept, s)
        /\ r.negwf /\ ~True(r.expr, s) => ~True(r.negkept, s)
    BY <2>1 DEF Implied
  <2>3. CASE op = "a"
    BY <1>1, <1>5, <2>2, <2>3, BinaryIs DEF EitherSide
  <2>4. CASE op = "o"
    BY <1>1, <1>6, <2>2, <2>4, BinaryIs DEF EitherSide
  <2> QED BY <1>9, <2>3, <2>4 DEF AnyConnective
<1>10. ASSUME c.plain PROVE Implied(c)
  <2>1. CASE op \in AnyConnective
    BY <1>9, <1>10, <2>1 DEF Implied
  <2>2. CASE op \notin AnyConnective
    <3>1. c.expr.has \cap AnyConnective = {}
      BY <1>1, <1>2, <1>10, <2>2
    <3> QED BY <1>8, <3>1 DEF Unconnected, Implied
  <2> QED BY <2>1, <2>2
<1>11. OnlyDep(c)
  <2> SUFFICES ASSUME "N" \notin c.expr.has
               PROVE  (c.wf => Dependent(c.kept)) /\ (c.negwf => Dependent(c.negkept))
    BY DEF OnlyDep
  <2>1. /\ l.wf => Dependent(l.kept)
        /\ l.negwf => Dependent(l.negkept)
        /\ r.wf => Dependent(r.kept)
        /\ r.negwf => Dependent(r.negkept)
    BY <1>2 DEF Right, OnlyDep
  <2>2. \A e1, e2 : Dependent(e1) /\ Dependent(e2) => Dependent(Binary(op, e1, e2))
    <3>1. op # "null"
      BY DEF Known
    <3> QED BY <3>1, BinaryIs DEF Dependent
  <2>3. CASE op = "a"
    BY <1>5, <2>1, <2>2, <2>3 DEF EitherSide
  <2>4. CASE op = "o"
    BY <1>6, <2>1, <2>2, <2>4 DEF EitherSide
  <2> QED BY <1>3, <1>4, <1>7, <2>1, <2>2, <2>3, <2>4
<1>12. AllKept(c)
  <2> SUFFICES ASSUME c.expr.vars \subseteq Dep, c.expr.has \subseteq Known
               PROVE  c.wf /\ c.kept = c.expr /\ c.negwf /\ c.negkept = c.expr
    BY DEF AllKept
  <2>1. /\ l.wf /\ l.kept = l.expr /\ l.negwf /\ l.negkept = l.expr
        /\ r.wf /\ r.kept = r.expr /\ r.negwf /\ r.negkept = r.expr
    BY <1>2 DEF Right, AllKept
  <2>2. op # "+"
    BY <1>2 DEF Known
  <2> QED BY <1>1, <1>3, <1>5, <1>6, <1>7, <2>1, <2>2 DEF EitherSide
<1> QED BY <1>8, <1>10, <1>11, <1>12 DEF Right, c

-----------------------------------------------------------------------------
WellFormedInv == StackType /\ \A k \in 1 .. Len(stack) : Right(stack[k])

LEMMA OperandsRight == \A c \in Operands : c \in Conditions /\ Right(c)
<1>1. ASSUME NEW n \in Numbers
      PROVE  PENumber(n) \in Conditions /\ Right(PENumber(n))
  <2>1. Number(n) \in Exprs /\ Number(n).vars = {} /\ Number(n).has = {}
    BY ConditionAssumption DEF Number, Exprs
  <2> QED BY <2>1, WholeType, WholeRight DEF PENumber
<1>2. ASSUME NEW x \in Vars
      PROVE  PEIdent(x) \in Conditions /\ Right(PEIdent(x))
  <2>1. [s \in States |-> s[x]] \in [States -> Int]
    BY ConditionAssumption DEF States
  <2>2. Ident(x) \in Exprs /\ Ident(x).vars = {x} /\ Ident(x).has = {}
    BY <2>1 DEF Ident, Exprs
  <2>3. (x \in Dep) \in BOOLEAN
    OBVIOUS
  <2> QED BY <2>2, <2>3, WholeType, WholeRight DEF PEIdent
<1> QED BY <1>1, <1>2 DEF Operands

LEMMA UnaryRight ==
  ASSUME NEW op \in {"N", "!"}, NEW c \in Conditions
  PROVE  PEUnary(op, c.expr) \in Conditions /\ Right(PEUnary(op, c.expr))
<1>1. c.expr \in Exprs
  BY DEF Conditions
<1>2. Unary(op, c.expr) \in Exprs /\ Unary(op, c.expr).has = {op}
  BY <1>1, UnaryType DEF Unary
<1>3. (op = "N") \in BOOLEAN /\ op \notin Known /\ "null" # op
  BY DEF Known
<1> QED BY <1>2, <1>3, WholeType, WholeRight DEF PEUnary

(* A step of the parser leaves what it does not take, and puts one on top. *)
LEMMA PutOnTop ==
  ASSUME WellFormedInv, NEW m \in 0 .. Len(stack), NEW c \in Conditions, Right(c),
         stack' = Append(SubSeq(stack, 1, m), c)
  PROVE  WellFormedInv'
<1>1. /\ SubSeq(stack, 1, m) \in Seq(Conditions) /\ Len(SubSeq(stack, 1, m)) = m
      /\ \A k \in 1 .. m : SubSeq(stack, 1, m)[k] = stack[k]
  BY DEF WellFormedInv, StackType
<1> DEFINE kept == SubSeq(stack, 1, m)
<1> HIDE DEF kept
<1>2. /\ Append(kept, c) \in Seq(Conditions) /\ Len(Append(kept, c)) = m + 1
      /\ \A k \in 1 .. m + 1 : Append(kept, c)[k] = IF k = m + 1 THEN c ELSE kept[k]
  BY <1>1 DEF kept
<1>3. \A k \in 1 .. m : Right(stack[k])
  BY DEF WellFormedInv, StackType
<1>4. ASSUME NEW k \in 1 .. m + 1 PROVE Right(Append(kept, c)[k])
  <2>1. CASE k = m + 1
    <3>1. Append(kept, c)[k] = c
      BY <1>2, <2>1
    <3> QED BY <3>1
  <2>2. CASE k \in 1 .. m
    <3>1. Append(kept, c)[k] = stack[k]
      BY <1>1, <1>2, <2>2 DEF kept
    <3> QED BY <1>3, <2>2, <3>1
  <2>3. k = m + 1 \/ k \in 1 .. m
    <3>1. m \in Nat
      BY DEF WellFormedInv, StackType
    <3> QED BY <3>1
  <2> QED BY <2>1, <2>2, <2>3, Zenon
<1>5. stack' = Append(kept, c)
  BY DEF kept
<1> QED BY <1>2, <1>4, <1>5 DEF WellFormedInv, StackType

LEMMA ParsedRight == Spec => []WellFormedInv
<1>1. Init => WellFormedInv
  BY DEF Init, WellFormedInv, StackType
<1>2. WellFormedInv /\ [Next]_vars => WellFormedInv'
  <2> SUFFICES ASSUME WellFormedInv, [Next]_vars PROVE WellFormedInv'
    OBVIOUS
  <2>1. stack \in Seq(Conditions) /\ Len(stack) \in Nat
    BY DEF WellFormedInv, StackType
  <2>2. ASSUME NEW c \in Operands, Shift(c) PROVE WellFormedInv'
    <3>1. SubSeq(stack, 1, Len(stack)) = stack
      BY <2>1
    <3>2. stack' = Append(SubSeq(stack, 1, Len(stack)), c) /\ Len(stack) \in 0 .. Len(stack)
      BY <2>1, <2>2, <3>1 DEF Shift
    <3> QED BY <3>2, OperandsRight, PutOnTop
  <2>3. ASSUME NEW op \in {"N", "!"}, ReduceUnary(op) PROVE WellFormedInv'
    <3>1. FromTop(0) \in Conditions /\ Len(stack) - 1 \in 0 .. Len(stack)
      BY <2>1, <2>3 DEF ReduceUnary, FromTop
    <3>2. stack' = Append(SubSeq(stack, 1, Len(stack) - 1),
                          PEUnary(op, FromTop(0).expr))
      BY <2>3 DEF ReduceUnary, Reduce
    <3> QED BY <3>1, <3>2, UnaryRight, PutOnTop
  <2>4. ASSUME NEW op \in Known \cup {"+"}, ReduceBinary(op) PROVE WellFormedInv'
    <3>1. Len(stack) \in 1 .. Len(stack) /\ Len(stack) - 1 \in 1 .. Len(stack)
      BY <2>1, <2>4 DEF ReduceBinary
    <3>2. /\ FromTop(0) = stack[Len(stack)] /\ FromTop(1) = stack[Len(stack) - 1]
          /\ Len(stack) - 2 \in 0 .. Len(stack)
      BY <2>1, <3>1 DEF FromTop
    <3>3. /\ FromTop(0) \in Conditions /\ FromTop(1) \in Conditions
          /\ Right(FromTop(0)) /\ Right(FromTop(1))
      BY <2>1, <3>1, <3>2 DEF WellFormedInv
    <3>4. stack' = Append(SubSeq(stack, 1, Len(stack) - 2),
                          PEBinary(op, FromTop(1), FromTop(0)))
      BY <2>4 DEF ReduceBinary, Reduce
    <3> QED BY <3>2, <3>3, <3>4, ConnectType, ConnectRight, PutOnTop
  <2>5. CASE UNCHANGED vars
    BY <2>5 DEF vars, WellFormedInv, StackType
  <2> QED BY <2>2, <2>3, <2>4, <2>5 DEF Next
<1> QED BY <1>1, <1>2, PTL DEF Spec

(* What is kept of a condition follows from it, however deep && and || are *)
(* nested: the half that is dropped is never one that was needed.          *)
THEOREM KeptFollows == Spec => []PlainImplied
<1>1. WellFormedInv => PlainImplied
  BY DEF WellFormedInv, PlainImplied, Parsed, Right
<1> QED BY <1>1, ParsedRight, PTL

(* What is kept names declared variables only, and no null pointer hides   *)
(* in it.                                                                  *)
THEOREM KeptIsDeclared == Spec => []OnlyDependent
<1>1. WellFormedInv => OnlyDependent
  BY DEF WellFormedInv, OnlyDependent, Parsed, Right, OnlyDep
<1> QED BY <1>1, ParsedRight, PTL

(* A condition the checker understands is kept whole.                      *)
THEOREM UnderstoodIsKept == Spec => []KeptWhole
<1>1. WellFormedInv => KeptWhole
  BY DEF WellFormedInv, KeptWhole, Parsed, Right, AllKept
<1> QED BY <1>1, ParsedRight, PTL

-----------------------------------------------------------------------------
(* The merge of facts. *)

Facts(hs) == hs \in Seq(Hypotheses)

MergeTypeOK ==
  /\ Facts(first) /\ Facts(second)
  /\ i \in 1 .. Len(first) + 1
  /\ j \in 1 .. Len(second) + 1

(* Sequences of facts, and elements of them. *)
LEMMA FactsAt ==
  ASSUME MergeTypeOK
  PROVE  /\ Len(first) \in Nat /\ Len(second) \in Nat
         /\ ToSet(first) = {first[k] : k \in 1 .. Len(first)}
         /\ ToSet(second) = {second[k] : k \in 1 .. Len(second)}
         /\ \A k \in 1 .. Len(first) : first[k] \in Hypotheses /\ Text[first[k]] \in Int
         /\ \A k \in 1 .. Len(second) : second[k] \in Hypotheses /\ Text[second[k]] \in Int
<1>1. /\ Len(first) \in Nat /\ DOMAIN first = 1 .. Len(first)
      /\ Len(second) \in Nat /\ DOMAIN second = 1 .. Len(second)
      /\ \A k \in 1 .. Len(first) : first[k] \in Hypotheses
      /\ \A k \in 1 .. Len(second) : second[k] \in Hypotheses
  BY DEF MergeTypeOK, Facts
<1>2. \A h \in Hypotheses : Text[h] \in Int
  BY MergeAssumption
<1> QED BY <1>1, <1>2 DEF ToSet

(* The sets are iterated from their beginnings. *)
LEMMA MergeStarts == MergeInit => MergeTypeOK
<1> SUFFICES ASSUME MergeInit PROVE MergeTypeOK
  OBVIOUS
<1> DEFINE N == Cardinality(Hypotheses)
<1>1. \A a : \A hs \in ByAddress(a) : hs \in Seq(Hypotheses)
  <2> SUFFICES ASSUME NEW a, NEW n \in 0 .. N, NEW hs \in [1 .. n -> Hypotheses]
               PROVE  hs \in Seq(Hypotheses)
    BY DEF ByAddress
  <2>1. n \in Nat
    BY MergeAssumption, FS_CardinalityType
  <2> QED BY <2>1
<1>2. Facts(first) /\ Facts(second)
  BY <1>1 DEF MergeInit, Facts
<1>3. Len(first) \in Nat /\ Len(second) \in Nat
  BY <1>2 DEF Facts
<1> QED BY <1>2, <1>3 DEF MergeInit, MergeTypeOK

LEMMA MergeTypeStep == MergeTypeOK /\ [MergeNext]_mergeVars => MergeTypeOK'
<1> SUFFICES ASSUME MergeTypeOK, [MergeNext]_mergeVars PROVE MergeTypeOK'
  OBVIOUS
<1>1. Len(first) \in Nat /\ Len(second) \in Nat
  BY FactsAt
<1>2. CASE SkipFirst
  BY <1>1, <1>2 DEF SkipFirst, More, MergeTypeOK, Facts
<1>3. CASE SkipSecond
  BY <1>1, <1>3 DEF SkipSecond, More, MergeTypeOK, Facts
<1>4. CASE Take
  BY <1>1, <1>4 DEF Take, More, MergeTypeOK, Facts
<1>5. CASE UNCHANGED mergeVars
  BY <1>5 DEF mergeVars, MergeTypeOK, Facts
<1> QED BY <1>2, <1>3, <1>4, <1>5 DEF MergeNext

LEMMA TakeCommon ==
  ASSUME MergeTypeOK, Take
  PROVE  first[i] \in ToSet(first) /\ Text[first[i]] \in Common
<1>1. i \in 1 .. Len(first) /\ j \in 1 .. Len(second)
  BY FactsAt DEF MergeTypeOK, Take, More
<1>2. Text[first[i]] = Text[second[j]]
  BY <1>1, FactsAt DEF Take, Less
<1>3. first[i] \in ToSet(first) /\ second[j] \in ToSet(second)
  BY <1>1, FactsAt
<1> QED BY <1>2, <1>3 DEF Common, Texts

(* Whatever the order of the sets in memory, a fact is kept only if both   *)
(* branches end with one of the same text: std::set_intersection, called   *)
(* as PCondit::merge calls it, loses facts but makes none up.              *)
THEOREM NoFactMadeUp == MergeSpec => []OnlyCommon
<1> DEFINE IInv == MergeTypeOK /\ OnlyCommon
<1>1. MergeInit => IInv
  BY MergeStarts DEF MergeInit, OnlyCommon, Texts
<1>2. IInv /\ [MergeNext]_mergeVars => IInv'
  <2> SUFFICES ASSUME MergeTypeOK, OnlyCommon, [MergeNext]_mergeVars PROVE OnlyCommon'
    BY MergeTypeStep
  <2>1. CASE Take
    <3>1. ret' = ret \cup {first[i]} /\ UNCHANGED <<first, second>>
      BY <2>1 DEF Take
    <3>2. Texts(ret') = Texts(ret) \cup {Text[first[i]]}
      BY <3>1 DEF Texts
    <3> QED BY <2>1, <3>1, <3>2, TakeCommon DEF OnlyCommon, Common
  <2>2. CASE SkipFirst \/ SkipSecond \/ UNCHANGED mergeVars
    BY <2>2 DEF SkipFirst, SkipSecond, mergeVars, OnlyCommon, Common
  <2> QED BY <2>1, <2>2 DEF MergeNext
<1> QED BY <1>1, <1>2, PTL DEF MergeSpec

(* What is left of the two sets still has every common text that is not    *)
(* among the facts kept, if they are in the order of the texts; and if the *)
(* sets are one, the iterators go together and all they passed is kept.    *)
Left ==
  \A t \in Common \ Texts(ret) :
    \E k \in i .. Len(first), l \in j .. Len(second) :
      Text[first[k]] = t /\ Text[second[l]] = t
InOrder == Ascending(first) /\ Ascending(second) => Left
Together == first = second => i = j /\ \A k \in 1 .. i - 1 : first[k] \in ret

LEMMA InOrderStep ==
  ASSUME MergeTypeOK, Left, Ascending(first), Ascending(second), MergeNext
  PROVE  Left'
<1>1. UNCHANGED <<first, second, Common>>
  BY DEF MergeNext, SkipFirst, SkipSecond, Take, Common
<1>2. Texts(ret) \subseteq Texts(ret')
  BY DEF MergeNext, SkipFirst, SkipSecond, Take, Texts
<1>3. i \in 1 .. Len(first) /\ j \in 1 .. Len(second)
  BY FactsAt DEF MergeTypeOK, MergeNext, SkipFirst, SkipSecond, Take, More
<1> SUFFICES ASSUME NEW t \in Common, t \notin Texts(ret')
             PROVE  \E k \in i' .. Len(first), l \in j' .. Len(second) :
                      Text[first[k]] = t /\ Text[second[l]] = t
  BY <1>1 DEF Left
<1>4. PICK k \in i .. Len(first), l \in j .. Len(second) :
        Text[first[k]] = t /\ Text[second[l]] = t
  BY <1>2 DEF Left
<1>5. /\ k \in 1 .. Len(first) /\ l \in 1 .. Len(second)
      /\ Text[first[i]] \in Int /\ Text[second[j]] \in Int /\ t \in Int
  BY <1>3, <1>4, FactsAt
<1>6. Text[first[i]] <= t
  <2>1. CASE k = i
    BY <2>1, <1>4, <1>5
  <2>2. CASE k # i
    <3>1. i < k
      BY <2>2, <1>3, <1>5
    <3>2. ~Less(first[k], first[i])
      BY <3>1, <1>3, <1>5 DEF Ascending
    <3> QED BY <3>2, <1>4, <1>5 DEF Less
  <2> QED BY <2>1, <2>2
<1>7. Text[second[j]] <= t
  <2>1. CASE l = j
    BY <2>1, <1>4, <1>5
  <2>2. CASE l # j
    <3>1. j < l
      BY <2>2, <1>3, <1>5
    <3>2. ~Less(second[l], second[j])
      BY <3>1, <1>3, <1>5 DEF Ascending
    <3> QED BY <3>2, <1>4, <1>5 DEF Less
  <2> QED BY <2>1, <2>2
<1>8. CASE SkipFirst
  <2>1. i' = i + 1 /\ j' = j /\ Text[first[i]] < Text[second[j]]
    BY <1>8 DEF SkipFirst, Less
  <2>2. k # i
    BY <2>1, <1>4, <1>5, <1>7
  <2> QED BY <2>1, <2>2, <1>3, <1>4, <1>5
<1>9. CASE SkipSecond
  <2>1. i' = i /\ j' = j + 1 /\ Text[second[j]] < Text[first[i]]
    BY <1>9 DEF SkipSecond, Less
  <2>2. l # j
    BY <2>1, <1>4, <1>5, <1>6
  <2> QED BY <2>1, <2>2, <1>3, <1>4, <1>5
<1>10. CASE Take
  <2>1. i' = i + 1 /\ j' = j + 1 /\ Text[first[i]] = Text[second[j]]
    BY <1>10, <1>5 DEF Take, Less
  <2>2. Text[first[i]] \in Texts(ret')
    BY <1>10 DEF Take, Texts
  <2>3. k # i /\ l # j
    BY <2>1, <2>2, <1>4
  <2> QED BY <2>1, <2>3, <1>3, <1>4, <1>5
<1> QED BY <1>8, <1>9, <1>10 DEF MergeNext

LEMMA TogetherStep ==
  ASSUME MergeTypeOK, Together, first = second, MergeNext
  PROVE  i' = j' /\ \A k \in 1 .. i' - 1 : first[k] \in ret'
<1>1. i = j /\ i \in 1 .. Len(first) /\ \A k \in 1 .. i - 1 : first[k] \in ret
  BY FactsAt DEF MergeTypeOK, Together, MergeNext, SkipFirst, SkipSecond, Take, More
<1>2. Text[first[i]] \in Int /\ first[i] = second[j]
  BY <1>1, FactsAt
<1>3. ~Less(first[i], second[j]) /\ ~Less(second[j], first[i])
  BY <1>2 DEF Less
<1>4. i' = i + 1 /\ j' = j + 1 /\ ret' = ret \cup {first[i]}
  BY <1>3 DEF MergeNext, SkipFirst, SkipSecond, Take
<1>5. \A k \in 1 .. i' - 1 : k = i \/ k \in 1 .. i - 1
  BY <1>1, <1>4
<1> QED BY <1>1, <1>4, <1>5

(* No common fact is lost if neither branch changed the facts, or if the   *)
(* sets happen to lie in memory in the order of their texts.               *)
THEOREM MergeKeeps == MergeSpec => []OrderedMerge
<1> DEFINE IInv == MergeTypeOK /\ OnlyCommon /\ InOrder /\ Together
<1>1. MergeInit => InOrder /\ Together
  <2> SUFFICES ASSUME MergeInit PROVE Left /\ Together
    BY DEF InOrder
  <2>1. Left
    BY MergeStarts, FactsAt DEF MergeInit, Left, Common, Texts
  <2>2. Together
    BY DEF MergeInit, Together
  <2> QED BY <2>1, <2>2
<1>2. MergeTypeOK /\ InOrder /\ Together /\ [MergeNext]_mergeVars => InOrder' /\ Together'
  <2> SUFFICES ASSUME MergeTypeOK, InOrder, Together, [MergeNext]_mergeVars
               PROVE  InOrder' /\ Together'
    OBVIOUS
  <2>1. CASE MergeNext
    <3>1. UNCHANGED <<first, second>>
      BY <2>1 DEF MergeNext, SkipFirst, SkipSecond, Take
    <3>2. (Ascending(first) /\ Ascending(second))' <=> Ascending(first) /\ Ascending(second)
      BY <3>1
    <3>3. InOrder'
      BY <2>1, <3>2, InOrderStep DEF InOrder
    <3>4. Together'
      BY <2>1, <3>1, TogetherStep DEF Together
    <3> QED BY <3>3, <3>4
  <2>2. CASE UNCHANGED mergeVars
    <3>1. InOrder'
      <4>1. Left' <=> Left
        BY <2>2 DEF mergeVars, Left, Common, Texts
      <4>2. (Ascending(first) /\ Ascending(second))' <=> Ascending(first) /\ Ascending(second)
        BY <2>2 DEF mergeVars
      <4> QED BY <4>1, <4>2 DEF InOrder
    <3>2. Together'
      BY <2>2, Zenon DEF mergeVars, Together
    <3> QED BY <3>1, <3>2
  <2> QED BY <2>1, <2>2
<1>3. IInv => OrderedMerge
  <2> SUFFICES ASSUME IInv, ~More, first = second \/ (Ascending(first) /\ Ascending(second))
               PROVE  Common \subseteq Texts(ret)
    BY DEF OrderedMerge, OnlyCommon
  <2>1. i = Len(first) + 1 \/ j = Len(second) + 1
    BY FactsAt DEF More, MergeTypeOK
  <2>2. CASE Ascending(first) /\ Ascending(second)
    BY <2>1, <2>2, FactsAt DEF InOrder, Left
  <2>3. CASE first = second
    <3>1. \A k \in 1 .. Len(first) : first[k] \in ret
      BY <2>1, <2>3, FactsAt DEF Together
    <3>2. ToSet(first) \subseteq ret
      BY <3>1, FactsAt
    <3> QED BY <3>2 DEF Common, Texts
  <2> QED BY <2>2, <2>3
<1>4. MergeSpec => []MergeTypeOK
  BY MergeStarts, MergeTypeStep, PTL DEF MergeSpec
<1> QED BY <1>1, <1>2, <1>3, <1>4, NoFactMadeUp, PTL DEF MergeSpec

-----------------------------------------------------------------------------
(* Induction, for sets of numbers. *)

LEMMA NatLessWellFounded == IsWellFoundedOn({ss \in Nat \X Nat : ss[1] < ss[2]}, Nat)
  BY NatLessThanWellFounded DEF OpToRel

LEMMA Smallest ==
  ASSUME NEW S \in SUBSET Nat, S # {}
  PROVE  \E x \in S : \A y \in S : x <= y
<1> DEFINE R == {ss \in Nat \X Nat : ss[1] < ss[2]}
<1>1. IsWellFoundedOn(R, Nat)
  BY NatLessWellFounded
<1>2. \A x, y \in Nat : ~(<<y, x>> \in R) => x <= y
  OBVIOUS
<1> HIDE DEF R
<1>3. PICK x \in S : \A y \in S : ~(<<y, x>> \in R)
  BY <1>1, WFMin
<1>4. \A y \in S : x <= y
  BY <1>2, <1>3
<1> QED BY <1>4

LEMMA UpToInduction ==
  ASSUME NEW n \in Nat, NEW S, 0 \in S, \A k \in 1 .. n : k - 1 \in S => k \in S
  PROVE  0 .. n \subseteq S
<1> SUFFICES ASSUME ~(0 .. n \subseteq S) PROVE FALSE
  OBVIOUS
<1>1. (0 .. n) \ S \in SUBSET Nat /\ (0 .. n) \ S # {}
  OBVIOUS
<1>2. PICK x \in (0 .. n) \ S : \A y \in (0 .. n) \ S : x <= y
  BY <1>1, Smallest
<1>3. x # 0
  BY <1>2
<1>4. x \in 1 .. n /\ x - 1 \in 0 .. n /\ ~(x <= x - 1)
  BY <1>2, <1>3
<1>5. x - 1 \in S
  BY <1>2, <1>4
<1> QED BY <1>2, <1>4, <1>5

-----------------------------------------------------------------------------
(* Renaming. *)

LEMMA LastRankType == LastRank \in Nat
  BY NameAssumption

(* The recursion of the renamings has a value. *)
LEMMA SubstUpToIs ==
  ASSUME NEW ty, NEW subst
  PROVE  \A k \in 0 .. LastRank :
           SubstUpTo(ty, subst)[k] =
             IF k = 0 THEN ty ELSE SubstName(SubstUpTo(ty, subst)[k - 1], subst, k)
<1> DEFINE At(f, k)   == IF k = 0 THEN ty ELSE SubstName(f[k - 1], subst, k)
           IsUpTo(f, n) == \A k \in 0 .. n : f[k] = At(f, k)
           S == {n \in Nat : \E f : f = [k \in 0 .. n |-> f[k]] /\ IsUpTo(f, n)}
<1>1. 0 \in S
  <2> DEFINE f == [k \in 0 .. 0 |-> ty]
  <2>1. f = [k \in 0 .. 0 |-> f[k]] /\ IsUpTo(f, 0)
    OBVIOUS
  <2> QED BY <2>1
<1>2. ASSUME NEW n \in 1 .. LastRank, n - 1 \in S PROVE n \in S
  <2>1. PICK f : f = [k \in 0 .. n - 1 |-> f[k]] /\ IsUpTo(f, n - 1)
    BY <1>2
  <2> DEFINE g == [k \in 0 .. n |-> IF k = n THEN SubstName(f[n - 1], subst, n) ELSE f[k]]
  <2>2. n \in Nat /\ g = [k \in 0 .. n |-> g[k]]
    BY LastRankType
  <2>3. ASSUME NEW k \in 0 .. n PROVE g[k] = At(g, k)
    <3>1. CASE k = n
      <4>1. g[k] = SubstName(f[n - 1], subst, n) /\ g[n - 1] = f[n - 1] /\ n # 0
        BY <3>1, LastRankType
      <4> QED BY <3>1, <4>1
    <3>2. CASE k # n
      <4>1. k \in 0 .. n - 1 /\ g[k] = f[k] /\ (k # 0 => g[k - 1] = f[k - 1])
        BY <3>2, LastRankType
      <4> HIDE DEF g
      <4> QED BY <2>1, <4>1
    <3> QED BY <3>1, <3>2
  <2> HIDE DEF g
  <2>4. IsUpTo(g, n)
    BY <2>3
  <2> QED BY <2>2, <2>4
<1>3. LastRank \in S
  <2> HIDE DEF S
  <2>1. 0 .. LastRank \subseteq S
    BY <1>1, <1>2, LastRankType, UpToInduction
  <2> QED BY <2>1, LastRankType
<1>4. PICK f : f = [k \in 0 .. LastRank |-> f[k]] /\ IsUpTo(f, LastRank)
  BY <1>3
<1>5. f = [k \in 0 .. LastRank |-> IF k = 0 THEN ty ELSE SubstName(f[k - 1], subst, k)]
  BY <1>4
<1>6. SubstUpTo(ty, subst) =
        [k \in 0 .. LastRank |->
           IF k = 0 THEN ty ELSE SubstName(SubstUpTo(ty, subst)[k - 1], subst, k)]
  BY <1>5 DEF SubstUpTo
<1> QED BY <1>6

(* What holds of a label, and after each renaming if it did before, holds  *)
(* of the renamed label.                                                   *)
LEMMA RenamedHas ==
  ASSUME NEW ty, NEW subst, NEW S, ty \in S,
         \A k \in 1 .. LastRank : \A t \in S : SubstName(t, subst, k) \in S
  PROVE  SubstAll(ty, subst) \in S
<1> DEFINE K == {k \in 0 .. LastRank : SubstUpTo(ty, subst)[k] \in S}
<1>1. 0 \in K
  BY LastRankType, SubstUpToIs
<1>2. ASSUME NEW k \in 1 .. LastRank, k - 1 \in K PROVE k \in K
  <2>1. SubstUpTo(ty, subst)[k] = SubstName(SubstUpTo(ty, subst)[k - 1], subst, k)
    BY LastRankType, SubstUpToIs
  <2> QED BY <1>2, <2>1, LastRankType
<1> HIDE DEF K
<1>3. LastRank \in K
  <2>1. 0 .. LastRank \subseteq K
    BY <1>1, <1>2, LastRankType, UpToInduction
  <2> QED BY <2>1, LastRankType
<1> QED BY <1>3 DEF K, SubstAll

(* A label and the label after renamings that keep the value of every name *)
(* are the same.                                                           *)
LEMMA RenamedMeans ==
  ASSUME NEW S, NEW ty \in Type(Names), NEW subst,
         \A n \in DOMAIN subst : subst[n] \in Names /\ S[subst[n]] = S[n]
  PROVE  /\ SubstAll(ty, subst) \in Type(Names)
         /\ LabelIn(SubstAll(ty, subst), S) = LabelIn(ty, S)
<1> DEFINE Kept == {t \in Type(Names) : LabelIn(t, S) = LabelIn(ty, S)}
<1>1. ASSUME NEW k \in 1 .. LastRank, NEW t \in Kept PROVE SubstName(t, subst, k) \in Kept
  <2>1. CASE SubstName(t, subst, k) = t
    BY <2>1
  <2>2. CASE SubstName(t, subst, k) # t
    <3>1. /\ t[1] = "dep" /\ t[2] \in DOMAIN subst
          /\ SubstName(t, subst, k) = <<"dep", subst[t[2]]>>
      BY <2>2 DEF SubstName
    <3>2. LabelIn(SubstName(t, subst, k), S) = LabelIn(t, S)
      BY <3>1 DEF LabelIn
    <3> QED BY <3>1, <3>2 DEF Type
  <2> QED BY <2>1, <2>2
<1>2. SubstAll(ty, subst) \in Kept
  <2> HIDE DEF Kept
  <2>1. ty \in Kept
    BY DEF Kept
  <2> QED BY <1>1, <2>1, RenamedHas
<1> QED BY <1>2

InstTypeOK ==
  /\ param \in [Pins -> Wires]
  /\ pinType \in [Pins -> Type(Pins)]
  /\ wireType \in [Wires -> Type(Wires)]
  /\ dir \in [Pins -> Directions]
  /\ pending \subseteq Pins /\ accepted \subseteq Pins

LEMMA InstTypes == InstSpec => []InstTypeOK
<1>1. InstInit => InstTypeOK
  BY DEF InstInit, InstTypeOK
<1>2. InstTypeOK /\ [InstNext]_instVars => InstTypeOK'
  BY DEF InstTypeOK, InstNext, Check, instVars
<1> QED BY <1>1, <1>2, PTL DEF InstSpec

(* A connected wire has a last pin. *)
LEMMA LastPinIs ==
  ASSUME NEW w \in Connected
  PROVE  LastPin(w) \in Pins /\ param[LastPin(w)] = w
<1> DEFINE Above == {LastRank - Name[p] : p \in PinsOf(w)}
<1>1. \A p \in Pins : Name[p] \in 1 .. LastRank
  BY NameAssumption DEF Names
<1>2. Above \in SUBSET Nat /\ Above # {}
  BY <1>1, LastRankType DEF PinsOf, Connected
<1>3. PICK least \in Above : \A d \in Above : least <= d
  <2> HIDE DEF Above
  <2> QED BY <1>2, Smallest
<1>4. PICK p \in PinsOf(w) : least = LastRank - Name[p]
  BY <1>3
<1>5. \A q \in PinsOf(w) : Name[q] <= Name[p]
  <2>1. p \in Pins
    BY <1>4 DEF PinsOf
  <2> SUFFICES ASSUME NEW q \in PinsOf(w) PROVE Name[q] <= Name[p]
    OBVIOUS
  <2>2. q \in Pins /\ LastRank - Name[q] \in Above
    BY DEF PinsOf
  <2>3. LastRank - Name[p] <= LastRank - Name[q]
    BY <1>3, <1>4, <2>2
  <2> QED BY <1>1, <2>1, <2>2, <2>3, LastRankType
<1>6. LastPin(w) \in PinsOf(w)
  BY <1>4, <1>5 DEF LastPin
<1> QED BY <1>6 DEF PinsOf

(* What the names of both modules stand for in a state of the surroundings. *)
Joint(s) == [n \in Names |-> IF n \in Pins THEN s[param[n]] ELSE s[n]]

LEMMA JointIs ==
  ASSUME InstTypeOK, OneMeaning, NEW s \in Outside
  PROVE  /\ Joint(s) \in [Names -> {0, 1}]
         /\ \A w \in Wires : Joint(s)[w] = s[w]
         /\ \A p \in Pins : Joint(s)[p] = s[param[p]]
  BY DEF InstTypeOK, OneMeaning, Outside, Joint, Names

LEMMA LabelsRenamed ==
  ASSUME InstTypeOK, OneMeaning, NEW s \in Outside, NEW p \in Pins
  PROVE  /\ LabelIn(RenamedPin(p), Joint(s)) = LabelIn(pinType[p], Inside(s))
         /\ LabelIn(RenamedWire(param[p]), Joint(s)) = LabelIn(wireType[param[p]], s)
<1>1. /\ param[p] \in Wires
      /\ pinType[p] \in Type(Pins) /\ wireType[param[p]] \in Type(Wires)
      /\ \A q \in Pins : param[q] \in Wires /\ param[q] \in Names /\ q \in Names
  BY DEF InstTypeOK, Names
<1>2. /\ Type(Pins) \subseteq Type(Names) /\ Type(Wires) \subseteq Type(Names)
      /\ \A ns : \A ty \in Type(ns) : ty[1] = "const" \/ ty[2] \in ns
  BY DEF Type, Names
<1>3. \A n \in DOMAIN PinSubst : PinSubst[n] \in Names /\ Joint(s)[PinSubst[n]] = Joint(s)[n]
  BY <1>1, JointIs DEF PinSubst
<1>4. \A w \in DOMAIN ParaSubst : ParaSubst[w] \in Names /\ Joint(s)[ParaSubst[w]] = Joint(s)[w]
  <2> SUFFICES ASSUME NEW w \in Connected
               PROVE  ParaSubst[w] \in Names /\ Joint(s)[ParaSubst[w]] = Joint(s)[w]
    BY DEF ParaSubst
  <2>1. w \in Wires /\ w \in Names
    BY <1>1 DEF Connected, Names
  <2>2. LastPin(w) \in Names /\ Joint(s)[LastPin(w)] = s[w]
    BY <1>1, LastPinIs, JointIs
  <2>3. ParaSubst[w] = LastPin(w) \/ ParaSubst[w] = w
    BY DEF ParaSubst
  <2> QED BY <2>1, <2>2, <2>3, JointIs
<1>5. LabelIn(RenamedPin(p), Joint(s)) = LabelIn(pinType[p], Joint(s))
  BY <1>1, <1>2, <1>3, RenamedMeans DEF RenamedPin
<1>6. LabelIn(RenamedWire(param[p]), Joint(s)) = LabelIn(wireType[param[p]], Joint(s))
  BY <1>1, <1>2, <1>4, RenamedMeans DEF RenamedWire
<1>7. LabelIn(pinType[p], Joint(s)) = LabelIn(pinType[p], Inside(s))
  BY <1>1, <1>2, JointIs DEF LabelIn, Inside
<1>8. LabelIn(wireType[param[p]], Joint(s)) = LabelIn(wireType[param[p]], s)
  BY <1>1, <1>2, JointIs DEF LabelIn
<1> QED BY <1>5, <1>6, <1>7, <1>8

(* The checker has accepted what it accepts, and nothing else.             *)
Settled == \A p \in Pins \ pending : p \in accepted <=> Accepts(p)

LEMMA InstSettled == InstSpec => [](Settled /\ pending \cap accepted = {})
<1> DEFINE IInv == Settled /\ pending \cap accepted = {}
<1>1. InstInit => IInv
  BY DEF InstInit, Settled
<1>2. InstTypeOK /\ IInv /\ [InstNext]_instVars => IInv'
  <2> SUFFICES ASSUME InstTypeOK, IInv, [InstNext]_instVars PROVE IInv'
    OBVIOUS
  <2>1. ASSUME NEW p \in Pins, Check(p) PROVE IInv'
    <3>1. UNCHANGED <<param, dir, pinType, wireType>>
      BY <2>1 DEF Check
    <3>2. \A q \in Pins : Accepts(q)' <=> Accepts(q)
      BY <3>1 DEF Accepts, Constraint, ConstraintOfUse, ConstraintOfDef, Declared, RenamedPin,
                  RenamedWire, PinSubst, ParaSubst, Connected, LastPin, PinsOf, Inputs, Outputs
    <3>3. pending' = pending \ {p}
      BY <2>1 DEF Check
    <3>4. CASE Accepts(p)
      <4>1. accepted' = accepted \cup {p}
        BY <2>1, <3>4 DEF Check
      <4> QED BY <3>2, <3>3, <3>4, <4>1 DEF Settled
    <3>5. CASE ~Accepts(p)
      <4>1. accepted' = accepted /\ p \notin accepted
        BY <2>1, <3>5 DEF Check
      <4> QED BY <3>2, <3>3, <3>5, <4>1 DEF Settled
    <3> QED BY <3>4, <3>5
  <2>2. CASE UNCHANGED instVars
    <3>1. UNCHANGED <<param, dir, pinType, wireType, pending, accepted>>
      BY <2>2 DEF instVars
    <3>2. \A q \in Pins : Accepts(q)' <=> Accepts(q)
      BY <3>1 DEF Accepts, Constraint, ConstraintOfUse, ConstraintOfDef, Declared, RenamedPin,
                  RenamedWire, PinSubst, ParaSubst, Connected, LastPin, PinsOf, Inputs, Outputs
    <3> QED BY <3>1, <3>2 DEF Settled
  <2> QED BY <2>1, <2>2 DEF InstNext
<1> QED BY <1>1, <1>2, InstTypes, PTL DEF InstSpec

(* An accepted connection is safe in every state the two modules can be in *)
(* together, whatever the labels on either side depend on and however many *)
(* renamings it takes to compare them, unless two variables have one name. *)
(* (Of what flows out through an inout nothing is checked.)                *)
THEOREM ConnectionsSound ==
  ASSUME "inout" \notin Directions
  PROVE  InstSpec => []AcceptedConnects
<1>1. InstTypeOK /\ Settled /\ pending \cap accepted = {} => AcceptedConnects
  <2> SUFFICES ASSUME InstTypeOK, Settled, pending \cap accepted = {}, OneMeaning,
                      NEW p \in accepted
               PROVE  /\ p \in Inputs => FlowsIn(p)
                      /\ p \in Outputs => FlowsOut(p)
    BY DEF AcceptedConnects
  <2>1. p \in Pins /\ Constraint(p)
    BY DEF InstTypeOK, Settled, Accepts
  <2>2. ASSUME p \in Inputs PROVE FlowsIn(p)
    <3> SUFFICES ASSUME NEW s \in Outside
                 PROVE  <<LabelIn(wireType[param[p]], s), LabelIn(pinType[p], Inside(s))>> \in FlowsTo
      BY DEF FlowsIn
    <3>1. <<LabelIn(RenamedWire(param[p]), Joint(s)), LabelIn(RenamedPin(p), Joint(s))>> \in FlowsTo
      BY <2>1, <2>2, JointIs DEF Constraint, ConstraintOfUse, Below
    <3> QED BY <2>1, <3>1, LabelsRenamed
  <2>3. ASSUME p \in Outputs PROVE FlowsOut(p)
    <3> SUFFICES ASSUME NEW s \in Outside
                 PROVE  <<LabelIn(pinType[p], Inside(s)), LabelIn(wireType[param[p]], s)>> \in FlowsTo
      BY DEF FlowsOut
    <3>1. p \notin Inputs
      BY <2>1, <2>3 DEF Inputs, Outputs, InstTypeOK
    <3>2. <<LabelIn(RenamedPin(p), Joint(s)), LabelIn(RenamedWire(param[p]), Joint(s))>> \in FlowsTo
      BY <2>1, <3>1, JointIs DEF Constraint, ConstraintOfDef, Below
    <3> QED BY <2>1, <3>2, LabelsRenamed
  <2> QED BY <2>2, <2>3
<1> QED BY <1>1, InstTypes, InstSettled, PTL

(* A label none of whose names is renamed to another one. *)
LEMMA NotRenamed ==
  ASSUME NEW ns, NEW ty \in Type(ns), NEW subst,
         ty[1] = "dep" /\ ty[2] \in DOMAIN subst => subst[ty[2]] = ty[2]
  PROVE  SubstAll(ty, subst) = ty
<1>1. ASSUME NEW k \in 1 .. LastRank PROVE SubstName(ty, subst, k) = ty
  <2>1. ty[1] = "dep" => ty = <<"dep", ty[2]>>
    BY DEF Type
  <2> QED BY <2>1 DEF SubstName
<1>2. SubstAll(ty, subst) \in {ty}
  BY <1>1, RenamedHas
<1> QED BY <1>2

(* A pin's own name is renamed to that of the wire, at its rank and for good. *)
LEMMA OwnName ==
  ASSUME InstTypeOK, OneMeaning, PinSubst = param, NEW p \in Pins
  PROVE  SubstAll(<<"dep", p>>, PinSubst) = <<"dep", param[p]>>
<1> DEFINE ty == <<"dep", p>>
           K == {k \in 0 .. LastRank :
                   \/ SubstUpTo(ty, PinSubst)[k] = <<"dep", param[p]>>
                   \/ k < Name[p] /\ SubstUpTo(ty, PinSubst)[k] = ty}
<1>1. /\ Name[p] \in 1 .. LastRank
      /\ DOMAIN PinSubst = Pins /\ PinSubst[p] = param[p]
      /\ param[p] \in Pins => PinSubst[param[p]] = param[p]
  BY NameAssumption DEF InstTypeOK, OneMeaning, Names
<1>2. 0 \in K
  BY <1>1, LastRankType, SubstUpToIs
<1>3. ASSUME NEW k \in 1 .. LastRank, k - 1 \in K PROVE k \in K
  <2>1. SubstUpTo(ty, PinSubst)[k] = SubstName(SubstUpTo(ty, PinSubst)[k - 1], PinSubst, k)
    BY LastRankType, SubstUpToIs
  <2>2. k \in 0 .. LastRank
    BY LastRankType
  <2>3. CASE SubstUpTo(ty, PinSubst)[k - 1] = <<"dep", param[p]>>
    <3>1. SubstName(<<"dep", param[p]>>, PinSubst, k) = <<"dep", param[p]>>
      BY <1>1 DEF SubstName
    <3> QED BY <2>1, <2>2, <2>3, <3>1
  <2>4. CASE k - 1 < Name[p] /\ SubstUpTo(ty, PinSubst)[k - 1] = ty
    <3>1. SubstName(ty, PinSubst, k) = IF Name[p] = k THEN <<"dep", param[p]>> ELSE ty
      BY <1>1 DEF SubstName
    <3>2. Name[p] # k => k < Name[p]
      BY <1>1, <2>2, <2>4, LastRankType
    <3> QED BY <2>1, <2>2, <2>4, <3>1, <3>2
  <2> QED BY <1>3, <2>3, <2>4
<1>4. LastRank \in K
  <2> HIDE DEF K
  <2>1. 0 .. LastRank \subseteq K
    BY <1>2, <1>3, LastRankType, UpToInduction
  <2> QED BY <2>1, LastRankType
<1>5. ~(LastRank < Name[p])
  BY <1>1, LastRankType
<1> QED BY <1>4, <1>5 DEF SubstAll

LEMMA BelowItself == ASSUME NEW ty \in Type(Names) PROVE Below(ty, ty)
<1> SUFFICES ASSUME NEW s \in [Names -> {0, 1}]
             PROVE  LabelIn(ty, s) \in Levels
  BY LabelAssumption DEF Below
<1>1. CASE ty[1] = "const"
  BY <1>1 DEF Type, LabelIn
<1>2. CASE ty[1] # "const"
  <2>1. ty[2] \in Names
    BY <1>2 DEF Type
  <2>2. s[ty[2]] \in {0, 1}
    BY <2>1
  <2> QED BY <1>2, <2>2, LabelAssumption DEF LabelIn
<1> QED BY <1>1, <1>2

(* Labels that are the same on both sides but for the names are accepted,  *)
(* if the module has inputs only: no renaming of one pin undoes or         *)
(* captures that of another.                                               *)
THEOREM SameLabelsConnect == InstSpec => []SameLabelAccepted
<1>1. InstTypeOK /\ Settled => SameLabelAccepted
  <2> SUFFICES ASSUME InstTypeOK, OneMeaning, Outputs = {}, NEW p \in Pins, Same(p)
               PROVE  Accepts(p)
    BY DEF SameLabelAccepted, Settled
  <2>1. /\ param[p] \in Wires /\ pinType[p] \in Type(Pins)
        /\ wireType[param[p]] \in Type(Wires)
    BY DEF InstTypeOK
  <2>2. /\ Type(Pins) \subseteq Type(Names) /\ Type(Wires) \subseteq Type(Names)
        /\ \A ty \in Type(Pins) : ty[1] = "dep" => ty[2] \in Pins
        /\ \A ty \in Type(Wires) : ty[1] = "dep" => ty[2] \in Wires
        /\ \A ns : \A ty \in Type(ns) : ty[1] = "dep" => ty = <<"dep", ty[2]>>
    BY DEF Type, Names
  <2>3. Inputs = Pins
    <3>1. ASSUME NEW q \in Pins PROVE q \in Inputs
      <4>1. dir[q] \in {"input", "output", "inout"}
        BY DirectionAssumption DEF InstTypeOK
      <4>2. q \notin Outputs
        OBVIOUS
      <4> QED BY <4>1, <4>2 DEF Inputs, Outputs
    <3> QED BY <3>1 DEF Inputs
  <2>4. PinSubst = param
    BY <2>3 DEF PinSubst, InstTypeOK
  <2>5. RenamedWire(param[p]) = wireType[param[p]]
    <3>1. \A w \in DOMAIN ParaSubst : ParaSubst[w] = w
      BY DEF ParaSubst
    <3> QED BY <2>1, <3>1, NotRenamed DEF RenamedWire
  <2>6. RenamedPin(p) = wireType[param[p]]
    <3>1. CASE pinType[p] = wireType[param[p]]
      <4>1. pinType[p][1] = "dep" /\ pinType[p][2] \in Pins
              => PinSubst[pinType[p][2]] = pinType[p][2]
        BY <2>1, <2>2, <2>4, <3>1 DEF OneMeaning
      <4>2. DOMAIN PinSubst = Pins
        BY DEF PinSubst
      <4> QED BY <2>1, <3>1, <4>1, <4>2, NotRenamed DEF RenamedPin
    <3>2. CASE DepExpr(pinType[p]) = {p} /\ DepExpr(wireType[param[p]]) = {param[p]}
      <4>1. pinType[p] = <<"dep", p>> /\ wireType[param[p]] = <<"dep", param[p]>>
        BY <2>1, <2>2, <3>2 DEF DepExpr
      <4> QED BY <2>4, <4>1, OwnName DEF RenamedPin
    <3> QED BY <3>1, <3>2 DEF Same
  <2>7. DepExpr(wireType[param[p]]) \subseteq Declared(p)
    BY <2>1 DEF Declared
  <2>8. Constraint(p)
    BY <2>1, <2>2, <2>3, <2>5, <2>6, BelowItself DEF Constraint, ConstraintOfUse
  <2> QED BY <2>5, <2>6, <2>7, <2>8 DEF Accepts
<1> QED BY <1>1, InstTypes, InstSettled, PTL

-----------------------------------------------------------------------------
(* Labels, SecTypes.  An object points to objects made before it only; in  *)
(* that order everything is shown.                                         *)

AllRefs == Atoms \cup {Obj(k) : k \in Nat}
Objects == [op : {"join", "meet"}, comp1 : AllRefs, comp2 : AllRefs]

Heap(os) ==
  /\ os \in Seq(Objects)
  /\ \A k \in 1 .. Len(os) : os[k].comp1 \in Refs(k - 1) /\ os[k].comp2 \in Refs(k - 1)

LEMMA RefsAre ==
  /\ \A k, j1 : Obj(k) = Obj(j1) => k = j1
  /\ \A k : IsObj(Obj(k)) /\ Obj(k)[2] = k
  /\ \A r \in Atoms : ~IsObj(r)
  /\ \A n \in Nat : \A r \in Refs(n) :
       IF IsObj(r) THEN r[2] \in 1 .. n /\ r = Obj(r[2]) ELSE r \in Atoms
  /\ \A m, n \in Nat : m <= n => Refs(m) \subseteq Refs(n)
  /\ \A n \in Nat : Refs(n) \subseteq AllRefs /\ Atoms \subseteq Refs(n)
  /\ \A n \in Nat : \A k \in 1 .. n : Obj(k) \in Refs(n)
<1>1. \A k, j1 : Obj(k) = Obj(j1) => k = j1
  BY DEF Obj
<1>2. \A k : IsObj(Obj(k)) /\ Obj(k)[2] = k
  BY DEF Obj, IsObj
<1>3. \A r \in Atoms : ~IsObj(r)
  BY DEF Atoms, Const, Index, IsObj
<1>4. ASSUME NEW n \in Nat, NEW r \in Refs(n)
      PROVE  IF IsObj(r) THEN r[2] \in 1 .. n /\ r = Obj(r[2]) ELSE r \in Atoms
  BY <1>2, <1>3 DEF Refs
<1>5. ASSUME NEW m \in Nat, NEW n \in Nat, m <= n PROVE Refs(m) \subseteq Refs(n)
  BY <1>5 DEF Refs
<1>6. \A n \in Nat : Refs(n) \subseteq AllRefs /\ Atoms \subseteq Refs(n)
  BY DEF Refs, AllRefs
<1>7. \A n \in Nat : \A k \in 1 .. n : Obj(k) \in Refs(n)
  BY DEF Refs
<1> QED BY <1>1, <1>2, <1>3, <1>4, <1>5, <1>6, <1>7, Zenon

LEMMA RefsGrow ==
  ASSUME NEW n \in Nat, NEW k \in 1 .. n, NEW r \in Refs(k - 1)
  PROVE  r \in Refs(n)
<1>1. k - 1 \in Nat /\ k - 1 <= n
  OBVIOUS
<1> QED BY <1>1, RefsAre

(* What holds of the atoms, and of an object if it does of its parts,      *)
(* holds of all labels.                                                    *)
LEMMA RefInduction ==
  ASSUME NEW os, Heap(os), NEW S, Atoms \subseteq S,
         \A k \in 1 .. Len(os) : os[k].comp1 \in S /\ os[k].comp2 \in S => Obj(k) \in S
  PROVE  Refs(Len(os)) \subseteq S
<1> DEFINE K == {k \in 0 .. Len(os) : Refs(k) \subseteq S}
<1>1. Len(os) \in Nat
  BY DEF Heap
<1>2. 0 \in K
  BY <1>1 DEF Refs
<1>3. ASSUME NEW k \in 1 .. Len(os), k - 1 \in K PROVE k \in K
  <2>1. Obj(k) \in S
    BY <1>3 DEF Heap
  <2>2. Refs(k) \subseteq Refs(k - 1) \cup {Obj(k)}
    BY DEF Refs
  <2> QED BY <1>1, <1>3, <2>1, <2>2
<1>4. Len(os) \in K
  <2> HIDE DEF K
  <2>1. 0 .. Len(os) \subseteq K
    BY <1>1, <1>2, <1>3, UpToInduction
  <2> QED BY <1>1, <2>1
<1> QED BY <1>4

(* The recursion of the answers has a value. *)
LEMMA AnswersAre ==
  ASSUME NEW os, Heap(os)
  PROVE  \A k \in 1 .. Len(os) :
           AnsIn(os, Obj(k)) = OfCompound(os[k].op, AnsIn(os, os[k].comp1), AnsIn(os, os[k].comp2))
<1> DEFINE part(f, r) == IF IsObj(r) THEN f[r[2]] ELSE OfAtom(r)
           At(f, k) == OfCompound(os[k].op, part(f, os[k].comp1), part(f, os[k].comp2))
           IsUpTo(f, n) == \A k \in 1 .. n : f[k] = At(f, k)
           S == {n \in Nat : \E f : f = [k \in 1 .. n |-> f[k]] /\ IsUpTo(f, n)}
<1>0. Len(os) \in Nat
  BY DEF Heap
<1>1. 0 \in S
  <2> DEFINE f == [k \in 1 .. 0 |-> 0]
  <2>1. f = [k \in 1 .. 0 |-> f[k]] /\ IsUpTo(f, 0)
    OBVIOUS
  <2> QED BY <2>1
<1>2. ASSUME NEW n \in 1 .. Len(os), n - 1 \in S PROVE n \in S
  <2>1. PICK f : f = [k \in 1 .. n - 1 |-> f[k]] /\ IsUpTo(f, n - 1)
    BY <1>2
  <2> DEFINE g == [k \in 1 .. n |-> IF k = n THEN At(f, n) ELSE f[k]]
  <2>2. n \in Nat /\ g = [k \in 1 .. n |-> g[k]]
    BY <1>0
  <2>3. ASSUME NEW k \in 1 .. n, NEW r \in Refs(k - 1) PROVE part(g, r) = part(f, r)
    <3>1. CASE IsObj(r)
      <4>1. r[2] \in 1 .. k - 1
        BY <1>0, <3>1, RefsAre
      <4>2. r[2] \in 1 .. n /\ r[2] # n
        BY <1>0, <4>1
      <4>3. g[r[2]] = f[r[2]]
        BY <4>2
      <4> HIDE DEF g
      <4> QED BY <3>1, <4>3
    <3>2. CASE ~IsObj(r)
      BY <3>2
    <3> QED BY <3>1, <3>2
  <2>4. ASSUME NEW k \in 1 .. n PROVE At(g, k) = At(f, k)
    <3>1. k \in 1 .. Len(os)
      BY <1>0
    <3>2. part(g, os[k].comp1) = part(f, os[k].comp1) /\ part(g, os[k].comp2) = part(f, os[k].comp2)
      BY <2>3, <3>1 DEF Heap
    <3> HIDE DEF part
    <3> QED BY <3>2
  <2>5. ASSUME NEW k \in 1 .. n PROVE g[k] = At(g, k)
    <3>1. g[k] = At(f, k)
      <4>1. CASE k = n
        BY <4>1
      <4>2. CASE k # n
        <5>1. k \in 1 .. n - 1 /\ g[k] = f[k]
          BY <4>2, <1>0
        <5> HIDE DEF g, At
        <5> QED BY <2>1, <5>1
      <4> QED BY <4>1, <4>2
    <3> HIDE DEF g, At
    <3> QED BY <2>4, <3>1
  <2> HIDE DEF g, At
  <2>6. IsUpTo(g, n)
    BY <2>5
  <2> QED BY <2>2, <2>6
<1>3. Len(os) \in S
  <2> HIDE DEF S
  <2>1. 0 .. Len(os) \subseteq S
    BY <1>0, <1>1, <1>2, UpToInduction
  <2> QED BY <2>1, <1>0
<1>4. PICK f : f = [k \in 1 .. Len(os) |-> f[k]] /\ IsUpTo(f, Len(os))
  BY <1>3
<1>5. f = [k \in 1 .. Len(os) |-> At(f, k)]
  <2> HIDE DEF At
  <2> QED BY <1>4
<1>6. AnswersIn(os) = [k \in 1 .. Len(os) |-> At(AnswersIn(os), k)]
  BY <1>5 DEF AnswersIn
<1>7. ASSUME NEW k \in 1 .. Len(os) PROVE AnswersIn(os)[k] = At(AnswersIn(os), k)
  <2> HIDE DEF At
  <2> QED BY <1>6
<1>8. \A r : part(AnswersIn(os), r) = AnsIn(os, r)
  BY DEF AnsIn
<1>9. ASSUME NEW k \in 1 .. Len(os)
      PROVE  AnsIn(os, Obj(k)) = OfCompound(os[k].op, AnsIn(os, os[k].comp1), AnsIn(os, os[k].comp2))
  <2>1. AnsIn(os, Obj(k)) = AnswersIn(os)[k]
    BY RefsAre DEF AnsIn
  <2> HIDE DEF part
  <2> QED BY <1>7, <1>8, <2>1
<1> QED BY <1>9

(* What a compound label answers, and what an atom does. *)
LEMMA AtomAnswers == \A os : \A r \in Atoms : AnsIn(os, r) = OfAtom(r)
  BY RefsAre DEF AnsIn

LEMMA CompoundAnswers ==
  ASSUME NEW op, NEW a, NEW b
  PROVE  /\ OfCompound(op, a, b).den = Combine(op, a.den, b.den)
         /\ OfCompound(op, a, b).has = a.has \cup b.has
         /\ OfCompound(op, a, b).bottom = IsBottom(op, a, b)
         /\ OfCompound(op, a, b).top = IsTop(op, a, b)
         /\ OfCompound(op, a, b).exprs = a.exprs \cup b.exprs
         /\ OfCompound(op, a, b).deps = a.deps \cup b.deps
         /\ OfCompound(op, a, b).text = <<op, a.text, b.text>>
         /\ OfCompound(op, a, b).ops = {op} \cup a.ops \cup b.ops
  BY DEF OfCompound, Has, HasExpr, CollectDepExpr

LEMMA ObjAnswers ==
  ASSUME NEW os, Heap(os), NEW k \in 1 .. Len(os)
  PROVE  /\ os[k].op \in {"join", "meet"}
         /\ os[k].comp1 \in Refs(k - 1) /\ os[k].comp2 \in Refs(k - 1)
         /\ os[k].comp1 \in Refs(Len(os)) /\ os[k].comp2 \in Refs(Len(os))
         /\ AnsIn(os, Obj(k)).den =
              Combine(os[k].op, AnsIn(os, os[k].comp1).den, AnsIn(os, os[k].comp2).den)
         /\ AnsIn(os, Obj(k)).has = AnsIn(os, os[k].comp1).has \cup AnsIn(os, os[k].comp2).has
         /\ AnsIn(os, Obj(k)).bottom =
              IsBottom(os[k].op, AnsIn(os, os[k].comp1), AnsIn(os, os[k].comp2))
         /\ AnsIn(os, Obj(k)).top =
              IsTop(os[k].op, AnsIn(os, os[k].comp1), AnsIn(os, os[k].comp2))
         /\ AnsIn(os, Obj(k)).exprs = AnsIn(os, os[k].comp1).exprs \cup AnsIn(os, os[k].comp2).exprs
         /\ AnsIn(os, Obj(k)).deps = AnsIn(os, os[k].comp1).deps \cup AnsIn(os, os[k].comp2).deps
         /\ AnsIn(os, Obj(k)).text =
              <<os[k].op, AnsIn(os, os[k].comp1).text, AnsIn(os, os[k].comp2).text>>
         /\ AnsIn(os, Obj(k)).ops =
              {os[k].op} \cup AnsIn(os, os[k].comp1).ops \cup AnsIn(os, os[k].comp2).ops
<1>1. /\ os[k] \in Objects /\ Len(os) \in Nat
      /\ os[k].comp1 \in Refs(k - 1) /\ os[k].comp2 \in Refs(k - 1)
  BY DEF Heap
<1>2. os[k].comp1 \in Refs(Len(os)) /\ os[k].comp2 \in Refs(Len(os))
  BY <1>1, RefsAre
<1>3. os[k].op \in {"join", "meet"}
  BY <1>1 DEF Objects
<1> DEFINE a == AnsIn(os, os[k].comp1)
           b == AnsIn(os, os[k].comp2)
<1>4. AnsIn(os, Obj(k)) = OfCompound(os[k].op, a, b)
  BY AnswersAre
<1> HIDE DEF a, b
<1>5. /\ AnsIn(os, Obj(k)).den = Combine(os[k].op, a.den, b.den)
      /\ AnsIn(os, Obj(k)).has = a.has \cup b.has
      /\ AnsIn(os, Obj(k)).bottom = IsBottom(os[k].op, a, b)
      /\ AnsIn(os, Obj(k)).top = IsTop(os[k].op, a, b)
      /\ AnsIn(os, Obj(k)).exprs = a.exprs \cup b.exprs
      /\ AnsIn(os, Obj(k)).deps = a.deps \cup b.deps
      /\ AnsIn(os, Obj(k)).text = <<os[k].op, a.text, b.text>>
      /\ AnsIn(os, Obj(k)).ops = {os[k].op} \cup a.ops \cup b.ops
  BY <1>4 DEF OfCompound, Has, HasExpr, CollectDepExpr
<1> QED BY <1>1, <1>2, <1>3, <1>5, Zenon DEF a, b

-----------------------------------------------------------------------------
(* Meanings. *)

Means == [HwStates -> Labels]
Always(l) == [s \in HwStates |-> l]

LEMMA LatticeFacts ==
  ASSUME NEW l \in Labels, NEW m \in Labels
  PROVE  /\ join[l][m] \in Labels /\ meet[l][m] \in Labels
         /\ join[l][l] = l /\ meet[l][l] = l
         /\ join["LOW"][l] = l /\ join[l]["LOW"] = l
         /\ meet["HIGH"][l] = l /\ meet[l]["HIGH"] = l
         /\ join["HIGH"][l] = "HIGH" /\ join[l]["HIGH"] = "HIGH"
         /\ meet["LOW"][l] = "LOW" /\ meet[l]["LOW"] = "LOW"
<1>1. "LOW" \in Labels /\ "HIGH" \in Labels
  BY LatticeAssumption
<1>2. ASSUME NEW a \in Labels, NEW b \in Labels
      PROVE  /\ join[a][b] \in Labels /\ IsLeast(join[a][b], Upper(a, b))
             /\ meet[a][b] \in Labels /\ IsGreatest(meet[a][b], Lower(a, b))
  <2>1. /\ join[a][b] = CHOOSE u \in Labels : IsLeast(u, Upper(a, b))
        /\ meet[a][b] = CHOOSE u \in Labels : IsGreatest(u, Lower(a, b))
    BY Zenon DEF join, meet
  <2>2. /\ \E u \in Labels : IsLeast(u, Upper(a, b))
        /\ \E u \in Labels : IsGreatest(u, Lower(a, b))
    BY LatticeAssumption
  <2> QED BY <2>1, <2>2
<1>3. ASSUME NEW a \in Labels, NEW b \in Labels, NEW c \in Labels, IsLeast(c, Upper(a, b))
      PROVE  join[a][b] = c
  <2>1. join[a][b] \in Upper(a, b) /\ c \in Upper(a, b) /\ join[a][b] \in Labels
    BY <1>2, <1>3 DEF IsLeast
  <2>2. <<join[a][b], c>> \in Leq /\ <<c, join[a][b]>> \in Leq
    BY <1>2, <1>3, <2>1 DEF IsLeast
  <2> QED BY <2>1, <2>2, LatticeAssumption
<1>4. ASSUME NEW a \in Labels, NEW b \in Labels, NEW c \in Labels, IsGreatest(c, Lower(a, b))
      PROVE  meet[a][b] = c
  <2>1. meet[a][b] \in Lower(a, b) /\ c \in Lower(a, b) /\ meet[a][b] \in Labels
    BY <1>2, <1>4 DEF IsGreatest
  <2>2. <<meet[a][b], c>> \in Leq /\ <<c, meet[a][b]>> \in Leq
    BY <1>2, <1>4, <2>1 DEF IsGreatest
  <2> QED BY <2>1, <2>2, LatticeAssumption
<1>5. /\ IsLeast(l, Upper(l, l)) /\ IsLeast(l, Upper("LOW", l)) /\ IsLeast(l, Upper(l, "LOW"))
      /\ IsLeast("HIGH", Upper("HIGH", l)) /\ IsLeast("HIGH", Upper(l, "HIGH"))
  BY LatticeAssumption DEF IsLeast, Upper
<1>6. /\ IsGreatest(l, Lower(l, l)) /\ IsGreatest(l, Lower("HIGH", l)) /\ IsGreatest(l, Lower(l, "HIGH"))
      /\ IsGreatest("LOW", Lower("LOW", l)) /\ IsGreatest("LOW", Lower(l, "LOW"))
  BY LatticeAssumption DEF IsGreatest, Lower
<1> QED BY <1>1, <1>2, <1>3, <1>4, <1>5, <1>6

LEMMA CombineFacts ==
  ASSUME NEW d \in Means, NEW e \in Means
  PROVE  /\ \A op : Combine(op, d, e) \in Means
         /\ \A op : Combine(op, d, d) = d
         /\ Always("LOW") \in Means /\ Always("HIGH") \in Means
         /\ Combine("join", Always("LOW"), d) = d /\ Combine("join", d, Always("LOW")) = d
         /\ Combine("meet", Always("HIGH"), d) = d /\ Combine("meet", d, Always("HIGH")) = d
         /\ Combine("join", Always("HIGH"), d) = Always("HIGH")
         /\ Combine("join", d, Always("HIGH")) = Always("HIGH")
         /\ Combine("meet", Always("LOW"), d) = Always("LOW")
         /\ Combine("meet", d, Always("LOW")) = Always("LOW")
<1>1. \A s \in HwStates : d[s] \in Labels /\ e[s] \in Labels
  BY DEF Means
<1>2. "LOW" \in Labels /\ "HIGH" \in Labels
  BY LatticeAssumption
<1>3. d = [s \in HwStates |-> d[s]]
  BY DEF Means
<1>4. \A op : Combine(op, d, e) \in Means
  BY <1>1, LatticeFacts DEF Combine, Means
<1>5. \A op : Combine(op, d, d) = d
  BY <1>1, <1>3, LatticeFacts DEF Combine
<1>6. /\ Always("LOW") \in Means /\ Always("HIGH") \in Means
      /\ \A s \in HwStates : Always("LOW")[s] = "LOW" /\ Always("HIGH")[s] = "HIGH"
  BY <1>2 DEF Always, Means
<1>7. Combine("join", Always("LOW"), d) = d /\ Combine("join", d, Always("LOW")) = d
  <2>1. \A s \in HwStates : join["LOW"][d[s]] = d[s] /\ join[d[s]]["LOW"] = d[s]
    BY <1>1, <1>6, LatticeFacts
  <2>2. d = [s \in HwStates |-> d[s]]
    BY <1>3 DEF Always
  <2>3. \A s \in HwStates : Always("LOW")[s] = "LOW"
    BY <1>6
  <2>4. /\ Combine("join", Always("LOW"), d) = [s \in HwStates |-> join[Always("LOW")[s]][d[s]]]
        /\ Combine("join", d, Always("LOW")) = [s \in HwStates |-> join[d[s]][Always("LOW")[s]]]
    BY DEF Combine
  <2> QED BY <2>1, <2>2, <2>3, <2>4
<1>8. Combine("meet", Always("HIGH"), d) = d /\ Combine("meet", d, Always("HIGH")) = d
  <2>1. \A s \in HwStates : meet["HIGH"][d[s]] = d[s] /\ meet[d[s]]["HIGH"] = d[s]
    BY <1>1, <1>6, LatticeFacts
  <2>2. d = [s \in HwStates |-> d[s]]
    BY <1>3 DEF Always
  <2>3. \A s \in HwStates : Always("HIGH")[s] = "HIGH"
    BY <1>6
  <2>4. /\ Combine("meet", Always("HIGH"), d) = [s \in HwStates |-> meet[Always("HIGH")[s]][d[s]]]
        /\ Combine("meet", d, Always("HIGH")) = [s \in HwStates |-> meet[d[s]][Always("HIGH")[s]]]
    BY DEF Combine
  <2> QED BY <2>1, <2>2, <2>3, <2>4
<1>9. Combine("join", Always("HIGH"), d) = Always("HIGH") /\ Combine("join", d, Always("HIGH")) = Always("HIGH")
  <2>1. \A s \in HwStates : join["HIGH"][d[s]] = Always("HIGH")[s] /\ join[d[s]]["HIGH"] = Always("HIGH")[s]
    BY <1>1, <1>6, LatticeFacts
  <2>2. Always("HIGH") = [s \in HwStates |-> Always("HIGH")[s]]
    BY <1>3 DEF Always
  <2>3. \A s \in HwStates : Always("HIGH")[s] = "HIGH"
    BY <1>6
  <2>4. /\ Combine("join", Always("HIGH"), d) = [s \in HwStates |-> join[Always("HIGH")[s]][d[s]]]
        /\ Combine("join", d, Always("HIGH")) = [s \in HwStates |-> join[d[s]][Always("HIGH")[s]]]
    BY DEF Combine
  <2> QED BY <2>1, <2>2, <2>3, <2>4
<1>10. Combine("meet", Always("LOW"), d) = Always("LOW") /\ Combine("meet", d, Always("LOW")) = Always("LOW")
  <2>1. \A s \in HwStates : meet["LOW"][d[s]] = Always("LOW")[s] /\ meet[d[s]]["LOW"] = Always("LOW")[s]
    BY <1>1, <1>6, LatticeFacts
  <2>2. Always("LOW") = [s \in HwStates |-> Always("LOW")[s]]
    BY <1>3 DEF Always
  <2>3. \A s \in HwStates : Always("LOW")[s] = "LOW"
    BY <1>6
  <2>4. /\ Combine("meet", Always("LOW"), d) = [s \in HwStates |-> meet[Always("LOW")[s]][d[s]]]
        /\ Combine("meet", d, Always("LOW")) = [s \in HwStates |-> meet[d[s]][Always("LOW")[s]]]
    BY DEF Combine
  <2> QED BY <2>1, <2>2, <2>3, <2>4
<1> QED BY <1>4, <1>5, <1>6, <1>7, <1>8, <1>9, <1>10, Zenon

LEMMA AtomMeans == \A r \in Atoms : DenOfAtom(r) \in Means
<1> SUFFICES ASSUME NEW r \in Atoms PROVE DenOfAtom(r) \in Means
  OBVIOUS
<1>1. CASE \E l \in Labels : r = Const(l)
  BY <1>1 DEF Const, DenOfAtom, Means
<1>2. CASE \E x \in IndexVars \cup {0} : r = Index(x)
  <2>1. PICK x \in IndexVars \cup {0} : r = Index(x)
    BY <1>2
  <2>2. ASSUME NEW s \in HwStates PROVE ValueOf(x, s) \in {0, 1}
    BY <2>1 DEF HwStates, ValueOf
  <2>3. \A s \in HwStates : Family[ValueOf(x, s)] \in Labels
    BY <2>2, FamilyAssumption
  <2>4. DenOfAtom(r) = [s \in HwStates |-> Family[ValueOf(x, s)]]
    BY <2>1 DEF Index, DenOfAtom
  <2> QED BY <2>3, <2>4 DEF Means
<1> QED BY <1>1, <1>2 DEF Atoms

-----------------------------------------------------------------------------
(* What the objects mean, and what can be told of it from their answers.  *)

Places == {"enter", "first", "between", "second", "again"}

Frames == [this : AllRefs, at : Places, ops : SUBSET Mixed]

LabelTypeOK ==
  /\ Heap(objs)
  /\ meaning \in Seq(Means) /\ Len(meaning) = Len(objs)
  /\ label \in Refs(Len(objs)) /\ meant \in Means
  /\ calls \in Seq(Frames)
  /\ \A i1 \in 1 .. Len(calls) : calls[i1].this \in Refs(Len(objs))

(* An object means what its parts do, joined or met. *)
MadeOfParts ==
  \A k \in 1 .. Len(objs) :
    meaning[k] = Combine(objs[k].op, Meaning(objs[k].comp1), Meaning(objs[k].comp2))

LEMMA MeaningIs ==
  /\ \A r \in Atoms : Meaning(r) = DenOfAtom(r)
  /\ \A k : Meaning(Obj(k)) = meaning[k]
  BY RefsAre DEF Meaning

LEMMA MeaningType ==
  ASSUME LabelTypeOK, NEW r \in Refs(Len(objs))
  PROVE  Meaning(r) \in Means
<1>1. Len(objs) \in Nat
  BY DEF LabelTypeOK, Heap
<1>2. CASE IsObj(r)
  <2>1. r[2] \in 1 .. Len(meaning)
    BY <1>1, <1>2, RefsAre DEF LabelTypeOK
  <2> QED BY <1>2, <2>1 DEF LabelTypeOK, Meaning
<1>3. CASE ~IsObj(r)
  <2>1. r \in Atoms
    BY <1>1, <1>3, RefsAre
  <2> QED BY <2>1, MeaningIs, AtomMeans
<1> QED BY <1>2, <1>3

(* The parts of an object, and what they mean. *)
LEMMA PartsMean ==
  ASSUME LabelTypeOK, MadeOfParts, NEW k \in 1 .. Len(objs)
  PROVE  /\ Meaning(objs[k].comp1) \in Means /\ Meaning(objs[k].comp2) \in Means
         /\ Meaning(Obj(k)) = Combine(objs[k].op, Meaning(objs[k].comp1), Meaning(objs[k].comp2))
<1>1. objs[k].comp1 \in Refs(Len(objs)) /\ objs[k].comp2 \in Refs(Len(objs))
  BY ObjAnswers DEF LabelTypeOK
<1> QED BY <1>1, MeaningType, MeaningIs DEF MadeOfParts

(* The answers are true: den is the meaning, what is bottom or top means   *)
(* LOW or HIGH.                                                            *)
LEMMA DenMeans ==
  ASSUME LabelTypeOK, MadeOfParts
  PROVE  \A r \in Refs(Len(objs)) : Ans(r).den = Meaning(r)
<1> DEFINE S == {r \in Refs(Len(objs)) : Ans(r).den = Meaning(r)}
<1>0. Heap(objs) /\ Len(objs) \in Nat
  BY DEF LabelTypeOK, Heap
<1>1. Atoms \subseteq S
  BY <1>0, RefsAre, AtomAnswers, MeaningIs DEF Ans, OfAtom
<1>2. ASSUME NEW k \in 1 .. Len(objs), objs[k].comp1 \in S, objs[k].comp2 \in S PROVE Obj(k) \in S
  <2>1. Ans(Obj(k)).den = Combine(objs[k].op, Ans(objs[k].comp1).den, Ans(objs[k].comp2).den)
    BY <1>0, ObjAnswers DEF Ans
  <2>2. Ans(objs[k].comp1).den = Meaning(objs[k].comp1) /\ Ans(objs[k].comp2).den = Meaning(objs[k].comp2)
    BY <1>2
  <2>3. Ans(Obj(k)).den = Meaning(Obj(k))
    BY <2>1, <2>2, PartsMean
  <2> QED BY <1>0, <2>3, RefsAre
<1>3. Refs(Len(objs)) \subseteq S
  <2> HIDE DEF S
  <2> QED BY <1>0, <1>1, <1>2, RefInduction
<1> QED BY <1>3

LEMMA BottomMeans ==
  ASSUME LabelTypeOK, MadeOfParts
  PROVE  \A r \in Refs(Len(objs)) :
           /\ Ans(r).bottom => Meaning(r) = Always("LOW")
           /\ Ans(r).top => Meaning(r) = Always("HIGH")
<1> DEFINE S == {r \in Refs(Len(objs)) :
                   /\ Ans(r).bottom => Meaning(r) = Always("LOW")
                   /\ Ans(r).top => Meaning(r) = Always("HIGH")}
<1>0. Heap(objs) /\ Len(objs) \in Nat
  BY DEF LabelTypeOK, Heap
<1>1. Atoms \subseteq S
  <2> SUFFICES ASSUME NEW r \in Atoms PROVE r \in S
    OBVIOUS
  <2>1. /\ Ans(r).bottom = (r = Const("LOW")) /\ Ans(r).top = (r = Const("HIGH"))
        /\ Meaning(r) = DenOfAtom(r) /\ r \in Refs(Len(objs))
    BY <1>0, RefsAre, AtomAnswers, MeaningIs DEF Ans, OfAtom
  <2>2. DenOfAtom(Const("LOW")) = Always("LOW") /\ DenOfAtom(Const("HIGH")) = Always("HIGH")
    BY DEF DenOfAtom, Const, Always
  <2> QED BY <2>1, <2>2
<1>2. ASSUME NEW k \in 1 .. Len(objs), objs[k].comp1 \in S, objs[k].comp2 \in S PROVE Obj(k) \in S
  <2> DEFINE d == Meaning(objs[k].comp1)
             e == Meaning(objs[k].comp2)
             a == Ans(objs[k].comp1)
             b == Ans(objs[k].comp2)
  <2>1. /\ objs[k].op \in {"join", "meet"}
        /\ Ans(Obj(k)).bottom = IsBottom(objs[k].op, a, b)
        /\ Ans(Obj(k)).top = IsTop(objs[k].op, a, b)
    BY <1>0, ObjAnswers DEF Ans
  <2>2. /\ a.bottom => d = Always("LOW")
        /\ b.bottom => e = Always("LOW")
        /\ a.top => d = Always("HIGH")
        /\ b.top => e = Always("HIGH")
    BY <1>2
  <2>3. d \in Means /\ e \in Means /\ Meaning(Obj(k)) = Combine(objs[k].op, d, e)
    BY PartsMean
  <2> HIDE DEF a, b, d, e
  <2>4. CASE objs[k].op = "join"
    BY <1>0, <2>1, <2>2, <2>3, <2>4, RefsAre, CombineFacts DEF IsBottom, IsTop
  <2>5. CASE objs[k].op = "meet"
    BY <1>0, <2>1, <2>2, <2>3, <2>5, RefsAre, CombineFacts DEF IsBottom, IsTop
  <2> QED BY <2>1, <2>4, <2>5
<1>3. Refs(Len(objs)) \subseteq S
  <2> HIDE DEF S
  <2> QED BY <1>0, <1>1, <1>2, RefInduction
<1> QED BY <1>3

(* Labels that are equal mean the same. *)
LEMMA EqualsMean ==
  ASSUME LabelTypeOK, MadeOfParts
  PROVE  \A r, q \in Refs(Len(objs)) : Ans(r).text = Ans(q).text => Meaning(r) = Meaning(q)
<1> DEFINE S == {r \in Refs(Len(objs)) :
                   \A q \in Refs(Len(objs)) : Ans(r).text = Ans(q).text => Meaning(r) = Meaning(q)}
<1>0. Heap(objs) /\ Len(objs) \in Nat
  BY DEF LabelTypeOK, Heap
<1>1. ASSUME NEW r \in Atoms
      PROVE  Ans(r).text = r /\ r[1] \in {"const", "index"}
  <2>1. Ans(r).text = r
    BY AtomAnswers DEF Ans, OfAtom
  <2> QED BY <2>1 DEF Atoms, Const, Index
<1>2. ASSUME NEW k \in 1 .. Len(objs)
      PROVE  /\ Ans(Obj(k)).text = <<objs[k].op, Ans(objs[k].comp1).text, Ans(objs[k].comp2).text>>
             /\ objs[k].op \in {"join", "meet"}
  BY <1>0, ObjAnswers DEF Ans
<1>3. ASSUME NEW q \in Refs(Len(objs))
      PROVE  q \in Atoms \/ \E k \in 1 .. Len(objs) : q = Obj(k)
  BY <1>0, RefsAre
<1>4. Atoms \subseteq S
  <2> SUFFICES ASSUME NEW r \in Atoms, NEW q \in Refs(Len(objs)), Ans(r).text = Ans(q).text
               PROVE  Meaning(r) = Meaning(q)
    BY <1>0, RefsAre
  <2>1. CASE q \in Atoms
    BY <1>1, <2>1
  <2>2. ASSUME NEW k \in 1 .. Len(objs), q = Obj(k) PROVE FALSE
    <3>1. r = <<objs[k].op, Ans(objs[k].comp1).text, Ans(objs[k].comp2).text>>
      BY <1>1, <1>2, <2>2
    <3> QED BY <1>1, <1>2, <3>1
  <2> QED BY <1>3, <2>1, <2>2
<1>5. ASSUME NEW k \in 1 .. Len(objs), objs[k].comp1 \in S, objs[k].comp2 \in S PROVE Obj(k) \in S
  <2> SUFFICES ASSUME NEW q \in Refs(Len(objs)), Ans(Obj(k)).text = Ans(q).text
               PROVE  Meaning(Obj(k)) = Meaning(q)
    BY <1>0, RefsAre
  <2>1. ASSUME q \in Atoms PROVE FALSE
    <3>1. q = <<objs[k].op, Ans(objs[k].comp1).text, Ans(objs[k].comp2).text>>
      BY <1>1, <1>2, <2>1
    <3> QED BY <1>1, <1>2, <2>1, <3>1
  <2>2. ASSUME NEW j1 \in 1 .. Len(objs), q = Obj(j1) PROVE Meaning(Obj(k)) = Meaning(q)
    <3>1. /\ objs[k].op = objs[j1].op
          /\ Ans(objs[k].comp1).text = Ans(objs[j1].comp1).text
          /\ Ans(objs[k].comp2).text = Ans(objs[j1].comp2).text
      BY <1>2, <2>2
    <3>2. objs[j1].comp1 \in Refs(Len(objs)) /\ objs[j1].comp2 \in Refs(Len(objs))
      BY <1>0, ObjAnswers
    <3>3. /\ Meaning(objs[k].comp1) = Meaning(objs[j1].comp1)
          /\ Meaning(objs[k].comp2) = Meaning(objs[j1].comp2)
      BY <1>5, <3>1, <3>2
    <3>4. /\ Meaning(Obj(k)) = Combine(objs[k].op, Meaning(objs[k].comp1), Meaning(objs[k].comp2))
          /\ Meaning(Obj(j1)) = Combine(objs[j1].op, Meaning(objs[j1].comp1), Meaning(objs[j1].comp2))
      BY PartsMean
    <3> QED BY <2>2, <3>1, <3>3, <3>4
  <2> QED BY <1>3, <2>1, <2>2
<1>6. Refs(Len(objs)) \subseteq S
  <2> HIDE DEF S
  <2> QED BY <1>0, <1>4, <1>5, RefInduction
<1> QED BY <1>6

(* The meaning of a label does not depend on what is not collected, or not *)
(* found, in it.                                                           *)
Free(d, x) == \A s \in HwStates : \A n \in {0, 1} : d[s] = d[[s EXCEPT ![x] = n]]

LEMMA NotCollectedFree ==
  ASSUME LabelTypeOK, MadeOfParts, NEW x \in IndexVars
  PROVE  \A r \in Refs(Len(objs)) :
           x \notin Ans(r).deps \/ x \notin Ans(r).exprs => Free(Meaning(r), x)
<1> DEFINE S == {r \in Refs(Len(objs)) :
                   /\ x \in Ans(r).exprs => x \in Ans(r).deps
                   /\ x \notin Ans(r).deps => Free(Meaning(r), x)
                   /\ x \notin Ans(r).exprs => Free(Meaning(r), x)}
<1>0. Heap(objs) /\ Len(objs) \in Nat
  BY DEF LabelTypeOK, Heap
<1>s. \A s \in HwStates : \A n \in {0, 1} : [s EXCEPT ![x] = n] \in HwStates
  BY DEF HwStates
<1>1. Atoms \subseteq S
  <2> SUFFICES ASSUME NEW r \in Atoms PROVE r \in S
    OBVIOUS
  <2>1. Ans(r) = OfAtom(r) /\ Meaning(r) = DenOfAtom(r) /\ r \in Refs(Len(objs))
    BY <1>0, RefsAre, AtomAnswers, MeaningIs DEF Ans
  <2>2. CASE \E l \in Labels : r = Const(l)
    <3>1. PICK l \in Labels : r = Const(l)
      BY <2>2
    <3>2. DenOfAtom(r) = [s \in HwStates |-> l]
      BY <3>1 DEF DenOfAtom, Const
    <3>3. Free(DenOfAtom(r), x)
      BY <1>s, <3>2 DEF Free
    <3>4. Ans(r).exprs = {} /\ Ans(r).deps = {}
      BY <2>1, <3>1 DEF OfAtom, Const
    <3> QED BY <2>1, <3>3, <3>4
  <2>3. CASE \E y \in IndexVars \cup {0} : r = Index(y)
    <3>1. PICK y \in IndexVars \cup {0} : r = Index(y)
      BY <2>3
    <3>2. DenOfAtom(r) = [s \in HwStates |-> Family[ValueOf(y, s)]]
      BY <3>1 DEF DenOfAtom, Index
    <3>3. Ans(r).exprs = {y} /\ Ans(r).deps = {y} \cap IndexVars
      BY <2>1, <3>1 DEF OfAtom, Index
    <3>4. ASSUME x # y PROVE Free(DenOfAtom(r), x)
      <4>1. ASSUME NEW s \in HwStates, NEW n \in {0, 1}
            PROVE  ValueOf(y, s) = ValueOf(y, [s EXCEPT ![x] = n])
        BY <3>4 DEF ValueOf, HwStates
      <4> QED BY <1>s, <3>2, <4>1 DEF Free
    <3> QED BY <2>1, <3>3, <3>4
  <2> QED BY <2>2, <2>3 DEF Atoms
<1>2. ASSUME NEW k \in 1 .. Len(objs), objs[k].comp1 \in S, objs[k].comp2 \in S PROVE Obj(k) \in S
  <2> DEFINE d == Meaning(objs[k].comp1)
             e == Meaning(objs[k].comp2)
  <2>1. /\ Ans(Obj(k)).deps = Ans(objs[k].comp1).deps \cup Ans(objs[k].comp2).deps
        /\ Ans(Obj(k)).exprs = Ans(objs[k].comp1).exprs \cup Ans(objs[k].comp2).exprs
    BY <1>0, ObjAnswers DEF Ans
  <2>2. Meaning(Obj(k)) = Combine(objs[k].op, d, e)
    BY PartsMean
  <2>3. ASSUME Free(d, x), Free(e, x) PROVE Free(Combine(objs[k].op, d, e), x)
    BY <1>s, <2>3 DEF Free, Combine
  <2>4. Obj(k) \in Refs(Len(objs))
    BY <1>0, RefsAre
  <2>5. /\ x \in Ans(objs[k].comp1).exprs => x \in Ans(objs[k].comp1).deps
        /\ x \in Ans(objs[k].comp2).exprs => x \in Ans(objs[k].comp2).deps
        /\ x \notin Ans(objs[k].comp1).deps => Free(d, x)
        /\ x \notin Ans(objs[k].comp1).exprs => Free(d, x)
        /\ x \notin Ans(objs[k].comp2).deps => Free(e, x)
        /\ x \notin Ans(objs[k].comp2).exprs => Free(e, x)
    BY <1>2
  <2> HIDE DEF d, e
  <2> QED BY <2>1, <2>2, <2>3, <2>4, <2>5
<1>3. Refs(Len(objs)) \subseteq S
  <2> HIDE DEF S
  <2> QED BY <1>0, <1>1, <1>2, RefInduction
<1> QED BY <1>3

-----------------------------------------------------------------------------
(* A part is overwritten. *)

Part(os, k, at) == IF at = "first" THEN os[k].comp1 ELSE os[k].comp2

LEMMA PutIs ==
  ASSUME NEW os, Heap(os), NEW k \in 1 .. Len(os), NEW at, NEW r \in Refs(k - 1)
  PROVE  /\ Heap(Put(os, k, at, r)) /\ Len(Put(os, k, at, r)) = Len(os)
         /\ \A j1 \in 1 .. Len(os) : Put(os, k, at, r)[j1].op = os[j1].op
         /\ \A j1 \in 1 .. Len(os) : j1 # k => Put(os, k, at, r)[j1] = os[j1]
         /\ at = "first" => /\ Put(os, k, at, r)[k].comp1 = r
                            /\ Put(os, k, at, r)[k].comp2 = os[k].comp2
         /\ at # "first" => /\ Put(os, k, at, r)[k].comp1 = os[k].comp1
                            /\ Put(os, k, at, r)[k].comp2 = r
<1> DEFINE o == IF at = "first" THEN [os[k] EXCEPT !.comp1 = r] ELSE [os[k] EXCEPT !.comp2 = r]
<1>1. Len(os) \in Nat /\ os \in Seq(Objects) /\ os[k] \in Objects
  BY DEF Heap
<1>2. r \in AllRefs
  BY <1>1, RefsAre
<1>3. /\ o \in Objects /\ o.op = os[k].op
      /\ at = "first" => o.comp1 = r /\ o.comp2 = os[k].comp2
      /\ at # "first" => o.comp1 = os[k].comp1 /\ o.comp2 = r
  BY <1>1, <1>2 DEF Objects
<1>4. Put(os, k, at, r) = [os EXCEPT ![k] = o]
  BY DEF Put
<1> HIDE DEF o
<1>5. /\ [os EXCEPT ![k] = o] \in Seq(Objects) /\ Len([os EXCEPT ![k] = o]) = Len(os)
      /\ [os EXCEPT ![k] = o][k] = o
      /\ \A j1 \in 1 .. Len(os) : j1 # k => [os EXCEPT ![k] = o][j1] = os[j1]
  BY <1>1, <1>3, ExceptSeq
<1>6. ASSUME NEW j1 \in 1 .. Len(os)
      PROVE  [os EXCEPT ![k] = o][j1].comp1 \in Refs(j1 - 1) /\ [os EXCEPT ![k] = o][j1].comp2 \in Refs(j1 - 1)
  BY <1>3, <1>5 DEF Heap
<1>7. Heap([os EXCEPT ![k] = o])
  BY <1>5, <1>6 DEF Heap
<1> QED BY <1>3, <1>4, <1>5, <1>7

(* If the new part and the old one are neither bottom nor top, all answers *)
(* to isBottom and isTop are as before.                                    *)
Neither(a) == ~a.bottom /\ ~a.top

LEMMA PutKeepsEnds ==
  ASSUME NEW os, Heap(os), NEW k \in 1 .. Len(os), NEW at, NEW r \in Refs(k - 1),
         Neither(AnsIn(os, Part(os, k, at))), Neither(AnsIn(os, r))
  PROVE  \A x \in Refs(Len(os)) :
           /\ AnsIn(Put(os, k, at, r), x).bottom <=> AnsIn(os, x).bottom
           /\ AnsIn(Put(os, k, at, r), x).top <=> AnsIn(os, x).top
<1> DEFINE new == Put(os, k, at, r)
           S == {x \in Refs(Len(os)) : /\ AnsIn(new, x).bottom <=> AnsIn(os, x).bottom
                                       /\ AnsIn(new, x).top <=> AnsIn(os, x).top}
<1>0. Heap(new) /\ Len(new) = Len(os) /\ Len(os) \in Nat
  BY PutIs DEF Heap
<1>1. Atoms \subseteq S
  BY <1>0, RefsAre, AtomAnswers
<1>2. ASSUME NEW j1 \in 1 .. Len(new), new[j1].comp1 \in S, new[j1].comp2 \in S PROVE Obj(j1) \in S
  <2>1. /\ AnsIn(new, Obj(j1)).bottom = IsBottom(new[j1].op, AnsIn(new, new[j1].comp1), AnsIn(new, new[j1].comp2))
        /\ AnsIn(new, Obj(j1)).top = IsTop(new[j1].op, AnsIn(new, new[j1].comp1), AnsIn(new, new[j1].comp2))
    BY <1>0, ObjAnswers
  <2>2. /\ AnsIn(os, Obj(j1)).bottom = IsBottom(os[j1].op, AnsIn(os, os[j1].comp1), AnsIn(os, os[j1].comp2))
        /\ AnsIn(os, Obj(j1)).top = IsTop(os[j1].op, AnsIn(os, os[j1].comp1), AnsIn(os, os[j1].comp2))
    BY <1>0, ObjAnswers
  <2>3. /\ AnsIn(new, new[j1].comp1).bottom <=> AnsIn(os, new[j1].comp1).bottom
        /\ AnsIn(new, new[j1].comp1).top <=> AnsIn(os, new[j1].comp1).top
        /\ AnsIn(new, new[j1].comp2).bottom <=> AnsIn(os, new[j1].comp2).bottom
        /\ AnsIn(new, new[j1].comp2).top <=> AnsIn(os, new[j1].comp2).top
    BY <1>2
  <2>4. /\ AnsIn(os, new[j1].comp1).bottom <=> AnsIn(os, os[j1].comp1).bottom
        /\ AnsIn(os, new[j1].comp1).top <=> AnsIn(os, os[j1].comp1).top
        /\ AnsIn(os, new[j1].comp2).bottom <=> AnsIn(os, os[j1].comp2).bottom
        /\ AnsIn(os, new[j1].comp2).top <=> AnsIn(os, os[j1].comp2).top
    <3>1. CASE j1 # k
      BY <1>0, <3>1, PutIs
    <3>2. CASE j1 = k /\ at = "first"
      <4>1. new[j1].comp1 = r /\ new[j1].comp2 = os[j1].comp2 /\ Part(os, k, at) = os[j1].comp1
        BY <3>2, PutIs DEF Part
      <4> HIDE DEF new
      <4> QED BY <4>1 DEF Neither
    <3>3. CASE j1 = k /\ at # "first"
      <4>1. new[j1].comp1 = os[j1].comp1 /\ new[j1].comp2 = r /\ Part(os, k, at) = os[j1].comp2
        BY <3>3, PutIs DEF Part
      <4> HIDE DEF new
      <4> QED BY <4>1 DEF Neither
    <3> QED BY <3>1, <3>2, <3>3
  <2>5. new[j1].op = os[j1].op
    BY <1>0, PutIs
  <2>6. Obj(j1) \in Refs(Len(os))
    BY <1>0, RefsAre
  <2> HIDE DEF new
  <2> QED BY <2>1, <2>2, <2>3, <2>4, <2>5, <2>6 DEF IsBottom, IsTop
<1>3. Refs(Len(new)) \subseteq S
  <2> HIDE DEF S, new
  <2> QED BY <1>0, <1>1, <1>2, RefInduction
<1> QED BY <1>0, <1>3

(* If the new part has one operator only, so has what had one only; if it  *)
(* has no unit of it, what had none has none.                              *)
LEMMA PutKeepsPure ==
  ASSUME NEW os, Heap(os), NEW k \in 1 .. Len(os), NEW at, NEW r \in Refs(k - 1), NEW o,
         AnsIn(os, r).ops \subseteq {o}
  PROVE  \A x \in Refs(Len(os)) :
           AnsIn(os, x).ops \subseteq {o} => AnsIn(Put(os, k, at, r), x).ops \subseteq {o}
<1> DEFINE new == Put(os, k, at, r)
           S == {x \in Refs(Len(os)) : AnsIn(os, x).ops \subseteq {o} => AnsIn(new, x).ops \subseteq {o}}
<1>0. Heap(new) /\ Len(new) = Len(os) /\ Len(os) \in Nat
  BY PutIs DEF Heap
<1>1. Atoms \subseteq S
  BY <1>0, RefsAre, AtomAnswers
<1>2. ASSUME NEW j1 \in 1 .. Len(new), new[j1].comp1 \in S, new[j1].comp2 \in S PROVE Obj(j1) \in S
  <2>1. AnsIn(new, Obj(j1)).ops =
          {new[j1].op} \cup AnsIn(new, new[j1].comp1).ops \cup AnsIn(new, new[j1].comp2).ops
    BY <1>0, ObjAnswers
  <2>2. AnsIn(os, Obj(j1)).ops =
          {os[j1].op} \cup AnsIn(os, os[j1].comp1).ops \cup AnsIn(os, os[j1].comp2).ops
    BY <1>0, ObjAnswers
  <2>3. /\ new[j1].op = os[j1].op
        /\ new[j1].comp1 \in {os[j1].comp1, r} /\ new[j1].comp2 \in {os[j1].comp2, r}
    BY <1>0, PutIs
  <2>4. /\ AnsIn(os, new[j1].comp1).ops \subseteq {o} => AnsIn(new, new[j1].comp1).ops \subseteq {o}
        /\ AnsIn(os, new[j1].comp2).ops \subseteq {o} => AnsIn(new, new[j1].comp2).ops \subseteq {o}
    BY <1>2
  <2>5. Obj(j1) \in Refs(Len(os))
    BY <1>0, RefsAre
  <2> HIDE DEF new
  <2>6. ASSUME AnsIn(os, Obj(j1)).ops \subseteq {o} PROVE AnsIn(new, Obj(j1)).ops \subseteq {o}
    <3>1. /\ os[j1].op = o /\ AnsIn(os, os[j1].comp1).ops \subseteq {o}
          /\ AnsIn(os, os[j1].comp2).ops \subseteq {o}
      BY <2>2, <2>6
    <3>2. AnsIn(os, new[j1].comp1).ops \subseteq {o} /\ AnsIn(os, new[j1].comp2).ops \subseteq {o}
      BY <2>3, <3>1
    <3> QED BY <2>1, <2>3, <2>4, <3>1, <3>2
  <2> QED BY <2>5, <2>6
<1>3. Refs(Len(new)) \subseteq S
  <2> HIDE DEF S, new
  <2> QED BY <1>0, <1>1, <1>2, RefInduction
<1> QED BY <1>0, <1>3

LEMMA PutKeepsLacking ==
  ASSUME NEW os, Heap(os), NEW k \in 1 .. Len(os), NEW at, NEW r \in Refs(k - 1), NEW u,
         u \notin AnsIn(os, r).has
  PROVE  \A x \in Refs(Len(os)) :
           u \notin AnsIn(os, x).has => u \notin AnsIn(Put(os, k, at, r), x).has
<1> DEFINE new == Put(os, k, at, r)
           S == {x \in Refs(Len(os)) : u \notin AnsIn(os, x).has => u \notin AnsIn(new, x).has}
<1>0. Heap(new) /\ Len(new) = Len(os) /\ Len(os) \in Nat
  BY PutIs DEF Heap
<1>1. Atoms \subseteq S
  BY <1>0, RefsAre, AtomAnswers
<1>2. ASSUME NEW j1 \in 1 .. Len(new), new[j1].comp1 \in S, new[j1].comp2 \in S PROVE Obj(j1) \in S
  <2>1. AnsIn(new, Obj(j1)).has = AnsIn(new, new[j1].comp1).has \cup AnsIn(new, new[j1].comp2).has
    BY <1>0, ObjAnswers
  <2>2. AnsIn(os, Obj(j1)).has = AnsIn(os, os[j1].comp1).has \cup AnsIn(os, os[j1].comp2).has
    BY <1>0, ObjAnswers
  <2>3. new[j1].comp1 \in {os[j1].comp1, r} /\ new[j1].comp2 \in {os[j1].comp2, r}
    BY <1>0, PutIs
  <2>4. /\ u \notin AnsIn(os, new[j1].comp1).has => u \notin AnsIn(new, new[j1].comp1).has
        /\ u \notin AnsIn(os, new[j1].comp2).has => u \notin AnsIn(new, new[j1].comp2).has
    BY <1>2
  <2>5. Obj(j1) \in Refs(Len(os))
    BY <1>0, RefsAre
  <2> HIDE DEF new
  <2>6. ASSUME u \notin AnsIn(os, Obj(j1)).has PROVE u \notin AnsIn(new, Obj(j1)).has
    <3>1. u \notin AnsIn(os, new[j1].comp1).has /\ u \notin AnsIn(os, new[j1].comp2).has
      BY <2>2, <2>3, <2>6
    <3> QED BY <2>1, <2>4, <3>1
  <2> QED BY <2>5, <2>6
<1>3. Refs(Len(new)) \subseteq S
  <2> HIDE DEF S, new
  <2> QED BY <1>0, <1>1, <1>2, RefInduction
<1> QED BY <1>0, <1>3

-----------------------------------------------------------------------------
(* The calls of simplify.  A call that waits does so for one on the part   *)
(* it names.                                                               *)

Waits(f) == f.at \in {"first", "second"}

CallsMean ==
  /\ Meaning(label) = meant
  /\ calls # <<>> => Meaning(calls[1].this) = meant
  /\ \A i1 \in 1 .. Len(calls) :
       /\ calls[i1].at # "enter" => IsObj(calls[i1].this)
       /\ Waits(calls[i1]) <=> i1 < Len(calls)
       /\ i1 < Len(calls) =>
            /\ calls[i1 + 1].this \in Refs(calls[i1].this[2] - 1)
            /\ Meaning(calls[i1 + 1].this) = Meaning(Part(objs, calls[i1].this[2], calls[i1].at))

(* A call on a part, and one that has got past the first tests, is on a    *)
(* label that is neither bottom nor top.                                   *)
NeitherPart(k) == Neither(Ans(objs[k].comp1)) /\ Neither(Ans(objs[k].comp2))

CallsOpen ==
  \A i1 \in 1 .. Len(calls) :
    /\ i1 > 1 => Neither(Ans(calls[i1].this))
    /\ calls[i1].at # "enter" => NeitherPart(calls[i1].this[2])

(* A call on a label with one operator only makes such calls only, and     *)
(* where it has replaced a part there is no unit left in it.               *)
CallsPure ==
  \A i1 \in 1 .. Len(calls) : \A o \in Mixed : calls[i1].ops \subseteq {o} =>
    /\ \A j1 \in i1 .. Len(calls) : Ans(calls[j1].this).ops \subseteq {o}
    /\ calls[i1].at \in {"between", "second", "again"} =>
         Unit(o) \notin Ans(objs[calls[i1].this[2]].comp1).has
    /\ calls[i1].at = "again" => Unit(o) \notin Ans(objs[calls[i1].this[2]].comp2).has

CallsInv == LabelTypeOK /\ MadeOfParts /\ CallsMean /\ CallsOpen /\ CallsPure

(* What may be returned from the last call. *)
Outcome(r) ==
  /\ \A m \in Nat : Top.this \in Refs(m) => r \in Refs(m)
  /\ Meaning(r) = Meaning(Top.this)
  /\ Len(calls) > 1 =>
       /\ Neither(Ans(r))
       /\ \A o \in Mixed : Ans(Top.this).ops \subseteq {o} =>
            Ans(r).ops \subseteq {o} /\ Unit(o) \notin Ans(r).has

LEMMA CallersAre ==
  ASSUME CallsInv, NEW i1 \in 1 .. Len(calls)
  PROVE  /\ Len(calls) \in Nat /\ Len(objs) \in Nat
         /\ calls[i1] \in Frames
         /\ calls[i1].this \in Refs(Len(objs))
         /\ IsObj(calls[i1].this) =>
              calls[i1].this[2] \in 1 .. Len(objs) /\ calls[i1].this = Obj(calls[i1].this[2])
         /\ i1 < Len(calls) => IsObj(calls[i1].this)
<1>1. Len(calls) \in Nat /\ Len(objs) \in Nat
  BY DEF CallsInv, LabelTypeOK, Heap
<1>2. /\ calls[i1] \in Frames
      /\ calls[i1].this \in Refs(Len(objs))
  BY DEF CallsInv, LabelTypeOK
<1>3. IsObj(calls[i1].this) =>
        calls[i1].this[2] \in 1 .. Len(objs) /\ calls[i1].this = Obj(calls[i1].this[2])
  BY <1>1, <1>2, RefsAre
<1>4. i1 < Len(calls) => IsObj(calls[i1].this)
  BY DEF CallsInv, CallsMean, Waits
<1> QED BY <1>1, <1>2, <1>3, <1>4

(* The last call ends, and there is another. *)
LEMMA ReturnIs ==
  ASSUME CallsInv, Len(calls) > 1, NEW r, Return(r), Outcome(r)
  PROVE  LET n == Len(calls)
             k == calls[n - 1].this[2]
             at == calls[n - 1].at
         IN  /\ n \in Nat /\ k \in 1 .. Len(objs) /\ at \in {"first", "second"}
             /\ r \in Refs(k - 1)
             /\ objs' = Put(objs, k, at, r)
             /\ calls' \in Seq(Frames)
             /\ Len(calls') = n - 1
             /\ \A i1 \in 1 .. n - 1 : calls'[i1].this = calls[i1].this /\ calls'[i1].ops = calls[i1].ops
             /\ \A i1 \in 1 .. n - 2 : calls'[i1] = calls[i1]
             /\ calls'[n - 1].at = IF at = "first" THEN "between" ELSE "again"
             /\ calls[n - 1].this = Obj(k)
             /\ UNCHANGED <<meaning, label, meant>>
             /\ Heap(objs) /\ Heap(objs') /\ Len(objs') = Len(objs) /\ Len(objs) \in Nat
             /\ \A j1 \in 1 .. Len(objs) : objs'[j1].op = objs[j1].op
             /\ \A j1 \in 1 .. Len(objs) : j1 # k => objs'[j1] = objs[j1]
             /\ at = "first" => objs'[k].comp1 = r /\ objs'[k].comp2 = objs[k].comp2
             /\ at # "first" => objs'[k].comp1 = objs[k].comp1 /\ objs'[k].comp2 = r
<1> DEFINE n == Len(calls)
           k == calls[n - 1].this[2]
           at == calls[n - 1].at
           s == SubSeq(calls, 1, n - 1)
           f == [calls[n - 1] EXCEPT !.at = IF at = "first" THEN "between" ELSE "again"]
<1>1. n \in Nat /\ n > 1 /\ n - 1 \in 1 .. n /\ calls \in Seq(Frames)
  BY DEF CallsInv, LabelTypeOK
<1>2. /\ calls[n - 1] \in Frames /\ k \in 1 .. Len(objs) /\ calls[n - 1].this = Obj(k)
      /\ Len(objs) \in Nat
  BY <1>1, CallersAre
<1>3. at \in {"first", "second"}
  BY <1>1 DEF CallsInv, CallsMean, Waits
<1>4. r \in Refs(k - 1)
  <2>1. calls[(n - 1) + 1].this \in Refs(k - 1)
    BY <1>1 DEF CallsInv, CallsMean
  <2>2. (n - 1) + 1 = n /\ k - 1 \in Nat
    BY <1>1, <1>2
  <2>3. Top.this \in Refs(k - 1)
    BY <2>1, <2>2 DEF Top
  <2> QED BY <2>2, <2>3 DEF Outcome
<1>5. /\ f \in Frames /\ f.this = calls[n - 1].this /\ f.ops = calls[n - 1].ops
      /\ f.at = IF at = "first" THEN "between" ELSE "again"
  BY <1>2 DEF Frames, Places
<1>6. s \in Seq(Frames) /\ Len(s) = n - 1 /\ \A i1 \in 1 .. n - 1 : s[i1] = calls[i1]
  BY <1>1
<1>7. /\ calls' = [s EXCEPT ![n - 1] = f]
      /\ objs' = Put(objs, k, at, r)
      /\ UNCHANGED <<meaning, label, meant>>
  <2>1. s[n - 1] = calls[n - 1]
    BY <1>1, <1>6
  <2>2. n # 1
    <3>1. \A m \in Nat : m > 1 => m # 1
      OBVIOUS
    <3> QED BY <1>1, <3>1, Zenon
  <2>3. calls' = [s EXCEPT ![n - 1].at = IF at = "first" THEN "between" ELSE "again"]
    BY <2>2, Zenon DEF Return
  <2>4. objs' = Put(objs, k, at, r)
    BY <2>2, Zenon DEF Return
  <2>5. UNCHANGED <<meaning, label, meant>>
    BY <2>2, Zenon DEF Return
  <2> QED BY <2>1, <2>3, <2>4, <2>5
<1> HIDE DEF s, f, k, at
<1>8. /\ [s EXCEPT ![n - 1] = f] \in Seq(Frames) /\ Len([s EXCEPT ![n - 1] = f]) = n - 1
      /\ [s EXCEPT ![n - 1] = f][n - 1] = f
      /\ \A i1 \in 1 .. n - 1 : i1 # n - 1 => [s EXCEPT ![n - 1] = f][i1] = s[i1]
  BY <1>1, <1>5, <1>6, ExceptSeq
<1>9. \A i1 \in 1 .. n - 2 : calls'[i1] = calls[i1]
  BY <1>1, <1>6, <1>7, <1>8
<1>10. calls'[n - 1] = f
  BY <1>7, <1>8
<1>11. \A i1 \in 1 .. n - 1 : calls'[i1].this = calls[i1].this /\ calls'[i1].ops = calls[i1].ops
  BY <1>1, <1>5, <1>9, <1>10
<1>12. calls' \in Seq(Frames) /\ Len(calls') = n - 1
  BY <1>7, <1>8
<1>13. Heap(objs) /\ Len(objs) \in Nat
  BY DEF CallsInv, LabelTypeOK, Heap
<1>14. /\ Heap(objs') /\ Len(objs') = Len(objs)
       /\ \A j1 \in 1 .. Len(objs) : objs'[j1].op = objs[j1].op
       /\ \A j1 \in 1 .. Len(objs) : j1 # k => objs'[j1] = objs[j1]
       /\ at = "first" => objs'[k].comp1 = r /\ objs'[k].comp2 = objs[k].comp2
       /\ at # "first" => objs'[k].comp1 = objs[k].comp1 /\ objs'[k].comp2 = r
  <2> DEFINE new == Put(objs, k, at, r)
  <2>1. /\ Heap(new) /\ Len(new) = Len(objs)
        /\ \A j1 \in 1 .. Len(objs) : new[j1].op = objs[j1].op
        /\ \A j1 \in 1 .. Len(objs) : j1 # k => new[j1] = objs[j1]
        /\ at = "first" => new[k].comp1 = r /\ new[k].comp2 = objs[k].comp2
        /\ at # "first" => new[k].comp1 = objs[k].comp1 /\ new[k].comp2 = r
    BY <1>2, <1>4, <1>13, PutIs
  <2>2. objs' = new
    BY <1>7
  <2> HIDE DEF new
  <2> QED BY <2>1, <2>2
<1> QED BY <1>1, <1>2, <1>3, <1>4, <1>5, <1>7, <1>9, <1>10, <1>11, <1>12, <1>13, <1>14 DEF k, at

-----------------------------------------------------------------------------
(* A call returns to the one that waits for it. *)

LEMMA UnchangedMeaning == UNCHANGED meaning => \A r : Meaning(r)' = Meaning(r)
  BY DEF Meaning

LEMMA ReturnMeans ==
  ASSUME CallsInv, Len(calls) > 1, NEW r, Return(r), Outcome(r)
  PROVE  (LabelTypeOK /\ MadeOfParts /\ CallsMean)'
<1> DEFINE n == Len(calls)
           k == calls[n - 1].this[2]
           at == calls[n - 1].at
<1>1. /\ n \in Nat /\ n > 1 /\ k \in 1 .. Len(objs) /\ at \in {"first", "second"}
      /\ r \in Refs(k - 1) /\ objs' = Put(objs, k, at, r)
      /\ calls' \in Seq(Frames) /\ Len(calls') = n - 1
      /\ \A i1 \in 1 .. n - 1 : calls'[i1].this = calls[i1].this /\ calls'[i1].ops = calls[i1].ops
      /\ \A i1 \in 1 .. n - 2 : calls'[i1] = calls[i1]
      /\ calls'[n - 1].at = IF at = "first" THEN "between" ELSE "again"
      /\ calls[n - 1].this = Obj(k)
      /\ meaning' = meaning /\ label' = label /\ meant' = meant
  BY ReturnIs
<1>2. /\ Heap(objs) /\ Heap(objs') /\ Len(objs') = Len(objs) /\ Len(objs) \in Nat
      /\ \A j1 \in 1 .. Len(objs) : objs'[j1].op = objs[j1].op
      /\ \A j1 \in 1 .. Len(objs) : j1 # k => objs'[j1] = objs[j1]
      /\ at = "first" => objs'[k].comp1 = r /\ objs'[k].comp2 = objs[k].comp2
      /\ at # "first" => objs'[k].comp1 = objs[k].comp1 /\ objs'[k].comp2 = r
  BY ReturnIs
<1>3. \A x : Meaning(x)' = Meaning(x)
  BY <1>1, UnchangedMeaning
<1>4. Meaning(r) = Meaning(Part(objs, k, at))
  <2>1. Meaning(calls[(n - 1) + 1].this) = Meaning(Part(objs, k, at))
    BY <1>1 DEF CallsInv, CallsMean
  <2>2. (n - 1) + 1 = n
    BY <1>1
  <2> QED BY <2>1, <2>2 DEF Outcome, Top
<1> HIDE DEF n, k, at
<1>5. \A j1 \in 1 .. Len(objs) :
        /\ Meaning(objs'[j1].comp1) = Meaning(objs[j1].comp1)
        /\ Meaning(objs'[j1].comp2) = Meaning(objs[j1].comp2)
  BY <1>2, <1>4 DEF Part
<1>6. MadeOfParts'
  BY <1>1, <1>2, <1>3, <1>5 DEF MadeOfParts, CallsInv
<1>7. LabelTypeOK'
  <2>1. n = Len(calls)
    BY DEF n
  <2>2. ASSUME NEW i1 \in 1 .. n - 1 PROVE calls'[i1].this \in Refs(Len(objs))
    <3>1. i1 \in 1 .. n
      BY <1>1
    <3> QED BY <1>1, <2>1, <3>1 DEF CallsInv, LabelTypeOK
  <2> QED BY <1>1, <1>2, <2>2 DEF LabelTypeOK, CallsInv
<1>8. CallsMean'
  <2>0. n = Len(calls)
    BY DEF n
  <2>1. Meaning(label)' = meant'
    BY <1>1, <1>3 DEF CallsInv, CallsMean, Meaning
  <2>2. calls' # <<>> /\ Meaning(calls'[1].this) = meant
    <3>1. calls'[1].this = calls[1].this /\ calls' # <<>> /\ calls # <<>>
      BY <1>1, <2>0
    <3> QED BY <3>1 DEF CallsInv, CallsMean
  <2>3. ASSUME NEW i1 \in 1 .. n - 1
        PROVE  /\ calls'[i1].at # "enter" => IsObj(calls'[i1].this)
               /\ Waits(calls'[i1]) <=> i1 < n - 1
    <3>1. CASE i1 = n - 1
      BY <1>1, <3>1, RefsAre DEF Waits
    <3>2. CASE i1 # n - 1
      <4>1. calls'[i1] = calls[i1] /\ i1 < n /\ i1 \in 1 .. n /\ i1 < n - 1
        BY <1>1, <3>2
      <4> QED BY <2>0, <4>1 DEF CallsInv, CallsMean
    <3> QED BY <3>1, <3>2
  <2>4. ASSUME NEW i1 \in 1 .. n - 1, i1 < n - 1
        PROVE  /\ calls'[i1 + 1].this \in Refs(calls'[i1].this[2] - 1)
               /\ Meaning(calls'[i1 + 1].this) = Meaning(Part(objs', calls'[i1].this[2], calls'[i1].at))
    <3>1. /\ calls'[i1] = calls[i1] /\ calls'[i1 + 1].this = calls[i1 + 1].this
          /\ i1 \in 1 .. n /\ i1 < n
      BY <1>1, <2>4
    <3>2. calls[i1].this[2] \in 1 .. Len(objs)
      BY <2>0, <3>1, CallersAre
    <3>3. Meaning(Part(objs', calls[i1].this[2], calls[i1].at)) = Meaning(Part(objs, calls[i1].this[2], calls[i1].at))
      BY <1>5, <3>2 DEF Part
    <3> QED BY <2>0, <3>1, <3>3 DEF CallsInv, CallsMean
  <2>5. Meaning(calls[1].this)' = Meaning(calls'[1].this)
    BY <1>1 DEF Meaning
  <2>6. ASSUME NEW i1 \in 1 .. n - 1
        PROVE  /\ Meaning(calls[i1 + 1].this)' = Meaning(calls'[i1 + 1].this)
               /\ Meaning(Part(objs, calls[i1].this[2], calls[i1].at))' =
                    Meaning(Part(objs', calls'[i1].this[2], calls'[i1].at))
    BY <1>1 DEF Meaning, Part
  <2> QED BY <1>1, <2>1, <2>2, <2>3, <2>4, <2>5, <2>6 DEF CallsMean, Waits
<1> QED BY <1>6, <1>7, <1>8

LEMMA ReturnOpen ==
  ASSUME CallsInv, Len(calls) > 1, NEW r, Return(r), Outcome(r)
  PROVE  CallsOpen'
<1> DEFINE n == Len(calls)
           k == calls[n - 1].this[2]
           at == calls[n - 1].at
<1>1. /\ n \in Nat /\ n > 1 /\ k \in 1 .. Len(objs) /\ at \in {"first", "second"}
      /\ r \in Refs(k - 1) /\ objs' = Put(objs, k, at, r) /\ Len(calls') = n - 1
      /\ \A i1 \in 1 .. n - 1 : calls'[i1].this = calls[i1].this /\ calls'[i1].ops = calls[i1].ops
      /\ \A i1 \in 1 .. n - 2 : calls'[i1] = calls[i1]
      /\ calls[n - 1].this = Obj(k)
  BY ReturnIs
<1>2. /\ Heap(objs) /\ Len(objs') = Len(objs) /\ Len(objs) \in Nat
      /\ \A j1 \in 1 .. Len(objs) : j1 # k => objs'[j1] = objs[j1]
      /\ at = "first" => objs'[k].comp1 = r /\ objs'[k].comp2 = objs[k].comp2
      /\ at # "first" => objs'[k].comp1 = objs[k].comp1 /\ objs'[k].comp2 = r
  BY ReturnIs
<1>3. NeitherPart(k)
  <2>1. n - 1 \in 1 .. Len(calls)
    BY <1>1
  <2> QED BY <1>1, <2>1 DEF CallsInv, CallsOpen
<1>4. Neither(Ans(r)) /\ Neither(Ans(Part(objs, k, at)))
  BY <1>1, <1>3 DEF Outcome, NeitherPart, Part
<1> HIDE DEF n, k, at
<1>5. \A x \in Refs(Len(objs)) : Neither(Ans(x)) => Neither(AnsIn(objs', x))
  <2>1. \A x \in Refs(Len(objs)) :
          /\ AnsIn(Put(objs, k, at, r), x).bottom <=> AnsIn(objs, x).bottom
          /\ AnsIn(Put(objs, k, at, r), x).top <=> AnsIn(objs, x).top
    BY <1>1, <1>2, <1>4, PutKeepsEnds DEF Ans
  <2> QED BY <1>1, <2>1 DEF Neither, Ans
<1>6. r \in Refs(Len(objs))
  BY <1>1, <1>2, RefsGrow
<1>7. ASSUME NEW j1 \in 1 .. Len(objs), NeitherPart(j1)
      PROVE  Neither(AnsIn(objs', objs'[j1].comp1)) /\ Neither(AnsIn(objs', objs'[j1].comp2))
  <2>1. /\ objs[j1].comp1 \in Refs(Len(objs)) /\ objs[j1].comp2 \in Refs(Len(objs))
        /\ objs'[j1].comp1 \in {objs[j1].comp1, r} /\ objs'[j1].comp2 \in {objs[j1].comp2, r}
    BY <1>2, ObjAnswers
  <2> QED BY <1>4, <1>5, <1>6, <1>7, <2>1 DEF NeitherPart
<1>8. ASSUME NEW i1 \in 1 .. n - 1
      PROVE  /\ i1 > 1 => Neither(AnsIn(objs', calls'[i1].this))
             /\ calls'[i1].at # "enter" =>
                  /\ Neither(AnsIn(objs', objs'[calls'[i1].this[2]].comp1))
                  /\ Neither(AnsIn(objs', objs'[calls'[i1].this[2]].comp2))
  <2>1. i1 \in 1 .. Len(calls) /\ n = Len(calls) /\ i1 < n
    BY <1>1 DEF n
  <2>2. calls[i1].this \in Refs(Len(objs)) /\ calls'[i1].this = calls[i1].this
    BY <1>1, <2>1, CallersAre
  <2>3. i1 > 1 => Neither(AnsIn(objs', calls'[i1].this))
    BY <1>5, <2>1, <2>2 DEF CallsInv, CallsOpen
  <2>4. calls[i1].at # "enter" /\ calls[i1].this[2] \in 1 .. Len(objs)
    BY <2>1, CallersAre DEF CallsInv, CallsMean, Waits
  <2>5. NeitherPart(calls[i1].this[2])
    BY <2>1, <2>4 DEF CallsInv, CallsOpen
  <2> QED BY <1>7, <2>2, <2>3, <2>4, <2>5
<1>9. ASSUME NEW i1 \in 1 .. n - 1
      PROVE  /\ Neither(Ans(calls[i1].this))' <=> Neither(AnsIn(objs', calls'[i1].this))
             /\ NeitherPart(calls[i1].this[2])' <=>
                  /\ Neither(AnsIn(objs', objs'[calls'[i1].this[2]].comp1))
                  /\ Neither(AnsIn(objs', objs'[calls'[i1].this[2]].comp2))
  BY DEF Neither, NeitherPart, Ans
<1> QED BY <1>1, <1>8, <1>9 DEF CallsOpen

LEMMA ReturnPure ==
  ASSUME CallsInv, Len(calls) > 1, NEW r, Return(r), Outcome(r)
  PROVE  CallsPure'
<1> DEFINE n == Len(calls)
           k == calls[n - 1].this[2]
           at == calls[n - 1].at
<1>1. /\ n \in Nat /\ n > 1 /\ k \in 1 .. Len(objs) /\ at \in {"first", "second"}
      /\ r \in Refs(k - 1) /\ objs' = Put(objs, k, at, r) /\ Len(calls') = n - 1
      /\ \A i1 \in 1 .. n - 1 : calls'[i1].this = calls[i1].this /\ calls'[i1].ops = calls[i1].ops
      /\ \A i1 \in 1 .. n - 2 : calls'[i1] = calls[i1]
      /\ calls'[n - 1].at = IF at = "first" THEN "between" ELSE "again"
      /\ calls[n - 1].this = Obj(k)
  BY ReturnIs
<1>2. /\ Heap(objs) /\ Len(objs') = Len(objs) /\ Len(objs) \in Nat
      /\ \A j1 \in 1 .. Len(objs) : j1 # k => objs'[j1] = objs[j1]
      /\ at = "first" => objs'[k].comp1 = r /\ objs'[k].comp2 = objs[k].comp2
      /\ at # "first" => objs'[k].comp1 = objs[k].comp1 /\ objs'[k].comp2 = r
  BY ReturnIs
<1>3. /\ n = Len(calls) /\ at = calls[n - 1].at /\ k = calls[n - 1].this[2]
      /\ r \in Refs(Len(objs))
  <2>1. r \in Refs(Len(objs))
    BY <1>1, <1>2, RefsGrow
  <2> QED BY <2>1
<1> HIDE DEF n, k, at
<1>4. ASSUME NEW i1 \in 1 .. n - 1, NEW o \in Mixed, calls[i1].ops \subseteq {o}
      PROVE  /\ \A j1 \in i1 .. n - 1 : AnsIn(objs', calls'[j1].this).ops \subseteq {o}
             /\ calls'[i1].at \in {"between", "second", "again"} =>
                  Unit(o) \notin AnsIn(objs', objs'[calls'[i1].this[2]].comp1).has
             /\ calls'[i1].at = "again" =>
                  Unit(o) \notin AnsIn(objs', objs'[calls'[i1].this[2]].comp2).has
  <2> DEFINE c == calls[i1].this[2]
  <2>1. /\ i1 \in 1 .. Len(calls) /\ i1 < Len(calls) /\ calls'[i1].this = calls[i1].this
        /\ c \in 1 .. Len(objs)
    BY <1>1, <1>3, CallersAre
  <2>2. /\ \A j1 \in i1 .. n : Ans(calls[j1].this).ops \subseteq {o}
        /\ calls[i1].at \in {"between", "second", "again"} => Unit(o) \notin Ans(objs[c].comp1).has
    BY <1>3, <1>4, <2>1 DEF CallsInv, CallsPure
  <2>3. Ans(r).ops \subseteq {o} /\ Unit(o) \notin Ans(r).has
    <3>0. n \in i1 .. n
      BY <1>1
    <3>1. Ans(calls[n].this).ops \subseteq {o}
      BY <2>2, <3>0
    <3> QED BY <1>1, <1>3, <3>1 DEF Outcome, Top
  <2>4. \A x \in Refs(Len(objs)) :
          /\ Ans(x).ops \subseteq {o} => AnsIn(objs', x).ops \subseteq {o}
          /\ Unit(o) \notin Ans(x).has => Unit(o) \notin AnsIn(objs', x).has
    <3>1. \A x \in Refs(Len(objs)) :
            AnsIn(objs, x).ops \subseteq {o} => AnsIn(Put(objs, k, at, r), x).ops \subseteq {o}
      BY <1>1, <1>2, <2>3, PutKeepsPure DEF Ans
    <3>2. \A x \in Refs(Len(objs)) :
            Unit(o) \notin AnsIn(objs, x).has => Unit(o) \notin AnsIn(Put(objs, k, at, r), x).has
      BY <1>1, <1>2, <2>3, PutKeepsLacking DEF Ans
    <3> QED BY <1>1, <3>1, <3>2, Zenon DEF Ans
  <2>5. ASSUME NEW j1 \in i1 .. n - 1 PROVE AnsIn(objs', calls'[j1].this).ops \subseteq {o}
    <3>1. j1 \in 1 .. n - 1 /\ j1 \in 1 .. Len(calls) /\ j1 \in i1 .. n
      BY <1>1, <1>3
    <3>2. calls[j1].this \in Refs(Len(objs)) /\ calls'[j1].this = calls[j1].this
      BY <1>1, <3>1, CallersAre
    <3> QED BY <2>2, <2>4, <3>1, <3>2
  <2>6. /\ objs[c].comp1 \in Refs(Len(objs)) /\ objs[c].comp2 \in Refs(Len(objs))
        /\ c # k => objs'[c] = objs[c]
    BY <1>2, <2>1, ObjAnswers
  <2>7. calls'[i1].at \in {"between", "second", "again"} => Unit(o) \notin AnsIn(objs', objs'[c].comp1).has
    <3>1. CASE i1 = n - 1
      <4>1. c = k /\ calls[i1].at = at
        BY <1>3, <3>1
      <4>2. CASE at = "first"
        BY <1>2, <1>3, <2>3, <2>4, <4>1, <4>2
      <4>3. CASE at # "first"
        <5>1. at = "second" /\ objs'[c].comp1 = objs[c].comp1
          BY <1>1, <1>2, <4>1, <4>3
        <5> QED BY <2>2, <2>4, <2>6, <4>1, <5>1
      <4> QED BY <4>2, <4>3
    <3>2. CASE i1 # n - 1
      <4>1. calls'[i1] = calls[i1]
        BY <1>1, <3>2
      <4>2. objs'[c].comp1 \in {objs[c].comp1, r}
        BY <1>2, <2>6
      <4> QED BY <1>3, <2>2, <2>3, <2>4, <2>6, <4>1, <4>2
    <3> QED BY <3>1, <3>2
  <2>8. calls'[i1].at = "again" => Unit(o) \notin AnsIn(objs', objs'[c].comp2).has
    <3>1. CASE i1 = n - 1
      <4>1. c = k
        BY <1>3, <3>1
      <4>2. calls'[i1].at = "again" => at # "first"
        BY <1>1, <3>1
      <4> QED BY <1>2, <1>3, <2>3, <2>4, <4>1, <4>2
    <3>2. CASE i1 # n - 1
      <4>1. calls'[i1] = calls[i1] /\ calls[i1].at \in {"first", "second"}
        BY <1>1, <2>1, <3>2 DEF CallsInv, CallsMean, Waits
      <4> QED BY <4>1
    <3> QED BY <3>1, <3>2
  <2> QED BY <2>1, <2>5, <2>7, <2>8
<1>5. /\ \A j1 : Ans(calls[j1].this)' = AnsIn(objs', calls'[j1].this)
      /\ \A i1 : /\ Ans(objs[calls[i1].this[2]].comp1)' = AnsIn(objs', objs'[calls'[i1].this[2]].comp1)
               /\ Ans(objs[calls[i1].this[2]].comp2)' = AnsIn(objs', objs'[calls'[i1].this[2]].comp2)
  BY DEF Ans
<1>6. ASSUME NEW i1 \in 1 .. n - 1, NEW o \in Mixed, calls'[i1].ops \subseteq {o}
      PROVE  /\ \A j1 \in i1 .. n - 1 : Ans(calls[j1].this)'.ops \subseteq {o}
             /\ calls'[i1].at \in {"between", "second", "again"} =>
                  Unit(o) \notin Ans(objs[calls[i1].this[2]].comp1)'.has
             /\ calls'[i1].at = "again" =>
                  Unit(o) \notin Ans(objs[calls[i1].this[2]].comp2)'.has
  <2>1. calls[i1].ops \subseteq {o}
    BY <1>1, <1>6
  <2> QED BY <1>4, <1>5, <2>1
<1>7. CallsPure' = \A i1 \in 1 .. n - 1 : \A o \in Mixed : calls'[i1].ops \subseteq {o} =>
                     /\ \A j1 \in i1 .. n - 1 : Ans(calls[j1].this)'.ops \subseteq {o}
                     /\ calls'[i1].at \in {"between", "second", "again"} =>
                          Unit(o) \notin Ans(objs[calls[i1].this[2]].comp1)'.has
                     /\ calls'[i1].at = "again" =>
                          Unit(o) \notin Ans(objs[calls[i1].this[2]].comp2)'.has
  BY <1>1, Zenon DEF CallsPure, Unit, Mixed
<1> QED BY <1>6, <1>7, Zenon

-----------------------------------------------------------------------------
(* The last call goes on, with the same label or with a part of it.        *)
FitsTop(f) ==
  /\ f \in Frames /\ ~Waits(f)
  /\ \A m \in Nat : Top.this \in Refs(m) => f.this \in Refs(m)
  /\ Meaning(f.this) = Meaning(Top.this)
  /\ Neither(Ans(Top.this)) => Neither(Ans(f.this))
  /\ f.at # "enter" => IsObj(f.this) /\ NeitherPart(f.this[2])
  /\ Ans(f.this).ops \subseteq Ans(Top.this).ops
  /\ \A o \in Mixed : f.ops \subseteq {o} =>
       /\ Ans(f.this).ops \subseteq {o}
       /\ f.at \in {"between", "again"} => Unit(o) \notin Ans(objs[f.this[2]].comp1).has
       /\ f.at = "again" => Unit(o) \notin Ans(objs[f.this[2]].comp2).has

SameLabels == UNCHANGED <<objs, meaning, label, meant>>
TopBecomes(f) == calls' = [calls EXCEPT ![Len(calls)] = f]

LEMMA SameObjects ==
  ASSUME SameLabels, LabelTypeOK, MadeOfParts
  PROVE  /\ \A x : Ans(x)' = Ans(x) /\ Meaning(x)' = Meaning(x)
         /\ \A k, at : Part(objs, k, at)' = Part(objs, k, at)
         /\ \A k : NeitherPart(k)' = NeitherPart(k)
         /\ Len(objs') = Len(objs) /\ MadeOfParts'
  BY DEF SameLabels, Ans, Meaning, Part, NeitherPart, MadeOfParts

LEMMA TopChanges ==
  ASSUME CallsInv, calls # <<>>, SameLabels, NEW f, FitsTop(f), TopBecomes(f)
  PROVE  CallsInv'
<1> DEFINE n == Len(calls)
<1>1. calls \in Seq(Frames) /\ n \in Nat /\ n \in 1 .. n /\ f \in Frames
  BY DEF CallsInv, LabelTypeOK, FitsTop
<1>2. /\ calls' \in Seq(Frames) /\ Len(calls') = n /\ calls'[n] = f
      /\ \A i1 \in 1 .. n : i1 # n => calls'[i1] = calls[i1]
  BY <1>1, ExceptSeq DEF TopBecomes
<1>3. /\ \A x : Ans(x)' = Ans(x) /\ Meaning(x)' = Meaning(x)
      /\ \A k, at : Part(objs, k, at)' = Part(objs, k, at)
      /\ \A k : NeitherPart(k)' = NeitherPart(k)
      /\ Len(objs') = Len(objs) /\ MadeOfParts'
  BY SameObjects DEF CallsInv
<1>4. Top = calls[n] /\ Len(calls) = n
  BY DEF Top
<1> HIDE DEF n
<1>5. LabelTypeOK'
  <2>1. Len(objs) \in Nat /\ calls[n].this \in Refs(Len(objs))
    BY <1>1, <1>4, CallersAre
  <2>2. f.this \in Refs(Len(objs))
    BY <1>4, <2>1 DEF FitsTop
  <2> QED BY <1>1, <1>2, <1>4, <2>2 DEF LabelTypeOK, CallsInv, SameLabels
<1>6. ASSUME NEW i1 \in 1 .. n
      PROVE  /\ calls'[i1].at # "enter" => IsObj(calls'[i1].this)
             /\ Waits(calls'[i1]) <=> i1 < n
             /\ i1 < n =>
                  /\ calls'[i1 + 1].this \in Refs(calls'[i1].this[2] - 1)
                  /\ Meaning(calls'[i1 + 1].this) = Meaning(Part(objs, calls'[i1].this[2], calls'[i1].at))
  <2>1. CASE i1 = n
    BY <1>1, <1>2, <2>1 DEF FitsTop
  <2>2. CASE i1 # n
    <3>1. calls'[i1] = calls[i1] /\ i1 + 1 \in 1 .. n /\ i1 < n /\ calls[i1].this[2] \in 1 .. Len(objs)
      BY <1>1, <1>2, <1>4, <2>2, CallersAre
    <3>2. /\ calls[i1].at # "enter" => IsObj(calls[i1].this)
          /\ Waits(calls[i1])
          /\ calls[i1 + 1].this \in Refs(calls[i1].this[2] - 1)
          /\ Meaning(calls[i1 + 1].this) = Meaning(Part(objs, calls[i1].this[2], calls[i1].at))
      BY <1>4, <3>1 DEF CallsInv, CallsMean
    <3>3. CASE i1 + 1 = n
      <4>1. calls[i1].this[2] - 1 \in Nat /\ calls'[i1 + 1] = f
        BY <1>2, <3>1, <3>3
      <4> QED BY <1>4, <3>1, <3>2, <3>3, <4>1 DEF FitsTop
    <3>4. CASE i1 + 1 # n
      <4>1. calls'[i1 + 1] = calls[i1 + 1]
        BY <1>2, <3>1, <3>4
      <4> QED BY <3>1, <3>2, <4>1
    <3> QED BY <3>3, <3>4
  <2> QED BY <2>1, <2>2
<1>7. Meaning(label) = meant /\ Meaning(calls'[1].this) = meant
  <2>0. 1 \in 1 .. n
    BY <1>1
  <2>1. Meaning(label) = meant /\ Meaning(calls[1].this) = meant
    BY DEF CallsInv, CallsMean
  <2>2. CASE n = 1
    BY <1>2, <1>4, <2>1, <2>2 DEF FitsTop
  <2>3. CASE n # 1
    <3>1. calls'[1] = calls[1]
      BY <1>2, <2>0, <2>3
    <3> QED BY <2>1, <3>1
  <2> QED BY <2>1, <2>2, <2>3
<1>8. CallsMean'
  <2>1. /\ (Meaning(label) = meant)'
        /\ Meaning(calls[1].this)' = meant'
    BY <1>7 DEF Meaning, SameLabels
  <2>2. \A i1 \in 1 .. n : /\ Meaning(calls[i1 + 1].this)' = Meaning(calls'[i1 + 1].this)
                          /\ Meaning(Part(objs, calls[i1].this[2], calls[i1].at))' =
                               Meaning(Part(objs, calls'[i1].this[2], calls'[i1].at))
    BY DEF Meaning, Part, SameLabels
  <2> QED BY <1>2, <1>6, <2>1, <2>2 DEF CallsMean, Waits
<1>9. CallsOpen'
  <2>1. ASSUME NEW i1 \in 1 .. n
        PROVE  /\ i1 > 1 => Neither(Ans(calls'[i1].this))
               /\ calls'[i1].at # "enter" => NeitherPart(calls'[i1].this[2])
    <3>1. /\ i1 > 1 => Neither(Ans(calls[i1].this))
          /\ calls[i1].at # "enter" => NeitherPart(calls[i1].this[2])
      BY <1>4 DEF CallsInv, CallsOpen
    <3>2. CASE i1 = n
      BY <1>2, <1>4, <3>1, <3>2 DEF FitsTop
    <3>3. CASE i1 # n
      BY <1>2, <3>1, <3>3
    <3> QED BY <3>2, <3>3
  <2>2. \A i1 \in 1 .. n : /\ Neither(Ans(calls[i1].this))' = Neither(Ans(calls'[i1].this))
                          /\ NeitherPart(calls[i1].this[2])' = NeitherPart(calls'[i1].this[2])
    BY DEF Ans, Neither, NeitherPart, SameLabels
  <2> QED BY <1>2, <2>1, <2>2 DEF CallsOpen
<1>10. CallsPure'
  <2>1. ASSUME NEW i1 \in 1 .. n, NEW o \in Mixed, calls'[i1].ops \subseteq {o}
        PROVE  /\ \A j1 \in i1 .. n : Ans(calls'[j1].this).ops \subseteq {o}
               /\ calls'[i1].at \in {"between", "second", "again"} =>
                    Unit(o) \notin Ans(objs[calls'[i1].this[2]].comp1).has
               /\ calls'[i1].at = "again" =>
                    Unit(o) \notin Ans(objs[calls'[i1].this[2]].comp2).has
    <3>1. CASE i1 = n
      <4>1. calls'[i1] = f /\ f.ops \subseteq {o} /\ f.at # "second"
        BY <1>2, <2>1, <3>1 DEF FitsTop, Waits
      <4>2. \A j1 \in i1 .. n : j1 = i1
        BY <1>1, <3>1
      <4> QED BY <4>1, <4>2 DEF FitsTop
    <3>2. CASE i1 # n
      <4>1. calls'[i1] = calls[i1]
        BY <1>2, <3>2
      <4>2. /\ \A j1 \in i1 .. n : Ans(calls[j1].this).ops \subseteq {o}
            /\ calls[i1].at \in {"between", "second", "again"} =>
                 Unit(o) \notin Ans(objs[calls[i1].this[2]].comp1).has
            /\ calls[i1].at = "again" => Unit(o) \notin Ans(objs[calls[i1].this[2]].comp2).has
        BY <1>4, <2>1, <4>1 DEF CallsInv, CallsPure
      <4>3. ASSUME NEW j1 \in i1 .. n PROVE Ans(calls'[j1].this).ops \subseteq {o}
        <5>0. j1 \in 1 .. n
          BY <1>1
        <5>1. CASE j1 = n
          BY <1>2, <1>4, <4>2, <5>1 DEF FitsTop
        <5>2. CASE j1 # n
          BY <1>2, <4>2, <5>0, <5>2
        <5> QED BY <5>1, <5>2
      <4> QED BY <4>1, <4>2, <4>3
    <3> QED BY <3>1, <3>2
  <2>2. /\ \A j1 : Ans(calls[j1].this)' = AnsIn(objs', calls'[j1].this)
        /\ \A i1 : /\ Ans(objs[calls[i1].this[2]].comp1)' = AnsIn(objs', objs'[calls'[i1].this[2]].comp1)
                  /\ Ans(objs[calls[i1].this[2]].comp2)' = AnsIn(objs', objs'[calls'[i1].this[2]].comp2)
    BY DEF Ans, SameLabels
  <2>5. /\ \A j1 : Ans(calls'[j1].this) = AnsIn(objs', calls'[j1].this)
        /\ \A i1 : /\ Ans(objs[calls'[i1].this[2]].comp1) = AnsIn(objs', objs'[calls'[i1].this[2]].comp1)
                  /\ Ans(objs[calls'[i1].this[2]].comp2) = AnsIn(objs', objs'[calls'[i1].this[2]].comp2)
    BY DEF Ans, SameLabels
  <2>3. ASSUME NEW i1 \in 1 .. n, NEW o \in Mixed, calls'[i1].ops \subseteq {o}
        PROVE  /\ \A j1 \in i1 .. n : Ans(calls[j1].this)'.ops \subseteq {o}
               /\ calls'[i1].at \in {"between", "second", "again"} =>
                    Unit(o) \notin Ans(objs[calls[i1].this[2]].comp1)'.has
               /\ calls'[i1].at = "again" =>
                    Unit(o) \notin Ans(objs[calls[i1].this[2]].comp2)'.has
    <3>1. /\ \A j1 \in i1 .. n : Ans(calls'[j1].this).ops \subseteq {o}
          /\ calls'[i1].at \in {"between", "second", "again"} =>
               Unit(o) \notin Ans(objs[calls'[i1].this[2]].comp1).has
          /\ calls'[i1].at = "again" =>
               Unit(o) \notin Ans(objs[calls'[i1].this[2]].comp2).has
      BY <2>1, <2>3
    <3>2. ASSUME NEW j1 \in i1 .. n PROVE Ans(calls[j1].this)'.ops \subseteq {o}
      <4>1. Ans(calls[j1].this)' = Ans(calls'[j1].this)
        BY <2>2, <2>5
      <4>2. Ans(calls'[j1].this).ops \subseteq {o}
        BY <3>1
      <4> QED BY <4>1, <4>2
    <3>3. /\ Ans(objs[calls[i1].this[2]].comp1)' = Ans(objs[calls'[i1].this[2]].comp1)
          /\ Ans(objs[calls[i1].this[2]].comp2)' = Ans(objs[calls'[i1].this[2]].comp2)
      BY <2>2, <2>5
    <3> QED BY <3>1, <3>2, <3>3
  <2>4. CallsPure' = \A i1 \in 1 .. n : \A o \in Mixed : calls'[i1].ops \subseteq {o} =>
                     /\ \A j1 \in i1 .. n : Ans(calls[j1].this)'.ops \subseteq {o}
                     /\ calls'[i1].at \in {"between", "second", "again"} =>
                          Unit(o) \notin Ans(objs[calls[i1].this[2]].comp1)'.has
                     /\ calls'[i1].at = "again" =>
                          Unit(o) \notin Ans(objs[calls[i1].this[2]].comp2)'.has
    <3>1. Len(calls') = n
      BY <1>2
    <3> QED BY <3>1, Zenon DEF CallsPure, Unit, Mixed
  <2> QED BY <2>3, <2>4, Zenon
<1> QED BY <1>3, <1>5, <1>8, <1>9, <1>10 DEF CallsInv

LEMMA FrameType ==
  ASSUME LabelTypeOK, NEW r \in Refs(Len(objs))
  PROVE  Frame(r) \in Frames /\ Ans(r).ops \subseteq Mixed
<1> DEFINE S == {q \in Refs(Len(objs)) : Ans(q).ops \subseteq Mixed}
<1>0. Heap(objs) /\ Len(objs) \in Nat
  BY DEF LabelTypeOK, Heap
<1>1. Atoms \subseteq S
  BY <1>0, RefsAre, AtomAnswers DEF Ans, OfAtom
<1>2. ASSUME NEW k \in 1 .. Len(objs), objs[k].comp1 \in S, objs[k].comp2 \in S PROVE Obj(k) \in S
  <2>1. /\ objs[k].op \in Mixed
        /\ Ans(Obj(k)).ops = {objs[k].op} \cup Ans(objs[k].comp1).ops \cup Ans(objs[k].comp2).ops
    BY <1>0, ObjAnswers DEF Ans, Mixed
  <2>2. Ans(objs[k].comp1).ops \subseteq Mixed /\ Ans(objs[k].comp2).ops \subseteq Mixed
    BY <1>2
  <2>3. Obj(k) \in Refs(Len(objs))
    BY <1>0, RefsAre
  <2> QED BY <2>1, <2>2, <2>3
<1>3. Refs(Len(objs)) \subseteq S
  <2> HIDE DEF S
  <2> QED BY <1>0, <1>1, <1>2, RefInduction
<1>4. Ans(r).ops \subseteq Mixed /\ r \in AllRefs
  BY <1>0, <1>3, RefsAre
<1> QED BY <1>4 DEF Frame, Frames, Places

(* It calls simplify on a part.                                            *)
CallsPart(at) ==
  /\ at = "first" \/ (at = "second" /\ Top.at = "between")
  /\ IsObj(Top.this) /\ NeitherPart(Top.this[2])
  /\ Call(at, Part(objs, Top.this[2], at))

LEMMA CallIs ==
  ASSUME CallsInv, calls # <<>>, NEW at, CallsPart(at)
  PROVE  LET n == Len(calls)
             k == calls[n].this[2]
             r == Part(objs, k, at)
         IN  /\ n \in Nat /\ n \in 1 .. n /\ k \in 1 .. Len(objs) /\ calls[n].this = Obj(k)
             /\ at \in {"first", "second"} /\ (at = "second" => calls[n].at = "between")
             /\ r \in Refs(k - 1) /\ r \in Refs(Len(objs)) /\ r \in {objs[k].comp1, objs[k].comp2}
             /\ Neither(Ans(r)) /\ NeitherPart(k)
             /\ Ans(r).ops \subseteq Ans(Obj(k)).ops
             /\ SameLabels
             /\ calls' \in Seq(Frames) /\ Len(calls') = n + 1
             /\ \A i1 \in 1 .. n : calls'[i1].this = calls[i1].this /\ calls'[i1].ops = calls[i1].ops
             /\ \A i1 \in 1 .. n - 1 : calls'[i1] = calls[i1]
             /\ calls'[n].at = at
             /\ calls'[n + 1] = Frame(r)
<1> DEFINE n == Len(calls)
           k == calls[n].this[2]
           r == Part(objs, k, at)
           g == [calls[n] EXCEPT !.at = at]
           s == [calls EXCEPT ![n] = g]
<1>1. calls \in Seq(Frames) /\ n \in Nat /\ n \in 1 .. n /\ Top = calls[n]
  BY DEF CallsInv, LabelTypeOK, Top
<1>2. /\ calls[n] \in Frames /\ k \in 1 .. Len(objs) /\ calls[n].this = Obj(k)
      /\ Len(objs) \in Nat /\ Heap(objs)
  BY <1>1, CallersAre DEF CallsPart, CallsInv, LabelTypeOK
<1>3. at \in {"first", "second"} /\ (at = "second" => calls[n].at = "between")
  BY <1>1 DEF CallsPart
<1>4. /\ r \in {objs[k].comp1, objs[k].comp2} /\ r \in Refs(k - 1) /\ r \in Refs(Len(objs))
      /\ Ans(r).ops \subseteq Ans(Obj(k)).ops
  BY <1>2, ObjAnswers DEF Part, Ans
<1>5. NeitherPart(k)
  BY <1>1 DEF CallsPart
<1>6. Neither(Ans(r))
  BY <1>4, <1>5 DEF NeitherPart
<1>7. g \in Frames /\ g.this = calls[n].this /\ g.ops = calls[n].ops /\ g.at = at
  BY <1>2, <1>3 DEF Frames, Places
<1>8. Frame(r) \in Frames
  BY <1>4, FrameType DEF CallsInv
<1>9. calls' = Append(s, Frame(r)) /\ SameLabels
  <2>1. s = [calls EXCEPT ![n].at = at]
    BY <1>1
  <2>2. Call(at, r)
    BY <1>1 DEF CallsPart
  <2> HIDE DEF r
  <2> QED BY <2>1, <2>2 DEF Call, SameLabels
<1> HIDE DEF n, k, r, g
<1>10. /\ s \in Seq(Frames) /\ Len(s) = n /\ s[n] = g
       /\ \A i1 \in 1 .. n : i1 # n => s[i1] = calls[i1]
  <2>1. n = Len(calls)
    BY DEF n
  <2> QED BY <1>1, <1>7, <2>1, ExceptSeq
<1> HIDE DEF s
<1>11. /\ Append(s, Frame(r)) \in Seq(Frames) /\ Len(Append(s, Frame(r))) = n + 1
       /\ Append(s, Frame(r))[n + 1] = Frame(r)
       /\ \A i1 \in 1 .. n : Append(s, Frame(r))[i1] = s[i1]
  BY <1>1, <1>8, <1>10, AppendProperties
<1>12. /\ calls' \in Seq(Frames) /\ Len(calls') = n + 1 /\ calls'[n + 1] = Frame(r)
       /\ \A i1 \in 1 .. n : calls'[i1] = s[i1]
  BY <1>9, <1>11
<1>13. \A i1 \in 1 .. n : calls'[i1].this = calls[i1].this /\ calls'[i1].ops = calls[i1].ops
  BY <1>7, <1>10, <1>12
<1>14. (\A i1 \in 1 .. n - 1 : calls'[i1] = calls[i1]) /\ calls'[n].at = at
  BY <1>1, <1>7, <1>10, <1>12
<1> QED BY <1>1, <1>2, <1>3, <1>4, <1>5, <1>6, <1>9, <1>12, <1>13, <1>14 DEF n, k, r

LEMMA CallKeeps ==
  ASSUME CallsInv, calls # <<>>, NEW at, CallsPart(at)
  PROVE  CallsInv'
<1> DEFINE n == Len(calls)
           k == calls[n].this[2]
           r == Part(objs, k, at)
<1>1. /\ n \in Nat /\ n \in 1 .. n /\ k \in 1 .. Len(objs) /\ calls[n].this = Obj(k)
      /\ at \in {"first", "second"} /\ (at = "second" => calls[n].at = "between")
      /\ r \in Refs(k - 1) /\ r \in Refs(Len(objs)) /\ r \in {objs[k].comp1, objs[k].comp2}
      /\ Neither(Ans(r)) /\ NeitherPart(k)
      /\ Ans(r).ops \subseteq Ans(Obj(k)).ops
      /\ SameLabels
      /\ calls' \in Seq(Frames) /\ Len(calls') = n + 1
      /\ \A i1 \in 1 .. n : calls'[i1].this = calls[i1].this /\ calls'[i1].ops = calls[i1].ops
      /\ \A i1 \in 1 .. n - 1 : calls'[i1] = calls[i1]
      /\ calls'[n].at = at
      /\ calls'[n + 1] = Frame(r)
  BY CallIs
<1>2. /\ \A x : Ans(x)' = Ans(x) /\ Meaning(x)' = Meaning(x)
      /\ \A j1 : NeitherPart(j1)' = NeitherPart(j1)
      /\ Len(objs') = Len(objs) /\ MadeOfParts'
  BY <1>1, SameObjects DEF CallsInv
<1>3. Frame(r).this = r /\ Frame(r).at = "enter" /\ Frame(r).ops = Ans(r).ops
  BY DEF Frame
<1>r. Part(objs, k, at) = r /\ Len(calls) = n /\ calls[n].this[2] = k
  OBVIOUS
<1> HIDE DEF n, k, r
<1>4. LabelTypeOK'
  <2>1. ASSUME NEW i1 \in 1 .. n + 1 PROVE calls'[i1].this \in Refs(Len(objs))
    <3>1. CASE i1 = n + 1
      BY <1>1, <1>3, <3>1
    <3>2. CASE i1 # n + 1
      <4>1. i1 \in 1 .. n /\ calls'[i1].this = calls[i1].this
        BY <1>1, <3>2
      <4> QED BY <1>r, <4>1 DEF CallsInv, LabelTypeOK
    <3> QED BY <3>1, <3>2
  <2>2. /\ Heap(objs) /\ meaning \in Seq(Means) /\ Len(meaning) = Len(objs)
        /\ label \in Refs(Len(objs)) /\ meant \in Means
    BY DEF CallsInv, LabelTypeOK
  <2> QED BY <1>1, <2>1, <2>2 DEF LabelTypeOK, SameLabels
<1>5. ASSUME NEW i1 \in 1 .. n + 1
      PROVE  /\ calls'[i1].at # "enter" => IsObj(calls'[i1].this)
             /\ Waits(calls'[i1]) <=> i1 < n + 1
             /\ i1 < n + 1 =>
                  /\ calls'[i1 + 1].this \in Refs(calls'[i1].this[2] - 1)
                  /\ Meaning(calls'[i1 + 1].this) = Meaning(Part(objs, calls'[i1].this[2], calls'[i1].at))
  <2>1. CASE i1 = n + 1
    BY <1>1, <1>3, <2>1 DEF Waits
  <2>2. CASE i1 = n
    BY <1>1, <1>3, <1>r, <2>2, RefsAre DEF Waits
  <2>3. CASE i1 < n
    <3>1. /\ calls'[i1] = calls[i1] /\ i1 + 1 \in 1 .. n /\ i1 \in 1 .. n
          /\ calls'[i1 + 1].this = calls[i1 + 1].this
      BY <1>1, <2>3
    <3> QED BY <1>1, <1>r, <2>3, <3>1 DEF CallsInv, CallsMean
  <2>4. i1 = n + 1 \/ i1 = n \/ i1 < n
    BY <1>1
  <2> QED BY <2>1, <2>2, <2>3, <2>4
<1>6. CallsMean'
  <2>1. Meaning(label) = meant /\ Meaning(calls[1].this) = meant
    BY DEF CallsInv, CallsMean
  <2>2. 1 \in 1 .. n
    BY <1>1
  <2>3. calls'[1].this = calls[1].this
    BY <1>1, <2>2
  <2>4. /\ (Meaning(label) = meant)' /\ Meaning(calls[1].this)' = meant'
    BY <1>1, <2>1, <2>3 DEF Meaning, SameLabels
  <2>5. \A i1 \in 1 .. n + 1 :
          /\ Meaning(calls[i1 + 1].this)' = Meaning(calls'[i1 + 1].this)
          /\ Meaning(Part(objs, calls[i1].this[2], calls[i1].at))' =
               Meaning(Part(objs, calls'[i1].this[2], calls'[i1].at))
    BY <1>1 DEF Meaning, Part, SameLabels
  <2> QED BY <1>1, <1>5, <2>4, <2>5 DEF CallsMean, Waits
<1>7. CallsOpen'
  <2>1. ASSUME NEW i1 \in 1 .. n + 1
        PROVE  /\ i1 > 1 => Neither(Ans(calls'[i1].this))
               /\ calls'[i1].at # "enter" => NeitherPart(calls'[i1].this[2])
    <3>1. CASE i1 = n + 1
      BY <1>1, <1>3, <3>1
    <3>2. CASE i1 # n + 1
      <4>1. i1 \in 1 .. n /\ calls'[i1].this = calls[i1].this
        BY <1>1, <3>2
      <4>2. /\ i1 > 1 => Neither(Ans(calls[i1].this))
            /\ calls[i1].at # "enter" => NeitherPart(calls[i1].this[2])
        BY <1>r, <4>1 DEF CallsInv, CallsOpen
      <4>3. CASE i1 = n
        BY <1>1, <1>r, <4>1, <4>2, <4>3
      <4>4. CASE i1 # n
        BY <1>1, <4>1, <4>2, <4>4
      <4> QED BY <4>3, <4>4
    <3> QED BY <3>1, <3>2
  <2>2. \A i1 \in 1 .. n + 1 : /\ Neither(Ans(calls[i1].this))' = Neither(Ans(calls'[i1].this))
                              /\ NeitherPart(calls[i1].this[2])' = NeitherPart(calls'[i1].this[2])
    BY <1>1 DEF Ans, Neither, NeitherPart, SameLabels
  <2> QED BY <1>1, <2>1, <2>2 DEF CallsOpen
<1>8. CallsPure'
  <2>1. ASSUME NEW i1 \in 1 .. n + 1, NEW o \in Mixed, calls'[i1].ops \subseteq {o}
        PROVE  /\ \A j1 \in i1 .. n + 1 : Ans(calls'[j1].this).ops \subseteq {o}
               /\ calls'[i1].at \in {"between", "second", "again"} =>
                    Unit(o) \notin Ans(objs[calls'[i1].this[2]].comp1).has
               /\ calls'[i1].at = "again" =>
                    Unit(o) \notin Ans(objs[calls'[i1].this[2]].comp2).has
    <3>1. CASE i1 = n + 1
      <4>1. calls'[i1] = Frame(r) /\ Ans(r).ops \subseteq {o}
        BY <1>1, <1>3, <2>1, <3>1
      <4>2. \A j1 \in i1 .. n + 1 : j1 = i1
        BY <1>1, <3>1
      <4> QED BY <1>3, <4>1, <4>2
    <3>2. CASE i1 # n + 1
      <4>1. i1 \in 1 .. n /\ calls'[i1].this = calls[i1].this /\ calls'[i1].ops = calls[i1].ops /\ n \in i1 .. n
        BY <1>1, <3>2
      <4>2. /\ \A j1 \in i1 .. n : Ans(calls[j1].this).ops \subseteq {o}
            /\ calls[i1].at \in {"between", "second", "again"} =>
                 Unit(o) \notin Ans(objs[calls[i1].this[2]].comp1).has
            /\ calls[i1].at = "again" => Unit(o) \notin Ans(objs[calls[i1].this[2]].comp2).has
        BY <1>r, <2>1, <4>1 DEF CallsInv, CallsPure
      <4>3. ASSUME NEW j1 \in i1 .. n + 1 PROVE Ans(calls'[j1].this).ops \subseteq {o}
        <5>1. CASE j1 = n + 1
          <6>1. Ans(calls[n].this).ops \subseteq {o} /\ calls'[j1].this = r
            BY <1>1, <1>3, <4>1, <4>2, <5>1
          <6> QED BY <1>1, <6>1
        <5>2. CASE j1 # n + 1
          <6>1. j1 \in i1 .. n /\ j1 \in 1 .. n
            BY <1>1, <4>1, <5>2
          <6> QED BY <1>1, <4>2, <6>1
        <5> QED BY <5>1, <5>2
      <4>4. CASE i1 = n
        BY <1>1, <4>1, <4>2, <4>3, <4>4
      <4>5. CASE i1 # n
        <5>1. calls'[i1] = calls[i1]
          BY <1>1, <4>1, <4>5
        <5> QED BY <4>2, <4>3, <5>1
      <4> QED BY <4>4, <4>5
    <3> QED BY <3>1, <3>2
  <2>2. ASSUME NEW i1 \in 1 .. n + 1, NEW o \in Mixed, calls'[i1].ops \subseteq {o}
        PROVE  /\ \A j1 \in i1 .. n + 1 : Ans(calls[j1].this)'.ops \subseteq {o}
               /\ calls'[i1].at \in {"between", "second", "again"} =>
                    Unit(o) \notin Ans(objs[calls[i1].this[2]].comp1)'.has
               /\ calls'[i1].at = "again" =>
                    Unit(o) \notin Ans(objs[calls[i1].this[2]].comp2)'.has
    <3>1. /\ \A j1 \in i1 .. n + 1 : Ans(calls'[j1].this).ops \subseteq {o}
          /\ calls'[i1].at \in {"between", "second", "again"} =>
               Unit(o) \notin Ans(objs[calls'[i1].this[2]].comp1).has
          /\ calls'[i1].at = "again" =>
               Unit(o) \notin Ans(objs[calls'[i1].this[2]].comp2).has
      BY <2>1, <2>2
    <3>2. ASSUME NEW j1 \in i1 .. n + 1 PROVE Ans(calls[j1].this)'.ops \subseteq {o}
      <4>1. Ans(calls[j1].this)' = Ans(calls'[j1].this)
        BY <1>1 DEF Ans, SameLabels
      <4>2. Ans(calls'[j1].this).ops \subseteq {o}
        BY <3>1
      <4> QED BY <4>1, <4>2
    <3>3. /\ Ans(objs[calls[i1].this[2]].comp1)' = Ans(objs[calls'[i1].this[2]].comp1)
          /\ Ans(objs[calls[i1].this[2]].comp2)' = Ans(objs[calls'[i1].this[2]].comp2)
      BY <1>1 DEF Ans, SameLabels
    <3> QED BY <3>1, <3>2, <3>3
  <2>3. CallsPure' = \A i1 \in 1 .. n + 1 : \A o \in Mixed : calls'[i1].ops \subseteq {o} =>
                     /\ \A j1 \in i1 .. n + 1 : Ans(calls[j1].this)'.ops \subseteq {o}
                     /\ calls'[i1].at \in {"between", "second", "again"} =>
                          Unit(o) \notin Ans(objs[calls[i1].this[2]].comp1)'.has
                     /\ calls'[i1].at = "again" =>
                          Unit(o) \notin Ans(objs[calls[i1].this[2]].comp2)'.has
    <3>1. Len(calls') = n + 1
      BY <1>1
    <3> QED BY <3>1, Zenon DEF CallsPure, Unit, Mixed
  <2> QED BY <2>2, <2>3, Zenon
<1> QED BY <1>2, <1>4, <1>6, <1>7, <1>8 DEF CallsInv

(* A call returns, to another or to the checker.                           *)
LEMMA ReturnKeeps ==
  ASSUME CallsInv, calls # <<>>, NEW r, Return(r), Outcome(r)
  PROVE  CallsInv'
<1>1. calls \in Seq(Frames) /\ Len(calls) \in Nat \ {0}
  BY EmptySeq DEF CallsInv, LabelTypeOK
<1>2. CASE Len(calls) > 1
  BY <1>2, ReturnMeans, ReturnOpen, ReturnPure DEF CallsInv
<1>3. CASE Len(calls) = 1
  <2>1. /\ calls' = <<>> /\ label' \in {label, r}
        /\ objs' = objs /\ meaning' = meaning /\ meant' = meant
    BY <1>3 DEF Return
  <2>2. /\ Heap(objs) /\ Len(objs) \in Nat /\ meaning \in Seq(Means) /\ Len(meaning) = Len(objs)
        /\ label \in Refs(Len(objs)) /\ meant \in Means
    BY DEF CallsInv, LabelTypeOK, Heap
  <2>3. Top.this \in Refs(Len(objs)) /\ Meaning(Top.this) = meant /\ Meaning(label) = meant
    BY <1>1, <1>3 DEF CallsInv, LabelTypeOK, CallsMean, Top
  <2>4. r \in Refs(Len(objs)) /\ Meaning(r) = meant
    BY <2>2, <2>3 DEF Outcome
  <2>5. Len(calls') = 0 /\ calls' \in Seq(Frames)
    BY <2>1
  <2>6. LabelTypeOK'
    <3>1. label' \in Refs(Len(objs))
      BY <2>1, <2>2, <2>4
    <3>2. \A i1 \in 1 .. Len(calls') : FALSE
      BY <2>5
    <3> QED BY <2>1, <2>2, <2>5, <3>1, <3>2 DEF LabelTypeOK
  <2>7. MadeOfParts'
    <3>1. MadeOfParts
      BY DEF CallsInv
    <3> QED BY <2>1, <3>1 DEF MadeOfParts, Meaning
  <2>8. CallsMean'
    <3>1. Meaning(label') = meant
      BY <2>1, <2>3, <2>4
    <3>2. (Meaning(label) = meant)'
      BY <2>1, <3>1 DEF Meaning
    <3>3. \A i1 \in 1 .. Len(calls') : FALSE
      BY <2>5
    <3> QED BY <2>1, <3>2, <3>3 DEF CallsMean
  <2>9. CallsOpen' /\ CallsPure'
    <3>1. \A i1 \in 1 .. Len(calls') : FALSE
      BY <2>5
    <3>2. CallsOpen'
      BY <3>1 DEF CallsOpen
    <3>3. CallsPure'
      BY <3>1, Zenon DEF CallsPure
    <3> QED BY <3>2, <3>3
  <2> QED BY <2>6, <2>7, <2>8, <2>9 DEF CallsInv
<1>4. Len(calls) = 1 \/ Len(calls) > 1
  <2>1. \A n \in Nat \ {0} : n = 1 \/ n > 1
    OBVIOUS
  <2> QED BY <1>1, <2>1, Zenon
<1> QED BY <1>2, <1>3, <1>4, Zenon

(* Nothing is left to simplify in an atom that is neither LOW nor HIGH.    *)
LEMMA AtomIsOutcome ==
  ASSUME CallsInv, calls # <<>>, ~IsObj(Top.this)
  PROVE  Outcome(Top.this)
<1> DEFINE a == Top.this
<1>1. calls \in Seq(Frames) /\ Len(calls) \in Nat \ {0} /\ Len(calls) \in 1 .. Len(calls)
  BY EmptySeq DEF CallsInv, LabelTypeOK
<1>2. a \in Atoms
  BY <1>1, CallersAre, RefsAre DEF Top
<1>3. Ans(a) = OfAtom(a)
  BY <1>2, AtomAnswers DEF Ans
<1>4. Len(calls) > 1 => Neither(Ans(a))
  BY <1>1 DEF CallsInv, CallsOpen, Top
<1>5. ASSUME Neither(Ans(a)) PROVE "LOW" \notin Ans(a).has /\ "HIGH" \notin Ans(a).has /\ Ans(a).ops = {}
  <2>0. Ans(a).bottom = (a = Const("LOW")) /\ Ans(a).top = (a = Const("HIGH"))
    BY <1>2, AtomAnswers DEF Ans, OfAtom
  <2>1. a # Const("LOW") /\ a # Const("HIGH")
    BY <1>5, <2>0, Zenon DEF Neither
  <2>2. a[1] = "const" => a = Const(a[2])
    BY <1>2 DEF Atoms, Const, Index
  <2>3. Ans(a).has = (IF a[1] = "const" THEN {a[2]} ELSE {}) /\ Ans(a).ops = {}
    BY <1>3 DEF OfAtom
  <2> HIDE DEF a
  <2> QED BY <2>1, <2>2, <2>3
<1> HIDE DEF a
<1>6. \A o : Unit(o) \in {"LOW", "HIGH"}
  BY DEF Unit
<1>7. a = Top.this
  BY DEF a
<1> QED BY <1>4, <1>5, <1>6, <1>7 DEF Outcome

(* A call on an object: what its answers and its meaning are made of.      *)
LEMMA TopObject ==
  ASSUME CallsInv, calls # <<>>, IsObj(Top.this)
  PROVE  LET k == Top.this[2]
             o == This
         IN  /\ k \in 1 .. Len(objs) /\ Top.this = Obj(k) /\ o = objs[k] /\ o.op \in Mixed
             /\ Len(calls) \in Nat \ {0} /\ Top = calls[Len(calls)] /\ Top \in Frames
             /\ \A m \in Nat : Top.this \in Refs(m) => o.comp1 \in Refs(m) /\ o.comp2 \in Refs(m)
             /\ Top.this \in Refs(Len(objs))
             /\ o.comp1 \in Refs(Len(objs)) /\ o.comp2 \in Refs(Len(objs))
             /\ Ans(Top.this).ops = {o.op} \cup Ans(o.comp1).ops \cup Ans(o.comp2).ops
             /\ Ans(Top.this).has = Ans(o.comp1).has \cup Ans(o.comp2).has
             /\ Ans(Top.this).bottom <=> IsBottom(o.op, Ans(o.comp1), Ans(o.comp2))
             /\ Ans(Top.this).top <=> IsTop(o.op, Ans(o.comp1), Ans(o.comp2))
             /\ Meaning(o.comp1) \in Means /\ Meaning(o.comp2) \in Means
             /\ Meaning(Top.this) = Combine(o.op, Meaning(o.comp1), Meaning(o.comp2))
             /\ Len(calls) > 1 => Neither(Ans(Top.this))
<1> DEFINE k == Top.this[2]
<1>1. calls \in Seq(Frames) /\ Len(calls) \in Nat \ {0} /\ Len(calls) \in 1 .. Len(calls)
  BY EmptySeq DEF CallsInv, LabelTypeOK
<1>2. /\ k \in 1 .. Len(objs) /\ Top.this = Obj(k) /\ Top.this \in Refs(Len(objs))
      /\ Top \in Frames /\ Top = calls[Len(calls)] /\ Len(objs) \in Nat /\ Heap(objs)
  BY <1>1, CallersAre DEF Top, CallsInv, LabelTypeOK
<1>3. This = objs[k]
  BY DEF This
<1>4. /\ objs[k].op \in Mixed
      /\ objs[k].comp1 \in Refs(k - 1) /\ objs[k].comp2 \in Refs(k - 1)
      /\ objs[k].comp1 \in Refs(Len(objs)) /\ objs[k].comp2 \in Refs(Len(objs))
  BY <1>2, ObjAnswers DEF Mixed
<1>5. Ans(Obj(k)) = OfCompound(objs[k].op, Ans(objs[k].comp1), Ans(objs[k].comp2))
  BY <1>2, AnswersAre DEF Ans
<1>6. /\ Ans(Obj(k)).ops = {objs[k].op} \cup Ans(objs[k].comp1).ops \cup Ans(objs[k].comp2).ops
      /\ Ans(Obj(k)).has = Ans(objs[k].comp1).has \cup Ans(objs[k].comp2).has
      /\ Ans(Obj(k)).bottom = IsBottom(objs[k].op, Ans(objs[k].comp1), Ans(objs[k].comp2))
      /\ Ans(Obj(k)).top = IsTop(objs[k].op, Ans(objs[k].comp1), Ans(objs[k].comp2))
  <2> HIDE DEF k
  <2> QED BY <1>5, CompoundAnswers
<1>7. /\ Meaning(objs[k].comp1) \in Means /\ Meaning(objs[k].comp2) \in Means
      /\ Meaning(Obj(k)) = Combine(objs[k].op, Meaning(objs[k].comp1), Meaning(objs[k].comp2))
  BY <1>2, PartsMean DEF CallsInv
<1>8. Len(calls) > 1 => Neither(Ans(Top.this))
  BY <1>1, <1>2 DEF CallsInv, CallsOpen
<1> HIDE DEF k
<1>9. ASSUME NEW m \in Nat, Obj(k) \in Refs(m)
      PROVE  objs[k].comp1 \in Refs(m) /\ objs[k].comp2 \in Refs(m)
  <2>1. k \in 1 .. m
    BY <1>9, RefsAre
  <2>2. k - 1 \in Nat /\ k - 1 <= m
    BY <2>1
  <2> QED BY <1>4, <2>2, RefsAre
<1> QED BY <1>1, <1>2, <1>3, <1>4, <1>5, <1>6, <1>7, <1>8, <1>9, Zenon DEF k

(* Past the first tests neither part is bottom or top.                     *)
LEMMA PastTheTests ==
  ASSUME CallsInv, calls # <<>>, IsObj(Top.this),
         Neither(Ans(Top.this)), ~IsUnit(This.op, This.comp1), ~IsUnit(This.op, This.comp2)
  PROVE  NeitherPart(Top.this[2])
<1> DEFINE a == Ans(This.comp1)
           b == Ans(This.comp2)
           op == This.op
<1>1. /\ op \in Mixed /\ This = objs[Top.this[2]]
      /\ ~IsBottom(op, a, b) /\ ~IsTop(op, a, b)
  BY TopObject, Zenon DEF Neither
<1>2. (op = "join" => ~a.bottom /\ ~b.bottom) /\ (op # "join" => ~a.top /\ ~b.top)
  BY DEF IsUnit
<1>3. Neither(a) /\ Neither(b)
  <2> HIDE DEF a, b, op
  <2> QED BY <1>1, <1>2, Zenon DEF Neither, IsBottom, IsTop, Mixed
<1> QED BY <1>1, <1>3, Zenon DEF NeitherPart

(* A unit part is left out: the other part is as the whole.                *)
LEMMA UnitLeftOut ==
  ASSUME CallsInv, calls # <<>>, IsObj(Top.this),
         NEW r, NEW q, {r, q} = {This.comp1, This.comp2}, IsUnit(This.op, r)
  PROVE  FitsTop(Frame(q))
<1> DEFINE o == This
           a == Ans(o.comp1)
           b == Ans(o.comp2)
           d == Meaning(o.comp1)
           e == Meaning(o.comp2)
<1>1. /\ o.op \in Mixed /\ q \in Refs(Len(objs)) /\ r \in Refs(Len(objs))
      /\ \A m \in Nat : Top.this \in Refs(m) => q \in Refs(m)
      /\ Ans(q).ops \subseteq Ans(Top.this).ops
  <2>1. q \in {o.comp1, o.comp2} /\ r \in {o.comp1, o.comp2}
    OBVIOUS
  <2> HIDE DEF o
  <2>2. o = This
    BY DEF o
  <2> QED BY <2>1, <2>2, TopObject
<1>2. Frame(q) \in Frames
  BY <1>1, FrameType DEF CallsInv
<1>3. Frame(q).this = q /\ Frame(q).at = "enter" /\ Frame(q).ops = Ans(q).ops
  BY DEF Frame
<1>4. /\ (Neither(Ans(Top.this)) <=> ~IsBottom(o.op, a, b) /\ ~IsTop(o.op, a, b))
      /\ Meaning(Top.this) = Combine(o.op, d, e) /\ d \in Means /\ e \in Means
  BY TopObject, Zenon DEF Neither
<1>5. /\ (o.op = "join" => Ans(r).bottom /\ Meaning(r) = Always("LOW"))
      /\ (o.op = "meet" => Ans(r).top /\ Meaning(r) = Always("HIGH"))
  <2>1. (o.op = "join" => Ans(r).bottom) /\ (o.op = "meet" => Ans(r).top)
    BY DEF IsUnit
  <2>2. (Ans(r).bottom => Meaning(r) = Always("LOW")) /\ (Ans(r).top => Meaning(r) = Always("HIGH"))
    BY <1>1, BottomMeans DEF CallsInv
  <2> QED BY <2>1, <2>2
<1>6. (r = o.comp1 /\ q = o.comp2) \/ (r = o.comp2 /\ q = o.comp1)
  OBVIOUS
<1>7. Meaning(q) = Meaning(Top.this)
  <2> HIDE DEF o
  <2>1. CASE r = o.comp1 /\ q = o.comp2
    BY <1>1, <1>4, <1>5, <2>1, CombineFacts DEF Mixed
  <2>2. CASE r = o.comp2 /\ q = o.comp1
    BY <1>1, <1>4, <1>5, <2>2, CombineFacts DEF Mixed
  <2> QED BY <1>6, <2>1, <2>2
<1>8. Neither(Ans(Top.this)) => Neither(Ans(q))
  <2> HIDE DEF o
  <2>1. CASE r = o.comp1 /\ q = o.comp2
    BY <1>1, <1>4, <1>5, <2>1, Zenon DEF Mixed, Neither, IsBottom, IsTop
  <2>2. CASE r = o.comp2 /\ q = o.comp1
    BY <1>1, <1>4, <1>5, <2>2, Zenon DEF Mixed, Neither, IsBottom, IsTop
  <2> QED BY <1>6, <2>1, <2>2
<1> HIDE DEF o, a, b, d, e
<1>9. ~Waits(Frame(q)) /\ Frame(q).at \notin {"between", "again"}
  BY <1>3 DEF Waits
<1> QED BY <1>1, <1>2, <1>3, <1>7, <1>8, <1>9 DEF FitsTop

LEMMA TopPure ==
  ASSUME CallsInv, calls # <<>>, NEW o \in Mixed, Top.ops \subseteq {o}
  PROVE  /\ Ans(Top.this).ops \subseteq {o}
         /\ Top.at = "between" => Unit(o) \notin Ans(objs[Top.this[2]].comp1).has
<1> DEFINE n == Len(calls)
<1>1. n \in 1 .. n /\ n \in n .. n /\ Top = calls[n]
  BY EmptySeq DEF CallsInv, LabelTypeOK, Top
<1> HIDE DEF n
<1>2. n = Len(calls)
  BY DEF n
<1>3. \A j1 \in n .. n : Ans(calls[j1].this).ops \subseteq {o}
  BY <1>1, <1>2 DEF CallsInv, CallsPure
<1>4. Top.at = "between" => Unit(o) \notin Ans(objs[Top.this[2]].comp1).has
  BY <1>1, <1>2 DEF CallsInv, CallsPure
<1> QED BY <1>1, <1>3, <1>4

(* The call goes on at another place.                                      *)
LEMMA GoToKeeps ==
  ASSUME CallsInv, calls # <<>>, IsObj(Top.this), NeitherPart(Top.this[2]),
         NEW at \in {"between", "again"}, GoTo(at),
         \A o \in Mixed : Top.ops \subseteq {o} =>
           /\ Unit(o) \notin Ans(This.comp1).has
           /\ at = "again" => Unit(o) \notin Ans(This.comp2).has
  PROVE  CallsInv'
<1> DEFINE f == [Top EXCEPT !.at = at]
<1>1. Len(calls) \in Nat \ {0} /\ Top = calls[Len(calls)] /\ Top \in Frames /\ calls \in Seq(Frames)
  BY TopObject DEF CallsInv, LabelTypeOK
<1>2. f \in Frames /\ f.this = Top.this /\ f.at = at /\ f.ops = Top.ops
  BY <1>1 DEF Frames, Places
<1>3. TopBecomes(f) /\ SameLabels
  <2>1. [calls EXCEPT ![Len(calls)].at = at] = [calls EXCEPT ![Len(calls)] = f]
    BY <1>1
  <2> HIDE DEF f
  <2> QED BY <2>1, Zenon DEF GoTo, TopBecomes, SameLabels
<1> HIDE DEF f
<1>4. \A o \in Mixed : Top.ops \subseteq {o} => Ans(Top.this).ops \subseteq {o}
  BY TopPure
<1>5. This = objs[Top.this[2]]
  BY DEF This
<1>6. ~Waits(f)
  BY <1>2 DEF Waits
<1>7. FitsTop(f)
  BY <1>2, <1>4, <1>5, <1>6 DEF FitsTop
<1> QED BY <1>3, <1>7, TopChanges

-----------------------------------------------------------------------------
(* The steps of simplify. *)

LEMMA SimplifyAtomKeeps == ASSUME CallsInv, SimplifyAtom PROVE CallsInv'
<1>1. calls # <<>> /\ ~IsObj(Top.this) /\ Return(Top.this)
  BY DEF SimplifyAtom, Starting
<1> QED BY <1>1, AtomIsOutcome, ReturnKeeps

LEMMA SimplifyObjKeeps == ASSUME CallsInv, SimplifyObj PROVE CallsInv'
<1> DEFINE op == This.op
           c1 == This.comp1
           c2 == This.comp2
           w == Top.this
<1>1. calls # <<>> /\ IsObj(w)
  BY DEF SimplifyObj, Starting
<1>2. /\ op \in Mixed /\ Len(calls) \in Nat \ {0} /\ This = objs[w[2]]
      /\ \A m \in Nat : w \in Refs(m) => c1 \in Refs(m) /\ c2 \in Refs(m)
      /\ w \in Refs(Len(objs)) /\ c1 \in Refs(Len(objs)) /\ c2 \in Refs(Len(objs))
      /\ Ans(w).ops = {op} \cup Ans(c1).ops \cup Ans(c2).ops
      /\ Ans(w).has = Ans(c1).has \cup Ans(c2).has
      /\ Meaning(c1) \in Means /\ Meaning(c2) \in Means
      /\ Meaning(w) = Combine(op, Meaning(c1), Meaning(c2))
      /\ Len(calls) > 1 => Neither(Ans(w))
  BY <1>1, TopObject
<1>3. ASSUME NEW o, Ans(w).ops \subseteq {o} PROVE o = op /\ Ans(c1).ops \subseteq {o}
  BY <1>2, <1>3
<1>4. Part(objs, w[2], "first") = c1
  BY <1>2 DEF Part
<1>5. CASE Ans(w).bottom \/ Ans(w).top
  <2>1. PICK l \in {"LOW", "HIGH"} :
          Return(Const(l)) /\ ((l = "LOW" /\ Ans(w).bottom) \/ (l = "HIGH" /\ Ans(w).top))
    BY <1>5 DEF SimplifyObj
  <2>2. Meaning(w) = Always(l)
    BY <1>2, <2>1, BottomMeans DEF CallsInv
  <2>3. Const(l) \in Atoms /\ Meaning(Const(l)) = Always(l)
    <3>1. Const(l) \in Atoms
      BY LatticeAssumption DEF Atoms
    <3>2. DenOfAtom(Const(l)) = Always(l)
      BY DEF DenOfAtom, Const, Always
    <3> QED BY <3>1, <3>2, MeaningIs
  <2>4. Len(calls) <= 1
    BY <1>2, <1>5 DEF Neither
  <2>5. \A m \in Nat : Const(l) \in Refs(m)
    BY <2>3 DEF Refs
  <2> HIDE DEF w
  <2>6. w = Top.this
    BY DEF w
  <2>7. Outcome(Const(l))
    BY <1>2, <2>2, <2>3, <2>4, <2>5, <2>6 DEF Outcome
  <2> QED BY <1>1, <2>1, <2>7, ReturnKeeps
<1>6. CASE ~Ans(w).bottom /\ ~Ans(w).top
  <2>1. Neither(Ans(w))
    BY <1>6 DEF Neither
  <2>2. IF IsUnit(op, c1)           THEN PassTo(c2)
        ELSE IF IsUnit(op, c2)      THEN PassTo(c1)
        ELSE IF HasUnit(op, c1)     THEN Call("first", c1)
        ELSE IF HasUnit(op, c2)     THEN GoTo("between")
        ELSE IF Ans(c1).text = Ans(c2).text THEN Return(c1)
        ELSE Return(w)
    BY <1>6, Zenon DEF SimplifyObj
  <2>3. CASE IsUnit(op, c1) \/ IsUnit(op, c2)
    <3>1. PICK r, q : {r, q} = {c1, c2} /\ IsUnit(op, r) /\ PassTo(q)
      <4>1. CASE IsUnit(op, c1)
        BY <2>2, <4>1
      <4>2. CASE ~IsUnit(op, c1)
        BY <2>2, <2>3, <4>2
      <4> QED BY <4>1, <4>2
    <3>2. FitsTop(Frame(q))
      BY <1>1, <3>1, UnitLeftOut
    <3>3. TopBecomes(Frame(q)) /\ SameLabels
      BY <3>1, Zenon DEF PassTo, TopBecomes, SameLabels
    <3> QED BY <1>1, <3>2, <3>3, TopChanges
  <2>4. CASE ~IsUnit(op, c1) /\ ~IsUnit(op, c2)
    <3>1. NeitherPart(w[2])
      BY <1>1, <2>1, <2>4, PastTheTests
    <3>2. Neither(Ans(c1))
      BY <1>2, <3>1 DEF NeitherPart
    <3>3. CASE HasUnit(op, c1)
      <4>1. CallsPart("first")
        BY <1>1, <1>4, <2>2, <2>4, <3>1, <3>3 DEF CallsPart
      <4> QED BY <1>1, <4>1, CallKeeps
    <3>4. CASE ~HasUnit(op, c1) /\ HasUnit(op, c2)
      <4>1. ASSUME NEW o \in Mixed, Top.ops \subseteq {o} PROVE Unit(o) \notin Ans(c1).has
        <5>1. Ans(w).ops \subseteq {o}
          BY <1>1, <4>1, TopPure
        <5> QED BY <1>3, <3>4, <5>1 DEF HasUnit
      <4>2. GoTo("between")
        BY <2>2, <2>4, <3>4
      <4>3. "between" \in {"between", "again"} /\ "between" # "again"
        OBVIOUS
      <4> QED BY <1>1, <3>1, <4>1, <4>2, <4>3, GoToKeeps
    <3>5. CASE ~HasUnit(op, c1) /\ ~HasUnit(op, c2)
      <4>1. ASSUME NEW o, Ans(w).ops \subseteq {o}
            PROVE  Unit(o) \notin Ans(c1).has /\ Unit(o) \notin Ans(w).has
        BY <1>2, <1>3, <3>5, <4>1 DEF HasUnit
      <4>2. CASE Ans(c1).text = Ans(c2).text
        <5>1. Return(c1)
          BY <2>2, <2>4, <3>5, <4>2
        <5>2. Meaning(c1) = Meaning(w)
          <6>1. Meaning(c1) = Meaning(c2)
            BY <1>2, <4>2, EqualsMean DEF CallsInv
          <6> HIDE DEF c1, c2, w, op
          <6> QED BY <1>2, <6>1, CombineFacts
        <5>3. Outcome(c1)
          <6> HIDE DEF c1
          <6> QED BY <1>2, <1>3, <3>2, <4>1, <5>2 DEF Outcome
        <5> QED BY <1>1, <5>1, <5>3, ReturnKeeps
      <4>3. CASE Ans(c1).text # Ans(c2).text
        <5>1. Return(w)
          BY <2>2, <2>4, <3>5, <4>3
        <5>2. Outcome(w)
          BY <2>1, <4>1 DEF Outcome
        <5> QED BY <1>1, <5>1, <5>2, ReturnKeeps
      <4> QED BY <4>2, <4>3
    <3> QED BY <3>3, <3>4, <3>5
  <2> QED BY <2>3, <2>4
<1> QED BY <1>5, <1>6

LEMMA SimplifySecondKeeps == ASSUME CallsInv, SimplifySecond PROVE CallsInv'
<1> DEFINE op == This.op
           c2 == This.comp2
           w == Top.this
           n == Len(calls)
<1>1. calls # <<>> /\ Top.at = "between"
  BY DEF SimplifySecond
<1>2. n \in Nat \ {0} /\ n \in 1 .. n /\ Top = calls[n]
  BY <1>1, EmptySeq DEF CallsInv, LabelTypeOK, Top
<1>3. IsObj(w) /\ NeitherPart(w[2])
  <2>1. IsObj(w)
    BY <1>1, <1>2 DEF CallsInv, CallsMean
  <2>2. NeitherPart(w[2])
    BY <1>1, <1>2 DEF CallsInv, CallsOpen
  <2> QED BY <2>1, <2>2
<1>4. /\ op \in Mixed /\ This = objs[w[2]]
      /\ Ans(w).ops = {op} \cup Ans(This.comp1).ops \cup Ans(c2).ops
  BY <1>1, <1>3, TopObject
<1>5. CASE HasUnit(op, c2)
  <2>1. Part(objs, w[2], "second") = c2
    BY <1>4 DEF Part
  <2>2. CallsPart("second")
    BY <1>1, <1>3, <1>5, <2>1 DEF CallsPart, SimplifySecond
  <2> QED BY <1>1, <2>2, CallKeeps
<1>6. CASE ~HasUnit(op, c2)
  <2>1. ASSUME NEW o \in Mixed, Top.ops \subseteq {o}
        PROVE  Unit(o) \notin Ans(This.comp1).has /\ Unit(o) \notin Ans(c2).has
    <3>1. Ans(w).ops \subseteq {o} /\ Unit(o) \notin Ans(This.comp1).has
      BY <1>1, <1>4, <2>1, TopPure
    <3>2. o = op
      BY <1>4, <3>1
    <3> QED BY <1>6, <3>1, <3>2 DEF HasUnit
  <2>2. GoTo("again")
    BY <1>6 DEF SimplifySecond
  <2>3. "again" \in {"between", "again"}
    OBVIOUS
  <2> QED BY <1>1, <1>3, <2>1, <2>2, <2>3, GoToKeeps
<1> QED BY <1>5, <1>6

LEMMA SimplifyKeeps == ASSUME CallsInv, Simplify PROVE CallsInv'
  BY SimplifyAtomKeeps, SimplifyObjKeeps, SimplifySecondKeeps DEF Simplify

-----------------------------------------------------------------------------
(* The parser and the checker: new objects, while nothing is simplified.   *)

(* The labels in order, whatever calls there are.                          *)
LabelsOK ==
  /\ Heap(objs)
  /\ meaning \in Seq(Means) /\ Len(meaning) = Len(objs)
  /\ label \in Refs(Len(objs)) /\ meant \in Means
  /\ MadeOfParts
  /\ Meaning(label) = meant

LEMMA LabelsAreOK == CallsInv => LabelsOK
  BY DEF CallsInv, LabelTypeOK, CallsMean, LabelsOK

(* It is all there is to show where no call is left, and where one begins. *)
LEMMA NoCalls == LabelsOK /\ calls = <<>> => CallsInv
<1> SUFFICES ASSUME LabelsOK, calls = <<>> PROVE CallsInv
  OBVIOUS
<1>1. calls \in Seq(Frames) /\ \A i1 \in 1 .. Len(calls) : FALSE
  OBVIOUS
<1>2. LabelTypeOK
  BY <1>1 DEF LabelTypeOK, LabelsOK
<1>3. CallsMean
  BY <1>1 DEF CallsMean, LabelsOK
<1>4. CallsOpen
  BY <1>1 DEF CallsOpen
<1>5. CallsPure
  BY <1>1, Zenon DEF CallsPure
<1> QED BY <1>2, <1>3, <1>4, <1>5 DEF CallsInv, LabelsOK

Called ==
  calls = <<calls[1]>> /\ calls[1] = [this |-> label, at |-> "enter", ops |-> calls[1].ops]

LEMMA OneCall ==
  LabelsOK /\ Called /\ Ans(label).ops \subseteq calls[1].ops /\ calls[1].ops \subseteq Mixed
    => CallsInv
<1> SUFFICES ASSUME LabelsOK, Called,
                    Ans(label).ops \subseteq calls[1].ops, calls[1].ops \subseteq Mixed
             PROVE  CallsInv
  OBVIOUS
<1> DEFINE f == calls[1]
<1>1. calls = <<f>> /\ f = [this |-> label, at |-> "enter", ops |-> f.ops]
  BY DEF Called
<1>2. f.this = label /\ f.at = "enter"
  <2>1. [this |-> label, at |-> "enter", ops |-> f.ops].this = label
    OBVIOUS
  <2>2. [this |-> label, at |-> "enter", ops |-> f.ops].at = "enter"
    OBVIOUS
  <2> HIDE DEF f
  <2> QED BY <1>1, <2>1, <2>2
<1>3. f \in Frames
  <2>1. Len(objs) \in Nat /\ label \in Refs(Len(objs))
    BY DEF LabelsOK, Heap
  <2>2. label \in AllRefs
    BY <2>1, RefsAre
  <2>3. [this |-> label, at |-> "enter", ops |-> f.ops] \in Frames
    BY <2>2 DEF Frames, Places
  <2> HIDE DEF f
  <2> QED BY <1>1, <2>3, Zenon
<1>4. Ans(label).ops \subseteq f.ops
  OBVIOUS
<1> HIDE DEF f
<1>5. /\ calls # <<>> /\ calls \in Seq(Frames) /\ Len(calls) = 1
      /\ \A i1 \in 1 .. Len(calls) : i1 = 1 /\ calls[i1] = f
  BY <1>1, <1>3
<1>6. LabelTypeOK
  BY <1>2, <1>5 DEF LabelTypeOK, LabelsOK
<1>7. CallsMean
  <2>1. \A i1 \in 1 .. Len(calls) :
          calls[i1].at = "enter" /\ ~Waits(calls[i1]) /\ ~(i1 < Len(calls))
    BY <1>2, <1>5 DEF Waits
  <2>2. Meaning(label) = meant /\ Meaning(calls[1].this) = meant
    BY <1>2, <1>5 DEF LabelsOK
  <2> QED BY <2>1, <2>2 DEF CallsMean
<1>8. CallsOpen
  BY <1>2, <1>5 DEF CallsOpen
<1>9. CallsPure
  <2> SUFFICES ASSUME NEW i1 \in 1 .. Len(calls), NEW o \in Mixed, calls[i1].ops \subseteq {o}
               PROVE  /\ \A j1 \in i1 .. Len(calls) : Ans(calls[j1].this).ops \subseteq {o}
                      /\ calls[i1].at \notin {"between", "second", "again"}
    BY Zenon DEF CallsPure
  <2>1. calls[i1] = f /\ Ans(label).ops \subseteq {o}
    BY <1>4, <1>5
  <2>2. \A j1 \in i1 .. Len(calls) : calls[j1] = f
    BY <1>5
  <2> QED BY <1>2, <2>1, <2>2
<1> QED BY <1>6, <1>7, <1>8, <1>9 DEF CallsInv, LabelsOK

(* What an object answers does not depend on those made after it.          *)
LEMMA GrowthKeeps ==
  ASSUME NEW os, NEW os2, Heap(os), Heap(os2), Len(os) <= Len(os2),
         \A k \in 1 .. Len(os) : os2[k] = os[k]
  PROVE  \A r \in Refs(Len(os)) : AnsIn(os2, r) = AnsIn(os, r)
<1> DEFINE S == {r \in Refs(Len(os)) : AnsIn(os2, r) = AnsIn(os, r)}
<1>0. Len(os) \in Nat /\ Len(os2) \in Nat
  BY DEF Heap
<1>1. Atoms \subseteq S
  BY <1>0, RefsAre, AtomAnswers
<1>2. ASSUME NEW k \in 1 .. Len(os), os[k].comp1 \in S, os[k].comp2 \in S PROVE Obj(k) \in S
  <2>1. AnsIn(os, Obj(k)) = OfCompound(os[k].op, AnsIn(os, os[k].comp1), AnsIn(os, os[k].comp2))
    BY AnswersAre
  <2>2. k \in 1 .. Len(os2) /\ os2[k] = os[k]
    BY <1>0
  <2>3. AnsIn(os2, Obj(k)) = OfCompound(os2[k].op, AnsIn(os2, os2[k].comp1), AnsIn(os2, os2[k].comp2))
    BY <2>2, AnswersAre
  <2>4. AnsIn(os2, os[k].comp1) = AnsIn(os, os[k].comp1) /\ AnsIn(os2, os[k].comp2) = AnsIn(os, os[k].comp2)
    BY <1>2
  <2>5. Obj(k) \in Refs(Len(os))
    BY <1>0, RefsAre
  <2> QED BY <2>1, <2>2, <2>3, <2>4, <2>5
<1>3. Refs(Len(os)) \subseteq S
  <2> HIDE DEF S
  <2> QED BY <1>1, <1>2, RefInduction
<1> QED BY <1>3

(* What a label means by the meanings ms. *)
MeaningIn(ms, r) == IF IsObj(r) THEN ms[r[2]] ELSE DenOfAtom(r)

LEMMA MadeIn ==
  /\ \A r : Meaning(r) = MeaningIn(meaning, r)
  /\ MadeOfParts => \A k \in 1 .. Len(objs) :
       meaning[k] = Combine(objs[k].op, MeaningIn(meaning, objs[k].comp1),
                            MeaningIn(meaning, objs[k].comp2))
  BY DEF Meaning, MeaningIn, MadeOfParts

(* A join or a meet is made of labels there are.                           *)
LEMMA NewKeeps ==
  ASSUME LabelsOK, NEW op \in Mixed, NEW c1 \in Refs(Len(objs)), NEW c2 \in Refs(Len(objs)),
         New(op, c1, c2)
  PROVE  /\ LabelsOK'
         /\ Ans(label)'.ops = {op} \cup Ans(c1).ops \cup Ans(c2).ops
<1> DEFINE n == Len(objs)
           c == [op |-> op, comp1 |-> c1, comp2 |-> c2]
<1>1. /\ Heap(objs) /\ objs \in Seq(Objects) /\ n \in Nat /\ Len(meaning) = n /\ meaning \in Seq(Means)
      /\ MadeOfParts
  BY DEF LabelsOK, Heap
<1>2. /\ objs' = Append(objs, c) /\ label' = Obj(n + 1)
      /\ meant' = Combine(op, Meaning(c1), Meaning(c2)) /\ meaning' = Append(meaning, meant')
  BY DEF New
<1>3. c \in Objects /\ c.op = op /\ c.comp1 = c1 /\ c.comp2 = c2
  BY <1>1, RefsAre DEF Objects, Mixed
<1>4. ASSUME NEW r \in Refs(n) PROVE Meaning(r) \in Means
  <2>1. CASE IsObj(r)
    BY <1>1, <2>1, RefsAre DEF Meaning
  <2>2. CASE ~IsObj(r)
    BY <1>1, <2>2, RefsAre, AtomMeans DEF Meaning
  <2> QED BY <2>1, <2>2
<1>5. meant' \in Means
  BY <1>2, <1>4, CombineFacts
<1> HIDE DEF n, c
<1>6. n = Len(objs)
  BY DEF n
<1>7. /\ objs' \in Seq(Objects) /\ Len(objs') = n + 1 /\ objs'[n + 1] = c
      /\ \A k \in 1 .. n : objs'[k] = objs[k]
  BY <1>1, <1>2, <1>3, <1>6, AppendProperties
<1>8. /\ meaning' \in Seq(Means) /\ Len(meaning') = n + 1 /\ meaning'[n + 1] = meant'
      /\ \A k \in 1 .. n : meaning'[k] = meaning[k]
  BY <1>1, <1>2, <1>5, <1>6, AppendProperties
<1>9. Heap(objs')
  <2> SUFFICES ASSUME NEW k \in 1 .. n + 1
               PROVE  objs'[k].comp1 \in Refs(k - 1) /\ objs'[k].comp2 \in Refs(k - 1)
    BY <1>7 DEF Heap
  <2>1. CASE k \in 1 .. n
    BY <1>1, <1>6, <1>7, <2>1 DEF Heap
  <2>2. CASE k = n + 1
    <3>1. k - 1 = n
      BY <1>1, <2>2
    <3> QED BY <1>3, <1>6, <1>7, <2>2, <3>1
  <2>3. k \in 1 .. n \/ k = n + 1
    BY <1>1
  <2> QED BY <2>1, <2>2, <2>3
<1>10. ASSUME NEW r \in Refs(n)
       PROVE  AnsIn(objs', r) = AnsIn(objs, r) /\ MeaningIn(meaning', r) = MeaningIn(meaning, r)
  <2>1. AnsIn(objs', r) = AnsIn(objs, r)
    BY <1>1, <1>6, <1>7, <1>9, GrowthKeeps
  <2>2. IsObj(r) => meaning'[r[2]] = meaning[r[2]]
    BY <1>1, <1>8, RefsAre
  <2> QED BY <2>1, <2>2 DEF MeaningIn
<1>11. Obj(n + 1) \in Refs(n + 1) /\ n + 1 \in 1 .. n + 1
  BY <1>1, RefsAre
<1>12. ASSUME NEW k \in 1 .. n + 1
       PROVE  meaning'[k] = Combine(objs'[k].op, MeaningIn(meaning', objs'[k].comp1),
                                    MeaningIn(meaning', objs'[k].comp2))
  <2>1. CASE k \in 1 .. n
    <3>1. objs[k].comp1 \in Refs(n) /\ objs[k].comp2 \in Refs(n)
      BY <1>1, <1>6, <2>1, ObjAnswers
    <3>2. meaning[k] = Combine(objs[k].op, MeaningIn(meaning, objs[k].comp1), MeaningIn(meaning, objs[k].comp2))
      BY <1>1, <1>6, <2>1, MadeIn
    <3> QED BY <1>7, <1>8, <1>10, <2>1, <3>1, <3>2
  <2>2. CASE k = n + 1
    <3>1. objs'[k].comp1 = c1 /\ objs'[k].comp2 = c2 /\ objs'[k].op = op
      BY <1>3, <1>7, <2>2
    <3>2. MeaningIn(meaning', c1) = Meaning(c1) /\ MeaningIn(meaning', c2) = Meaning(c2)
      BY <1>6, <1>10, MadeIn
    <3> QED BY <1>2, <1>8, <2>2, <3>1, <3>2
  <2>3. k \in 1 .. n \/ k = n + 1
    BY <1>1
  <2> QED BY <2>1, <2>2, <2>3
<1>13. MadeOfParts'
  <2>1. MadeOfParts' <=> \A k \in 1 .. Len(objs') :
          meaning'[k] = Combine(objs'[k].op, MeaningIn(meaning', objs'[k].comp1),
                                MeaningIn(meaning', objs'[k].comp2))
    BY Zenon DEF MadeOfParts, Meaning, MeaningIn
  <2>2. Len(objs') = n + 1
    BY <1>7
  <2> QED BY <1>12, <2>1, <2>2
<1>14. (Meaning(label) = meant)'
  <2>1. IsObj(label') /\ label'[2] = n + 1
    BY <1>2, <1>6, RefsAre
  <2> QED BY <1>8, <2>1 DEF Meaning
<1>15. LabelsOK'
  <2>1. label' \in Refs(n + 1)
    BY <1>2, <1>6, <1>11
  <2> QED BY <1>5, <1>7, <1>8, <1>9, <1>13, <1>14, <2>1 DEF LabelsOK
<1>16. Ans(label)'.ops = {op} \cup Ans(c1).ops \cup Ans(c2).ops
  <2>1. AnsIn(objs', Obj(n + 1)) =
          OfCompound(objs'[n + 1].op, AnsIn(objs', objs'[n + 1].comp1), AnsIn(objs', objs'[n + 1].comp2))
    BY <1>7, <1>9, <1>11, AnswersAre
  <2>2. AnsIn(objs', Obj(n + 1)) = OfCompound(op, Ans(c1), Ans(c2))
    BY <1>3, <1>6, <1>7, <1>10, <2>1 DEF Ans
  <2>3. Ans(label)' = AnsIn(objs', Obj(n + 1))
    BY <1>2, <1>6 DEF Ans
  <2> QED BY <2>2, <2>3 DEF OfCompound
<1> QED BY <1>15, <1>16

(* Renaming meanings: it keeps those the variable does not matter to, and  *)
(* it may be done before joining or after.                                 *)
LEMMA RenamingMeans ==
  ASSUME NEW e1 \in IndexVars, NEW e2 \in IndexVars \cup {0}, NEW d \in Means, NEW e \in Means
  PROVE  /\ RenamedMeaning(d, e1, e2) \in Means
         /\ Free(d, e1) => RenamedMeaning(d, e1, e2) = d
         /\ \A op : RenamedMeaning(Combine(op, d, e), e1, e2) =
                      Combine(op, RenamedMeaning(d, e1, e2), RenamedMeaning(e, e1, e2))
         /\ RenamedMeaning(DenOfAtom(Index(e1)), e1, e2) = DenOfAtom(Index(e2))
<1> DEFINE after(s) == [s EXCEPT ![e1] = ValueOf(e2, s)]
<1>1. ASSUME NEW s \in HwStates
      PROVE  ValueOf(e2, s) \in {0, 1} /\ after(s) \in HwStates /\ after(s)[e1] = ValueOf(e2, s)
  <2>1. ValueOf(e2, s) \in {0, 1}
    BY DEF ValueOf, HwStates
  <2> QED BY <2>1 DEF HwStates
<1>2. \A x \in Means : RenamedMeaning(x, e1, e2) = [s \in HwStates |-> x[after(s)]]
  BY DEF RenamedMeaning
<1> HIDE DEF after
<1>3. \A x \in Means : RenamedMeaning(x, e1, e2) \in Means
  BY <1>1, <1>2 DEF Means
<1>4. ASSUME Free(d, e1) PROVE RenamedMeaning(d, e1, e2) = d
  <2>1. \A s \in HwStates : d[after(s)] = d[s]
    BY <1>1, <1>4 DEF Free, after
  <2>2. [s \in HwStates |-> d[after(s)]] = [s \in HwStates |-> d[s]]
    BY <2>1
  <2> QED BY <1>2, <2>2 DEF Means
<1>5. ASSUME NEW op
      PROVE  RenamedMeaning(Combine(op, d, e), e1, e2) =
               Combine(op, RenamedMeaning(d, e1, e2), RenamedMeaning(e, e1, e2))
  <2>1. Combine(op, d, e) \in Means
    BY CombineFacts
  <2>2. RenamedMeaning(Combine(op, d, e), e1, e2) = [s \in HwStates |-> Combine(op, d, e)[after(s)]]
    BY <1>2, <2>1
  <2>3. ASSUME NEW s \in HwStates
        PROVE  Combine(op, d, e)[after(s)] =
                 IF op = "join" THEN join[d[after(s)]][e[after(s)]] ELSE meet[d[after(s)]][e[after(s)]]
    BY <1>1 DEF Combine
  <2>4. \A s \in HwStates : /\ RenamedMeaning(d, e1, e2)[s] = d[after(s)]
                            /\ RenamedMeaning(e, e1, e2)[s] = e[after(s)]
    BY <1>2
  <2>5. Combine(op, RenamedMeaning(d, e1, e2), RenamedMeaning(e, e1, e2)) =
          [s \in HwStates |-> IF op = "join" THEN join[d[after(s)]][e[after(s)]]
                              ELSE meet[d[after(s)]][e[after(s)]]]
    BY <2>4 DEF Combine
  <2> QED BY <2>2, <2>3, <2>5
<1>6. RenamedMeaning(DenOfAtom(Index(e1)), e1, e2) = DenOfAtom(Index(e2))
  <2>1. \A x : DenOfAtom(Index(x)) = [s \in HwStates |-> Family[ValueOf(x, s)]]
    BY DEF DenOfAtom, Index
  <2>2. DenOfAtom(Index(e1)) \in Means
    BY AtomMeans DEF Atoms
  <2>3. ASSUME NEW s \in HwStates PROVE DenOfAtom(Index(e1))[after(s)] = Family[ValueOf(e2, s)]
    <3>1. ValueOf(e1, after(s)) = ValueOf(e2, s)
      BY <1>1 DEF ValueOf
    <3> QED BY <1>1, <2>1, <3>1
  <2> QED BY <1>2, <2>1, <2>2, <2>3
<1> QED BY <1>3, <1>4, <1>5, <1>6

(* subst: the new label means what the old one does, renamed.              *)
LEMMA RenamedIs ==
  ASSUME CallsInv, NEW e1 \in IndexVars, NEW e2 \in IndexVars \cup {0},
         NEW ms, \A k \in 1 .. Len(objs) : /\ ms[k] = meaning[k]
                                           /\ ms[Len(objs) + k] = RenamedMeaning(meaning[k], e1, e2),
         NEW j1 \in 0 .. Len(objs), NEW r \in Refs(j1)
  PROVE  /\ Renamed(r, e1, e2) \in Refs(Len(objs) + j1)
         /\ MeaningIn(ms, Renamed(r, e1, e2)) = RenamedMeaning(Meaning(r), e1, e2)
<1> DEFINE n == Len(objs)
<1>1. n \in Nat /\ Heap(objs) /\ LabelTypeOK /\ MadeOfParts
  BY DEF CallsInv, LabelTypeOK, Heap
<1>2. r \in Refs(n) /\ Refs(j1) \subseteq Refs(n + j1) /\ Atoms \subseteq Refs(n + j1)
  <2>1. j1 \in Nat /\ n + j1 \in Nat /\ j1 <= n /\ j1 <= n + j1
    BY <1>1
  <2> HIDE DEF n
  <2> QED BY <1>1, <2>1, RefsAre
<1>3. Meaning(r) \in Means
  BY <1>1, <1>2, MeaningType
<1>4. CASE e1 \notin Ans(r).exprs
  <2>1. Renamed(r, e1, e2) = r
    BY <1>4 DEF Renamed
  <2>2. Free(Meaning(r), e1)
    BY <1>1, <1>2, <1>4, NotCollectedFree
  <2>3. RenamedMeaning(Meaning(r), e1, e2) = Meaning(r)
    BY <1>3, <2>2, RenamingMeans
  <2>4. MeaningIn(ms, r) = Meaning(r)
    <3>1. IsObj(r) => r[2] \in 1 .. n
      BY <1>1, <1>2, RefsAre
    <3> QED BY <3>1 DEF Meaning, MeaningIn
  <2> QED BY <1>2, <2>1, <2>3, <2>4
<1>5. CASE e1 \in Ans(r).exprs /\ IsObj(r)
  <2>1. r[2] \in 1 .. j1 /\ r[2] \in 1 .. n
    BY <1>1, <1>2, <1>5, RefsAre
  <2>2. Renamed(r, e1, e2) = Obj(n + r[2])
    BY <1>5 DEF Renamed
  <2>3. n + r[2] \in 1 .. n + j1 /\ n + j1 \in Nat
    BY <1>1, <2>1
  <2>4. Obj(n + r[2]) \in Refs(n + j1)
    BY <2>3, RefsAre
  <2>5. MeaningIn(ms, Obj(n + r[2])) = ms[n + r[2]]
    BY RefsAre DEF MeaningIn
  <2>6. Meaning(r) = meaning[r[2]]
    BY <1>5 DEF Meaning
  <2> QED BY <2>1, <2>2, <2>4, <2>5, <2>6
<1>6. CASE e1 \in Ans(r).exprs /\ ~IsObj(r)
  <2>1. r \in Atoms
    BY <1>1, <1>2, <1>6, RefsAre
  <2>2. Ans(r).exprs = IF r[1] = "index" THEN {r[2]} ELSE {}
    <3>1. Ans(r) = OfAtom(r)
      BY <2>1, AtomAnswers DEF Ans
    <3> QED BY <3>1 DEF OfAtom
  <2>3. r = Index(e1)
    <3>1. r[1] = "index" /\ r[2] = e1
      BY <1>6, <2>2
    <3> QED BY <2>1, <3>1 DEF Atoms, Const, Index
  <2>4. Renamed(r, e1, e2) = Index(e2)
    BY <1>6 DEF Renamed
  <2>5. Index(e2) \in Atoms
    BY DEF Atoms
  <2>6. Meaning(r) = DenOfAtom(Index(e1)) /\ MeaningIn(ms, Index(e2)) = DenOfAtom(Index(e2))
    BY <1>6, <2>3, <2>5, RefsAre DEF Meaning, MeaningIn
  <2>7. RenamedMeaning(DenOfAtom(Index(e1)), e1, e2) = DenOfAtom(Index(e2))
    BY <1>3, RenamingMeans
  <2> QED BY <1>2, <2>4, <2>5, <2>6, <2>7
<1> QED BY <1>4, <1>5, <1>6

LEMMA Doubled ==
  ASSUME NEW S, NEW n \in Nat, NEW s \in Seq(S), NEW t \in Seq(S), Len(s) = n, Len(t) = n
  PROVE  /\ s \o t \in Seq(S) /\ Len(s \o t) = n + n
         /\ \A k \in 1 .. n : (s \o t)[k] = s[k] /\ (s \o t)[n + k] = t[k]
<1>1. /\ s \o t \in Seq(S) /\ Len(s \o t) = Len(s) + Len(t)
      /\ \A i1 \in 1 .. Len(s) + Len(t) : (s \o t)[i1] = IF i1 <= Len(s) THEN s[i1] ELSE t[i1 - Len(s)]
  BY ConcatProperties
<1>2. ASSUME NEW k \in 1 .. n PROVE (s \o t)[k] = s[k] /\ (s \o t)[n + k] = t[k]
  <2>1. k \in 1 .. n + n /\ k <= n /\ n + k \in 1 .. n + n /\ ~(n + k <= n) /\ (n + k) - n = k
    OBVIOUS
  <2> QED BY <1>1, <2>1
<1> QED BY <1>1, <1>2

LEMMA RenameKeeps ==
  ASSUME CallsInv, NEW e1 \in IndexVars, NEW e2 \in IndexVars \cup {0}, Rename(e1, e2)
  PROVE  CallsInv'
<1> DEFINE n == Len(objs)
           copy(o) == [op |-> o.op, comp1 |-> Renamed(o.comp1, e1, e2), comp2 |-> Renamed(o.comp2, e1, e2)]
           copies == [k \in 1 .. n |-> copy(objs[k])]
           means == [k \in 1 .. n |-> RenamedMeaning(meaning[k], e1, e2)]
<1>1. /\ objs' = objs \o copies /\ meaning' = meaning \o means
      /\ label' = Renamed(label, e1, e2) /\ meant' = RenamedMeaning(meant, e1, e2)
      /\ calls = <<>> /\ calls' = <<>>
  BY DEF Rename, Idle
<1>2. /\ Heap(objs) /\ objs \in Seq(Objects) /\ n \in Nat /\ LabelTypeOK /\ MadeOfParts
      /\ meaning \in Seq(Means) /\ Len(meaning) = n /\ meant \in Means
      /\ label \in Refs(n) /\ Meaning(label) = meant
  BY DEF CallsInv, LabelTypeOK, Heap, CallsMean
<1>3. ASSUME NEW k \in 1 .. n
      PROVE  /\ objs[k].op \in Mixed
             /\ objs[k].comp1 \in Refs(k - 1) /\ objs[k].comp2 \in Refs(k - 1)
             /\ k - 1 \in 0 .. n /\ n + (k - 1) \in Nat
             /\ copies[k].op = objs[k].op
             /\ copies[k].comp1 = Renamed(objs[k].comp1, e1, e2)
             /\ copies[k].comp2 = Renamed(objs[k].comp2, e1, e2)
             /\ copies[k] = [op |-> copies[k].op, comp1 |-> copies[k].comp1, comp2 |-> copies[k].comp2]
  <2>1. /\ objs[k].op \in Mixed
        /\ objs[k].comp1 \in Refs(k - 1) /\ objs[k].comp2 \in Refs(k - 1)
    BY <1>2, ObjAnswers DEF Mixed
  <2>2. k - 1 \in 0 .. n /\ n + (k - 1) \in Nat
    BY <1>2
  <2>3. objs[k] \in Objects
    BY <1>2
  <2>4. copies[k] = copy(objs[k])
    OBVIOUS
  <2>5. ASSUME NEW o \in Objects
        PROVE  copy(o) = [op |-> o.op, comp1 |-> Renamed(o.comp1, e1, e2),
                          comp2 |-> Renamed(o.comp2, e1, e2)]
    BY DEF Objects
  <2> HIDE DEF copies, copy
  <2> QED BY <2>1, <2>2, <2>3, <2>4, <2>5
<1>4. \A k \in 1 .. n : means[k] = RenamedMeaning(meaning[k], e1, e2)
  OBVIOUS
<1>5. \A k \in 1 .. n : meaning[k] \in Means /\ means[k] \in Means
  BY <1>2, RenamingMeans
<1>6. means \in Seq(Means) /\ Len(means) = n /\ copies = [k \in 1 .. n |-> copies[k]]
  BY <1>2, <1>5
<1> HIDE DEF n, means, copies, copy
<1>7. n = Len(objs)
  BY DEF n
<1>8. /\ meaning' \in Seq(Means) /\ Len(meaning') = n + n
      /\ \A k \in 1 .. n : meaning'[k] = meaning[k] /\ meaning'[n + k] = RenamedMeaning(meaning[k], e1, e2)
  <2>1. /\ meaning \o means \in Seq(Means) /\ Len(meaning \o means) = n + n
        /\ \A k \in 1 .. n : (meaning \o means)[k] = meaning[k] /\ (meaning \o means)[n + k] = means[k]
    BY <1>2, <1>6, <1>7, Doubled
  <2> QED BY <1>1, <1>4, <2>1
<1>9. ASSUME NEW j1 \in 0 .. n, NEW r \in Refs(j1)
      PROVE  /\ Renamed(r, e1, e2) \in Refs(n + j1)
             /\ MeaningIn(meaning', Renamed(r, e1, e2)) = RenamedMeaning(Meaning(r), e1, e2)
  BY <1>7, <1>8, RenamedIs
<1>10. \A k \in 1 .. n : copies[k] \in Objects
  <2> SUFFICES ASSUME NEW k \in 1 .. n PROVE copies[k] \in Objects
    OBVIOUS
  <2> DEFINE c == copies[k]
  <2>1. /\ c = [op |-> c.op, comp1 |-> c.comp1, comp2 |-> c.comp2] /\ c.op \in Mixed
        /\ c.comp1 \in Refs(n + (k - 1)) /\ c.comp2 \in Refs(n + (k - 1))
    BY <1>3, <1>9
  <2>2. c.comp1 \in AllRefs /\ c.comp2 \in AllRefs
    BY <1>3, <2>1, RefsAre
  <2> HIDE DEF c
  <2>3. c \in Objects
    BY <2>1, <2>2 DEF Objects, Mixed
  <2> QED BY <2>3 DEF c
<1>11. copies \in Seq(Objects) /\ Len(copies) = n
  BY <1>2, <1>6, <1>10
<1>12. /\ objs' \in Seq(Objects) /\ Len(objs') = n + n
       /\ \A k \in 1 .. n : objs'[k] = objs[k] /\ objs'[n + k] = copies[k]
  <2>1. /\ objs \o copies \in Seq(Objects) /\ Len(objs \o copies) = n + n
        /\ \A k \in 1 .. n : (objs \o copies)[k] = objs[k] /\ (objs \o copies)[n + k] = copies[k]
    BY <1>2, <1>6, <1>7, <1>11, Doubled
  <2> QED BY <1>1, <1>4, <2>1
<1>13. ASSUME NEW i1 \in 1 .. n + n
       PROVE  i1 \in 1 .. n \/ \E k \in 1 .. n : i1 = n + k
  <2>1. CASE i1 <= n
    BY <1>2, <2>1
  <2>2. CASE ~(i1 <= n)
    <3>1. i1 - n \in 1 .. n /\ i1 = n + (i1 - n)
      BY <1>2, <2>2
    <3> QED BY <3>1
  <2> QED BY <2>1, <2>2
<1>14. Heap(objs')
  <2> SUFFICES ASSUME NEW i1 \in 1 .. n + n
               PROVE  objs'[i1].comp1 \in Refs(i1 - 1) /\ objs'[i1].comp2 \in Refs(i1 - 1)
    BY <1>12 DEF Heap
  <2>1. CASE i1 \in 1 .. n
    BY <1>3, <1>12, <2>1
  <2>2. ASSUME NEW k \in 1 .. n, i1 = n + k
        PROVE  objs'[i1].comp1 \in Refs(i1 - 1) /\ objs'[i1].comp2 \in Refs(i1 - 1)
    <3>1. i1 - 1 = n + (k - 1) /\ objs'[i1] = copies[k]
      BY <1>2, <1>12, <2>2
    <3>2. copies[k].comp1 \in Refs(n + (k - 1)) /\ copies[k].comp2 \in Refs(n + (k - 1))
      BY <1>3, <1>9
    <3> QED BY <3>1, <3>2
  <2> QED BY <1>13, <2>1, <2>2
<1>15. ASSUME NEW i1 \in 1 .. n + n
       PROVE  meaning'[i1] = Combine(objs'[i1].op, MeaningIn(meaning', objs'[i1].comp1),
                                    MeaningIn(meaning', objs'[i1].comp2))
  <2>1. ASSUME NEW k \in 1 .. n
        PROVE  /\ meaning[k] = Combine(objs[k].op, Meaning(objs[k].comp1), Meaning(objs[k].comp2))
               /\ Meaning(objs[k].comp1) \in Means /\ Meaning(objs[k].comp2) \in Means
    BY <1>2, <1>7, PartsMean DEF MadeOfParts
  <2>2. CASE i1 \in 1 .. n
    <3>1. ASSUME NEW r \in Refs(i1 - 1) PROVE MeaningIn(meaning', r) = Meaning(r)
      <4>1. IsObj(r) => r[2] \in 1 .. n
        <5>1. i1 - 1 \in Nat /\ (IsObj(r) => r[2] \in 1 .. i1 - 1)
          BY <1>2, <2>2, RefsAre
        <5> QED BY <1>2, <2>2, <5>1
      <4> QED BY <1>8, <4>1 DEF Meaning, MeaningIn
    <3>2. /\ MeaningIn(meaning', objs[i1].comp1) = Meaning(objs[i1].comp1)
          /\ MeaningIn(meaning', objs[i1].comp2) = Meaning(objs[i1].comp2)
      BY <1>3, <2>2, <3>1
    <3>3. meaning'[i1] = meaning[i1] /\ objs'[i1] = objs[i1]
      BY <1>8, <1>12, <2>2
    <3>4. meaning[i1] = Combine(objs[i1].op, Meaning(objs[i1].comp1), Meaning(objs[i1].comp2))
      BY <2>1, <2>2
    <3> QED BY <3>2, <3>3, <3>4
  <2>3. ASSUME NEW k \in 1 .. n, i1 = n + k
        PROVE  meaning'[i1] = Combine(objs'[i1].op, MeaningIn(meaning', objs'[i1].comp1),
                                     MeaningIn(meaning', objs'[i1].comp2))
    <3> DEFINE d == Meaning(objs[k].comp1)
               e == Meaning(objs[k].comp2)
    <3>1. objs'[i1] = copies[k] /\ meaning'[i1] = RenamedMeaning(meaning[k], e1, e2)
      BY <1>8, <1>12, <2>3
    <3>2. /\ MeaningIn(meaning', copies[k].comp1) = RenamedMeaning(d, e1, e2)
          /\ MeaningIn(meaning', copies[k].comp2) = RenamedMeaning(e, e1, e2)
      BY <1>3, <1>9
    <3>3. meaning[k] = Combine(objs[k].op, d, e) /\ d \in Means /\ e \in Means
      BY <2>1
    <3>4. copies[k].op = objs[k].op
      BY <1>3
    <3> HIDE DEF d, e
    <3>5. RenamedMeaning(Combine(objs[k].op, d, e), e1, e2) =
            Combine(objs[k].op, RenamedMeaning(d, e1, e2), RenamedMeaning(e, e1, e2))
      BY <3>3, RenamingMeans
    <3> QED BY <3>1, <3>2, <3>3, <3>4, <3>5
  <2> QED BY <1>13, <2>2, <2>3
<1>16. MadeOfParts'
  <2>1. MadeOfParts' <=> \A k \in 1 .. Len(objs') :
          meaning'[k] = Combine(objs'[k].op, MeaningIn(meaning', objs'[k].comp1),
                                MeaningIn(meaning', objs'[k].comp2))
    BY Zenon DEF MadeOfParts, Meaning, MeaningIn
  <2> QED BY <1>12, <1>15, <2>1
<1>17. label' \in Refs(n + n) /\ MeaningIn(meaning', label') = meant' /\ meant' \in Means
  <2>1. n \in 0 .. n
    BY <1>2
  <2> QED BY <1>1, <1>2, <1>9, <2>1, RenamingMeans
<1>18. (Meaning(label) = meant)'
  BY <1>17 DEF Meaning, MeaningIn
<1>19. LabelsOK'
  BY <1>8, <1>12, <1>14, <1>16, <1>17, <1>18 DEF LabelsOK
<1>20. (calls = <<>>)'
  BY <1>1
<1> QED BY <1>19, <1>20, NoCalls, PTL

-----------------------------------------------------------------------------
(* All steps. *)

LEMMA LabelsStart == LabelInit => CallsInv
<1> SUFFICES ASSUME LabelInit PROVE CallsInv
  OBVIOUS
<1>1. objs = <<>> /\ meaning = <<>> /\ label \in Parseable /\ meant = DenOfAtom(label) /\ calls = <<>>
  BY DEF LabelInit
<1>2. Parseable \subseteq Atoms
  BY FamilyAssumption DEF Parseable, Atoms
<1>3. /\ objs \in Seq(Objects) /\ Len(objs) = 0 /\ meaning \in Seq(Means) /\ Len(meaning) = 0
      /\ \A k \in 1 .. Len(objs) : FALSE
  BY <1>1
<1>4. label \in Atoms /\ label \in Refs(Len(objs))
  BY <1>1, <1>2 DEF Refs
<1>5. Heap(objs) /\ MadeOfParts
  BY <1>3 DEF Heap, MadeOfParts
<1>6. Meaning(label) = meant /\ meant \in Means
  BY <1>1, <1>4, MeaningIs, AtomMeans
<1>7. LabelsOK
  BY <1>3, <1>4, <1>5, <1>6 DEF LabelsOK
<1> QED BY <1>1, <1>7, NoCalls

(* What the parser and the checker may take up.                            *)
LEMMA TakenUp ==
  CallsInv => /\ Parseable \cup {Obj(k) : k \in 1 .. Len(objs)} \subseteq Refs(Len(objs))
              /\ label \in Refs(Len(objs)) /\ Len(objs) \in Nat
<1>1. Parseable \subseteq Atoms
  BY FamilyAssumption DEF Parseable, Atoms
<1>2. CallsInv => label \in Refs(Len(objs)) /\ Len(objs) \in Nat
  BY DEF CallsInv, LabelTypeOK, Heap
<1> QED BY <1>1, <1>2 DEF Refs

LEMMA BuildKeeps ==
  ASSUME CallsInv, NEW t \in Refs(Len(objs)), Declare(t) \/ JoinWith(t)
  PROVE  CallsInv'
<1>1. LabelsOK /\ label \in Refs(Len(objs))
  BY LabelsAreOK, TakenUp
<1>2. PICK op \in Mixed, c1 \in Refs(Len(objs)), c2 \in Refs(Len(objs)) : New(op, c1, c2)
  BY <1>1, Zenon DEF Declare, JoinWith, Mixed
<1>3. (calls = <<>>)'
  BY DEF Declare, JoinWith, Idle
<1>4. LabelsOK'
  BY <1>1, <1>2, NewKeeps
<1> QED BY <1>3, <1>4, NoCalls, PTL

LEMMA ConditionKeeps ==
  ASSUME CallsInv, NEW t \in Refs(Len(objs)), Condition(t)
  PROVE  CallsInv'
<1> DEFINE all == {"join"} \cup Ans(t).ops \cup Ans(label).ops
<1>1. LabelsOK /\ label \in Refs(Len(objs)) /\ LabelTypeOK
  BY LabelsAreOK, TakenUp DEF CallsInv
<1>2. New("join", t, label) /\ calls' = <<[this |-> label', at |-> "enter", ops |-> all]>>
  BY DEF Condition
<1>3. LabelsOK' /\ Ans(label)'.ops = all
  BY <1>1, <1>2, NewKeeps DEF Mixed
<1>4. all \subseteq Mixed
  <2>1. Ans(t).ops \subseteq Mixed /\ Ans(label).ops \subseteq Mixed
    BY <1>1, FrameType
  <2> QED BY <2>1 DEF Mixed
<1> HIDE DEF all
<1>5. calls'[1] = [this |-> label', at |-> "enter", ops |-> all] /\ calls'[1].ops = all
  BY <1>2
<1>6. Called'
  BY <1>2, <1>5 DEF Called
<1>7. (Ans(label).ops \subseteq calls[1].ops /\ calls[1].ops \subseteq Mixed)'
  <2>1. Ans(label)'.ops \subseteq calls'[1].ops /\ calls'[1].ops \subseteq Mixed
    BY <1>3, <1>4, <1>5
  <2> QED BY <2>1 DEF Mixed
<1> QED BY <1>3, <1>6, <1>7, OneCall, PTL

LEMMA DumpKeeps == ASSUME CallsInv, Dump PROVE CallsInv'
<1>1. /\ SameLabels /\ calls' = <<Frame(label)>>
      /\ LabelTypeOK /\ MadeOfParts /\ LabelsOK /\ label \in Refs(Len(objs))
  BY LabelsAreOK, TakenUp DEF CallsInv, Dump, SameLabels
<1>2. (\A x : Ans(x)' = Ans(x) /\ Meaning(x)' = Meaning(x)) /\ MadeOfParts'
  BY <1>1, SameObjects
<1>3. LabelsOK'
  <2>1. (Meaning(label) = meant)'
    BY <1>1 DEF LabelsOK, SameLabels, Meaning
  <2> QED BY <1>1, <1>2, <2>1 DEF LabelsOK, SameLabels
<1>4. calls'[1] = [this |-> label, at |-> "enter", ops |-> Ans(label).ops] /\ label' = label
  BY <1>1 DEF Frame, SameLabels
<1>5. calls'[1].ops = Ans(label).ops /\ Ans(label).ops \subseteq Mixed
  BY <1>1, <1>4, FrameType
<1>6. Called'
  <2>1. calls' = <<calls'[1]>>
    BY <1>1
  <2> QED BY <1>4, <1>5, <2>1 DEF Called
<1>7. (Ans(label).ops \subseteq calls[1].ops /\ calls[1].ops \subseteq Mixed)'
  <2>1. Ans(label)' = Ans(label)
    BY <1>1 DEF SameLabels, Ans
  <2> QED BY <1>5, <2>1 DEF Mixed
<1> QED BY <1>3, <1>6, <1>7, OneCall, PTL

LEMMA TakeUpKeeps == ASSUME CallsInv, NEW k \in 1 .. Len(objs), TakeUp(k) PROVE CallsInv'
<1>1. LabelsOK /\ Len(objs) \in Nat
  BY LabelsAreOK, TakenUp
<1>2. label' = Obj(k) /\ meant' = meaning[k] /\ UNCHANGED <<objs, meaning>> /\ (calls = <<>>)'
  BY DEF TakeUp
<1>3. Obj(k) \in Refs(Len(objs)) /\ meaning[k] \in Means
  BY <1>1, RefsAre DEF LabelsOK
<1>4. (Meaning(label) = meant)'
  <2>1. IsObj(label') /\ label'[2] = k
    BY <1>2, RefsAre
  <2> QED BY <1>2, <2>1 DEF Meaning
<1>5. MadeOfParts'
  <2>1. MadeOfParts
    BY <1>1 DEF LabelsOK
  <2>2. objs' = objs /\ meaning' = meaning
    BY <1>2
  <2> HIDE DEF TakeUp
  <2> QED BY <2>1, <2>2 DEF MadeOfParts, Meaning
<1>6. LabelsOK'
  BY <1>1, <1>2, <1>3, <1>4, <1>5 DEF LabelsOK
<1> QED BY <1>2, <1>6, NoCalls, PTL

LEMMA LabelsKept == CallsInv /\ [LabelNext]_labelVars => CallsInv'
<1> SUFFICES ASSUME CallsInv, [LabelNext]_labelVars PROVE CallsInv'
  OBVIOUS
<1>1. CASE Simplify
  BY <1>1, SimplifyKeeps
<1>2. ASSUME NEW t \in Parseable \cup {Obj(k) : k \in 1 .. Len(objs)},
             Declare(t) \/ JoinWith(t) \/ Condition(t)
      PROVE  CallsInv'
  <2>1. t \in Refs(Len(objs))
    BY TakenUp
  <2> QED BY <1>2, <2>1, BuildKeeps, ConditionKeeps
<1>3. CASE Dump
  BY <1>3, DumpKeeps
<1>4. ASSUME NEW k \in 1 .. Len(objs), TakeUp(k) PROVE CallsInv'
  BY <1>4, TakeUpKeeps
<1>5. ASSUME NEW e1 \in IndexVars, NEW e2 \in (IndexVars \cup {0}) \ {e1}, Rename(e1, e2)
      PROVE  CallsInv'
  BY <1>5, RenameKeeps
<1>6. CASE UNCHANGED labelVars
  <2>1. /\ objs' = objs /\ meaning' = meaning /\ label' = label /\ meant' = meant /\ calls' = calls
    BY <1>6 DEF labelVars
  <2>2. LabelTypeOK' = LabelTypeOK /\ MadeOfParts' = MadeOfParts /\ CallsMean' = CallsMean
    BY <2>1 DEF LabelTypeOK, MadeOfParts, CallsMean, Meaning, Part
  <2>3. CallsOpen' = CallsOpen
    BY <2>1 DEF CallsOpen, NeitherPart, Ans
  <2>4. CallsPure' = CallsPure
    BY <2>1, Zenon DEF CallsPure, Ans
  <2> QED BY <2>2, <2>3, <2>4 DEF CallsInv
<1> QED BY <1>1, <1>2, <1>3, <1>4, <1>5, <1>6 DEF LabelNext

(* However labels are built, shared and renamed, and however simplify      *)
(* overwrites their parts, the objects point to earlier ones only, each    *)
(* means its parts joined or met, and every call of simplify on the stack  *)
(* is on a label that means what the place waiting for it does.            *)
THEOREM CallsInvariant == LabelSpec => []CallsInv
  BY LabelsStart, LabelsKept, PTL DEF LabelSpec

(* Every label means what it was declared as and joined with, also while   *)
(* simplify overwrites parts that other labels share.                      *)
THEOREM LabelsMean == LabelSpec => []MeaningKept
<1>1. CallsInv => MeaningKept
  <2> SUFFICES ASSUME CallsInv PROVE MeaningKept
    OBVIOUS
  <2>1. \A r \in Refs(Len(objs)) : Ans(r).den = Meaning(r)
    BY DenMeans DEF CallsInv
  <2>2. Len(objs) \in Nat /\ label \in Refs(Len(objs))
    BY TakenUp
  <2>3. ASSUME NEW k \in 1 .. Len(objs) PROVE AnswersIn(objs)[k].den = meaning[k]
    <3>1. Obj(k) \in Refs(Len(objs)) /\ IsObj(Obj(k)) /\ Obj(k)[2] = k
      BY <2>2, RefsAre
    <3>2. Ans(Obj(k)) = AnswersIn(objs)[k] /\ Meaning(Obj(k)) = meaning[k]
      BY <3>1 DEF Ans, AnsIn, Meaning
    <3> QED BY <2>1, <3>1, <3>2
  <2>4. Ans(label).den = meant
    BY <2>1, <2>2 DEF CallsInv, CallsMean
  <2>5. calls # <<>> => Ans(calls[1].this).den = meant
    <3> SUFFICES ASSUME calls # <<>> PROVE Ans(calls[1].this).den = meant
      OBVIOUS
    <3>1. 1 \in 1 .. Len(calls)
      BY EmptySeq DEF CallsInv, LabelTypeOK
    <3>2. calls[1].this \in Refs(Len(objs)) /\ Meaning(calls[1].this) = meant
      BY <3>1 DEF CallsInv, LabelTypeOK, CallsMean
    <3> QED BY <2>1, <3>2
  <2> QED BY <2>3, <2>4, <2>5, Zenon DEF MeaningKept
<1> QED BY <1>1, CallsInvariant, PTL

(* A label depends on no variable that collect_dep_expr does not collect   *)
(* from it, or that hasExpr does not find in it.                           *)
THEOREM LabelsDepend == LabelSpec => []DependsOnCollected
<1>1. CallsInv => DependsOnCollected
  <2> SUFFICES ASSUME CallsInv, NEW k \in 1 .. Len(objs), NEW x \in IndexVars,
                      x \notin Ans(Obj(k)).deps \/ x \notin Ans(Obj(k)).exprs
               PROVE  Free(meaning[k], x)
    BY Zenon DEF DependsOnCollected, Free
  <2>1. Obj(k) \in Refs(Len(objs)) /\ Meaning(Obj(k)) = meaning[k]
    BY TakenUp, RefsAre, MeaningIs
  <2> QED BY <2>1, NotCollectedFree DEF CallsInv
<1> QED BY <1>1, CallsInvariant, PTL

(* A call of simplify on a label without meets, or without joins, that     *)
(* starts over finds no unit in either part: it does not start over again. *)
THEOREM SimplifyStartsOverOnce == LabelSpec => []StartsOverOnce
<1>1. CallsInv => StartsOverOnce
  <2> SUFFICES ASSUME CallsInv, NEW i1 \in 1 .. Len(calls), calls[i1].at = "again", calls[i1].ops # Mixed
               PROVE  LET o == objs[calls[i1].this[2]]
                      IN  ~HasUnit(o.op, o.comp1) /\ ~HasUnit(o.op, o.comp2)
    BY Zenon DEF StartsOverOnce
  <2> DEFINE k == calls[i1].this[2]
             o == objs[k]
  <2>1. calls[i1] \in Frames
    BY CallersAre
  <2>2. PICK q \in Mixed : calls[i1].ops \subseteq {q}
    <3>1. calls[i1].ops \subseteq Mixed
      BY <2>1 DEF Frames
    <3> HIDE DEF k, o
    <3> QED BY <3>1 DEF Mixed
  <2>3. i1 \in i1 .. Len(calls)
    BY CallersAre
  <2>4. /\ Ans(calls[i1].this).ops \subseteq {q}
        /\ Unit(q) \notin Ans(o.comp1).has /\ Unit(q) \notin Ans(o.comp2).has
    BY <2>2, <2>3 DEF CallsInv, CallsPure
  <2>5. IsObj(calls[i1].this)
    BY DEF CallsInv, CallsMean
  <2>6. k \in 1 .. Len(objs) /\ calls[i1].this = Obj(k) /\ Heap(objs)
    BY <2>5, CallersAre DEF CallsInv, LabelTypeOK
  <2>7. o.op \in Ans(calls[i1].this).ops
    BY <2>6, ObjAnswers DEF Ans
  <2>8. o.op = q
    BY <2>4, <2>7
  <2> QED BY <2>4, <2>8 DEF HasUnit
<1> QED BY <1>1, CallsInvariant, PTL
=============================================================================
