------------------------------ MODULE SecTypes ------------------------------
(***************************************************************************)
(* Security labels as SecVerilog's label checker computes with them        *)
(* (sectypes.cc): constants, indexed labels f(x), joins and meets; how the *)
(* parser builds them, how the checker grows the label of the program      *)
(* counter, and what simplify and subst make of them.                      *)
(*                                                                         *)
(* Joins and meets are objects.  They point to their parts, an object may  *)
(* be part of several others, and simplify overwrites parts in place while *)
(* it calls itself: objs are the objects, in the order they are made, and  *)
(* calls is the stack of calls of simplify.  Constants and indexed labels  *)
(* are never changed, so they stand for themselves.                        *)
(*                                                                         *)
(* meaning[k] is what object k stood for when it was made, and meant what  *)
(* the label at hand stands for, as functions of the state.  Lattice, join *)
(* and meet are those of the prelude the checker writes for Z3.            *)
(***************************************************************************)
EXTENDS Integers, Sequences

CONSTANTS
  Labels, Leq,  \* the lattice
  IndexVars,    \* one-bit variables labels may depend on
  Family,       \* the type-level function
  Written,      \* the constants that occur in the program
  MaxSteps

Upper(l, m) == {u \in Labels : <<l, u>> \in Leq /\ <<m, u>> \in Leq}
Lower(l, m) == {u \in Labels : <<u, l>> \in Leq /\ <<u, m>> \in Leq}
IsLeast(l, ls)    == l \in ls /\ \A m \in ls : <<l, m>> \in Leq
IsGreatest(l, ls) == l \in ls /\ \A m \in ls : <<m, l>> \in Leq

ASSUME LatticeAssumption ==
  /\ {"LOW", "HIGH"} \subseteq Labels
  /\ \A l \in Labels : <<l, l>> \in Leq /\ <<"LOW", l>> \in Leq /\ <<l, "HIGH">> \in Leq
  /\ \A l, m \in Labels : <<l, m>> \in Leq /\ <<m, l>> \in Leq => l = m
  /\ \A l, m \in Labels : \E u \in Labels : IsLeast(u, Upper(l, m))
  /\ \A l, m \in Labels : \E u \in Labels : IsGreatest(u, Lower(l, m))
ASSUME FamilyAssumption == Family \in [{0, 1} -> Labels] /\ Written \subseteq Labels

VARIABLES objs, meaning, label, meant, calls, printing, labelSteps
labelVars == <<objs, meaning, label, meant, calls, printing, labelSteps>>

-----------------------------------------------------------------------------
(* References: what a SecType* points to. *)

Const(l) == <<"const", l>>
Index(x) == <<"index", x>>
Obj(k)   == <<"obj", k>>

Atoms   == {Const(l) : l \in Labels} \cup {Index(x) : x \in IndexVars \cup {0}}
Refs(n) == Atoms \cup {Obj(k) : k \in 1 .. n}
Parseable == {Const(l) : l \in Written} \cup {Index(x) : x \in IndexVars}
IsObj(r) == r[1] = "obj"

(* What they mean.  A substitution may put a number in the place of a      *)
(* variable.                                                               *)
HwStates == [IndexVars -> {0, 1}]
ValueOf(x, s) == IF x \in IndexVars THEN s[x] ELSE x
DenOfAtom(r) ==
  [s \in HwStates |-> IF r[1] = "const" THEN r[2] ELSE Family[ValueOf(r[2], s)]]

join == [l \in Labels |-> [m \in Labels |-> CHOOSE u \in Labels : IsLeast(u, Upper(l, m))]]
meet == [l \in Labels |-> [m \in Labels |-> CHOOSE u \in Labels : IsGreatest(u, Lower(l, m))]]
Combine(op, d, e) ==
  [s \in HwStates |-> IF op = "join" THEN join[d[s]][e[s]] ELSE meet[d[s]][e[s]]]

(* What the label r should mean. *)
Meaning(r) == IF IsObj(r) THEN meaning[r[2]] ELSE DenOfAtom(r)

-----------------------------------------------------------------------------
(* The virtual functions that only look: bottom and top are isBottom and   *)
(* isTop; has the constants in the label, for hasBottom and hasTop; exprs  *)
(* the x for which hasExpr holds; deps what collect_dep_expr collects, all *)
(* but numbers; text what equals compares; ops the operators.  A compound  *)
(* label asks its parts a and b.                                           *)

(* A compound label may have anything in it. *)
MayHave(a, b) == Labels
Has(a, b)     == a.has \cup b.has

(* A join is bottom only if both its parts are, a meet if either is. *)
BottomIfAny(op, a, b) == "LOW" \in a.has \cup b.has
IsBottom(op, a, b) == IF op = "join" THEN a.bottom /\ b.bottom ELSE a.bottom \/ b.bottom
IsTop(op, a, b)    == IF op = "join" THEN a.top \/ b.top ELSE a.top /\ b.top

FirstOnly(a, b)      == a.deps
CollectDepExpr(a, b) == a.deps \cup b.deps
HasExpr(a, b)        == a.exprs \cup b.exprs

OfAtom(r) ==
  [den    |-> DenOfAtom(r),
   has    |-> IF r[1] = "const" THEN {r[2]} ELSE {},
   bottom |-> r = Const("LOW"),
   top    |-> r = Const("HIGH"),
   exprs  |-> IF r[1] = "index" THEN {r[2]} ELSE {},
   deps   |-> IF r[1] = "index" THEN {r[2]} \cap IndexVars ELSE {},
   text   |-> r,
   ops    |-> {}]

OfCompound(op, a, b) ==
  [den    |-> Combine(op, a.den, b.den),
   has    |-> Has(a, b),
   bottom |-> IsBottom(op, a, b),
   top    |-> IsTop(op, a, b),
   exprs  |-> HasExpr(a, b),
   deps   |-> CollectDepExpr(a, b),
   text   |-> <<op, a.text, b.text>>,
   ops    |-> {op} \cup a.ops \cup b.ops]

AnswersIn(os) ==
  LET of[k \in 1 .. Len(os)] ==
        LET part(r) == IF IsObj(r) THEN of[r[2]] ELSE OfAtom(r)
        IN  OfCompound(os[k].op, part(os[k].comp1), part(os[k].comp2))
  IN  of
AnsIn(os, r) == IF IsObj(r) THEN AnswersIn(os)[r[2]] ELSE OfAtom(r)
Ans(r)       == AnsIn(objs, r)

-----------------------------------------------------------------------------
(* simplify.  A call is at "enter", and at "again" when it starts over; at *)
(* "first" and "second" it waits for that part, and it is "between" the    *)
(* two.  ops are the operators in the label when the call began.           *)

Frame(r) == [this |-> r, at |-> "enter", ops |-> Ans(r).ops]
Top      == calls[Len(calls)]
This     == objs[Top.this[2]]

(* What a part of a label may be left out for: LOW in a join, HIGH in a    *)
(* meet.                                                                   *)
Unit(op)      == IF op = "join" THEN "LOW" ELSE "HIGH"
IsUnit(op, r) == IF op = "join" THEN Ans(r).bottom ELSE Ans(r).top
HasUnit(op, r) == Unit(op) \in Ans(r).has

Put(os, k, at, r) ==
  IF at = "first" THEN [os EXCEPT ![k].comp1 = r] ELSE [os EXCEPT ![k].comp2 = r]

(* It ends: the caller puts the outcome r in the place of the part, or     *)
(* makes it the label, or prints it.                                       *)
Return(r) ==
  LET n == Len(calls)
      caller == calls[n - 1]
      k == caller.this[2]
  IN  /\ IF n = 1
         THEN calls' = <<>> /\ label' = (IF printing THEN label ELSE r) /\ UNCHANGED objs
         ELSE /\ calls' = [SubSeq(calls, 1, n - 1) EXCEPT
                             ![n - 1].at = IF caller.at = "first" THEN "between" ELSE "again"]
              /\ objs' = Put(objs, k, caller.at, r)
              /\ UNCHANGED label
      /\ UNCHANGED <<meaning, meant, printing, labelSteps>>

(* It calls, and waits at the place given, or goes on there. *)
Call(at, r) ==
  /\ calls' = Append([calls EXCEPT ![Len(calls)].at = at], Frame(r))
  /\ UNCHANGED <<objs, meaning, label, meant, printing, labelSteps>>
GoTo(at) ==
  /\ calls' = [calls EXCEPT ![Len(calls)].at = at]
  /\ UNCHANGED <<objs, meaning, label, meant, printing, labelSteps>>
(* return ...->simplify() *)
PassTo(r) ==
  /\ calls' = [calls EXCEPT ![Len(calls)] = Frame(r)]
  /\ UNCHANGED <<objs, meaning, label, meant, printing, labelSteps>>

Starting == calls # <<>> /\ Top.at \in {"enter", "again"}

SimplifyAtom == Starting /\ ~IsObj(Top.this) /\ Return(Top.this)

SimplifyObj ==
  /\ Starting /\ IsObj(Top.this)
  /\ LET op == This.op
         c1 == This.comp1
         c2 == This.comp2
     IN  IF Ans(Top.this).bottom     THEN Return(Const("LOW"))
         ELSE IF Ans(Top.this).top   THEN Return(Const("HIGH"))
         ELSE IF IsUnit(op, c1)      THEN PassTo(c2)
         ELSE IF IsUnit(op, c2)      THEN PassTo(c1)
         ELSE IF HasUnit(op, c1)     THEN Call("first", c1)
         ELSE IF HasUnit(op, c2)     THEN GoTo("between")
         ELSE IF Ans(c1).text = Ans(c2).text THEN Return(c1)
         ELSE Return(Top.this)

SimplifySecond ==
  /\ calls # <<>> /\ Top.at = "between"
  /\ IF HasUnit(This.op, This.comp2) THEN Call("second", This.comp2) ELSE GoTo("again")

Simplify == SimplifyAtom \/ SimplifyObj \/ SimplifySecond

-----------------------------------------------------------------------------
(* The parser and the checker. *)

LabelInit ==
  /\ objs = <<>> /\ meaning = <<>>
  /\ label \in Parseable /\ meant = DenOfAtom(label)
  /\ calls = <<>> /\ printing = FALSE /\ labelSteps = 0

Idle == calls = <<>> /\ labelSteps < MaxSteps /\ labelSteps' = labelSteps + 1

(* A new object, for the label at hand. *)
New(op, c1, c2) ==
  /\ objs' = Append(objs, [op |-> op, comp1 |-> c1, comp2 |-> c2])
  /\ label' = Obj(Len(objs) + 1)
  /\ meant' = Combine(op, Meaning(c1), Meaning(c2))
  /\ meaning' = Append(meaning, meant')

(* sec_label_comp: the operators group to the right. *)
Declare(t) ==
  /\ Idle
  /\ New("join", t, label) \/ New("meet", t, label)
  /\ UNCHANGED <<calls, printing>>

(* PEventStatement, and the label of a compound expression (PEBinary). *)
JoinWith(t) ==
  /\ Idle
  /\ New("join", label, t)
  /\ UNCHANGED <<calls, printing>>

(* PCondit and PCase: joined, and simplified. *)
Condition(t) ==
  /\ Idle
  /\ New("join", t, label)
  /\ calls' = <<[this |-> label', at |-> "enter",
                 ops |-> {"join"} \cup Ans(t).ops \cup Ans(label).ops]>>
  /\ printing' = FALSE

(* A constraint is written with its labels simplified, which overwrites    *)
(* their parts; the outcome is only printed.                               *)
Dump ==
  /\ calls = <<>>
  /\ calls' = <<Frame(label)>> /\ printing' = TRUE
  /\ UNCHANGED <<objs, meaning, label, meant, labelSteps>>

(* The label of a variable, or that of the program counter before the      *)
(* branch (oldpc).                                                         *)
TakeUp(k) ==
  /\ calls = <<>>
  /\ label' = Obj(k) /\ meant' = meaning[k]
  /\ UNCHANGED <<objs, meaning, calls, printing, labelSteps>>

(* subst, of another name or a number, in typecheck_assignment and         *)
(* PGModule: new objects for those e1 is in.  Object n + k is the new one  *)
(* for object k; the code makes one for every path to it, and none for     *)
(* objects without e1.                                                     *)
Renamed(r, e1, e2) ==
  IF e1 \notin Ans(r).exprs THEN r
  ELSE IF IsObj(r)          THEN Obj(Len(objs) + r[2])
  ELSE Index(e2)
RenamedMeaning(d, e1, e2) == [s \in HwStates |-> d[[s EXCEPT ![e1] = ValueOf(e2, s)]]]

Rename(e1, e2) ==
  LET copy(o) == [op |-> o.op, comp1 |-> Renamed(o.comp1, e1, e2), comp2 |-> Renamed(o.comp2, e1, e2)]
  IN  /\ Idle
      /\ objs' = objs \o [k \in 1 .. Len(objs) |-> copy(objs[k])]
      /\ meaning' = meaning \o [k \in 1 .. Len(objs) |-> RenamedMeaning(meaning[k], e1, e2)]
      /\ label' = Renamed(label, e1, e2)
      /\ meant' = RenamedMeaning(meant, e1, e2)
      /\ UNCHANGED <<calls, printing>>

LabelNext ==
  \/ Simplify
  \/ \E t \in Parseable \cup {Obj(k) : k \in 1 .. Len(objs)} :
        Declare(t) \/ JoinWith(t) \/ Condition(t)
  \/ Dump
  \/ \E k \in 1 .. Len(objs) : TakeUp(k)
  \/ \E e1 \in IndexVars : \E e2 \in (IndexVars \cup {0}) \ {e1} : Rename(e1, e2)

LabelSpec == LabelInit /\ [][LabelNext]_labelVars
FairLabels == LabelSpec /\ WF_labelVars(Simplify)

-----------------------------------------------------------------------------
(* Properties *)

(* Every label, shared or not, means what it was declared as and joined    *)
(* with at all times, also while its parts are overwritten; so does the    *)
(* label at hand, which is what is given to Z3, and the one that is being  *)
(* simplified.                                                             *)
MeaningKept ==
  /\ LET answers == AnswersIn(objs)
     IN  \A k \in 1 .. Len(objs) : answers[k].den = meaning[k]
  /\ Ans(label).den = meant
  /\ calls # <<>> => Ans(calls[1].this).den = meant

(* What the checker declares to Z3, and what it looks up to see whether a  *)
(* label depends on the assigned variable, is all the label depends on.    *)
DependsOnCollected ==
  \A k \in 1 .. Len(objs) : \A x \in IndexVars :
    (x \notin Ans(Obj(k)).deps \/ x \notin Ans(Obj(k)).exprs) =>
      \A s \in HwStates : \A n \in {0, 1} : meaning[k][s] = meaning[k][[s EXCEPT ![x] = n]]

(* A label without meets, or without joins, is simplified: the call ends.  *)
Mixed == {"join", "meet"}
EndsUnmixed == (calls # <<>> /\ calls[1].ops # Mixed) ~> calls = <<>>

(* Every label is. *)
Ends == calls # <<>> ~> calls = <<>>

(* Why it does: a call on such a label starts over once only, because no   *)
(* part has a unit in it any more.                                         *)
StartsOverOnce ==
  \A i \in 1 .. Len(calls) : (calls[i].at = "again" /\ calls[i].ops # Mixed) =>
    LET o == objs[calls[i].this[2]]
    IN  ~HasUnit(o.op, o.comp1) /\ ~HasUnit(o.op, o.comp2)
=============================================================================
