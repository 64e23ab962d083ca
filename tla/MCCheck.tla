------------------------------- MODULE MCCheck -------------------------------
(* A small instance of CheckStatements: u and w label themselves and h is  *)
(* HIGH; all are one bit wide.                                             *)
EXTENDS CheckStatements

CONSTANTS u, w, h

MCVars   == {u, w, h}
MCDep    == {u, w}
MCSize   == [x \in MCVars |-> 2]
MCRange  == [x \in MCVars |-> 0]
Unknown  == [x \in MCVars |-> -1]
MCLabels == {"LOW", "HIGH"}
MCLeq    == {<<"LOW", "LOW">>, <<"LOW", "HIGH">>, <<"HIGH", "HIGH">>}
MCLH     == [n \in {0, 1} |-> IF n = 0 THEN "LOW" ELSE "HIGH"]
MCGamma  ==
  [x \in MCVars |-> IF x = h THEN [kind |-> "const", label |-> "HIGH", x |-> NoVar]
                            ELSE [kind |-> "dep", label |-> "LOW", x |-> x]]
MCNumbers == {0, 1}

WholeTargets == {Whole(u)}
PartTargets  == {[name |-> NoVar, var |-> u]}
SomeExprs    == {Num(0), Id(w), Id(h)}
Literals     == {Num(0), Num(1)}
Is(x, n)     == [op |-> "e", l |-> Id(x), r |-> Num(n)]
SomeBranches == {Cond("one", Is(u, 0), Is(u, 0)), Cond("one", Is(h, 1), Is(h, 1)),
                 Cond("and", Is(w, 1), Is(h, 1)), Cond("or", Is(w, 1), Is(h, 1))}
LowBranch    == {Cond("one", Is(u, 0), Is(u, 0))}
HighBranch   == {Cond("one", Is(h, 1), Is(h, 1))}
SomeSelections ==
  {[cond |-> Cond("one", Is(h, 1), Is(h, 1)), tru |-> Num(0), fal |-> Id(w)]}

NoCase     == {}
HighCase   == {[expr |-> Id(h), items |-> {{0}, {}}]}
LowCase    == {[expr |-> Id(u), items |-> {{0}, {1}}]}
WideItem   == {[expr |-> Id(u), items |-> {{0, 1}}]}

(* A block has if statements over all branches and no case statement, or   *)
(* case statements and if statements over LowBranch.                       *)
VARIABLE hasCases
MCvars == <<vars, hasCases>>

MCInit == Init /\ hasCases \in BOOLEAN

MCNext ==
  /\ Next
  /\ UNCHANGED hasCases
  /\ \A i \in 1 .. Len(frames') :
       IF frames'[i].at \in {"if", "else"} THEN hasCases => frames'[i].cond \in LowBranch
                                          ELSE hasCases

MCSpec == MCInit /\ [][MCNext]_MCvars

(* A literal that does not fit into one bit. *)
WideNumbers == {0, 1, 2}
WideLiteral == {Num(2)}
=============================================================================
