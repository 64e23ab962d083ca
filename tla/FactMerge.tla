------------------------------ MODULE FactMerge ------------------------------
(***************************************************************************)
(* PCondit::merge (absinterp.cc): the facts after an if statement.         *)
(*                                                                         *)
(* The two sets of facts are std::sets of pointers, hence iterated in the  *)
(* order of the addresses, whatever the allocator made of them.  They are  *)
(* intersected by std::set_intersection with a comparator that compares    *)
(* texts; the loop of that function is spelled out here, because what it   *)
(* returns for inputs that are not ordered by its comparator is not        *)
(* specified.                                                              *)
(***************************************************************************)
EXTENDS Integers, Sequences, FiniteSets, SequencesExt

CONSTANTS
  Hypotheses,  \* the objects
  Text         \* Text[h]: the rank of its text, a number; objects may share one

ASSUME MergeAssumption ==
  /\ IsFiniteSet(Hypotheses)
  /\ Text \in [Hypotheses -> Int]

VARIABLES
  first, second,  \* the facts at the end of either branch, by address
  i, j,           \* the iterators
  ret             \* the objects returned
mergeVars == <<first, second, i, j, ret>>

-----------------------------------------------------------------------------
(* HypothesisComparator *)
LessOrEqual(h1, h2) == Text[h1] <= Text[h2]
Less(h1, h2) == Text[h1] < Text[h2]

Addresses == {a \in [Hypotheses -> 1 .. Cardinality(Hypotheses)] :
                \A h1, h2 \in Hypotheses : a[h1] = a[h2] => h1 = h2}

(* The sets, each as the sequence its iterator goes through. *)
ByAddress(a) ==
  UNION {{hs \in [1 .. n -> Hypotheses] :
            \A k, l \in 1 .. n : k < l => a[hs[k]] < a[hs[l]]} :
           n \in 0 .. Cardinality(Hypotheses)}

MergeInit ==
  /\ \E a \in Addresses : first \in ByAddress(a) /\ second \in ByAddress(a)
  /\ i = 1 /\ j = 1 /\ ret = {}

More == i <= Len(first) /\ j <= Len(second)

(* As std::set_union would. *)
SkipFirstKeeping ==
  /\ More /\ Less(first[i], second[j])
  /\ i' = i + 1
  /\ ret' = ret \cup {first[i]}
  /\ UNCHANGED <<first, second, j>>

SkipFirst ==
  /\ More /\ Less(first[i], second[j])
  /\ i' = i + 1
  /\ UNCHANGED <<first, second, j, ret>>

SkipSecond ==
  /\ More /\ ~Less(first[i], second[j]) /\ Less(second[j], first[i])
  /\ j' = j + 1
  /\ UNCHANGED <<first, second, i, ret>>

Take ==
  /\ More /\ ~Less(first[i], second[j]) /\ ~Less(second[j], first[i])
  /\ ret' = ret \cup {first[i]}
  /\ i' = i + 1 /\ j' = j + 1
  /\ UNCHANGED <<first, second>>

MergeNext == SkipFirst \/ SkipSecond \/ Take

MergeSpec == MergeInit /\ [][MergeNext]_mergeVars

-----------------------------------------------------------------------------
(* Properties *)

Texts(hs) == {Text[h] : h \in hs}
Common == Texts(ToSet(first)) \cap Texts(ToSet(second))

(* A fact is kept only if both branches end with it: what CheckFacts!Merges *)
(* allows.                                                                  *)
OnlyCommon == ret \subseteq ToSet(first) /\ Texts(ret) \subseteq Common

Ascending(s) == \A k, l \in 1 .. Len(s) : k < l => ~Less(s[l], s[k])

(* No common fact is lost if the branches did not change the facts,        *)
(* however they lie in memory, or if the addresses happen to be in the     *)
(* order of the texts.                                                     *)
OrderedMerge ==
  ~More /\ (first = second \/ (Ascending(first) /\ Ascending(second)))
    => Texts(ret) = Common

(* No common fact is lost. *)
IsIntersection == ~More => Texts(ret) = Common
=============================================================================
