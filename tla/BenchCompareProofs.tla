------------------------- MODULE BenchCompareProofs -------------------------
(***************************************************************************)
(* Proofs about BenchCompare for all times and thresholds.                 *)
(***************************************************************************)
EXTENDS BenchCompare, TLAPS

USE ConstAssumption

(* from_args never leaves the threshold at 0: an unset or zero --threshold *)
(* keeps the default.                                                      *)
LEMMA ThresholdPositive ==
    ASSUME NEW arg \in ThreshArgs
    PROVE  Threshold(arg) \in Nat \ {0}
BY DEF Threshold

(* The categorisation of compare_benchmarks, computed through the         *)
(* percentage change, is the reference categorisation for every pair of  *)
(* times and every positive threshold.                                     *)
LEMMA CategoryIsRef ==
    ASSUME NEW o \in Nat, NEW n \in Nat, NEW t \in Nat \ {0}, NEW lb \in BOOLEAN
    PROVE  Category(o, n, t, lb) = RefCategory(o, n, t, lb)
<1>1. CASE o = 0 /\ n = 0
  <2>a. ~(n > 0)
    BY <1>1
  <2>0. ~Change(o, n).inf /\ Change(o, n).num = 0 /\ Change(o, n).den = 1
    BY <1>1, <2>a, Zenon DEF Change
  <2>1. AbsBelow(Change(o, n), t)
    BY <2>0 DEF AbsBelow, AbsVal
  <2>2. Category(o, n, t, lb) = "unchanged"
    BY <2>1 DEF Category
  <2>3. RefCategory(o, n, t, lb) = "unchanged"
    BY <1>1 DEF RefCategory
  <2>4. QED
    BY <2>2, <2>3
<1>2. CASE o = 0 /\ n > 0
  <2>1. ~AbsBelow(Change(o, n), t) /\ ~Negative(Change(o, n))
        /\ Positive(Change(o, n))
    BY <1>2 DEF Change, AbsBelow, Negative, Positive
  <2>2. Category(o, n, t, lb) = IF lb THEN "regression" ELSE "improvement"
    BY <2>1 DEF Category, IsImprovement
  <2>3. RefCategory(o, n, t, lb) = IF lb THEN "regression" ELSE "improvement"
    BY <1>2 DEF RefCategory
  <2>4. QED
    BY <2>2, <2>3
<1>3. CASE o > 0 /\ n < o /\ n * 100 <= o * (100 - t)
  <2>1. ~AbsBelow(Change(o, n), t) /\ Negative(Change(o, n))
        /\ ~Positive(Change(o, n))
    BY <1>3 DEF Change, AbsBelow, AbsVal, Negative, Positive
  <2>2. Category(o, n, t, lb) = IF lb THEN "improvement" ELSE "regression"
    BY <2>1 DEF Category, IsImprovement
  <2>3. RefCategory(o, n, t, lb) = IF lb THEN "improvement" ELSE "regression"
    BY <1>3 DEF RefCategory
  <2>4. QED
    BY <2>2, <2>3
<1>4. CASE o > 0 /\ n > o /\ n * 100 >= o * (100 + t)
  <2>1. ~AbsBelow(Change(o, n), t) /\ ~Negative(Change(o, n))
        /\ Positive(Change(o, n))
    BY <1>4 DEF Change, AbsBelow, AbsVal, Negative, Positive
  <2>2. Category(o, n, t, lb) = IF lb THEN "regression" ELSE "improvement"
    BY <2>1 DEF Category, IsImprovement
  <2>3. RefCategory(o, n, t, lb) = IF lb THEN "regression" ELSE "improvement"
    BY <1>4 DEF RefCategory
  <2>4. QED
    BY <2>2, <2>3
<1>5. CASE o > 0 /\ ~(n < o /\ n * 100 <= o * (100 - t))
               /\ ~(n > o /\ n * 100 >= o * (100 + t))
  <2>1. AbsBelow(Change(o, n), t)
    BY <1>5 DEF Change, AbsBelow, AbsVal
  <2>2. Category(o, n, t, lb) = "unchanged"
    BY <2>1 DEF Category
  <2>3. RefCategory(o, n, t, lb) = "unchanged"
    BY <1>5 DEF RefCategory
  <2>4. QED
    BY <2>2, <2>3
<1>6. QED
  BY <1>1, <1>2, <1>3, <1>4, <1>5

(* The invariant behind CategoryMatchesRef: the inputs keep their types    *)
(* and a finished comparison holds what Category computed.                 *)
CatInv ==
    /\ oldTime \in Nat /\ newTime \in Nat
    /\ thrArg \in ThreshArgs /\ lowerBetter \in BOOLEAN
    /\ st = "done" =>
         category = Category(oldTime, newTime, Threshold(thrArg), lowerBetter)

(* compare_benchmarks counts every benchmark present in both files as the *)
(* reference categorisation says, whatever the times and the threshold.    *)
THEOREM CategoryCorrect == Spec => []CategoryMatchesRef
<1>1. Init => CatInv
  BY DEF Init, CatInv, Times
<1>2. CatInv /\ [Next]_vars => CatInv'
  <2> SUFFICES ASSUME CatInv, [Next]_vars PROVE CatInv'
    OBVIOUS
  <2>1. CASE Compare
    BY <2>1 DEF Compare, CatInv
  <2>2. CASE PickNew \/ PickOld
    BY <2>2 DEF PickNew, PickOld, CatInv
  <2>3. CASE Finished \/ UNCHANGED vars
    BY <2>3 DEF Finished, vars, CatInv
  <2>4. QED
    BY <2>1, <2>2, <2>3 DEF Next
<1>3. CatInv => CategoryMatchesRef
  BY ThresholdPositive, CategoryIsRef DEF CatInv, CategoryMatchesRef
<1>4. QED
  BY <1>1, <1>2, <1>3, PTL DEF Spec


(* What the command has established when it reaches each stage: the types, *)
(* the newest file once chosen, and that it loaded before the command     *)
(* went on; the latest earlier file once chosen, and that it loaded before *)
(* the comparison; and the category once computed.                         *)
RefInv ==
    /\ stamp \in [Files -> Stamps \cup {NoStamp}]
    /\ oldTime \in Nat /\ newTime \in Nat
    /\ thrArg \in ThreshArgs /\ lowerBetter \in BOOLEAN
    /\ st \in {"pick_new", "pick_old", "compare", "exit1", "loadfail",
               "summary", "done"}
    /\ st \in {"pick_old", "compare", "summary", "done"} =>
         newF \in Latest(Stamped) \cap loads
    /\ st \in {"compare", "done"} => oldF \in loads
    /\ st = "summary" =>
         {f \in Stamped \ {newF} : stamp[f] < stamp[newF]} = {}
    /\ st \in {"compare", "done"} =>
         oldF \in Latest({f \in Stamped \ {newF} : stamp[f] < stamp[newF]})
    /\ st = "done" =>
         category = Category(oldTime, newTime, Threshold(thrArg), lowerBetter)
    /\ st # "done" => category = "none"

(* Category and the abstract specification's Classify agree.               *)
LEMMA CategoryIsClassify ==
    ASSUME NEW o \in Nat, NEW n \in Nat, NEW t \in Nat \ {0}, NEW lb \in BOOLEAN
    PROVE  Category(o, n, t, lb) = Abs!Classify(o, n, t, lb)
<1>1. RefCategory(o, n, t, lb) = Abs!Classify(o, n, t, lb)
  BY DEF RefCategory, Abs!Classify
<1>2. QED
  BY <1>1, CategoryIsRef

LEMMA RefInvInit == Init => RefInv
BY DEF Init, RefInv, Times

LEMMA RefInvStep == RefInv /\ [Next]_vars => RefInv'
<1> SUFFICES ASSUME RefInv, [Next]_vars PROVE RefInv'
  OBVIOUS
<1>1. CASE PickNew
  BY <1>1 DEF PickNew, RefInv, Latest, Stamped
<1>2. CASE PickOld
  BY <1>2 DEF PickOld, Previous, RefInv, Latest, Stamped
<1>3. CASE Compare
  BY <1>3 DEF Compare, RefInv, Latest, Stamped
<1>4. CASE Finished \/ UNCHANGED vars
  BY <1>4 DEF Finished, vars, RefInv, Latest, Stamped
<1>5. QED
  BY <1>1, <1>2, <1>3, <1>4 DEF Next

(* Every step of the detailed command is a step of the abstract command   *)
(* under the refinement mapping, or leaves the mapped state unchanged.     *)
LEMMA StepRefines == RefInv /\ [Next]_vars => [Abs!Next]_Abs!vars
<1> SUFFICES ASSUME RefInv, [Next]_vars PROVE [Abs!Next]_Abs!vars
  OBVIOUS
<1>1. CASE PickNew /\ Stamped = {}
  <2>1. Abs!NoFiles
    BY <1>1 DEF PickNew, RefInv, Abs!NoFiles, Abs!Results, Stamped, Outcome
  <2>2. QED
    BY <2>1 DEF Abs!Next
<1>2. CASE PickNew /\ Stamped # {} /\ newF' \in loads
  BY <1>2 DEF PickNew, RefInv, Abs!vars, Outcome
<1>a. CASE PickNew /\ Stamped # {} /\ newF' \notin loads
  <2>1. newF' \in Latest(Stamped) /\ st' = "loadfail"
    BY <1>a DEF PickNew
  <2>2. Abs!IsNewest(newF')
    BY <1>a, <2>1 DEF PickNew, Latest, Stamped, Abs!IsNewest, Abs!Results
  <2>3. Abs!LoadError
    BY <1>a, <2>1, <2>2 DEF PickNew, RefInv, Abs!LoadError, Outcome, Latest,
                            Stamped, Abs!Results
  <2>4. QED
    BY <2>3 DEF Abs!Next
<1>3. CASE PickOld /\ Previous(newF) = {}
  <2>1. Abs!SummaryOnly
    <3>1. newF \in Latest(Stamped) /\ newF \in loads /\ st = "pick_old"
      BY <1>3 DEF PickOld, Previous, RefInv
    <3>a. stamp[newF] \in Nat
      BY <3>1 DEF RefInv, Latest, Stamped
    <3>b. Abs!IsNewest(newF)
      BY <3>1 DEF Latest, Stamped, Abs!IsNewest, Abs!Results
    <3>c. Abs!Before(stamp[newF]) = {}
      BY <1>3, <3>a DEF Stamped, Previous, Abs!Before, Abs!Results
    <3>2. Abs!IsNewest(newF) /\ Abs!Before(stamp[newF]) = {}
      BY <3>b, <3>c
    <3>3. QED
      BY <1>3, <3>1, <3>2 DEF PickOld, Previous, Abs!SummaryOnly, Outcome,
                              Latest, Stamped, Abs!Results
  <2>2. QED
    BY <2>1 DEF Abs!Next
<1>4. CASE PickOld /\ Previous(newF) # {} /\ oldF' \in loads
  BY <1>4 DEF PickOld, Previous, RefInv, Abs!vars, Outcome
<1>b. CASE PickOld /\ Previous(newF) # {} /\ oldF' \notin loads
  <2>1. /\ newF \in Latest(Stamped) /\ st = "pick_old"
        /\ oldF' \in Latest(Previous(newF)) /\ st' = "loadfail"
    BY <1>b DEF PickOld, Previous, RefInv
  <2>a. stamp[newF] \in Nat
    BY <2>1 DEF RefInv, Latest, Stamped
  <2>b. Abs!Before(stamp[newF]) = Previous(newF)
    BY <2>a DEF Stamped, Previous, Abs!Before, Abs!Results
  <2>2. /\ Abs!IsNewest(newF)
        /\ Abs!IsLatestOf(oldF', Abs!Before(stamp[newF]))
        /\ oldF' \in Abs!Results
    BY <2>1, <2>b DEF Latest, Stamped, Previous, Abs!IsNewest,
                      Abs!IsLatestOf, Abs!Results
  <2>3. Abs!LoadError
    BY <1>b, <2>1, <2>2 DEF PickOld, Previous, RefInv, Abs!LoadError,
                            Outcome, Latest, Stamped, Abs!Results
  <2>4. QED
    BY <2>3 DEF Abs!Next
<1>5. CASE Compare
  <2>1. Abs!Compared
    <3>1. /\ newF \in Latest(Stamped)
          /\ oldF \in Latest({f \in Stamped \ {newF} : stamp[f] < stamp[newF]})
          /\ newF \in loads /\ oldF \in loads
      BY <1>5 DEF Compare, RefInv
    <3>a. stamp[newF] \in Nat
      BY <3>1 DEF RefInv, Latest, Stamped
    <3>b. Abs!Before(stamp[newF])
            = {f \in Stamped \ {newF} : stamp[f] < stamp[newF]}
      BY <3>a DEF Stamped, Abs!Before, Abs!Results
    <3>2. Abs!IsNewest(newF) /\ Abs!IsLatestOf(oldF, Abs!Before(stamp[newF]))
      BY <3>1, <3>b DEF Latest, Stamped, Abs!IsNewest, Abs!IsLatestOf,
                        Abs!Results
    <3>3. category' = Abs!Classify(oldTime, newTime, Threshold(thrArg),
                                   lowerBetter)
      BY <1>5, ThresholdPositive, CategoryIsClassify DEF Compare, RefInv
    <3>4. QED
      BY <1>5, <3>1, <3>2, <3>3 DEF Compare, Abs!Compared, Outcome, Latest,
                                    Stamped, Abs!Results
  <2>2. QED
    BY <2>1 DEF Abs!Next
<1>6. CASE Finished \/ UNCHANGED vars
  BY <1>6 DEF Finished, vars, Abs!vars, Outcome
<1>7. QED
  BY <1>1, <1>2, <1>a, <1>3, <1>4, <1>b, <1>5, <1>6 DEF Next

(* The safety part of ImplementsCompareSpec: the command's behaviours are        *)
(* behaviours of the abstract command under the refinement mapping.        *)
THEOREM RefinesSafety == Spec => Abs!Init /\ [][Abs!Next]_Abs!vars
<1>1. Init => Abs!Init
  BY ThresholdPositive DEF Init, Abs!Init, Outcome, Times
<1>2. QED
  BY <1>1, RefInvInit, RefInvStep, StepRefines, PTL DEF Spec


(* The automatic choice of files: whenever the command compares, the new  *)
(* file is the newest result and the old one the latest result strictly   *)
(* before it (find_most_recent_result, find_most_recent_previous_result).  *)
THEOREM ChoiceCorrect == Spec => []ComparesOlderWithNewer
<1>1. RefInv => ComparesOlderWithNewer
  <2> SUFFICES ASSUME RefInv, st \in {"compare", "done"}
               PROVE  ComparesOlderWithNewer
    BY DEF ComparesOlderWithNewer
  <2> DEFINE S == {f \in Stamped \ {newF} : stamp[f] < stamp[newF]}
  <2>1. newF \in Latest(Stamped) /\ oldF \in Latest(S)
    BY DEF RefInv
  <2>2. \A f \in Stamped : stamp[f] \in Nat
    BY DEF RefInv, Stamped
  <2>3. \A f \in Stamped : stamp[f] <= stamp[newF]
    BY <2>1 DEF Latest
  <2>4. stamp[oldF] < stamp[newF]
    BY <2>1 DEF Latest
  <2>5. ~\E f \in Stamped : stamp[oldF] < stamp[f] /\ stamp[f] < stamp[newF]
    <3> SUFFICES ASSUME NEW f \in Stamped, stamp[oldF] < stamp[f],
                        stamp[f] < stamp[newF]
                 PROVE  FALSE
      OBVIOUS
    <3>1. f \in S
      BY <2>2 DEF Latest
    <3>2. stamp[f] <= stamp[oldF]
      BY <2>1, <3>1 DEF Latest
    <3>3. QED
      BY <2>1, <2>2, <3>2 DEF Latest
  <2>6. QED
    BY <2>3, <2>4, <2>5 DEF ComparesOlderWithNewer
<1>2. QED
  BY <1>1, RefInvInit, RefInvStep, PTL DEF Spec

=============================================================================
