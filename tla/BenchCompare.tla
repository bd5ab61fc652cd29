---------------------------- MODULE BenchCompare ----------------------------
(***************************************************************************)
(* `benchmark.py compare` without file arguments: the choice of the newest *)
(* result file and of the latest one before it, and the classification and *)
(* the label compare_benchmarks gives a benchmark present in both files.   *)
(* Times are whole numbers of the time unit and the threshold a whole      *)
(* percentage, so the float arithmetic of the code is computed exactly.    *)
(***************************************************************************)
EXTENDS Integers

CONSTANTS
    Files,       \* the *.json files of the results directory
    Stamps,      \* the timestamps their names can carry
    NoStamp,     \* a name the file pattern does not match
    MaxTime,     \* times range over 0..MaxTime
    ThreshArgs,  \* the values --threshold may be given
    NoArg        \* --threshold not given

ASSUME ConstAssumption ==
    /\ Stamps \subseteq Nat
    /\ NoStamp \notin Stamps
    /\ MaxTime \in Nat
    /\ NoArg \notin Nat
    /\ ThreshArgs \subseteq Nat \cup {NoArg}

VARIABLES
    stamp,        \* the timestamp in each file's name
    loads,        \* the files load_benchmark_results reads to a non-empty value
    newF, oldF,   \* the files compared
    thrArg,       \* args.threshold
    lowerBetter,  \* config.improvement_means_lower (not --higher-is-better)
    oldTime, newTime, \* real_time of the benchmark in the two files
    st,           \* where cmd_compare is
    category,     \* improvements, regressions or no_changes
    label         \* what format_percentage_change prints

vars == <<stamp, loads, newF, oldF, thrArg, lowerBetter, oldTime, newTime, st,
          category, label>>

Times == 0..MaxTime
AbsVal(x) == IF x < 0 THEN -x ELSE x

(* ComparisonConfig.from_args: the threshold is taken only when truthy.    *)
Threshold(arg) == IF arg # NoArg /\ arg # 0 THEN arg ELSE 1

(* The files the pattern matches, and the latest of a set of them.         *)
Stamped == {f \in Files : stamp[f] # NoStamp}
Latest(S) == {f \in S : \A g \in S : stamp[g] <= stamp[f]}

(* calculate_change_percentage, exactly: (new - old) / old * 100 as        *)
(* numerator and denominator, or infinity when old is 0 and new is not.    *)
Change(o, n) ==
    IF o = 0 THEN [inf |-> n > 0, num |-> 0, den |-> 1]
    ELSE [inf |-> FALSE, num |-> (n - o) * 100, den |-> o]
Negative(c) == ~c.inf /\ c.num < 0
Positive(c) == c.inf \/ c.num > 0
AbsBelow(c, t) == ~c.inf /\ AbsVal(c.num) < t * c.den
IsImprovement(c, lb) == IF lb THEN Negative(c) ELSE Positive(c)

(* Mutant of Category: a change exactly at the threshold is not counted.   *)
CategoryAtThreshold(o, n, t, lb) ==
    LET c == Change(o, n) IN
    IF ~c.inf /\ AbsVal(c.num) <= t * c.den THEN "unchanged"
    ELSE IF IsImprovement(c, lb) THEN "improvement"
    ELSE "regression"

(* The categorisation loop of compare_benchmarks.                          *)
Category(o, n, t, lb) ==
    LET c == Change(o, n) IN
    IF AbsBelow(c, t) THEN "unchanged"
    ELSE IF IsImprovement(c, lb) THEN "improvement"
    ELSE "regression"

(* format_percentage_change: below 0.1% "no change"; otherwise green for  *)
(* an improvement, red else; "new benchmark" when the change is infinite. *)
Label(o, n, lb) ==
    LET c == Change(o, n) IN
    IF ~c.inf /\ AbsVal(c.num) * 10 < c.den THEN [kind |-> "nochange", color |-> "white"]
    ELSE [kind  |-> CASE c.inf -> "new" [] Negative(c) -> "down" [] OTHER -> "up",
          color |-> IF IsImprovement(c, lb) THEN "green" ELSE "red"]

Init ==
    /\ stamp \in [Files -> Stamps \cup {NoStamp}]
    /\ loads \in SUBSET Files
    /\ newF = NoStamp /\ oldF = NoStamp
    /\ thrArg \in ThreshArgs
    /\ lowerBetter \in BOOLEAN
    /\ oldTime \in Times /\ newTime \in Times
    /\ st = "pick_new"
    /\ category = "none" /\ label = [kind |-> "none", color |-> "none"]

(* cmd_compare: find_most_recent_result, the newest matching file, or     *)
(* exit(1); then load_benchmark_results, whose None (unreadable or invalid *)
(* JSON) or empty result also ends in exit(1).                             *)
PickNew ==
    /\ st = "pick_new"
    /\ IF Stamped = {} THEN st' = "exit1" /\ UNCHANGED newF
       ELSE \E n \in Latest(Stamped) :
              /\ newF' = n
              /\ st' = IF n \in loads THEN "pick_old" ELSE "loadfail"
    /\ UNCHANGED <<stamp, loads, oldF, thrArg, lowerBetter, oldTime, newTime,
                   category, label>>

(* Mutant of Previous: a file as old as the new one counts as previous.   *)
PreviousSameStamp(n) == {f \in Stamped \ {n} : stamp[f] <= stamp[n]}

(* find_most_recent_previous_result: the other matching files with a       *)
(* strictly earlier timestamp (the latest of them is taken).               *)
Previous(n) == {f \in Stamped \ {n} : stamp[f] < stamp[n]}

(* Mutant of PickOld: the old file's load is not checked.                  *)
PickOldUnchecked ==
    /\ st = "pick_old"
    /\ IF Previous(newF) = {} THEN st' = "summary" /\ UNCHANGED oldF
       ELSE st' = "compare" /\ oldF' \in Latest(Previous(newF))
    /\ UNCHANGED <<stamp, loads, newF, thrArg, lowerBetter, oldTime, newTime,
                   category, label>>

(* cmd_compare after the new file has loaded: without an earlier result   *)
(* it only lists the new results; otherwise it loads the latest earlier    *)
(* one and exits 1 when that fails.                                        *)
PickOld ==
    /\ st = "pick_old"
    /\ IF Previous(newF) = {} THEN st' = "summary" /\ UNCHANGED oldF
       ELSE \E o \in Latest(Previous(newF)) :
              /\ oldF' = o
              /\ st' = IF o \in loads THEN "compare" ELSE "loadfail"
    /\ UNCHANGED <<stamp, loads, newF, thrArg, lowerBetter, oldTime, newTime,
                   category, label>>

(* compare_benchmarks for one benchmark present in both files.             *)
Compare ==
    /\ st = "compare"
    /\ category' = Category(oldTime, newTime, Threshold(thrArg), lowerBetter)
    /\ label' = Label(oldTime, newTime, lowerBetter)
    /\ st' = "done"
    /\ UNCHANGED <<stamp, loads, newF, oldF, thrArg, lowerBetter, oldTime,
                   newTime>>

(* The command has returned.                                               *)
Finished == st \in {"exit1", "loadfail", "summary", "done"} /\ UNCHANGED vars

Next == PickNew \/ PickOld \/ Compare \/ Finished

Spec == Init /\ [][Next]_vars /\ WF_vars(Next)

-----------------------------------------------------------------------------
(* The automatic choice compares the newest result with the latest result  *)
(* strictly before it (find_most_recent_result and                         *)
(* find_most_recent_previous_result): never a result with one of the same  *)
(* run or a later one, and never skipping a result in between.             *)
ComparesOlderWithNewer ==
    st \in {"compare", "done"} =>
        /\ \A f \in Stamped : stamp[f] <= stamp[newF]
        /\ stamp[oldF] < stamp[newF]
        /\ ~\E f \in Stamped : stamp[oldF] < stamp[f] /\ stamp[f] < stamp[newF]

(* The reference for the categorisation: faster by at least the threshold *)
(* is an improvement (slower, with --higher-is-better), slower by at least *)
(* the threshold a regression, anything else unchanged.                    *)
RefCategory(o, n, t, lb) ==
    LET faster == n < o /\ n * 100 <= o * (100 - t)
        slower == n > o /\ n * 100 >= o * (100 + t)
    IN IF faster THEN (IF lb THEN "improvement" ELSE "regression")
       ELSE IF slower THEN (IF lb THEN "regression" ELSE "improvement")
       ELSE "unchanged"

(* compare_benchmarks counts a benchmark as the reference says.            *)
CategoryMatchesRef ==
    st = "done" =>
        category = RefCategory(oldTime, newTime, Threshold(thrArg), lowerBetter)

(* The printed label of a benchmark present in both files agrees with how *)
(* it is counted: never "new benchmark", green for an improvement and red *)
(* for a regression.                                                       *)
LabelAgreesWithCategory ==
    st = "done" =>
        /\ label.kind # "new"
        /\ category = "improvement" => label.color = "green"
        /\ category = "regression" => label.color = "red"


(* The refinement mapping onto BenchCompareSpec: the command counts as     *)
(* running until it stops, summarises or has compared, and the files it    *)
(* chose become visible with that outcome.                                 *)
Outcome ==
    CASE st \in {"pick_new", "pick_old", "compare"} -> "running"
      [] st = "exit1"   -> "nofiles"
      [] st = "loadfail" -> "loaderror"
      [] st = "summary" -> "summary"
      [] st = "done"    -> "compared"

Abs == INSTANCE BenchCompareSpec
         WITH loads <- loads,
              thr  <- Threshold(thrArg),
              res  <- Outcome,
              newF <- IF st \in {"summary", "done"} THEN newF ELSE NoStamp,
              oldF <- IF st = "done" THEN oldF ELSE NoStamp

(* cmd_compare, find_most_recent_result, find_most_recent_previous_result *)
(* and compare_benchmarks together implement the abstract command: every   *)
(* step is a step of it or leaves its state alone, and it finishes.        *)
ImplementsCompareSpec == Abs!Spec

=============================================================================
