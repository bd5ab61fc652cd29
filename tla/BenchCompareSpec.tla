-------------------------- MODULE BenchCompareSpec --------------------------
(***************************************************************************)
(* What `benchmark.py compare` without file arguments promises, in one     *)
(* step: with no result files it stops; otherwise it takes the newest      *)
(* result, and either finds no earlier result and only summarises, or      *)
(* compares it with the latest result strictly before it and classifies    *)
(* each common benchmark by how much faster or slower it became, measured  *)
(* against the significance threshold in force.  It exits with an error    *)
(* when a file it chose does not load, and only then.                      *)
(***************************************************************************)
EXTENDS Integers

CONSTANTS Files, NoStamp

VARIABLES
    stamp,        \* the timestamp of each file, or NoStamp
    loads,        \* the files whose results can be read
    thr,          \* the significance threshold in force, in percent
    lowerBetter,  \* a smaller time is an improvement
    oldTime, newTime,
    res,          \* "running", "nofiles", "loaderror", "summary" or "compared"
    newF, oldF,   \* the files compared
    category

vars == <<stamp, loads, thr, lowerBetter, oldTime, newTime, res, newF, oldF,
          category>>

Results == {f \in Files : stamp[f] # NoStamp}

(* The newest result, and the latest result strictly before a stamp.       *)
IsNewest(f) == f \in Results /\ \A g \in Results : stamp[g] <= stamp[f]
Before(s) == {f \in Results : stamp[f] < s}
IsLatestOf(f, S) == f \in S /\ \A g \in S : stamp[g] <= stamp[f]

(* Faster or slower by at least thr percent.                               *)
Classify(o, n, t, lb) ==
    LET faster == n < o /\ n * 100 <= o * (100 - t)
        slower == n > o /\ n * 100 >= o * (100 + t)
    IN IF faster THEN (IF lb THEN "improvement" ELSE "regression")
       ELSE IF slower THEN (IF lb THEN "regression" ELSE "improvement")
       ELSE "unchanged"

Init ==
    /\ stamp \in [Files -> Int \cup {NoStamp}]
    /\ loads \in SUBSET Files
    /\ thr \in Nat \ {0}
    /\ lowerBetter \in BOOLEAN
    /\ oldTime \in Nat /\ newTime \in Nat
    /\ res = "running"
    /\ newF = NoStamp /\ oldF = NoStamp
    /\ category = "none"

NoFiles ==
    /\ res = "running" /\ Results = {}
    /\ res' = "nofiles"
    /\ UNCHANGED <<stamp, loads, thr, lowerBetter, oldTime, newTime, newF,
                   oldF, category>>

(* The newest result, or the one it is compared with, does not load.       *)
LoadError ==
    /\ res = "running"
    /\ \E n \in Results :
         /\ IsNewest(n)
         /\ \/ n \notin loads
            \/ \E o \in Results : IsLatestOf(o, Before(stamp[n])) /\ o \notin loads
    /\ res' = "loaderror"
    /\ UNCHANGED <<stamp, loads, thr, lowerBetter, oldTime, newTime, newF,
                   oldF, category>>

SummaryOnly ==
    /\ res = "running"
    /\ \E n \in Results :
         /\ IsNewest(n) /\ Before(stamp[n]) = {} /\ n \in loads
         /\ newF' = n
    /\ res' = "summary"
    /\ UNCHANGED <<stamp, loads, thr, lowerBetter, oldTime, newTime, oldF,
                   category>>

Compared ==
    /\ res = "running"
    /\ \E n, o \in Results :
         /\ IsNewest(n) /\ IsLatestOf(o, Before(stamp[n]))
         /\ n \in loads /\ o \in loads
         /\ newF' = n /\ oldF' = o
    /\ category' = Classify(oldTime, newTime, thr, lowerBetter)
    /\ res' = "compared"
    /\ UNCHANGED <<stamp, loads, thr, lowerBetter, oldTime, newTime>>

Next == NoFiles \/ LoadError \/ SummaryOnly \/ Compared

Spec == Init /\ [][Next]_vars /\ WF_vars(Next)

=============================================================================
