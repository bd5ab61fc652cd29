---------------------------- MODULE ProvisionSpec ----------------------------
(***************************************************************************)
(* What repeated runs of the provisioning orchestrator promise about the   *)
(* secondary package manager and its registration: the tool goes          *)
(* ABSENT -> CLONED -> BOOTSTRAPPED within runs; a run ends in success     *)
(* only with the tool bootstrapped, and otherwise in failure or by being   *)
(* killed; the tool's root variable is exported by at most one profile,    *)
(* written only when none exports it, and only once the tool is built.   *)
(* Between runs the user may delete the tool's directory.                  *)
(***************************************************************************)
CONSTANTS
    Configs,   \* the candidate profile files
    Writable   \* those that can be written

VARIABLES
    tool,      \* "ABSENT", "CLONED" or "BOOTSTRAPPED"
    phase,     \* "running" or "idle" (between runs)
    outcome,   \* "none", "success", "failure" or "killed"
    exports    \* the profiles that export the tool's root variable

vars == <<tool, phase, outcome, exports>>

Init ==
    /\ tool = "ABSENT"
    /\ phase = "running"
    /\ outcome = "none"
    /\ exports = {}

Clone ==
    /\ phase = "running" /\ tool = "ABSENT"
    /\ tool' = "CLONED"
    /\ UNCHANGED <<phase, outcome, exports>>

Bootstrap ==
    /\ phase = "running" /\ tool = "CLONED"
    /\ tool' = "BOOTSTRAPPED"
    /\ UNCHANGED <<phase, outcome, exports>>

(* An idempotent add: only when no profile exports it, into one profile.  *)
Register ==
    /\ phase = "running" /\ tool = "BOOTSTRAPPED"
    /\ exports = {}
    /\ \E p \in Writable : exports' = {p}
    /\ UNCHANGED <<tool, phase, outcome>>

Succeed ==
    /\ phase = "running" /\ tool = "BOOTSTRAPPED"
    /\ phase' = "idle" /\ outcome' = "success"
    /\ UNCHANGED <<tool, exports>>

(* Any stage's error is caught at the boundary and ends the run.           *)
FailRun ==
    /\ phase = "running"
    /\ phase' = "idle" /\ outcome' = "failure"
    /\ UNCHANGED <<tool, exports>>

(* A kill during the clone may leave the directory behind.                 *)
Kill ==
    /\ phase = "running"
    /\ phase' = "idle" /\ outcome' = "killed"
    /\ tool' \in IF tool = "ABSENT" THEN {"ABSENT", "CLONED"} ELSE {tool}
    /\ UNCHANGED exports

(* A new run, perhaps after the user deleted the tool's directory.         *)
Start ==
    /\ phase = "idle"
    /\ phase' = "running" /\ outcome' = "none"
    /\ tool' \in {tool, "ABSENT"}
    /\ UNCHANGED exports

Next == Clone \/ Bootstrap \/ Register \/ Succeed \/ FailRun \/ Kill \/ Start

(* Every run ends.                                                         *)
Spec == Init /\ [][Next]_vars /\ WF_vars(Succeed \/ FailRun \/ Kill)

=============================================================================
