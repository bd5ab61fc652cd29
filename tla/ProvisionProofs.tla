--------------------------- MODULE ProvisionProofs ---------------------------
(***************************************************************************)
(* Proofs about Provision for every set of profiles, every package manager *)
(* and every number of runs and crashes.                                   *)
(***************************************************************************)
EXTENDS Provision, TLAPS

USE ConstAssumption

(* The profile _add_unix_env_var and _add_unix_path write to is one of the *)
(* candidates it was looking for.                                          *)
LEMMA FirstIn ==
    ASSUME NEW S \in SUBSET Configs, S # {}
    PROVE  First(S) \in S
BY DEF First

(* A fresh process's view of VCPKG_ROOT and PATH has its type.            *)
LEMMA StartEnvType ==
    ASSUME NEW vi, NEW pi
    PROVE  StartVar(vi) \in BOOLEAN /\ StartPath(pi) \in Nat
BY DEF StartVar, StartPath

(* Every step keeps every variable in its type.                           *)
LEMMA TypeStep == TypeOK /\ [Next]_vars => TypeOK'
<1> SUFFICES ASSUME TypeOK, [Next]_vars PROVE TypeOK'
  OBVIOUS
<1>1. CASE Construct
  BY <1>1 DEF Construct, TypeOK, PC, Result
<1>2. CASE BasicTools
  BY <1>2 DEF BasicTools, ToolsMissing, Fail, TypeOK, PC, Result
<1>3. CASE VCheck
  BY <1>3 DEF VCheck, TypeOK, PC
<1>4. CASE Clone
  BY <1>4 DEF Clone, Fail, TypeOK, PC, Result, VDir
<1>5. CASE Boot
  BY <1>5 DEF Boot, Fail, TypeOK, PC, Result, VDir
<1>6. CASE RegVar
  <2>1. varIn' \subseteq Configs
    <3>1. CASE varIn = {} /\ ~envVar /\ Writable \ varIn # {}
      BY <1>6, <3>1, FirstIn DEF RegVar, VarExists, TypeOK
    <3>2. CASE ~(varIn = {} /\ ~envVar /\ Writable \ varIn # {})
      BY <1>6, <3>2 DEF RegVar, VarExists, TypeOK
    <3>3. QED
      BY <3>1, <3>2
  <2>2. QED
    BY <1>6, <2>1 DEF RegVar, VarExists, TypeOK, PC
<1>7. CASE RegPath
  <2>1. pathIn' \subseteq Configs
    <3>1. CASE envPath = 0 /\ Writable \ pathIn # {}
      BY <1>7, <3>1, FirstIn DEF RegPath, PathListed, TypeOK
    <3>2. CASE ~(envPath = 0 /\ Writable \ pathIn # {})
      BY <1>7, <3>2 DEF RegPath, PathListed, TypeOK
    <3>3. QED
      BY <3>1, <3>2
  <2>2. envPath' \in Nat
    BY <1>7 DEF RegPath, PathListed, TypeOK
  <2>3. QED
    BY <1>7, <2>1, <2>2 DEF RegPath, PathListed, TypeOK, PC
<1>8. CASE Setup
  <2>1. envVar' \in BOOLEAN
    BY <1>8, Zenon DEF Setup, TypeOK
  <2>2. envPath' \in Nat
    BY <1>8 DEF Setup, TypeOK
  <2>3. QED
    BY <1>8, <2>1, <2>2 DEF Setup, TypeOK, PC, Result
<1>9. CASE Crash
  BY <1>9 DEF Crash, TypeOK, PC, Result, VDir
<1>10. CASE Rerun
  <2>1. envVar' \in BOOLEAN
    BY <1>10, StartEnvType, Zenon DEF Rerun
  <2>2. envPath' \in Nat
    BY <1>10, StartEnvType DEF Rerun
  <2>3. runs' \in 1..MaxRuns
    BY <1>10 DEF Rerun, TypeOK
  <2>4. vdir' \in VDir /\ pc' \in PC /\ result' \in Result
    BY <1>10 DEF Rerun, TypeOK, PC, Result, VDir
  <2>5. QED
    BY <1>10, <2>1, <2>2, <2>3, <2>4 DEF Rerun, TypeOK
<1>11. CASE Done \/ UNCHANGED vars
  BY <1>11 DEF Done, vars, TypeOK
<1>12. QED
  BY <1>1, <1>2, <1>3, <1>4, <1>5, <1>6, <1>7, <1>8, <1>9, <1>10, <1>11
  DEF Next, RunStep

(* The type invariant: every variable keeps its type in every behaviour.   *)
THEOREM TypeCorrect == Spec => []TypeOK
<1>1. Init => TypeOK
  <2> SUFFICES ASSUME Init PROVE TypeOK
    OBVIOUS
  <2>1. envVar \in BOOLEAN
    BY StartEnvType, Zenon DEF Init
  <2>2. envPath \in Nat
    BY StartEnvType DEF Init
  <2>3. runs \in 1..MaxRuns /\ crashes \in 0..MaxCrashes
    BY DEF Init
  <2>4. QED
    BY <2>1, <2>2, <2>3, Zenon DEF Init, TypeOK, PC, Result, VDir
<1>2. QED
  BY <1>1, TypeStep, PTL DEF Spec

(* Only add_env_var writes an export of VCPKG_ROOT, and only when no     *)
(* profile holds one: over any number of runs, crashes and deletions of    *)
(* tools/vcpkg, at most one profile exports VCPKG_ROOT.  The property is   *)
(* inductive as it stands.                                                 *)
THEOREM VarOnce == Spec => []VarExportedOnce
<1>1. Init => VarExportedOnce
  BY DEF Init, VarExportedOnce, AtMostOne
<1>2. VarExportedOnce /\ [Next]_vars => VarExportedOnce'
  <2> SUFFICES ASSUME VarExportedOnce, [Next]_vars PROVE VarExportedOnce'
    OBVIOUS
  <2>1. CASE RegVar
    <3>1. CASE varIn # {} \/ envVar
      BY <2>1, <3>1 DEF RegVar, VarExists, VarExportedOnce, AtMostOne
    <3>2. CASE varIn = {} /\ ~envVar
      <4>1. varIn' \in {{}} \cup {{First(Writable \ varIn)}}
        BY <2>1, <3>2 DEF RegVar, VarExists
      <4>2. QED
        BY <4>1 DEF VarExportedOnce, AtMostOne
    <3>3. QED
      BY <3>1, <3>2
  <2>2. CASE ~RegVar
    <3>1. varIn' = varIn
      BY <2>2 DEF Next, RunStep, Construct, BasicTools, VCheck, Clone, Boot,
                  RegPath, Setup, Crash, Rerun, Done, vars
    <3>2. QED
      BY <3>1 DEF VarExportedOnce
  <2>3. QED
    BY <2>1, <2>2
<1>3. QED
  BY <1>1, <1>2, PTL DEF Spec

(* The strengthening of SuccessMeansUsable: from the bootstrap (or a       *)
(* passing check_vcpkg) to the end of the run, the checkout is built.      *)
UsableInv ==
    /\ pc \in {"regvar", "regpath", "setup"} => vdir = "built"
    /\ SuccessMeansUsable

(* No step leaves the stretch from the bootstrap to the end of the run    *)
(* with the checkout not built, nor ends a run successfully without it.   *)
LEMMA UsableStep == UsableInv /\ [Next]_vars => UsableInv'
<1> SUFFICES ASSUME UsableInv, [Next]_vars PROVE UsableInv'
  OBVIOUS
<1> USE DEF UsableInv, SuccessMeansUsable
<1>1. CASE Construct
  BY <1>1 DEF Construct
<1>2. CASE BasicTools
  BY <1>2 DEF BasicTools, Fail
<1>3. CASE VCheck
  BY <1>3 DEF VCheck
<1>4. CASE Clone
  BY <1>4 DEF Clone, Fail
<1>5. CASE Boot
  BY <1>5 DEF Boot, Fail
<1>6. CASE RegVar
  BY <1>6 DEF RegVar, VarExists
<1>7. CASE RegPath
  BY <1>7 DEF RegPath, PathListed
<1>8. CASE Setup
  BY <1>8 DEF Setup
<1>9. CASE Crash
  BY <1>9 DEF Crash
<1>10. CASE Rerun
  BY <1>10 DEF Rerun
<1>11. CASE Done \/ UNCHANGED vars
  BY <1>11 DEF Done, vars
<1>12. QED
  BY <1>1, <1>2, <1>3, <1>4, <1>5, <1>6, <1>7, <1>8, <1>9, <1>10, <1>11
  DEF Next, RunStep

(* run() returns True only with a built vcpkg: the registration and the    *)
(* reload are reached only through a passing check_vcpkg or a bootstrap    *)
(* that exited 0, and nothing in between touches tools/vcpkg.              *)
THEOREM SuccessUsable == Spec => []SuccessMeansUsable
<1>1. Init => UsableInv
  BY DEF Init, UsableInv, SuccessMeansUsable
<1>2. UsableInv => SuccessMeansUsable
  BY DEF UsableInv
<1>3. QED
  BY <1>1, <1>2, UsableStep, PTL DEF Spec

-----------------------------------------------------------------------------
(* The refinement of ProvisionSpec.  Beyond UsableInv, a step of the       *)
(* clone must find no checkout, so that it maps to the abstract Clone (and *)
(* a kill during it to a Kill that may leave the directory CLONED).        *)
CloneFresh == pc = "vclone" => vdir = "absent"

RefInv == UsableInv /\ CloneFresh

(* Only check_vcpkg's finding that there is no checkout leads to a clone.  *)
LEMMA RefInvStep == RefInv /\ [Next]_vars => RefInv'
<1> SUFFICES ASSUME RefInv, [Next]_vars PROVE RefInv'
  OBVIOUS
<1>1. UsableInv'
  BY UsableStep DEF RefInv
<1>2. CloneFresh'
  <2>1. CASE VCheck
    BY <2>1 DEF VCheck, CloneFresh
  <2>2. CASE ~VCheck
    BY <2>2 DEF CloneFresh, RefInv, Next, RunStep, Construct, BasicTools,
                Fail, Clone, Boot, RegVar, RegPath, Setup, Crash, Rerun, Done,
                vars
  <2>3. QED
    BY <2>1, <2>2
<1>3. QED
  BY <1>1, <1>2 DEF RefInv

(* Every step of a run is a step of the installer's state machine and the  *)
(* orchestrator's policy, or leaves their state as it was.                 *)
LEMMA StepRefines == RefInv /\ [Next]_vars => [Abs!Next]_Abs!vars
<1> SUFFICES ASSUME RefInv, [Next]_vars PROVE [Abs!Next]_Abs!vars
  OBVIOUS
<1>1. CASE Construct /\ pm = "none"
  <2>1. Abs!FailRun
    BY <1>1 DEF Construct, Abs!FailRun, Outcome
  <2>2. QED
    BY <2>1 DEF Abs!Next
<1>2. CASE Construct /\ pm # "none"
  BY <1>2 DEF Construct, Abs!vars, Outcome
<1>3. CASE BasicTools /\ pc' = "exit"
  <2>1. Abs!FailRun
    BY <1>3 DEF BasicTools, Fail, Abs!FailRun, Outcome
  <2>2. QED
    BY <2>1 DEF Abs!Next
<1>4. CASE BasicTools /\ pc' # "exit"
  BY <1>4 DEF BasicTools, Fail, Abs!vars, Outcome
<1>5. CASE VCheck
  BY <1>5 DEF VCheck, Abs!vars, Outcome
<1>6. CASE Clone /\ pc' = "vboot"
  <2>1. Abs!Clone
    BY <1>6 DEF Clone, Fail, RefInv, CloneFresh, Abs!Clone, Tool, Outcome
  <2>2. QED
    BY <2>1 DEF Abs!Next
<1>7. CASE Clone /\ pc' # "vboot"
  <2>1. Abs!FailRun
    BY <1>7 DEF Clone, Fail, Abs!FailRun, Outcome
  <2>2. QED
    BY <2>1 DEF Abs!Next
<1>8. CASE Boot /\ pc' = "regvar"
  <2>1. Abs!Bootstrap
    BY <1>8 DEF Boot, Fail, Abs!Bootstrap, Tool, Outcome
  <2>2. QED
    BY <2>1 DEF Abs!Next
<1>9. CASE Boot /\ pc' # "regvar"
  <2>1. Abs!FailRun
    BY <1>9 DEF Boot, Fail, Abs!FailRun, Outcome
  <2>2. QED
    BY <2>1 DEF Abs!Next
<1>10. CASE RegVar /\ varIn' # varIn
  <2>1. varIn = {} /\ Writable # {} /\ varIn' = {First(Writable)}
    BY <1>10 DEF RegVar, VarExists
  <2>2. First(Writable) \in Writable
    BY <2>1, FirstIn
  <2>3. vdir = "built"
    BY <1>10 DEF RegVar, RefInv, UsableInv
  <2>4. Abs!Register
    BY <1>10, <2>1, <2>2, <2>3 DEF RegVar, Abs!Register, Tool, Outcome
  <2>5. QED
    BY <2>4 DEF Abs!Next
<1>11. CASE RegVar /\ varIn' = varIn
  BY <1>11 DEF RegVar, Abs!vars, Outcome
<1>12. CASE RegPath
  BY <1>12 DEF RegPath, Abs!vars, Outcome
<1>13. CASE Setup
  <2>1. vdir = "built"
    BY <1>13 DEF Setup, RefInv, UsableInv
  <2>2. Abs!Succeed
    BY <1>13, <2>1 DEF Setup, Abs!Succeed, Tool, Outcome
  <2>3. QED
    BY <2>2 DEF Abs!Next
<1>14. CASE Crash
  <2>1. Abs!Kill
    BY <1>14 DEF Crash, RefInv, CloneFresh, Abs!Kill, Tool, Outcome
  <2>2. QED
    BY <2>1 DEF Abs!Next
<1>15. CASE Rerun
  <2>1. Abs!Start
    BY <1>15 DEF Rerun, Abs!Start, Tool, Outcome
  <2>2. QED
    BY <2>1 DEF Abs!Next
<1>16. CASE Done \/ UNCHANGED vars
  BY <1>16 DEF Done, vars, Abs!vars, Outcome
<1>17. QED
  BY <1>1, <1>2, <1>3, <1>4, <1>5, <1>6, <1>7, <1>8, <1>9, <1>10, <1>11,
     <1>12, <1>13, <1>14, <1>15, <1>16 DEF Next, RunStep

(* Repeated runs of main() implement the installer's state machine and the *)
(* orchestrator's failure policy (ProvisionSpec), for every set of         *)
(* profiles and every number of runs and kills: the safety part of         *)
(* ImplementsProvisionSpec.  The fairness part is left to TLC.                      *)
THEOREM RefinesSafety == Spec => Abs!Init /\ [][Abs!Next]_Abs!vars
<1>1. Init => Abs!Init
  BY DEF Init, Abs!Init, Tool, Outcome
<1>2. Init => RefInv
  BY DEF Init, RefInv, UsableInv, SuccessMeansUsable, CloneFresh
<1>3. QED
  BY <1>1, <1>2, RefInvStep, StepRefines, PTL DEF Spec

=============================================================================
