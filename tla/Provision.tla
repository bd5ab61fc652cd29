------------------------------ MODULE Provision ------------------------------
(***************************************************************************)
(* Repeated runs of configure.py's main() on Linux: the orchestration of   *)
(* EnvironmentConfigurator.run(), the vcpkg checkout (VcpkgInstaller), and *)
(* the persistence of VCPKG_ROOT and the vcpkg PATH entry in the shell     *)
(* profile files (EnvironmentManager).  The process may be killed at any   *)
(* step; the profile files and the checkout under tools/vcpkg survive, the *)
(* process environment does not.  Between two runs the user may delete     *)
(* tools/vcpkg.  The Python-module chain inside the basic-tools stage is   *)
(* modelled on its own in PyModuleChain; here it is part of one step.      *)
(***************************************************************************)
EXTENDS Naturals

CONSTANTS
    Configs,     \* the profile files _get_shell_configs returns
    CRank,       \* their order in the candidate list
    Writable,    \* the ones the user can write
    Sourced,     \* the ones the shell that starts configure.py has sourced
    PkgMgrs,     \* the package managers the machine may have ("none": none)
    MaxRuns,     \* how many times the user runs configure.py
    MaxCrashes   \* how many runs may be killed

ASSUME ConstAssumption ==
    /\ CRank \in [Configs -> Nat]
    /\ \A f, g \in Configs : CRank[f] = CRank[g] => f = g
    \* the candidates form a list: every non-empty set of them has a first
    /\ \A S \in SUBSET Configs :
          S # {} => \E f \in S : \A g \in S : CRank[f] <= CRank[g]
    /\ Configs # {}
    /\ Writable \subseteq Configs
    /\ Sourced \subseteq Configs
    /\ PkgMgrs \subseteq {"apt", "yum", "dnf", "pacman", "none"}
    /\ PkgMgrs # {}
    /\ MaxRuns \in Nat \ {0}
    /\ MaxCrashes \in Nat

VARIABLES
    \* persistent state of the machine
    vdir,      \* tools/vcpkg: "absent", "partial" (killed clone), "cloned", "built"
    toolsOk,   \* check_basic_tools finds nothing missing
    varIn,     \* the profiles holding an `export VCPKG_ROOT=` line
    pathIn,    \* the profiles holding the `export PATH="<vcpkg>:$PATH"` line
    pm,        \* the package manager on PATH
    \* state of the running process
    pc,        \* the stage of main() the run is in
    envVar,    \* VCPKG_ROOT is in os.environ
    envPath,   \* how many times the vcpkg directory occurs in os.environ['PATH']
    regVar,    \* this run called add_env_var('VCPKG_ROOT', ...)
    result,    \* how the run ended
    fault,     \* a command failed or the process was killed in this run
    \* bounds
    runs, crashes

vars == <<vdir, toolsOk, varIn, pathIn, pm, pc, envVar, envPath, regVar,
          result, fault, runs, crashes>>

VDir == {"absent", "partial", "cloned", "built"}
PC == {"init", "basic", "vcheck", "vclone", "vboot", "regvar", "regpath",
       "setup", "exit"}
Result == {"none", "ok", "fail", "traceback", "killed"}

(* The first file of a set in the order of the candidate list.             *)
First(S) == CHOOSE f \in S : \A g \in S : CRank[f] <= CRank[g]

(* The files the invoking shell sourced that hold a line: what a new       *)
(* process finds in its environment.                                       *)
SeenAtStart(lines) == Sourced \cap lines

(* At most one file holds the line.                                        *)
AtMostOne(S) == \A f, g \in S : f = g

(* The process environment of a fresh run, inherited from the shell: is   *)
(* VCPKG_ROOT set, and how often PATH holds the vcpkg directory.           *)
StartVar(vi) == SeenAtStart(vi) # {}
StartPath(pi) == IF SeenAtStart(pi) = {} THEN 0
                 ELSE IF \E f, g \in SeenAtStart(pi) : f # g THEN 2 ELSE 1

(* check_basic_tools: some tool or Python module of its list is missing.   *)
ToolsMissing == ~toolsOk

(* check_env_var_exists('VCPKG_ROOT'): some profile holds an export of the *)
(* name, or the process environment has it.                                *)
VarExists == varIn # {} \/ envVar

(* add_to_path's test: os.environ['PATH'] already lists the directory.     *)
PathListed == envPath > 0

(* A machine configure.py has never run on: no tools/vcpkg, no export in  *)
(* any profile; the basic tools may or may not be there.                   *)
Init ==
    /\ vdir = "absent"
    /\ toolsOk \in BOOLEAN
    /\ varIn = {}
    /\ pathIn = {}
    /\ pm \in PkgMgrs
    /\ pc = "init"
    /\ envVar = StartVar(varIn)
    /\ envPath = StartPath(pathIn)
    /\ regVar = FALSE
    /\ result = "none"
    /\ fault = FALSE
    /\ runs = 1
    /\ crashes = 0

(* The run ends through run()'s `except Exception`: it returns False.      *)
Fail == pc' = "exit" /\ result' = "fail" /\ fault' = TRUE

(* Mutant of Construct: a misspelt stage.                                  *)
ConstructTypo ==
    /\ pc = "init"
    /\ pc' = IF pm = "none" THEN "exit" ELSE "basics"
    /\ result' = IF pm = "none" THEN "traceback" ELSE result
    /\ UNCHANGED <<vdir, toolsOk, varIn, pathIn, pm, envVar, envPath, regVar,
                   fault, runs, crashes>>

(* EnvironmentConfigurator(): LinuxDependencyInstaller() raises            *)
(* RuntimeError when no package manager is found, outside run()'s try: the *)
(* interpreter ends with a traceback.                                      *)
Construct ==
    /\ pc = "init"
    /\ pc' = IF pm = "none" THEN "exit" ELSE "basic"
    /\ result' = IF pm = "none" THEN "traceback" ELSE result
    /\ UNCHANGED <<vdir, toolsOk, varIn, pathIn, pm, envVar, envPath, regVar,
                   fault, runs, crashes>>

(* _check_and_install_basic_tools: nothing missing, or                     *)
(* install_basic_dependencies.  For apt, `apt-get update` runs with        *)
(* check=True and may raise; the package groups go through                 *)
(* safe_install_packages, which never raises and may leave packages out.   *)
(* safe_install_packages always calls apt-get, so on yum and dnf every     *)
(* install fails; pacman installs one package at a time.                   *)
BasicTools ==
    /\ pc = "basic"
    /\ \/ /\ ~ToolsMissing
          /\ pc' = "vcheck"
          /\ UNCHANGED <<toolsOk, fault, result>>
       \/ /\ ToolsMissing
          /\ pm = "apt"
          /\ Fail
          /\ UNCHANGED toolsOk
       \/ /\ ToolsMissing
          /\ pc' = "vcheck"
          /\ toolsOk' \in IF pm \in {"yum", "dnf"} THEN {FALSE} ELSE BOOLEAN
          /\ UNCHANGED <<fault, result>>
    /\ UNCHANGED <<vdir, varIn, pathIn, pm, envVar, envPath, regVar, runs,
                   crashes>>

(* _check_and_install_vcpkg: check_vcpkg runs `tools/vcpkg/vcpkg version`; *)
(* when it fails, VcpkgInstaller.install either clones or, when the        *)
(* directory exists, runs `git pull` and ignores its failure.              *)
VCheck ==
    /\ pc = "vcheck"
    /\ pc' = CASE vdir = "built"  -> "setup"
               [] vdir = "absent" -> "vclone"
               [] OTHER           -> "vboot"
    /\ UNCHANGED <<vdir, toolsOk, varIn, pathIn, pm, envVar, envPath, regVar,
                   result, fault, runs, crashes>>

(* Mutant of Clone: a failed clone leaves its directory behind.          *)
CloneFailLeavesDir ==
    /\ pc = "vclone"
    /\ \/ vdir' = "cloned" /\ pc' = "vboot" /\ UNCHANGED <<result, fault>>
       \/ Fail /\ vdir' = "partial"
    /\ UNCHANGED <<toolsOk, varIn, pathIn, pm, envVar, envPath, regVar, runs,
                   crashes>>

(* git clone --depth 1: a failed clone leaves no directory and raises.     *)
Clone ==
    /\ pc = "vclone"
    /\ \/ vdir' = "cloned" /\ pc' = "vboot" /\ UNCHANGED <<result, fault>>
       \/ Fail /\ UNCHANGED vdir
    /\ UNCHANGED <<toolsOk, varIn, pathIn, pm, envVar, envPath, regVar, runs,
                   crashes>>

(* Mutant of Boot: the bootstrap's exit code is not checked.               *)
BootIgnoreExit ==
    /\ pc = "vboot"
    /\ \/ vdir = "cloned" /\ vdir' = "built"
       \/ UNCHANGED vdir
    /\ pc' = "regvar"
    /\ UNCHANGED <<toolsOk, varIn, pathIn, pm, envVar, envPath, regVar,
                   result, fault, runs, crashes>>

(* bash bootstrap-vcpkg.sh with check=True.  On a complete checkout it     *)
(* builds the executable or fails (network, compiler); on the partial      *)
(* checkout a killed clone left behind it always fails.                    *)
Boot ==
    /\ pc = "vboot"
    /\ \/ vdir = "cloned" /\ vdir' = "built" /\ pc' = "regvar"
          /\ UNCHANGED <<result, fault>>
       \/ vdir = "cloned" /\ Fail /\ UNCHANGED vdir
       \/ vdir = "partial" /\ pc' = "exit" /\ result' = "fail"
          /\ UNCHANGED <<vdir, fault>>
    /\ UNCHANGED <<toolsOk, varIn, pathIn, pm, envVar, envPath, regVar, runs,
                   crashes>>

(* Mutant of RegVar: the existence check looks at os.environ only.         *)
RegVarNoScan ==
    /\ pc = "regvar"
    /\ IF envVar
         THEN UNCHANGED <<varIn, envVar>>
         ELSE LET T == Writable \ varIn IN
              IF T = {} THEN UNCHANGED <<varIn, envVar>>
              ELSE varIn' = varIn \cup {First(T)} /\ envVar' = TRUE
    /\ regVar' = TRUE
    /\ pc' = "regpath"
    /\ UNCHANGED <<vdir, toolsOk, pathIn, pm, envPath, result, fault, runs,
                   crashes>>

(* add_env_var('VCPKG_ROOT', ...): check_env_var_exists scans every       *)
(* profile for an export of the name, then os.environ; if absent,          *)
(* _add_unix_env_var appends the export to the first profile it can write  *)
(* that has none (touch and open raise on the others) and sets os.environ; *)
(* when no profile can be written it returns False and sets nothing.       *)
RegVar ==
    /\ pc = "regvar"
    /\ IF VarExists
         THEN UNCHANGED <<varIn, envVar>>
         ELSE LET T == Writable \ varIn IN
              IF T = {} THEN UNCHANGED <<varIn, envVar>>
              ELSE varIn' = varIn \cup {First(T)} /\ envVar' = TRUE
    /\ regVar' = TRUE
    /\ pc' = "regpath"
    /\ UNCHANGED <<vdir, toolsOk, pathIn, pm, envPath, result, fault, runs,
                   crashes>>

(* add_to_path(vcpkg_root): skipped when os.environ['PATH'] holds the      *)
(* directory; otherwise _add_unix_path appends the export to the first     *)
(* writable profile that does not already hold that exact line (a profile  *)
(* that holds it is passed over with `continue`), and prepends the         *)
(* directory to os.environ['PATH'].                                        *)
RegPath ==
    /\ pc = "regpath"
    /\ IF PathListed
         THEN UNCHANGED <<pathIn, envPath>>
         ELSE LET T == Writable \ pathIn IN
              IF T = {} THEN UNCHANGED <<pathIn, envPath>>
              ELSE pathIn' = pathIn \cup {First(T)} /\ envPath' = envPath + 1
    /\ pc' = "setup"
    /\ UNCHANGED <<vdir, toolsOk, varIn, pm, envVar, regVar, result, fault,
                   runs, crashes>>

(* _setup_environment (reload_environment) and _verify_installation, then  *)
(* run() returns True.  The reload sources the first profile in a subshell *)
(* that inherits os.environ, and adopts its VCPKG_ROOT and PATH when the   *)
(* subshell exits 0; sourcing the profile prepends the directory again.    *)
(* A non-zero exit changes nothing.  The verification only logs.           *)
Setup ==
    /\ pc = "setup"
    /\ LET f == First(Configs) IN
       \/ /\ envVar' = (envVar \/ f \in varIn)
          /\ envPath' = envPath + (IF f \in pathIn THEN 1 ELSE 0)
       \/ UNCHANGED <<envVar, envPath>>
    /\ pc' = "exit"
    /\ result' = "ok"
    /\ UNCHANGED <<vdir, toolsOk, varIn, pathIn, pm, regVar, fault, runs,
                   crashes>>

(* The process is killed (Ctrl-C, a closed terminal, a reboot).  A clone   *)
(* killed half-way leaves a partial tools/vcpkg directory.                 *)
Crash ==
    /\ pc \notin {"exit"}
    /\ crashes < MaxCrashes
    /\ crashes' = crashes + 1
    /\ pc' = "exit"
    /\ result' = "killed"
    /\ fault' = TRUE
    /\ vdir' \in IF pc = "vclone" THEN {"absent", "partial"} ELSE {vdir}
    /\ UNCHANGED <<toolsOk, varIn, pathIn, pm, envVar, envPath, regVar, runs>>

(* The user runs configure.py again from the same shell, having perhaps    *)
(* deleted tools/vcpkg in between; the new process's environment comes    *)
(* from the profiles the shell sourced when it started.                    *)
Rerun ==
    /\ pc = "exit"
    /\ runs < MaxRuns
    /\ runs' = runs + 1
    /\ vdir' \in {vdir, "absent"}
    /\ pc' = "init"
    /\ envVar' = StartVar(varIn)
    /\ envPath' = StartPath(pathIn)
    /\ regVar' = FALSE
    /\ result' = "none"
    /\ fault' = FALSE
    /\ UNCHANGED <<toolsOk, varIn, pathIn, pm, crashes>>

(* The user has stopped running configure.py.                              *)
Done == pc = "exit" /\ runs = MaxRuns /\ UNCHANGED vars

(* One step of a running process.                                          *)
RunStep == Construct \/ BasicTools \/ VCheck \/ Clone \/ Boot \/ RegVar
           \/ RegPath \/ Setup

Next == RunStep \/ Crash \/ Rerun \/ Done

(* The process is sequential and waits on no other actor, so each run      *)
(* keeps taking steps; the user's reruns and the crashes are not forced.   *)
Spec == Init /\ [][Next]_vars /\ WF_vars(RunStep)

-----------------------------------------------------------------------------
(* Every variable has its type.                                            *)
TypeOK ==
    /\ vdir \in VDir
    /\ toolsOk \in BOOLEAN
    /\ varIn \subseteq Configs
    /\ pathIn \subseteq Configs
    /\ pm \in PkgMgrs
    /\ pc \in PC
    /\ envVar \in BOOLEAN
    /\ envPath \in Nat
    /\ regVar \in BOOLEAN
    /\ result \in Result
    /\ fault \in BOOLEAN
    /\ runs \in 1..MaxRuns
    /\ crashes \in 0..MaxCrashes

(* Idempotent persistence of VCPKG_ROOT (add_env_var, check_env_var_exists):*)
(* over any number of runs, crashes and deletions of tools/vcpkg, at most  *)
(* one profile file ever holds an export of VCPKG_ROOT.                    *)
VarExportedOnce == AtMostOne(varIn)

(* The same for the PATH entry (add_to_path, _add_unix_path): at most one  *)
(* profile file ever holds the vcpkg PATH export.                          *)
PathExportedOnce == AtMostOne(pathIn)

(* run() returns True only with a working vcpkg: check_vcpkg passed or the *)
(* bootstrap succeeded in this run.                                        *)
SuccessMeansUsable == (pc = "exit" /\ result = "ok") => vdir = "built"

(* A run that ends successfully, on a machine where some profile can be    *)
(* written, leaves VCPKG_ROOT persisted in a profile                       *)
(* (_check_and_install_vcpkg registers it only when check_vcpkg fails).    *)
RegisteredAfterSuccess ==
    (pc = "exit" /\ result = "ok" /\ Writable # {}) => varIn # {}

(* After add_env_var the process sees VCPKG_ROOT: written to a profile, or *)
(* when every write fails, set for the current process only.               *)
VarSetInProcess ==
    (regVar /\ pc \in {"regpath", "setup"}) => envVar

(* A run in which no command fails and nothing is killed succeeds (with a  *)
(* package manager present): no earlier run can leave the machine in a     *)
(* state from which provisioning fails by itself.                          *)
NoPermanentFailure ==
    (pc = "exit" /\ ~fault /\ pm # "none") => result = "ok"

-----------------------------------------------------------------------------
(* The refinement mapping onto ProvisionSpec: the checkout's state as the  *)
(* ExternalToolInstaller states (a partial checkout is a directory that    *)
(* exists, CLONED), a process that has exited as idle, and how it ended.  *)
(* The exit with a traceback is a failure of the run.                      *)
Tool(v) == IF v = "absent" THEN "ABSENT"
           ELSE IF v = "built" THEN "BOOTSTRAPPED" ELSE "CLONED"

Outcome == IF result = "ok" THEN "success"
           ELSE IF result = "killed" THEN "killed"
           ELSE IF result = "none" THEN "none" ELSE "failure"

Abs == INSTANCE ProvisionSpec
         WITH tool <- Tool(vdir),
              phase <- IF pc = "exit" THEN "idle" ELSE "running",
              outcome <- Outcome,
              exports <- varIn

(* Repeated runs of main() follow the installer's state machine and the    *)
(* orchestrator's failure policy: the checkout only moves ABSENT -> CLONED *)
(* -> BOOTSTRAPPED within runs (a kill during the clone may leave it       *)
(* CLONED), a run returns True only with vcpkg bootstrapped, VCPKG_ROOT is *)
(* written to one profile only when no profile exports it and only after  *)
(* the bootstrap, and every run ends.                                      *)
ImplementsProvisionSpec == Abs!Spec

=============================================================================
