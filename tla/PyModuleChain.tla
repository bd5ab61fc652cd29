---------------------------- MODULE PyModuleChain ----------------------------
(***************************************************************************)
(* The Linux installer's Python-module provisioning, scripts/configure.py: *)
(* LinuxDependencyInstaller._install_python_modules (apt stage and import  *)
(* check), _install_missing_python_modules (the four fallback strategies   *)
(* and the final verification) and _create_user_venv_and_install.         *)
(*                                                                         *)
(* The live system is abstracted to which distributions are present in     *)
(* the system site (apt), in the user site (pip as a normal user) and in   *)
(* the temporary venv.  Every external command is one step whose outcome   *)
(* (exit code and effect) is chosen nondeterministically among those the   *)
(* command can produce.                                                    *)
(***************************************************************************)
EXTENDS FiniteSets, Naturals

CONSTANTS
    Modules,    \* the entries of python_modules
    Rank,       \* Rank[m]: position of m in python_modules (loop order)
    Deps,       \* Deps[m]: distributions pip/apt install together with m
    AptAvail,   \* modules whose python3-<m> apt package exists
    HasApps,    \* modules with console scripts: `pipx install m` can exit 0
    VenvGlob,   \* modules whose venv directory matches glob(f'{module}*')
    BadImport   \* modules whose distribution name is not an import name

ASSUME ConstAssumption ==
    /\ IsFiniteSet(Modules)
    /\ Rank \in [Modules -> Nat]
    /\ \A m, n \in Modules : m # n => Rank[m] # Rank[n]
    /\ Deps \in [Modules -> SUBSET Modules]
    /\ \A m \in Modules : m \notin Deps[m]
    /\ AptAvail \subseteq Modules
    /\ HasApps \subseteq Modules
    /\ VenvGlob \subseteq Modules
    /\ BadImport \subseteq Modules
    \* pip installs a distribution's dependencies with their own
    /\ \A m \in Modules : \A d \in Deps[m] : Deps[d] \subseteq Deps[m]
    \* glob(f'{module}*') finds a package directory only when it carries the
    \* distribution's name, which is then the name it is imported by
    /\ VenvGlob \cap BadImport = {}

VARIABLES
    sysSite,      \* distributions installed by apt
    userSite,     \* distributions in the user site-packages
    venvSite,     \* distributions in the temporary venv of strategy 3
    pipx,         \* shutil.which('pipx') is not None
    pc,           \* the statement the installer is at
    todo,         \* the items the current loop has still to visit
    missing,      \* missing_modules, the chain's input
    failed,       \* strategy1_failed, the chain's working "still missing" set
    failed2,      \* strategy2_failed
    finalMissing  \* final_missing of the final verification

vars == <<sysSite, userSite, venvSite, pipx, pc, todo, missing, failed,
          failed2, finalMissing>>

PC == {"apt_batch", "apt_one", "check", "s1", "s2", "s2pipx", "s3",
       "s3pip", "s3copy", "s4", "s4pip", "verify",
       "ret_apt", "ret_s1", "done"}

Returned == {"ret_apt", "ret_s1", "done"}

-----------------------------------------------------------------------------
(* A distribution and what it depends on are present.                     *)
Installed(m) == ({m} \cup Deps[m]) \subseteq (sysSite \cup userSite)

(* `python3 -c "import <m>"` exits 0: the check imports the distribution   *)
(* name itself, which fails for names that are not import names.           *)
Importable(m) == m \notin BadImport /\ Installed(m)

(* m is the item a loop over the list visits next: loops follow the order  *)
(* of python_modules.                                                      *)
Earliest(m, S) == m \in S /\ \A n \in S : Rank[m] <= Rank[n]

(* The effect of a pip install of m on a site: exit 0 installs m with its  *)
(* dependencies; a failing install may leave some dependencies behind.     *)
PipOk(site, m) == site \cup {m} \cup Deps[m]
PipFailed(site, m) == {site \cup S : S \in SUBSET Deps[m]}

-----------------------------------------------------------------------------
Init ==
    /\ sysSite \in SUBSET Modules
    /\ userSite \in SUBSET Modules
    /\ venvSite = {}
    /\ pipx \in BOOLEAN
    /\ pc = "apt_batch"
    /\ todo = {}
    /\ missing = {}
    /\ failed = {}
    /\ failed2 = {}
    /\ finalMissing = {}

(* safe_install_packages, batch: one apt-get install of every python3-*    *)
(* package.  It succeeds only if every package exists; otherwise the       *)
(* packages are retried one by one.                                        *)
AptBatch ==
    /\ pc = "apt_batch"
    /\ \/ /\ Modules \subseteq AptAvail
          /\ sysSite' = sysSite \cup Modules
          /\ pc' = "check"
          /\ UNCHANGED todo
       \/ /\ pc' = "apt_one"
          /\ todo' = Modules
          /\ UNCHANGED sysSite
    /\ UNCHANGED <<userSite, venvSite, pipx, missing, failed, failed2,
                   finalMissing>>

(* safe_install_packages, one package: the list went through set(), so the *)
(* order is arbitrary.  A package installs only if it and its dependencies *)
(* exist.                                                                  *)
AptOne(m) ==
    /\ pc = "apt_one"
    /\ m \in todo
    /\ \/ /\ ({m} \cup Deps[m]) \subseteq AptAvail
          /\ sysSite' = sysSite \cup {m} \cup Deps[m]
       \/ UNCHANGED sysSite
    /\ todo' = todo \ {m}
    /\ pc' = IF todo' = {} THEN "check" ELSE "apt_one"
    /\ UNCHANGED <<userSite, venvSite, pipx, missing, failed, failed2,
                   finalMissing>>

(* The import check of every module; return if nothing is missing, else   *)
(* _install_missing_python_modules(missing_modules).                       *)
Check ==
    /\ pc = "check"
    /\ missing' = {m \in Modules : ~Importable(m)}
    /\ IF missing' = {}
         THEN pc' = "ret_apt" /\ UNCHANGED todo
         ELSE pc' = "s1" /\ todo' = missing'
    /\ UNCHANGED <<sysSite, userSite, venvSite, pipx, failed, failed2,
                   finalMissing>>

(* Mutant of S1: the pip exit code is not looked at (check=False).         *)
S1IgnoreExit(m) ==
    /\ pc = "s1"
    /\ Earliest(m, todo)
    /\ \/ userSite' = PipOk(userSite, m)
       \/ userSite' \in PipFailed(userSite, m)
    /\ todo' = todo \ {m}
    /\ pc' = IF todo' # {} THEN "s1"
             ELSE IF failed = {} THEN "ret_s1" ELSE "s2"
    /\ UNCHANGED <<sysSite, venvSite, pipx, missing, failed, failed2,
                   finalMissing>>

(* Strategy 1: pip install --break-system-packages m; a non-zero exit puts *)
(* m into strategy1_failed.  When the loop ends with nothing failed the    *)
(* chain returns at once, without the final verification.                  *)
S1(m) ==
    /\ pc = "s1"
    /\ Earliest(m, todo)
    /\ \/ /\ userSite' = PipOk(userSite, m)
          /\ UNCHANGED failed
       \/ /\ userSite' \in PipFailed(userSite, m)
          /\ failed' = failed \cup {m}
    /\ todo' = todo \ {m}
    /\ pc' = IF todo' # {} THEN "s1"
             ELSE IF failed' = {} THEN "ret_s1" ELSE "s2"
    /\ UNCHANGED <<sysSite, venvSite, pipx, missing, failed2, finalMissing>>

(* Mutant of S2: the pipx loop iterates over all of missing_modules.       *)
S2AllMissing ==
    /\ pc = "s2"
    /\ \/ /\ pipx
          /\ pc' = "s2pipx"
          /\ todo' = missing
          /\ failed2' = {}
          /\ UNCHANGED pipx
       \/ /\ ~pipx
          /\ pipx' \in BOOLEAN
          /\ pc' = "s3"
          /\ UNCHANGED <<todo, failed2>>
    /\ UNCHANGED <<sysSite, userSite, venvSite, missing, failed, finalMissing>>

(* Strategy 2 entry: with pipx on PATH, loop over strategy1_failed; else   *)
(* apt-get install pipx (check=False) and go on without retrying.          *)
S2 ==
    /\ pc = "s2"
    /\ \/ /\ pipx
          /\ pc' = "s2pipx"
          /\ todo' = failed
          /\ failed2' = {}
          /\ UNCHANGED pipx
       \/ /\ ~pipx
          /\ pipx' \in BOOLEAN
          /\ pc' = "s3"
          /\ UNCHANGED <<todo, failed2>>
    /\ UNCHANGED <<sysSite, userSite, venvSite, missing, failed, finalMissing>>

(* Strategy 2: pipx install m, into an isolated venv of its own, so python3 *)
(* never sees it; pipx exits 0 only for a distribution with console        *)
(* scripts.  At the end strategy1_failed = strategy2_failed.               *)
S2Pipx(m) ==
    /\ pc = "s2pipx"
    /\ Earliest(m, todo)
    /\ \/ /\ m \in HasApps
          /\ UNCHANGED failed2
       \/ failed2' = failed2 \cup {m}
    /\ todo' = todo \ {m}
    /\ IF todo' = {}
         THEN pc' = "s3" /\ failed' = failed2'
         ELSE pc' = "s2pipx" /\ UNCHANGED failed
    /\ UNCHANGED <<sysSite, userSite, venvSite, pipx, missing, finalMissing>>

(* Strategy 3 is skipped when strategy1_failed is empty, and abandoned     *)
(* when `python3 -m venv` fails (the exception is caught by the caller).   *)
S3Skip ==
    /\ pc = "s3"
    /\ pc' = "s4"
    /\ UNCHANGED <<sysSite, userSite, venvSite, pipx, todo, missing, failed,
                   failed2, finalMissing>>

(* Strategy 3: the venv is created; loop pip-installing into it.           *)
S3Venv ==
    /\ pc = "s3"
    /\ failed # {}
    /\ pc' = "s3pip"
    /\ todo' = failed
    /\ venvSite' = {}
    /\ UNCHANGED <<sysSite, userSite, pipx, missing, failed, failed2,
                   finalMissing>>

(* venv pip install m (check=False); then the copy loop over the same list. *)
S3Pip(m) ==
    /\ pc = "s3pip"
    /\ Earliest(m, todo)
    /\ \/ venvSite' = PipOk(venvSite, m)
       \/ venvSite' \in PipFailed(venvSite, m)
    /\ IF todo \ {m} = {}
         THEN pc' = "s3copy" /\ todo' = failed
         ELSE pc' = "s3pip" /\ todo' = todo \ {m}
    /\ UNCHANGED <<sysSite, userSite, pipx, missing, failed, failed2,
                   finalMissing>>

(* The copy of m from the venv to the user site: the existing destination  *)
(* is removed (rmtree) before copytree.  Any exception leaves the whole    *)
(* copy loop; leaving the `with` block deletes the venv.                   *)
S3Copy(m) ==
    /\ pc = "s3copy"
    /\ Earliest(m, todo)
    /\ \/ /\ ~(m \in VenvGlob /\ m \in venvSite)
          /\ todo' = todo \ {m}
          /\ UNCHANGED userSite
       \/ /\ m \in VenvGlob /\ m \in venvSite
          /\ userSite' = userSite \cup {m}
          /\ todo' = todo \ {m}
       \/ /\ m \in VenvGlob /\ m \in venvSite
          /\ userSite' \in {userSite, userSite \ {m}}
          /\ todo' = {}
    /\ IF todo' = {}
         THEN pc' = "s4" /\ venvSite' = {}
         ELSE pc' = "s3copy" /\ UNCHANGED venvSite
    /\ UNCHANGED <<sysSite, pipx, missing, failed, failed2, finalMissing>>

(* Mutant of S4: an empty working set falls through to a stage that does  *)
(* not exist.                                                              *)
S4BadLabel ==
    /\ pc = "s4"
    /\ IF failed = {}
         THEN pc' = "s5" /\ UNCHANGED todo
         ELSE pc' = "s4pip" /\ todo' = failed
    /\ UNCHANGED <<sysSite, userSite, venvSite, pipx, missing, failed,
                   failed2, finalMissing>>

(* Strategy 4, when strategy1_failed is not empty: apt-get install         *)
(* python3-full, then pip install --user over strategy1_failed.            *)
S4 ==
    /\ pc = "s4"
    /\ IF failed = {}
         THEN pc' = "verify" /\ UNCHANGED todo
         ELSE pc' = "s4pip" /\ todo' = failed
    /\ UNCHANGED <<sysSite, userSite, venvSite, pipx, missing, failed,
                   failed2, finalMissing>>

(* pip install --user m (check=False; the exit code is not looked at).     *)
S4Pip(m) ==
    /\ pc = "s4pip"
    /\ Earliest(m, todo)
    /\ \/ userSite' = PipOk(userSite, m)
       \/ userSite' \in PipFailed(userSite, m)
    /\ todo' = todo \ {m}
    /\ pc' = IF todo' = {} THEN "verify" ELSE "s4pip"
    /\ UNCHANGED <<sysSite, venvSite, pipx, missing, failed, failed2,
                   finalMissing>>

(* Mutant of Verify: reports strategy1_failed instead of re-checking.     *)
VerifyStale ==
    /\ pc = "verify"
    /\ finalMissing' = failed
    /\ pc' = "done"
    /\ UNCHANGED <<sysSite, userSite, venvSite, pipx, todo, missing, failed,
                   failed2>>

(* Final verification: the import check of every module the chain got.    *)
Verify ==
    /\ pc = "verify"
    /\ finalMissing' = {m \in missing : ~Importable(m)}
    /\ pc' = "done"
    /\ UNCHANGED <<sysSite, userSite, venvSite, pipx, todo, missing, failed,
                   failed2>>

(* The installer has returned.                                             *)
Terminated ==
    /\ pc \in Returned
    /\ UNCHANGED vars

Next ==
    \/ AptBatch
    \/ \E m \in Modules : AptOne(m)
    \/ Check
    \/ \E m \in Modules : S1(m)
    \/ S2
    \/ \E m \in Modules : S2Pipx(m)
    \/ S3Skip
    \/ S3Venv
    \/ \E m \in Modules : S3Pip(m)
    \/ \E m \in Modules : S3Copy(m)
    \/ S4
    \/ \E m \in Modules : S4Pip(m)
    \/ Verify
    \/ Terminated

(* The installer is one thread; every command it runs returns (no command  *)
(* is given a timeout, so this assumes the external commands terminate).   *)
Spec == Init /\ [][Next]_vars /\ WF_vars(Next)

-----------------------------------------------------------------------------
TypeOK ==
    /\ sysSite \subseteq Modules
    /\ userSite \subseteq Modules
    /\ venvSite \subseteq Modules
    /\ pipx \in BOOLEAN
    /\ pc \in PC
    /\ todo \subseteq Modules
    /\ missing \subseteq Modules
    /\ failed \subseteq Modules
    /\ failed2 \subseteq Modules
    /\ finalMissing \subseteq Modules

(* The installer says all modules are available only when they are: at the *)
(* return after the import check, and at the early return after strategy 1 *)
(* ("All modules installed with --break-system-packages"), every requested *)
(* distribution is installed with its dependencies.                        *)
ClaimImpliesInstalled ==
    pc \in {"ret_apt", "ret_s1"} => \A m \in Modules : Installed(m)

(* The final verification re-imports only missing_modules, the chain's   *)
(* input, yet misses no requested module that fails to import when the    *)
(* installer returns: the strategies only add to the sites, except the    *)
(* venv copy's rmtree, which removes only modules of strategy1_failed, and *)
(* no module that imported after apt depends on one of those (spec: final  *)
(* missing = N minus what was resolved, logged as residual failures).      *)
ReportComplete ==
    pc = "done" => \A m \in Modules : ~Importable(m) => m \in finalMissing

(* Once strategy 1 is over, the working set strategy1_failed only shrinks: *)
(* each later strategy receives what the previous one left.                *)
WorkingSetNested ==
    [][pc \notin {"apt_batch", "apt_one", "check", "s1"} =>
         failed' \subseteq failed]_vars

(* The inductive strengthening of ClaimImpliesInstalled: during strategy  *)
(* 1 every module neither pending nor failed is installed (sites only grow *)
(* until then), and nothing has failed before strategy 1.                  *)
ClaimInv ==
    /\ TypeOK
    /\ pc \in {"apt_batch", "apt_one", "check"} => failed = {}
    /\ pc = "s1" => \A m \in Modules \ (todo \cup failed) : Installed(m)
    /\ pc = "ret_apt" => \A m \in Modules : Importable(m)
    /\ pc = "ret_s1" => \A m \in Modules : Installed(m)

(* The invariant WorkingSetNested rests on: the pipx loop visits and      *)
(* collects only members of strategy1_failed.                             *)
NestInv ==
    /\ TypeOK
    /\ pc = "s2pipx" => todo \cup failed2 \subseteq failed

(* Spec 4.4: after every strategy the "still missing" set is recomputed    *)
(* with the checker; an exit code alone never marks a module resolved.     *)
(* So a module the chain has dropped from its working set imports.         *)
BeliefSound ==
    pc \in {"s2", "s3", "s4", "verify"} =>
        \A m \in missing \ failed : Importable(m)

(* Spec 8: no strategy is invoked on an item an earlier one resolved.  At  *)
(* the entry of strategies 2, 3 and 4 no module of the working set imports. *)
WorkingSetFresh ==
    pc \in {"s2", "s3", "s4"} => \A m \in failed : ~Importable(m)

(* Spec 4.4: each strategy is idempotent, a safe no-op on a satisfied      *)
(* target.  No step of the installer makes an importable module stop       *)
(* importing.                                                              *)
NoStrategyUninstalls ==
    [][\A m \in Modules : Importable(m) => Importable(m)']_vars

(* The final report names a module missing only if its distribution is    *)
(* really absent (the check imports the distribution name).               *)
ReportNoFalseAlarm ==
    pc = "done" => \A m \in finalMissing : ~Installed(m)

=============================================================================
