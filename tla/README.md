# Formal models of the high-jump provisioning scripts

This directory holds TLA+ models of `src/scripts/configure.py`, the
developer-environment configurator of the repository, and of the `compare`
command of `src/scripts/benchmark.py`. It also holds the TLC configurations
that model-check them and TLAPS proofs about them.
`PROJECT.json` lists:

- every component, and whether it is modelled;
- every run and mutant;
- the source lines each definition translates ("map");
- the findings and the hazards.

## The system

`configure.py` is one sequential Python process. It starts with `main()`,
which builds an `EnvironmentConfigurator` and calls `run()`. `run()` does the
following:

1. It creates a `PlatformDetector` (OS, architecture, WSL and Ubuntu version).
2. It selects an installer for the platform:
   - `LinuxDependencyInstaller` or `MacOSDependencyInstaller`;
   - the Windows installer is `None`.
3. It installs the basic dependencies through the package manager. On Linux
   the installer:
   - picks apt, yum, dnf or pacman in `_detect_package_manager`;
   - calls `CommandRunner.safe_install_packages`, which tries one batch install
     and then each package on its own.
4. It installs the Python modules. This is a chain of four fallback
   strategies:
   - pip `--break-system-packages`;
   - pipx;
   - a temporary venv whose site-packages are copied into the user site;
   - `python3-full` followed by pip `--user`.
5. It installs vcpkg (`VcpkgInstaller`: clone, pull and bootstrap), then
   persists `VCPKG_ROOT` and a PATH entry through `EnvironmentManager`.
   `EnvironmentManager` appends export lines to the shell profile files and
   re-sources them with `reload_environment`.

Every effect on the machine goes through `subprocess.run` or through file
writes. There are no threads and no callbacks. The hard behaviours are:

- the outcomes of external commands, which can fail, partly succeed or
  install more than they were asked for;
- state that persists between runs: package sites, profile files and the
  vcpkg checkout;
- a run that is killed between two steps.

`src/scripts/benchmark.py` is a separate command-line tool. Its `compare`
command does the following:

1. It finds the newest Google-Benchmark result file in a directory, by the
   timestamp in the file's name.
2. It finds the latest result strictly before that one.
3. It classifies every benchmark present in both files as an improvement, a
   regression or unchanged, against a significance threshold.

It shares no state with `configure.py`.

## Inventory and status

| Component | Module | Status |
|---|---|---|
| Python-module fallback chain (`_install_python_modules`, `_install_missing_python_modules`, `_create_user_venv_and_install`) | `PyModuleChain`, `PyModuleChainProofs` | modelled |
| Package-manager selection and `install_basic_dependencies` | `Provision` (`Init`, `Construct`, `BasicTools`); `PyModuleChain` (`AptBatch`, `AptOne`) | partly: package groups abstracted to "the basic tools are present" |
| `DependencyChecker` | `PyModuleChain` (`Importable`), `Provision` (`ToolsMissing`, `VCheck`) | modelled |
| `EnvironmentManager` (Unix side) | `Provision`, `ProvisionProofs` | partly: the Windows branches are not modelled |
| `VcpkgInstaller` | `Provision`, `ProvisionSpec`, `ProvisionProofs` | modelled |
| `EnvironmentConfigurator.run`, `main`, reruns and kills | `Provision`, `ProvisionSpec`, `ProvisionProofs` | partly: the code-quality mode is not modelled |
| `benchmark.py compare` | `BenchCompare`, `BenchCompareSpec`, `BenchCompareProofs` | partly: `analyze`, `list` and the printing are not modelled |
| `PlatformDetector` | none | not modelled |
| `MacOSDependencyInstaller` | none | not modelled |
| `WindowsDependencyInstaller` | none | dead code: never constructed, and its `__init__` constructs itself again without end |
| Code-quality tool installation | none | not modelled |

## PyModuleChain: the Python-module chain

### State

The machine is abstracted to three sets of distributions:

- `sysSite`: distributions importable from the system site (what apt and
  `--break-system-packages` install);
- `userSite`: the user site (`pip --user`, and the target of the venv copy);
- `venvSite`: the temporary venv's site-packages.

A distribution `m` is **installed** when `m` and its dependencies `Deps[m]`
are all in `sysSite \cup userSite`. It is **importable** when it is installed
and its name is also an import name. `BadImport` holds the distributions whose
name is not an import name, such as `pyyaml`.

The remaining state is the code's own:

- `pipx`: whether pipx is on PATH;
- `pc`: the position in the code, including the three return points;
- `todo`: the rest of the list the current loop iterates over;
- `missing`: `missing_modules`;
- `failed`: `strategy1_failed`;
- `failed2`: `remaining_failed`, the list the pipx loop builds;
- `finalMissing`: `final_missing`.

### Constants

- `Modules`: the distributions.
- `Rank`: the list order, used by `Earliest` for loops over lists.
- `Deps`: the dependencies of each distribution.
- `AptAvail`: the distributions that have an apt package.
- `HasApps`: the distributions for which `pipx install` exits 0.
- `VenvGlob`: the distributions whose site-packages directory matches the
  copy glob.
- `BadImport`: see above.

`ConstAssumption` states the hypotheses the proofs use. Two of them shape
what the chain can do:

- dependencies are closed: pip installs a distribution's dependencies with
  their own (`Deps[d] \subseteq Deps[m]` for every dependency `d` of `m`);
- a distribution whose package directory matches the copy glob
  (`glob(f'{module}*')`) carries its own name, so it is never one of
  `BadImport`.

Without the second, a venv copy could uninstall a dependency that is not in
the working set (e.g. `pyyaml` under a module that needs it), and the final
report would miss the module it breaks.

### Actions

There is one action per step of the code.

**Apt stage.** `AptBatch` and `AptOne(m)` model the two phases of
`safe_install_packages`. `AptOne` loops over a Python `set`, whose order is
arbitrary, so any remaining package may be installed next.

**Import check.** `Check` is the import loop.

**Strategies.**

- `S1(m)`: the strategy-1 pip install.
- `S2` and `S2Pipx(m)`: the pipx branch. When pipx is absent, it may get
  installed for a later run.
- `S3Skip`, `S3Venv`, `S3Pip(m)` and `S3Copy(m)`: strategy 3, with three copy
  outcomes:
  - skipped;
  - copied;
  - `copytree` raises after `rmtree` may or may not have run. This abandons
    the loop.
- `S4` and `S4Pip(m)`: strategy 4.

**Final check.** `Verify` is the last import check.

**Install outcomes.** A pip install either:

- exits 0 with the module and its dependencies installed (`PipOk`); or
- fails, having installed any subset of the dependencies (`PipFailed`).

### Runs

`chain_pass` (`MCPyModuleChain.cfg`) uses five distributions:

- `jinja2` and `mako`, both depending on `markupsafe`;
- `markupsafe`;
- `pygments`, the only one with pipx apps;
- `pyyaml`, which has no matching import name and no venv glob match.

It starts from every subset of `sysSite` and of `userSite`, with pipx both
present and absent. It reaches 537,238 distinct states in about 25 s and
checks the following properties.

- `TypeOK`.
- `ClaimImpliesInstalled`: at the two early returns ("all modules available"),
  every distribution is installed.
- `ReportComplete`: when the chain ends, every requested module that does not
  import is in the final report. `Verify` re-imports only `missing`, the
  working set fixed after the import check, while strategy 1 and the venv
  copies run later and the copies can uninstall modules. The property holds
  because a copy only removes modules of the working set, and a module that
  imported at the check has no dependency in the working set except those
  that can never import.
- `WorkingSetNested`: an action property. After strategy 1 no step adds to
  `strategy1_failed`.

The other four runs are each expected to find one property violated by the
code. Each is a finding.

| Run | Property | What the code does |
|---|---|---|
| `chain_trusts_exit_codes` | `BeliefSound` | Trusts pipx's exit code. A module installed into pipx's isolated venv is dropped from the working set while python3 still cannot import it. |
| `chain_retries_resolved` | `WorkingSetFresh` | Never recomputes `strategy1_failed`. `markupsafe`, installed as `mako`'s dependency, is handed to strategies 3 and 4. |
| `chain_venv_copy_uninstalls` | `NoStrategyUninstalls` | Runs `rmtree` before `copytree`. A failing copy uninstalls a working `markupsafe` and breaks `mako` and `jinja2`. They are still in the working set, so strategy 4 may reinstall `markupsafe` and `Verify` reports what stays broken, but the strategy itself removed a working module. |
| `chain_import_name_mismatch` | `ReportNoFalseAlarm` | Imports distribution names. `pyyaml` is reported missing once installed, by apt or by pip. |

**Bounds.** The five distributions cover every case the chain branches on:

- a shared dependency, so one install can satisfy another item;
- a module that pipx "succeeds" on;
- a module outside the copy glob;
- a module with a bad import name;
- every initial split of the sites.

A sixth distribution would repeat one of these roles. The violation runs use
three distributions, the least that shows each scenario.

**Mutants.** Each property of `chain_pass` is broken by one plausible bug,
listed in `PROJECT.json`:

- strategy 1 ignoring pip's exit code;
- strategy 2 passing on every missing module;
- a mislabelled strategy 4;
- a verification that reports the stale working set.

### Proofs (`PyModuleChainProofs`)

TLAPS proves these results for all constants that satisfy `ConstAssumption`.

**`TypeCorrect`: `Spec => []TypeOK`.** The proof rests on:

- `TypeStep`, one case per action;
- the lemma `PipGrows`: a pip install only adds to a site, and only the
  module and its dependencies.

**`ClaimsTrue`: `Spec => []ClaimImpliesInstalled`.** The property is not
inductive on its own. The strengthening `ClaimInv` adds:

- no module is in the working set before strategy 1;
- during strategy 1, every module neither still to be tried nor already
  failed is installed;
- at `ret_apt` every module imports.

Pip only adds to the sites, so "installed" is preserved. Each strategy-1 step
either installs its module or records it as failed. When the loop ends with
nothing failed, every module is therefore installed.

**`WorkingSetShrinks`: `Spec => WorkingSetNested`.** The proof uses the
inductive `NestInv`: during the pipx loop, both the list still to try and
`remaining_failed` are within `strategy1_failed`.

**`ReportCorrect`: `Spec => []ReportComplete`.** The property is not
inductive alone. The strengthening `RCInv` says:

- before the import check nothing has failed and, in the apt batch and the
  check, nothing is queued;
- after the check, every module outside `missing` imported at the check and
  still does: each of its dependencies in `missing` is one of `BadImport`,
  so no rmtree of a working-set module can reach it;
- after the check, every list the strategies walk is within `missing`;
- at `done`, `finalMissing` is exactly the modules of `missing` that do not
  import.

The steps that change the sites only add to them (lemma `SitesGrow`), except
`S3Copy`'s rmtree, which removes a module of the working set; a module that
imports outside the working set keeps importing through it because its
dependencies are closed and none is in the venv glob and in `BadImport` at
once. `RCStep` has one case per action.

## Provision: repeated runs of configure.py on one machine

`Provision` models what `main()` does on Linux, run after run on the same
machine. It covers the stage order of `run()`, the vcpkg checkout, and the
exports `EnvironmentManager` writes into the shell profiles. The Python-module
chain is abstracted away here; `PyModuleChain` covers it.

### State

The state that persists across runs:

- `vdir`: the tools/vcpkg checkout, one of `absent`, `partial`, `cloned` or
  `built`. `partial` is what a killed clone leaves.
- `toolsOk`: whether `check_basic_tools` finds everything.
- `varIn` and `pathIn`: the profiles that hold an export of `VCPKG_ROOT`, and
  those that hold the PATH line.
- `pm`: the package manager `_detect_package_manager` finds, or `none`.

The state of one process:

- `pc`: the stage;
- `envVar` and `envPath`: the process environment. They record whether
  `VCPKG_ROOT` is set and how often PATH lists the vcpkg directory.
- `regVar`: whether `add_env_var` has run;
- `result`: how the process ended, one of `ok`, `fail`, `traceback` or
  `killed`;
- `fault`: whether something went wrong in this run (a failed command or a
  kill).

Bookkeeping: `runs` and `crashes`.

### Constants

- `Configs`: the shell profiles, in candidate order by `CRank` (`First`).
- `Writable`: the profiles that can be written.
- `Sourced`: the profiles the user's login shell sources. A new process
  inherits the exports of those profiles (`StartVar`, `StartPath`).
- `PkgMgrs`: the managers the machine may have.
- `MaxRuns` and `MaxCrashes`: the bounds.

### Actions

| Action | Code |
|---|---|
| `Construct` | `EnvironmentConfigurator.__init__`; `RuntimeError` outside `run()`'s try when no manager is found |
| `BasicTools` | `_check_and_install_basic_tools`, `install_basic_dependencies`: apt may raise on `apt-get update`; yum and dnf never get their tools, because `safe_install_packages` always runs apt-get |
| `VCheck` | `check_vcpkg` and the branch of `_check_and_install_vcpkg` |
| `Clone`, `Boot` | `VcpkgInstaller.install`: clone, or `git pull` with its failure ignored, then the bootstrap |
| `RegVar` | `add_env_var` (`check_env_var_exists` is `VarExists`) |
| `RegPath` | `add_to_path` (`PathListed`) and `_add_unix_path`, which passes over a profile that already holds the line |
| `Setup` | `_setup_environment` (`reload_environment`, which may prepend PATH again) and `_verify_installation`, which only logs |
| `Fail` | `run()`'s `except Exception` |
| `Crash` | the process is killed; a kill during the clone may leave a partial checkout |
| `Rerun` | the user starts `main()` again, perhaps after deleting tools/vcpkg |

**Fairness.** `Spec` has weak fairness on `RunStep`, the steps of the running
process. The process is sequential and never waits on another actor. Kills
and reruns are the user's choice, so they are not forced.

### Runs

`provision_pass` (`MCProvision.cfg`) uses:

- two profiles, `.bashrc` and `.zshrc`, both writable;
- a zsh login shell;
- all five package-manager outcomes;
- three runs and one kill.

It reaches 2,247 distinct states and checks:

- `TypeOK`;
- `VarExportedOnce`: at most one profile ever exports `VCPKG_ROOT`;
- `SuccessMeansUsable`: a run that returns True leaves a built vcpkg;
- `ImplementsProvisionSpec`: the runs implement `ProvisionSpec` (see below).

The bounds are enough for every effect that needs several runs:

- a kill, then a run that finds the result of the kill;
- a deletion of tools/vcpkg between runs;
- a third run after that.

Two profiles with a login shell that sources only one of them is the least
setup in which the process environment and the profiles disagree.

The violation runs each show one finding:

| Run | Property | What the code does |
|---|---|---|
| `provision_path_dup` | `PathExportedOnce` | A zsh user's PATH export sits in `.bashrc`. After tools/vcpkg is deleted, a rerun appends a second export to `.zshrc` (`_add_unix_path` only skips a profile that already holds the line). |
| `provision_crash_unregistered` | `RegisteredAfterSuccess` | A kill between the bootstrap and `add_env_var` leaves vcpkg built. Every later run passes `check_vcpkg`, so it never writes `VCPKG_ROOT` to a profile, and still reports success. |
| `provision_no_write` | `VarSetInProcess` | When no profile can be written, `add_env_var` returns False and does not set the variable in the process either. |
| `provision_partial_clone` | `NoPermanentFailure` | A kill during `git clone` leaves a partial checkout. `git pull` fails and is ignored, the bootstrap then fails, and so does every later run. |

**Mutants.** Each property of `provision_pass` is broken by one of these:

- a misspelt stage breaks `TypeOK`;
- an existence check that looks at `os.environ` only breaks
  `VarExportedOnce`;
- an unchecked bootstrap exit code breaks `SuccessMeansUsable`;
- a failed clone that leaves its directory behind breaks
  `ImplementsProvisionSpec`.
  That would be an ABSENT -> CLONED move with the run failing, which the
  installer state machine does not allow.

### The abstract specification (`ProvisionSpec`)

`ProvisionSpec` states what spec.md sections 4.6 and 4.7 promise for
repeated runs, leaving out stages, the process environment and the PATH line.
Its state:

- `tool`: ABSENT, CLONED or BOOTSTRAPPED;
- `phase`: running or idle;
- `outcome`: none, success, failure or killed;
- `exports`: the profiles that export `VCPKG_ROOT`.

Its steps:

- `Clone`: ABSENT to CLONED.
- `Bootstrap`: CLONED to BOOTSTRAPPED.
- `Register`: writes one profile, only once the tool is bootstrapped and
  only when no profile exports the variable.
- `Succeed`: only when bootstrapped.
- `FailRun`: any stage's error ends the run.
- `Kill`: a kill during the clone may leave the directory CLONED.
- `Start`: a new run, perhaps after the user deleted the directory.

Weak fairness on ending a run makes every run end.

The refinement mapping is in `Provision`:

- `Tool(vdir)` maps a partial checkout to CLONED. The directory exists, and
  only the bootstrap can tell it is broken.
- `pc = "exit"` is idle.
- `Outcome` maps the traceback exit to failure.
- `exports` is `varIn`.

Under this mapping `Construct`, `BasicTools`, `VCheck`, `RegPath`, a `RegVar`
that writes nothing, and `Done` are stutters.

### Proofs (`ProvisionProofs`)

These are proved for every set of profiles and every bound.
`ConstAssumption` includes that every non-empty set of profiles has a first
one in candidate order (`FirstIn`). `CRank` is injective into `Nat`, which
guarantees this, but the standard library has no least-element lemma to cite.

- `TypeCorrect`: `Spec => []TypeOK`.
- `VarOnce`: `Spec => []VarExportedOnce`. The property is inductive as it
  stands: `RegVar` writes only when no profile holds the export, and then to
  a single profile.
- `SuccessUsable`: `Spec => []SuccessMeansUsable`. The property is not
  inductive alone. `UsableInv` adds that the registration and setup stages
  are only reached with vcpkg built. A kill resets `pc` to `exit` with
  `result = "killed"`, and a rerun starts at `init`.

- `RefinesSafety`: `Spec => Abs!Init /\ [][Abs!Next]_Abs!vars`, the safety
  part of `ImplementsProvisionSpec`. It uses the invariant `RefInv`, which is
  `UsableInv` plus `CloneFresh`: the clone stage is entered only with no
  checkout. `check_vcpkg`'s branch is the only way to it. `CloneFresh` is
  what makes a clone step an abstract `Clone`, and a kill during it an
  abstract `Kill`. `StepRefines` maps each action, split by its outcome, to
  one abstract step or a stutter:
  - `RegVar` that writes maps to `Register`. When `VarExists` is false,
    `varIn` is empty, and `First(Writable)` is in `Writable` (`FirstIn`).
  - `Setup` maps to `Succeed`, by `UsableInv`.
  - `Crash` maps to `Kill`.
  - `Rerun` maps to `Start`.

  The inductive step of `UsableInv` is the lemma `UsableStep`, which both
  `SuccessUsable` and `RefInvStep` cite.

The fairness part of `ImplementsProvisionSpec` is only model-checked.

## BenchCompare: `benchmark.py compare`

`BenchCompare` models `cmd_compare` without file arguments. Its state:

- the timestamp in each file's name (`stamp`);
- the files `load_benchmark_results` reads to a non-empty result (`loads`);
- the `--threshold` argument (`thrArg`) and `--higher-is-better`;
- the two times of one benchmark present in both files;
- the stage `st`;
- the category and the printed label.

`PickNew` models the choice of the new file in `cmd_compare`
(`find_most_recent_result`, exit 1 when there is none) followed by its load
(exit 1 when it fails). `PickOld` models the choice of the old file
(`find_most_recent_previous_result`, the summary when there is none, with the
candidate set `Previous`) followed by its load, which may fail the same
way. `Compare` covers
`calculate_change_percentage`, the categorisation loop of
`compare_benchmarks`, and `format_percentage_change`. Times are whole numbers
and the threshold is a whole percentage. The percentage is kept as a
numerator and a denominator, so the comparisons are exact.

`BenchCompareSpec` is the abstract command. In one step it does one of:

- stops when there are no results;
- stops with a load error when the newest result, or the latest result
  before it, does not load (`LoadError`);
- summarises the newest result when nothing is earlier;
- compares the newest result with the latest strictly earlier one, and
  classifies the benchmark as faster or slower by at least the threshold in
  force (`Classify`).

`BenchCompare` instantiates it as `Abs` with this refinement mapping:

- the abstract threshold is `Threshold(thrArg)`;
- the outcome is `running` until `st` reaches an end;
- the chosen files become visible with the outcome.

**Runs.** `bench_pass` (`MCBenchCompare.cfg`) uses:

- three files over two timestamps, so two files can share one and a file may
  have none;
- times 0..4;
- thresholds unset, 0, 1 and 50;
- every set of files that fail to load.

It reaches 148,000 distinct states and checks:

- `ComparesOlderWithNewer`;
- `CategoryMatchesRef`;
- `ImplementsCompareSpec` (`Abs!Spec`, finishing included, under weak fairness of
  `Next`).

Times 0..4 with thresholds 1 and 50 put changes both below and exactly at the
threshold (4 to 2 is -50%).

`bench_label` finds that a benchmark present in both files whose old time is
0 is printed as "new benchmark" (`LabelAgreesWithCategory`).

**Mutants.**

- A previous-result search that admits a file with the same timestamp breaks
  `ComparesOlderWithNewer`.
- A categorisation that counts a change exactly at the threshold as unchanged
  breaks `CategoryMatchesRef`.
- A comparison that skips the check of the old file's load
  (`if not old_results: sys.exit(1)`) breaks `ImplementsCompareSpec`: it
  compares where the abstract command ends with a load error.

**Proofs (`BenchCompareProofs`).**

- `CategoryCorrect`: `Spec => []CategoryMatchesRef`, for all times and every
  whole-number threshold `from_args` can produce. It rests on two lemmas:
  - `ThresholdPositive`: the threshold in force is never 0;
  - `CategoryIsRef`: the percentage test agrees with the reference. The proof
    has one case per ordering of the two times and per side of the threshold.
- `RefinesSafety`: `Spec => Abs!Init /\ [][Abs!Next]_Abs!vars`.
  - The invariant `RefInv` records what each stage has established: the
    newest file once it is chosen and that it loaded, the latest earlier
    file once it is chosen and that it loaded, and the category once it is
    computed.
  - `StepRefines` maps `PickNew` to the end, the load error or a stutter,
    `PickOld` to the summary, the load error or a stutter, and `Compare` to
    the abstract comparison.
  - The fairness part of `ImplementsCompareSpec` is left to TLC.
- `ChoiceCorrect`: `Spec => []ComparesOlderWithNewer`, from the same
  `RefInv`. The new file is the latest of the stamped results. The old file
  is the latest of those stamped strictly before it. Any result strictly
  between the two would then lie in the second set with a larger stamp than
  the old file, which contradicts the choice of the old file.

A `--threshold 0` is ignored by `from_args` (`if args.threshold:`). This is
recorded as a hazard: `Threshold` models that line, and a property about it
would only restate it.

`--threshold` is parsed as a float with no range check. The model and the
proofs take whole, non-negative thresholds. A negative threshold would count
an unchanged time as a regression or an improvement; that is recorded as a
hazard and not checked.

## What the prover cannot reach

The following are only model-checked:

- liveness: the fairness parts of `ImplementsProvisionSpec` and
  `ImplementsCompareSpec`. These need fairness and `ENABLED`, which the
  provers here do not handle.

Every invariant and action property of a passing run has a theorem.

## Plan

1. An abstract specification of the Python-module chain's promise: it
   the still-missing set is complete. Then a refinement from
   `PyModuleChain`.
2. The code-quality mode (`_install_code_quality_tools_only`, the cpplint
   ladder) as a further path of `Provision`.
3. `PlatformDetector` as pure operators, with the `is_wsl` double read.
4. The torn profile write at `_add_unix_env_var` (a kill mid-append), which
   needs profiles as sequences of lines.

## Not modelled

- Output text, logging and colours, and `benchmark.py`'s `analyze`, `list`,
  JSON parsing and summary printing (a load is only success or failure). These are formatting and I/O, with no
  state a property could tell apart.
- The Windows branches of `EnvironmentManager` and the Windows installer.
  The configurator never constructs the installer.
- `MacOSDependencyInstaller` and `PlatformDetector`. They are not modelled
  yet; see the plan.
- The command-line options of `configure.py`. `--no-deps`, `--no-vcpkg` and
  `--platform` are parsed and never read, and `--no-python-modules` sets an
  attribute nothing reads.
- The contents of downloaded files, and package versions.
- A command that never returns. Every command is modelled as returning with
  some exit code; `configure.py` gives none a timeout, which is recorded as a
  hazard.
- The value of an export. There is one repository location, so a stale
  `VCPKG_ROOT` cannot be expressed; it is recorded as a hazard.
