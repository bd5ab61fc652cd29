\* Two writable profiles, a zsh user (its shell sources .zshrc only), every package manager, three runs, one kill.
CONSTANTS
    Configs = {"bashrc", "zshrc"}
    CRank <- MCRank
    Writable = {"bashrc", "zshrc"}
    Sourced = {"zshrc"}
    PkgMgrs = {"apt", "yum", "dnf", "pacman", "none"}
    MaxRuns = 3
    MaxCrashes = 1
SPECIFICATION Spec
INVARIANTS
    TypeOK
    VarExportedOnce
    SuccessMeansUsable
PROPERTIES
    ImplementsProvisionSpec
