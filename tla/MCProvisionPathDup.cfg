\* A zsh user (its shell sources .zshrc only) who deletes tools/vcpkg between two runs.
CONSTANTS
    Configs = {"bashrc", "zshrc"}
    CRank <- MCRank
    Writable = {"bashrc", "zshrc"}
    Sourced = {"zshrc"}
    PkgMgrs = {"apt"}
    MaxRuns = 2
    MaxCrashes = 0
SPECIFICATION Spec
INVARIANT PathExportedOnce
