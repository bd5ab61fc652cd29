\* A bash user whose first run is killed.
CONSTANTS
    Configs = {"bashrc", "zshrc"}
    CRank <- MCRank
    Writable = {"bashrc", "zshrc"}
    Sourced = {"bashrc"}
    PkgMgrs = {"apt"}
    MaxRuns = 2
    MaxCrashes = 1
SPECIFICATION Spec
INVARIANT RegisteredAfterSuccess
