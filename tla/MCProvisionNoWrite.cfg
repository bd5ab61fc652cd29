\* No profile can be written.
CONSTANTS
    Configs = {"bashrc", "zshrc"}
    CRank <- MCRank
    Writable = {}
    Sourced = {"bashrc"}
    PkgMgrs = {"apt"}
    MaxRuns = 1
    MaxCrashes = 0
SPECIFICATION Spec
INVARIANT VarSetInProcess
