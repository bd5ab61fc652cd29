\* No apt packages and no pipx success: strategies 1 and 3 must do the work.
CONSTANTS
    Modules = {"jinja2", "markupsafe", "mako"}
    Rank <- MCRank
    Deps <- MCDeps
    AptAvail = {}
    HasApps = {}
    VenvGlob = {"jinja2", "markupsafe", "mako"}
    BadImport = {}
SPECIFICATION Spec
INVARIANT
    WorkingSetFresh
