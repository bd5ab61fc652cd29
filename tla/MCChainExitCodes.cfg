\* No apt packages; pygments has console scripts, so pipx can exit 0 for it.
CONSTANTS
    Modules = {"jinja2", "markupsafe", "pygments"}
    Rank <- MCRank
    Deps <- MCDeps
    AptAvail = {}
    HasApps = {"pygments"}
    VenvGlob = {"jinja2", "markupsafe", "pygments"}
    BadImport = {}
SPECIFICATION Spec
INVARIANT
    BeliefSound
