\* All five kinds of module at once: every strategy and every outcome.
CONSTANTS
    Modules = {"jinja2", "markupsafe", "mako", "pygments", "pyyaml"}
    Rank <- MCRank
    Deps <- MCDeps
    AptAvail = {"jinja2", "markupsafe", "mako", "pygments", "pyyaml"}
    HasApps = {"pygments"}
    VenvGlob = {"jinja2", "markupsafe", "mako", "pygments"}
    BadImport = {"pyyaml"}
SPECIFICATION Spec
INVARIANTS
    TypeOK
    ClaimImpliesInstalled
    ReportComplete
PROPERTIES
    WorkingSetNested
