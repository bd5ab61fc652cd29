\* pyyaml is a distribution name, not an import name; every package exists.
CONSTANTS
    Modules = {"jinja2", "markupsafe", "pyyaml"}
    Rank <- MCRank
    Deps <- MCDeps
    AptAvail = {"jinja2", "markupsafe", "pyyaml"}
    HasApps = {}
    VenvGlob = {"jinja2", "markupsafe"}
    BadImport = {"pyyaml"}
SPECIFICATION Spec
INVARIANT
    ReportNoFalseAlarm
