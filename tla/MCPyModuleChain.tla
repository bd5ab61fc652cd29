--------------------------- MODULE MCPyModuleChain ---------------------------
(* Instances of PyModuleChain: jinja2 and mako both need markupsafe (as in *)
(* the real list, jinja2 comes first and mako after markupsafe); pygments  *)
(* has console scripts; pyyaml is not an import name and its package       *)
(* directory (yaml) does not match the venv glob.                          *)
EXTENDS PyModuleChain


MCRank == [m \in Modules |->
             CASE m = "jinja2" -> 1 [] m = "markupsafe" -> 2
               [] m = "pyyaml" -> 3 [] m = "mako" -> 4 [] m = "pygments" -> 5]

MCDeps == [m \in Modules |->
             IF m \in {"jinja2", "mako"} THEN {"markupsafe"} ELSE {}]
=============================================================================
