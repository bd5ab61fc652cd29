----------------------------- MODULE MCProvision -----------------------------
(* Instances of Provision: the profile files in the order                  *)
(* _get_shell_configs lists them (.bashrc, then .zshrc).                   *)
EXTENDS Provision

MCRank == [f \in Configs |-> IF f = "bashrc" THEN 1 ELSE 2]
=============================================================================
