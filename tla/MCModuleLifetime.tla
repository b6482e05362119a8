-------------------------- MODULE MCModuleLifetime --------------------------
(* Instances of ModuleLifetime for TLC. *)
EXTENDS ModuleLifetime
=============================================================================
