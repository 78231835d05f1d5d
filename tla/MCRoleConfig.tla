---------------------------- MODULE MCRoleConfig ----------------------------
(* A small instance of RoleConfig; the bounds are in the configurations.    *)
EXTENDS RoleConfig
=============================================================================
