---------------------------- MODULE MCSeedSync ----------------------------
(***************************************************************************)
(* SeedSync for two subdomains and a few seeds.                            *)
(***************************************************************************)
EXTENDS SeedSync
=============================================================================
