-------------------------- MODULE MCTenantRegistry --------------------------
(* Model values for the checks of TenantRegistry.                          *)
EXTENDS TenantRegistry

CONSTANTS c1, c2, r1
=============================================================================
