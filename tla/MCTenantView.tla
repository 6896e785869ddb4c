---------------------------- MODULE MCTenantView ----------------------------
(* Model values for the checks of TenantView.                              *)
EXTENDS TenantView

CONSTANTS g1, w1, r1, a1
=============================================================================
