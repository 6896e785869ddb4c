--------------------------- MODULE EpochRegister ---------------------------
(***************************************************************************)
(* What cwk_tenant_registry.py promises its callers about a tenant: it is  *)
(* created once, and from then on auth_epoch and record_revision move only *)
(* forward, one at a time, an epoch never without a revision.              *)
(***************************************************************************)
EXTENDS Naturals

VARIABLES epoch, revision   \* 0 while the tenant does not exist

vars == <<epoch, revision>>

Init == epoch = 0 /\ revision = 0

Create == /\ revision = 0
          /\ epoch' = 1
          /\ revision' = 1

BumpEpoch == /\ revision > 0
             /\ epoch' = epoch + 1
             /\ revision' = revision + 1

BumpRevision == /\ revision > 0
                /\ revision' = revision + 1
                /\ UNCHANGED epoch

Next == Create \/ BumpEpoch \/ BumpRevision

Spec == Init /\ [][Next]_vars
=============================================================================
