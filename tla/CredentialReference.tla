------------------------ MODULE CredentialReference ------------------------
(***************************************************************************)
(* What the credential broker promises about a tenant's reference, without *)
(* clients, compare-and-swap or deaths: every change is one step, taken on *)
(* the reference as it is at that moment, and gets the next epoch.  A      *)
(* rotation retires the epoch it replaces before it ends.  The header of   *)
(* scripts/cwk_credential_broker.py calls it dual-write reference rotation *)
(* with an atomic pointer swap.                                            *)
(***************************************************************************)
EXTENDS Naturals

CONSTANT Tenants

VARIABLES ref,      \* each tenant's reference
          retired   \* <<tenant, epoch>> of the references rotated away

vars == <<ref, retired>>

NoReference == [epoch |-> 0, status |-> "none", rotation |-> "stable", previous |-> 0]

Init == /\ ref = [t \in Tenants |-> NoReference]
        /\ retired = {}

\* The reference of t becomes another one, at the next epoch.
Become(t, status, rotation, previous) ==
  ref' = [ref EXCEPT ![t] = [epoch |-> ref[t].epoch + 1, status |-> status,
                             rotation |-> rotation, previous |-> previous]]

Set(t) ==
  /\ Become(t, "active", "stable", ref[t].epoch)
  /\ UNCHANGED retired

\* A reference is disabled or revoked, not in the middle of a rotation.
ChangeStatus(t, status) ==
  /\ ref[t].status \notin {"none", status} /\ ref[t].rotation = "stable"
  /\ Become(t, status, "stable", ref[t].previous)
  /\ UNCHANGED retired

BeginRotation(t) ==
  /\ ref[t].status = "active" /\ ref[t].rotation = "stable"
  /\ Become(t, "rotating", "dual_write", ref[t].epoch)
  /\ UNCHANGED retired

\* An epoch that is in force no more is retired.
Retire(t) ==
  /\ \E e \in 1..ref[t].epoch : /\ e < ref[t].epoch
                                /\ retired' = retired \cup {<<t, e>>}
  /\ UNCHANGED ref

\* A rotation ends when what it replaces is retired.
EndRotation(t) ==
  /\ ref[t].rotation = "dual_write" /\ <<t, ref[t].previous>> \in retired
  /\ Become(t, "active", "stable", ref[t].epoch)
  /\ UNCHANGED retired

Next == \E t \in Tenants :
          \/ Set(t) \/ BeginRotation(t) \/ Retire(t) \/ EndRotation(t)
          \/ \E s \in {"disabled", "revoked"} : ChangeStatus(t, s)

Spec == Init /\ [][Next]_vars
=============================================================================
