-------------------------- MODULE CredentialBroker --------------------------
(***************************************************************************)
(* The credential references of scripts/cwk_credential_broker.py: set,     *)
(* disable, revoke, and the rotation of a reference in two calls, begin    *)
(* and finalize.  The record of a tenant is at the key that is its id.     *)
(*                                                                         *)
(* The references themselves, and the material a lease reads from the      *)
(* backend, are left out: a lease changes no file.                         *)
(***************************************************************************)
EXTENDS EpochCommit

VARIABLE retired   \* credential tombstones: <<tenant, credential epoch>>

CredentialStates == {"active", "disabled", "revoked", "rotating"}

Credential == [tenant : Tenants, epoch : Nat \ {0}, status : CredentialStates,
               rotation : {"stable", "dual_write"}, previous : Nat, txn : Txns]

ASSUME CredentialAssumption == Tenants \subseteq Keys /\ Absent \notin Credential

Rotating(t) ==
  IF store[t] = Absent THEN FALSE ELSE store[t].rotation = "dual_write"

vars == <<commitVars, retired>>

Init == CommitInit /\ retired = {}

\* The record read, and the one to write.
Replacement(name, t, status, rotation, previous) ==
  Job([name |-> name], t, store[t],
    [tenant |-> t, epoch |-> EpochAt(t) + 1, status |-> status,
     rotation |-> rotation, previous |-> previous, txn |-> nextTxn], t)

Replace(c, name, t, status, rotation, previous) ==
  Prepare(c, Replacement(name, t, status, rotation, previous))

SetReference(c, t) ==
  /\ work[c] = NoJob
  /\ tenantStatus[t] # "offboarded"
  /\ Replace(c, "set", t, "active", "stable", EpochAt(t))
  /\ UNCHANGED <<tenantVars, store, receipts, crashes, cut, retired>>

\* Mutant: a status change does not look at the rotation.
ChangeStatusAnyTime(c, t, status) ==
  /\ work[c] = NoJob
  /\ StatusAt(t) \notin {"none", status}
  /\ Prepare(c, Job([name |-> status], t, store[t],
       [store[t] EXCEPT !.epoch = @ + 1, !.status = status, !.txn = nextTxn], t))
  /\ UNCHANGED <<tenantVars, store, receipts, crashes, cut, retired>>

\* disable, revoke.
ChangeStatus(c, t, status) ==
  /\ work[c] = NoJob
  /\ StatusAt(t) \notin {"none", status} /\ ~Rotating(t)
  /\ Replace(c, status, t, status, "stable", store[t].previous)
  /\ UNCHANGED <<tenantVars, store, receipts, crashes, cut, retired>>

\* Mutant: the new record does not say which epoch it replaces.
CredentialRotateBeginForgets(c, t) ==
  /\ work[c] = NoJob
  /\ StatusAt(t) = "active" /\ ~Rotating(t)
  /\ Replace(c, "rotation_begin", t, "rotating", "dual_write", 1)
  /\ UNCHANGED <<tenantVars, store, receipts, crashes, cut, retired>>

CredentialRotateBegin(c, t) ==
  /\ work[c] = NoJob
  /\ StatusAt(t) = "active" /\ ~Rotating(t)
  /\ Replace(c, "rotation_begin", t, "rotating", "dual_write", store[t].epoch)
  /\ UNCHANGED <<tenantVars, store, receipts, crashes, cut, retired>>

\* What a finalize is to write, from the record it reads.
CredentialRotateFinalize(c, t) ==
  /\ work[c] = NoJob
  /\ Rotating(t)
  /\ Prepare(c,
       [Replacement("rotation_finalize", t, "active", "stable", store[t].epoch)
          EXCEPT !.pc = "retire"])
  /\ UNCHANGED <<tenantVars, store, receipts, crashes, cut, retired>>

Tombstone(c) == <<work[c].key, work[c].prior.previous>>

\* The tombstone of the old reference, which must not exist.
RetireReference(c) ==
  /\ At(c, "retire")
  /\ Tombstone(c) \notin retired
  /\ retired' = retired \cup {Tombstone(c)}
  /\ Goto(c, "record")
  /\ UNCHANGED <<tenantVars, fileVars, boundVars, cut>>

RetireRefused(c) ==
  /\ At(c, "retire")
  /\ Tombstone(c) \in retired
  /\ Return(c)
  /\ UNCHANGED <<tenantVars, fileVars, boundVars, cut, retired>>

CredentialReturns(c) ==
  /\ Committed(c)
  /\ work[c].op.name \in {"set", "disabled", "revoked", "rotation_begin",
                          "rotation_finalize"}
  /\ Return(c)
  /\ UNCHANGED retired

Next ==
  \/ \E c \in Clients :
       \/ \E t \in Tenants :
            \/ SetReference(c, t) \/ CredentialRotateBegin(c, t)
            \/ CredentialRotateFinalize(c, t)
            \/ \E s \in {"disabled", "revoked"} : ChangeStatus(c, t, s)
       \/ RetireReference(c) \/ RetireRefused(c) \/ CredentialReturns(c)
       \/ (Commit(c) \/ Crash(c)) /\ UNCHANGED retired
  \/ /\ \E t \in Tenants : ForeignBump(t) \/ SetTenantStatus(t)
     /\ UNCHANGED retired

Spec == Init /\ [][Next]_vars

-----------------------------------------------------------------------------
(* Properties.                                                             *)

\* Types of the records, the receipts and the tombstones.
TypeOK ==
  /\ authEpoch \in [Tenants -> 1..MaxSafeEpoch]
  /\ tenantStatus \in [Tenants -> StatusesInPlay]
  /\ store \in [Keys -> Credential \cup {Absent}]
  /\ receipts \subseteq [key : Keys, epoch : Nat \ {0}, txn : Txns]
  /\ retired \subseteq Tenants \X Nat

\* A reference whose tombstone is written is never the one in force: no call
\* that read the record before the rotation puts the old epoch back.
RetiredNeverInForce == \A t \in Tenants : <<t, EpochAt(t)>> \notin retired

\* A rotation of a reference that was begun can be finalized: the place of
\* its tombstone is free, unless a finalize of this reference has written it
\* and not yet its record, or was cut short.
FinalizeNotBlocked ==
  \A t \in Tenants :
    Rotating(t) /\ <<t, store[t].previous>> \in retired
      => \/ \E c \in Clients : /\ At(c, "record") /\ work[c].key = t
                               /\ work[c].op.name = "rotation_finalize"
         \/ [key |-> t, pc |-> "record"] \in cut

\* The references as the broker promises them: record and tombstones.
Ref == [t \in Tenants |->
  [epoch    |-> EpochAt(t),
   status   |-> StatusAt(t),
   rotation |-> IF Rotating(t) THEN "dual_write" ELSE "stable",
   previous |-> IF store[t] = Absent THEN 0 ELSE store[t].previous]]

Promise == INSTANCE CredentialReference WITH ref <- Ref

\* Every record a call writes is one whole operation on the reference in
\* force at that moment, though calls read it long before, without a lock.
\* (_commit: cas_write against the sha the call has read.)
ImplementsReference == Promise!Spec
=============================================================================
