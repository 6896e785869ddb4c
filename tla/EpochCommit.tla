---------------------------- MODULE EpochCommit ----------------------------
(***************************************************************************)
(* The commit shared by the binding registry (cwk_agent_binding.py) and    *)
(* the credential store (cwk_credential_broker.py): journal, record by     *)
(* compare-and-swap, receipt, bump of the tenant's auth_epoch, journal     *)
(* removed.  Each file is written atomically, and nothing is locked beyond *)
(* one write, so every write is a step and callers interleave.  A read of  *)
(* the tenant is one step with the write or the conflict before it: until  *)
(* it happens the call knows nothing of what others do in between.         *)
(*                                                                         *)
(* The journal is left out: recover() of both stores unlinks every journal *)
(* and looks into none, and no other code reads one.                       *)
(***************************************************************************)
EXTENDS Naturals, FiniteSets

CONSTANTS
  Clients,         \* processes calling the two stores
  Tenants,
  Keys,            \* record files of the two stores
  Absent,          \* no such file
  StatusesInPlay,  \* bound: tenant statuses the administrator uses
  MaxSafeEpoch,    \* 2^53 - 1 in the code
  MaxForeign,      \* bound: other writers raise an epoch up to it
  MaxTxns,         \* bound on transactions
  MaxCrashes       \* bound on calls that die

ASSUME EpochCommitAssumption ==
  /\ MaxSafeEpoch \in Nat \ {0}
  /\ MaxForeign \in 1..MaxSafeEpoch
  /\ MaxTxns \in Nat
  /\ MaxCrashes \in Nat

VARIABLES
  authEpoch,    \* tenant records: auth_epoch
  tenantStatus, \* tenant records: status
  store,        \* record files
  receipts,     \* receipt files, [key, epoch, txn]
  work,         \* what each client is doing
  nextTxn,
  crashes,
  cut           \* history: <<key, pc>> of calls that ended half way

tenantVars == <<authEpoch, tenantStatus>>
fileVars   == <<store, receipts>>
boundVars  == <<nextTxn, crashes>>
commitVars == <<tenantVars, fileVars, work, boundVars, cut>>

Txns  == 1..MaxTxns
NoJob == [pc |-> "idle", key |-> Absent, op |-> [name |-> "none"]]

\* The job of a prepared call: replace prior by next at key, bump tenant.
Job(op, key, prior, next, tenant) ==
  [pc |-> "record", op |-> op, key |-> key, prior |-> prior, next |-> next,
   txn |-> nextTxn, todo |-> {tenant}, tenant |-> tenant, seen |-> 0]

EpochAt(k)  == IF store[k] = Absent THEN 0 ELSE store[k].epoch
StatusAt(k) == IF store[k] = Absent THEN "none" ELSE store[k].status

At(c, l)   == work[c].pc = l
Goto(c, l) == work' = [work EXCEPT ![c].pc = l]
Return(c)  == work' = [work EXCEPT ![c] = NoJob]

\* The call raises: whoever looks at its files finds them half way.
GiveUp(c) ==
  /\ Return(c)
  /\ cut' = cut \cup {[key |-> work[c].key, pc |-> work[c].pc]}

Prepare(c, job) ==
  /\ nextTxn <= MaxTxns
  /\ nextTxn' = nextTxn + 1
  /\ work' = [work EXCEPT ![c] = job]

CommitInit ==
  /\ authEpoch = [t \in Tenants |-> 1]
  /\ tenantStatus \in [Tenants -> StatusesInPlay]
  /\ store = [k \in Keys |-> Absent]
  /\ receipts = {}
  /\ work = [c \in Clients |-> NoJob]
  /\ nextTxn = 1
  /\ crashes = 0
  /\ cut = {}

-----------------------------------------------------------------------------
(* _commit_binding, _commit.                                               *)

\* Mutant: the record is replaced whatever is on disk.
WriteRecordBlind(c) ==
  /\ At(c, "record")
  /\ store' = [store EXCEPT ![work[c].key] = work[c].next]
  /\ Goto(c, "receipt")
  /\ UNCHANGED <<tenantVars, receipts, boundVars, cut>>

WriteRecord(c) ==
  /\ At(c, "record")
  /\ store[work[c].key] = work[c].prior
  /\ store' = [store EXCEPT ![work[c].key] = work[c].next]
  /\ Goto(c, "receipt")
  /\ UNCHANGED <<tenantVars, receipts, boundVars, cut>>

RevisionConflict(c) ==
  /\ At(c, "record")
  /\ store[work[c].key] # work[c].prior
  /\ GiveUp(c)
  /\ UNCHANGED <<tenantVars, fileVars, boundVars>>

\* Go on to the bump of one of the tenants left, with its epoch as read now.
NextBump(c, tenants) ==
  IF tenants = {} THEN Goto(c, "done")
  ELSE \E t \in tenants :
         work' = [work EXCEPT ![c].pc = "bump", ![c].todo = tenants,
                              ![c].tenant = t, ![c].seen = authEpoch[t]]

\* Mutant: a binding that ends is not receipted.
WriteReceiptIfActive(c) ==
  /\ At(c, "receipt")
  /\ receipts' = IF work[c].next.status # "active" THEN receipts
       ELSE receipts \cup {[key |-> work[c].key, epoch |-> work[c].next.epoch,
                            txn |-> work[c].txn]}
  /\ NextBump(c, work[c].todo)
  /\ UNCHANGED <<tenantVars, store, boundVars, cut>>

\* The receipt, and the first read of the tenant.
WriteReceipt(c) ==
  /\ At(c, "receipt")
  /\ receipts' = receipts \cup
       {[key |-> work[c].key, epoch |-> work[c].next.epoch,
         txn |-> work[c].txn]}
  /\ NextBump(c, work[c].todo)
  /\ UNCHANGED <<tenantVars, store, boundVars, cut>>

-----------------------------------------------------------------------------
(* _bump_tenant_auth_epoch, for each tenant a call has to bump: bump with  *)
(* the epoch just read, and once more after a conflict.                    *)

Expected(c) == authEpoch[work[c].tenant] = work[c].seen

\* Mutant: the epoch is raised beyond the last safe integer.
BumpTenantAuthEpochUnbounded(c) ==
  /\ At(c, "bump") \/ At(c, "rebump")
  /\ Expected(c)
  /\ authEpoch' = [authEpoch EXCEPT ![work[c].tenant] = @ + 1]
  /\ NextBump(c, work[c].todo \ {work[c].tenant})
  /\ UNCHANGED <<tenantStatus, fileVars, boundVars, cut>>

BumpTenantAuthEpoch(c) ==
  /\ At(c, "bump") \/ At(c, "rebump")
  /\ Expected(c)
  /\ work[c].seen < MaxSafeEpoch
  /\ authEpoch' = [authEpoch EXCEPT ![work[c].tenant] = @ + 1]
  /\ NextBump(c, work[c].todo \ {work[c].tenant})
  /\ UNCHANGED <<tenantStatus, fileVars, boundVars, cut>>

\* A conflict, and the second read.
BumpConflict(c) ==
  /\ At(c, "bump") /\ ~Expected(c)
  /\ work' = [work EXCEPT ![c].pc = "rebump",
                          ![c].seen = authEpoch[work[c].tenant]]
  /\ UNCHANGED <<tenantVars, fileVars, boundVars, cut>>

\* A second conflict, or an epoch that cannot be raised, reaches the caller.
BumpRefused(c) ==
  /\ \/ At(c, "rebump") /\ ~Expected(c)
     \/ (At(c, "bump") \/ At(c, "rebump")) /\ Expected(c)
        /\ work[c].seen = MaxSafeEpoch
  /\ GiveUp(c)
  /\ UNCHANGED <<tenantVars, fileVars, boundVars>>

\* The commit is over; what follows is the caller's.
Committed(c) ==
  /\ At(c, "done")
  /\ UNCHANGED <<tenantVars, fileVars, boundVars, cut>>

Commit(c) ==
  \/ WriteRecord(c) \/ RevisionConflict(c) \/ WriteReceipt(c)
  \/ BumpTenantAuthEpoch(c) \/ BumpConflict(c) \/ BumpRefused(c)

-----------------------------------------------------------------------------
(* Deaths, and the host.                                                   *)

\* A call dies; locks go with it, files stay.
Crash(c) ==
  /\ work[c] # NoJob
  /\ crashes < MaxCrashes /\ crashes' = crashes + 1
  /\ GiveUp(c)
  /\ UNCHANGED <<tenantVars, fileVars, nextTxn>>

\* Other writers of the tenant record: a revoked grant, the administrator.
ForeignBump(t) ==
  /\ authEpoch[t] < MaxForeign
  /\ authEpoch' = [authEpoch EXCEPT ![t] = @ + 1]
  /\ UNCHANGED <<tenantStatus, fileVars, work, boundVars, cut>>

SetTenantStatus(t) ==
  /\ \E s \in StatusesInPlay \ {tenantStatus[t]} :
       tenantStatus' = [tenantStatus EXCEPT ![t] = s]
  /\ UNCHANGED <<authEpoch, fileVars, work, boundVars, cut>>
=============================================================================
