--------------------------- MODULE TenantRegistry ---------------------------
(***************************************************************************)
(* TenantRegistry of scripts/cwk_tenant_registry.py for one tenant id: its *)
(* creation, the two record bumps, and recover().                          *)
(*                                                                         *)
(* A transaction writes its journal, the record, a receipt, and unlinks    *)
(* the journal, under the tenant's lock.  recover() takes no lock: it      *)
(* walks the journals while transactions go on, and its checks and its     *)
(* removals are steps of their own.  The temporary files it sweeps belong, *)
(* in a running transaction, to a write that then raises: that outcome is  *)
(* the one of Stop.                                                        *)
(***************************************************************************)
EXTENDS Naturals, FiniteSets

CONSTANTS
  Clients,       \* processes that create or bump
  Recoverers,    \* processes that call recover()
  MaxSafeInt,    \* 2^53 - 1 in the code: _monotonic refuses beyond it
  MaxTxns,       \* bound on transactions
  MaxStops       \* bound on calls that die or raise half way

ASSUME RegistryAssumption ==
  /\ Clients \cap Recoverers = {}
  /\ MaxSafeInt \in Nat \ {0}
  /\ MaxTxns \in Nat
  /\ MaxStops \in Nat

VARIABLES
  record,      \* registry/tenants/<id>.json
  journals,    \* registry/provision-journal/<id>.<txn>.journal
  receipts,    \* registry/provision-receipts/<id>.<txn>
  tree,        \* the directories of tenants/<id>/
  projection,  \* revision in config/tenant.projection.json, 0 if absent
  pc,
  kind,        \* "epoch" or "revision", for a bump
  base,        \* the record its caller had observed
  txn,         \* its transaction, or the one recover() looks at
  nextTxn,     \* fresh transaction ids
  written,     \* history: transactions whose record write took place
  stops

diskVars == <<record, journals, receipts, tree, projection>>
histVars == <<nextTxn, written>>
procVars == <<pc, kind, base, txn>>
vars     == <<diskVars, histVars, procVars, stops>>

Procs    == Clients \cup Recoverers
Txns     == 1..MaxTxns
Record   == [revision : Nat, epoch : Nat, receipt : Nat]
NoRecord == [revision |-> 0, epoch |-> 0, receipt |-> 0]
Exists   == record # NoRecord

Critical == {"init_tree", "init_record", "commit", "receipt", "unlink",
             "project"}
Points   == Critical \cup {"idle", "init_lock", "bump_lock", "r_record",
                           "r_empty", "r_remove", "r_unlink"}
Locked   == \E p \in Procs : pc[p] \in Critical

Init ==
  /\ record = NoRecord
  /\ journals = {}
  /\ receipts = {}
  /\ tree = "none"
  /\ projection = 0
  /\ pc = [p \in Procs |-> "idle"]
  /\ kind = [p \in Procs |-> "epoch"]
  /\ base = [p \in Procs |-> NoRecord]
  /\ txn = [p \in Procs |-> 0]
  /\ nextTxn = 1
  /\ written = {}
  /\ stops = 0

Goto(p, l) == pc' = [pc EXCEPT ![p] = l]

Return(p) ==
  /\ Goto(p, "idle")
  /\ kind' = [kind EXCEPT ![p] = "epoch"]
  /\ base' = [base EXCEPT ![p] = NoRecord]
  /\ txn' = [txn EXCEPT ![p] = 0]

\* A fresh journal, the first durable write of a transaction.
WriteJournal(p, l) ==
  /\ nextTxn <= MaxTxns
  /\ journals' = journals \cup {nextTxn}
  /\ txn' = [txn EXCEPT ![p] = nextTxn]
  /\ nextTxn' = nextTxn + 1
  /\ Goto(p, l)

-----------------------------------------------------------------------------
(* init_tenant.                                                            *)

StartInit(p) ==
  /\ pc[p] = "idle" /\ ~Exists
  /\ Goto(p, "init_lock")
  /\ UNCHANGED <<diskVars, histVars, kind, base, txn, stops>>

InitJournal(p) ==
  /\ pc[p] = "init_lock" /\ ~Locked /\ ~Exists
  /\ WriteJournal(p, "init_tree")
  /\ UNCHANGED <<record, receipts, tree, projection, kind, base, written,
                 stops>>

TenantExists(p) ==
  /\ pc[p] = "init_lock" /\ ~Locked /\ Exists
  /\ Return(p)
  /\ UNCHANGED <<diskVars, histVars, stops>>

InitTree(p) ==
  /\ pc[p] = "init_tree"
  /\ tree' = "whole"
  /\ Goto(p, "init_record")
  /\ UNCHANGED <<record, journals, receipts, projection, histVars, kind, base,
                 txn, stops>>

\* An exclusive write: it would raise on a record, which the check under the
\* lock has excluded.
InitRecord(p) ==
  /\ pc[p] = "init_record" /\ ~Exists
  /\ record' = [revision |-> 1, epoch |-> 1, receipt |-> txn[p]]
  /\ written' = written \cup {txn[p]}
  /\ Goto(p, "receipt")
  /\ UNCHANGED <<journals, receipts, tree, projection, nextTxn, kind,
                 base, txn, stops>>

-----------------------------------------------------------------------------
(* bump_record_revision and bump_auth_epoch, _commit_record.               *)

\* The caller passes the value it observed; the first check has just passed.
StartBump(p, k) ==
  /\ pc[p] = "idle" /\ Exists
  /\ base' = [base EXCEPT ![p] = record]
  /\ kind' = [kind EXCEPT ![p] = k]
  /\ Goto(p, "bump_lock")
  /\ UNCHANGED <<diskVars, histVars, txn, stops>>

AsExpected(p) ==
  IF kind[p] = "epoch" THEN record.epoch = base[p].epoch
                       ELSE record.revision = base[p].revision

\* Mutant: an epoch bump leaves the revision alone.
BumpedEpochOnly(k) ==
  IF k = "epoch"
  THEN [revision |-> record.revision, epoch |-> record.epoch + 1]
  ELSE [revision |-> record.revision + 1, epoch |-> record.epoch]

Bumped(k) ==
  [revision |-> record.revision + 1,
   epoch    |-> IF k = "epoch" THEN record.epoch + 1 ELSE record.epoch]

\* _monotonic looks at the values that are incremented.
Overflows(k) ==
  \/ record.revision >= MaxSafeInt
  \/ k = "epoch" /\ record.epoch >= MaxSafeInt

BumpJournal(p) ==
  /\ pc[p] = "bump_lock" /\ ~Locked
  /\ AsExpected(p) /\ ~Overflows(kind[p])
  /\ WriteJournal(p, "commit")
  /\ UNCHANGED <<record, receipts, tree, projection, kind, base, written,
                 stops>>

\* RegistryConflict, or a RegistryError of _monotonic.
BumpRefused(p) ==
  /\ pc[p] = "bump_lock" /\ ~Locked
  /\ ~AsExpected(p) \/ Overflows(kind[p])
  /\ Return(p)
  /\ UNCHANGED <<diskVars, histVars, stops>>

\* Mutant: the new record is made of the one the caller had observed.
CommitRecordStale(p) ==
  /\ pc[p] = "commit"
  /\ record' = [revision |-> base[p].revision + 1, receipt |-> txn[p],
                epoch |-> base[p].epoch + IF kind[p] = "epoch" THEN 1 ELSE 0]
  /\ written' = written \cup {txn[p]}
  /\ Goto(p, "receipt")
  /\ UNCHANGED <<journals, receipts, tree, projection, nextTxn, kind, base,
                 txn, stops>>

CommitRecord(p) ==
  /\ pc[p] = "commit"
  /\ record' = [revision |-> Bumped(kind[p]).revision,
                epoch |-> Bumped(kind[p]).epoch, receipt |-> txn[p]]
  /\ written' = written \cup {txn[p]}
  /\ Goto(p, "receipt")
  /\ UNCHANGED <<journals, receipts, tree, projection, nextTxn, kind, base,
                 txn, stops>>

WriteReceipt(p) ==
  /\ pc[p] = "receipt"
  /\ receipts' = receipts \cup {txn[p]}
  /\ Goto(p, "unlink")
  /\ UNCHANGED <<record, journals, tree, projection, histVars, kind, base, txn,
                 stops>>

UnlinkJournal(p) ==
  /\ pc[p] = "unlink"
  /\ journals' = journals \ {txn[p]}
  /\ Goto(p, "project")
  /\ UNCHANGED <<record, receipts, tree, projection, histVars, kind, base, txn,
                 stops>>

\* A LayoutError if the config directory is gone: the call raises.
WriteProjection(p) ==
  /\ pc[p] = "project"
  /\ projection' = IF tree = "none" THEN projection ELSE record.revision
  /\ Return(p)
  /\ UNCHANGED <<record, journals, receipts, tree, histVars, stops>>

-----------------------------------------------------------------------------
(* recover(), one journal of the walk at a time.                           *)

RecoverJournal(p, t) ==
  /\ pc[p] = "idle" /\ t \in journals
  /\ txn' = [txn EXCEPT ![p] = t]
  /\ Goto(p, IF t \in receipts THEN "r_unlink" ELSE "r_record")
  /\ UNCHANGED <<diskVars, histVars, kind, base, stops>>

\* Mutant: a journal beside a published record is left alone.
RecoverRecordSkips(p) ==
  /\ pc[p] = "r_record"
  /\ IF Exists THEN Return(p)
     ELSE Goto(p, "r_empty") /\ UNCHANGED <<kind, base, txn>>
  /\ UNCHANGED <<diskVars, histVars, stops>>

RecoverRecord(p) ==
  /\ pc[p] = "r_record"
  /\ Goto(p, IF Exists THEN "r_unlink" ELSE "r_empty")
  /\ UNCHANGED <<diskVars, histVars, kind, base, txn, stops>>

\* Rolls back only a tree of nothing but empty frozen directories.
RollbackCheck(p) ==
  /\ pc[p] = "r_empty"
  /\ Goto(p, IF tree = "none" \/ projection # 0 THEN "r_unlink"
             ELSE "r_remove")
  /\ UNCHANGED <<diskVars, histVars, kind, base, txn, stops>>

\* rmdir refuses a directory that has got a file since; those already
\* removed stay removed.
RollbackRemove(p) ==
  /\ pc[p] = "r_remove"
  /\ IF projection = 0 THEN tree' = "none" ELSE tree' \in {tree, "partial"}
  /\ Goto(p, "r_unlink")
  /\ UNCHANGED <<record, journals, receipts, projection, histVars, kind, base,
                 txn, stops>>

RecoverUnlink(p) ==
  /\ pc[p] = "r_unlink"
  /\ journals' = journals \ {txn[p]}
  /\ Return(p)
  /\ UNCHANGED <<record, receipts, tree, projection, histVars, stops>>

-----------------------------------------------------------------------------
\* The process dies, or a write raises, between two durable writes.
Stop(p) ==
  /\ stops < MaxStops /\ pc[p] # "idle"
  /\ stops' = stops + 1
  /\ Return(p)
  /\ UNCHANGED <<diskVars, histVars>>

Transact(p) ==
  \/ InitJournal(p) \/ TenantExists(p) \/ InitTree(p) \/ InitRecord(p)
  \/ BumpJournal(p) \/ BumpRefused(p) \/ CommitRecord(p)
  \/ WriteReceipt(p) \/ UnlinkJournal(p) \/ WriteProjection(p)

Recover(p) ==
  \/ RecoverRecord(p) \/ RollbackCheck(p) \/ RollbackRemove(p)
  \/ RecoverUnlink(p)

Next ==
  \/ \E p \in Clients :
       \/ StartInit(p) \/ Transact(p)
       \/ \E k \in {"epoch", "revision"} : StartBump(p, k)
  \/ \E p \in Recoverers :
       Recover(p) \/ \E t \in Txns : RecoverJournal(p, t)
  \/ \E p \in Procs : Stop(p)

Spec == Init /\ [][Next]_vars

\* A running call goes on; the walk of recover(), called again and again by
\* an administrator, comes to every journal.
Fairness ==
  /\ \A p \in Clients : WF_vars(Transact(p))
  /\ \A p \in Recoverers :
       /\ WF_vars(Recover(p))
       /\ \A t \in Txns : SF_vars(RecoverJournal(p, t))

FairSpec == Spec /\ Fairness

-----------------------------------------------------------------------------
TypeOK ==
  /\ record \in Record
  /\ record.epoch <= record.revision /\ record.revision <= MaxSafeInt
  /\ journals \subseteq Txns
  /\ receipts \subseteq Txns
  /\ tree \in {"none", "whole", "partial"}
  /\ projection \in Nat
  /\ pc \in [Procs -> Points]
  /\ kind \in [Procs -> {"epoch", "revision"}]
  /\ base \in [Procs -> Record]
  /\ txn \in [Procs -> 0..MaxTxns]
  /\ nextTxn \in 1..(MaxTxns + 1)
  /\ written \subseteq Txns
  /\ stops \in Nat

\* Every record write is one revision: none is overwritten by another that
\* had not seen it, and a tenant is created once.
NoLostUpdate == record.revision = Cardinality(written)

\* A journal does not stay for ever.
JournalsDrain == \A t \in Txns : t \in journals ~> t \notin journals

Register == INSTANCE EpochRegister
              WITH epoch <- record.epoch, revision <- record.revision

\* The registry implements the register its callers count on.
ImplementsRegister == Register!Spec
=============================================================================
