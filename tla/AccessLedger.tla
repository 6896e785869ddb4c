---------------------------- MODULE AccessLedger ----------------------------
(***************************************************************************)
(* The per-tenant access ledger of scripts/cwk_access_ledger.py: who may   *)
(* see which report, and the crash-safe revocation of that right.          *)
(*                                                                         *)
(* The module describes one tenant.  Every durable file of the ledger is a *)
(* variable (grant records, revoke-intent journals, tombstones, cleanup    *)
(* outbox, revocation receipts, the last line of each event log), next to  *)
(* the two fields of the tenant record it depends on (auth_epoch, status). *)
(* An action is what one host process does between two durable writes: a   *)
(* write is published by a rename, so it is atomic, and a process may stop *)
(* between any two of them.  flock is not a variable: a process holds the  *)
(* lock of a grant exactly while it is inside the critical section, and    *)
(* the kernel frees it when the process dies.                              *)
(*                                                                         *)
(* A journal, a receipt and an outbox entry are named after a transaction  *)
(* id in the code and after the grant here; txns counts the transactions   *)
(* of a grant so that "at most one per grant" is checked, not assumed.     *)
(***************************************************************************)
EXTENDS Naturals

CONSTANTS
  Grants,          \* grant keys, H(tenant_id, report_key)
  NoKey,           \* the grant of a process that works on none
  Writers,         \* processes that call observe/promote/refresh/mark/revoke
  Recoverers,      \* processes that call recover()
  Consumers,       \* {"tenant_view", "space_index", "cache"} in the code
  StatusesInPlay,  \* bound: tenant statuses the administrator uses
  LeaseTTL,        \* lease_ttl_seconds, in clock ticks
  MaxSafeEpoch,    \* 2^53 - 1 in the code: bump_auth_epoch refuses beyond it
  MaxClock,        \* bound on the wall clock
  MaxRebinds,      \* bound on the epoch bumps of bindings and credentials
  MaxCrashes       \* bound on process deaths

TenantStates == {"draft", "profile_pending", "pilot", "active", "suspended",
                 "offboarded"}

ASSUME LedgerAssumption ==
  /\ NoKey \notin Grants
  /\ Writers \cap Recoverers = {}
  /\ StatusesInPlay \subseteq TenantStates
  /\ LeaseTTL \in Nat \ {0}
  /\ MaxSafeEpoch \in Nat \ {0}
  /\ MaxClock \in Nat
  /\ MaxRebinds \in Nat
  /\ MaxCrashes \in Nat

VARIABLES
  authEpoch,     \* tenant record: auth_epoch
  tenantStatus,  \* tenant record: status
  grant,         \* grants/<key>.json
  event,         \* to_status of the last line of events/<key>.jsonl
  intent,        \* revoke-intents/<txn>.journal: the epoch before, 0 if absent
  tombstone,     \* tombstones/<key>.json: the epoch at revoke, 0 if absent
  outbox,        \* cleanup-outbox/<id>.json
  receipt,       \* revoke-receipts/<txn>.json
  clock,         \* the host's wall clock
  pc,            \* where each process is
  on,            \* the grant it works on
  seen,          \* the tenant auth_epoch it last read
  before,        \* tenant_auth_epoch_before of the intent it carries
  stamp,         \* the expiry of its authority receipt / its outbox created_at
  txns,          \* history: revocation transactions ever begun on a grant
  rebinds,       \* counter behind MaxRebinds
  crashes        \* counter behind MaxCrashes

tenantVars == <<authEpoch, tenantStatus, rebinds>>
fileVars   == <<grant, event, intent, tombstone, outbox, receipt, txns>>
procVars   == <<pc, on, seen, before, stamp>>
vars       == <<tenantVars, fileVars, procVars, clock, crashes>>

Procs == Writers \cup Recoverers

-----------------------------------------------------------------------------
(* Records on disk and program points.                                     *)

GrantStates == {"discovered", "granted", "active", "revalidation_due",
                "revoked"}
Absent == "absent"

GrantRecord == [status : GrantStates \cup {Absent}, epoch : Nat, lease : Nat]
NoGrant     == [status |-> Absent, epoch |-> 0, lease |-> 0]

\* Lease 0 is the null lease_expires_at; instants start at 1.
NoLease == 0

OutboxRecord == [created : Nat, consumers : SUBSET Consumers]
NoOutbox     == [created |-> 0, consumers |-> {}]

ReceiptRecord == [before : Nat, after : Nat, created : Nat]
NoReceipt     == [before |-> 0, after |-> 0, created |-> 0]

\* The steps of _complete_revocation, in the order of the code.
Completion == {"mark", "append_revoked", "get_tenant", "bump", "reread",
               "tombstone", "outbox", "receipt", "unlink"}
Critical == Completion \cup {"append"}
Points   == Critical \cup {"idle", "observe", "promote", "refresh", "wait"}

Holds(p, g) == on[p] = g /\ pc[p] \in Critical
Locked(g)   == \E p \in Procs : Holds(p, g)

IntentExistsFor(g) == intent[g] # 0
TombstoneExists(g) == tombstone[g] # 0
HasReceipt(g)      == receipt[g] # NoReceipt
\* Mutant: the pending journal is not looked at.
ClosedByTombstone(g) == TombstoneExists(g)

Closed(g)          == IntentExistsFor(g) \/ TombstoneExists(g)

MinOf(a, b) == IF a < b THEN a ELSE b

-----------------------------------------------------------------------------
Init ==
  /\ authEpoch = 1
  /\ tenantStatus \in StatusesInPlay
  /\ grant = [g \in Grants |-> NoGrant]
  /\ event = [g \in Grants |-> Absent]
  /\ intent = [g \in Grants |-> 0]
  /\ tombstone = [g \in Grants |-> 0]
  /\ outbox = [g \in Grants |-> NoOutbox]
  /\ receipt = [g \in Grants |-> NoReceipt]
  /\ clock = 1
  /\ pc = [p \in Procs |-> "idle"]
  /\ on = [p \in Procs |-> NoKey]
  /\ seen = [p \in Procs |-> 0]
  /\ before = [p \in Procs |-> 0]
  /\ stamp = [p \in Procs |-> 0]
  /\ txns = [g \in Grants |-> 0]
  /\ rebinds = 0
  /\ crashes = 0
-----------------------------------------------------------------------------
(* Moves of a process.                                                     *)

Goto(p, l) == pc' = [pc EXCEPT ![p] = l]

\* The call returns or raises; locals die and a held lock is released.
Return(p) ==
  /\ pc' = [pc EXCEPT ![p] = "idle"]
  /\ on' = [on EXCEPT ![p] = NoKey]
  /\ seen' = [seen EXCEPT ![p] = 0]
  /\ before' = [before EXCEPT ![p] = 0]
  /\ stamp' = [stamp EXCEPT ![p] = 0]

Enter(p, g, l, e, b, s) ==
  /\ pc' = [pc EXCEPT ![p] = l]
  /\ on' = [on EXCEPT ![p] = g]
  /\ seen' = [seen EXCEPT ![p] = e]
  /\ before' = [before EXCEPT ![p] = b]
  /\ stamp' = [stamp EXCEPT ![p] = s]

\* Write the grant record and go on to append the event of the transition.
WriteGrant(p, g, rec) ==
  /\ grant' = [grant EXCEPT ![g] = rec]
  /\ Goto(p, "append")
  /\ UNCHANGED <<on, seen, before, stamp>>

UNCHANGEDRevocation == UNCHANGED <<intent, tombstone, outbox, receipt, txns>>

-----------------------------------------------------------------------------
(* The mutations of a grant outside revocation.  observe, promote and      *)
(* refresh read the tenant record first and take the grant's lock after.   *)

StartObserve(p, g) ==
  /\ pc[p] = "idle"
  /\ tenantStatus \notin {"draft", "offboarded"}
  /\ Enter(p, g, "observe", authEpoch, 0, 0)
  /\ UNCHANGED <<tenantVars, fileVars, clock, crashes>>

\* The status observe() leaves, from the one on disk and the one observed.
ObservedStatus(cur, obs) ==
  CASE cur = Absent -> obs
    [] cur \in {"active", "revalidation_due"} -> cur
    [] OTHER -> "granted"

\* changed: the roles or the visibility differ from those on disk.
Rewrites(cur, obs, changed) ==
  \/ cur = Absent
  \/ cur = "discovered" /\ obs = "granted"
  \/ changed

ObserveWrite(p, obs, changed) ==
  LET g == on[p] IN
  /\ pc[p] = "observe" /\ ~Locked(g)
  /\ ~Closed(g) /\ grant[g].status # "revoked"
  /\ Rewrites(grant[g].status, obs, changed)
  /\ WriteGrant(p, g, [status |-> ObservedStatus(grant[g].status, obs),
                       epoch |-> seen[p], lease |-> grant[g].lease])
  /\ UNCHANGED <<tenantVars, event, clock, crashes>>
  /\ UNCHANGEDRevocation

\* Refused, or nothing changed: no write, no event.
ObserveNothing(p, obs, changed) ==
  LET g == on[p] IN
  /\ pc[p] = "observe" /\ ~Locked(g)
  /\ \/ Closed(g) \/ grant[g].status = "revoked"
     \/ ~Rewrites(grant[g].status, obs, changed)
  /\ Return(p)
  /\ UNCHANGED <<tenantVars, fileVars, clock, crashes>>

Observe(p) ==
  \E obs \in {"discovered", "granted"}, changed \in BOOLEAN :
    ObserveWrite(p, obs, changed) \/ ObserveNothing(p, obs, changed)

\* The authority's receipt, verified now, expires at r; _lease_expiry caps
\* the lease it gives, so a later r gives nothing more.
StartPromote(p, g, purpose) ==
  /\ pc[p] = "idle"
  /\ tenantStatus \notin {"draft", "suspended", "offboarded"}
  /\ \E r \in (clock + 1)..(clock + LeaseTTL) :
       Enter(p, g, purpose, authEpoch, 0, r)
  /\ UNCHANGED <<tenantVars, fileVars, clock, crashes>>

AllowedCurrent(purpose) ==
  IF purpose = "promote" THEN {"granted", "revalidation_due"}
                         ELSE {"active", "revalidation_due"}

PromoteWrite(p) ==
  LET g == on[p] IN
  /\ pc[p] \in {"promote", "refresh"} /\ ~Locked(g)
  /\ ~Closed(g) /\ grant[g].status \in AllowedCurrent(pc[p])
  /\ WriteGrant(p, g, [status |-> "active", epoch |-> seen[p],
                       lease |-> MinOf(clock + LeaseTTL, stamp[p])])
  /\ UNCHANGED <<tenantVars, event, clock, crashes>>
  /\ UNCHANGEDRevocation

PromoteRefused(p) ==
  LET g == on[p] IN
  /\ pc[p] \in {"promote", "refresh"} /\ ~Locked(g)
  /\ Closed(g) \/ grant[g].status \notin AllowedCurrent(pc[p])
  /\ Return(p)
  /\ UNCHANGED <<tenantVars, fileVars, clock, crashes>>

\* mark_revalidation_due keeps the epoch and the lease of the record.
MarkRevalidationDue(p, g) ==
  /\ pc[p] = "idle" /\ ~Locked(g)
  /\ ~Closed(g) /\ grant[g].status = "active"
  /\ grant' = [grant EXCEPT ![g].status = "revalidation_due"]
  /\ Enter(p, g, "append", 0, 0, 0)
  /\ UNCHANGED <<tenantVars, event, clock, crashes>>
  /\ UNCHANGEDRevocation

\* Last durable write of every mutation: append the event, free the lock.
AppendEvent(p) ==
  /\ pc[p] = "append"
  /\ event' = [event EXCEPT ![on[p]] = grant[on[p]].status]
  /\ Return(p)
  /\ UNCHANGED <<tenantVars, grant, clock, crashes>>
  /\ UNCHANGEDRevocation

-----------------------------------------------------------------------------
(* Revocation: step 1 by revoke(), steps 2-7 by _complete_revocation.      *)

\* The epoch the intent records is the grant's, not the tenant's.
Revoke(p, g) ==
  /\ pc[p] = "idle" /\ ~Locked(g)
  /\ ~Closed(g) /\ grant[g].status \notin {Absent, "revoked"}
  /\ intent' = [intent EXCEPT ![g] = grant[g].epoch]
  /\ txns' = [txns EXCEPT ![g] = @ + 1]
  /\ Enter(p, g, "mark", 0, grant[g].epoch, 0)
  /\ UNCHANGED <<tenantVars, grant, event, tombstone, outbox, receipt, clock,
                 crashes>>

MarkRevoked(p) ==
  LET g == on[p] IN
  /\ pc[p] = "mark"
  /\ IF grant[g].status = "revoked"
     THEN Goto(p, "get_tenant") /\ UNCHANGED grant
     ELSE /\ grant' = [grant EXCEPT ![g].status = "revoked"]
          /\ Goto(p, "append_revoked")
  /\ UNCHANGED <<tenantVars, event, on, seen, before, stamp, clock, crashes>>
  /\ UNCHANGEDRevocation

AppendRevoked(p) ==
  /\ pc[p] = "append_revoked"
  /\ event' = [event EXCEPT ![on[p]] = "revoked"]
  /\ Goto(p, "get_tenant")
  /\ UNCHANGED <<tenantVars, grant, on, seen, before, stamp, clock, crashes>>
  /\ UNCHANGEDRevocation

\* Mutant: the epoch is never bumped.
GetTenantNoBump(p) ==
  /\ pc[p] = "get_tenant"
  /\ Goto(p, "reread")
  /\ UNCHANGED <<tenantVars, fileVars, on, seen, before, stamp, clock,
                 crashes>>

GetTenant(p) ==
  /\ pc[p] = "get_tenant"
  /\ Goto(p, IF authEpoch = before[p] THEN "bump" ELSE "reread")
  /\ UNCHANGED <<tenantVars, fileVars, on, seen, before, stamp, clock,
                 crashes>>

\* Mutant: no overflow check.
BumpAuthEpochUnbounded(p) ==
  /\ pc[p] = "bump"
  /\ authEpoch = before[p]
  /\ authEpoch' = authEpoch + 1
  /\ Goto(p, "reread")
  /\ UNCHANGED <<tenantStatus, rebinds, fileVars, on, seen, before, stamp,
                 clock, crashes>>

\* TenantRegistry.bump_auth_epoch(expected_auth_epoch=before).
BumpAuthEpoch(p) ==
  /\ pc[p] = "bump"
  /\ authEpoch = before[p] /\ authEpoch < MaxSafeEpoch
  /\ authEpoch' = authEpoch + 1
  /\ Goto(p, "reread")
  /\ UNCHANGED <<tenantStatus, rebinds, fileVars, on, seen, before, stamp,
                 clock, crashes>>

\* Mutant: the refused transaction is rolled back, its journal removed.
BumpRefusedRollsBack(p) ==
  /\ pc[p] = "bump"
  /\ authEpoch # before[p] \/ authEpoch >= MaxSafeEpoch
  /\ intent' = [intent EXCEPT ![on[p]] = 0]
  /\ Return(p)
  /\ UNCHANGED <<tenantVars, grant, event, tombstone, outbox, receipt, txns,
                 clock, crashes>>

\* RegistryConflict, or overflow: the journal stays for recover().
BumpRefused(p) ==
  /\ pc[p] = "bump"
  /\ authEpoch # before[p] \/ authEpoch >= MaxSafeEpoch
  /\ Return(p)
  /\ UNCHANGED <<tenantVars, fileVars, clock, crashes>>

ReadEpochAfter(p) ==
  /\ pc[p] = "reread"
  /\ seen' = [seen EXCEPT ![p] = authEpoch]
  /\ Goto(p, "tombstone")
  /\ UNCHANGED <<tenantVars, fileVars, on, before, stamp, clock, crashes>>

\* Its bytes depend on the epoch just read: another epoch is content drift.
WriteTombstone(p) ==
  LET g == on[p] IN
  /\ pc[p] = "tombstone"
  /\ tombstone[g] \in {0, seen[p]}
  /\ tombstone' = [tombstone EXCEPT ![g] = seen[p]]
  /\ Goto(p, "outbox")
  /\ UNCHANGED <<tenantVars, grant, event, intent, outbox, receipt, txns, on,
                 seen, before, stamp, clock, crashes>>

TombstoneDrift(p) ==
  /\ pc[p] = "tombstone"
  /\ tombstone[on[p]] \notin {0, seen[p]}
  /\ Return(p)
  /\ UNCHANGED <<tenantVars, fileVars, clock, crashes>>

\* Mutant: an outbox entry that is already there stops the transaction.
WriteOutboxExclusive(p) ==
  LET g == on[p] IN
  /\ pc[p] = "outbox" /\ outbox[g] = NoOutbox
  /\ outbox' = [outbox EXCEPT ![g] = [created |-> clock, consumers |-> Consumers]]
  /\ stamp' = [stamp EXCEPT ![p] = clock]
  /\ Goto(p, "receipt")
  /\ UNCHANGED <<tenantVars, grant, event, intent, tombstone, receipt, txns,
                 on, seen, before, clock, crashes>>

\* An existing entry stays as it is; created_at is read again either way.
WriteOutbox(p) ==
  LET g == on[p] IN
  /\ pc[p] = "outbox"
  /\ outbox' = [outbox EXCEPT ![g] =
       IF @ = NoOutbox THEN [created |-> clock, consumers |-> Consumers]
                       ELSE @]
  /\ stamp' = [stamp EXCEPT ![p] = clock]
  /\ Goto(p, "receipt")
  /\ UNCHANGED <<tenantVars, grant, event, intent, tombstone, receipt, txns,
                 on, seen, before, clock, crashes>>

\* cleanup_outbox_sha256 is that of the entry just built, not of the file.
BuiltReceipt(p) ==
  [before |-> before[p], after |-> seen[p], created |-> stamp[p]]

WriteReceipt(p) ==
  LET g == on[p] IN
  /\ pc[p] = "receipt"
  /\ receipt[g] \in {NoReceipt, BuiltReceipt(p)}
  /\ receipt' = [receipt EXCEPT ![g] = BuiltReceipt(p)]
  /\ Goto(p, "unlink")
  /\ UNCHANGED <<tenantVars, grant, event, intent, tombstone, outbox, txns, on,
                 seen, before, stamp, clock, crashes>>

ReceiptDrift(p) ==
  /\ pc[p] = "receipt"
  /\ receipt[on[p]] \notin {NoReceipt, BuiltReceipt(p)}
  /\ Return(p)
  /\ UNCHANGED <<tenantVars, fileVars, clock, crashes>>

UnlinkIntent(p) ==
  /\ pc[p] = "unlink"
  /\ intent' = [intent EXCEPT ![on[p]] = 0]
  /\ Return(p)
  /\ UNCHANGED <<tenantVars, grant, event, tombstone, outbox, receipt, txns,
                 clock, crashes>>

CompleteRevocation(p) ==
  \/ MarkRevoked(p) \/ AppendRevoked(p)
  \/ GetTenant(p) \/ BumpAuthEpoch(p) \/ BumpRefused(p) \/ ReadEpochAfter(p)
  \/ WriteTombstone(p) \/ TombstoneDrift(p)
  \/ WriteOutbox(p)
  \/ WriteReceipt(p) \/ ReceiptDrift(p)
  \/ UnlinkIntent(p)

-----------------------------------------------------------------------------
(* recover(): each journal of the walk is handled on its own.  The journal *)
(* is read, and its receipt looked for, before the lock is taken.          *)

\* Mutant: the journal goes although there is no receipt.
RecoverCommittedUnchecked(p, g) ==
  /\ pc[p] = "idle" /\ IntentExistsFor(g)
  /\ intent' = [intent EXCEPT ![g] = 0]
  /\ UNCHANGED <<tenantVars, grant, event, tombstone, outbox, receipt, txns,
                 procVars, clock, crashes>>

RecoverCommitted(p, g) ==
  /\ pc[p] = "idle"
  /\ IntentExistsFor(g) /\ HasReceipt(g)
  /\ intent' = [intent EXCEPT ![g] = 0]
  /\ UNCHANGED <<tenantVars, grant, event, tombstone, outbox, receipt, txns,
                 procVars, clock, crashes>>

RecoverRead(p, g) ==
  /\ pc[p] = "idle"
  /\ IntentExistsFor(g) /\ ~HasReceipt(g)
  /\ Enter(p, g, "wait", 0, intent[g], 0)
  /\ UNCHANGED <<tenantVars, fileVars, clock, crashes>>

RecoverLock(p) ==
  /\ pc[p] = "wait" /\ ~Locked(on[p])
  /\ Goto(p, "mark")
  /\ UNCHANGED <<tenantVars, fileVars, on, seen, before, stamp, clock,
                 crashes>>

-----------------------------------------------------------------------------
(* The cleanup consumers, the rest of the host, and its failures.          *)

\* The file disappears with its last consumer.
AckCleanupTask(g, c) ==
  /\ c \in outbox[g].consumers
  /\ outbox' = [outbox EXCEPT ![g] =
       IF @.consumers = {c}
       THEN NoOutbox
       ELSE [created |-> @.created, consumers |-> @.consumers \ {c}]]
  /\ UNCHANGED <<tenantVars, grant, event, intent, tombstone, receipt, txns,
                 procVars, clock, crashes>>

\* Every mutation of an agent binding or of a credential ends with a bump.
BumpTenantAuthEpoch ==
  /\ rebinds < MaxRebinds /\ authEpoch < MaxSafeEpoch
  /\ authEpoch' = authEpoch + 1
  /\ rebinds' = rebinds + 1
  /\ UNCHANGED <<tenantStatus, fileVars, procVars, clock, crashes>>

AllowedTransitions(s) ==
  CASE s = "draft" -> {"profile_pending"}
    [] s = "profile_pending" -> {"pilot", "suspended", "offboarded"}
    [] s = "pilot" -> {"active", "suspended", "offboarded"}
    [] s = "active" -> {"suspended", "offboarded"}
    [] s = "suspended" -> {"profile_pending", "pilot", "active", "offboarded"}
    [] s = "offboarded" -> {}

\* The registry defines the life cycle and leaves the writes to its callers.
SetTenantStatus ==
  /\ tenantStatus' \in AllowedTransitions(tenantStatus) \cap StatusesInPlay
  /\ UNCHANGED <<authEpoch, rebinds, fileVars, procVars, clock, crashes>>

Tick ==
  /\ clock < MaxClock
  /\ clock' = clock + 1
  /\ UNCHANGED <<tenantVars, fileVars, procVars, crashes>>

\* Death of a process: its files stay, its locals and its lock go.
Crash(p) ==
  /\ crashes < MaxCrashes /\ pc[p] # "idle"
  /\ crashes' = crashes + 1
  /\ Return(p)
  /\ UNCHANGED <<tenantVars, fileVars, clock>>

-----------------------------------------------------------------------------
Mutate(p) ==
  \/ \E g \in Grants :
       \/ StartObserve(p, g) \/ MarkRevalidationDue(p, g) \/ Revoke(p, g)
       \/ \E purpose \in {"promote", "refresh"} : StartPromote(p, g, purpose)
  \/ Observe(p) \/ PromoteWrite(p) \/ PromoteRefused(p)
  \/ AppendEvent(p)

Recover(p) ==
  \/ \E g \in Grants : RecoverCommitted(p, g) \/ RecoverRead(p, g)
  \/ RecoverLock(p)

Host == BumpTenantAuthEpoch \/ SetTenantStatus \/ Tick

LedgerStep ==
  \/ \E p \in Writers : Mutate(p)
  \/ \E p \in Recoverers : Recover(p)
  \/ \E p \in Procs : CompleteRevocation(p) \/ Crash(p)
  \/ Host

Next == LedgerStep \/ \E g \in Grants, c \in Consumers : AckCleanupTask(g, c)

Spec == Init /\ [][Next]_vars

(***************************************************************************)
(* A process that runs keeps running, and an administrator goes on calling *)
(* recover(), whose walk visits every journal it finds.  Nothing obliges   *)
(* anyone to begin a mutation, to acknowledge or to bump.                  *)
(***************************************************************************)
Fairness ==
  /\ \A p \in Procs : WF_vars(CompleteRevocation(p))
  /\ \A p \in Writers :
       WF_vars(AppendEvent(p) \/ Observe(p) \/ PromoteWrite(p)
                              \/ PromoteRefused(p))
  /\ \A p \in Recoverers :
       /\ WF_vars(RecoverLock(p))
       /\ \A g \in Grants :
            SF_vars(RecoverCommitted(p, g) \/ RecoverRead(p, g))

FairSpec == Spec /\ Fairness

-----------------------------------------------------------------------------
(* Properties.                                                             *)

TypeOK ==
  /\ authEpoch \in 1..MaxSafeEpoch
  /\ tenantStatus \in TenantStates
  /\ grant \in [Grants -> GrantRecord]
  /\ event \in [Grants -> GrantStates \cup {Absent}]
  /\ intent \in [Grants -> Nat]
  /\ tombstone \in [Grants -> Nat]
  /\ outbox \in [Grants -> OutboxRecord]
  /\ receipt \in [Grants -> ReceiptRecord]
  /\ clock \in Nat
  /\ pc \in [Procs -> Points]
  /\ on \in [Procs -> Grants \cup {NoKey}]
  /\ seen \in [Procs -> Nat]
  /\ before \in [Procs -> Nat]
  /\ stamp \in [Procs -> Nat]
  /\ txns \in [Grants -> Nat]
  /\ rebinds \in Nat
  /\ crashes \in Nat

\* The grant would pass every check but those on the caller's snapshot.
Current(g) ==
  /\ ~Closed(g)
  /\ grant[g].status = "active"
  /\ grant[g].epoch = authEpoch
  /\ grant[g].lease > clock

Begun(g) == txns[g] > 0

\* From the instant the intent journal is written the grant stays barred:
\* either the journal is still there, or the tombstone is and the record
\* says revoked.  No crash, retry, recovery or late observation undoes it.
BegunStaysBarred ==
  \A g \in Grants :
    Begun(g) => \/ IntentExistsFor(g)
                \/ TombstoneExists(g) /\ grant[g].status = "revoked"

\* A receipt is the last word of a revocation: whatever path wrote it, the
\* record is revoked, the tombstone carries the receipt's epoch, and that
\* epoch is past the grant's, so that no snapshot that could read the grant
\* before is accepted after.
ReceiptIsBacked ==
  \A g \in Grants :
    HasReceipt(g) =>
      /\ grant[g].status = "revoked"
      /\ tombstone[g] = receipt[g].after
      /\ receipt[g].before < receipt[g].after
      /\ receipt[g].after <= authEpoch

\* A grant is revoked by one transaction: a second revoke() finds the intent
\* or the tombstone of the first, also after a crash and in mid-recovery.
OneTransaction == \A g \in Grants : txns[g] <= 1

\* A tombstone and a receipt are never rewritten, nor removed, once there.
Immutable ==
  [][\A g \in Grants :
       /\ TombstoneExists(g) => tombstone'[g] = tombstone[g]
       /\ HasReceipt(g) => receipt'[g] = receipt[g]]_vars

\* The status of a grant only moves along ACCESS_GRANT_ALLOWED_TRANSITIONS.
GrantTransitions(s) ==
  CASE s = Absent -> {"discovered", "granted"}
    [] s = "discovered" -> {"granted", "revoked"}
    [] s = "granted" -> {"active", "revoked"}
    [] s = "active" -> {"revalidation_due", "revoked"}
    [] s = "revalidation_due" -> {"active", "revoked"}
    [] s = "revoked" -> {}

LegalTransitions ==
  [][\A g \in Grants :
       grant'[g].status # grant[g].status =>
         grant'[g].status \in GrantTransitions(grant[g].status)]_vars

\* Whatever dies on the way, recover() brings a revocation to its receipt,
\* with one exception: somebody died after the tombstone, and the epoch it
\* carries has been bumped past.
RevocationCompletesOrDrifts ==
  \A g \in Grants :
    IntentExistsFor(g) ~>
      \/ HasReceipt(g) /\ ~IntentExistsFor(g)
      \/ crashes > 0 /\ TombstoneExists(g) /\ authEpoch > tombstone[g]

\* What GrantRevocation calls the phase of a grant and the admitted grants.
Phase == [g \in Grants |-> IF HasReceipt(g) THEN "closed"
                           ELSE IF Closed(g) THEN "closing"
                           ELSE "open"]
Admitted == {g \in Grants : Current(g)}

Promise == INSTANCE GrantRevocation WITH phase <- Phase, admitted <- Admitted

\* The ledger implements the promise, step by step.
ImplementsPromise == Promise!Spec
=============================================================================
