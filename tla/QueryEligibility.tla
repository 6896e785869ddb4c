-------------------------- MODULE QueryEligibility --------------------------
(***************************************************************************)
(* AccessLedger.check_query_eligibility, composed with the ledger it reads *)
(* and with the snapshots of cwk_agent_context.py it is given.             *)
(*                                                                         *)
(* The check takes no lock.  It reads, one file after another, the tenant  *)
(* record, the revoke-intent journals, the tombstones and the grant, while *)
(* mutations, revocations and recoveries go on; every read is an action.   *)
(* A denial found in the first read changes nothing and is no action.      *)
(***************************************************************************)
EXTENDS AccessLedger

CONSTANT Agents   \* sessions, each with one context snapshot at a time

VARIABLES
  qpc,     \* where each session is
  qon,     \* the grant it asks for
  snap,    \* its AgentContextSnapshot: tenant_auth_epoch and tenant_status
  doomed   \* history: the revocation had begun when the check began

queryVars == <<qpc, qon, snap, doomed>>
qvars     == <<vars, queryVars>>

Snapshot   == [epoch : Nat, status : TenantStates]
Checking   == {"intent", "tombstone", "grant"}
QueryPoint == Checking \cup {"out", "ready", "eligible"}

QueryInit ==
  /\ qpc = [a \in Agents |-> "out"]
  /\ qon = [a \in Agents |-> NoKey]
  /\ snap = [a \in Agents |-> [epoch |-> 0, status |-> "draft"]]
  /\ doomed = [a \in Agents |-> FALSE]

QGoto(a, l) == qpc' = [qpc EXCEPT ![a] = l]

Deny(a) ==
  /\ QGoto(a, "ready")
  /\ qon' = [qon EXCEPT ![a] = NoKey]
  /\ doomed' = [doomed EXCEPT ![a] = FALSE]
  /\ UNCHANGED snap

\* AgentContext.from_trusted: the snapshot copies the tenant record.
FromTrusted(a) ==
  /\ qpc[a] = "out"
  /\ snap' = [snap EXCEPT ![a] = [epoch |-> authEpoch, status |-> tenantStatus]]
  /\ QGoto(a, "ready")
  /\ UNCHANGED <<qon, doomed>>

DropContext(a) ==
  /\ qpc[a] = "ready"
  /\ snap' = [snap EXCEPT ![a] = [epoch |-> 0, status |-> "draft"]]
  /\ QGoto(a, "out")
  /\ UNCHANGED <<qon, doomed>>

CheckTenant(a, g) ==
  /\ qpc[a] = "ready"
  /\ authEpoch = snap[a].epoch
  /\ snap[a].status \in {"pilot", "active"}
  /\ tenantStatus = snap[a].status
  /\ QGoto(a, "intent")
  /\ qon' = [qon EXCEPT ![a] = g]
  /\ doomed' = [doomed EXCEPT ![a] = Begun(g)]
  /\ UNCHANGED snap

\* Mutant: a pending journal is not looked at.
CheckIntentSkipped(a) ==
  /\ qpc[a] = "intent"
  /\ QGoto(a, "tombstone")
  /\ UNCHANGED <<qon, snap, doomed>>

CheckIntent(a) ==
  /\ qpc[a] = "intent"
  /\ IF IntentExistsFor(qon[a])
     THEN Deny(a)
     ELSE QGoto(a, "tombstone") /\ UNCHANGED <<qon, snap, doomed>>

CheckTombstone(a) ==
  /\ qpc[a] = "tombstone"
  /\ IF TombstoneExists(qon[a])
     THEN Deny(a)
     ELSE QGoto(a, "grant") /\ UNCHANGED <<qon, snap, doomed>>

\* live_tenant.auth_epoch is the epoch of the snapshot: the check got here.
PassesGrant(a, r) ==
  /\ r.status = "active"
  /\ r.epoch = snap[a].epoch
  /\ r.lease # NoLease
  /\ r.lease > clock

CheckGrant(a) ==
  /\ qpc[a] = "grant"
  /\ IF PassesGrant(a, grant[qon[a]])
     THEN QGoto(a, "eligible") /\ UNCHANGED <<qon, snap, doomed>>
     ELSE Deny(a)

\* The caller uses the GrantRecord it was given.
Answer(a) ==
  /\ qpc[a] = "eligible"
  /\ Deny(a)

-----------------------------------------------------------------------------
QTypeOK ==
  /\ qpc \in [Agents -> QueryPoint]
  /\ qon \in [Agents -> Grants \cup {NoKey}]
  /\ snap \in [Agents -> Snapshot]
  /\ doomed \in [Agents -> BOOLEAN]

\* A check that begins after revoke() has written its intent journal is never
\* answered, however its reads interleave with the steps of the revocation
\* and of recover().  The second checks of read_view and upsert_overlay are
\* such checks too.
RevokedNeverServed == \A a \in Agents : qpc[a] = "eligible" => ~doomed[a]
=============================================================================
