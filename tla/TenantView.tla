----------------------------- MODULE TenantView -----------------------------
(***************************************************************************)
(* TenantViewStore of scripts/cwk_tenant_view.py: the overlay a tenant     *)
(* keeps over one canonical report, at tenants/<tenant>/views/<key>.json,  *)
(* composed with the eligibility checks it makes and with the ledger.      *)
(*                                                                         *)
(* read_view checks before and after it loads the file.  upsert_overlay    *)
(* checks, reads the overlay it replaces, checks again and writes with     *)
(* cas_write, without a lock: the comparison and the rename are two steps. *)
(* The cleanup consumer "tenant_view" calls purge_for_revoked_grant before *)
(* it acknowledges its outbox entry.                                       *)
(***************************************************************************)
EXTENDS QueryEligibility

CONSTANT MaxRevision   \* bound on the record_revision of an overlay

ASSUME ViewAssumption == "tenant_view" \in Consumers /\ MaxRevision \in Nat

VARIABLES
  overlay,   \* views/<key>.json: its record_revision and its last writer
  call,      \* the store call a session is in
  draft,     \* the overlay a session read: to replace it, or to return it
  consumer,  \* where the cleanup consumer is, for each outbox entry
  late       \* history: grants that got an overlay after their revocation
             \* had begun, from a call whose second check began before it

storeVars == <<overlay, consumer, late>>
viewVars == <<storeVars, call, draft>>
tvars    == <<qvars, viewVars>>

NoAgent   == "nobody"
NoOverlay == [revision |-> 0, by |-> NoAgent]
Overlay   == [revision : Nat, by : Agents \cup {NoAgent}]
Calls     == {"none", "read_first", "read_second", "upsert_first",
              "upsert_second", "upsert_write"}

ViewInit ==
  /\ overlay = [g \in Grants |-> NoOverlay]
  /\ call = [a \in Agents |-> "none"]
  /\ draft = [a \in Agents |-> NoOverlay]
  /\ consumer = [g \in Grants |-> "idle"]
  /\ late = {}

\* The session's call goes on to l, carrying d.
Carry(a, l, d) ==
  /\ call' = [call EXCEPT ![a] = l]
  /\ draft' = [draft EXCEPT ![a] = d]

\* The file is read; another call of check_query_eligibility is to follow.
\* doomed now tells whether the revocation has begun by the time of the read.
CheckAgain(a) ==
  /\ qpc[a] = "eligible"
  /\ QGoto(a, "ready")
  /\ doomed' = [doomed EXCEPT ![a] = Begun(qon[a])]
  /\ UNCHANGED <<qon, snap>>

\* check_query_eligibility called by itself, and its answer used.
StartQuery(a, g) ==
  /\ call[a] = "none" /\ CheckTenant(a, g)
  /\ UNCHANGED <<vars, viewVars>>

AnswerQuery(a) ==
  /\ call[a] = "none" /\ Answer(a)
  /\ UNCHANGED <<vars, viewVars>>

StartRead(a, g) ==
  /\ call[a] = "none" /\ CheckTenant(a, g)
  /\ Carry(a, "read_first", NoOverlay)
  /\ UNCHANGED <<vars, storeVars>>

\* An absent file raises ViewNotFound.
LoadView(a) ==
  /\ call[a] = "read_first" /\ qpc[a] = "eligible"
  /\ IF overlay[qon[a]] = NoOverlay
     THEN Deny(a) /\ Carry(a, "none", NoOverlay)
     ELSE CheckAgain(a) /\ Carry(a, "read_second", overlay[qon[a]])
  /\ UNCHANGED <<vars, storeVars>>

StartUpsert(a, g) ==
  /\ call[a] = "none" /\ CheckTenant(a, g)
  /\ Carry(a, "upsert_first", NoOverlay)
  /\ UNCHANGED <<vars, storeVars>>

LoadExisting(a) ==
  /\ call[a] = "upsert_first" /\ qpc[a] = "eligible"
  /\ CheckAgain(a)
  /\ Carry(a, "upsert_second", overlay[qon[a]])
  /\ UNCHANGED <<vars, storeVars>>

\* The second check of read_view and of upsert_overlay.
SecondCheck(a) ==
  /\ call[a] \in {"read_second", "upsert_second"}
  /\ CheckTenant(a, qon[a])
  /\ UNCHANGED <<vars, viewVars>>

SecondDenied(a) ==
  /\ call[a] \in {"read_second", "upsert_second"} /\ qpc[a] = "ready"
  /\ \/ authEpoch # snap[a].epoch
     \/ snap[a].status \notin {"pilot", "active"}
     \/ tenantStatus # snap[a].status
  /\ Deny(a) /\ Carry(a, "none", NoOverlay)
  /\ UNCHANGED <<vars, storeVars>>

\* cas_write: the digest of the file must be the one read before.
CompareDigest(a) ==
  /\ call[a] = "upsert_second" /\ qpc[a] = "eligible"
  /\ IF overlay[qon[a]] = draft[a]
     THEN /\ Carry(a, "upsert_write", draft[a])
          /\ UNCHANGED <<qpc, qon, snap, doomed>>
     ELSE Deny(a) /\ Carry(a, "none", NoOverlay)
  /\ UNCHANGED <<vars, storeVars>>

RenameOverlay(a) ==
  LET g == qon[a] IN
  /\ call[a] = "upsert_write" /\ qpc[a] = "eligible"
  /\ draft[a].revision < MaxRevision
  /\ overlay' = [overlay EXCEPT ![g] =
                   [revision |-> draft[a].revision + 1, by |-> a]]
  /\ late' = IF Begun(g) /\ ~doomed[a] THEN late \cup {g} ELSE late
  /\ Deny(a) /\ Carry(a, "none", NoOverlay)
  /\ UNCHANGED <<vars, consumer>>

\* The caller of read_view has the overlay.
ReturnView(a) ==
  /\ call[a] = "read_second" /\ qpc[a] = "eligible"
  /\ Deny(a) /\ Carry(a, "none", NoOverlay)
  /\ UNCHANGED <<vars, storeVars>>

\* A step inside one eligibility check; a denial ends the store call too.
InsideCheck(a) ==
  /\ \/ FromTrusted(a) \/ (call[a] = "none" /\ DropContext(a))
     \/ CheckIntent(a) \/ CheckTombstone(a) \/ CheckGrant(a)
  /\ IF qpc'[a] = "ready" THEN Carry(a, "none", NoOverlay)
                          ELSE UNCHANGED <<call, draft>>
  /\ UNCHANGED <<vars, storeVars>>

\* Anyone may call it; the consumer calls it for its pending entry.  What it
\* verifies before the unlink cannot be undone, so the two are one step.
PurgeForRevokedGrant(g) ==
  /\ TombstoneExists(g) \/ grant[g].status = "revoked"
  /\ overlay' = [overlay EXCEPT ![g] = NoOverlay]
  /\ consumer' = [consumer EXCEPT ![g] =
       IF "tenant_view" \in outbox[g].consumers THEN "purged" ELSE @]
  /\ UNCHANGED <<vars, queryVars, call, draft, late>>

\* Mutant: the entry is acknowledged before the overlay is removed.
AckUnpurged(g) ==
  /\ AckCleanupTask(g, "tenant_view")
  /\ UNCHANGED <<queryVars, viewVars>>

AckPurge(g) ==
  /\ consumer[g] = "purged"
  /\ AckCleanupTask(g, "tenant_view")
  /\ consumer' = [consumer EXCEPT ![g] = "idle"]
  /\ UNCHANGED <<queryVars, overlay, call, draft, late>>

AckOther(g, c) ==
  /\ c # "tenant_view" /\ AckCleanupTask(g, c)
  /\ UNCHANGED <<queryVars, viewVars>>

\* The process of a session dies: nothing is left but what it renamed.
ViewCrash(a) ==
  /\ crashes < MaxCrashes /\ call[a] # "none"
  /\ crashes' = crashes + 1
  /\ Deny(a) /\ Carry(a, "none", NoOverlay)
  /\ UNCHANGED <<tenantVars, fileVars, procVars, clock, storeVars>>

ViewStep(a) ==
  \/ \E g \in Grants : StartQuery(a, g) \/ StartRead(a, g) \/ StartUpsert(a, g)
  \/ AnswerQuery(a)
  \/ LoadView(a) \/ LoadExisting(a) \/ SecondCheck(a) \/ SecondDenied(a)
  \/ CompareDigest(a) \/ RenameOverlay(a) \/ ReturnView(a)
  \/ InsideCheck(a) \/ ViewCrash(a)

TInit == Init /\ QueryInit /\ ViewInit

TNext ==
  \/ LedgerStep /\ UNCHANGED <<queryVars, viewVars>>
  \/ \E a \in Agents : ViewStep(a)
  \/ \E g \in Grants : PurgeForRevokedGrant(g) \/ AckPurge(g)
  \/ \E g \in Grants, c \in Consumers : AckOther(g, c)

TSpec == TInit /\ [][TNext]_tvars

-----------------------------------------------------------------------------
TTypeOK ==
  /\ TypeOK
  /\ QTypeOK
  /\ \A a \in Agents : call[a] # "none" => qon[a] # NoKey
  /\ \A a \in Agents : call[a] = "upsert_write" => qpc[a] = "eligible"
  /\ overlay \in [Grants -> Overlay]
  /\ call \in [Agents -> Calls]
  /\ draft \in [Agents -> Overlay]
  /\ consumer \in [Grants -> {"idle", "purged"}]

\* A revocation whose receipt is written and whose "tenant_view" entry is
\* acknowledged has left no overlay, wherever crashes and recover() put the
\* outbox entry and the receipt; except one renamed by an upsert that had
\* begun its second check before the revocation began: neither that check nor
\* the purge stops it (upsert_overlay, purge_for_revoked_grant).
CleanupIsDone ==
  \A g \in Grants :
    HasReceipt(g) /\ "tenant_view" \notin outbox[g].consumers /\ g \notin late
      => overlay[g] = NoOverlay
=============================================================================
