# A formal model of CWK

CWK collects work reports, keeps them once in a shared store, and lets each
tenant (a person and their agents) see the reports an authority says they may
see. A nightly job brings the reports in and publishes a wiki; knowledge bases
(KB) hold the ingested documents, with tokens and a membership table of their
own. This directory holds TLA+ models of the parts of CWK whose correctness
depends on the order of events: files written one after another by processes
that overlap, fail, die and are started again. All paths below are relative to
the repository.

    tlc -workers 2 -config LedgerSafety.cfg MCAccessLedger      # model-check one run
    tlapm AccessLedgerProofs.tla                                # check the proofs of a module

`PROJECT.json` lists the components, the runs, the hazards, the theorems, and
for each definition the lines of code it stands for.

## 1. The system

| Component | State it keeps | Operations | Hard part |
|---|---|---|---|
| Access ledger `scripts/cwk_access_ledger.py` | per tenant, one file each: grants, event logs, revoke-intent journals, tombstones, cleanup outbox, revocation receipts | observe, promote_to_active, refresh_lease, mark_revalidation_due, revoke, recover, ack_cleanup_task, check_query_eligibility | a revocation is seven durable writes over two components; any process may die between two; recover() overlaps with everything |
| Agent context `scripts/cwk_agent_context.py` | immutable snapshots of the tenant record in memory | from_trusted | snapshots grow stale; `auth_epoch` is the fence |
| Tenant views `scripts/cwk_tenant_view.py` | one overlay file per tenant and report | upsert_overlay, read_view, purge_for_revoked_grant | check, read, check, write with no lock while the grant is revoked and purged |
| Tenant registry `scripts/cwk_tenant_registry.py` | tenant record, journals, receipts, directory tree, projection | init_tenant, bump_record_revision, bump_auth_epoch, recover | optimistic bumps; recover() takes no lock and may remove a tree |
| Atomic files `scripts/cwk_atomic_file.py` | none | write_atomic, cas_write, exclusive_lock, recover_orphans | what is one step and what is two |
| Agent bindings `scripts/cwk_agent_binding.py` | one record per hashed agent id, receipts, the secret's material and pointer, tombstones | bind, rebind, suspend, reactivate, revoke, rotate the secret | own commit first, the epoch bump of one or two tenants second; a rotation walks all bindings while others bind |
| Credential broker `scripts/cwk_credential_broker.py` | one reference per tenant, receipts, tombstones | set, disable, revoke, rotate in two calls | compare-and-swap without a lock; a rotation left half done |
| Shared evidence `scripts/cwk_shared_evidence.py`, `cwk_canonical_version_provider.py` | object files, catalog.jsonl, catalog.head | publish, read_version, resolve_current | three files that must agree; readers take no lock |
| Legacy import `scripts/cwk_legacy_raw_import.py`, `cwk_migration_reconciler.py` | crosswalks, reviews, run manifests | import_batch, reconcile | writes to two other components in the middle; the tree is edited under it |
| KB tokens `scripts/kb_token.py`, `kb_access_file.py`, token page of `kb_admin.py` | one JSON registry, one access file per exported library | issue, reissue, rotate, revoke, export | every command replaces the whole file; no lock anywhere |
| KB authorization `scripts/kb_authz.py`, members page of `kb_admin.py` | membership table with a version, mode | bootstrap, set and remove members and roles, create, retire, migrate | a migration that reads and writes two stores, one of them unlocked |
| KB ingest `scripts/kb_ingest.py`, `kb_ledger.py` | originals, raw, index, provenance, state, lexical index, manifest | refresh, run | whole-file accounts written one after another by runs that overlap |
| Collection `scripts/cwk_collect_live.py`, `cwk_collection_state.py`, `cwk_raw_store.py`, `cwk_backfill_range.py` | cutoff and queue, raw files, timelines | collect, promote, complete the date window | a cutoff and caps that pass what has not been fetched yet |
| Nightly pipeline `scripts/cwk_nightly_pipeline.py`, `cwk_cloud_wiki_compile.py`, `cwk_sync_mirror_to_docdb.py` | wiki pages, retry queue, commit pointer on the cloud | collect, compile, publish, retry | child processes that die with what they have not written |
| Gateway, portal, wizard, activation, query, digests, AI stages, experiments | none of their own, or one process's | | ranking, rendering, remote calls: see section 6 |

How they interact. Bindings, credentials and revocations all bump the tenant's
`auth_epoch` in the registry. Snapshots carry the epoch they were made at, grants
the epoch they were written at, and an eligibility check wants the three to
agree. The view store asks the ledger before and after it touches a file. The
cleanup consumers learn of a revocation from the outbox. The import publishes in
the evidence store and has the ledger observe a grant for each report. The
migration of the membership table binds tokens in the token registry. The nightly
run is a chain of child processes that talk through files. Components share
nothing but files; a write is a rename, so it is atomic, and locks are `flock`.

What makes each correct:

* ledger: a revocation takes effect at its first write, is never undone, gets one
  transaction, one tombstone and one receipt, and ends;
* eligibility and views: nothing is served after the revocation has begun;
* registry: the epoch and the revision move forward one at a time, no write is lost,
  every journal goes;
* bindings: when the call that ended a binding has returned, no context made from it
  is believed; each version of a record has its receipt;
* credentials: what has been rotated away is never in force again, and a rotation can end;
* evidence and import: what was acknowledged stays and is the latest when it is called so;
  a crosswalk refers to what exists; a clean reconciliation is true;
* tokens: one live generation per binding, and a revoked token stays revoked;
* authorization: a library keeps an owner, an edit lands on what its editor saw, and the
  migration takes nobody's access and gives none;
* ingest: accounts refer to what exists, versions keep their files and provenance, the
  manifest is true at rest, every item lands;
* nightly run: what counts as processed is in raw with its history, every report lands
  within the window, every page reaches the cloud.

## 2. The modules

    GrantRevocation <-- AccessLedger <-- QueryEligibility <-- TenantView <-- MCTenantView
     (implemented by)       ^  ^-- MCAccessLedger                 ^
                            +------ AccessLedgerProofs -----------+
    EpochRegister   <-- TenantRegistry <-- MCTenantRegistry, TenantRegistryProofs
    EpochCommit     <-- AgentBinding     <-- MCAgentBinding
                    <-- CredentialBroker <-- MCCredentialBroker
                          EpochCommitProofs extends both
    CredentialReference <-- CredentialBroker (implemented by)
    SharedEvidence  <-- LegacyImport     <-- MCLegacyImport, LegacyImportProofs
    TokenRegistry   <-- MCTokenRegistry, TokenRegistryProofs
    KbAuthz         <-- MCKbAuthz, KbAuthzProofs
    KbIngest        <-- MCKbIngest, KbIngestProofs
    Collection <-- RawStore <-- NightlyPipeline <-- MCNightlyPipeline, NightlyPipelineProofs

**AccessLedger** models one tenant of the ledger. Each kind of file is a variable
indexed by grant; each action is what a process does up to its next durable write.
`StartObserve`/`ObserveWrite` and `StartPromote`/`PromoteWrite` are two steps because
the code reads the tenant record before it takes the grant's lock. `Revoke` writes the
journal; `MarkRevoked`, `AppendRevoked`, `GetTenant`, `BumpAuthEpoch`,
`ReadEpochAfter`, `WriteTombstone`, `WriteOutbox`, `WriteReceipt`, `UnlinkIntent` are
steps 2 to 7 of `_complete_revocation`, with the two content-drift errors and the
refused bump. `RecoverRead` reads a journal and looks for its receipt without a lock,
`RecoverLock` enters the same completion with what it read. `Crash` ends any process
at any point: its lock and locals go, its files stay. A receipt of the authority is
reduced to the outcome of its verification and its expiry. A deliberate detail: the
transaction's `before` is the epoch of the *grant*, as in the code, so a grant that is
already stale needs no bump.

**GrantRevocation** is the promise of the ledger: open, closing, closed, for each grant
and for ever, and only an open grant is admitted. `AccessLedger!ImplementsPromise` is
the refinement: the phase of a grant comes from its receipt, journal and tombstone, and
it is admitted when it is active, at the tenant's epoch and within its lease.

**QueryEligibility** adds sessions with a snapshot each, and the check of
`check_query_eligibility` read by read: tenant, journals, tombstone, grant.
**TenantView** adds the overlay, the two-check calls of the store, `cas_write` as a
comparison and a rename, the purge, and the consumer that purges and acknowledges.

**TenantRegistry** models one tenant id: `init_tenant` (journal, tree, record, receipt,
journal away, projection), both bumps, `recover` with its rollback in three lock-free
steps, and `Stop`, a death or a raised write anywhere. `recover_orphans` sweeps
temporary files of running writers too; the writer then raises, which is `Stop`.
**EpochRegister** is its promise.

**EpochCommit** is the transaction that bindings and credentials share: record by
compare-and-swap, receipt, a bump (retried on conflict) for each tenant it is about.
**AgentBinding** adds the operations on bindings, the request that makes its context
(`ResolvePointer`, `ResolveRecord`, `Capture`), and the rotation of the hashing secret: new material,
pointer in dual write, the sweep that tombstones the listed bindings and bumps their
tenants, and the finalize command, which does less than the registry's own.
**CredentialBroker** adds the operations on a reference and the two calls of its
rotation. A call reads the record, prepares its job from it, and writes much later by
compare-and-swap; a finalize reads, writes its tombstone (`RetireReference`, refused when
one is there) and writes its record in three steps. The journals of both stores are left
out: their `recover()` unlinks each of them unread.

**CredentialReference** is the promise of the broker: each operation is one step on the
reference as it is at that moment, a status is not changed in the middle of a rotation, and
a rotation ends only when the epoch it replaces is retired. It has no clients and no
deaths. `CredentialBroker!ImplementsReference` is the refinement.

**SharedEvidence** models `publish` (object, catalogue, head, under a lock per report)
and the lock-free `resolve_current` with its three readings. **LegacyImport** runs
batches over it file by file, with the review path, the refused grant, the
crosswalk that another batch has written, and the comparison of the tree with its
snapshot at the end; beside them somebody edits the tree, a grant is revoked, and a
reader reconciles.

**TokenRegistry** models the token file: `Load` copies it, a `Save*` replaces it by the
changed copy. Issue and reissue carry the rule of their kind (agent tokens are under
the ceiling, shared and service tokens are not). An export saves first, then renames
and chmods the access file, and writes the registry back as it was loaded if one of
the two raises. `membership_epoch` and the receipts in the file are left out: no
property is about them.

**KbAuthz** models the table: each write of `mutate` is one step, under its lock. A
change of a member is made on the version an editor's page has shown (`MembersWrite`), or,
since `expect_version` is optional on the page as on the command line, on whatever is there
(`SetMember`). Beside it tokens of persons, services and libraries are issued, rotated and
revoked; which tokens belong to which agent of a person is left open. The migration is
loaded, planned, rehearsed, written, bound and reported in steps of its own, over the tokens
it reads and replaces without a lock, and dies anywhere.

**KbIngest** models a library under nightly refreshes and manual runs: the plan over the
listing, fetch, conversion and its refusal, the archive of the original, raw, then index,
provenance and state, the lexical index with the exit that does not publish, and the signing
of the manifest: the last one is loaded, the tree scanned and compared with it, the result
written, in three steps (`LoadManifest`, `ScanTree`, `WriteManifest`) between which another
run may do anything. A run's copy of the accounts is loaded once, as in the code, and written
back whole.

**Collection** models the collector: the listing against the saved state, the classes and
caps of `choose_incremental`, the queue, the fetches, the save. A file is a version and
whether it has the full content: a fetch fails, brings it all, or loses only the call for
the full content, and then counts as done with what the listed row held. **RawStore** models the
promotion of what a run has staged, with the timeline, and the completeness pass over the
look-back dates. **NightlyPipeline** is the run: its stages in order, compilation of the
missing pages, upload with its retry queue, the commit pointer, and the deaths of a child or
of the whole run.

Definitions whose comment begins "Mutant" are used by no specification; each is the
plausible bug that breaks one property, see `mutants` in `PROJECT.json`.


## 3. The runs

Safety runs use the unfair specification, so they allow every schedule and every
death. A bound on a counter (clock, epochs, transactions, mishaps) is a guard of the
action that would pass it and is named in the configuration.

| Run | Instance | Properties |
|---|---|---|
| LedgerSafety | 1 grant, 2 writers, 1 recover(), 1 consumer, 1 death, 2 foreign bumps, epoch limit 3, clock 0..2, tenant active or suspended | TypeOK, BegunStaysBarred, ReceiptIsBacked, OneTransaction, ImplementsPromise |
| LedgerLiveness | 2 grants, 1 writer, 1 recover(), 1 death, epoch limit 4 | RevocationCompletesOrDrifts |
| ViewRevocation | 1 grant, 1 session, 1 writer, 1 recover(), 2 consumers, 1 death, 3 tenant statuses, 2 overlay revisions | RevokedNeverServed, CleanupIsDone |
| Registry | 2 clients, 1 recover(), 4 transactions, 1 stop, counters to 3 | NoLostUpdate, ImplementsRegister, JournalsDrain |
| Tokens | 2 commands, 2 agents and 1 exported library, ceiling 1, 3 tokens, 1 expiry | OneLiveGeneration, GenerationsDistinct, SerialRevocationSticks, SharedTokenIsDelivered |
| Bindings | 2 clients, 2 tenants, 1 agent, 1 request, 2 secrets, 3 transactions, epoch limit 4, 2 foreign bumps | RevocationReachesContexts, AuditTrail |
| Credentials | 2 clients, 1 reference, 4 transactions, 1 death | RetiredNeverInForce, FinalizeNotBlocked, ImplementsReference |
| Import | 2 importers, 1 reader, 1 report, 2 paths, 3 contents (one cannot be decomposed, and is there at first), 2 batches, 2 mishaps (edits of the tree and deaths), 3 objects | PublishedStays, ResolvedIsCurrent, CrosswalkBacked, ManifestAccounts, BatchIsTheSnapshot, CleanReportIsTrue |
| Authz | 2 persons, 1 service, the operator, 1 library, 1 members page, 2 tokens (one older than the table), 4 versions | BankIsOwned, MigrationIsFaithful, NoBlindEdit |
| Ingest | 2 items (one with a timeline), 4 contents (one refused, one skipped), a nightly and a manual run, 2 mishaps | AccountsAreBacked, TimelineOnlyGrows, ProvenanceKept, SignedAtRest, EveryItemLands |
| Nightly | 2 reports, 2 versions, 3 changes, 3 dates, 1 mishap, caps of 1, look-back 2 | EvidenceIsKept, LandsInWindow, CloudFollows, PointerIsBacked, QueuedChangeIsKept, TimelineIsWhole |
| NightlyOverflow | the same, 2 dates, no mishap; a violation is expected | PriorityNeverDiscards |

**Why the bounds are enough to be interesting.** Two writers and a `recover()` is the
smallest set in which one process completes another's revocation while a third reads.
An epoch limit of 3 lets a revocation's bump be refused, two foreign bumps drift the
epoch past a transaction. Two grants compete for the one epoch of a tenant only in
LedgerLiveness. Caps of 1 with two reports make every cap overflow; three dates with a
look-back of 2 let a date leave the window. Four versions of the table are two persons, a
library and an edit between a page and its write, or a migration that died and the next. Two batches over two paths make one batch
meet the other's crosswalk, object and catalogue line. In Bindings nobody dies: a death
between a record and its bump breaks `RevocationReachesContexts`, as the code says it
must (section 5), so the run asks what holds without it. For all
but the liveness properties the theorems of section 4 drop the bounds, and those of
AgentBinding have the deaths.

**What each property excludes.** The comment before a property gives it in words and
names the code. Some are weaker than what one would like to say, on purpose: where a
condition such as `~overlapped`, `Alone`, `reverted`, `crashes > 0`, `torn`, `disturbed`, `cut`,
`stranded` or `orphaned` appears, the stronger formula is false of the code, and section 5
says how it fails.

The type invariants of the proved modules are theorems, and the runs do not repeat them
except in LedgerSafety.

**Symmetry** is used for writers, commands, agents, clients, tenants, file contents and
reports where the run has no liveness property and nothing orders them: LedgerSafety,
Tokens, Bindings, Credentials, Import, Nightly.

**Deadlock** is checked in LedgerSafety, LedgerLiveness, ViewRevocation and Import. In
the others the bounded transactions, tokens, versions or dates run out, or every
source is empty, and then nothing is left to do.

**Fairness.** Liveness rests on three assumptions.

* A call that runs goes on, since nothing in the code waits but for a lock that its
  holder releases: weak fairness for each process's steps (AccessLedger,
  TenantRegistry, KbIngest).
* `recover()` is called again and again, and its scan reaches each journal it finds.
  The scan's place is not modelled; weak fairness would let it choose the same journal
  for ever, so it is strong fairness for each journal (AccessLedger, TenantRegistry).
* The nightly refresh starts: weak fairness for its start only, never for a manual
  run. The timer is the launchd job `com.cwk.kb-refresh` of
  `RT/RT-050/rt-lite.md`.

Deaths, failed fetches, edits and foreign bumps are bounded and have no fairness, so
"eventually" means once they have stopped.


## 4. The proofs

TLAPS proves the following for every value of the constants that meets the named
assumptions of the modules, so for any number of processes, grants, reports, deaths and
retries. Every safety property of a passing run is stated by one of the theorems; two more
(`Immutable`, `LegalTransitions`) are proved and not part of a run. Eight
modules hold the proofs; each component has a theorem that its inductive invariant holds
(`Invariant`, `ViewInvariant`, `BindingInvariant`, `IngestInvariant`), and the others
follow from it.

| Module | Properties proved | The strengthening |
|---|---|---|
| AccessLedgerProofs | TypeOK, BegunStaysBarred, ReceiptIsBacked, OneTransaction, Immutable, LegalTransitions, ImplementsPromise | `IInv` is `GrantInv`, what the files of one grant show at each stage of its revocation, and `ProcInv`, what a process may rely on at its program point |
| AccessLedgerProofs (views) | RevokedNeverServed, CleanupIsDone | over the ledger's invariant: how far a check can have got when the revocation began before it, and what a read holds |
| TenantRegistryProofs | NoLostUpdate, ImplementsRegister, types | the record's counters account for the acknowledged writes; a process that compares and writes still holds what it read |
| TokenRegistryProofs | OneLiveGeneration, GenerationsDistinct, SerialRevocationSticks, SharedTokenIsDelivered, types | the file and every copy in somebody's hands are clean, so that any of them may be saved in any order; two more parts hold without overlap |
| EpochCommitProofs (credentials) | RetiredNeverInForce, FinalizeNotBlocked, ImplementsReference, types | what each call prepared from the record it read; the epoch is past every tombstone |
| EpochCommitProofs (bindings) | RevocationReachesContexts, AuditTrail, types | who still owes which tenant a bump; transactions that no record has yet; where the secret stands; receipts of the live hashes |
| KbAuthzProofs | BankIsOwned, MigrationIsFaithful, NoBlindEdit | pages are the table or an older version of it; a rehearsal holds until something disturbs it |
| LegacyImportProofs | PublishedStays, ResolvedIsCurrent, CrosswalkBacked, ManifestAccounts, CleanReportIsTrue, BatchIsTheSnapshot | the catalogue only grows; publishes of a report exclude each other; what a batch or reader knows at its point |
| KbIngestProofs | AccountsAreBacked, TimelineOnlyGrows, ProvenanceKept, SignedAtRest, types | copies of every run refer to files that exist; the copy of a run that is alone is the accounts and at most one version more; what the manifest does not know, the run does |
| NightlyPipelineProofs | EvidenceIsKept, LandsInWindow, CloudFollows, PointerIsBacked, QueuedChangeIsKept, TimelineIsWhole | six named parts: types, queue, raw, evidence, window, cloud |

**The ledger.** None of the safety properties is inductive: they say nothing of the
processes, and a process in the middle of a completion writes what it decided long
before. The argument is that the files of a grant only advance (journal, revoked
record, tombstone, receipt, in that order): `GrantInv` fixes what each stage implies of
the earlier ones. A process's knowledge in `ProcInv` is phrased with facts that
advancing cannot take away, so the steps of others keep it (the `Advance` lemmas), and
a death keeps `GrantInv`, which is about files only. No leaf uses that a lock is free:
the safety of a revocation rests on the order of its writes and on their
idempotence, not on `flock`. The refinement follows step by step: the journal is
`Begin`, the receipt is `Close`, an observation or a promotion `Admit`, and the rest
either lapses or stutters.

**Eligibility and views.** The invariant says for a session whose check began after a
revocation which reads can still have succeeded. The grant's journal is written first
and goes last, after the tombstone is there; the check reads the journals before the
tombstone. So one of the two reads finds something. `read_view` inherits it through its
second check, wherever `upsert_overlay` and the purge stand.

**Registry.** The floor of acknowledged writes is never above the record, and a bump
moves both. The refinement to `EpochRegister` needs only that a write which passes its
comparison moves one counter by one.

**Tokens.** Since a command saves a whole file it loaded earlier, an invariant of the file
alone is lost at the next save. It has to be one of all copies, which is why
`OneLiveGeneration` survives any overlap while the revocation does not.

**Credentials.** What a call is going to write is its whole operation on the record it
has read (`Prepared`), and the compare-and-swap lets it write only where that record is
still in force. So each write is one step of `CredentialReference`, however old the read
is. A finalize retires before it writes, without a comparison: the epoch it
retires was replaced when the rotation began, so it is behind for good (`Behind`), even if
the write of the record is refused later. That gives `RetiredNeverInForce`. `Past` says
the same of every tombstone and of a rotation under way.

**Bindings.** `RevocationReachesContexts` says that a call is pending, and nothing of what
it will do. The invariant `BindingInv` names the debt: a context that is believed
although its binding has changed has a client that still has to bump *that tenant*
(`Owes`), be it the call that made the change or a rotation that listed the binding. A
bump pays the debt and makes the context stale; a call that ends half way (a death, a
conflict to the end, a record that went away) leaves a note in `cut`. A call owes before
it writes: what it has read when it is about to write the record says whom it will have
to bump (`ReadInv`). That a binding has changed is seen by the transaction of its
record, so the proof carries that a transaction which has not written is on no record
and in no context (`Fresh`). The rotation needs where the secret stands, that its new
material is made by one client only, and that the files it ends are under a
secret that is behind (`Knows`). The audit trail is proved of the hashes under the current
secret or a later one: a tombstone takes the record of a retired one, and nothing writes there
again but calls that had started before.

**Authorization.** The migration writes a table it rehearsed on a copy. The proof carries
the rehearsal along each of its steps as long as nothing disturbs it, from whatever an
earlier migration left behind.

**Import.** `BatchesAreSnapshots` is about each file of a batch: what was imported is what the
listing at the start had, for any number of edits. The one exception is in the property: a
file that was changed and, before the second listing, changed back (`reverted`) goes unnoticed,
in the model as in the code, which compares the two listings and not what it read. The proof
keeps, for each file and batch under way: if the file is now as the snapshot has it, and was
not changed back, then what the batch has read of it is what the snapshot has.

**Ingest.** A run saves whole files of accounts from a copy it loaded at its start, so half
of the invariant (`BackedInv`) is about the accounts and all copies, as for the
tokens. It needs no more than that originals and raw only grow, and holds for runs that
overlap. The other half (`AloneInv`) is about a library whose runs never overlapped. At
each point of the one run it says what its copy is: the accounts themselves, or, before
a publish, the accounts and one pending version (`Ahead`). Versions without
provenance, but for the one that is due, are no more than the deaths so far
(`Accounted`); a death in `chain` is what moves one from due to lost. Without a death,
what the tree has and the manifest does not is among the files the run has touched
(`Explained`), which is what its signing checks. `SignedAtRest` cannot be proved without
following the manifest through its three ways to be signed; `HandInv` is what a run that is
alone holds between the steps of one: the manifest as it is, then the tree as it is.

**Nightly.** The queue keeps a waiting change through listing, classes and caps; the
window theorem needs nothing of the collector, only the date window and the exit
code of the pass.

**Model-checked only.** The three liveness properties (the prover has neither fairness nor
ENABLED): `RevocationCompletesOrDrifts`, `JournalsDrain` and `EveryItemLands`; and
`PriorityNeverDiscards`, which the code violates.

**Assumptions.** They are named in the modules and weak: limits are natural numbers, model
values that stand for "none" are not among the values they stand beside, a tenant is a
key of the credentials. TLC evaluates each of them. EpochCommitProofs extends two components
that use the keys in their own way; the proofs of one cite no assumption of the other.


## 5. Where the code disagrees with what it says

**NightlyOverflow.** `cwk_collection_state.py:239-241` says that overflow is persisted,
"so priority never discards evidence". A report queued as new for want of room is
classified again by the next run. If the cutoff has passed it and it is in the unread,
pending or todo lane, it is now a continuation, and `choose_incremental`
(`cwk_collection_state.py:275`) queues only new and updated entries: beyond the cap it
is dropped without a fetch. The date window brings it in later, unless the date has
left the window by then.

Seen while modelling, without a run of their own. Those of the ledger, the views, the
registry and the tokens:

* A death between the revoked record and its event loses the event; the retry sees
  the status and skips both (`cwk_access_ledger.py:1584`, header line 32).
* A death after the tombstone, followed by a foreign bump, ends the revocation in the
  drift error for good (`cwk_access_ledger.py:1645`). This is the second case of
  `RevocationCompletesOrDrifts`.
* `observe()` stamps an active grant with the tenant's present epoch, no authority
  having looked at it (`:1182`, against `:1150-1152`), and makes a discovered grant
  granted when the roles differ (`:1164`).
* Two upserts of one overlay that compare before either renames lose a revision: both
  comparisons are made without a lock, where `cwk_atomic_file.py:26-27` and `:469` ask the
  caller for one.
* An outbox entry rebuilt by a retry has another timestamp and digest (`:1665`).
  `list_query_eligible` returns the record it read before the check (`:2012`).
* An upsert that passed its check may write an overlay after the purge
  (`cwk_tenant_view.py:378`, against `RT/RT-015/specs/技术方案.md:127-128`). It stays on disk;
  nobody is served it.
* `recover()` of the registry may take a tree away under a running `init_tenant`
  (`cwk_tenant_registry.py:845`, docstring `:811-815`). A record may name a receipt
  that a stopped transaction never wrote (`:795`).
* An overlapping save loses a token's revocation (`kb_token.py:1561`, against `:52` and
  `:966`). The restore after a failed export takes `membership_epoch` back
  (`kb_access_file.py:302`). An export that dies between save and rename leaves the
  superseded token in the access file.

Those of bindings and credentials:

* The help of `rotate-binding-secret` says that finalize tombstones every record of the
  old secret (`cwk_tenant_cmd_binding.py:411`); the standalone finalize, meant for
  recovery, writes the pointer and nothing else (`:473`).
* `from_trusted` reads the tenant a second time for the epoch of the snapshot. One that
  read the record before a binding's write and the tenant after its bump has the old
  record with the new epoch, and that bump never finds it stale
  (`cwk_agent_binding.py:10-13`).
* A rotation tombstones the bindings listed at its start and bumps their tenants. A
  binding committed after that is tombstoned without the bump of its tenant, or is
  committed at the old hash after the sweep and stays active, though unreachable.
* A death between a record and its bump is repaired by nobody: `recover()` unlinks the
  journal unread. A bump that conflicts to the end raises after the record is
  committed, and receipts carry the epoch that was predicted.
* `_patch_last_history_action` re-reads the record after the commit and may relabel the
  entry of another mutation.
* A death between new material and pointer leaves the rotation stuck. A credential's
  finalize that dies or conflicts after its tombstone blocks every later finalize; this
  is the exception in `FinalizeNotBlocked`. It is a wide one: a finalize whose write of the
  record conflicts, for whatever reason, is excused as well.

Those of evidence, import and authorization:

* A publish that dies between `catalog.jsonl` and `catalog.head` leaves the report's
  catalogue corrupt for good, and a reader without the lock may see the same for a
  moment.
* An import that dies between crosswalk and manifest never appends the line. A manifest
  line for a failed publish violates the manifest's own schema, so nothing is written
  although the comment promises an auditable review entry. One failed publish ends the
  batch.
* The migration of the table reads and saves the token registry without a lock, so it
  can undo a concurrent revocation (`kb_authz.py:746`, against `docs/KB-AUTHZ.md:105`);
  its final report is about its copies in memory.

Those of ingest and the nightly run:

* A manifest is written from a scan that may be old by then: if two runs sign at the same
  time, files that the first has recorded drop out of what the second writes
  (`kb_ledger.py:268-284`).
* A refresh that dies after its last publish and before it signs leaves a manifest that no
  later run signs (`kb_ingest.py:2449`); so does a lexical publish that dies before its sign.
* Runs that overlap lose each other's index and provenance lines until the next run,
  and may write the same version file.
* A death between index and state makes the retry record the same bytes as a second
  version; between index and provenance it loses the line. A fetch that fails for an
  item that has landed marks it failed, and the next run ingests the same bytes again.
* A death after raw was overwritten, with the source going back, is reported as "raw
  modified by hand". A refused conversion leaves its original behind.
* The collector saves its state before the promotion. If the run ends between the two,
  an update of a known report is lost until the report changes again (`orphaned`).
* The commit pointer is published although pages failed; the comment calls them settled.
  If a run ends between compile and upload, its pages are uploaded by no later run
  (`stranded`). The pages a start-up reconcile recovers enter the manifest but not the
  changed paths.
* The collector counts an entry as fetched when any of its three calls succeeded
  (`cwk_collect_live.py:432`). If only the one for the full content failed, raw gets the
  content of the listed row, or nothing (`:157-160`), and the record the row's fingerprint
  (`:451-458`). No later run fetches that version again: the collector knows it, and the date
  window skips a report that has a file. The window's own fetch says "Full content is the
  required truth-source payload" (`cwk_backfill_range.py:263`). `EvidenceIsKept` and
  `LandsInWindow` are therefore about a file, not about its content.
* A summary is not compiled again when its report changes. `dedupe_pending` may turn a daily
  entry into a backfill one.


## 6. Not modelled, and why

* **Durability.** A write is on disk when its call returns. Power failure before a
  directory sync is not a step; a process's death is.
* **Data.** Signatures, digests, schemas, canonical JSON, path containment, and the
  identity fields of a snapshot are reduced to the outcome of a comparison.
* **Admission and identity.** `bind_principal` and the admission decisions are pure checks
  of one request. Frozen contracts and the instance layout enter as status tables and as
  the names of files.
* **Activation, wizard, doctor, creation.** One process, one operator, a sequence of
  questions.
* **Agent tokens of the first registry version.** `binding_ids_for` also finds the tokens an
  agent got under its key before bindings were made of persons (`kb_token.py:334-340`).
  TokenRegistry gives an agent one binding, so `OneLiveGeneration` says nothing of such a
  token beside a new one; KbAuthz has them, as the tokens older than the table.
* **Gateway and portal.** Stateless HTTP handlers over stores that are modelled: the
  registry of tokens, the table, the lexical index.
* **Retrieval, query, digests, AI stages, reports.** Ranking, text and remote models;
  what they compute is data, and they keep no state another part relies on.
* **KB snapshot, migrate, storage providers.** Copies and uploads by one operator command.
  Of `kb_ledger.py` the manifest and the protection of raw are modelled, not the
  batches.
* **Tenant command line.** A wrapper; only the finalize of a secret's rotation, which
  differs from the registry's, is modelled.
* **Pilot admission, reply refresh, thread watch, experiments.** Outside the paths above.

The map covers about 12% of the code lines. Most of the rest is parsing,
rendering, argument handling, wizards and benchmarks, where a state machine would restate
the text. The modelled lines are those that write, or decide on, shared files.


## 7. What could come next

1. A promise for the library (what is landed stays landed) that KbIngest implements, with
   its refinement proved.
2. `kb_snapshot.py` against a running ingest, and the storage providers' retries.
3. The activation state machine, with two wizards on one state directory.
4. Deaths in Bindings, with the repair the code lacks, to see what a repair must do.
