---------------------------- MODULE LegacyImport ----------------------------
(***************************************************************************)
(* The shadow import of legacy raw files (cwk_legacy_raw_import.py) into   *)
(* the evidence store, and its reconciliation (cwk_migration_reconciler).  *)
(*                                                                         *)
(* A batch walks the files of the legacy tree in order and, for each,      *)
(* publishes the canonical version, has the access ledger observe its      *)
(* grant, writes the crosswalk and adds a line to the manifest of the run. *)
(* Files that do not decompose get a review entry instead.  Nothing is     *)
(* deleted, so that crosswalks, reviews, manifest lines and grants are     *)
(* sets; each is written under a lock of its own or not at all, hence in   *)
(* one step.                                                               *)
(*                                                                         *)
(* One tenant and one source namespace.  The promotion of the grant and    *)
(* the overlay that follow with an authority receipt are left out: no      *)
(* caller has one.                                                         *)
(***************************************************************************)
EXTENDS SharedEvidence

CONSTANTS
  NPaths,
  Contents,      \* the bytes of a file
  Quarantined,   \* contents that do not decompose
  ReportOf,      \* of the other contents: the report
  VersionOf,     \* and the canonical version
  Trees,         \* what the legacy tree may hold at first
  Runs,          \* run ids
  MaxBatches,    \* bound on batches
  MaxMishaps     \* bound on changes of the legacy tree and batches that die

ASSUME ImportAssumption ==
  /\ NPaths \in Nat \ {0}
  /\ Quarantined \subseteq Contents
  /\ ReportOf \in [Contents \ Quarantined -> Reports]
  /\ Trees \subseteq [1..NPaths -> Contents]
  /\ MaxBatches \in Nat /\ MaxMishaps \in Nat

VARIABLES
  tree,        \* legacy files: path -> content
  grants,      \* reports whose grant the ledger has observed
  closed,      \* reports whose grant is being or has been revoked
  crosswalks,  \* [path, content, report, version, object]
  reviews,     \* [path, content, run]
  manifest,    \* [run, path, content, outcome]
  bounds,      \* [batches, mishaps]
  unlisted,    \* history: crosswalks whose manifest line was cut off
  reverted     \* history: <<batch, file>>, the file changed back since its snapshot

history    == <<unlisted, reverted>>
recordVars == <<grants, closed, crosswalks, reviews, manifest, history>>
vars       == <<evidenceVars, recordVars, tree, bounds>>

Paths  == 1..NPaths
NoWork == [pc |-> "idle"]

Decomposes(x) == x \notin Quarantined

CrosswalkFor(p, x) == {w \in crosswalks : w.path = p /\ w.content = x}

Init ==
  /\ EvidenceInit
  /\ work = [c \in Clients |-> NoWork]
  /\ tree \in Trees
  /\ grants = {} /\ closed = {} /\ crosswalks = {} /\ reviews = {}
  /\ manifest = {} /\ unlisted = {} /\ reverted = {}
  /\ bounds = [batches |-> 0, mishaps |-> 0]

Bump(b) == bounds' = [bounds EXCEPT ![b] = @ + 1]

-----------------------------------------------------------------------------
(* import_batch.                                                           *)

\* A batch before it reads a file, or after the last one; import_one keeps
\* nothing of the files before.
BatchAt(pc, run, snap, path, imported) ==
  [pc |-> pc, run |-> run, path |-> path, snap |-> snap,
   content |-> snap[path], imported |-> imported, report |-> "none",
   version |-> "none", object |-> 0, head |-> <<>>]

\* The snapshot of the tree.
StartBatch(c, run) ==
  /\ work[c].pc \in {"idle", "returned"}
  /\ bounds.batches < MaxBatches /\ Bump("batches")
  /\ work' = [work EXCEPT ![c] = BatchAt("read", run, tree, 1, <<>>)]
  /\ reverted' = {x \in reverted : x[1] # c}
  /\ UNCHANGED <<catalogVars, reads, grants, closed, crosswalks, reviews, manifest,
                 unlisted, tree>>

\* The call raises, and the batch with it.
Abort(c) == work' = [work EXCEPT ![c] = NoWork]

ReadFile(c) ==
  /\ At(c, "read")
  /\ work' = [work EXCEPT ![c].pc = "find", ![c].content = tree[work[c].path]]
  /\ UNCHANGED <<catalogVars, reads, recordVars, tree, bounds>>

\* The next file, or the comparison of the tree with the snapshot.
NextFile(c) ==
  LET w    == work[c]
      done == Append(w.imported, w.content)
  IN  work' = [work EXCEPT ![c] =
        IF w.path = NPaths THEN BatchAt("compare", w.run, w.snap, w.path, done)
        ELSE BatchAt("read", w.run, w.snap, w.path + 1, done)]

\* Mutant: the tree is not compared after the last file.
CompareTreeNever(c) ==
  /\ At(c, "compare")
  /\ Goto(c, "returned")
  /\ UNCHANGED <<catalogVars, reads, recordVars, tree, bounds>>

CompareTree(c) ==
  /\ At(c, "compare")
  /\ IF tree = work[c].snap THEN Goto(c, "returned") ELSE Abort(c)
  /\ UNCHANGED <<catalogVars, reads, recordVars, tree, bounds>>

-----------------------------------------------------------------------------
(* import_one.                                                             *)

\* Mutant: a version that is in the catalogue goes straight to its crosswalk.
FindPublished(c) ==
  LET w == work[c]
      x == w.content
  IN  /\ At(c, "find")
      /\ Decomposes(x) /\ CrosswalkFor(w.path, x) = {}
      /\ work' = [work EXCEPT
           ![c].report = ReportOf[x], ![c].version = VersionOf[x],
           ![c].pc = IF VersionOf[x] \in VersionsIn(catalog[ReportOf[x]])
                     THEN "crosswalk" ELSE "publish",
           ![c].object = IF VersionOf[x] \in VersionsIn(catalog[ReportOf[x]])
                         THEN EntryOf(ReportOf[x], VersionOf[x]).object ELSE 0]
      /\ UNCHANGED <<catalogVars, reads, recordVars, tree, bounds>>

\* A crosswalk for this path and content exists, or a review of this run,
\* or the content is decomposed.
Find(c) ==
  LET w == work[c]
      x == w.content
  IN  /\ At(c, "find")
      /\ IF CrosswalkFor(w.path, x) # {}
         THEN work' = [work EXCEPT ![c].pc = "verify",
                         ![c].report = ReportOf[x], ![c].version = VersionOf[x],
                         ![c].head = head[ReportOf[x]]]
         ELSE IF [path |-> w.path, content |-> x, run |-> w.run] \in reviews
              THEN NextFile(c)
              ELSE IF Decomposes(x)
                   THEN work' = [work EXCEPT ![c].pc = "publish",
                                   ![c].report = ReportOf[x],
                                   ![c].version = VersionOf[x]]
                   ELSE Goto(c, "review")
      /\ UNCHANGED <<catalogVars, reads, recordVars, tree, bounds>>

\* read_version of what the crosswalk stands for: the head was read with the
\* crosswalk, the catalogue now.  An idempotent import leaves no line in the
\* manifest of its run.
Verify(c) ==
  LET r == work[c].report
  IN  /\ At(c, "verify")
      /\ IF work[c].head = catalog[r]
              /\ work[c].version \in VersionsIn(catalog[r])
         THEN NextFile(c) ELSE Abort(c)
      /\ UNCHANGED <<catalogVars, reads, recordVars, tree, bounds>>

WriteReview(c) ==
  /\ At(c, "review")
  /\ reviews' = reviews \cup
       {[path |-> work[c].path, content |-> work[c].content,
         run |-> work[c].run]}
  /\ Goto(c, "manifest")
  /\ UNCHANGED <<catalogVars, reads, grants, closed, crosswalks, manifest,
                 history, tree, bounds>>

\* The line written when publish fails does not pass its own schema; its
\* error takes the place of the first one.
PublishFails(c) ==
  /\ CatalogCorrupt(c)
  /\ Abort(c)
  /\ UNCHANGED <<recordVars, tree, bounds>>

\* observe() of the access ledger; a closed grant is refused.
Observe(c) ==
  /\ At(c, "published")
  /\ work[c].report \notin closed
  /\ grants' = grants \cup {work[c].report}
  /\ Goto(c, "crosswalk")
  /\ UNCHANGED <<catalogVars, reads, closed, crosswalks, reviews, manifest,
                 history, tree, bounds>>

ObserveRefused(c) ==
  /\ At(c, "published")
  /\ work[c].report \in closed
  /\ Abort(c)
  /\ UNCHANGED <<catalogVars, reads, recordVars, tree, bounds>>

\* Another batch may have written it: then it is verified like one found.
WriteCrosswalk(c) ==
  LET w == work[c]
  IN  /\ At(c, "crosswalk")
      /\ IF CrosswalkFor(w.path, w.content) = {}
         THEN /\ crosswalks' = crosswalks \cup
                   {[path |-> w.path, content |-> w.content,
                     report |-> w.report, version |-> w.version,
                     object |-> w.object]}
              /\ Goto(c, "manifest")
         ELSE /\ IF Agree(w.report)
                      /\ \A x \in CrosswalkFor(w.path, w.content) :
                           x.object = w.object
                 THEN Goto(c, "manifest") ELSE Abort(c)
              /\ UNCHANGED crosswalks
      /\ UNCHANGED <<catalogVars, reads, grants, closed, reviews, manifest,
                     history, tree, bounds>>

\* Mutant: a file is listed once per path, whatever its content.
AppendManifestByPath(c) ==
  LET w == work[c]
  IN  /\ At(c, "manifest")
      /\ manifest' = IF \E m \in manifest : m.run = w.run /\ m.path = w.path
                     THEN manifest
                     ELSE manifest \cup {[run |-> w.run, path |-> w.path,
                            content |-> w.content,
                            complete |-> Decomposes(w.content)]}
      /\ NextFile(c)
      /\ UNCHANGED <<catalogVars, reads, grants, closed, crosswalks, reviews,
                     history, tree, bounds>>

AppendManifest(c) ==
  LET w == work[c]
  IN  /\ At(c, "manifest")
      /\ manifest' = manifest \cup {[run |-> w.run, path |-> w.path,
                       content |-> w.content,
                       complete |-> Decomposes(w.content)]}
      /\ NextFile(c)
      /\ UNCHANGED <<catalogVars, reads, grants, closed, crosswalks, reviews,
                     history, tree, bounds>>

ImportStep(c) ==
  \/ \E run \in Runs : StartBatch(c, run)
  \/ ReadFile(c) \/ Find(c) \/ Verify(c) \/ WriteReview(c)
  \/ PublishFails(c) \/ Observe(c) \/ ObserveRefused(c)
  \/ WriteCrosswalk(c) \/ AppendManifest(c) \/ CompareTree(c)

\* The batch dies, its files stay; unlisted notes a crosswalk whose line is
\* never written: the next import of the file finds the crosswalk.
Crash(c) ==
  LET w == work[c]
  IN  /\ w.pc \notin {"idle", "returned"}
      /\ bounds.mishaps < MaxMishaps /\ Bump("mishaps")
      /\ unlisted' = IF w.pc = "manifest"
                     THEN unlisted \cup {<<w.path, w.content>>} ELSE unlisted
      /\ Abort(c)
      /\ UNCHANGED <<catalogVars, reads, grants, closed, crosswalks, reviews,
                     manifest, reverted, tree>>

-----------------------------------------------------------------------------
(* The surroundings: somebody edits the tree, a grant is revoked.          *)

\* reverted notes the batches that go on with a snapshot in which the file has
\* the content it is given again.
EditTree ==
  /\ bounds.mishaps < MaxMishaps /\ Bump("mishaps")
  /\ \E p \in Paths, x \in Contents :
       /\ tree[p] # x /\ tree' = [tree EXCEPT ![p] = x]
       /\ reverted' = reverted \cup
            {<<c, p>> : c \in {d \in Clients : /\ work[d].pc \notin {"idle", "returned"}
                                              /\ work[d].snap[p] = x}}
  /\ UNCHANGED <<evidenceVars, grants, closed, crosswalks, reviews, manifest, unlisted>>

RevokeGrant(r) ==
  /\ r \in grants \ closed
  /\ closed' = closed \cup {r}
  /\ UNCHANGED <<evidenceVars, grants, crosswalks, reviews, manifest, history,
                 tree, bounds>>

-----------------------------------------------------------------------------
(* reconcile, by a reader: the tree, then the crosswalks and the reviews,   *)
(* then one read_version for each crosswalk.  It writes nothing but its     *)
(* report, of which only the verdict is kept: all counts of differences are *)
(* zero.                                                                    *)

Reading(q, next) ==
  /\ reads' = [reads EXCEPT ![q] = next]
  /\ UNCHANGED <<catalogVars, work, recordVars, tree, bounds>>

ReconcileTree(q) ==
  /\ reads[q] = NoRead
  /\ Reading(q, [pc |-> "records", tree |-> tree])

\* Mutant: a review covers its path, whatever content it was written for.
CoveredByPath(p, x) ==
  (\E w \in crosswalks : w.path = p) \/ (\E v \in reviews : v.path = p)

\* A path with a crosswalk is not "only legacy"; a review must be of the
\* content on disk.
Covered(p, x) ==
  \/ \E w \in crosswalks : w.path = p
  \/ \E v \in reviews : v.path = p /\ v.content = x

ReconcileRecords(q) ==
  LET files == reads[q].tree
  IN  /\ reads[q].pc = "records"
      /\ Reading(q, [pc |-> "check", tree |-> files, todo |-> crosswalks,
           clean |-> /\ \A w \in crosswalks : files[w.path] = w.content
                     /\ \A p \in Paths : Covered(p, files[p])])

\* The content decomposes to what the crosswalk says; the version is read.
ReconcileVersion(q) ==
  /\ reads[q].pc = "check"
  /\ \E w \in reads[q].todo :
       Reading(q, [reads[q] EXCEPT !.todo = @ \ {w},
         !.clean = @ /\ Agree(w.report)
                     /\ w.version \in VersionsIn(catalog[w.report])])

ReconcileDone(q) ==
  /\ reads[q].pc = "check" /\ reads[q].todo = {}
  /\ Reading(q, NoRead)

Reconcile(q) ==
  ReconcileTree(q) \/ ReconcileRecords(q) \/ ReconcileVersion(q)
    \/ ReconcileDone(q)

-----------------------------------------------------------------------------
Next ==
  \/ \E c \in Clients :
       \/ ImportStep(c) \/ Crash(c)
       \/ Publish(c) /\ UNCHANGED <<recordVars, tree, bounds>>
  \/ \E q \in Readers :
       \/ ResolveCurrent(q) /\ UNCHANGED <<recordVars, tree, bounds>>
       \/ Reconcile(q)
  \/ EditTree
  \/ \E r \in Reports : RevokeGrant(r)

Spec == Init /\ [][Next]_vars

-----------------------------------------------------------------------------
(* Properties.                                                             *)

\* A crosswalk is written last of the records it refers to: its object is
\* the one the catalogue has for its version, and its grant was observed.
CrosswalkBacked ==
  \A w \in crosswalks :
    /\ w.version \in VersionsIn(catalog[w.report])
    /\ EntryOf(w.report, w.version).object = w.object
    /\ w.report \in grants

\* Each crosswalk has its line in the manifest of some run, unless the batch
\* that wrote it is about to append the line, or died before it.
ManifestAccounts ==
  \A w \in crosswalks :
    \/ \E m \in manifest : m.path = w.path /\ m.content = w.content
    \/ \E c \in Clients : At(c, "manifest") /\ work[c].path = w.path
                            /\ work[c].content = w.content
    \/ <<w.path, w.content>> \in unlisted

\* A batch that returned has imported, of each file, the content of its
\* snapshot: however often the tree was edited, no file was another when the
\* batch read it, but one that was changed back before the tree was compared.
BatchIsTheSnapshot ==
  \A c \in Clients, p \in Paths :
    At(c, "returned") /\ <<c, p>> \notin reverted =>
      work[c].imported[p] = work[c].snap[p]

\* When the reconciliation finds no difference, the content each file had
\* when it was read is accounted for: by a crosswalk with its version in the
\* evidence store, or by a review of that content.
CleanReportIsTrue ==
  \A q \in Readers :
    reads[q].pc = "check" => (reads[q].todo = {} /\ reads[q].clean =>
      \A p \in Paths :
        \/ \E w \in CrosswalkFor(p, reads[q].tree[p]) :
             w.version \in VersionsIn(catalog[w.report])
        \/ \E v \in reviews : v.path = p /\ v.content = reads[q].tree[p])
=============================================================================
