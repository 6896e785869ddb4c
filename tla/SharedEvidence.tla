--------------------------- MODULE SharedEvidence ---------------------------
(***************************************************************************)
(* The canonical evidence store of scripts/cwk_shared_evidence.py: publish *)
(* under a lock per report, read_version without one, and resolve_current  *)
(* of scripts/cwk_canonical_version_provider.py.                           *)
(*                                                                         *)
(* A report's catalogue is two files, catalog.jsonl (the versions) and     *)
(* catalog.head (their count, their hash and the latest), replaced one     *)
(* after the other.  The head is modelled by the versions it describes.    *)
(* recover() repairs neither: it removes temporary files and reports.      *)
(***************************************************************************)
EXTENDS Naturals, Sequences, FiniteSets

CONSTANTS
  Clients,     \* processes that publish
  Readers,     \* processes that resolve the current version
  Reports,
  MaxObjects   \* bound on object ids

ASSUME EvidenceAssumption == MaxObjects \in Nat

VARIABLES
  catalog,   \* each report: the entries of catalog.jsonl
  head,      \* each report: the entries catalog.head describes
  objects,   \* object files: [object, report, version]
  nextObject,
  work,      \* each client: what it is doing
  reads,     \* each reader: its resolve_current
  acked      \* history: [report, version] whose publish returned

catalogVars  == <<catalog, head, objects, nextObject, acked>>
evidenceVars == <<catalogVars, work, reads>>

VersionsIn(entries) == {entries[n].version : n \in DOMAIN entries}
Agree(r)            == head[r] = catalog[r]
EntryOf(r, v) == CHOOSE e \in {catalog[r][n] : n \in DOMAIN catalog[r]} :
                   e.version = v

At(c, l)   == work[c].pc = l
Goto(c, l) == work' = [work EXCEPT ![c].pc = l]

\* The lock of a report, held from the load of its catalogue to the return.
Locked(r) ==
  \E c \in Clients : work[c].pc \in {"object", "catalog", "head"}
                       /\ work[c].report = r

NoRead == [pc |-> "idle"]

EvidenceInit ==
  /\ catalog = [r \in Reports |-> <<>>]
  /\ head = [r \in Reports |-> <<>>]
  /\ objects = {}
  /\ nextObject = 1
  /\ reads = [q \in Readers |-> NoRead]
  /\ acked = {}

Returned(c, object) ==
  /\ acked' = acked \cup {[report |-> work[c].report,
                           version |-> work[c].version]}
  /\ work' = [work EXCEPT ![c].pc = "published", ![c].object = object]

-----------------------------------------------------------------------------
(* publish.  The lock keeps the compare-and-swap of both files from ever   *)
(* failing.                                                                *)

\* The version is known: the receipt of the first publish.
Republish(c) ==
  LET r == work[c].report
      v == work[c].version
  IN  /\ At(c, "publish") /\ ~Locked(r) /\ Agree(r)
      /\ v \in VersionsIn(catalog[r])
      /\ Returned(c, EntryOf(r, v).object)
      /\ UNCHANGED <<catalog, head, objects, nextObject, reads>>

\* Mutant: a version is new whenever it is not the latest.
LoadCatalogLatest(c) ==
  LET r == work[c].report
  IN  /\ At(c, "publish") /\ ~Locked(r) /\ Agree(r)
      /\ IF catalog[r] = <<>> THEN TRUE
         ELSE catalog[r][Len(catalog[r])].version # work[c].version
      /\ Goto(c, "object")
      /\ UNCHANGED <<catalogVars, reads>>

LoadCatalog(c) ==
  LET r == work[c].report
  IN  /\ At(c, "publish") /\ ~Locked(r) /\ Agree(r)
      /\ work[c].version \notin VersionsIn(catalog[r])
      /\ Goto(c, "object")
      /\ UNCHANGED <<catalogVars, reads>>

\* The two files disagree: corrupt_catalog is raised.
CatalogCorrupt(c) ==
  /\ At(c, "publish") /\ ~Locked(work[c].report) /\ ~Agree(work[c].report)
  /\ UNCHANGED <<catalogVars, reads>>

WriteObject(c) ==
  /\ At(c, "object")
  /\ nextObject <= MaxObjects
  /\ objects' = objects \cup {[object |-> nextObject,
                               report |-> work[c].report,
                               version |-> work[c].version]}
  /\ nextObject' = nextObject + 1
  /\ work' = [work EXCEPT ![c].pc = "catalog", ![c].object = nextObject]
  /\ UNCHANGED <<catalog, head, reads, acked>>

WriteCatalog(c) ==
  /\ At(c, "catalog")
  /\ catalog' = [catalog EXCEPT ![work[c].report] =
       Append(@, [version |-> work[c].version, object |-> work[c].object])]
  /\ Goto(c, "head")
  /\ UNCHANGED <<head, objects, nextObject, reads, acked>>

WriteHead(c) ==
  /\ At(c, "head")
  /\ head' = [head EXCEPT ![work[c].report] = catalog[work[c].report]]
  /\ Returned(c, work[c].object)
  /\ UNCHANGED <<catalog, objects, nextObject, reads>>

Publish(c) ==
  \/ Republish(c) \/ LoadCatalog(c) \/ WriteObject(c)
  \/ WriteCatalog(c) \/ WriteHead(c)

-----------------------------------------------------------------------------
(* resolve_current: the catalogue is read (round 1), the object it names   *)
(* last is read through read_version, which reads the catalogue again      *)
(* (round 2), and the catalogue is read a third time and compared with     *)
(* what the first reading found.                                           *)

AckedOf(r) == Cardinality({x \in acked : x.report = r})

StartResolve(q, r) ==
  /\ reads[q] = NoRead
  /\ reads' = [reads EXCEPT ![q] =
       [pc |-> "head", report |-> r, round |-> 1, head |-> <<>>,
        first |-> <<>>, known |-> 0]]
  /\ UNCHANGED <<catalogVars, work>>

ReadHead(q) ==
  /\ reads[q].pc = "head"
  /\ reads' = [reads EXCEPT ![q].pc = "catalog",
                            ![q].head = head[reads[q].report]]
  /\ UNCHANGED <<catalogVars, work>>

\* Mutant: the third reading need not be the first one.
ObservedTwice(q) ==
  LET now == catalog[reads[q].report]
  IN  now # <<>> /\ reads[q].head = now

\* What the catalogue read now must be for the round to succeed.
Observed(q) ==
  LET now == catalog[reads[q].report]
  IN  /\ now # <<>> /\ reads[q].head = now
      /\ reads[q].round = 3 => now = reads[q].first

\* known: what had been published when the object was verified.
NextRound(q) ==
  [reads[q] EXCEPT
     !.pc = IF reads[q].round = 3 THEN "resolved" ELSE "head",
     !.round = IF @ = 3 THEN 3 ELSE @ + 1,
     !.first = IF reads[q].round = 1 THEN catalog[reads[q].report] ELSE @,
     !.known = IF reads[q].round = 2 THEN AckedOf(reads[q].report) ELSE @]

ReadCatalog(q) ==
  /\ reads[q].pc = "catalog"
  /\ reads' = [reads EXCEPT ![q] = IF Observed(q) THEN NextRound(q) ELSE NoRead]
  /\ UNCHANGED <<catalogVars, work>>

UseSnapshot(q) ==
  /\ reads[q].pc = "resolved"
  /\ reads' = [reads EXCEPT ![q] = NoRead]
  /\ UNCHANGED <<catalogVars, work>>

ResolveCurrent(q) ==
  \/ \E r \in Reports : StartResolve(q, r)
  \/ ReadHead(q) \/ ReadCatalog(q) \/ UseSnapshot(q)

-----------------------------------------------------------------------------
(* Properties.                                                             *)

\* What publish has acknowledged stays: its version is in the catalogue,
\* once, with an object on disk that is that version of that report.
PublishedStays ==
  \A x \in acked :
    /\ Cardinality({n \in DOMAIN catalog[x.report] :
                      catalog[x.report][n].version = x.version}) = 1
    /\ [object |-> EntryOf(x.report, x.version).object,
        report |-> x.report, version |-> x.version] \in objects

\* The version that resolve_current returns was the current one when its
\* object had been verified: whatever had been published by then is in it.
ResolvedIsCurrent ==
  \A q \in Readers :
    reads[q].pc = "resolved" => Len(reads[q].first) >= reads[q].known
=============================================================================
