------------------------- MODULE LegacyImportProofs -------------------------
(***************************************************************************)
(* Proofs about LegacyImport and the SharedEvidence it extends, for any    *)
(* clients, readers, files, contents, runs and bounds.                     *)
(*                                                                         *)
(* The catalogue of a report only grows, and by versions it does not have: *)
(* the client that appends has held the lock since it looked (Exclusive).  *)
(* So an entry, once there, is the entry of its version for good (Holds),  *)
(* and what a batch writes after its publish may rely on it (JobInv).      *)
(* The readers rely on no more than this growth (ReadInv).                 *)
(***************************************************************************)
EXTENDS LegacyImport, FiniteSetTheorems, TLAPS

Bodies   == Contents \ Quarantined
Versions == {VersionOf[x] : x \in Bodies}
Entries  == [version : Versions, object : Nat]
Objects  == [object : Nat, report : Reports, version : Versions]
Walks    == [path : Paths, content : Bodies, report : Reports,
             version : Versions, object : Nat]

Points == {"read", "find", "verify", "review", "publish", "object", "catalog",
           "head", "published", "crosswalk", "manifest", "compare", "returned"}

Jobs == [pc : Points, run : Runs, path : Paths, snap : [Paths -> Contents],
         content : Contents, imported : Seq(Contents),
         report : Reports \cup {"none"}, version : Versions \cup {"none"},
         object : Nat, head : Seq(Entries)]

Resolves == [pc : {"head", "catalog", "resolved"}, report : Reports,
             round : 1..3, head : Seq(Entries), first : Seq(Entries),
             known : Nat]
Walkers == [pc : {"records"}, tree : [Paths -> Contents]]
Checks   == [pc : {"check"}, tree : [Paths -> Contents], todo : SUBSET Walks,
             clean : BOOLEAN]

Types ==
  /\ catalog \in [Reports -> Seq(Entries)]
  /\ head \in [Reports -> Seq(Entries)]
  /\ objects \subseteq Objects
  /\ nextObject \in Nat
  /\ acked \subseteq [report : Reports, version : Versions]
  /\ work \in [Clients -> Jobs \cup {NoWork}]
  /\ tree \in [Paths -> Contents]
  /\ grants \subseteq Reports
  /\ crosswalks \subseteq Walks
  /\ reads \in [Readers -> Resolves \cup Walkers \cup Checks \cup {NoRead}]

\* The points of a publish that holds the lock of its report; those at which
\* its entry is in the catalogue; those at which a job has a report.
Storing  == {"object", "catalog", "head"}
Placed   == {"head", "published", "crosswalk"}
OnReport == Storing \cup {"verify", "publish", "published", "crosswalk"}

\* The catalogue of r has version v, kept in object o.
Holds(r, v, o) ==
  \E n \in DOMAIN catalog[r] : catalog[r][n] = [version |-> v, object |-> o]

CatalogInv ==
  \A r \in Reports :
    /\ \A m, n \in DOMAIN catalog[r] :
         catalog[r][m].version = catalog[r][n].version => m = n
    /\ \A n \in DOMAIN catalog[r] :
         [object |-> catalog[r][n].object, report |-> r,
          version |-> catalog[r][n].version] \in objects

JobInv(j) ==
  /\ j.pc \in OnReport => /\ j.content \in Bodies
                          /\ j.report \in Reports /\ j.version \in Versions
  /\ j.pc \in {"object", "catalog"} => j.version \notin VersionsIn(catalog[j.report])
  /\ j.pc = "catalog" => [object |-> j.object, report |-> j.report,
                          version |-> j.version] \in objects
  /\ j.pc \in Placed => Holds(j.report, j.version, j.object)
  /\ j.pc = "crosswalk" => j.report \in grants

Exclusive ==
  \A c, d \in Clients :
    work[c].pc \in Storing /\ work[d].pc \in Storing
      /\ work[c].report = work[d].report => c = d

AckInv == \A x \in acked : x.version \in VersionsIn(catalog[x.report])

Backed ==
  \A w \in crosswalks : Holds(w.report, w.version, w.object) /\ w.report \in grants

ReadInv(q) ==
  /\ reads[q].pc \in {"head", "catalog"} =>
       (reads[q].round = 3 => reads[q].known <= Len(catalog[reads[q].report]))
  /\ reads[q].pc = "resolved" => reads[q].known <= Len(reads[q].first)
  /\ reads[q].pc = "check" => (reads[q].clean => \A p \in Paths :
       \/ CrosswalkFor(p, reads[q].tree[p]) # {}
       \/ \E v \in reviews : v.path = p /\ v.content = reads[q].tree[p])

IInv ==
  /\ Types /\ CatalogInv /\ Exclusive /\ AckInv /\ Backed /\ ManifestAccounts
  /\ \A c \in Clients : JobInv(work[c])
  /\ \A q \in Readers : ReadInv(q)

\* A host starts with an empty store and no batch.
LEMMA InitIInv == Init => IInv
<1> SUFFICES ASSUME Init PROVE IInv
  OBVIOUS
<1>1. Types
  BY ImportAssumption DEF Init, EvidenceInit, Types, Paths, ImportAssumption
<1>2. CatalogInv /\ AckInv /\ Backed /\ ManifestAccounts
  BY DEF Init, EvidenceInit, CatalogInv, AckInv, Backed, ManifestAccounts
<1>3. Exclusive /\ \A c \in Clients : JobInv(work[c])
  BY DEF Init, NoWork, Exclusive, JobInv, Storing, OnReport, Placed
<1>4. \A q \in Readers : ReadInv(q)
  BY DEF Init, EvidenceInit, NoRead, ReadInv
<1> QED
  BY <1>1, <1>2, <1>3, <1>4 DEF IInv

\* What a reader is doing tells what it carries.
LEMMA ReadingIs ==
  ASSUME Types, NEW q \in Readers
  PROVE  /\ reads[q].pc \in {"head", "catalog", "resolved"} => reads[q] \in Resolves
         /\ reads[q].pc = "records" => reads[q] \in Walkers
         /\ reads[q].pc = "check" => reads[q] \in Checks
<1>1. reads[q] \in Resolves => reads[q].pc \in {"head", "catalog", "resolved"}
  BY DEF Resolves
<1>2. reads[q] \in Walkers => reads[q].pc = "records"
  BY DEF Walkers
<1>3. reads[q] \in Checks => reads[q].pc = "check"
  BY DEF Checks
<1>4. reads[q] = NoRead => reads[q].pc = "idle"
  BY DEF NoRead
<1>5. reads[q] \in Resolves \cup Walkers \cup Checks \cup {NoRead}
  BY DEF Types
<1> QED
  BY <1>1, <1>2, <1>3, <1>4, <1>5

\* A version has one entry: it is the one EntryOf finds.
LEMMA HeldEntry ==
  ASSUME Types, CatalogInv, NEW r \in Reports, NEW v \in Versions, NEW o,
         Holds(r, v, o)
  PROVE  /\ v \in VersionsIn(catalog[r])
         /\ EntryOf(r, v) = [version |-> v, object |-> o]
         /\ [object |-> o, report |-> r, version |-> v] \in objects
<1> DEFINE S == {catalog[r][n] : n \in DOMAIN catalog[r]}
<1>1. PICK n \in DOMAIN catalog[r] : catalog[r][n] = [version |-> v, object |-> o]
  BY DEF Holds
<1>2. v \in VersionsIn(catalog[r])
  BY <1>1 DEF VersionsIn
<1>3. \A e \in S : e.version = v => e = [version |-> v, object |-> o]
  BY <1>1 DEF CatalogInv
<1>4. [version |-> v, object |-> o] \in S
  BY <1>1
<1>5. EntryOf(r, v) = CHOOSE e \in S : e.version = v
  BY DEF EntryOf
<1>6. EntryOf(r, v) = [version |-> v, object |-> o]
  BY <1>3, <1>4, <1>5
<1>7. [object |-> o, report |-> r, version |-> v] \in objects
  BY <1>1 DEF CatalogInv
<1> QED
  BY <1>2, <1>6, <1>7

\* And a version of the catalogue is held in the object of its entry.
LEMMA EntryHeld ==
  ASSUME Types, CatalogInv, NEW r \in Reports, NEW v \in VersionsIn(catalog[r])
  PROVE  v \in Versions /\ EntryOf(r, v).object \in Nat /\ Holds(r, v, EntryOf(r, v).object)
<1>1. PICK n \in DOMAIN catalog[r] : catalog[r][n].version = v
  BY DEF VersionsIn
<1>2. catalog[r][n] \in Entries
  BY DEF Types
<1>3. /\ v \in Versions /\ catalog[r][n].object \in Nat
      /\ catalog[r][n] = [version |-> v, object |-> catalog[r][n].object]
  BY <1>1, <1>2 DEF Entries
<1>4. Holds(r, v, catalog[r][n].object)
  BY <1>3 DEF Holds
<1>5. EntryOf(r, v).object = catalog[r][n].object
  BY <1>3, <1>4, HeldEntry
<1> QED
  BY <1>3, <1>4, <1>5


-----------------------------------------------------------------------------
(* Steps of a batch that leave the catalogue alone.                        *)

\* What a step of c may do to the records when it only moves its job: they
\* grow, by what is true of them.
Grows(c) ==
  /\ UNCHANGED <<catalog, reads, tree>>
  /\ head' \in [Reports -> Seq(Entries)]
  /\ objects \subseteq objects' /\ objects' \subseteq Objects /\ nextObject' \in Nat
  /\ acked' \subseteq [report : Reports, version : Versions]
  /\ \A x \in acked' \ acked : x.version \in VersionsIn(catalog[x.report])
  /\ grants \subseteq grants' /\ grants' \subseteq Reports
  /\ reviews \subseteq reviews' /\ manifest \subseteq manifest'
  /\ unlisted \subseteq unlisted'
  /\ crosswalks \subseteq crosswalks' /\ crosswalks' \subseteq Walks
  /\ \A w \in crosswalks' \ crosswalks :
       /\ Holds(w.report, w.version, w.object) /\ w.report \in grants
       /\ work'[c].pc = "manifest"
       /\ work'[c].path = w.path /\ work'[c].content = w.content

\* The step keeps the lock to itself and leaves no line behind.
Orderly(c) ==
  /\ work'[c].pc \in Storing => \A d \in Clients \ {c} :
       ~(work[d].pc \in Storing /\ work[d].report = work'[c].report)
  /\ At(c, "manifest") =>
       \/ \E m \in manifest' : m.path = work[c].path /\ m.content = work[c].content
       \/ <<work[c].path, work[c].content>> \in unlisted'

\* Such a step of one batch keeps the invariant.
LEMMA ClientStep ==
  ASSUME IInv, NEW c \in Clients,
         work' \in [Clients -> Jobs \cup {NoWork}],
         \A d \in Clients \ {c} : work'[d] = work[d],
         Grows(c), Orderly(c), JobInv(work[c])'
  PROVE  IInv'
<1>1. Types'
  BY DEF IInv, Types, Grows
<1>2. CatalogInv' /\ AckInv'
  BY DEF IInv, CatalogInv, AckInv, Grows
<1>3. Backed'
  BY DEF IInv, Backed, Grows, Holds
<1>4. Exclusive'
  <2> SUFFICES ASSUME NEW a \in Clients, NEW b \in Clients,
                      work'[a].pc \in Storing, work'[b].pc \in Storing,
                      work'[a].report = work'[b].report
               PROVE  a = b
    BY DEF Exclusive
  <2>1. CASE a = c
    BY <2>1 DEF Orderly
  <2>2. CASE b = c
    BY <2>2 DEF Orderly
  <2>3. CASE a # c /\ b # c
    BY <2>3 DEF IInv, Exclusive
  <2> QED
    BY <2>1, <2>2, <2>3
<1>5. ManifestAccounts'
  <2> SUFFICES ASSUME NEW w \in crosswalks'
               PROVE  \/ \E m \in manifest' : m.path = w.path /\ m.content = w.content
                      \/ \E d \in Clients : At(d, "manifest")' /\ work'[d].path = w.path
                                              /\ work'[d].content = w.content
                      \/ <<w.path, w.content>> \in unlisted'
    BY DEF ManifestAccounts
  <2>1. CASE w \notin crosswalks
    BY <2>1 DEF Grows, At
  <2>2. CASE \E m \in manifest : m.path = w.path /\ m.content = w.content
    BY <2>2 DEF Grows
  <2>3. CASE <<w.path, w.content>> \in unlisted
    BY <2>3 DEF Grows
  <2>4. ASSUME NEW d \in Clients, At(d, "manifest"), work[d].path = w.path,
               work[d].content = w.content
        PROVE  \/ \E m \in manifest' : m.path = w.path /\ m.content = w.content
               \/ \E e \in Clients : At(e, "manifest")' /\ work'[e].path = w.path
                                       /\ work'[e].content = w.content
               \/ <<w.path, w.content>> \in unlisted'
    <3>1. CASE d = c
      BY <2>4, <3>1 DEF Orderly
    <3>2. CASE d # c
      BY <2>4, <3>2 DEF At
    <3> QED
      BY <3>1, <3>2
  <2> QED
    BY <2>1, <2>2, <2>3, <2>4 DEF IInv, ManifestAccounts
<1>6. \A d \in Clients : JobInv(work[d])'
  <2> SUFFICES ASSUME NEW d \in Clients, d # c PROVE JobInv(work[d])'
    OBVIOUS
  <2>1. JobInv(work[d]) /\ work'[d] = work[d]
    BY DEF IInv
  <2> QED
    BY <2>1 DEF JobInv, Grows, Holds
<1>7. \A q \in Readers : ReadInv(q)'
  <2> SUFFICES ASSUME NEW q \in Readers PROVE ReadInv(q)'
    OBVIOUS
  <2>1. ReadInv(q) /\ UNCHANGED <<reads, catalog>>
    BY DEF IInv, Grows
  <2>2. \A p, x : CrosswalkFor(p, x) \subseteq CrosswalkFor(p, x)'
    BY DEF CrosswalkFor, Grows
  <2> QED
    BY <2>1, <2>2 DEF ReadInv, Grows
<1> QED
  BY <1>1, <1>2, <1>3, <1>4, <1>5, <1>6, <1>7 DEF IInv

\* When the records stay as they are.
LEMMA QuietStep ==
  ASSUME IInv, NEW c \in Clients, ~At(c, "manifest"),
         \/ UNCHANGED <<catalogVars, reads, recordVars, tree>>
         \/ UNCHANGED <<catalogVars, reads, grants, closed, crosswalks, reviews,
                        manifest, unlisted, tree>>,
         work' \in [Clients -> Jobs \cup {NoWork}],
         \A d \in Clients \ {c} : work'[d] = work[d],
         work'[c].pc \notin Storing, JobInv(work[c])'
  PROVE  IInv'
<1>1. Grows(c) /\ Orderly(c)
  BY DEF IInv, Types, Grows, Orderly, catalogVars, recordVars, history
<1> QED
  BY <1>1, ClientStep


\* A call that runs has a job, and what is known of it.
LEMMA RunningJob ==
  ASSUME IInv, NEW c \in Clients, work[c].pc # "idle"
  PROVE  work[c] \in Jobs /\ JobInv(work[c])
BY DEF IInv, Types, NoWork

\* A report that comes back, new or known, is published.
LEMMA RepublishStep ==
  ASSUME IInv, NEW c \in Clients, Republish(c),
         UNCHANGED <<recordVars, tree, bounds>>
  PROVE  IInv'
<1> DEFINE r == work[c].report
           v == work[c].version
           o == EntryOf(r, v).object
<1>1. work[c] \in Jobs /\ r \in Reports /\ v \in Versions /\ work[c].content \in Bodies
  BY RunningJob DEF Republish, At, JobInv, OnReport
<1>2. v \in VersionsIn(catalog[r]) /\ o \in Nat /\ Holds(r, v, o)
  BY <1>1, EntryHeld DEF IInv, Republish
<1>3. work' = [work EXCEPT ![c].pc = "published", ![c].object = o]
  BY DEF Republish, Returned
<1> HIDE DEF o
<1>4. /\ work'[c] = [work[c] EXCEPT !.pc = "published", !.object = o]
      /\ work' \in [Clients -> Jobs \cup {NoWork}]
      /\ \A d \in Clients \ {c} : work'[d] = work[d]
  BY <1>1, <1>2, <1>3 DEF IInv, Types, Jobs, Points
<1>5. /\ work'[c].pc = "published" /\ work'[c].report = r /\ work'[c].version = v
      /\ work'[c].object = o /\ work'[c].content = work[c].content
  BY <1>1, <1>4 DEF Jobs
<1>6. JobInv(work[c])'
  BY <1>1, <1>2, <1>5 DEF JobInv, OnReport, Placed, Holds, Storing, Republish
<1>7. acked' = acked \cup {[report |-> r, version |-> v]}
  BY DEF Republish, Returned
<1>8. Grows(c)
  BY <1>1, <1>2, <1>7 DEF IInv, Types, Grows, Republish, recordVars, history
<1>9. Orderly(c)
  BY <1>5 DEF Orderly, Storing, Republish, At
<1> QED
  BY <1>4, <1>6, <1>8, <1>9, ClientStep

\* A new version: the lock is free, and this batch takes it.
LEMMA LoadCatalogStep ==
  ASSUME IInv, NEW c \in Clients, LoadCatalog(c),
         UNCHANGED <<recordVars, tree, bounds>>
  PROVE  IInv'
<1>1. work[c] \in Jobs /\ JobInv(work[c]) /\ work[c].pc = "publish"
  BY RunningJob DEF LoadCatalog, At
<1>2. /\ work'[c] = [work[c] EXCEPT !.pc = "object"]
      /\ work' \in [Clients -> Jobs \cup {NoWork}]
      /\ \A d \in Clients \ {c} : work'[d] = work[d]
  BY <1>1 DEF LoadCatalog, Goto, IInv, Types, Jobs, Points
<1>3. /\ work'[c].pc = "object" /\ work'[c].report = work[c].report
      /\ work'[c].version = work[c].version /\ work'[c].content = work[c].content
  BY <1>1, <1>2 DEF Jobs
<1>4. UNCHANGED <<catalogVars, reads>> /\ work[c].version \notin VersionsIn(catalog[work[c].report])
  BY DEF LoadCatalog
<1>5. JobInv(work[c])'
  BY <1>1, <1>3, <1>4 DEF JobInv, OnReport, Placed, Storing, catalogVars
<1>6. Grows(c)
  BY <1>4 DEF IInv, Types, Grows, catalogVars, recordVars, history
<1>7. Orderly(c)
  BY <1>1, <1>3 DEF Orderly, LoadCatalog, Locked, Storing, At
<1> QED
  BY <1>2, <1>5, <1>6, <1>7, ClientStep

\* The object file, under the lock.
LEMMA WriteObjectStep ==
  ASSUME IInv, NEW c \in Clients, WriteObject(c),
         UNCHANGED <<recordVars, tree, bounds>>
  PROVE  IInv'
<1>1. work[c] \in Jobs /\ JobInv(work[c]) /\ work[c].pc = "object" /\ nextObject \in Nat
  BY RunningJob DEF WriteObject, At, IInv, Types
<1>2. /\ work'[c] = [work[c] EXCEPT !.pc = "catalog", !.object = nextObject]
      /\ work' \in [Clients -> Jobs \cup {NoWork}]
      /\ \A d \in Clients \ {c} : work'[d] = work[d]
  BY <1>1 DEF WriteObject, IInv, Types, Jobs, Points
<1>3. /\ work'[c].pc = "catalog" /\ work'[c].report = work[c].report
      /\ work'[c].version = work[c].version /\ work'[c].content = work[c].content
      /\ work'[c].object = nextObject
  BY <1>1, <1>2 DEF Jobs
<1>4. /\ UNCHANGED <<catalog, head, reads, acked>>
      /\ objects' = objects \cup {[object |-> nextObject, report |-> work[c].report,
                                   version |-> work[c].version]}
      /\ nextObject' \in Nat
  BY <1>1 DEF WriteObject
<1>5. JobInv(work[c])'
  BY <1>1, <1>3, <1>4 DEF JobInv, OnReport, Placed, Storing
<1>6. Grows(c)
  BY <1>1, <1>4 DEF IInv, Types, Grows, recordVars, history, Objects, JobInv, OnReport, Storing
<1>7. Orderly(c)
  BY <1>1, <1>3 DEF IInv, Exclusive, Orderly, Storing, At
<1> QED
  BY <1>2, <1>5, <1>6, <1>7, ClientStep

\* The head; the version was in the catalogue before it.
LEMMA WriteHeadStep ==
  ASSUME IInv, NEW c \in Clients, WriteHead(c),
         UNCHANGED <<recordVars, tree, bounds>>
  PROVE  IInv'
<1>1. work[c] \in Jobs /\ JobInv(work[c]) /\ work[c].pc = "head"
  BY RunningJob DEF WriteHead, At
<1>2. /\ work[c].report \in Reports /\ work[c].version \in Versions
      /\ Holds(work[c].report, work[c].version, work[c].object)
  BY <1>1 DEF JobInv, OnReport, Placed, Storing
<1>3. /\ work'[c] = [work[c] EXCEPT !.pc = "published"]
      /\ work' \in [Clients -> Jobs \cup {NoWork}]
      /\ \A d \in Clients \ {c} : work'[d] = work[d]
  BY <1>1 DEF WriteHead, Returned, IInv, Types, Jobs, Points
<1>4. /\ work'[c].pc = "published" /\ work'[c].report = work[c].report
      /\ work'[c].version = work[c].version /\ work'[c].content = work[c].content
      /\ work'[c].object = work[c].object
  BY <1>1, <1>3 DEF Jobs
<1>5. JobInv(work[c])'
  BY <1>1, <1>2, <1>4 DEF JobInv, OnReport, Placed, Storing, Holds, WriteHead
<1>6. work[c].version \in VersionsIn(catalog[work[c].report])
  BY <1>2, HeldEntry DEF IInv
<1>7. Grows(c)
  BY <1>2, <1>6 DEF IInv, Types, Grows, recordVars, history, WriteHead, Returned
<1>8. Orderly(c)
  BY <1>1, <1>4 DEF Orderly, Storing, At
<1> QED
  BY <1>3, <1>5, <1>7, <1>8, ClientStep


-----------------------------------------------------------------------------
(* The catalogue grows.                                                    *)

\* An entry appended for a version that is not there, with its object on
\* disk: entries stay, versions stay distinct.
LEMMA Appended ==
  ASSUME Types, CatalogInv, NEW r \in Reports, NEW v \in Versions, NEW o \in Nat,
         v \notin VersionsIn(catalog[r]),
         [object |-> o, report |-> r, version |-> v] \in objects,
         catalog' = [catalog EXCEPT ![r] = Append(@, [version |-> v, object |-> o])],
         UNCHANGED objects
  PROVE  /\ catalog' \in [Reports -> Seq(Entries)]
         /\ CatalogInv'
         /\ \A s \in Reports : /\ Len(catalog[s]) <= Len(catalog'[s])
                               /\ VersionsIn(catalog[s]) \subseteq VersionsIn(catalog'[s])
                               /\ s # r => catalog'[s] = catalog[s]
         /\ \A s \in Reports : \A u, x : Holds(s, u, x) => Holds(s, u, x)'
         /\ Holds(r, v, o)'
<1> DEFINE e   == [version |-> v, object |-> o]
           old == catalog[r]
           new == Append(old, e)
           n   == Len(old) + 1
<1>1. e \in Entries /\ e.version = v /\ e.object = o /\ old \in Seq(Entries)
  BY DEF Entries, Types
<1> HIDE DEF e
<1>2. /\ new \in Seq(Entries) /\ DOMAIN new = 1..n /\ DOMAIN old = 1..(n - 1)
      /\ Len(new) = n /\ Len(old) \in Nat
      /\ new[n] = e /\ \A m \in DOMAIN old : new[m] = old[m]
  BY <1>1
<1>3. /\ catalog' \in [Reports -> Seq(Entries)] /\ catalog'[r] = new
      /\ \A s \in Reports \ {r} : catalog'[s] = catalog[s]
  BY <1>2 DEF Types, e
<1>4. \A m \in DOMAIN old : old[m].version # v
  BY DEF VersionsIn
<1> HIDE DEF new, old
<1>5. \A s \in Reports : \A u, x : Holds(s, u, x) => Holds(s, u, x)'
  <2> SUFFICES ASSUME NEW s \in Reports, NEW u, NEW x, Holds(s, u, x)
               PROVE  Holds(s, u, x)'
    OBVIOUS
  <2>1. CASE s = r
    BY <1>2, <1>3, <2>1 DEF Holds, old
  <2>2. CASE s # r
    BY <1>3, <2>2 DEF Holds
  <2> QED
    BY <2>1, <2>2
<1>6. Holds(r, v, o)'
  BY <1>2, <1>3 DEF Holds, e
<1>7. \A s \in Reports : /\ Len(catalog[s]) <= Len(catalog'[s])
                         /\ VersionsIn(catalog[s]) \subseteq VersionsIn(catalog'[s])
                         /\ s # r => catalog'[s] = catalog[s]
  <2> SUFFICES ASSUME NEW s \in Reports
               PROVE  /\ Len(catalog[s]) <= Len(catalog'[s])
                      /\ VersionsIn(catalog[s]) \subseteq VersionsIn(catalog'[s])
                      /\ s # r => catalog'[s] = catalog[s]
    OBVIOUS
  <2>1. CASE s = r
    <3>1. catalog[s] = old /\ catalog'[s] = new
      BY <1>3, <2>1 DEF old
    <3>2. \A m \in DOMAIN old : m \in DOMAIN new /\ new[m] = old[m]
      BY <1>2
    <3> QED
      BY <1>2, <2>1, <3>1, <3>2 DEF VersionsIn
  <2>2. CASE s # r
    <3>1. Len(catalog[s]) \in Nat
      BY DEF Types
    <3> QED
      BY <1>3, <2>2, <3>1
  <2> QED
    BY <2>1, <2>2
<1>8. CatalogInv'
  <2> SUFFICES ASSUME NEW s \in Reports
               PROVE  /\ \A i, k \in DOMAIN catalog'[s] :
                           catalog'[s][i].version = catalog'[s][k].version => i = k
                      /\ \A i \in DOMAIN catalog'[s] :
                           [object |-> catalog'[s][i].object, report |-> s,
                            version |-> catalog'[s][i].version] \in objects
    BY DEF CatalogInv
  <2>1. CASE s # r
    BY <1>3, <2>1 DEF CatalogInv
  <2>2. CASE s = r
    <3>1. \A i, k \in DOMAIN old : old[i].version = old[k].version => i = k
      BY DEF CatalogInv, old
    <3>2. \A i \in DOMAIN old :
            [object |-> old[i].object, report |-> r, version |-> old[i].version] \in objects
      BY DEF CatalogInv, old
    <3>3. \A i \in 1..n : i = n \/ i \in DOMAIN old
      BY <1>2
    <3>4. n \notin DOMAIN old
      BY <1>2
    <3> QED
      BY <1>1, <1>2, <1>3, <1>4, <2>2, <3>1, <3>2, <3>3, <3>4
  <2> QED
    BY <2>1, <2>2
<1> QED
  BY <1>3, <1>5, <1>6, <1>7, <1>8

\* The catalogue entry of a publish.
LEMMA WriteCatalogStep ==
  ASSUME IInv, NEW c \in Clients, WriteCatalog(c),
         UNCHANGED <<recordVars, tree, bounds>>
  PROVE  IInv'
<1>1. work[c] \in Jobs /\ JobInv(work[c]) /\ work[c].pc = "catalog"
  BY RunningJob DEF WriteCatalog, At
<1>0. PICK r \in Reports, v \in Versions, o \in Nat :
        r = work[c].report /\ v = work[c].version /\ o = work[c].object
  BY <1>1 DEF JobInv, OnReport, Storing, Jobs
<1>2. /\ r \in Reports /\ v \in Versions /\ o \in Nat
      /\ v \notin VersionsIn(catalog[r])
      /\ [object |-> o, report |-> r, version |-> v] \in objects
  BY <1>0, <1>1 DEF JobInv
<1>3. /\ work'[c] = [work[c] EXCEPT !.pc = "head"]
      /\ work' \in [Clients -> Jobs \cup {NoWork}]
      /\ \A d \in Clients \ {c} : work'[d] = work[d]
  BY <1>1 DEF WriteCatalog, Goto, IInv, Types, Jobs, Points
<1>4. /\ work'[c].pc = "head" /\ work'[c].report = r /\ work'[c].version = v
      /\ work'[c].object = o /\ work'[c].content = work[c].content
  BY <1>0, <1>1, <1>3 DEF Jobs
<1>5. /\ catalog' = [catalog EXCEPT ![r] = Append(@, [version |-> v, object |-> o])]
      /\ UNCHANGED <<head, objects, nextObject, reads, acked, recordVars, tree>>
  BY <1>0 DEF WriteCatalog
<1>6. /\ catalog' \in [Reports -> Seq(Entries)]
      /\ CatalogInv'
      /\ \A s \in Reports : /\ Len(catalog[s]) <= Len(catalog'[s])
                            /\ VersionsIn(catalog[s]) \subseteq VersionsIn(catalog'[s])
                            /\ s # r => catalog'[s] = catalog[s]
      /\ \A s \in Reports : \A u, x : Holds(s, u, x) => Holds(s, u, x)'
      /\ Holds(r, v, o)'
  BY <1>2, <1>5, Appended DEF IInv
<1>7. Types'
  BY <1>3, <1>5, <1>6 DEF IInv, Types, recordVars, history
<1>8. Exclusive'
  <2> SUFFICES ASSUME NEW a \in Clients, NEW b \in Clients,
                      work'[a].pc \in Storing, work'[b].pc \in Storing,
                      work'[a].report = work'[b].report
               PROVE  a = b
    BY DEF Exclusive
  <2>1. work[c].pc \in Storing /\ work[c].report = work'[c].report
    BY <1>0, <1>1, <1>4 DEF Storing
  <2>2. /\ work[a].pc \in Storing /\ work[a].report = work'[a].report
        /\ work[b].pc \in Storing /\ work[b].report = work'[b].report
    BY <1>3, <2>1
  <2> QED
    BY <2>2 DEF IInv, Exclusive
<1>9. AckInv'
  BY <1>5, <1>6 DEF IInv, Types, AckInv
<1>10. Backed'
  <2>1. \A w \in crosswalks : w.report \in Reports
    BY DEF IInv, Types, Walks
  <2> QED
    BY <1>5, <1>6, <2>1 DEF IInv, Backed, recordVars, history
<1>11. ManifestAccounts'
  BY <1>1, <1>3, <1>5 DEF IInv, ManifestAccounts, At, recordVars, history
<1>12. \A d \in Clients : JobInv(work[d])'
  <2> SUFFICES ASSUME NEW d \in Clients PROVE JobInv(work[d])'
    OBVIOUS
  <2>1. CASE d = c
    BY <1>0, <1>1, <1>2, <1>4, <1>6, <2>1 DEF JobInv, OnReport, Placed, Storing
  <2>2. CASE d # c
    <3>1. work'[d] = work[d] /\ JobInv(work[d])
      BY <1>3, <2>2 DEF IInv
    <3>2. work[d].pc \in OnReport => work[d].report \in Reports
      BY <3>1 DEF JobInv
    <3>3. work[d].pc \in {"object", "catalog"} => work[d].report # r
      BY <1>0, <1>1, <2>2 DEF IInv, Exclusive, Storing
    <3>4. work[d].pc \in {"object", "catalog"} =>
            work[d].version \notin VersionsIn(catalog'[work[d].report])
      BY <1>6, <3>1, <3>2, <3>3 DEF JobInv, OnReport, Storing
    <3>5. work[d].pc \in Placed =>
            Holds(work[d].report, work[d].version, work[d].object)'
      BY <1>6, <3>1, <3>2 DEF JobInv, Placed, OnReport, Storing
    <3> QED
      BY <1>5, <3>1, <3>4, <3>5 DEF JobInv, recordVars, history
  <2> QED
    BY <2>1, <2>2
<1>13. \A q \in Readers : ReadInv(q)'
  <2> SUFFICES ASSUME NEW q \in Readers PROVE ReadInv(q)'
    OBVIOUS
  <2>1. ReadInv(q) /\ UNCHANGED <<reads, reviews, crosswalks>>
    BY <1>5 DEF IInv, recordVars, history
  <2>2. reads[q].pc \in {"head", "catalog"} => reads[q] \in Resolves
    BY ReadingIs DEF IInv
  <2>3. reads[q].pc \in {"head", "catalog"} =>
          /\ reads[q].known \in Nat
          /\ Len(catalog[reads[q].report]) \in Nat
          /\ Len(catalog'[reads[q].report]) \in Nat
          /\ Len(catalog[reads[q].report]) <= Len(catalog'[reads[q].report])
    BY <1>6, <2>2 DEF Resolves, IInv, Types
  <2>4. reads[q].pc \in {"head", "catalog"} =>
          (reads[q].round = 3 => reads[q].known <= Len(catalog'[reads[q].report]))
    BY <2>1, <2>3 DEF ReadInv
  <2>5. \A p, x : CrosswalkFor(p, x)' = CrosswalkFor(p, x)
    BY <2>1 DEF CrosswalkFor
  <2> QED
    BY <2>1, <2>4, <2>5 DEF ReadInv
<1> QED
  BY <1>6, <1>7, <1>8, <1>9, <1>10, <1>11, <1>12, <1>13 DEF IInv


-----------------------------------------------------------------------------
(* The steps of an import.                                                 *)

\* Points that promise nothing of the store.
Idle == {"idle", "read", "find", "review", "manifest", "compare", "returned"}

\* A job at such a point has nothing to show.
LEMMA IdleJob ==
  ASSUME NEW c \in Clients, work'[c].pc \in Idle
  PROVE  JobInv(work[c])' /\ work'[c].pc \notin Storing
BY DEF JobInv, Idle, OnReport, Storing, Placed

\* A call that raises or dies: the job goes.
LEMMA Aborted ==
  ASSUME IInv, NEW c \in Clients, Abort(c)
  PROVE  /\ work' \in [Clients -> Jobs \cup {NoWork}]
         /\ \A d \in Clients \ {c} : work'[d] = work[d]
         /\ work'[c].pc = "idle"
BY DEF IInv, Types, Abort, NoWork

\* Between two files.
LEMMA BatchAtJob ==
  ASSUME NEW pc \in Points, NEW run \in Runs, NEW snap \in [Paths -> Contents],
         NEW path \in Paths, NEW imported \in Seq(Contents)
  PROVE  /\ BatchAt(pc, run, snap, path, imported) \in Jobs
         /\ BatchAt(pc, run, snap, path, imported).pc = pc
<1>1. /\ <<>> \in Seq(Entries) /\ 0 \in Nat /\ snap[path] \in Contents
      /\ "none" \in Reports \cup {"none"} /\ "none" \in Versions \cup {"none"}
  OBVIOUS
<1> QED
  BY <1>1 DEF BatchAt, Jobs

\* The next file of a batch.
LEMMA NextFileJob ==
  ASSUME IInv, NEW c \in Clients, work[c] \in Jobs, NextFile(c)
  PROVE  /\ work' \in [Clients -> Jobs \cup {NoWork}]
         /\ \A d \in Clients \ {c} : work'[d] = work[d]
         /\ work'[c].pc \in {"read", "compare"}
<1> DEFINE w == work[c]
           i == Append(w.imported, w.content)
           p == IF w.path = NPaths THEN w.path ELSE w.path + 1
           l == IF w.path = NPaths THEN "compare" ELSE "read"
           next == BatchAt(l, w.run, w.snap, p, i)
<1>1. /\ p \in Paths /\ l \in Points /\ l \in {"read", "compare"}
      /\ i \in Seq(Contents) /\ w.run \in Runs /\ w.snap \in [Paths -> Contents]
  BY ImportAssumption DEF ImportAssumption, Jobs, Paths, Points
<1>2. work' = [work EXCEPT ![c] = next]
  BY DEF NextFile
<1> HIDE DEF w, p, l, i
<1>3. next \in Jobs /\ next.pc = l
  BY <1>1, BatchAtJob
<1> HIDE DEF next
<1> QED
  BY <1>1, <1>2, <1>3 DEF IInv, Types

\* The snapshot of the tree, the reading of a file, the comparison.
LEMMA BatchSteps ==
  ASSUME IInv, NEW c \in Clients,
         \/ \E run \in Runs : StartBatch(c, run)
         \/ ReadFile(c) \/ CompareTree(c)
  PROVE  IInv'
<1>1. ASSUME NEW run \in Runs, StartBatch(c, run) PROVE IInv'
  <2>1. tree \in [Paths -> Contents] /\ 1 \in Paths
    BY ImportAssumption DEF ImportAssumption, IInv, Types, Paths
  <2>2. <<>> \in Seq(Contents) /\ "read" \in Points
    BY DEF Points
  <2> DEFINE j == BatchAt("read", run, tree, 1, <<>>)
  <2>3. j \in Jobs /\ j.pc = "read" /\ work' = [work EXCEPT ![c] = j]
    BY <1>1, <2>1, <2>2, BatchAtJob DEF StartBatch
  <2> HIDE DEF j
  <2>4. /\ work' \in [Clients -> Jobs \cup {NoWork}] /\ work'[c].pc \in Idle
        /\ \A d \in Clients \ {c} : work'[d] = work[d]
    BY <2>3 DEF IInv, Types, Idle
  <2> QED
    BY <1>1, <2>4, IdleJob, QuietStep DEF StartBatch, At
<1>2. CASE ReadFile(c)
  <2>1. work[c] \in Jobs /\ work[c].pc = "read"
    BY <1>2, RunningJob DEF ReadFile, At
  <2>2. tree[work[c].path] \in Contents
    BY <2>1 DEF IInv, Types, Jobs
  <2>3. /\ work'[c] = [work[c] EXCEPT !.pc = "find", !.content = tree[work[c].path]]
        /\ \A d \in Clients \ {c} : work'[d] = work[d]
        /\ work' \in [Clients -> Jobs \cup {NoWork}]
    BY <1>2, <2>1, <2>2 DEF ReadFile, IInv, Types, Jobs, Points
  <2>4. work'[c].pc \in Idle
    BY <2>1, <2>3 DEF Idle, Jobs
  <2> QED
    BY <1>2, <2>1, <2>3, <2>4, IdleJob, QuietStep DEF ReadFile, At
<1>3. CASE CompareTree(c)
  <2>1. work[c] \in Jobs /\ work[c].pc = "compare"
    BY <1>3, RunningJob DEF CompareTree, At
  <2>2. CASE Abort(c)
    BY <1>3, <2>1, <2>2, Aborted, IdleJob, QuietStep DEF CompareTree, At, Idle
  <2>3. CASE Goto(c, "returned")
    <3>1. /\ work' \in [Clients -> Jobs \cup {NoWork}] /\ work'[c].pc = "returned"
          /\ \A d \in Clients \ {c} : work'[d] = work[d]
      BY <2>1, <2>3 DEF Goto, IInv, Types, Jobs, Points
    <3> QED
      BY <1>3, <2>1, <3>1, IdleJob, QuietStep DEF CompareTree, At, Idle
  <2> QED
    BY <1>3, <2>2, <2>3 DEF CompareTree
<1> QED
  BY <1>1, <1>2, <1>3

\* The lookup of a file: its crosswalk is typed, so its content decomposes.
LEMMA FindStep ==
  ASSUME IInv, NEW c \in Clients, Find(c)
  PROVE  IInv'
<1> DEFINE x == work[c].content
<1>1. work[c] \in Jobs /\ work[c].pc = "find" /\ x \in Contents
  BY RunningJob DEF Find, At, Jobs
<1>2. UNCHANGED <<catalogVars, reads, recordVars, tree>> /\ ~At(c, "manifest")
  BY <1>1 DEF Find, At
<1>3. x \in Bodies => ReportOf[x] \in Reports /\ VersionOf[x] \in Versions
  BY ImportAssumption DEF ImportAssumption, Bodies, Versions
<1>4. CrosswalkFor(work[c].path, x) # {} => x \in Bodies
  BY DEF IInv, Types, Walks, CrosswalkFor
<1>5. ASSUME x \in Bodies,
             work' = [work EXCEPT ![c].pc = "verify", ![c].report = ReportOf[x],
                        ![c].version = VersionOf[x], ![c].head = head[ReportOf[x]]]
      PROVE  IInv'
  <2>1. head[ReportOf[x]] \in Seq(Entries)
    BY <1>3, <1>5 DEF IInv, Types
  <2>2. /\ work'[c] = [work[c] EXCEPT !.pc = "verify", !.report = ReportOf[x],
                         !.version = VersionOf[x], !.head = head[ReportOf[x]]]
        /\ \A d \in Clients \ {c} : work'[d] = work[d]
        /\ work' \in [Clients -> Jobs \cup {NoWork}]
    BY <1>1, <1>3, <1>5, <2>1 DEF IInv, Types, Jobs, Points
  <2>3. /\ work'[c].pc = "verify" /\ work'[c].content = x
        /\ work'[c].report = ReportOf[x] /\ work'[c].version = VersionOf[x]
    BY <1>1, <2>2 DEF Jobs
  <2>4. JobInv(work[c])' /\ work'[c].pc \notin Storing
    BY <1>3, <1>5, <2>3 DEF JobInv, OnReport, Storing, Placed
  <2> QED
    BY <1>2, <2>2, <2>4, QuietStep
<1>6. CASE NextFile(c)
  BY <1>1, <1>2, <1>6, NextFileJob, IdleJob, QuietStep DEF Idle
<1>7. ASSUME x \in Bodies,
             work' = [work EXCEPT ![c].pc = "publish", ![c].report = ReportOf[x],
                                  ![c].version = VersionOf[x]]
      PROVE  IInv'
  <2>1. /\ work'[c] = [work[c] EXCEPT !.pc = "publish", !.report = ReportOf[x],
                                      !.version = VersionOf[x]]
        /\ \A d \in Clients \ {c} : work'[d] = work[d]
        /\ work' \in [Clients -> Jobs \cup {NoWork}]
    BY <1>1, <1>3, <1>7 DEF IInv, Types, Jobs, Points
  <2>2. /\ work'[c].pc = "publish" /\ work'[c].content = x
        /\ work'[c].report = ReportOf[x] /\ work'[c].version = VersionOf[x]
    BY <1>1, <2>1 DEF Jobs
  <2>3. JobInv(work[c])' /\ work'[c].pc \notin Storing
    BY <1>3, <1>7, <2>2 DEF JobInv, OnReport, Storing, Placed
  <2> QED
    BY <1>2, <2>1, <2>3, QuietStep
<1>8. CASE Goto(c, "review")
  <2>1. /\ work' \in [Clients -> Jobs \cup {NoWork}] /\ work'[c].pc = "review"
        /\ \A d \in Clients \ {c} : work'[d] = work[d]
    BY <1>1, <1>8 DEF Goto, IInv, Types, Jobs, Points
  <2> QED
    BY <1>2, <2>1, IdleJob, QuietStep DEF Idle
<1> QED
  BY <1>1, <1>4, <1>5, <1>6, <1>7, <1>8 DEF Find, Decomposes, Bodies


\* A job that only moves its program counter.
LEMMA MovedTo ==
  ASSUME IInv, NEW c \in Clients, work[c] \in Jobs, NEW l \in Points, Goto(c, l)
  PROVE  /\ work' \in [Clients -> Jobs \cup {NoWork}]
         /\ \A d \in Clients \ {c} : work'[d] = work[d]
         /\ work'[c] = [work[c] EXCEPT !.pc = l] /\ work'[c].pc = l
         /\ work'[c].report = work[c].report /\ work'[c].version = work[c].version
         /\ work'[c].object = work[c].object /\ work'[c].content = work[c].content
         /\ work'[c].path = work[c].path
BY DEF Goto, IInv, Types, Jobs

\* Steps that raise, and the verification of what was imported before.
LEMMA RefusedSteps ==
  ASSUME IInv, NEW c \in Clients,
         Verify(c) \/ PublishFails(c) \/ ObserveRefused(c)
  PROVE  IInv'
<1>1. UNCHANGED <<catalogVars, reads, recordVars, tree>> /\ ~At(c, "manifest")
  BY DEF Verify, PublishFails, CatalogCorrupt, ObserveRefused, At
<1>2. CASE Abort(c)
  BY <1>1, <1>2, Aborted, IdleJob, QuietStep DEF Idle
<1>3. CASE Verify(c) /\ NextFile(c)
  <2>1. work[c] \in Jobs
    BY <1>3, RunningJob DEF Verify, At
  <2> QED
    BY <1>1, <1>3, <2>1, NextFileJob, IdleJob, QuietStep DEF Idle
<1> QED
  BY <1>2, <1>3 DEF Verify, PublishFails, ObserveRefused

\* The records of an import, in the order they are written: review or grant,
\* crosswalk, manifest.
LEMMA WriteReviewStep ==
  ASSUME IInv, NEW c \in Clients, WriteReview(c)
  PROVE  IInv'
<1>1. work[c] \in Jobs /\ work[c].pc = "review"
  BY RunningJob DEF WriteReview, At
<1>2. Goto(c, "manifest") /\ "manifest" \in Points
  BY DEF WriteReview, Points
<1>3. Grows(c)
  BY DEF WriteReview, IInv, Types, Grows, catalogVars, history
<1>4. work'[c].pc \in Idle
  BY <1>1, <1>2, MovedTo DEF Idle
<1>5. Orderly(c)
  BY <1>1, <1>4, IdleJob DEF Orderly, At
<1> QED
  BY <1>1, <1>2, <1>3, <1>4, <1>5, MovedTo, IdleJob, ClientStep

\* observe: the report is that of a version the catalogue has.
LEMMA ObserveStep ==
  ASSUME IInv, NEW c \in Clients, Observe(c)
  PROVE  IInv'
<1>1. work[c] \in Jobs /\ work[c].pc = "published" /\ JobInv(work[c])
  BY RunningJob DEF Observe, At
<1>2. Goto(c, "crosswalk") /\ "crosswalk" \in Points
  BY DEF Observe, Points
<1>3. work[c].report \in Reports
  BY <1>1 DEF JobInv, OnReport
<1>4. /\ UNCHANGED <<catalogVars, reads, crosswalks, reviews, manifest, unlisted, tree>>
      /\ grants' = grants \cup {work[c].report}
  BY DEF Observe, history
<1>5. Grows(c)
  BY <1>3, <1>4 DEF IInv, Types, Grows, catalogVars
<1>6. /\ work'[c].pc = "crosswalk" /\ work'[c].report = work[c].report
      /\ work'[c].version = work[c].version /\ work'[c].object = work[c].object
      /\ work'[c].content = work[c].content
  BY <1>1, <1>2, MovedTo
<1>7. JobInv(work[c])'
  BY <1>1, <1>4, <1>6 DEF JobInv, OnReport, Placed, Storing, Holds, catalogVars
<1>8. Orderly(c)
  BY <1>1, <1>6 DEF Orderly, At, Storing
<1> QED
  BY <1>1, <1>2, <1>5, <1>7, <1>8, MovedTo, ClientStep

\* The crosswalk, or the verification of the one another batch has written.
LEMMA WriteCrosswalkStep ==
  ASSUME IInv, NEW c \in Clients, WriteCrosswalk(c)
  PROVE  IInv'
<1>1. work[c] \in Jobs /\ work[c].pc = "crosswalk" /\ JobInv(work[c])
  BY RunningJob DEF WriteCrosswalk, At
<1>2. /\ UNCHANGED <<catalogVars, reads, grants, closed, reviews, manifest, unlisted, tree>>
      /\ "manifest" \in Points
  BY DEF WriteCrosswalk, Points, history
<1>3. ASSUME Goto(c, "manifest"),
             \/ UNCHANGED crosswalks
             \/ crosswalks' = crosswalks \cup
                  {[path |-> work[c].path, content |-> work[c].content,
                    report |-> work[c].report, version |-> work[c].version,
                    object |-> work[c].object]}
      PROVE  IInv'
  <2> DEFINE w == [path |-> work[c].path, content |-> work[c].content,
                   report |-> work[c].report, version |-> work[c].version,
                   object |-> work[c].object]
  <2>1. /\ work'[c].pc = "manifest" /\ work'[c].path = work[c].path
        /\ work'[c].content = work[c].content
        /\ work' \in [Clients -> Jobs \cup {NoWork}]
        /\ \A d \in Clients \ {c} : work'[d] = work[d]
    BY <1>1, <1>2, <1>3, MovedTo
  <2>2. w \in Walks
    BY <1>1 DEF JobInv, OnReport, Walks, Jobs
  <2>3. /\ Holds(w.report, w.version, w.object) /\ w.report \in grants
        /\ work'[c].path = w.path /\ work'[c].content = w.content
    BY <1>1, <2>1 DEF JobInv, Placed
  <2>4. crosswalks \subseteq crosswalks' /\ crosswalks' \subseteq crosswalks \cup {w}
    BY <1>3
  <2> HIDE DEF w
  <2>5. Grows(c)
    BY <1>2, <2>1, <2>2, <2>3, <2>4 DEF IInv, Types, Grows, catalogVars
  <2>6. Orderly(c) /\ JobInv(work[c])'
    BY <1>1, <2>1, IdleJob DEF Orderly, At, Storing, Idle
  <2> QED
    BY <2>1, <2>5, <2>6, ClientStep
<1>4. ASSUME Abort(c), UNCHANGED crosswalks
      PROVE  IInv'
  BY <1>1, <1>2, <1>4, Aborted, IdleJob, QuietStep DEF Idle, At, recordVars, history
<1> QED
  BY <1>3, <1>4 DEF WriteCrosswalk

\* The manifest line of this file.
LEMMA AppendManifestStep ==
  ASSUME IInv, NEW c \in Clients, AppendManifest(c)
  PROVE  IInv'
<1>1. work[c] \in Jobs /\ work[c].pc = "manifest"
  BY RunningJob DEF AppendManifest, At
<1>2. /\ UNCHANGED <<catalogVars, reads, grants, closed, crosswalks, reviews, unlisted, tree>>
      /\ NextFile(c)
      /\ manifest' = manifest \cup {[run |-> work[c].run, path |-> work[c].path,
                                     content |-> work[c].content,
                                     complete |-> Decomposes(work[c].content)]}
  BY DEF AppendManifest, history
<1>3. /\ work' \in [Clients -> Jobs \cup {NoWork}] /\ work'[c].pc \in Idle
      /\ \A d \in Clients \ {c} : work'[d] = work[d]
  BY <1>1, <1>2, NextFileJob DEF Idle
<1>4. Grows(c)
  BY <1>2 DEF IInv, Types, Grows, catalogVars
<1>5. \E m \in manifest' : m.path = work[c].path /\ m.content = work[c].content
  <2> DEFINE complete == Decomposes(work[c].content)
             m == [run |-> work[c].run, path |-> work[c].path,
                   content |-> work[c].content, complete |-> complete]
  <2>1. m \in manifest'
    BY <1>2
  <2> HIDE DEF complete
  <2>2. m.path = work[c].path /\ m.content = work[c].content
    OBVIOUS
  <2> QED
    BY <2>1, <2>2
<1>6. Orderly(c) /\ JobInv(work[c])'
  BY <1>3, <1>5, IdleJob DEF Orderly
<1> QED
  BY <1>3, <1>4, <1>6, ClientStep

\* A batch that dies: what it wrote stays, and the line it owes is noted.
LEMMA CrashStep ==
  ASSUME IInv, NEW c \in Clients, Crash(c)
  PROVE  IInv'
<1>1. Grows(c)
  BY DEF Crash, IInv, Types, Grows, catalogVars
<1>2. work'[c].pc \in Idle
  BY Aborted DEF Crash, Idle
<1>3. Orderly(c) /\ JobInv(work[c])'
  BY <1>2, IdleJob DEF Orderly, Crash, At
<1> QED
  BY <1>1, <1>3, Aborted, ClientStep DEF Crash


-----------------------------------------------------------------------------
(* The readers.                                                            *)

\* What has been published of a report is listed, each version once.
LEMMA AckedAreListed ==
  ASSUME IInv, NEW r \in Reports
  PROVE  AckedOf(r) \in Nat /\ AckedOf(r) <= Len(catalog[r])
<1> DEFINE T == {x \in acked : x.report = r}
           S == 1..Len(catalog[r])
           f == [x \in T |-> CHOOSE n \in S : catalog[r][n].version = x.version]
<1>1. Len(catalog[r]) \in Nat /\ DOMAIN catalog[r] = S
  BY DEF IInv, Types
<1>2. IsFiniteSet(S) /\ Cardinality(S) = Len(catalog[r])
  <2>1. /\ IsFiniteSet(S)
        /\ Cardinality(S) = IF 1 > Len(catalog[r]) THEN 0 ELSE Len(catalog[r]) - 1 + 1
    <3>1. 1 \in Int /\ Len(catalog[r]) \in Int
      BY <1>1
    <3> QED
      BY <3>1, FS_Interval
  <2> QED
    BY <1>1, <2>1
<1>3. \A x \in T : f[x] \in S /\ catalog[r][f[x]].version = x.version
  <2> SUFFICES ASSUME NEW x \in T
               PROVE  f[x] \in S /\ catalog[r][f[x]].version = x.version
    OBVIOUS
  <2>1. \E n \in S : catalog[r][n].version = x.version
    BY <1>1 DEF IInv, AckInv, VersionsIn
  <2> QED
    BY <2>1
<1> HIDE DEF f, S
<1>4. \A x, y \in T : f[x] = f[y] => x = y
  <2> SUFFICES ASSUME NEW x \in T, NEW y \in T, f[x] = f[y] PROVE x = y
    OBVIOUS
  <2>1. x.version = y.version /\ x.report = y.report
    BY <1>3
  <2>2. x \in [report : Reports, version : Versions] /\ y \in [report : Reports, version : Versions]
    BY DEF IInv, Types
  <2> QED
    BY <2>1, <2>2
<1>5. f \in [T -> S]
  BY <1>3 DEF f
<1>6. f \in Injection(T, S)
  BY <1>4, <1>5 DEF Injection, IsInjective
<1>7. IsFiniteSet(T) /\ Cardinality(T) <= Cardinality(S)
  BY <1>2, <1>6, FS_Injection
<1>8. Cardinality(T) \in Nat
  BY <1>7, FS_CardinalityType
<1> QED
  BY <1>2, <1>7, <1>8 DEF AckedOf

\* A step of a reader changes its reading only.
LEMMA ReaderStep ==
  ASSUME IInv, NEW q \in Readers,
         UNCHANGED <<catalogVars, work, recordVars, tree>>,
         reads' \in [Readers -> Resolves \cup Walkers \cup Checks \cup {NoRead}],
         \A p \in Readers \ {q} : reads'[p] = reads[p],
         ReadInv(q)'
  PROVE  IInv'
<1>1. Types'
  BY DEF IInv, Types, catalogVars, recordVars, history
<1>2. CatalogInv' /\ Exclusive' /\ AckInv' /\ Backed' /\ ManifestAccounts'
  BY DEF IInv, CatalogInv, Exclusive, AckInv, Backed, ManifestAccounts, At, Holds,
         catalogVars, recordVars, history
<1>3. \A c \in Clients : JobInv(work[c])'
  BY DEF IInv, JobInv, Holds, catalogVars, recordVars, history
<1>4. \A p \in Readers : ReadInv(p)'
  <2> SUFFICES ASSUME NEW p \in Readers, p # q PROVE ReadInv(p)'
    OBVIOUS
  <2>1. ReadInv(p) /\ reads'[p] = reads[p]
    BY DEF IInv
  <2> QED
    BY <2>1 DEF ReadInv, CrosswalkFor, catalogVars, recordVars, history
<1> QED
  BY <1>1, <1>2, <1>3, <1>4 DEF IInv

\* The third round of resolve_current finds the catalogue of the first, which
\* is then as long as it was in the second, when the object was verified.
LEMMA ReadCatalogStep ==
  ASSUME IInv, NEW q \in Readers, ReadCatalog(q), UNCHANGED <<recordVars, tree>>
  PROVE  IInv'
<1> DEFINE r == reads[q].report
<1>1. reads[q] \in Resolves /\ reads[q].pc = "catalog" /\ ReadInv(q)
  BY ReadingIs DEF ReadCatalog, IInv
<1>2. /\ r \in Reports /\ reads[q].round \in 1..3 /\ reads[q].known \in Nat
      /\ catalog[r] \in Seq(Entries) /\ Len(catalog[r]) \in Nat
  BY <1>1 DEF Resolves, IInv, Types
<1>3. AckedOf(r) \in Nat /\ AckedOf(r) <= Len(catalog[r])
  BY <1>2, AckedAreListed
<1>4. UNCHANGED <<catalogVars, work, recordVars, tree>>
  BY DEF ReadCatalog
<1>5. CASE ~Observed(q)
  <2>1. reads' = [reads EXCEPT ![q] = NoRead]
    BY <1>5 DEF ReadCatalog
  <2>2. /\ reads' \in [Readers -> Resolves \cup Walkers \cup Checks \cup {NoRead}]
        /\ \A p \in Readers \ {q} : reads'[p] = reads[p]
        /\ reads'[q].pc = "idle"
    BY <2>1 DEF IInv, Types, NoRead
  <2>3. ReadInv(q)'
    BY <2>2 DEF ReadInv
  <2> QED
    BY <1>4, <2>2, <2>3, ReaderStep
<1>6. CASE Observed(q)
  <2> DEFINE l == IF reads[q].round = 3 THEN "resolved" ELSE "head"
             n == IF reads[q].round = 3 THEN 3 ELSE reads[q].round + 1
             f == IF reads[q].round = 1 THEN catalog[r] ELSE reads[q].first
             k == IF reads[q].round = 2 THEN AckedOf(r) ELSE reads[q].known
             j == [reads[q] EXCEPT !.pc = l, !.round = n, !.first = f, !.known = k]
  <2>1. l \in {"head", "resolved"} /\ n \in 1..3 /\ f \in Seq(Entries) /\ k \in Nat
    BY <1>1, <1>2, <1>3 DEF Resolves
  <2>2. reads' = [reads EXCEPT ![q] = j]
    BY <1>6 DEF ReadCatalog, NextRound
  <2>3. n = 3 /\ l = "head" => k <= Len(catalog[r])
    BY <1>2, <1>3
  <2>4. l = "resolved" => k <= Len(f)
    <3>1. CASE reads[q].round = 3
      <4>1. catalog[r] = reads[q].first
        BY <1>6, <3>1 DEF Observed
      <4> QED
        BY <1>1, <3>1, <4>1 DEF ReadInv
    <3> QED
      BY <3>1
  <2> HIDE DEF l, n, f, k
  <2>5. /\ j \in Resolves /\ j.pc = l /\ j.round = n /\ j.first = f /\ j.known = k
        /\ j.report = r
    BY <1>1, <2>1 DEF Resolves
  <2> HIDE DEF j
  <2>6. /\ reads' \in [Readers -> Resolves \cup Walkers \cup Checks \cup {NoRead}]
        /\ \A p \in Readers \ {q} : reads'[p] = reads[p]
        /\ reads'[q] = j
    BY <2>2, <2>5 DEF IInv, Types
  <2>7. ReadInv(q)'
    BY <1>4, <2>1, <2>3, <2>4, <2>5, <2>6 DEF ReadInv, catalogVars
  <2> QED
    BY <1>4, <2>6, <2>7, ReaderStep
<1> QED
  BY <1>5, <1>6


\* The other steps of resolve_current.
LEMMA ResolveStep ==
  ASSUME IInv, NEW q \in Readers, ResolveCurrent(q), UNCHANGED <<recordVars, tree>>
  PROVE  IInv'
<1>1. ASSUME NEW r \in Reports, StartResolve(q, r) PROVE IInv'
  <2> DEFINE j == [pc |-> "head", report |-> r, round |-> 1, head |-> <<>>,
                   first |-> <<>>, known |-> 0]
  <2>1. j \in Resolves /\ j.pc = "head" /\ j.round = 1
    BY DEF Resolves
  <2> HIDE DEF j
  <2>2. /\ reads' \in [Readers -> Resolves \cup Walkers \cup Checks \cup {NoRead}]
        /\ \A p \in Readers \ {q} : reads'[p] = reads[p]
        /\ reads'[q] = j
    BY <1>1, <2>1 DEF StartResolve, IInv, Types, j
  <2>3. ReadInv(q)'
    BY <2>1, <2>2 DEF ReadInv
  <2> QED
    BY <1>1, <2>2, <2>3, ReaderStep DEF StartResolve
<1>2. CASE ReadHead(q)
  <2>1. reads[q] \in Resolves /\ reads[q].pc = "head" /\ ReadInv(q)
    BY <1>2, ReadingIs DEF ReadHead, IInv
  <2> DEFINE h == head[reads[q].report]
             j == [reads[q] EXCEPT !.pc = "catalog", !.head = h]
  <2>2. h \in Seq(Entries)
    BY <2>1 DEF Resolves, IInv, Types
  <2> HIDE DEF h
  <2>3. /\ j \in Resolves /\ j.pc = "catalog" /\ j.round = reads[q].round
        /\ j.known = reads[q].known /\ j.report = reads[q].report
    BY <2>1, <2>2 DEF Resolves
  <2>4. reads' = [reads EXCEPT ![q] = j]
    BY <1>2 DEF ReadHead, IInv, Types, h
  <2> HIDE DEF j
  <2>5. /\ reads' \in [Readers -> Resolves \cup Walkers \cup Checks \cup {NoRead}]
        /\ \A p \in Readers \ {q} : reads'[p] = reads[p]
        /\ reads'[q] = j
    BY <2>3, <2>4 DEF IInv, Types
  <2>6. ReadInv(q)'
    BY <1>2, <2>1, <2>3, <2>5 DEF ReadInv, ReadHead, catalogVars
  <2> QED
    BY <1>2, <2>5, <2>6, ReaderStep DEF ReadHead
<1>3. CASE UseSnapshot(q)
  <2>1. /\ reads' \in [Readers -> Resolves \cup Walkers \cup Checks \cup {NoRead}]
        /\ \A p \in Readers \ {q} : reads'[p] = reads[p]
        /\ reads'[q].pc = "idle"
    BY <1>3 DEF UseSnapshot, IInv, Types, NoRead
  <2>2. ReadInv(q)'
    BY <2>1 DEF ReadInv
  <2> QED
    BY <1>3, <2>1, <2>2, ReaderStep DEF UseSnapshot
<1> QED
  BY <1>1, <1>2, <1>3, ReadCatalogStep DEF ResolveCurrent

\* A file with a crosswalk of its path, when each crosswalk is of the content
\* on disk, has a crosswalk of its content.
LEMMA CoveredIsAccounted ==
  ASSUME IInv, NEW files \in [Paths -> Contents],
         \A w \in crosswalks : files[w.path] = w.content,
         \A p \in Paths : Covered(p, files[p])
  PROVE  \A p \in Paths :
           \/ CrosswalkFor(p, files[p]) # {}
           \/ \E v \in reviews : v.path = p /\ v.content = files[p]
BY DEF Covered, CrosswalkFor

\* The reconciliation.
LEMMA ReconcileStep ==
  ASSUME IInv, NEW q \in Readers, Reconcile(q)
  PROVE  IInv'
<1>1. UNCHANGED <<catalogVars, work, recordVars, tree>>
  BY DEF Reconcile, ReconcileTree, ReconcileRecords, ReconcileVersion,
         ReconcileDone, Reading
<1>2. CASE ReconcileTree(q)
  <2> DEFINE j == [pc |-> "records", tree |-> tree]
  <2>1. j \in Walkers /\ j.pc = "records"
    BY DEF IInv, Types, Walkers
  <2> HIDE DEF j
  <2>2. /\ reads' \in [Readers -> Resolves \cup Walkers \cup Checks \cup {NoRead}]
        /\ \A p \in Readers \ {q} : reads'[p] = reads[p]
        /\ reads'[q] = j
    BY <1>2, <2>1 DEF ReconcileTree, Reading, IInv, Types, j
  <2>3. ReadInv(q)'
    BY <2>1, <2>2 DEF ReadInv
  <2> QED
    BY <1>1, <2>2, <2>3, ReaderStep
<1>3. CASE ReconcileRecords(q)
  <2>1. reads[q] \in Walkers
    BY <1>3, ReadingIs DEF ReconcileRecords, IInv
  <2> DEFINE files == reads[q].tree
             clean == /\ \A w \in crosswalks : files[w.path] = w.content
                      /\ \A p \in Paths : Covered(p, files[p])
             j == [pc |-> "check", tree |-> files, todo |-> crosswalks, clean |-> clean]
  <2>2. files \in [Paths -> Contents] /\ crosswalks \subseteq Walks /\ clean \in BOOLEAN
    BY <2>1 DEF Walkers, IInv, Types
  <2>3. clean => \A p \in Paths :
                   \/ CrosswalkFor(p, files[p]) # {}
                   \/ \E v \in reviews : v.path = p /\ v.content = files[p]
    BY <2>2, CoveredIsAccounted
  <2>4. reads' = [reads EXCEPT ![q] = j]
    BY <1>3 DEF ReconcileRecords, Reading
  <2> HIDE DEF clean, files
  <2>5. j \in Checks /\ j.pc = "check" /\ j.tree = files /\ j.clean = clean
    BY <2>2 DEF Checks
  <2> HIDE DEF j
  <2>6. /\ reads' \in [Readers -> Resolves \cup Walkers \cup Checks \cup {NoRead}]
        /\ \A p \in Readers \ {q} : reads'[p] = reads[p]
        /\ reads'[q] = j
    BY <2>4, <2>5 DEF IInv, Types
  <2>7. ReadInv(q)'
    BY <1>1, <2>3, <2>5, <2>6 DEF ReadInv, CrosswalkFor, recordVars, history
  <2> QED
    BY <1>1, <2>6, <2>7, ReaderStep
<1>4. CASE ReconcileVersion(q)
  <2>1. reads[q] \in Checks /\ ReadInv(q) /\ reads[q].pc = "check"
    BY <1>4, ReadingIs DEF ReconcileVersion, IInv
  <2>2. PICK w \in reads[q].todo :
          reads' = [reads EXCEPT ![q] = [reads[q] EXCEPT !.todo = @ \ {w},
            !.clean = @ /\ Agree(w.report) /\ w.version \in VersionsIn(catalog[w.report])]]
    BY <1>4 DEF ReconcileVersion, Reading
  <2> DEFINE todo  == reads[q].todo \ {w}
             clean == reads[q].clean /\ Agree(w.report)
                        /\ w.version \in VersionsIn(catalog[w.report])
             j == [reads[q] EXCEPT !.todo = todo, !.clean = clean]
  <2>3. todo \in SUBSET Walks /\ clean \in BOOLEAN /\ (clean => reads[q].clean)
    BY <2>1 DEF Checks
  <2>4. reads' = [reads EXCEPT ![q] = j]
    BY <2>2
  <2> HIDE DEF todo, clean
  <2>5. j \in Checks /\ j.pc = "check" /\ j.tree = reads[q].tree /\ j.clean = clean
    BY <2>1, <2>3 DEF Checks
  <2> HIDE DEF j
  <2>6. /\ reads' \in [Readers -> Resolves \cup Walkers \cup Checks \cup {NoRead}]
        /\ \A p \in Readers \ {q} : reads'[p] = reads[p]
        /\ reads'[q] = j
    BY <2>4, <2>5 DEF IInv, Types
  <2>7. ReadInv(q)'
    BY <1>1, <2>1, <2>3, <2>5, <2>6 DEF ReadInv, CrosswalkFor, recordVars, history
  <2> QED
    BY <1>1, <2>6, <2>7, ReaderStep
<1>5. CASE ReconcileDone(q)
  <2>1. /\ reads' \in [Readers -> Resolves \cup Walkers \cup Checks \cup {NoRead}]
        /\ \A p \in Readers \ {q} : reads'[p] = reads[p]
        /\ reads'[q].pc = "idle"
    BY <1>5 DEF ReconcileDone, Reading, IInv, Types, NoRead
  <2>2. ReadInv(q)'
    BY <2>1 DEF ReadInv
  <2> QED
    BY <1>1, <2>1, <2>2, ReaderStep
<1> QED
  BY <1>2, <1>3, <1>4, <1>5 DEF Reconcile

-----------------------------------------------------------------------------
(* The invariant.                                                          *)

\* The tree is edited, a grant is closed: nothing the invariant is about.
LEMMA SurroundingsStep ==
  ASSUME IInv, EditTree \/ \E r \in Reports : RevokeGrant(r)
  PROVE  IInv'
<1>1. /\ UNCHANGED <<catalogVars, work, reads, grants, crosswalks, reviews, manifest, unlisted>>
      /\ tree' \in [Paths -> Contents]
  BY DEF EditTree, RevokeGrant, evidenceVars, recordVars, history, IInv, Types
<1>2. Types'
  BY <1>1 DEF IInv, Types, catalogVars
<1>3. CatalogInv' /\ Exclusive' /\ AckInv' /\ Backed' /\ ManifestAccounts'
  BY <1>1 DEF IInv, CatalogInv, Exclusive, AckInv, Backed, ManifestAccounts, At, Holds,
              catalogVars
<1>4. \A c \in Clients : JobInv(work[c])'
  BY <1>1 DEF IInv, JobInv, Holds, catalogVars
<1>5. \A q \in Readers : ReadInv(q)'
  BY <1>1 DEF IInv, ReadInv, CrosswalkFor, catalogVars
<1> QED
  BY <1>2, <1>3, <1>4, <1>5 DEF IInv

\* Every step keeps the invariant.
LEMMA InvariantStep ==
  ASSUME IInv, [Next]_vars
  PROVE  IInv'
<1>1. CASE UNCHANGED vars
  <2>1. UNCHANGED <<catalogVars, work, reads, recordVars, tree>>
    BY <1>1 DEF vars, evidenceVars
  <2>2. Types'
    BY <2>1 DEF IInv, Types, catalogVars, recordVars, history
  <2>3. CatalogInv' /\ Exclusive' /\ AckInv' /\ Backed' /\ ManifestAccounts'
    BY <2>1 DEF IInv, CatalogInv, Exclusive, AckInv, Backed, ManifestAccounts, At, Holds,
                catalogVars, recordVars, history
  <2>4. \A c \in Clients : JobInv(work[c])'
    BY <2>1 DEF IInv, JobInv, Holds, catalogVars, recordVars, history
  <2>5. \A q \in Readers : ReadInv(q)'
    BY <2>1 DEF IInv, ReadInv, CrosswalkFor, catalogVars, recordVars, history
  <2> QED
    BY <2>2, <2>3, <2>4, <2>5 DEF IInv
<1>2. ASSUME NEW c \in Clients, ImportStep(c) PROVE IInv'
  BY <1>2, BatchSteps, FindStep, RefusedSteps, WriteReviewStep, ObserveStep,
     WriteCrosswalkStep, AppendManifestStep DEF ImportStep
<1>3. ASSUME NEW c \in Clients, Publish(c), UNCHANGED <<recordVars, tree, bounds>>
      PROVE  IInv'
  BY <1>3, RepublishStep, LoadCatalogStep, WriteObjectStep, WriteCatalogStep,
     WriteHeadStep DEF Publish
<1>4. ASSUME NEW q \in Readers,
             \/ ResolveCurrent(q) /\ UNCHANGED <<recordVars, tree, bounds>>
             \/ Reconcile(q)
      PROVE  IInv'
  BY <1>4, ResolveStep, ReconcileStep
<1> QED
  BY <1>1, <1>2, <1>3, <1>4, CrashStep, SurroundingsStep DEF Next

\* The inductive invariant: a catalogue that only grows, one publish at a time,
\* and what each batch and each reader may rely on at its point.
THEOREM Invariant == Spec => []IInv
BY InitIInv, InvariantStep, PTL DEF Spec

\* What publish has acknowledged is in the catalogue, once, with its object:
\* for any batches that overlap and die (publish, _load_catalog).
THEOREM PublishedForGood == Spec => []PublishedStays
<1>1. IInv => PublishedStays
  <2> SUFFICES ASSUME IInv, NEW x \in acked
               PROVE  /\ Cardinality({n \in DOMAIN catalog[x.report] :
                                        catalog[x.report][n].version = x.version}) = 1
                      /\ [object |-> EntryOf(x.report, x.version).object,
                          report |-> x.report, version |-> x.version] \in objects
    BY DEF PublishedStays
  <2>1. x.report \in Reports /\ x.version \in VersionsIn(catalog[x.report])
    BY DEF IInv, Types, AckInv
  <2>2. PICK n \in DOMAIN catalog[x.report] : catalog[x.report][n].version = x.version
    BY <2>1 DEF VersionsIn
  <2>3. {m \in DOMAIN catalog[x.report] : catalog[x.report][m].version = x.version} = {n}
    BY <2>1, <2>2 DEF IInv, CatalogInv
  <2>4. /\ x.version \in Versions
        /\ Holds(x.report, x.version, EntryOf(x.report, x.version).object)
    BY <2>1, EntryHeld DEF IInv
  <2> QED
    BY <2>1, <2>3, <2>4, HeldEntry, FS_Singleton DEF IInv
<1> QED
  BY <1>1, Invariant, PTL

\* resolve_current never returns a version that had been superseded when its
\* object was verified, though it reads without a lock.
THEOREM ResolvedIsTheCurrent == Spec => []ResolvedIsCurrent
<1>1. IInv => ResolvedIsCurrent
  <2> SUFFICES ASSUME IInv, NEW q \in Readers, reads[q].pc = "resolved"
               PROVE  Len(reads[q].first) >= reads[q].known
    BY DEF ResolvedIsCurrent
  <2>1. reads[q] \in Resolves /\ ReadInv(q)
    BY ReadingIs DEF IInv
  <2>2. Len(reads[q].first) \in Nat /\ reads[q].known \in Nat
    BY <2>1 DEF Resolves
  <2> QED
    BY <2>1, <2>2 DEF ReadInv
<1> QED
  BY <1>1, Invariant, PTL

\* A crosswalk refers to the object its version has in the evidence store, and
\* its grant has been observed (import_one writes it last).
THEOREM CrosswalksAreBacked == Spec => []CrosswalkBacked
<1>1. IInv => CrosswalkBacked
  <2> SUFFICES ASSUME IInv, NEW w \in crosswalks
               PROVE  /\ w.version \in VersionsIn(catalog[w.report])
                      /\ EntryOf(w.report, w.version).object = w.object
                      /\ w.report \in grants
    BY DEF CrosswalkBacked
  <2>1. w.report \in Reports /\ w.version \in Versions
    BY DEF IInv, Types, Walks
  <2>2. Holds(w.report, w.version, w.object) /\ w.report \in grants
    BY DEF IInv, Backed
  <2>3. /\ w.version \in VersionsIn(catalog[w.report])
        /\ EntryOf(w.report, w.version) = [version |-> w.version, object |-> w.object]
    BY <2>1, <2>2, HeldEntry DEF IInv
  <2> QED
    BY <2>2, <2>3
<1> QED
  BY <1>1, Invariant, PTL

\* Each crosswalk has its line in a manifest, is about to get it, or was written
\* by a batch that died before it.
THEOREM ManifestAccountsForAll == Spec => []ManifestAccounts
<1>1. IInv => ManifestAccounts
  BY DEF IInv
<1> QED
  BY <1>1, Invariant, PTL

\* A reconciliation without differences is true of the tree it read, whatever
\* was imported or edited while it read.
THEOREM CleanReportsAreTrue == Spec => []CleanReportIsTrue
<1>1. IInv => CleanReportIsTrue
  <2> SUFFICES ASSUME IInv, NEW q \in Readers, reads[q].pc = "check", reads[q].clean,
                      NEW p \in Paths
               PROVE  \/ \E w \in CrosswalkFor(p, reads[q].tree[p]) :
                           w.version \in VersionsIn(catalog[w.report])
                      \/ \E v \in reviews : v.path = p /\ v.content = reads[q].tree[p]
    BY DEF CleanReportIsTrue
  <2>1. \/ CrosswalkFor(p, reads[q].tree[p]) # {}
        \/ \E v \in reviews : v.path = p /\ v.content = reads[q].tree[p]
    BY DEF IInv, ReadInv
  <2>2. \A w \in CrosswalkFor(p, reads[q].tree[p]) :
          w.version \in VersionsIn(catalog[w.report])
    <3> SUFFICES ASSUME NEW w \in CrosswalkFor(p, reads[q].tree[p])
                 PROVE  w.version \in VersionsIn(catalog[w.report])
      OBVIOUS
    <3>1. w \in crosswalks /\ w.report \in Reports /\ w.version \in Versions
      BY DEF CrosswalkFor, IInv, Types, Walks
    <3>2. Holds(w.report, w.version, w.object)
      BY <3>1 DEF IInv, Backed
    <3> QED
      BY <3>1, <3>2, HeldEntry DEF IInv
  <2> QED
    BY <2>1, <2>2
<1> QED
  BY <1>1, Invariant, PTL


-----------------------------------------------------------------------------
(* What a batch that returns has imported.  A file that is what it was in   *)
(* the snapshot was never another since, unless it was changed back: what   *)
(* the batch has read of it is the snapshot's.                              *)

\* The points of a batch that is going, and those with a file in hand.
Going  == Points \ {"returned"}
InHand == Points \ {"read", "compare", "returned"}

\* File p of a batch that is at j.
FileInv(j, p) ==
  /\ j.pc \in Going /\ tree[p] = j.snap[p] =>
       /\ p \in DOMAIN j.imported => j.imported[p] = j.snap[p]
       /\ j.pc \in InHand /\ j.path = p => j.content = j.snap[p]
  /\ j.pc = "returned" => j.imported[p] = j.snap[p]

CountInv(j) ==
  /\ j.pc \in Points \ {"compare", "returned"} => Len(j.imported) = j.path - 1
  /\ j.pc \in {"compare", "returned"} => Len(j.imported) = NPaths

SnapInv(c, j) == CountInv(j) /\ \A p \in Paths : <<c, p>> \notin reverted => FileInv(j, p)

BatchInv == \A c \in Clients : SnapInv(c, work[c])

\* A step of one batch, while the tree and what was changed back stay.
LEMMA OneBatch ==
  ASSUME BatchInv, NEW c \in Clients, UNCHANGED <<tree, reverted>>,
         \A d \in Clients \ {c} : work'[d] = work[d], SnapInv(c, work[c])'
  PROVE  BatchInv'
<1>1. ASSUME NEW d \in Clients, d # c PROVE SnapInv(d, work[d])'
  <2>1. SnapInv(d, work[d]) /\ work'[d] = work[d]
    BY <1>1 DEF BatchInv
  <2> QED
    BY <2>1 DEF SnapInv, CountInv, FileInv
<1> QED
  BY <1>1 DEF BatchInv

\* A call that goes on with the same file.
LEMMA SameFile ==
  ASSUME IInv, BatchInv, NEW c \in Clients, work[c] \in Jobs,
         work[c].pc \in InHand,
         UNCHANGED <<tree, reverted>>,
         \A d \in Clients \ {c} : work'[d] = work[d],
         work'[c].pc \in InHand,
         work'[c].path = work[c].path, work'[c].snap = work[c].snap,
         work'[c].content = work[c].content, work'[c].imported = work[c].imported
  PROVE  BatchInv'
<1>1. /\ work[c].pc \in Points \ {"compare", "returned"}
      /\ work'[c].pc \in Points \ {"compare", "returned"}
  BY DEF InHand
<1>2. SnapInv(c, work[c])
  BY DEF BatchInv
<1>3. SnapInv(c, work[c])'
  BY <1>1, <1>2 DEF SnapInv, CountInv, FileInv, Going
<1> QED
  BY <1>3, OneBatch

\* A call that stops.
LEMMA Stopped ==
  ASSUME IInv, BatchInv, NEW c \in Clients, Abort(c), UNCHANGED <<tree, reverted>>
  PROVE  BatchInv'
<1>1. work'[c].pc \notin Points /\ \A d \in Clients \ {c} : work'[d] = work[d]
  BY Aborted DEF Points
<1>2. SnapInv(c, work[c])'
  BY <1>1 DEF SnapInv, CountInv, FileInv, Going, Points
<1> QED
  BY <1>1, <1>2, OneBatch

\* A file that is done: its content is that of the snapshot, or the file is not.
LEMMA NextFileDone ==
  ASSUME IInv, BatchInv, NEW c \in Clients, work[c] \in Jobs,
         work[c].pc \in InHand,
         UNCHANGED <<tree, reverted>>, NextFile(c)
  PROVE  BatchInv'
<1> DEFINE j == work[c]
           p == IF j.path = NPaths THEN j.path ELSE j.path + 1
           l == IF j.path = NPaths THEN "compare" ELSE "read"
           i == Append(j.imported, j.content)
<1>1. /\ j.path \in 1..NPaths /\ NPaths \in Nat /\ j.imported \in Seq(Contents)
      /\ j.content \in Contents
  BY ImportAssumption DEF ImportAssumption, Jobs, Paths
<1>2. work' = [work EXCEPT ![c] = BatchAt(l, j.run, j.snap, p, i)]
  BY DEF NextFile
<1>3. /\ SnapInv(c, j) /\ Len(j.imported) = j.path - 1
      /\ j.pc \in Going /\ j.pc \in InHand
  BY DEF BatchInv, SnapInv, CountInv, InHand, Going
<1>4. /\ Len(i) = j.path /\ DOMAIN i = 1..j.path /\ i[j.path] = j.content
      /\ \A n \in 1..(j.path - 1) : n \in DOMAIN j.imported /\ i[n] = j.imported[n]
  BY <1>1, <1>3
<1>5. ASSUME NEW n \in Paths, <<c, n>> \notin reverted, tree[n] = j.snap[n], n \in DOMAIN i
      PROVE  i[n] = j.snap[n]
  <2>1. FileInv(j, n)
    BY <1>3, <1>5 DEF SnapInv
  <2>2. CASE n = j.path
    BY <1>3, <1>4, <1>5, <2>1, <2>2 DEF FileInv
  <2>3. CASE n # j.path
    <3>1. n \in 1..(j.path - 1)
      BY <1>1, <1>4, <1>5, <2>3
    <3> QED
      BY <1>3, <1>4, <1>5, <2>1, <3>1 DEF FileInv
  <2> QED
    BY <2>2, <2>3
<1>6. /\ l = "compare" => Len(i) = NPaths
      /\ l = "read" => Len(i) = p - 1
      /\ l \in {"compare", "read"}
  BY <1>1, <1>4
<1> HIDE DEF p, l, i
<1>7. /\ work'[c].pc = l /\ work'[c].path = p /\ work'[c].imported = i
      /\ work'[c].snap = j.snap
      /\ \A d \in Clients \ {c} : work'[d] = work[d]
  BY <1>2 DEF BatchAt, IInv, Types
<1>8. SnapInv(c, work[c])'
  <2>1. CountInv(work[c])'
    BY <1>6, <1>7 DEF CountInv, Points
  <2>2. ASSUME NEW n \in Paths, <<c, n>> \notin reverted'
        PROVE  FileInv(work[c], n)'
    BY <1>5, <1>6, <1>7, <2>2 DEF FileInv, InHand
  <2> QED
    BY <2>1, <2>2 DEF SnapInv
<1> QED
  BY <1>7, <1>8, OneBatch

\* The steps of a batch.
LEMMA BatchImportStep ==
  ASSUME IInv, BatchInv, NEW c \in Clients,
         ImportStep(c) \/ (Publish(c) /\ UNCHANGED <<recordVars, tree, bounds>>)
  PROVE  BatchInv'
<1> DEFINE here == InHand
<1>1. ASSUME NEW run \in Runs, StartBatch(c, run) PROVE BatchInv'
  <2>1. /\ work'[c].pc = "read" /\ work'[c].path = 1 /\ work'[c].snap = tree
        /\ work'[c].imported = <<>>
        /\ \A d \in Clients \ {c} : work'[d] = work[d]
    BY <1>1 DEF StartBatch, BatchAt, IInv, Types
  <2>2. tree' = tree /\ reverted' = {x \in reverted : x[1] # c}
    BY <1>1 DEF StartBatch
  <2>3. SnapInv(c, work[c])'
    BY <2>1 DEF SnapInv, CountInv, FileInv, Going, InHand, Points
  <2>4. ASSUME NEW d \in Clients, d # c PROVE SnapInv(d, work[d])'
    <3>1. PICK j : j = work[d]
      OBVIOUS
    <3>2. work'[d] = j /\ SnapInv(d, j)
      BY <2>1, <2>4, <3>1 DEF BatchInv
    <3>3. \A p \in Paths : <<d, p>> \in reverted <=> <<d, p>> \in reverted'
      BY <2>2, <2>4
    <3> QED
      BY <2>2, <3>2, <3>3 DEF SnapInv, CountInv, FileInv
  <2> QED
    BY <2>3, <2>4 DEF BatchInv
<1>2. CASE ReadFile(c)
  <2>1. work[c] \in Jobs /\ work[c].pc = "read" /\ SnapInv(c, work[c])
    BY <1>2, RunningJob DEF ReadFile, At, BatchInv
  <2>2. /\ work'[c] = [work[c] EXCEPT !.pc = "find", !.content = tree[work[c].path]]
        /\ \A d \in Clients \ {c} : work'[d] = work[d]
    BY <1>2, <2>1 DEF ReadFile, IInv, Types, Jobs
  <2>3. /\ work'[c].pc = "find" /\ work'[c].path = work[c].path
        /\ work'[c].snap = work[c].snap /\ work'[c].imported = work[c].imported
        /\ work'[c].content = tree[work[c].path]
    BY <2>1, <2>2 DEF Jobs
  <2>4. UNCHANGED <<tree, reverted>>
    BY <1>2 DEF ReadFile, recordVars, history
  <2>5. SnapInv(c, work[c])'
    BY <2>1, <2>3, <2>4 DEF SnapInv, CountInv, FileInv, Going, InHand, Points
  <2> QED
    BY <2>2, <2>4, <2>5, OneBatch
<1>3. CASE CompareTree(c)
  <2>1. work[c] \in Jobs /\ work[c].pc = "compare" /\ SnapInv(c, work[c])
    BY <1>3, RunningJob DEF CompareTree, At, BatchInv
  <2>2. UNCHANGED <<tree, reverted>>
    BY <1>3 DEF CompareTree, recordVars, history
  <2>3. CASE Abort(c)
    BY <2>2, <2>3, Stopped
  <2>4. CASE tree = work[c].snap /\ Goto(c, "returned")
    <3>1. /\ work'[c] = [work[c] EXCEPT !.pc = "returned"]
          /\ \A d \in Clients \ {c} : work'[d] = work[d]
      BY <2>1, <2>4 DEF Goto, IInv, Types, Jobs
    <3>2. /\ work'[c].pc = "returned" /\ work'[c].snap = work[c].snap
          /\ work'[c].imported = work[c].imported
      BY <2>1, <3>1 DEF Jobs
    <3>3. CountInv(work[c])'
      BY <2>1, <3>2 DEF SnapInv, CountInv
    <3>4. ASSUME NEW p \in Paths, <<c, p>> \notin reverted'
          PROVE  FileInv(work[c], p)'
      <4>1. FileInv(work[c], p) /\ work[c].pc \in Going
        BY <2>1, <2>2, <3>4 DEF SnapInv, Going, Points
      <4>2. tree[p] = work[c].snap[p] /\ p \in DOMAIN work[c].imported
        BY <2>1, <2>4, ImportAssumption DEF SnapInv, CountInv, Jobs, Paths
      <4> QED
        BY <3>2, <4>1, <4>2 DEF FileInv, Going
    <3>5. SnapInv(c, work[c])'
      BY <3>3, <3>4 DEF SnapInv
    <3> QED
      BY <2>2, <3>1, <3>5, OneBatch
  <2> QED
    BY <1>3, <2>3, <2>4 DEF CompareTree
<1>4. ASSUME work[c].pc \in here, UNCHANGED <<tree, reverted>>, NextFile(c)
      PROVE  BatchInv'
  BY <1>4, RunningJob, NextFileDone DEF Points, InHand
<1>5. ASSUME UNCHANGED <<tree, reverted>>, Abort(c) PROVE BatchInv'
  BY <1>5, Stopped
<1>6. ASSUME work[c].pc \in here, UNCHANGED <<tree, reverted>>, NEW l \in here, Goto(c, l)
      PROVE  BatchInv'
  <2>1. work[c] \in Jobs
    BY <1>6, RunningJob DEF Points, InHand
  <2>2. /\ work'[c] = [work[c] EXCEPT !.pc = l]
        /\ \A d \in Clients \ {c} : work'[d] = work[d]
    BY <1>6, <2>1 DEF Goto, IInv, Types, Jobs
  <2>3. /\ work'[c].pc = l /\ work'[c].path = work[c].path
        /\ work'[c].snap = work[c].snap /\ work'[c].imported = work[c].imported
        /\ work'[c].content = work[c].content
    BY <2>1, <2>2 DEF Jobs
  <2> QED
    BY <1>6, <2>1, <2>2, <2>3, SameFile
<1>7. CASE Find(c)
  <2>1. work[c].pc \in here /\ UNCHANGED <<tree, reverted>> /\ work[c] \in Jobs
    BY <1>7, RunningJob DEF Find, At, Points, InHand, recordVars, history
  <2>2. CASE \E x, y, z : work' = [work EXCEPT ![c].pc = "verify", ![c].report = x,
                                     ![c].version = y, ![c].head = z]
    <3>1. /\ work'[c].pc = "verify" /\ work'[c].path = work[c].path
          /\ work'[c].snap = work[c].snap /\ work'[c].imported = work[c].imported
          /\ work'[c].content = work[c].content
          /\ \A d \in Clients \ {c} : work'[d] = work[d]
      BY <2>1, <2>2 DEF IInv, Types, Jobs
    <3>2. work'[c].pc \in here
      BY <3>1 DEF Points, InHand
    <3> QED
      BY <2>1, <3>1, <3>2, SameFile
  <2>3. CASE \E x, y : work' = [work EXCEPT ![c].pc = "publish", ![c].report = x,
                                            ![c].version = y]
    <3>1. /\ work'[c].pc = "publish" /\ work'[c].path = work[c].path
          /\ work'[c].snap = work[c].snap /\ work'[c].imported = work[c].imported
          /\ work'[c].content = work[c].content
          /\ \A d \in Clients \ {c} : work'[d] = work[d]
      BY <2>1, <2>3 DEF IInv, Types, Jobs
    <3>2. work'[c].pc \in here
      BY <3>1 DEF Points, InHand
    <3> QED
      BY <2>1, <3>1, <3>2, SameFile
  <2>4. "review" \in here
    BY DEF Points, InHand
  <2> QED
    BY <1>4, <1>6, <1>7, <2>1, <2>2, <2>3, <2>4 DEF Find
<1>8. CASE Verify(c) \/ PublishFails(c) \/ ObserveRefused(c) \/ AppendManifest(c)
  <2>1. work[c].pc \in here /\ UNCHANGED <<tree, reverted>>
    BY <1>8 DEF Verify, PublishFails, CatalogCorrupt, ObserveRefused, AppendManifest,
                At, Points, InHand, recordVars, history
  <2> QED
    BY <1>4, <1>5, <1>8, <2>1 DEF Verify, PublishFails, ObserveRefused, AppendManifest
<1>9. CASE WriteReview(c) \/ Observe(c) \/ WriteCrosswalk(c)
  <2>1. work[c].pc \in here /\ UNCHANGED <<tree, reverted>>
    BY <1>9 DEF WriteReview, Observe, WriteCrosswalk, At, Points, InHand, history
  <2>2. "manifest" \in here /\ "crosswalk" \in here
    BY DEF Points, InHand
  <2> QED
    BY <1>5, <1>6, <1>9, <2>1, <2>2 DEF WriteReview, Observe, WriteCrosswalk
<1>10. CASE Publish(c) /\ UNCHANGED <<recordVars, tree, bounds>>
  <2>1. work[c].pc \in here /\ UNCHANGED <<tree, reverted>>
    BY <1>10 DEF Publish, Republish, LoadCatalog, WriteObject, WriteCatalog, WriteHead,
                 At, Points, InHand, recordVars, history
  <2>2. "object" \in here /\ "head" \in here
    BY DEF Points, InHand
  <2>3. CASE LoadCatalog(c) \/ WriteCatalog(c)
    BY <1>6, <2>1, <2>2, <2>3 DEF LoadCatalog, WriteCatalog
  <2>4. ASSUME NEW l \in here, NEW o,
               work' = [work EXCEPT ![c].pc = l, ![c].object = o]
        PROVE  BatchInv'
    <3>1. work[c] \in Jobs
      BY <2>1, RunningJob DEF Points, InHand
    <3>2. /\ work'[c].pc \in here /\ work'[c].path = work[c].path
          /\ work'[c].snap = work[c].snap /\ work'[c].imported = work[c].imported
          /\ work'[c].content = work[c].content
          /\ \A d \in Clients \ {c} : work'[d] = work[d]
      BY <2>4, <3>1 DEF IInv, Types, Jobs
    <3> QED
      BY <2>1, <3>1, <3>2, SameFile
  <2>5. "catalog" \in here /\ "published" \in here
    BY DEF Points, InHand
  <2> QED
    BY <1>10, <2>3, <2>4, <2>5 DEF Publish, Republish, WriteObject, WriteHead, Returned
<1> QED
  BY <1>1, <1>2, <1>3, <1>7, <1>8, <1>9, <1>10 DEF ImportStep


\* Every step keeps it: an edit that changes a file back is noted.
LEMMA BatchInvariantStep ==
  ASSUME IInv, BatchInv, [Next]_vars
  PROVE  BatchInv'
<1>1. ASSUME UNCHANGED <<work, tree, reverted>> PROVE BatchInv'
  BY <1>1 DEF BatchInv, SnapInv, CountInv, FileInv
<1>2. ASSUME NEW c \in Clients, Crash(c) PROVE BatchInv'
  BY <1>2, Stopped DEF Crash
<1>3. ASSUME NEW q \in Readers,
             \/ ResolveCurrent(q) /\ UNCHANGED <<recordVars, tree, bounds>>
             \/ Reconcile(q)
      PROVE  BatchInv'
  <2>1. UNCHANGED <<work, tree, reverted>>
    BY <1>3 DEF ResolveCurrent, StartResolve, ReadHead, ReadCatalog, UseSnapshot,
                Reconcile, ReconcileTree, ReconcileRecords, ReconcileVersion,
                ReconcileDone, Reading, recordVars, history
  <2> QED
    BY <1>1, <2>1
<1>4. ASSUME NEW r \in Reports, RevokeGrant(r) PROVE BatchInv'
  BY <1>1, <1>4 DEF RevokeGrant, evidenceVars, history
<1>5. CASE EditTree
  <2>1. PICK p \in Paths, x \in Contents :
          /\ tree[p] # x /\ tree' = [tree EXCEPT ![p] = x]
          /\ reverted' = reverted \cup
               {<<c, p>> : c \in {d \in Clients : /\ work[d].pc \notin {"idle", "returned"}
                                                 /\ work[d].snap[p] = x}}
    BY <1>5 DEF EditTree
  <2>2. work' = work
    BY <1>5 DEF EditTree, evidenceVars
  <2>3. ASSUME NEW c \in Clients, NEW n \in Paths, <<c, n>> \notin reverted'
        PROVE  FileInv(work[c], n)'
    <3>1. PICK j : j = work[c]
      OBVIOUS
    <3>2. <<c, n>> \notin reverted
      BY <2>1, <2>3
    <3>3. FileInv(j, n)
      BY <3>1, <3>2 DEF BatchInv, SnapInv
    <3>4. CASE n # p
      BY <2>1, <2>2, <3>1, <3>3, <3>4 DEF FileInv, IInv, Types
    <3>5. CASE n = p
      <4>1. tree'[p] = x
        BY <2>1 DEF IInv, Types
      <4>2. j.pc \in Going => j.snap[p] # x
        BY <2>1, <2>3, <3>1, <3>5 DEF Going, Points
      <4> QED
        BY <2>2, <3>1, <3>3, <3>5, <4>1, <4>2 DEF FileInv
    <3> QED
      BY <3>4, <3>5
  <2> QED
    BY <2>2, <2>3 DEF BatchInv, SnapInv, CountInv
<1>6. ASSUME NEW c \in Clients, ImportStep(c) PROVE BatchInv'
  BY <1>6, BatchImportStep
<1>7. ASSUME NEW c \in Clients, Publish(c), UNCHANGED <<recordVars, tree, bounds>>
      PROVE  BatchInv'
  BY <1>7, BatchImportStep
<1>8. CASE UNCHANGED vars
  BY <1>1, <1>8 DEF vars, evidenceVars, recordVars, history
<1> QED
  BY <1>2, <1>3, <1>4, <1>5, <1>6, <1>7, <1>8 DEF Next

\* However often the tree is edited, a batch that returned has imported, of
\* each file, the content of its snapshot, unless that file was changed and
\* changed back before the tree was compared.
THEOREM BatchesAreSnapshots == Spec => []BatchIsTheSnapshot
<1>1. Init => BatchInv
  BY DEF Init, BatchInv, SnapInv, CountInv, FileInv, Going, Points, NoWork
<1>2. IInv /\ BatchInv /\ [Next]_vars => BatchInv'
  BY BatchInvariantStep
<1>3. BatchInv => BatchIsTheSnapshot
  BY DEF BatchInv, SnapInv, FileInv, BatchIsTheSnapshot, At
<1> QED
  BY <1>1, <1>2, <1>3, Invariant, PTL DEF Spec
=============================================================================
