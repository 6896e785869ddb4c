----------------------- MODULE NightlyPipelineProofs -----------------------
(***************************************************************************)
(* Proofs about NightlyPipeline, for any set of reports, any caps, window, *)
(* number of versions, nights, failures and deaths.                        *)
(*                                                                         *)
(* The inductive invariant has one part for each thing a report passes     *)
(* through: the queue of the collector, the raw store, the evidence that   *)
(* what was processed has arrived, the window, the wiki and its cloud      *)
(* copy.  Each part needs only those before it.                            *)
(***************************************************************************)
EXTENDS NightlyPipeline, TLAPS

Counts == [Reports -> Nat]
FileKinds == [version: Nat, full: BOOLEAN]
Files == [Reports -> FileKinds]
Queue == [Reports -> Entry \cup {NoEntry}]
Moves == (Reports \X {"archived", "written"}) \cup {Nobody}

Types ==
  /\ day \in Nat /\ passed \in Nat
  /\ src \in [Reports -> 0..MaxVersion] /\ sent \in Counts
  /\ records \in Counts /\ mem \in Counts
  /\ staged \in Files /\ raw \in Files
  /\ pending \in Queue /\ batch \in Queue /\ left \in Queue
  /\ timeline \in [Reports -> SUBSET FileKinds]
  /\ moving \in Moves
  /\ whole \in BOOLEAN

\* Entries never run ahead of their report, and history waits only for
\* reports that were never processed.
QueueInv ==
  \A r \in Reports :
    /\ \A e \in {pending[r], batch[r], left[r]} \ {NoEntry} : e.version <= src[r]
    /\ pending[r] # NoEntry /\ records[r] # 0 => pending[r].origin = "daily"
    /\ stage = "fetch" =>
         /\ left[r] # NoEntry /\ batch[r] # NoEntry =>
              records[r] = 0 /\ left[r].origin = "daily"
         /\ \A e \in {batch[r], left[r]} \ {NoEntry} :
              records[r] # 0 => e.origin = "daily"
    /\ stage = "save" =>
         /\ batch[r] = NoEntry
         /\ left[r] # NoEntry /\ mem[r] # 0 => left[r].origin = "daily"

\* What is staged with its content is at least what raw has, and the
\* promotion under way has done what its stage says.
RawInv ==
  /\ \A r \in Reports :
       /\ raw[r].version <= src[r] /\ staged[r].version <= src[r]
       /\ staged[r].full => raw[r].version <= staged[r].version
       /\ moving = <<r, "archived">> =>
            staged[r] # NoFile /\ raw[r] # staged[r] /\ raw[r] \in timeline[r]
       /\ moving = <<r, "written">> => staged[r] # NoFile /\ raw[r] = staged[r]
       /\ stage = "promoteMissing" => staged[r] = NoFile \/ staged[r].full
  /\ moving # Nobody => Promoting

\* From the fetch to the end of the promotion, evidence is raw or staged,
\* and what is staged is not behind the record made with it.
EvidenceInv ==
  /\ EvidenceIsKept
  /\ stage = "promote" =>
       \A r \in Reports : staged[r] # NoFile => records[r] <= staged[r].version
  /\ stage = "save" =>
       \A r \in Reports :
         /\ r \notin orphaned => mem[r] <= raw[r].version \/ mem[r] <= staged[r].version
         /\ staged[r] # NoFile => mem[r] <= staged[r].version

\* A pass that is still whole has every report of its window raw or staged.
WindowInv ==
  /\ LandsInWindow
  /\ passed <= day
  /\ stage = "promoteMissing" /\ whole =>
       \A r \in Sent : sent[r] \in Window => raw[r] # NoFile \/ staged[r] # NoFile

Syncing == stage \in {"sync", "commit", "settled"}

\* Where the pages on disk are, at each point of a run.
CloudInv ==
  /\ pages \subseteq Reports /\ pointer \subseteq pages
  /\ wrote # {} => Compiling
  /\ changed # {} => stage = "fallback"
  /\ todo # {} => stage = "sync"
  /\ failed # {} => Syncing
  /\ IF Syncing THEN /\ pages \subseteq cloud \cup stranded \cup todo \cup failed
                     /\ pointer \subseteq cloud \cup stranded \cup failed
     ELSE /\ pages \subseteq cloud \cup stranded \cup retryQueue \cup changed \cup wrote
          /\ pointer \subseteq cloud \cup stranded \cup retryQueue

IInv == Types /\ QueueInv /\ RawInv /\ EvidenceInv /\ WindowInv /\ CloudInv

-----------------------------------------------------------------------------
(* Frames: what a group of actions leaves alone.                           *)

WikiSteps ==
  \/ \E r \in Reports : WritePage(r)
  \/ EndCompile \/ CompileDies \/ EndFallback
  \/ UploadPages \/ CommitPointer \/ EndSync

Late == {"compile", "fallback", "sync", "commit", "settled", "done"}

\* The wiki and its upload neither read the work system nor touch raw.
LEMMA WikiFrame ==
  ASSUME WikiSteps
  PROVE  /\ UNCHANGED <<sourceVars, stateFile, runVars, staged, rvars>>
         /\ stage \in Late /\ stage' \in Late
<1>1. CASE \E r \in Reports : WritePage(r)
  BY <1>1 DEF WritePage, cvars, rvars, sourceVars, stateFile, runVars, Compiling, Late
<1>2. CASE EndCompile \/ CompileDies \/ EndFallback
  BY <1>2 DEF EndCompile, CompileDies, EndFallback, rvars, sourceVars, stateFile,
       runVars, Late
<1>3. CASE UploadPages \/ CommitPointer \/ EndSync
  BY <1>3 DEF UploadPages, CommitPointer, EndSync, syncFrame, rvars, sourceVars,
       stateFile, runVars, Late
<1> QED
  BY <1>1, <1>2, <1>3 DEF WikiSteps

\* The actions of a run, and of what surrounds it, one by one.
LEMMA Steps ==
  ASSUME [Next]_nvars
  PROVE  \/ UNCHANGED nvars
         \/ StartNight \/ NextDay \/ Abort \/ WikiSteps
         \/ /\ \/ \E r \in Reports : ChangeReport(r)
               \/ CollectList \/ Fetch \/ SaveState
            /\ UNCHANGED <<rvars, wikiVars, syncVars, stranded>>
         \/ /\ \/ \E r \in Reports : Promote(r)
               \/ PromoteDone \/ PromoteDies \/ FetchMissing
               \/ ListMissingFails \/ PassDone
            /\ UNCHANGED <<wikiVars, syncVars, stranded>>
BY DEF Next, Night, Collect, Store, WikiSteps

-----------------------------------------------------------------------------
(* The listing: what the entries of the day and of the history are.        *)

\* An entry of the queue is one, whatever its fields.
LEMMA EntryFields ==
  ASSUME NEW o \in {"daily", "backfill"}, NEW t \in {"fresh", "continuation"},
         NEW v \in Versions, NEW b \in BOOLEAN
  PROVE  /\ [origin |-> o, type |-> t, version |-> v, open |-> b] \in Entry
         /\ [origin |-> o, type |-> t, version |-> v, open |-> b] # NoEntry
BY CollectionAssumption DEF Entry

\* A queued entry keeps its version or takes that of its row; a change of a
\* report processed before is fresh.
LEMMA ClassifiedEntries ==
  ASSUME Types, QueueInv, NEW shown \in SUBSET Sent, NEW open \in SUBSET shown,
         NEW r \in Reports
  PROVE  LET f == Classified(shown, open) IN
           /\ f[r] \in Entry \cup {NoEntry}
           /\ f[r] # NoEntry => f[r].origin = "daily" /\ f[r].version <= src[r]
           /\ /\ pending[r] # NoEntry /\ records[r] # 0
              /\ pending[r].version > records[r]
              => /\ r \in OfType(f, "fresh")
                 /\ f[r].version >= pending[r].version
<1> DEFINE queued == pending[r] # NoEntry /\ pending[r].origin = "daily"
           version == IF r \in shown THEN src[r] ELSE pending[r].version
           isOpen == IF r \in shown THEN r \in open ELSE pending[r].open
           c == ClassifyCandidate(r, version, isOpen)
           type == IF c = "unchanged" /\ queued THEN pending[r].type ELSE c
           entry == [origin |-> "daily", type |-> type, version |-> version,
                     open |-> isOpen]
           f == Classified(shown, open)
<1>1. f[r] = IF (queued \/ r \in shown) /\ type # "unchanged" THEN entry ELSE NoEntry
  BY DEF Classified
<1>2. pending[r] # NoEntry => pending[r] \in Entry
  BY DEF Types, Queue
<1>3. ASSUME queued \/ r \in shown
      PROVE  /\ version \in Versions /\ version <= src[r] /\ isOpen \in BOOLEAN
             /\ type # "unchanged" => type \in {"fresh", "continuation"}
             /\ pending[r] # NoEntry => version >= pending[r].version
  <2>1. CASE r \in shown
    <3>1. src[r] \in Versions
      BY <2>1 DEF Types, Sent, Versions
    <3>2. pending[r] # NoEntry => pending[r].version <= src[r]
      BY DEF QueueInv
    <3>3. c \in {"fresh", "continuation", "unchanged"}
      BY DEF ClassifyCandidate
    <3>4. queued => pending[r].type \in {"fresh", "continuation"}
      BY <1>2 DEF Entry
    <3> HIDE DEF c
    <3> QED
      BY <2>1, <3>1, <3>2, <3>3, <3>4 DEF Versions
  <2>2. CASE r \notin shown
    <3>1. pending[r] \in Entry /\ queued
      BY <1>2, <1>3, <2>2
    <3>2. pending[r].version <= src[r] /\ pending[r].version \in Versions
      BY <3>1 DEF QueueInv, Entry
    <3>3. c \in {"fresh", "continuation", "unchanged"}
      BY DEF ClassifyCandidate
    <3>4. pending[r].type \in {"fresh", "continuation"} /\ pending[r].open \in BOOLEAN
      BY <3>1 DEF Entry
    <3> HIDE DEF c
    <3> QED
      BY <2>2, <3>1, <3>2, <3>3, <3>4 DEF Versions
  <2> QED
    BY <2>1, <2>2
<1>4. ASSUME queued \/ r \in shown, type # "unchanged"
      PROVE  entry \in Entry /\ entry # NoEntry
  <2> HIDE DEF type, version, isOpen
  <2> QED
    BY <1>3, <1>4, EntryFields
<1>5. ASSUME pending[r] # NoEntry, records[r] # 0, pending[r].version > records[r]
      PROVE  queued /\ type = "fresh"
  <2>1. queued
    BY <1>5 DEF QueueInv
  <2>2. version > records[r] /\ records[r] # version
    BY <1>2, <1>3, <1>5, <2>1 DEF Types, Counts, Versions, Entry
  <2>3. c = "fresh"
    BY <1>5, <2>2 DEF ClassifyCandidate
  <2> QED
    BY <2>1, <2>3
<1> HIDE DEF type, version, isOpen, queued, f
<1>6. f[r] \in Entry \cup {NoEntry}
  BY <1>1, <1>4
<1>7. f[r] # NoEntry => f[r].origin = "daily" /\ f[r].version <= src[r]
  BY <1>1, <1>3
<1>8. ASSUME pending[r] # NoEntry, records[r] # 0, pending[r].version > records[r]
      PROVE  r \in OfType(f, "fresh") /\ f[r].version >= pending[r].version
  <2>1. queued /\ f[r] = entry /\ entry # NoEntry
    BY <1>1, <1>4, <1>5, <1>8
  <2> QED
    BY <1>3, <1>5, <1>8, <2>1 DEF OfType, Entries
<1> QED
  BY <1>6, <1>7, <1>8 DEF f

\* After the listing: the batch and what is left of the queue hold no version
\* that has not been sent, and share only new daily entries.
LEMMA ListedEntries ==
  ASSUME Types, QueueInv, CollectList
  PROVE  /\ batch' \in Queue /\ left' \in Queue
         /\ \A r \in Reports :
              /\ \A e \in {batch'[r], left'[r]} \ {NoEntry} :
                   /\ e.version <= src[r]
                   /\ records[r] # 0 => e.origin = "daily"
              /\ left'[r] # NoEntry /\ batch'[r] # NoEntry =>
                   records[r] = 0 /\ left'[r].origin = "daily"
              /\ /\ pending[r] # NoEntry /\ records[r] # 0
                 /\ pending[r].version > records[r]
                 => \E x \in {batch'[r], left'[r]} \ {NoEntry} :
                      x.version >= pending[r].version
<1>1. PICK shown \in SUBSET Sent, page \in SUBSET {r \in Sent : records[r] = 0} :
        \E f \in {Classified(shown, open) : open \in SUBSET shown} :
        \E s \in DailySelections(f) : \E b \in SUBSET BackfillWaiting(page, s) :
          Select(f, page, s, b)
  BY DEF CollectList
<1>2. PICK open \in SUBSET shown :
        \E s \in DailySelections(Classified(shown, open)) :
        \E b \in SUBSET BackfillWaiting(page, s) :
          Select(Classified(shown, open), page, s, b)
  BY <1>1
<1> DEFINE f == Classified(shown, open)
<1>3. PICK s \in DailySelections(f) :
        \E b \in SUBSET BackfillWaiting(page, s) : Select(f, page, s, b)
  BY <1>2
<1> DEFINE waiting == BackfillWaiting(page, s)
           old(r) == BackfillEntry(r, page)
<1>4. PICK b \in SUBSET waiting :
        /\ batch' = [r \in Reports |-> IF r \in s THEN f[r]
                                       ELSE IF r \in b THEN old(r) ELSE NoEntry]
        /\ left' = [r \in Reports |-> IF r \in waiting \ b THEN old(r)
                                      ELSE IF r \in Overflow(f, s) THEN f[r]
                                      ELSE NoEntry]
  BY <1>3 DEF Select
<1>5. \A r \in waiting : r \in Reports /\ records[r] = 0 /\ r \notin s
  BY DEF BackfillWaiting
<1>6. \A r \in waiting : old(r) \in Entry /\ old(r).version <= src[r]
  <2> TAKE r \in waiting
  <2>1. CASE r \in page
    <3>1. src[r] \in Versions
      BY <2>1 DEF Types, Sent, Versions
    <3>2. /\ old(r) = [origin |-> "backfill", type |-> "fresh", version |-> src[r], open |-> FALSE]
          /\ old(r) \in Entry
      BY <2>1, <3>1 DEF BackfillEntry, Entry
    <3> QED
      BY <3>1, <3>2 DEF Versions
  <2>2. CASE r \notin page
    <3>1. pending[r] # NoEntry /\ r \in Reports
      BY <2>2 DEF BackfillWaiting
    <3>2. pending[r] \in Entry /\ pending[r].version <= src[r]
      BY <3>1 DEF Types, Queue, QueueInv
    <3> QED
      BY <2>2, <3>2 DEF BackfillEntry
  <2> QED
    BY <2>1, <2>2
<1>7. \A r \in Reports :
        /\ f[r] \in Entry \cup {NoEntry}
        /\ f[r] # NoEntry => f[r].origin = "daily" /\ f[r].version <= src[r]
        /\ /\ pending[r] # NoEntry /\ records[r] # 0
           /\ pending[r].version > records[r]
           => r \in OfType(f, "fresh") /\ f[r].version >= pending[r].version
  BY ClassifiedEntries
<1> HIDE DEF f, waiting, old
<1>8. batch' \in Queue /\ left' \in Queue
  <2>1. \A r \in Reports : batch'[r] \in Entry \cup {NoEntry}
    BY <1>4, <1>6, <1>7
  <2>2. \A r \in Reports : left'[r] \in Entry \cup {NoEntry}
    BY <1>4, <1>6, <1>7
  <2> QED
    BY <1>4, <2>1, <2>2 DEF Queue
<1>9. ASSUME NEW r \in Reports
      PROVE  /\ batch'[r] = IF r \in s THEN f[r] ELSE IF r \in b THEN old(r) ELSE NoEntry
             /\ left'[r] = IF r \in waiting \ b THEN old(r)
                           ELSE IF r \in Overflow(f, s) THEN f[r] ELSE NoEntry
  BY <1>4
<1>10. ASSUME NEW r \in Reports, NEW e \in {batch'[r], left'[r]} \ {NoEntry}
       PROVE  e.version <= src[r] /\ (records[r] # 0 => e.origin = "daily")
  <2>1. \/ e = f[r] /\ f[r] # NoEntry
        \/ e = old(r) /\ r \in waiting
    BY <1>4, <1>9
  <2> QED
    BY <1>5, <1>6, <1>7, <2>1
<1>11. ASSUME NEW r \in Reports, left'[r] # NoEntry, batch'[r] # NoEntry
       PROVE  records[r] = 0 /\ left'[r].origin = "daily"
  <2>1. r \notin s /\ r \in b
    BY <1>4, <1>5, <1>9, <1>11 DEF Overflow
  <2>2. left'[r] = f[r]
    BY <1>9, <1>11, <2>1
  <2> QED
    BY <1>4, <1>5, <1>7, <1>11, <2>1, <2>2
<1>12. ASSUME NEW r \in Reports, pending[r] # NoEntry, records[r] # 0,
              pending[r].version > records[r]
       PROVE  \E x \in {batch'[r], left'[r]} \ {NoEntry} : x.version >= pending[r].version
  <2>1. r \in OfType(f, "fresh") /\ f[r] # NoEntry /\ f[r].version >= pending[r].version
    BY <1>7, <1>12 DEF OfType, Entries
  <2>2. r \notin waiting
    BY <1>5, <1>12
  <2>3. f[r] \in {batch'[r], left'[r]}
    BY <1>9, <2>1, <2>2 DEF Overflow
  <2> QED
    BY <2>1, <2>3
<1> QED
  BY <1>8, <1>10, <1>11, <1>12

-----------------------------------------------------------------------------
(* Files.                                                                  *)

\* No file is a file of version 0 without content.
LEMMA Absent == NoFile \in FileKinds /\ NoFile.version = 0 /\ NoFile.full = FALSE
BY DEF File, NoFile, FileKinds

\* A file of a version is one, and is not NoFile if the version is not 0.
LEMMA FileFields ==
  ASSUME NEW v \in Nat \ {0}, NEW b \in BOOLEAN
  PROVE  /\ File(v, b) \in FileKinds /\ File(v, b) # NoFile
         /\ File(v, b).version = v /\ File(v, b).full = b
<1>1. File(v, b) \in FileKinds /\ File(v, b).version = v /\ File(v, b).full = b
  BY DEF File, FileKinds
<1> QED
  BY <1>1, Absent

\* What Fetch stages for a report: a file of its row's version or of the
\* version it has now.
LEMMA CollectedFile ==
  ASSUME Types, QueueInv, NEW bare \in SUBSET Entries(batch), NEW r \in Entries(batch)
  PROVE  /\ Collected(r, bare) \in FileKinds /\ Collected(r, bare) # NoFile
         /\ batch[r].version \in Nat
         /\ batch[r].version <= Collected(r, bare).version
         /\ Collected(r, bare).version <= src[r]
         /\ Collected(r, bare).full => Collected(r, bare).version = src[r]
<1>1. /\ batch[r].version \in Nat \ {0} /\ batch[r].version <= src[r]
      /\ src[r] \in Nat \ {0}
  <2>1. batch[r] \in Entry /\ r \in Reports
    BY DEF Types, Queue, Entries
  <2>2. batch[r].version \in Nat \ {0}
    BY <2>1 DEF Entry, Versions
  <2>3. src[r] \in Nat /\ batch[r].version <= src[r]
    BY <2>1 DEF Types, Counts, QueueInv, Entries
  <2> QED
    BY <2>2, <2>3
<1>2. CASE r \in bare
  <2>1. Collected(r, bare) = File(batch[r].version, FALSE)
    BY <1>2 DEF Collected
  <2> DEFINE v == batch[r].version
  <2>2. v \in Nat \ {0} /\ FALSE \in BOOLEAN
    BY <1>1
  <2> HIDE DEF v
  <2>3. /\ File(v, FALSE) \in FileKinds /\ File(v, FALSE) # NoFile
        /\ File(v, FALSE).version = v /\ File(v, FALSE).full = FALSE
    BY <2>2, FileFields
  <2>4. Collected(r, bare) = File(v, FALSE)
    BY <2>1 DEF v
  <2>5. /\ Collected(r, bare) \in FileKinds /\ Collected(r, bare) # NoFile
        /\ Collected(r, bare).version = v /\ Collected(r, bare).full = FALSE
    BY <2>3, <2>4
  <2>6. v \in Nat \ {0} /\ v = batch[r].version
    BY <2>2 DEF v
  <2> QED
    BY <1>1, <2>5, <2>6
<1>3. CASE r \notin bare
  <2>1. Collected(r, bare) = File(src[r], TRUE)
    BY <1>3 DEF Collected
  <2>2. /\ Collected(r, bare) \in FileKinds /\ Collected(r, bare) # NoFile
        /\ Collected(r, bare).version = src[r]
    BY <1>1, <2>1, FileFields
  <2> QED
    BY <1>1, <2>2
<1> QED
  BY <1>1, <1>2, <1>3

\* Fetch in one place: what it does to each report.
LEMMA FetchedFile ==
  ASSUME Types, QueueInv, Fetch
  PROVE  /\ staged' \in Files /\ mem' \in Counts /\ left' \in Queue
         /\ \A r \in Reports :
              /\ staged'[r].version <= src[r]
              /\ staged'[r].full => staged'[r].version = src[r]
              /\ staged'[r] = NoFile => mem'[r] = records[r]
              /\ staged'[r] # NoFile => mem'[r] <= staged'[r].version
<1>1. PICK failing \in SUBSET Entries(batch) :
        \E bare \in SUBSET (Entries(batch) \ failing) :
          LET fetched == Entries(batch) \ failing
          IN /\ staged' = [r \in Reports |-> IF r \in fetched THEN Collected(r, bare) ELSE NoFile]
             /\ mem' = [r \in Reports |-> IF r \in fetched THEN batch[r].version ELSE records[r]]
             /\ left' = [r \in Reports |-> IF r \in failing THEN batch[r] ELSE left[r]]
  BY DEF Fetch
<1> DEFINE fetched == Entries(batch) \ failing
<1>2. PICK bare \in SUBSET fetched :
          /\ staged' = [r \in Reports |-> IF r \in fetched THEN Collected(r, bare) ELSE NoFile]
          /\ mem' = [r \in Reports |-> IF r \in fetched THEN batch[r].version ELSE records[r]]
          /\ left' = [r \in Reports |-> IF r \in failing THEN batch[r] ELSE left[r]]
  BY <1>1
<1>3. \A r \in fetched :
          /\ Collected(r, bare) \in FileKinds /\ Collected(r, bare) # NoFile
          /\ batch[r].version \in Nat
          /\ batch[r].version <= Collected(r, bare).version
          /\ Collected(r, bare).version <= src[r]
          /\ Collected(r, bare).full => Collected(r, bare).version = src[r]
  BY CollectedFile
<1>4. NoFile \in FileKinds /\ NoFile.version = 0 /\ NoFile.full = FALSE
  BY Absent
<1>5. fetched \subseteq Reports /\ \A r \in Reports : src[r] \in Nat
  BY DEF Entries, Types
<1> HIDE DEF fetched
<1>6. staged' \in Files
  <2>1. \A r \in Reports : staged'[r] \in FileKinds
    BY <1>2, <1>3, <1>4
  <2> QED
    BY <1>2, <2>1 DEF Files
<1>7. mem' \in Counts
  <2>1. \A r \in Reports : mem'[r] \in Nat
    BY <1>2, <1>3 DEF Types, Counts
  <2> QED
    BY <1>2, <2>1 DEF Counts
<1>8. left' \in Queue
  BY <1>2 DEF Types, Queue, Entries
<1>9. ASSUME NEW r \in Reports
      PROVE  /\ staged'[r].version <= src[r]
             /\ staged'[r].full => staged'[r].version = src[r]
             /\ staged'[r] = NoFile => mem'[r] = records[r]
             /\ staged'[r] # NoFile => mem'[r] <= staged'[r].version
  <2>1. CASE r \in fetched
    <3>1. staged'[r] = Collected(r, bare) /\ mem'[r] = batch[r].version
      BY <1>2, <2>1
    <3> QED
      BY <1>3, <2>1, <3>1
  <2>2. CASE r \notin fetched
    <3>1. staged'[r] = NoFile /\ mem'[r] = records[r]
      BY <1>2, <2>2
    <3> QED
      BY <1>4, <1>5, <3>1
  <2> QED
    BY <2>1, <2>2
<1> QED
  BY <1>6, <1>7, <1>8, <1>9

\* The completeness pass stages full content, for reports raw does not have.
LEMMA MissingFile ==
  ASSUME Types, FetchMissing
  PROVE  /\ staged' \in Files
         /\ \A r \in Reports :
              \/ staged'[r] = NoFile
              \/ /\ staged'[r].full /\ staged'[r].version = src[r]
                 /\ raw[r] = NoFile
         /\ whole' => \A r \in Missing : staged'[r] # NoFile
<1>1. PICK failing \in SUBSET Missing :
        /\ staged' = [r \in Reports |-> IF r \in Missing \ failing THEN File(src[r], TRUE) ELSE NoFile]
        /\ whole' = (failing = {})
  BY DEF FetchMissing
<1>2. \A r \in Missing :
        /\ File(src[r], TRUE) \in FileKinds /\ File(src[r], TRUE) # NoFile
        /\ File(src[r], TRUE).full /\ File(src[r], TRUE).version = src[r]
        /\ raw[r] = NoFile /\ r \in Reports
  <2> TAKE r \in Missing
  <2>1. src[r] \in Nat \ {0} /\ raw[r] = NoFile /\ r \in Reports
    BY DEF Missing, Sent, Types
  <2> QED
    BY <2>1, FileFields
<1>3. NoFile \in FileKinds
  BY Absent
<1>4. staged' \in Files
  BY <1>1, <1>2, <1>3 DEF Files
<1> QED
  BY <1>1, <1>2, <1>4

-----------------------------------------------------------------------------
(* Types.                                                                  *)

\* Files and locals have their types at the start.
LEMMA TypesInit == Init => Types
BY CollectionAssumption, Absent
   DEF Init, CollectionInit, RawInit, Types, Counts, Files, Queue, Moves, Nothing, NoFiles, NoEntries

\* And keep them.
LEMMA TypesStep ==
  ASSUME Types, QueueInv, [Next]_nvars
  PROVE  Types'
<1> USE DEF Types
<1>1. CASE UNCHANGED nvars
  BY <1>1 DEF nvars, cvars, rvars, sourceVars, stateFile, runVars
<1>2. CASE StartNight \/ NextDay
  BY <1>2 DEF StartNight, NextDay, rvars, sourceVars, stateFile, runVars
<1>3. CASE Abort
  BY <1>3, CollectionAssumption, Absent
     DEF Abort, sourceVars, stateFile, Nothing, NoFiles, NoEntries, Counts, Files, Queue, Moves
<1>4. CASE WikiSteps
  BY <1>4, WikiFrame DEF rvars, sourceVars, stateFile, runVars
<1>5. ASSUME NEW r \in Reports, ChangeReport(r), UNCHANGED rvars
      PROVE  Types'
  <2>1. src[r] + 1 \in 0..MaxVersion
    BY <1>5, CollectionAssumption DEF ChangeReport
  <2>2. src' \in [Reports -> 0..MaxVersion] /\ sent' \in Counts
    BY <1>5, <2>1 DEF ChangeReport, Counts
  <2> QED
    BY <1>5, <2>2 DEF ChangeReport, rvars, stateFile, runVars
<1>6. CASE CollectList /\ UNCHANGED rvars
  BY <1>6, ListedEntries DEF CollectList, rvars, sourceVars, stateFile
<1>7. CASE Fetch /\ UNCHANGED rvars
  BY <1>7, FetchedFile DEF Fetch, rvars, sourceVars, stateFile, NoEntries, Queue
<1>8. CASE SaveState /\ UNCHANGED rvars
  BY <1>8 DEF SaveState, rvars, sourceVars, Nothing, NoEntries, Counts, Queue
<1>9. ASSUME NEW r \in Reports, Promote(r)
      PROVE  Types'
  <2> USE DEF allButRaw, sourceVars, stateFile, runVars
  <2>1. CASE CaptureUnchanged(r) \/ ArchivePrior(r)
    BY <2>1, Absent DEF CaptureUnchanged, ArchivePrior, Capture, Files, Moves
  <2>2. CASE WriteRaw(r) \/ CaptureNew(r)
    BY <2>2, Absent DEF WriteRaw, CaptureNew, Capture, Files, Moves
  <2> QED
    BY <1>9, <2>1, <2>2 DEF Promote
<1>10. CASE PromoteDone \/ PromoteDies \/ ListMissingFails \/ PassDone
  <2> USE DEF sourceVars, stateFile, runVars, rvars
  <2>1. CASE PromoteDone \/ ListMissingFails
    BY <2>1 DEF PromoteDone, ListMissingFails
  <2>2. CASE PromoteDies
    BY <2>2, Absent DEF PromoteDies, Files, NoFiles, Moves
  <2>3. CASE PassDone
    BY <2>3 DEF PassDone
  <2> QED
    BY <1>10, <2>1, <2>2, <2>3
<1>11. CASE FetchMissing
  BY <1>11, MissingFile DEF FetchMissing, sourceVars, stateFile, runVars
<1> QED
  BY Steps, <1>1, <1>2, <1>3, <1>4, <1>5, <1>6, <1>7, <1>8, <1>9, <1>10, <1>11

-----------------------------------------------------------------------------
(* The queue.                                                              *)

\* The queue invariant holds at the start.
LEMMA QueueInit == Init => QueueInv
BY DEF Init, CollectionInit, QueueInv, NoEntries

\* Each step of the collector and of the others keeps it.
LEMMA QueueStep ==
  ASSUME Types, QueueInv, [Next]_nvars
  PROVE  QueueInv'
<1> USE DEF QueueInv
<1>1. CASE UNCHANGED nvars
  BY <1>1 DEF nvars, cvars, sourceVars, stateFile, runVars
<1>2. CASE StartNight \/ NextDay
  BY <1>2 DEF StartNight, NextDay, sourceVars, stateFile, runVars
<1>3. CASE Abort
  BY <1>3 DEF Abort, sourceVars, stateFile, Nothing, NoEntries
<1>4. CASE WikiSteps
  BY <1>4, WikiFrame DEF sourceVars, stateFile, runVars, Late
<1>5. ASSUME NEW q \in Reports, ChangeReport(q)
      PROVE  QueueInv'
  <2>1. \A r \in Reports : src[r] <= src'[r] /\ src'[r] \in Nat /\ src[r] \in Nat
    BY <1>5 DEF ChangeReport, Types
  <2>2. \A r \in Reports : \A e \in {pending[r], batch[r], left[r]} \ {NoEntry} :
          e.version \in Nat
    BY DEF Types, Queue, Entry, Versions
  <2> QED
    BY <1>5, <2>1, <2>2 DEF ChangeReport, stateFile, runVars
<1>6. CASE CollectList
  BY <1>6, ListedEntries DEF CollectList, sourceVars, stateFile
<1>7. CASE Fetch
  <2>1. PICK failing \in SUBSET Entries(batch) :
          /\ mem' = [r \in Reports |-> IF r \in Entries(batch) \ failing
                                       THEN batch[r].version ELSE records[r]]
          /\ left' = [r \in Reports |-> IF r \in failing THEN batch[r] ELSE left[r]]
    BY <1>7 DEF Fetch
  <2> SUFFICES ASSUME NEW r \in Reports
               PROVE  /\ left'[r] # NoEntry => left'[r].version <= src[r]
                      /\ left'[r] # NoEntry /\ mem'[r] # 0 => left'[r].origin = "daily"
    BY <1>7 DEF Fetch, sourceVars, stateFile, NoEntries
  <2>2. CASE r \in failing
    BY <1>7, <2>1, <2>2 DEF Fetch, Entries
  <2>3. CASE r \in Entries(batch) \ failing
    BY <1>7, <2>1, <2>3 DEF Fetch, Entries
  <2>4. CASE r \notin Entries(batch)
    BY <1>7, <2>1, <2>4 DEF Fetch, Entries
  <2> QED
    BY <2>2, <2>3, <2>4
<1>8. CASE SaveState
  BY <1>8 DEF SaveState, sourceVars, NoEntries
<1>9. ASSUME NEW r \in Reports, Promote(r)
      PROVE  QueueInv'
  BY <1>9 DEF Promote, CaptureUnchanged, ArchivePrior, WriteRaw, CaptureNew,
       allButRaw, sourceVars, stateFile, runVars
<1>10. CASE PromoteDone \/ PromoteDies \/ ListMissingFails \/ PassDone \/ FetchMissing
  BY <1>10 DEF PromoteDone, PromoteDies, ListMissingFails, PassDone, FetchMissing,
       sourceVars, stateFile, runVars
<1> QED
  BY Steps, <1>1, <1>2, <1>3, <1>4, <1>5, <1>6, <1>7, <1>8, <1>9, <1>10


-----------------------------------------------------------------------------
(* The raw store.                                                          *)

\* The raw store is empty at the start.
LEMMA RawStoreInit == Init => RawInv
BY RawAssumption, Absent DEF Init, CollectionInit, RawInit, RawInv, Nothing, NoFiles, Promoting

\* Nothing is under way once nothing is staged.
LEMMA NothingMoves ==
  ASSUME Types, RawInv, staged = NoFiles
  PROVE  moving = Nobody
BY DEF Types, RawInv, Moves, NoFiles

\* Promotion and backfill keep the timeline of raw.
LEMMA RawStep ==
  ASSUME Types, QueueInv, RawInv, [Next]_nvars
  PROVE  RawInv'
<1> USE DEF RawInv, Promoting
<1>1. CASE UNCHANGED nvars
  BY <1>1 DEF nvars, cvars, rvars, sourceVars
<1>2. CASE StartNight \/ NextDay
  BY <1>2, RawAssumption DEF StartNight, NextDay, rvars, sourceVars
<1>3. CASE Abort
  BY <1>3, RawAssumption, Absent DEF Abort, sourceVars, NoFiles, Types
<1>4. CASE WikiSteps
  BY <1>4, WikiFrame, RawAssumption DEF rvars, sourceVars, Late
<1>5. ASSUME NEW q \in Reports, ChangeReport(q), UNCHANGED rvars
      PROVE  RawInv'
  <2>1. \A r \in Reports : src[r] <= src'[r] /\ src'[r] \in Nat /\ src[r] \in Nat
                           /\ staged[r].version \in Nat /\ raw[r].version \in Nat
    BY <1>5 DEF ChangeReport, Types, Files, FileKinds
  <2> QED
    BY <1>5, <2>1 DEF ChangeReport, Reading, rvars
<1>6. CASE (CollectList \/ SaveState) /\ UNCHANGED rvars
  BY <1>6, RawAssumption DEF CollectList, SaveState, rvars, sourceVars
<1>7. CASE Fetch /\ UNCHANGED rvars
  <2>1. \A r \in Reports : /\ staged'[r].version <= src[r]
                           /\ staged'[r].full => staged'[r].version = src[r]
    BY <1>7, FetchedFile
  <2> QED
    BY <1>7, <2>1, RawAssumption DEF Fetch, rvars, sourceVars
<1>8. ASSUME NEW q \in Reports, Promote(q)
      PROVE  RawInv'
  <2> USE RawAssumption, Absent DEF allButRaw, sourceVars, Types, Files, FileKinds
  <2>1. CASE CaptureUnchanged(q)
    BY <2>1 DEF CaptureUnchanged
  <2>2. CASE ArchivePrior(q)
    BY <2>2 DEF ArchivePrior, Capture
  <2>3. CASE WriteRaw(q)
    BY <2>3 DEF WriteRaw
  <2>4. CASE CaptureNew(q)
    BY <2>4 DEF CaptureNew
  <2> QED
    BY <1>8, <2>1, <2>2, <2>3, <2>4 DEF Promote
<1>9. CASE PromoteDone \/ PassDone \/ ListMissingFails
  <2>1. moving = Nobody
    BY <1>9, NothingMoves DEF PromoteDone, PassDone, ListMissingFails
  <2> QED
    BY <1>9, <2>1, RawAssumption DEF PromoteDone, PassDone, ListMissingFails, rvars, sourceVars
<1>10. CASE PromoteDies
  BY <1>10, RawAssumption, Absent DEF PromoteDies, sourceVars, NoFiles, Types
<1>11. CASE FetchMissing
  <2>1. \A r \in Reports : /\ staged'[r].version <= src[r]
                           /\ staged'[r] = NoFile \/ staged'[r].full
                           /\ staged'[r].full => raw[r].version <= staged'[r].version
    BY <1>11, MissingFile, Absent DEF Types
  <2>2. \A r \in Reports : moving \notin {<<r, "archived">>, <<r, "written">>}
    BY <1>11, RawAssumption DEF FetchMissing
  <2> QED
    BY <1>11, <2>1, <2>2 DEF FetchMissing, sourceVars
<1> QED
  BY Steps, <1>1, <1>2, <1>3, <1>4, <1>5, <1>6, <1>7, <1>8, <1>9, <1>10, <1>11

\* What a promotion does to one report: raw gets what is staged, and what is
\* no longer staged is in raw.
LEMMA PromoteMoves ==
  ASSUME Types, RawInv, NEW q \in Reports, Promote(q), NEW r \in Reports
  PROVE  /\ raw'[r] = raw[r] \/ (raw'[r] = staged[r] /\ staged[r] # NoFile)
         /\ staged'[r] = staged[r] \/ (staged'[r] = NoFile /\ raw'[r] = staged[r])
<1> USE DEF Types, RawInv, Files, allButRaw
<1>1. CASE CaptureUnchanged(q)
  BY <1>1 DEF CaptureUnchanged
<1>2. CASE ArchivePrior(q)
  BY <1>2 DEF ArchivePrior
<1>3. CASE WriteRaw(q)
  BY <1>3 DEF WriteRaw
<1>4. CASE CaptureNew(q)
  BY <1>4 DEF CaptureNew
<1> QED
  BY <1>1, <1>2, <1>3, <1>4 DEF Promote


-----------------------------------------------------------------------------
(* The evidence.                                                           *)

\* Nothing is processed at the start.
LEMMA EvidenceInit == Init => EvidenceInv
BY Absent DEF Init, CollectionInit, RawInit, EvidenceInv, EvidenceIsKept, Nothing, NoFiles

\* What is processed stays in raw or on its way, at each step.
LEMMA EvidenceStep ==
  ASSUME Types, QueueInv, RawInv, EvidenceInv, [Next]_nvars
  PROVE  EvidenceInv'
<1> USE DEF EvidenceInv, EvidenceIsKept
<1>1. CASE UNCHANGED nvars
  BY <1>1 DEF nvars, cvars, rvars, stateFile, runVars
<1>2. CASE StartNight \/ NextDay
  BY <1>2 DEF StartNight, NextDay, rvars, stateFile
<1>3. CASE Abort
  <2>1. \A r \in Reports \ orphaned' : stage = "promote" => staged[r] = NoFile
    BY <1>3 DEF Abort, Abandoned
  <2>2. NoFile.version = 0 /\ \A r \in Reports : records[r] \in Nat /\ raw[r].version \in Nat
    BY Absent DEF Types, Counts, Files, FileKinds
  <2> QED
    BY <1>3, <2>1, <2>2 DEF Abort, stateFile
<1>4. CASE WikiSteps
  BY <1>4, WikiFrame DEF rvars, stateFile, Late
<1>5. CASE ((\E q \in Reports : ChangeReport(q)) \/ CollectList) /\ UNCHANGED rvars
  BY <1>5 DEF ChangeReport, CollectList, rvars, stateFile, runVars, Reading
<1>6. CASE Fetch /\ UNCHANGED rvars
  <2>1. \A r \in Reports : /\ staged'[r] = NoFile => mem'[r] = records[r]
                           /\ staged'[r] # NoFile => mem'[r] <= staged'[r].version
    BY <1>6, FetchedFile
  <2> QED
    BY <1>6, <2>1 DEF Fetch, rvars, stateFile
<1>7. CASE SaveState /\ UNCHANGED rvars
  BY <1>7 DEF SaveState, rvars
<1>8. ASSUME NEW q \in Reports, Promote(q)
      PROVE  EvidenceInv'
  <2>1. /\ UNCHANGED <<records, orphaned, stage>>
        /\ stage \in {"promote", "promoteMissing"}
    BY <1>8 DEF Promote, CaptureUnchanged, ArchivePrior, WriteRaw, CaptureNew,
         Promoting, allButRaw, stateFile
  <2>2. \A r \in Reports : /\ records[r] \in Nat /\ raw[r].version \in Nat
                           /\ staged[r].version \in Nat /\ raw'[r].version \in Nat
                           /\ raw'[r] = raw[r] \/ (raw'[r] = staged[r] /\ staged[r] # NoFile)
                           /\ staged'[r] = staged[r] \/ (staged'[r] = NoFile /\ raw'[r] = staged[r])
    BY <1>8, PromoteMoves DEF Types, Counts, Files, FileKinds
  <2>3. NoFile.version = 0
    BY Absent
  <2>4. CASE stage = "promote"
    BY <2>1, <2>2, <2>3, <2>4
  <2>5. CASE stage = "promoteMissing"
    <3>1. \A r \in Reports : staged[r] # NoFile => raw[r].version <= staged[r].version
      BY <2>5 DEF RawInv
    <3> QED
      BY <2>1, <2>2, <2>3, <2>5, <3>1
  <2> QED
    BY <2>1, <2>4, <2>5
<1>9. CASE PromoteDone \/ ListMissingFails \/ PassDone \/ FetchMissing
  <2>1. NoFile.version = 0 /\ \A r \in Reports : records[r] \in Nat /\ raw[r].version \in Nat
    BY Absent DEF Types, Counts, Files, FileKinds
  <2>2. CASE PromoteDone
    BY <2>1, <2>2 DEF PromoteDone, rvars, stateFile, NoFiles
  <2>3. CASE ListMissingFails \/ FetchMissing \/ PassDone
    BY <2>1, <2>3 DEF ListMissingFails, FetchMissing, PassDone, rvars, stateFile
  <2> QED
    BY <1>9, <2>2, <2>3
<1>10. CASE PromoteDies
  <2>1. \A r \in Reports \ orphaned' : stage = "promote" => staged[r] = NoFile
    BY <1>10 DEF PromoteDies, Abandoned
  <2>2. NoFile.version = 0 /\ \A r \in Reports : records[r] \in Nat /\ raw[r].version \in Nat
    BY Absent DEF Types, Counts, Files, FileKinds
  <2> QED
    BY <1>10, <2>1, <2>2 DEF PromoteDies, Promoting, stateFile
<1> QED
  BY Steps, <1>1, <1>2, <1>3, <1>4, <1>5, <1>6, <1>7, <1>8, <1>9, <1>10

-----------------------------------------------------------------------------
(* The window.                                                             *)

\* No completeness pass has ended at the start.
LEMMA WindowInit == Init => WindowInv
BY DEF Init, CollectionInit, RawInit, WindowInv, LandsInWindow, Sent, Nothing

\* What a pass has found complete is in raw, or staged until its promotion.
LEMMA WindowStep ==
  ASSUME Types, RawInv, WindowInv, [Next]_nvars
  PROVE  WindowInv'
<1> USE DEF WindowInv, LandsInWindow, Sent
<1>1. CASE UNCHANGED nvars
  BY <1>1 DEF nvars, cvars, rvars, sourceVars, Window
<1>2. CASE StartNight \/ NextDay
  BY <1>2 DEF StartNight, NextDay, rvars, sourceVars, Types
<1>3. CASE Abort
  BY <1>3 DEF Abort, sourceVars
<1>4. CASE WikiSteps
  BY <1>4, WikiFrame DEF rvars, sourceVars, Late
<1>5. ASSUME NEW q \in Reports, ChangeReport(q), UNCHANGED rvars
      PROVE  WindowInv'
  <2>1. \A r \in Reports : src'[r] # 0 => (src[r] # 0 /\ sent'[r] = sent[r]) \/ sent'[r] = day
    BY <1>5 DEF ChangeReport, Types, Counts
  <2> QED
    BY <1>5, <2>1 DEF ChangeReport, Reading, rvars, Types, Counts
<1>6. CASE (CollectList \/ Fetch \/ SaveState) /\ UNCHANGED rvars
  BY <1>6 DEF CollectList, Fetch, SaveState, rvars, sourceVars
<1>7. ASSUME NEW q \in Reports, Promote(q)
      PROVE  WindowInv'
  <2>1. UNCHANGED <<day, src, sent, passed, whole, stage>>
    BY <1>7 DEF Promote, CaptureUnchanged, ArchivePrior, WriteRaw, CaptureNew,
         allButRaw, sourceVars
  <2>2. \A r \in Reports :
          /\ raw'[r] = raw[r] \/ (raw'[r] = staged[r] /\ staged[r] # NoFile)
          /\ staged'[r] = staged[r] \/ (staged'[r] = NoFile /\ raw'[r] = staged[r])
    BY <1>7, PromoteMoves
  <2> QED
    BY <2>1, <2>2 DEF Window
<1>8. CASE PromoteDone \/ ListMissingFails \/ PromoteDies
  BY <1>8 DEF PromoteDone, ListMissingFails, PromoteDies, rvars, sourceVars
<1>9. CASE FetchMissing
  <2>1. ASSUME whole', NEW r \in Sent, sent[r] \in Window
        PROVE  raw[r] # NoFile \/ staged'[r] # NoFile
    BY <1>9, <2>1, MissingFile DEF Missing
  <2> QED
    BY <1>9, <2>1 DEF FetchMissing, sourceVars, Window
<1>10. CASE PassDone
  <2>1. ASSUME whole, NEW r \in Sent, sent[r] < day, day <= sent[r] + Lookback
        PROVE  raw[r] # NoFile
    <3>1. sent[r] \in Window
      BY <2>1, RawAssumption DEF Types, Counts, Window
    <3> QED
      BY <1>10, <2>1, <3>1 DEF PassDone, NoFiles
  <2> QED
    BY <1>10, <2>1 DEF PassDone, sourceVars, Types
<1> QED
  BY Steps, <1>1, <1>2, <1>3, <1>4, <1>5, <1>6, <1>7, <1>8, <1>9, <1>10

-----------------------------------------------------------------------------
(* The wiki and its cloud copy.                                            *)

\* There are no pages at the start.
LEMMA CloudInit == Init => CloudInv
BY DEF Init, CollectionInit, CloudInv, Syncing, Compiling

\* Pages go from the wiki to the cloud, the queue or the lost, and the
\* manifest lists what settled.
LEMMA CloudStep ==
  ASSUME CloudInv, [Next]_nvars
  PROVE  CloudInv'
<1> USE DEF CloudInv, Syncing, Compiling
<1>1. CASE UNCHANGED nvars
  BY <1>1 DEF nvars, cvars, wikiVars, syncVars
<1>2. CASE StartNight \/ NextDay
  BY <1>2 DEF StartNight, NextDay, wikiVars, syncVars
<1>3. CASE Abort
  BY <1>3, PointerAssumption DEF Abort
<1>4. CASE (\E r \in Reports : ChangeReport(r)) /\ UNCHANGED <<wikiVars, syncVars, stranded>>
  BY <1>4 DEF ChangeReport, Reading, wikiVars, syncVars
<1>5. CASE (CollectList \/ Fetch \/ SaveState) /\ UNCHANGED <<wikiVars, syncVars, stranded>>
  BY <1>5 DEF CollectList, Fetch, SaveState, wikiVars, syncVars
<1>6. CASE (\E r \in Reports : Promote(r)) /\ UNCHANGED <<wikiVars, syncVars, stranded>>
  BY <1>6 DEF Promote, CaptureUnchanged, ArchivePrior, WriteRaw, CaptureNew, Promoting,
       wikiVars, syncVars
<1>7. CASE /\ PromoteDone \/ PromoteDies \/ FetchMissing \/ ListMissingFails \/ PassDone
           /\ UNCHANGED <<wikiVars, syncVars, stranded>>
  BY <1>7 DEF PromoteDone, PromoteDies, FetchMissing, ListMissingFails, PassDone,
       Promoting, wikiVars, syncVars
<1>8. ASSUME NEW r \in Reports, WritePage(r)
      PROVE  CloudInv'
  BY <1>8 DEF WritePage, cvars, syncVars
<1>9. CASE EndCompile
  BY <1>9 DEF EndCompile, syncVars
<1>10. CASE CompileDies
  BY <1>10 DEF CompileDies, syncVars
<1>11. CASE EndFallback
  BY <1>11 DEF EndFallback
<1>12. CASE UploadPages
  BY <1>12 DEF UploadPages, syncFrame, wikiVars
<1>13. CASE CommitPointer
  BY <1>13, PointerAssumption DEF CommitPointer, syncFrame, wikiVars
<1>14. CASE EndSync
  BY <1>14 DEF EndSync, syncFrame, wikiVars
<1> QED
  BY Steps, <1>1, <1>2, <1>3, <1>4, <1>5, <1>6, <1>7, <1>8, <1>9, <1>10, <1>11, <1>12,
     <1>13, <1>14 DEF WikiSteps


-----------------------------------------------------------------------------
(* The theorems.                                                           *)

(* The inductive invariant.                                                *)
THEOREM Invariant == Spec => []IInv
<1>1. Init => IInv
  BY TypesInit, QueueInit, RawStoreInit, EvidenceInit, WindowInit, CloudInit DEF IInv
<1>2. IInv /\ [Next]_nvars => IInv'
  BY TypesStep, QueueStep, RawStep, EvidenceStep, WindowStep, CloudStep DEF IInv
<1> QED
  BY <1>1, <1>2, PTL DEF Spec

(* What the collector's state file calls processed has a file in raw made  *)
(* from that version or a later one, or staged on the way there, unless a  *)
(* run died with it.  Some other call may have stood in for the one for    *)
(* the full content (cwk_collect_live.main, cwk_raw_store.promote).        *)
THEOREM Evidence == Spec => []EvidenceIsKept
<1>1. IInv => EvidenceIsKept
  BY DEF IInv, EvidenceInv
<1> QED
  BY <1>1, Invariant, PTL

(* Within Lookback dates of a report, one pass that exits with 0 is enough *)
(* for it to be in raw (run_backfill).                                     *)
THEOREM Completeness == Spec => []LandsInWindow
<1>1. IInv => LandsInWindow
  BY DEF IInv, WindowInv
<1> QED
  BY <1>1, Invariant, PTL

(* When a run is over every page is on the cloud, queued, or lost with a   *)
(* process that died (run_docdb_sync_with_retry).                          *)
THEOREM Cloud == Spec => []CloudFollows
<1>1. IInv => CloudFollows
  BY DEF IInv, CloudInv, CloudFollows, Syncing, Compiling
<1> QED
  BY <1>1, Invariant, PTL

(* The cloud's manifest lists no page whose upload has not settled         *)
(* (partition_commit_items).                                               *)
THEOREM Manifest == Spec => []PointerIsBacked
<1>1. IInv => PointerIsBacked
  BY DEF IInv, CloudInv, PointerIsBacked, Syncing
<1> QED
  BY <1>1, Invariant, PTL

(* A raw file is replaced only when it has its snapshot, and by full       *)
(* content only of that version or a newer one (cwk_raw_store.promote).    *)
THEOREM Timeline == Spec => TimelineIsWhole
<1> DEFINE Replace == \A r \in Reports : raw'[r] # raw[r] =>
             /\ raw[r] = NoFile \/ raw[r] \in timeline[r]
             /\ raw'[r].full => raw'[r].version >= raw[r].version
<1>1. IInv /\ [Next]_nvars => [Replace]_<<raw, timeline>>
  <2> SUFFICES ASSUME IInv, [Next]_nvars, NEW r \in Reports, raw'[r] # raw[r]
               PROVE  /\ raw[r] = NoFile \/ raw[r] \in timeline[r]
                      /\ raw'[r].full => raw'[r].version >= raw[r].version
    OBVIOUS
  <2>1. \E q \in Reports : Promote(q)
    <3>1. ~UNCHANGED rvars
      BY DEF rvars
    <3>2. ~WikiSteps /\ ~UNCHANGED nvars
      BY <3>1, WikiFrame DEF nvars
    <3> QED
      BY <3>1, <3>2, Steps DEF StartNight, NextDay, Abort, PromoteDone, PromoteDies,
         FetchMissing, ListMissingFails, PassDone, rvars
  <2>2. PICK q \in Reports : Promote(q)
    BY <2>1
  <2>3. WriteRaw(q) /\ r = q /\ raw'[r] = staged[r]
    BY <2>2 DEF Promote, CaptureUnchanged, ArchivePrior, WriteRaw, CaptureNew, IInv,
       Types, Files
  <2>4. /\ raw[r].version \in Nat /\ staged[r].version \in Nat
        /\ staged[r].full => raw[r].version <= staged[r].version
    BY DEF IInv, Types, Files, FileKinds, RawInv
  <2>5. raw[r] = NoFile \/ raw[r] \in timeline[r]
    BY <2>3 DEF WriteRaw, IInv, RawInv
  <2> QED
    BY <2>3, <2>4, <2>5
<1>2. [][Replace]_<<raw, timeline>> => TimelineIsWhole
  BY PTL DEF TimelineIsWhole
<1> QED
  BY <1>1, <1>2, Invariant, PTL DEF Spec


(* A change that waits to be fetched stays queued, at that version or a    *)
(* later one, until it has been fetched, through the listing, the caps,    *)
(* failed fetches and the save (choose_incremental, dedupe_pending).       *)
THEOREM Queueing == Spec => QueuedChangeIsKept
<1> DEFINE Kept(r, e) == \/ \E x \in Queued(r)' : records[r] = 0 \/ x.version >= e.version
                         \/ mem'[r] >= e.version \/ records'[r] >= e.version
           Keeps == \A r \in Reports : \A e \in Queued(r) :
                      /\ e.version > records[r]
                      /\ records[r] # 0 \/ stage # "collect"
                      /\ stage' # "done"
                      => Kept(r, e)
<1>1. IInv /\ [Next]_nvars => [Keeps]_cvars
  <2> SUFFICES ASSUME IInv, [Next]_nvars, NEW r \in Reports, NEW e \in Queued(r),
                      e.version > records[r], records[r] # 0 \/ stage # "collect",
                      stage' # "done"
               PROVE  Kept(r, e)
    OBVIOUS
  <2> USE DEF Queued
  <2>0. e \in Entry /\ e.version \in Nat
    BY DEF IInv, Types, Queue, Entry, Versions
  <2>1. ASSUME e \in Queued(r)'
        PROVE  Kept(r, e)
    BY <2>0, <2>1
  <2>2. CASE UNCHANGED nvars
    BY <2>1, <2>2 DEF nvars, cvars, stateFile, runVars
  <2>3. CASE StartNight \/ NextDay \/ Abort
    BY <2>1, <2>3 DEF StartNight, NextDay, Abort, stateFile, runVars
  <2>4. CASE WikiSteps
    BY <2>1, <2>4, WikiFrame DEF Late, stateFile
  <2>5. CASE \E q \in Reports : ChangeReport(q)
    BY <2>1, <2>5 DEF ChangeReport, stateFile, runVars
  <2>6. CASE CollectList
    <3>1. e = pending[r] /\ pending[r] # NoEntry /\ records[r] # 0 /\ stage' = "fetch"
      BY <2>6 DEF CollectList
    <3>2. \E x \in {batch'[r], left'[r]} \ {NoEntry} : x.version >= e.version
      BY <2>6, <3>1, ListedEntries DEF IInv
    <3> QED
      BY <3>1, <3>2
  <2>7. CASE Fetch
    <3>1. PICK failing \in SUBSET Entries(batch) :
            /\ mem' = [q \in Reports |-> IF q \in Entries(batch) \ failing
                                         THEN batch[q].version ELSE records[q]]
            /\ left' = [q \in Reports |-> IF q \in failing THEN batch[q] ELSE left[q]]
      BY <2>7 DEF Fetch
    <3>2. stage = "fetch" /\ stage' = "save" /\ e \in {batch[r], left[r]} \ {NoEntry}
      BY <2>7 DEF Fetch
    <3>3. e = left[r] /\ batch[r] # NoEntry => records[r] = 0
      BY <3>2 DEF IInv, QueueInv
    <3>4. CASE r \in failing
      <4>1. left'[r] = batch[r] /\ batch[r] # NoEntry
        BY <3>1, <3>4 DEF Entries
      <4> QED
        BY <2>0, <3>2, <3>3, <4>1
    <3>5. CASE r \in Entries(batch) \ failing
      <4>1. left'[r] = left[r] /\ batch[r] # NoEntry /\ mem'[r] = batch[r].version
        BY <3>1, <3>5 DEF Entries
      <4> QED
        BY <2>0, <3>2, <3>3, <4>1
    <3>6. CASE r \notin Entries(batch)
      <4>1. left'[r] = left[r] /\ e = left[r]
        BY <3>1, <3>2, <3>6 DEF Entries
      <4> QED
        BY <2>1, <3>2, <4>1
    <3> QED
      BY <3>4, <3>5, <3>6
  <2>8. CASE SaveState
    <3>1. e = left[r]
      BY <2>8 DEF SaveState, IInv, QueueInv
    <3> QED
      BY <2>1, <2>8, <3>1 DEF SaveState
  <2>9. CASE \/ \E q \in Reports : Promote(q)
             \/ PromoteDone \/ PromoteDies \/ FetchMissing \/ ListMissingFails \/ PassDone
    BY <2>1, <2>9 DEF Promote, CaptureUnchanged, ArchivePrior, WriteRaw, CaptureNew,
       allButRaw, PromoteDone, PromoteDies, FetchMissing, ListMissingFails, PassDone,
       Promoting, stateFile
  <2> QED
    BY Steps, <2>2, <2>3, <2>4, <2>5, <2>6, <2>7, <2>8, <2>9
<1>2. [][Keeps]_cvars => QueuedChangeIsKept
  BY PTL DEF QueuedChangeIsKept
<1> QED
  BY <1>1, <1>2, Invariant, PTL DEF Spec
=============================================================================
