----------------------------- MODULE Collection -----------------------------
(***************************************************************************)
(* The nightly collector (scripts/cwk_collect_live.py on the choices of    *)
(* scripts/cwk_collection_state.py): it lists the reports of the work      *)
(* system, decides which are new or changed since its state file was last  *)
(* saved, fetches at most a capped number of them into the run's           *)
(* collected-raw directory, queues the rest, and saves its state.          *)
(*                                                                         *)
(* A version of a report stands for its content and for the fingerprint of *)
(* its list row.  A collected file is the version it was made from and     *)
(* whether the full content is in it: without, it holds what the row held, *)
(* or nothing.  The code compares the time of a row with the start of    *)
(* the last run whose listings all succeeded; the model keeps, instead of  *)
(* clock times, the version each report had at that moment (`cutoff') and  *)
(* at the start of this run (`atStart').  Which rows the bounded listings  *)
(* and the backfill page return, and the order within a priority class,    *)
(* are arbitrary.                                                          *)
(***************************************************************************)
EXTENDS Integers, FiniteSets, Functions

CONSTANTS Reports,          \* report ids of the work system
          NoEntry,          \* no pending entry
          Nobody,           \* no promotion under way
          MaxVersion,       \* bound: versions of one report
          MaxChanges,       \* bound: versions of all reports
          MaxDay,           \* bound: business days
          MaxMishaps,       \* bound: failed calls and processes that die
          DetailCap,        \* detail_cap
          ContinuationCap,  \* continuation_cap
          BackfillCap       \* backfill_cap

Versions == 1..MaxVersion
Entry == [origin: {"daily", "backfill"}, type: {"fresh", "continuation"},
          version: Versions, open: BOOLEAN]

ASSUME CollectionAssumption ==
  /\ NoEntry \notin Entry
  /\ {MaxVersion, MaxChanges, MaxDay, MaxMishaps} \subseteq Nat
  /\ {DetailCap, ContinuationCap, BackfillCap} \subseteq Nat

VARIABLES
  day,       \* the business date
  src,       \* the work system: version of each report, 0 before it is sent
  sent,      \* the date each report was sent, 0 before
  stage,     \* what the nightly run is doing
  records,   \* state file: fingerprint last processed, 0 if never
  pending,   \* state file: queued entries
  cutoff,    \* state file: incremental_cutoff, as the versions of that moment
  atStart,   \* this run: collection_started_at, likewise
  batch,     \* this run: entries selected and not fetched yet
  mem,       \* this run: records in memory
  left,      \* this run: entries that stay pending
  listed,    \* this run: did every daily listing succeed?
  staged,    \* this run: files in collected-raw
  mishaps    \* calls that failed and processes that died so far

sourceVars == <<day, src, sent>>
stateFile == <<records, pending, cutoff>>
runVars == <<atStart, batch, mem, left, listed>>
cvars == <<sourceVars, stage, stateFile, runVars, staged, mishaps>>

Nothing == [r \in Reports |-> 0]
NoEntries == [r \in Reports |-> NoEntry]
File(v, complete) == [version |-> v, full |-> complete]
NoFile == File(0, FALSE)
NoFiles == [r \in Reports |-> NoFile]
Entries(f) == {r \in Reports : f[r] # NoEntry}
Sent == {r \in Reports : src[r] # 0}
Mishap(n) == /\ mishaps + n <= MaxMishaps
             /\ mishaps' = mishaps + n
AtMost(a, b) == IF a <= b THEN a ELSE b

CollectionInit ==
  /\ day = 1
  /\ src = Nothing /\ sent = src
  /\ stage = "idle"
  /\ records = src /\ pending = NoEntries
  /\ cutoff = src /\ atStart = src
  /\ batch = NoEntries /\ left = NoEntries /\ listed = TRUE
  /\ mem = src /\ staged = NoFiles
  /\ mishaps = 0

(* A colleague sends a report, or a reply or an opinion changes it.  Only  *)
(* at these stages does the order of a change and of the run's own steps   *)
(* matter: later stages read the work system only for reports raw does not *)
(* have, for which a change is the same as one before the fetch.           *)
Reading == stage \in {"idle", "collect", "fetch", "done"}
Changes == FoldFunction(+, 0, src)

ChangeReport(r) ==
  /\ Reading /\ (stage = "done" => day < MaxDay)
  /\ src[r] < MaxVersion
  /\ Changes < MaxChanges
  /\ src' = [src EXCEPT ![r] = @ + 1]
  /\ sent' = IF src[r] = 0 THEN [sent EXCEPT ![r] = day] ELSE sent
  /\ UNCHANGED <<day, stage, stateFile, runVars, staged, mishaps>>

(* classify_candidate; "new" and "updated" share the first priority class. *)
ClassifyCandidate(r, v, open) ==
  LET seen == records[r] = v \/ (records[r] = 0 /\ v <= cutoff[r])
  IN IF ~seen THEN "fresh" ELSE IF open THEN "continuation" ELSE "unchanged"

(* What choose_incremental makes of the queue and of the listed rows:      *)
(* a queued entry never becomes "unchanged", a listed row may.             *)
Classified(shown, open) ==
  LET queued == {r \in Reports : pending[r] # NoEntry /\ pending[r].origin = "daily"}
      RowOf(r) == IF r \in shown THEN [version |-> src[r], open |-> r \in open]
                  ELSE [version |-> pending[r].version, open |-> pending[r].open]
      Type(r) == LET c == ClassifyCandidate(r, RowOf(r).version, RowOf(r).open)
                 IN IF c = "unchanged" /\ r \in queued THEN pending[r].type ELSE c
  IN [r \in Reports |->
        IF r \in queued \cup shown /\ Type(r) # "unchanged"
        THEN [origin |-> "daily", type |-> Type(r),
              version |-> RowOf(r).version, open |-> RowOf(r).open]
        ELSE NoEntry]

OfType(f, t) == {r \in Entries(f) : f[r].type = t}

(* choose_incremental: fresh entries first, continuations after them, up   *)
(* to the caps.                                                            *)
DailySelections(f) ==
  LET fresh == OfType(f, "fresh")
      others == OfType(f, "continuation")
      room == AtMost(DetailCap, Cardinality(fresh)
                                + AtMost(ContinuationCap, Cardinality(others)))
  IN {s \in SUBSET Entries(f) :
        /\ Cardinality(s) = room
        /\ fresh \subseteq s \/ s \subseteq fresh}

(* The fresh entries the selection has no room for are queued again.       *)
Overflow(f, s) == OfType(f, "fresh") \ s

(* choose_backfill: queued history and one more page, without what was     *)
(* already processed or selected for the day.                              *)
BackfillWaiting(page, s) ==
  {r \in Reports : /\ r \in page \/ (pending[r] # NoEntry /\ pending[r].origin = "backfill")
                   /\ records[r] = 0 /\ r \notin s}

BackfillEntry(r, page) ==
  IF r \in page THEN [origin |-> "backfill", type |-> "fresh", version |-> src[r], open |-> FALSE]
  ELSE pending[r]

(* The run fetches the entries of s and, for the history, of b; what else  *)
(* waits stays pending.                                                    *)
Select(f, page, s, b) ==
  /\ Cardinality(b) = AtMost(BackfillCap, Cardinality(BackfillWaiting(page, s)))
  /\ batch' = [r \in Reports |-> IF r \in s THEN f[r]
                                 ELSE IF r \in b THEN BackfillEntry(r, page)
                                 ELSE NoEntry]
  /\ left' = [r \in Reports |->
                IF r \in BackfillWaiting(page, s) \ b THEN BackfillEntry(r, page)
                ELSE IF r \in Overflow(f, s) THEN f[r]
                ELSE NoEntry]

(* The state is loaded, the daily lanes and one history page are listed,   *)
(* and the entries to fetch are chosen.  A lane may fail.  (A page row of  *)
(* a report already processed has no effect.)                              *)
CollectList ==
  /\ stage = "collect"
  /\ \E ok \in BOOLEAN : listed' = ok /\ Mishap(IF ok THEN 0 ELSE 1)
  /\ \E shown \in SUBSET Sent, page \in SUBSET {r \in Sent : records[r] = 0} :
     \E f \in {Classified(shown, open) : open \in SUBSET shown} :
     \E s \in DailySelections(f) : \E b \in SUBSET BackfillWaiting(page, s) :
       Select(f, page, s, b)
  /\ stage' = "fetch"
  /\ UNCHANGED <<sourceVars, stateFile, atStart, mem, staged>>

(* The file made of an entry: its row, and the content if the call for it  *)
(* succeeded.  The content is read some time after the row: it may be      *)
(* newer.                                                                  *)
Collected(r, bare) == IF r \in bare THEN File(batch[r].version, FALSE) ELSE File(src[r], TRUE)

(* Mutant: the record is updated before the content calls are known to     *)
(* have succeeded.                                                         *)
FetchRecordsFirst ==
  /\ stage = "fetch"
  /\ \E failing \in SUBSET Entries(batch) : \E bare \in SUBSET (Entries(batch) \ failing) :
       /\ Mishap(Cardinality(failing \cup bare))
       /\ staged' = [r \in Reports |-> IF r \in Entries(batch) \ failing
                                       THEN Collected(r, bare) ELSE NoFile]
       /\ mem' = [r \in Reports |-> IF r \in Entries(batch) THEN batch[r].version ELSE records[r]]
       /\ left' = [r \in Reports |-> IF r \in failing THEN batch[r] ELSE left[r]]
  /\ batch' = NoEntries
  /\ stage' = "save"
  /\ UNCHANGED <<sourceVars, stateFile, atStart, listed>>

(* Mutant: an entry whose fetch failed is not queued again.                *)
FetchForgetsFailed ==
  /\ stage = "fetch"
  /\ \E failing \in SUBSET Entries(batch) : \E bare \in SUBSET (Entries(batch) \ failing) :
       LET fetched == Entries(batch) \ failing
       IN /\ Mishap(Cardinality(failing \cup bare))
          /\ staged' = [r \in Reports |-> IF r \in fetched THEN Collected(r, bare) ELSE NoFile]
          /\ mem' = [r \in Reports |-> IF r \in fetched THEN batch[r].version ELSE records[r]]
  /\ batch' = NoEntries
  /\ stage' = "save"
  /\ UNCHANGED <<sourceVars, stateFile, atStart, left, listed>>

(* Three calls are made for each selected report.  If none succeeds the    *)
(* entry is queued again (`failing`); if the one for the full content      *)
(* fails and another succeeds (`bare`), the entry counts as fetched and    *)
(* its file has what the row held.                                         *)
Fetch ==
  /\ stage = "fetch"
  /\ \E failing \in SUBSET Entries(batch) : \E bare \in SUBSET (Entries(batch) \ failing) :
       LET fetched == Entries(batch) \ failing
       IN /\ Mishap(Cardinality(failing \cup bare))
          /\ staged' = [r \in Reports |-> IF r \in fetched THEN Collected(r, bare) ELSE NoFile]
          /\ mem' = [r \in Reports |-> IF r \in fetched THEN batch[r].version ELSE records[r]]
          /\ left' = [r \in Reports |-> IF r \in failing THEN batch[r] ELSE left[r]]
  /\ batch' = NoEntries
  /\ stage' = "save"
  /\ UNCHANGED <<sourceVars, stateFile, atStart, listed>>

(* save_state: one atomic replacement.  The cutoff moves to the start of   *)
(* this run only if no daily lane failed.                                  *)
SaveState ==
  /\ stage = "save"
  /\ records' = mem /\ pending' = left
  /\ cutoff' = IF listed THEN atStart ELSE cutoff
  /\ atStart' = Nothing /\ mem' = Nothing /\ left' = NoEntries /\ listed' = TRUE
  /\ stage' = "promote"
  /\ UNCHANGED <<sourceVars, batch, staged, mishaps>>

Collect == CollectList \/ Fetch \/ SaveState

-----------------------------------------------------------------------------
(* The entries of a report: in the state file, or, from the listing to the *)
(* save, in the memory of the run.                                         *)
Queued(r) ==
  (IF stage \in {"fetch", "save"} THEN {batch[r], left[r]} ELSE {pending[r]}) \ {NoEntry}

(* As long as the run does not die, a change that waits to be fetched      *)
(* leaves the queue only when it, or a later one, has been fetched:        *)
(* neither the caps, nor a failed fetch, nor a merge of two entries loses  *)
(* it (choose_incremental, dedupe_pending, cwk_collect_live.main).         *)
(* Fetched means recorded: a fetch without the full content counts.  A     *)
(* report never fetched before keeps an entry from the listing to the      *)
(* save; see PriorityNeverDiscards for the listing.                        *)
QueuedChangeIsKept ==
  [][\A r \in Reports : \A e \in Queued(r) :
       /\ e.version > records[r]
       /\ records[r] # 0 \/ stage # "collect"
       /\ stage' # "done"
       => \/ \E x \in Queued(r)' : records[r] = 0 \/ x.version >= e.version
          \/ mem'[r] >= e.version \/ records'[r] >= e.version]_cvars

(* What the comment of choose_incremental promises: "overflow is still     *)
(* persisted below, so priority never discards evidence".  A queued fresh  *)
(* entry stays queued until the report has been fetched.                   *)
PriorityNeverDiscards ==
  [][\A r \in Reports :
       /\ pending[r] # NoEntry /\ pending'[r] = NoEntry
       => records'[r] # 0]_cvars
=============================================================================
