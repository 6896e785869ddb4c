------------------------------ MODULE RawStore ------------------------------
(***************************************************************************)
(* The local raw truth source: scripts/cwk_raw_store.py promotes what a    *)
(* run has fetched, archiving every version in the report's timeline       *)
(* (scripts/cwk_thread_timeline.py), and scripts/cwk_backfill_range.py     *)
(* fetches the reports of the business-date window that raw still misses   *)
(* and promotes them the same way.                                         *)
(***************************************************************************)
EXTENDS Collection

CONSTANT Lookback          \* source_completeness_lookback_days

ASSUME RawAssumption ==
  /\ Lookback \in 0..31
  /\ Nobody \notin Reports \X {"archived", "written"}

VARIABLES
  raw,        \* raw/: the file of each report, NoFile if none
  timeline,   \* raw/_system/timelines: files with a snapshot
  moving,     \* the report being promoted and what has been done, or Nobody
  passed,     \* the last date whose completeness pass exited with 0
  whole,      \* this pass: has every missing report been fetched?
  orphaned    \* history: fetched by a run that died before promoting them

rvars == <<raw, timeline, moving, passed, whole, orphaned>>
allButRaw == <<sourceVars, stateFile, runVars, mishaps, passed, whole, orphaned>>

RawInit ==
  /\ raw = NoFiles
  /\ timeline = [r \in Reports |-> {}]
  /\ moving = Nobody
  /\ passed = 0 /\ whole = TRUE /\ orphaned = {}

Promoting == stage \in {"promote", "promoteMissing"}

(* capture: append a snapshot, idempotently.                               *)
Capture(r, file) == timeline' = [timeline EXCEPT ![r] = @ \cup {file}]

CaptureUnchanged(r) ==
  /\ Promoting /\ moving = Nobody
  /\ staged[r] # NoFile /\ raw[r] = staged[r]
  /\ Capture(r, staged[r])
  /\ staged' = [staged EXCEPT ![r] = NoFile]
  /\ UNCHANGED <<allButRaw, stage, raw, moving>>

(* Mutant: the prior file is taken to have its snapshot already.           *)
ArchiveNothing(r) ==
  /\ Promoting /\ moving = Nobody
  /\ staged[r] # NoFile /\ raw[r] \notin {NoFile, staged[r]}
  /\ moving' = <<r, "archived">>
  /\ UNCHANGED <<allButRaw, stage, raw, timeline, staged>>

(* The file raw holds is archived before it is replaced.                   *)
ArchivePrior(r) ==
  /\ Promoting /\ moving = Nobody
  /\ staged[r] # NoFile /\ raw[r] \notin {NoFile, staged[r]}
  /\ Capture(r, raw[r])
  /\ moving' = <<r, "archived">>
  /\ UNCHANGED <<allButRaw, stage, raw, staged>>

WriteRaw(r) ==
  /\ Promoting /\ staged[r] # NoFile
  /\ moving = <<r, "archived">> \/ (moving = Nobody /\ raw[r] = NoFile)
  /\ raw' = [raw EXCEPT ![r] = staged[r]]
  /\ moving' = <<r, "written">>
  /\ UNCHANGED <<allButRaw, stage, timeline, staged>>

CaptureNew(r) ==
  /\ Promoting /\ moving = <<r, "written">>
  /\ Capture(r, staged[r])
  /\ moving' = Nobody
  /\ staged' = [staged EXCEPT ![r] = NoFile]
  /\ UNCHANGED <<allButRaw, stage, raw>>

Promote(r) == CaptureUnchanged(r) \/ ArchivePrior(r) \/ WriteRaw(r) \/ CaptureNew(r)

PromoteDone ==
  /\ stage = "promote" /\ staged = NoFiles
  /\ stage' = "missing"
  /\ UNCHANGED <<sourceVars, stateFile, runVars, staged, mishaps, rvars>>

Abandoned == {r \in Reports : staged[r] # NoFile}

(* The promoting process dies and the pipeline notes a failure and goes    *)
(* on; what the collector had staged stays in this run's directory, which  *)
(* no later run reads.                                                     *)
PromoteDies ==
  /\ Promoting /\ Mishap(1)
  /\ orphaned' = IF stage = "promote" THEN orphaned \cup Abandoned ELSE orphaned
  /\ staged' = NoFiles /\ moving' = Nobody /\ whole' = TRUE
  /\ stage' = IF stage = "promote" THEN "missing" ELSE "compile"
  /\ UNCHANGED <<sourceVars, stateFile, runVars, raw, timeline, passed>>

(* Mutant: the window is one date short.                                   *)
ShortWindow == (day - Lookback + 1)..day

(* source_completeness_start_date, and the dates run_backfill asks for.    *)
Window == (day - Lookback)..day

(* run_backfill: the window is paged to exhaustion; each report raw does   *)
(* not have is fetched, or its fetch fails.  Here the full content is      *)
(* required, but a report with any file is not missing.                    *)
Missing == {r \in Sent : sent[r] \in Window /\ raw[r] = NoFile}

FetchMissing ==
  /\ stage = "missing"
  /\ \E failing \in SUBSET Missing :
       /\ staged' = [r \in Reports |-> IF r \in Missing \ failing THEN File(src[r], TRUE) ELSE NoFile]
       /\ whole' = (failing = {})
       /\ Mishap(Cardinality(failing))
  /\ stage' = "promoteMissing"
  /\ UNCHANGED <<sourceVars, stateFile, runVars, raw, timeline, moving, passed, orphaned>>

(* The listing fails or disagrees with the server's total.                 *)
ListMissingFails ==
  /\ stage = "missing" /\ Mishap(1)
  /\ stage' = "compile"
  /\ UNCHANGED <<sourceVars, stateFile, runVars, staged, rvars>>

PassDone ==
  /\ stage = "promoteMissing" /\ staged = NoFiles
  /\ passed' = IF whole THEN day ELSE passed
  /\ whole' = TRUE
  /\ stage' = "compile"
  /\ UNCHANGED <<sourceVars, stateFile, runVars, staged, mishaps, raw, timeline, moving, orphaned>>

Store ==
  \/ PromoteDone \/ PromoteDies \/ FetchMissing \/ ListMissingFails \/ PassDone
  \/ \E r \in Reports : Promote(r)

-----------------------------------------------------------------------------
(* What the state file says was processed has a file in raw made from that *)
(* version or a later one, unless it is still staged in this run or the    *)
(* run died (or its promotion did) after saving the state: no cap, merge,  *)
(* failed entry or race with a change of the report leaves the record      *)
(* ahead of the version in raw.  A file, not its full content: main counts *)
(* an entry as fetched when one of its three calls succeeded.              *)
(* (cwk_collect_live.main, cwk_raw_store.promote.)                         *)
EvidenceIsKept ==
  \A r \in Reports \ orphaned :
    records[r] <= raw[r].version \/ (stage = "promote" /\ records[r] <= staged[r].version)

(* A raw file is replaced only once it has its snapshot, also when an      *)
(* earlier promotion died between the write and the snapshot, and full     *)
(* content never makes way for that of an older version: what raw had is   *)
(* lost neither to a late entry of the queue nor to a fetch without        *)
(* content (cwk_raw_store.promote).                                        *)
TimelineIsWhole ==
  [][\A r \in Reports : raw'[r] # raw[r] =>
       /\ raw[r] = NoFile \/ raw[r] \in timeline[r]
       /\ raw'[r].full => raw'[r].version >= raw[r].version]_<<raw, timeline>>

(* A report has a file in raw once one of the passes of the Lookback       *)
(* nights after its date has exited with 0, whatever the incremental       *)
(* collector missed, dropped or lost (cwk_nightly_pipeline, run_backfill). *)
LandsInWindow ==
  \A r \in Sent :
    sent[r] < passed /\ passed <= sent[r] + Lookback => raw[r] # NoFile
=============================================================================
