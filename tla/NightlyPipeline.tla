-------------------------- MODULE NightlyPipeline --------------------------
(***************************************************************************)
(* One nightly run (scripts/cwk_nightly_pipeline.py), started once per     *)
(* business date: collect, promote, complete the date window, compile a    *)
(* wiki page for every raw report that has none                            *)
(* (scripts/cwk_cloud_wiki_compile.py), and publish the pages to the cloud *)
(* document store (scripts/cwk_sync_mirror_to_docdb.py), with one bounded  *)
(* retry of the persisted queue of failed uploads.                         *)
(*                                                                         *)
(* The steps run as child processes: one that dies loses what it has not   *)
(* written, and most often the pipeline goes on; the whole run may die as  *)
(* well.  A run that did not take place is a date without StartNight.      *)
(***************************************************************************)
EXTENDS RawStore

VARIABLES
  pages,      \* wiki/summaries on disk
  changed,    \* changed_relative_paths of the compile processes that ended
  wrote,      \* pages the running compile process has written
  todo,       \* pages the running upload process has still to settle
  failed,     \* its retry_paths, in memory
  retryQueue, \* docdb-sync-retry-queue.json
  cloud,      \* pages the cloud store holds
  pointer,    \* report ids in the manifest.json the cloud store holds
  retrying,   \* is this the --retry-only upload process?
  stranded    \* history: pages of a run that died before their upload settled

wikiVars == <<pages, changed, wrote>>
syncVars == <<todo, failed, retryQueue, cloud, pointer, retrying>>
nvars == <<cvars, rvars, wikiVars, syncVars, stranded>>

Pointer == "manifest.json"      \* COMMIT_POINTER_PATHS

ASSUME PointerAssumption == Pointer \notin Reports

Init ==
  /\ CollectionInit /\ RawInit
  /\ pages = {} /\ changed = {} /\ wrote = {}
  /\ todo = {} /\ failed = {} /\ retryQueue = {} /\ cloud = {} /\ pointer = {}
  /\ retrying = FALSE /\ stranded = {}

(* The timer starts the run of the date, at most once.                     *)
StartNight ==
  /\ stage = "idle"
  /\ stage' = "collect"
  /\ atStart' = src
  /\ UNCHANGED <<sourceVars, stateFile, batch, mem, left, listed, staged, mishaps,
                 rvars, wikiVars, syncVars, stranded>>

(* The date ends, after its run or without one.                            *)
NextDay ==
  /\ stage \in {"idle", "done"} /\ day < MaxDay
  /\ day' = day + 1
  /\ stage' = "idle"
  /\ UNCHANGED <<src, sent, stateFile, runVars, staged, mishaps, rvars, wikiVars, syncVars, stranded>>

-----------------------------------------------------------------------------
(* The compile process: with --limit model calls first, then once more     *)
(* with --fallback-only for every report still missing a page.  The wiki's *)
(* manifest lists the pages on disk: it is flushed after each page, and    *)
(* reconciled with them whenever a compile process starts.                 *)
Compiling == stage \in {"compile", "fallback"}
WithoutPage == {r \in Reports : raw[r] # NoFile} \ pages

(* A page is not compiled again when its report changes.                   *)
WritePage(r) ==
  /\ Compiling /\ r \in WithoutPage
  /\ pages' = pages \cup {r} /\ wrote' = wrote \cup {r}
  /\ UNCHANGED <<cvars, rvars, changed, syncVars, stranded>>

EndCompile ==
  /\ stage = "compile"
  /\ changed' = wrote /\ wrote' = {}
  /\ stage' = "fallback"
  /\ UNCHANGED <<sourceVars, stateFile, runVars, staged, mishaps, rvars, pages, syncVars, stranded>>

(* The process dies and with it its list of changed paths; the fallback    *)
(* process finds its pages on disk and has nothing to do for them.         *)
CompileDies ==
  /\ stage = "compile" /\ Mishap(1)
  /\ stranded' = stranded \cup wrote
  /\ changed' = {} /\ wrote' = {}
  /\ stage' = "fallback"
  /\ UNCHANGED <<sourceVars, stateFile, runVars, staged, rvars, pages, syncVars>>

(* Mutant: the manifest is uploaded with the pages, not after them.        *)
EndFallbackPointerFirst ==
  /\ stage = "fallback" /\ WithoutPage = {}
  /\ todo' = changed \cup wrote \cup (retryQueue \ {Pointer})
  /\ failed' = retryQueue
  /\ pointer' = pages
  /\ changed' = {} /\ wrote' = {}
  /\ stage' = "sync"
  /\ UNCHANGED <<sourceVars, stateFile, runVars, staged, mishaps, rvars, pages,
                 retryQueue, cloud, retrying, stranded>>

(* merge_changed_paths_manifest, then the upload process selects the       *)
(* changed pages and the queued ones.                                      *)
EndFallback ==
  /\ stage = "fallback" /\ WithoutPage = {}
  /\ todo' = changed \cup wrote \cup (retryQueue \ {Pointer})
  /\ failed' = retryQueue
  /\ changed' = {} /\ wrote' = {}
  /\ stage' = "sync"
  /\ UNCHANGED <<sourceVars, stateFile, runVars, staged, mishaps, rvars, pages,
                 retryQueue, cloud, pointer, retrying, stranded>>

-----------------------------------------------------------------------------
syncFrame == <<sourceVars, stateFile, runVars, staged, rvars, wikiVars, stranded>>

(* What failing uploads add to the bound: the retry may fail for the same  *)
(* reason as the upload did.                                               *)
Outage(failing) == IF retrying THEN 0 ELSE Cardinality(failing)

(* Mutant: the retry takes the pages off the queue before it has uploaded  *)
(* them.                                                                   *)
UploadPagesForgetsRetried ==
  /\ stage = "sync"
  /\ \E failing \in SUBSET todo :
       /\ cloud' = cloud \cup (todo \ failing)
       /\ failed' = IF retrying THEN failed \ todo ELSE (failed \ todo) \cup failing
       /\ Mishap(Outage(failing))
  /\ todo' = {}
  /\ stage' = "commit"
  /\ UNCHANGED <<syncFrame, retryQueue, pointer, retrying>>

(* sync_item and record_result, for all pages of the batch.  A page whose  *)
(* upload fails counts as not stored: if it was, the retry finds it there. *)
UploadPages ==
  /\ stage = "sync"
  /\ \E failing \in SUBSET todo :
       /\ cloud' = cloud \cup (todo \ failing)
       /\ failed' = (failed \ todo) \cup failing
       /\ Mishap(Outage(failing))
  /\ todo' = {}
  /\ stage' = "commit"
  /\ UNCHANGED <<syncFrame, retryQueue, pointer, retrying>>

(* Commit pointers are uploaded once every page of the batch has settled,  *)
(* one way or the other; a retry uploads the pointer only if it is queued. *)
CommitPointer ==
  /\ stage = "commit"
  /\ IF retrying /\ Pointer \notin failed THEN UNCHANGED <<failed, pointer, mishaps>>
     ELSE \/ pointer' = pages /\ failed' = failed \ {Pointer} /\ UNCHANGED mishaps
          \/ /\ pointer' \in {pointer, pages} /\ failed' = failed \cup {Pointer}
             /\ Mishap(Outage({Pointer}))
  /\ stage' = "settled"
  /\ UNCHANGED <<syncFrame, todo, retryQueue, cloud, retrying>>

(* The queue is written; run_docdb_sync_with_retry starts one more upload  *)
(* process on the queue alone if anything failed.                          *)
EndSync ==
  /\ stage = "settled"
  /\ retryQueue' = failed
  /\ IF failed # {} /\ ~retrying
     THEN /\ retrying' = TRUE /\ todo' = failed \ {Pointer}
          /\ stage' = "sync" /\ UNCHANGED failed
     ELSE /\ retrying' = FALSE /\ stage' = "done" /\ failed' = {}
          /\ UNCHANGED todo
  /\ UNCHANGED <<syncFrame, mishaps, cloud, pointer>>

-----------------------------------------------------------------------------
(* The run dies, or a step whose success the pipeline requires fails.  An  *)
(* upload process that dies in its batch leaves what one leaves that dies  *)
(* after it with failures: the queue of before (or, every tenth result, a  *)
(* later one).                                                             *)
Abort ==
  /\ stage \notin {"idle", "done"} /\ Mishap(1)
  /\ stage' = "done"
  /\ atStart' = Nothing /\ batch' = NoEntries /\ left' = NoEntries /\ listed' = TRUE /\ mem' = Nothing
  /\ staged' = NoFiles /\ moving' = Nobody /\ whole' = TRUE
  /\ orphaned' = IF stage = "promote" THEN orphaned \cup Abandoned ELSE orphaned
  /\ stranded' = stranded \cup changed \cup wrote \cup todo \cup (failed \ {Pointer})
  /\ changed' = {} /\ wrote' = {}
  /\ todo' = {} /\ failed' = {} /\ retrying' = FALSE
  /\ UNCHANGED <<sourceVars, stateFile, raw, timeline, passed, pages, retryQueue, cloud, pointer>>

Night ==
  \/ Collect /\ UNCHANGED <<rvars, wikiVars, syncVars, stranded>>
  \/ Store /\ UNCHANGED <<wikiVars, syncVars, stranded>>
  \/ \E r \in Reports : WritePage(r)
  \/ EndCompile \/ CompileDies \/ EndFallback
  \/ UploadPages \/ CommitPointer \/ EndSync

Next ==
  \/ \E r \in Reports : ChangeReport(r) /\ UNCHANGED <<rvars, wikiVars, syncVars, stranded>>
  \/ StartNight \/ NextDay \/ Night \/ Abort

Spec == Init /\ [][Next]_nvars

-----------------------------------------------------------------------------
(* Once a run is over, every page of the wiki on disk is on the cloud or   *)
(* queued for the next run, although uploads fail and are retried by a     *)
(* second process that knows only the queue; except the pages of a run or  *)
(* a process that died between writing and uploading them                  *)
(* (run_docdb_sync_with_retry, record_result).                             *)
CloudFollows ==
  stage = "done" => pages \subseteq cloud \cup retryQueue \cup stranded

(* The manifest on the cloud never lists a page that is neither there nor  *)
(* recorded as failed, but for the pages of a run that died: the pointer   *)
(* is published after the pages it lists have settled                      *)
(* (partition_commit_items).                                               *)
PointerIsBacked ==
  pointer \subseteq cloud \cup retryQueue \cup failed \cup stranded
=============================================================================
