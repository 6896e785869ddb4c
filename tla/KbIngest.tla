------------------------------ MODULE KbIngest ------------------------------
(***************************************************************************)
(* The ingest of a library: scripts/kb_ingest.py with the root manifest of *)
(* kb_ledger.py and the lexical index that kb_lexical_builder.py rebuilds  *)
(* at the end of a refresh.                                                *)
(*                                                                         *)
(* A run loads the accounts once, works on its copy, and writes the whole  *)
(* copy back after each item: index, then provenance, then state.  Nothing *)
(* is locked: a nightly refresh and a manual run overlap, and a run dies   *)
(* between any two writes.  In the end the manifest is signed again,       *)
(* unless the tree holds a change the run cannot explain: it is loaded,    *)
(* the tree is scanned and compared with it, and the scan is written, each *)
(* a step of its own (the scan, file after file in the code, is one).      *)
(*                                                                         *)
(* An artefact is determined by its original and is named by it; an item   *)
(* is a lineage of one route.  Placeholders, extra sheets, batches, plan   *)
(* cards and the guard against a plan fifty times too long are left out;   *)
(* the library is one whose lexical index has been published once.         *)
(***************************************************************************)
EXTENDS Naturals, FiniteSets, SequencesExt

CONSTANTS
  Items,
  Timeline,     \* items whose route adds a file per version
  Contents,
  Refused,      \* contents whose conversion raises
  Skipped,      \* contents of a format that is only archived
  Nightly,      \* refresh runs, started by the timer
  Manual,       \* kb_ingest run
  Nothing,
  AtFirst,      \* what the source holds when the library is created
  MaxMishaps    \* edits of the source, faults, deaths and overlaps in all

Runs == Nightly \cup Manual

ASSUME IngestAssumption ==
  /\ Timeline \subseteq Items
  /\ Refused \cup Skipped \subseteq Contents /\ Nothing \notin Contents
  /\ Refused \cap Skipped = {} /\ Nightly \cap Manual = {}
  /\ AtFirst \in [Items -> Contents \cup {Nothing}]
  /\ MaxMishaps \in Nat

VARIABLES
  source,     \* what fetching an item yields, or Nothing
  originals,  \* archived <<item, content>>: the path encodes the digest
  raw,        \* raw files: <<item, n>> -> content it was made from
  index,      \* raw-index: the versions of each item, <<>> without entry
  chain,      \* provenance.jsonl: <<item, version>>, version 0 for a skip
  state,      \* ingest-state: a row per item
  signed,     \* root manifest: the tree it describes, its stale system files
  lexical,    \* generation of the published lexical index
  run,        \* the runs
  hand,       \* refresh_manifest of a run: the manifest loaded or scanned
  mishaps, crashes, overlaps   \* history

disk   == <<originals, raw, index, chain, state, signed, lexical>>
counts == <<mishaps, crashes, overlaps>>
vars   == <<source, disk, run, hand, counts>>

NoRow    == [status |-> "none", origin |-> Nothing, at |-> 0]
Terminal == {"converted", "skipped"}
Idle     == [pc |-> "idle"]

-----------------------------------------------------------------------------
(* Accounts.                                                               *)

Version(idx, i) == Len(idx[i]) + 1

\* Mutant: every version of a timeline item has the path of the one before.
VersionedPathLate(i, version) ==
  IF i \in Timeline /\ version > 1 THEN version - 1 ELSE 1

\* A timeline item gets a file beside the last one, a classified item is
\* written over.
VersionedPath(i, version) == IF i \in Timeline THEN version ELSE 1

\* Mutant: a failed item counts as done.
AlreadyDoneIfFailed(idx, st, i, content) ==
  \/ st[i].status = "failed"
  \/ /\ st[i].status \in Terminal /\ st[i].origin = content
     /\ \/ st[i].status = "skipped"
        \/ /\ idx[i] # <<>> /\ Last(idx[i]).origin = content
           /\ <<i, Last(idx[i]).at>> \in DOMAIN raw

\* These bytes of the item have landed, by state, index and raw file.
AlreadyDone(idx, st, i, content) ==
  /\ st[i].status \in Terminal /\ st[i].origin = content
  /\ \/ st[i].status = "skipped"
     \/ /\ idx[i] # <<>> /\ Last(idx[i]).origin = content
        /\ <<i, Last(idx[i]).at>> \in DOMAIN raw

\* owned_paths: what a run's accounts can explain.
OwnedOriginals(r) ==
  UNION {{<<i, r.index[i][n].origin>> : n \in DOMAIN r.index[i]} : i \in Items}
    \cup {<<i, r.state[i].origin>> : i \in Items}

OwnedRaw(r) ==
  UNION {{<<i, r.index[i][n].at>> : n \in DOMAIN r.index[i]} : i \in Items}
    \cup {<<i, r.state[i].at>> : i \in Items}

(* The root manifest.                                                      *)

ChangedRaw(m) ==
  {f \in DOMAIN raw : IF f \in DOMAIN m.raw THEN raw[f] # m.raw[f] ELSE TRUE}

\* assert_existing_unchanged: nothing differs from the manifest m but what the
\* caller allows.
Unchanged(m, allowed, allowedRaw, files) ==
  /\ originals \ m.originals \subseteq allowed
  /\ ChangedRaw(m) \subseteq allowedRaw
  /\ m.stale \subseteq files

Tree == [originals |-> originals, raw |-> raw, stale |-> {}]

NoHand == [step |-> "none", manifest |-> [originals |-> {}, raw |-> <<>>, stale |-> {}]]
Hand(step, m) == [step |-> step, manifest |-> m]

Stale(m, file) == [m EXCEPT !.stale = @ \cup {file}]

\* A system file is written: no manifest made before describes it any more.
Rewrite(file) ==
  /\ signed' = Stale(signed, file)
  /\ hand' = [q \in Runs |-> IF hand[q].step = "none" THEN hand[q]
                             ELSE Hand(hand[q].step, Stale(hand[q].manifest, file))]

(* The lexical index.                                                      *)

Generation(idx) ==
  [i \in {j \in Items : idx[j] # <<>>} |-> <<Len(idx[i]), Last(idx[i]).origin>>]

\* _collect reads every indexed file and compares its digest.
Collectable ==
  \A i \in Items : index[i] # <<>> =>
    LET last == Last(index[i])
    IN <<i, last.at>> \in DOMAIN raw /\ raw[<<i, last.at>>] = last.origin

-----------------------------------------------------------------------------
Init ==
  /\ source = AtFirst
  /\ originals = {} /\ raw = <<>> /\ chain = <<>>
  /\ index = [i \in Items |-> <<>>]
  /\ state = [i \in Items |-> NoRow]
  /\ signed = Tree
  /\ lexical = Generation(index)
  /\ run = [p \in Runs |-> Idle]
  /\ hand = [p \in Runs |-> NoHand]
  /\ mishaps = 0 /\ crashes = 0 /\ overlaps = 0

\* build_plan, and for a refresh the guard: an empty plan is not executed.
Start(p) ==
  /\ run[p] = Idle
  /\ LET plan == {i \in Items : source[i] # Nothing}
         busy == \E q \in Runs : run[q] # Idle
     IN /\ plan # {}
        /\ busy => mishaps < MaxMishaps
        /\ overlaps' = overlaps + (IF busy THEN 1 ELSE 0)
        /\ mishaps' = mishaps + (IF busy THEN 1 ELSE 0)
        /\ run' = [run EXCEPT ![p] =
             [pc |-> "load_index", todo |-> plan, doing |-> Nothing,
              index |-> [i \in Items |-> <<>>], state |-> [i \in Items |-> NoRow],
              chain |-> <<>>, pending |-> <<>>,
              touched |-> [originals |-> {}, raw |-> {}],
              wrote |-> FALSE, failed |-> FALSE, closing |-> FALSE]]
  /\ UNCHANGED <<source, disk, hand, crashes>>

\* Accounts.__init__.
LoadIndex(p) ==
  /\ run[p].pc = "load_index"
  /\ run' = [run EXCEPT ![p].pc = "load_state", ![p].index = index]
  /\ UNCHANGED <<source, disk, hand, counts>>

LoadStateAndChain(p) ==
  /\ run[p].pc = "load_state"
  /\ run' = [run EXCEPT ![p] = [@ EXCEPT !.pc = "items", !.state = state, !.chain = chain]]
  /\ UNCHANGED <<source, disk, hand, counts>>

TouchedFiles(r) == r.touched.originals # {} \/ r.touched.raw # {}

\* Mutant: only a run that touched a file signs the manifest.
MustSignTouched(r) == TouchedFiles(r)

MustSign(r) == r.wrote

AfterPlan(p, r) == IF p \in Nightly THEN [r EXCEPT !.pc = "save"] ELSE Idle

\* The end of the plan: a last publish with the record of the batch, if there
\* is one, and the manifest, if anything was written.
EndPlan(p, r) ==
  IF ~r.closing /\ (TouchedFiles(r) \/ r.failed)
  THEN [r EXCEPT !.pc = "publish", !.closing = TRUE]
  ELSE IF MustSign(r) THEN [r EXCEPT !.pc = "sign"] ELSE AfterPlan(p, r)

Proceed(p, r) ==
  IF r.todo # {} THEN [r EXCEPT !.pc = "items"] ELSE EndPlan(p, r)

\* The next item of the plan, in an order that is the same for every run.
AtItem(p)   == run[p].pc = "items" /\ run[p].todo # {}
NextItem(p) == CHOOSE i \in run[p].todo : TRUE

SetFailed(r, i) ==
  [r EXCEPT !.pc = "publish", !.todo = @ \ {i}, !.failed = TRUE,
            !.state[i].status = "failed"]

\* The source is gone, or does not answer within the retries.
FetchFails(p) ==
  /\ AtItem(p)
  /\ LET i == NextItem(p) IN
     /\ source[i] # Nothing => mishaps < MaxMishaps
     /\ mishaps' = mishaps + (IF source[i] = Nothing THEN 0 ELSE 1)
     /\ run' = [run EXCEPT ![p] = SetFailed(@, i)]
  /\ UNCHANGED <<source, disk, hand, crashes, overlaps>>

\* The item is behind the run.
Passed(r, i) == [r EXCEPT !.todo = @ \ {i}]

SkipDone(p) ==
  /\ AtItem(p)
  /\ LET i == NextItem(p) IN
     /\ source[i] # Nothing
     /\ AlreadyDone(run[p].index, run[p].state, i, source[i])
     /\ run' = [run EXCEPT ![p] = Proceed(p, Passed(@, i))]
  /\ UNCHANGED <<source, disk, hand, counts>>

\* Mutant: an item is archived once, whatever its bytes.
ArchiveOriginalOnce(i) ==
  IF \E c \in Contents : <<i, c>> \in originals THEN originals
  ELSE originals \cup {<<i, source[i]>>}

\* archive_original.
ArchiveOriginal(i) == originals \cup {<<i, source[i]>>}

\* The run after the original of an item is archived, by what becomes of it.
Archived(r, i) ==
  LET a == [r EXCEPT !.todo = @ \ {i},
                     !.touched.originals = @ \cup ({<<i, source[i]>>} \ originals)]
  IN IF source[i] \in Refused THEN SetFailed(a, i)
     ELSE IF source[i] \in Skipped
     THEN [a EXCEPT !.pc = "publish",
                    !.state[i] = [@ EXCEPT !.status = "skipped", !.origin = source[i]],
                    !.pending = Append(@, <<i, 0>>)]
     ELSE [a EXCEPT !.pc = "raw", !.doing = <<i, source[i]>>]

Archive(p) ==
  /\ AtItem(p)
  /\ LET i == NextItem(p) IN
     /\ source[i] # Nothing
     /\ ~AlreadyDone(run[p].index, run[p].state, i, source[i])
     /\ originals' = ArchiveOriginal(i)
     /\ run' = [run EXCEPT ![p] = Archived(@, i)]
  /\ UNCHANGED <<source, raw, index, chain, state, signed, lexical, hand, counts>>

Written(file, content) ==
  [f \in DOMAIN raw \cup {file} |-> IF f = file THEN content ELSE raw[f]]

\* upsert, set_state and add_provenance, in memory.
Entered(r, i, content, version, at) ==
  [r EXCEPT !.pc = "publish", !.doing = Nothing,
            !.touched.raw = @ \cup {<<i, at>>},
            !.index[i] = Append(@, [origin |-> content, at |-> at]),
            !.state[i] = [status |-> "converted", origin |-> content, at |-> at],
            !.pending = Append(@, <<i, version>>)]

\* The artefact is written, and accounted for.
WriteRaw(p) ==
  /\ run[p].pc = "raw"
  /\ LET i       == run[p].doing[1]
         content == run[p].doing[2]
         version == Version(run[p].index, i)
         at      == VersionedPath(i, version)
     IN /\ raw' = Written(<<i, at>>, content)
        /\ run' = [run EXCEPT ![p] = Entered(@, i, content, version, at)]
  /\ UNCHANGED <<source, originals, index, chain, state, signed, lexical, hand, counts>>

\* Mutant: the provenance of a batch is written when it closes.
PublishIndexChainLast(p) ==
  /\ run[p].pc = "publish"
  /\ index' = run[p].index
  /\ Rewrite("accounts")
  /\ run' = [run EXCEPT ![p].wrote = TRUE,
       ![p].pc = IF run[p].pending # <<>> /\ run[p].closing THEN "chain" ELSE "state"]
  /\ UNCHANGED <<source, originals, raw, chain, state, lexical, counts>>

\* publish: the copy of the old index and the index, ...
PublishIndex(p) ==
  /\ run[p].pc = "publish"
  /\ index' = run[p].index
  /\ Rewrite("accounts")
  /\ run' = [run EXCEPT ![p].wrote = TRUE,
       ![p].pc = IF run[p].pending # <<>> THEN "chain" ELSE "state"]
  /\ UNCHANGED <<source, originals, raw, chain, state, lexical, counts>>

\* ... the whole chain and its pointer, if there are new records, ...
PublishChain(p) ==
  /\ run[p].pc = "chain"
  /\ chain' = run[p].chain \o run[p].pending
  /\ Rewrite("accounts")
  /\ run' = [run EXCEPT ![p] =
       [@ EXCEPT !.pc = "state", !.chain = chain', !.pending = <<>>]]
  /\ UNCHANGED <<source, originals, raw, index, state, lexical, counts>>

\* ... and the state last (the raw manifest, which follows the last publish of
\* a run that touched a file, is written with it).
PublishState(p) ==
  /\ run[p].pc = "state"
  /\ state' = run[p].state
  /\ Rewrite("accounts")
  /\ run' = [run EXCEPT ![p] = Proceed(p, @)]
  /\ UNCHANGED <<source, originals, raw, index, chain, lexical, counts>>

\* save_refresh_state writes its file ...
SaveRefreshState(p) ==
  /\ run[p].pc = "save"
  /\ Rewrite("refresh-state")
  /\ run' = [run EXCEPT ![p].pc = "sign_save"]
  /\ UNCHANGED <<source, originals, raw, index, chain, state, lexical, counts>>

\* refresh_hook: a published generation that is not of today's index is built
\* again; what it raises goes into the report.
RefreshHook(p) ==
  /\ run[p].pc = "hook"
  /\ run' = [run EXCEPT ![p] =
       IF lexical = Generation(index) \/ ~Collectable THEN Idle
       ELSE [pc |-> "publish_lexical", generation |-> Generation(index)]]
  /\ UNCHANGED <<source, disk, hand, counts>>

\* publish collects again, and refuses another generation.
PublishLexical(p) ==
  /\ run[p].pc = "publish_lexical"
  /\ IF Collectable /\ Generation(index) = run[p].generation
     THEN /\ lexical' = run[p].generation
          /\ Rewrite("lexical")
          /\ run' = [run EXCEPT ![p] = [pc |-> "sign_lexical"]]
     ELSE /\ run' = [run EXCEPT ![p] = Idle]
          /\ UNCHANGED <<signed, lexical, hand>>
  /\ UNCHANGED <<source, originals, raw, index, chain, state, counts>>

\* What a run may have changed where it calls refresh_manifest: what its plan
\* can explain, or the one file it has just written.
Explains(r, m) ==
  \/ /\ r.pc = "sign"
     /\ Unchanged(m, r.touched.originals \cup OwnedOriginals(r),
                     r.touched.raw \cup OwnedRaw(r), {"accounts"})
  \/ r.pc = "sign_save" /\ Unchanged(m, {}, {}, {"refresh-state"})
  \/ r.pc = "sign_lexical" /\ Unchanged(m, {}, {}, {"lexical"})

\* Where it goes on, when the manifest is written.
AfterSign(p, r) ==
  CASE r.pc = "sign" -> AfterPlan(p, r)
    [] r.pc = "sign_save" -> [r EXCEPT !.pc = "hook"]
    [] OTHER -> Idle

\* refresh_manifest: the manifest is loaded, ...
LoadManifest(p) ==
  /\ run[p].pc \in {"sign", "sign_save", "sign_lexical"} /\ hand[p].step = "none"
  /\ hand' = [hand EXCEPT ![p] = Hand("loaded", signed)]
  /\ UNCHANGED <<source, disk, run, counts>>

\* ... the tree is scanned and compared with it; a change that the caller does
\* not allow is a LedgerViolation, and ends the run; ...
ScanTree(p) ==
  /\ hand[p].step = "loaded"
  /\ IF Explains(run[p], hand[p].manifest)
     THEN hand' = [hand EXCEPT ![p] = Hand("scanned", Tree)] /\ UNCHANGED run
     ELSE /\ hand' = [hand EXCEPT ![p] = NoHand]
          /\ run' = [run EXCEPT ![p] = Idle]
  /\ UNCHANGED <<source, disk, counts>>

\* ... and what was scanned is written.
WriteManifest(p) ==
  /\ hand[p].step = "scanned"
  /\ signed' = hand[p].manifest
  /\ hand' = [hand EXCEPT ![p] = NoHand]
  /\ run' = [run EXCEPT ![p] = AfterSign(p, @)]
  /\ UNCHANGED <<source, originals, raw, index, chain, state, lexical, counts>>

\* A process dies, or a write of the storage fails.
Crash(p) ==
  /\ run[p] # Idle /\ mishaps < MaxMishaps
  /\ run' = [run EXCEPT ![p] = Idle]
  /\ hand' = [hand EXCEPT ![p] = NoHand]
  /\ crashes' = crashes + 1 /\ mishaps' = mishaps + 1
  /\ UNCHANGED <<source, disk, overlaps>>

\* The source is edited.
Edit ==
  /\ mishaps < MaxMishaps /\ mishaps' = mishaps + 1
  /\ \E i \in Items, c \in Contents \cup {Nothing} :
       c # source[i] /\ source' = [source EXCEPT ![i] = c]
  /\ UNCHANGED <<disk, run, hand, crashes, overlaps>>

Step(p) ==
  \/ LoadIndex(p) \/ LoadStateAndChain(p)
  \/ FetchFails(p) \/ SkipDone(p) \/ Archive(p) \/ WriteRaw(p)
  \/ PublishIndex(p) \/ PublishChain(p) \/ PublishState(p)
  \/ SaveRefreshState(p) \/ RefreshHook(p) \/ PublishLexical(p)
  \/ LoadManifest(p) \/ ScanTree(p) \/ WriteManifest(p)

Next == Edit \/ \E p \in Runs : Start(p) \/ Step(p) \/ Crash(p)

Spec == Init /\ [][Next]_vars

\* A run that is going goes on; the timer starts the nightly ones.
FairSpec ==
  /\ Spec
  /\ \A p \in Runs : WF_vars(Step(p))
  /\ \A p \in Nightly : WF_vars(Start(p))

-----------------------------------------------------------------------------
Alone == overlaps = 0
Quiet == \A p \in Runs : run[p] = Idle
Recorded(i, n) == \E k \in DOMAIN chain : chain[k] = <<i, n>>

(* What the accounts on disk refer to exists, whatever overlapped or died: *)
(* the originals and raw files of every version in the index, the original *)
(* of every state row.  Without overlap a row "converted" has a version of *)
(* that content in the index: no item is done by the state and found by no *)
(* account.  (The order of publish; missing_raw, missing_originals and     *)
(* missing_index of reconcile_coverage.)                                   *)
AccountsAreBacked ==
  \A i \in Items :
    /\ \A n \in DOMAIN index[i] :
         /\ <<i, index[i][n].at>> \in DOMAIN raw
         /\ <<i, index[i][n].origin>> \in originals
    /\ state[i].origin # Nothing => <<i, state[i].origin>> \in originals
    /\ Alone /\ state[i].status = "converted" =>
         \E n \in DOMAIN index[i] : index[i][n].origin = state[i].origin

(* Without overlap each version of a timeline item in the index still has  *)
(* the file it was recorded with, after any deaths, retries and new        *)
(* versions.  (versioned_path: raw only grows.)                            *)
TimelineOnlyGrows ==
  Alone => \A i \in Timeline : \A n \in DOMAIN index[i] :
    raw[<<i, index[i][n].at>>] = index[i][n].origin

(* Without overlap the provenance misses a version of the index only where *)
(* a run is about to write it, or died there: one for each death.          *)
(* (Accounts.publish: after every item.)                                   *)
ProvenanceKept ==
  Alone =>
    Cardinality(UNION {{<<i, n>> : n \in {m \in DOMAIN index[i] : ~Recorded(i, m)}}
                       : i \in Items})
      <= crashes + Cardinality({p \in Runs : run[p].pc = "chain"})

(* While no run overlapped or died, the manifest describes the tree when   *)
(* no run is going: batches that failed, skipped or found nothing new      *)
(* included.  (The end of execute_plan and of refresh_library.)            *)
SignedAtRest == Alone /\ crashes = 0 /\ Quiet => signed = Tree

Landed ==
  \A i \in Items : source[i] \in Contents \ Refused =>
    /\ <<i, source[i]>> \in originals
    /\ state[i].status \in Terminal /\ state[i].origin = source[i]
    /\ source[i] \notin Skipped =>
         /\ index[i] # <<>> /\ Last(index[i]).origin = source[i]
         /\ <<i, Last(index[i]).at>> \in DOMAIN raw

(* Once the source, the network and the machine are still, the refreshes   *)
(* bring every item that can be ingested into state, index and raw: also   *)
(* one that failed, was interrupted, or was lost to a run that overlapped. *)
EveryItemLands == <>[]Landed
=============================================================================
