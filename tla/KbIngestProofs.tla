--------------------------- MODULE KbIngestProofs ---------------------------
(***************************************************************************)
(* Proofs about the ingest of a library: for any items, contents, runs and *)
(* number of edits, faults, deaths and overlaps.                           *)
(*                                                                         *)
(* A run works on a copy of the accounts.  Whoever overlaps it, what the   *)
(* copy refers to is in the archive and in raw (BackedInv), since both     *)
(* only grow and every entry is made after its files.  While no run has    *)
(* overlapped another, its copy is the accounts but for the one version it *)
(* is about to publish (Copies), what the manifest does not know the run   *)
(* can explain (Explained), and a version without provenance is about to   *)
(* get it or was cut off by a death (Accounted).                           *)
(***************************************************************************)
EXTENDS KbIngest, FiniteSetTheorems, TLAPS

(* What the variables hold, in every state of every instance.              *)
Archivable   == Items \X Contents
Files        == Items \X Nat
RawFiles     == UNION {[D -> Contents] : D \in SUBSET Files}
Versions     == [origin : Contents, at : Nat]
Rows         == [status : {"none", "converted", "skipped", "failed"},
                 origin : Contents \cup {Nothing}, at : Nat]
Indexes      == [Items -> Seq(Versions)]
States       == [Items -> Rows]
Chains       == Seq(Items \X Nat)
SystemFiles  == {"accounts", "refresh-state", "lexical"}
Manifests    == [originals : SUBSET Archivable, raw : RawFiles, stale : SUBSET SystemFiles]

\* Where a run still has its plan, and has not yet left it behind.
PlanPoints == {"load_index", "load_state", "items", "raw", "publish", "chain",
               "state", "sign", "save", "sign_save", "hook"}

Plans ==
  [pc : PlanPoints, todo : SUBSET Items, doing : Archivable \cup {Nothing},
   index : Indexes, state : States, chain : Chains, pending : Chains,
   touched : [originals : SUBSET Archivable, raw : SUBSET Files],
   wrote : BOOLEAN, failed : BOOLEAN, closing : BOOLEAN]

\* The last two points of the hook.
Hooked(r) == r.pc \in {"publish_lexical", "sign_lexical"}

DiskTypes ==
  /\ source \in [Items -> Contents \cup {Nothing}]
  /\ originals \in SUBSET Archivable
  /\ raw \in RawFiles
  /\ index \in Indexes
  /\ chain \in Chains
  /\ state \in States
  /\ signed \in Manifests

RunTypes ==
  /\ DOMAIN run = Runs
  /\ \A p \in Runs : run[p] = Idle \/ Hooked(run[p]) \/ run[p] \in Plans

CountTypes == crashes \in Nat /\ overlaps \in Nat

Types == DiskTypes /\ RunTypes /\ CountTypes

\* Accounts whose files exist.
Backed(idx, st) ==
  \A i \in Items :
    /\ \A n \in DOMAIN idx[i] : /\ <<i, idx[i][n].at>> \in DOMAIN raw
                                /\ <<i, idx[i][n].origin>> \in originals
    /\ st[i].origin # Nothing => <<i, st[i].origin>> \in originals

\* Each version of a timeline item has the path of its number.
InPlace(idx) == \A i \in Timeline : \A n \in DOMAIN idx[i] : idx[i][n].at = n

\* The copy of a run, whoever else writes.
BackedCopy(r) ==
  /\ Backed(r.index, r.state) /\ InPlace(r.index)
  /\ r.pc = "raw" => r.doing \in originals

BackedInv ==
  /\ Backed(index, state) /\ InPlace(index)
  /\ \A p \in Runs : run[p] \in Plans => BackedCopy(run[p])

\* Accounts that agree: what the state calls converted is in the index.
Agree(idx, st) ==
  \A i \in Items : st[i].status = "converted" =>
    \E n \in DOMAIN idx[i] : idx[i][n].origin = st[i].origin

\* Each version of a timeline item has the file it was recorded with.
Kept(idx) ==
  \A i \in Timeline : \A n \in DOMAIN idx[i] :
    raw[<<i, idx[i][n].at>>] = idx[i][n].origin

\* The versions in the index that the provenance does not have.
Missing == UNION {{<<i, n>> : n \in {m \in DOMAIN index[i] : ~Recorded(i, m)}} : i \in Items}

\* The versions a run is about to record.
Due(r) == IF r.pc = "chain" THEN {r.pending[1]} ELSE {}

\* But for those that are due, one version without provenance for each death.
Accounted(due) ==
  IsFiniteSet(Missing \ due) /\ Cardinality(Missing \ due) <= crashes

\* The copy a run is about to publish: the index, and at most one version
\* more, which is pending.
Ahead(r) ==
  \A i \in Items :
    /\ \A n \in DOMAIN index[i] : n \in DOMAIN r.index[i] /\ r.index[i][n] = index[i][n]
    /\ \A n \in DOMAIN r.index[i] \ DOMAIN index[i] : r.pending = <<<<i, n>>>>

Working == {"items", "raw", "publish", "chain", "state"}

\* The copies of a run that is alone.
Copies(r) ==
  /\ r.pc = "load_state" => r.index = index
  /\ r.pc \in {"load_index", "load_state"} => r.pending = <<>> /\ ~r.closing
  /\ r.pc \in Working =>
       /\ r.chain = chain /\ Agree(r.index, r.state) /\ Kept(r.index)
       /\ r.pc = "publish" => Ahead(r) /\ Len(r.pending) <= 1
       /\ r.pc # "publish" => r.index = index
       /\ r.pc \in {"items", "raw", "state"} => r.pending = <<>>
       /\ r.pc = "chain" => Len(r.pending) = 1
       /\ r.pc \in {"chain", "state"} => r.wrote
       /\ r.closing => r.todo = {}

\* What the manifest does not know, the run does.
Explained(r) ==
  /\ originals \ signed.originals \subseteq r.touched.originals
  /\ ChangedRaw(signed) \subseteq r.touched.raw
  /\ signed.stale \subseteq {"accounts"}
  /\ ~TouchedFiles(r) /\ ~r.wrote => signed = Tree

Marked(file) == [originals |-> originals, raw |-> raw, stale |-> {file}]

\* Where the manifest stands while a run is alone and none has died.
Manifest(r) ==
  /\ r.pc \in {"load_index", "load_state", "save", "hook", "publish_lexical"} => signed = Tree
  /\ r.pc \in Working \cup {"sign"} => Explained(r)
  /\ r.pc = "sign_save" => signed = Marked("refresh-state")
  /\ r.pc = "sign_lexical" => signed = Marked("lexical")

AtWork(r) ==
  /\ Accounted(Due(r))
  /\ r \in Plans => Copies(r)
  /\ crashes = 0 => Manifest(r)

AtRest == Accounted({}) /\ (crashes = 0 => signed = Tree)

AloneInv ==
  Alone =>
    /\ Agree(index, state) /\ Kept(index)
    /\ Quiet => AtRest
    /\ \A p \in Runs : run[p] # Idle =>
         (\A q \in Runs : q # p => run[q] = Idle) /\ AtWork(run[p])

IngestInv == Types /\ BackedInv /\ AloneInv

\* The manifests that runs have in hand, and where they have one.
SigningPoints == {"sign", "sign_save", "sign_lexical"}
Hands == [step : {"none", "loaded", "scanned"}, manifest : Manifests]

HandTypes ==
  /\ DOMAIN hand = Runs
  /\ \A p \in Runs : /\ hand[p] \in Hands
                     /\ hand[p].step # "none" => run[p].pc \in SigningPoints

\* What a run that is alone has loaded or scanned is what is there.
HeldInv ==
  Alone /\ crashes = 0 =>
    \A p \in Runs : /\ hand[p].step = "loaded" => hand[p].manifest = signed
                    /\ hand[p].step = "scanned" => hand[p].manifest = Tree

HandInv == HandTypes /\ HeldInv

-----------------------------------------------------------------------------
(* The parts of a step.                                                    *)

\* A run that is at a point of its plan has one.
LEMMA HasPlan ==
  ASSUME NEW p \in Runs, RunTypes, run[p].pc \in PlanPoints
  PROVE  run[p] \in Plans
BY DEF RunTypes, PlanPoints, Idle, Hooked

\* A step of a run leaves the others alone.
LEMMA Frame ==
  ASSUME NEW p \in Runs, NEW s, DOMAIN run = Runs, run' = [run EXCEPT ![p] = s]
  PROVE  DOMAIN run' = Runs /\ run'[p] = s /\ \A q \in Runs : q # p => run'[q] = run[q]
OBVIOUS

\* The run s is the run r, after its item i has failed.
IsFailed(r, i, s) ==
  /\ s \in Plans /\ s.pc = "publish" /\ s.todo = r.todo \ {i}
  /\ s.index = r.index /\ s.chain = r.chain /\ s.pending = r.pending
  /\ s.touched = r.touched /\ s.wrote = r.wrote /\ s.closing = r.closing
  /\ \A j \in Items : /\ s.state[j].origin = r.state[j].origin
                      /\ s.state[j].status = "converted" => r.state[j].status = "converted"

\* What is left for later is as it was.
LEMMA SetFailedFields ==
  ASSUME NEW r \in Plans, NEW i \in Items, NEW s, s = SetFailed(r, i)
  PROVE  IsFailed(r, i, s)
<1>. DEFINE w == [r.state EXCEPT ![i] = [@ EXCEPT !.status = "failed"]]
<1>1. /\ w \in States
      /\ \A j \in Items : /\ w[j].origin = r.state[j].origin
                          /\ w[j].status = "converted" => r.state[j].status = "converted"
  BY DEF Plans, States, Rows
<1>2. s = [r EXCEPT !.pc = "publish", !.todo = @ \ {i}, !.failed = TRUE, !.state = w]
  BY DEF SetFailed, Plans
<1>. HIDE DEF w
<1>3. s \in Plans
  BY <1>1, <1>2, ZenonT(30) DEF Plans, PlanPoints
<1>4. s.state = w
  BY <1>2 DEF Plans
<1>5. /\ s.pc = "publish" /\ s.todo = r.todo \ {i}
      /\ s.index = r.index /\ s.chain = r.chain /\ s.pending = r.pending
      /\ s.touched = r.touched /\ s.wrote = r.wrote /\ s.closing = r.closing
  BY <1>2 DEF Plans
<1>. QED  BY <1>1, <1>3, <1>4, <1>5 DEF IsFailed

\* The run after an item or a publish.
LEMMA ProceedFields ==
  ASSUME NEW p \in Runs, NEW r \in Plans, NEW s, s = Proceed(p, r)
  PROVE  /\ s \in Plans =>
              /\ s.index = r.index /\ s.state = r.state /\ s.chain = r.chain
              /\ s.pending = r.pending /\ s.touched = r.touched
              /\ s.wrote = r.wrote /\ s.todo = r.todo
         /\ \/ s \in Plans /\ s.pc = "items" /\ s.closing = r.closing /\ s.todo # {}
            \/ s \in Plans /\ s.pc = "publish" /\ s.todo = {}
            \/ s \in Plans /\ s.pc = "sign"
            \/ /\ s = Idle \/ (s \in Plans /\ s.pc = "save")
               /\ ~r.wrote /\ (r.closing \/ ~TouchedFiles(r))
<1>1. CASE r.todo # {}
  <2>1. s = [r EXCEPT !.pc = "items"]
    BY <1>1 DEF Proceed
  <2>. QED  BY <1>1, <2>1 DEF Plans, PlanPoints
<1>2. CASE r.todo = {}
  <2>1. s = EndPlan(p, r)
    BY <1>2 DEF Proceed
  <2>2. CASE ~r.closing /\ (TouchedFiles(r) \/ r.failed)
    <3>1. s = [r EXCEPT !.pc = "publish", !.closing = TRUE]
      BY <2>1, <2>2 DEF EndPlan
    <3>. QED  BY <1>2, <3>1 DEF Plans, PlanPoints
  <2>3. CASE ~(~r.closing /\ (TouchedFiles(r) \/ r.failed)) /\ r.wrote
    <3>1. s = [r EXCEPT !.pc = "sign"]
      BY <2>1, <2>3 DEF EndPlan, MustSign
    <3>. QED  BY <3>1 DEF Plans, PlanPoints
  <2>4. CASE ~(~r.closing /\ (TouchedFiles(r) \/ r.failed)) /\ ~r.wrote
    <3>1. s = Idle \/ s = [r EXCEPT !.pc = "save"]
      BY <2>1, <2>4 DEF EndPlan, MustSign, AfterPlan
    <3>2. Idle \notin Plans
      BY DEF Idle, Plans, PlanPoints
    <3>. QED  BY <2>4, <3>1, <3>2 DEF Plans, PlanPoints
  <2>. QED  BY <2>2, <2>3, <2>4
<1>. QED  BY <1>1, <1>2

\* The run s is the run r, after the original of its item i is archived.
IsArchived(r, i, s) ==
  /\ s \in Plans /\ s.todo = r.todo \ {i}
  /\ s.index = r.index /\ s.chain = r.chain
  /\ s.wrote = r.wrote /\ s.closing = r.closing
  /\ s.touched.originals = r.touched.originals \cup ({<<i, source[i]>>} \ originals)
  /\ s.touched.raw = r.touched.raw
  /\ \A j \in Items : /\ \/ s.state[j].origin = r.state[j].origin
                         \/ j = i /\ s.state[j].origin = source[i]
                      /\ s.state[j].status = "converted" =>
                           /\ r.state[j].status = "converted"
                           /\ s.state[j].origin = r.state[j].origin
  /\ \/ s.pc = "publish" /\ s.pending = r.pending
     \/ s.pc = "publish" /\ s.pending = Append(r.pending, <<i, 0>>)
     \/ s.pc = "raw" /\ s.pending = r.pending /\ s.doing = <<i, source[i]>>

\* It fails, is only archived, or goes on to its artefact.
LEMMA ArchivedFields ==
  ASSUME NEW r \in Plans, NEW i \in Items, NEW s, s = Archived(r, i), DiskTypes,
         source[i] # Nothing
  PROVE  IsArchived(r, i, s)
<1>. DEFINE t == [originals |-> r.touched.originals \cup ({<<i, source[i]>>} \ originals),
                  raw |-> r.touched.raw]
            a == [r EXCEPT !.todo = @ \ {i}, !.touched = t]
<1>1. source[i] \in Contents /\ <<i, source[i]>> \in Archivable
  BY DEF DiskTypes, Archivable
<1>2. t \in [originals : SUBSET Archivable, raw : SUBSET Files]
  BY <1>1 DEF Plans
<1>3. s = IF source[i] \in Refused THEN SetFailed(a, i)
          ELSE IF source[i] \in Skipped
          THEN [a EXCEPT !.pc = "publish",
                         !.state[i] = [@ EXCEPT !.status = "skipped", !.origin = source[i]],
                         !.pending = Append(@, <<i, 0>>)]
          ELSE [a EXCEPT !.pc = "raw", !.doing = <<i, source[i]>>]
  <2>. DEFINE b == [r EXCEPT !.todo = @ \ {i},
                            !.touched.originals = @ \cup ({<<i, source[i]>>} \ originals)]
  <2>1. b = a
    <3>1. [r.touched EXCEPT !.originals = @ \cup ({<<i, source[i]>>} \ originals)] = t
      BY DEF Plans
    <3>. HIDE DEF t
    <3>. QED  BY <3>1
  <2>2. s = IF source[i] \in Refused THEN SetFailed(b, i)
            ELSE IF source[i] \in Skipped
            THEN [b EXCEPT !.pc = "publish",
                           !.state[i] = [@ EXCEPT !.status = "skipped", !.origin = source[i]],
                           !.pending = Append(@, <<i, 0>>)]
            ELSE [b EXCEPT !.pc = "raw", !.doing = <<i, source[i]>>]
    BY DEF Archived
  <2>. QED  BY <2>1, <2>2
<1>4. a = [r EXCEPT !.todo = @ \ {i}, !.touched = t]
  OBVIOUS
<1>. HIDE DEF a, t
<1>5. /\ a \in Plans /\ a.todo = r.todo \ {i} /\ a.touched = t
      /\ a.index = r.index /\ a.chain = r.chain /\ a.state = r.state
      /\ a.wrote = r.wrote /\ a.closing = r.closing /\ a.pending = r.pending
  BY <1>2, <1>4 DEF Plans
<1>6. CASE source[i] \in Refused
  <2>1. s = SetFailed(a, i)
    BY <1>3, <1>6
  <2>2. IsFailed(a, i, s)
    BY <1>5, <2>1, SetFailedFields
  <2>3. s.todo = r.todo \ {i}
    BY <1>5, <2>2 DEF IsFailed
  <2>. QED  BY <1>5, <2>2, <2>3 DEF IsFailed, IsArchived, t
<1>7. CASE source[i] \notin Refused /\ source[i] \in Skipped
  <2>. DEFINE w == [a.state EXCEPT ![i] = [@ EXCEPT !.status = "skipped", !.origin = source[i]]]
              l == Append(a.pending, <<i, 0>>)
  <2>1. /\ w \in States
        /\ \A j \in Items : /\ \/ w[j].origin = a.state[j].origin
                               \/ j = i /\ w[j].origin = source[i]
                            /\ w[j].status = "converted" =>
                                 /\ a.state[j].status = "converted"
                                 /\ w[j].origin = a.state[j].origin
    <3>1. a.state \in States
      BY <1>5 DEF Plans
    <3>2. w[i] = [a.state[i] EXCEPT !.status = "skipped", !.origin = source[i]]
      BY <3>1 DEF States
    <3>3. w[i] \in Rows /\ w[i].status = "skipped" /\ w[i].origin = source[i]
      BY <1>1, <3>1, <3>2 DEF States, Rows
    <3>4. \A j \in Items : j # i => w[j] = a.state[j]
      BY <3>1 DEF States
    <3>5. w \in States
      BY <3>1, <3>3 DEF States
    <3>. QED  BY <3>3, <3>4, <3>5
  <2>2. l \in Chains /\ l = Append(a.pending, <<i, 0>>)
    BY <1>5 DEF Plans, Chains
  <2>3. s = [a EXCEPT !.pc = "publish", !.state = w, !.pending = l]
    BY <1>3, <1>5, <1>7 DEF Plans
  <2>. HIDE DEF w, l
  <2>4. s \in Plans
    BY <1>5, <2>1, <2>2, <2>3, ZenonT(30) DEF Plans, PlanPoints
  <2>5. /\ s.pc = "publish" /\ s.todo = a.todo /\ s.index = a.index
        /\ s.chain = a.chain /\ s.touched = a.touched /\ s.wrote = a.wrote
        /\ s.closing = a.closing /\ s.state = w /\ s.pending = l
    BY <1>5, <2>3 DEF Plans
  <2>. QED  BY <1>5, <2>1, <2>2, <2>4, <2>5 DEF IsArchived, t
<1>8. CASE source[i] \notin Refused /\ source[i] \notin Skipped
  <2>1. s = [a EXCEPT !.pc = "raw", !.doing = <<i, source[i]>>]
    BY <1>3, <1>8
  <2>2. s \in Plans
    BY <1>1, <1>5, <2>1 DEF Plans, PlanPoints
  <2>3. /\ s.pc = "raw" /\ s.doing = <<i, source[i]>>
        /\ s.todo = a.todo /\ s.index = a.index /\ s.state = a.state
        /\ s.chain = a.chain /\ s.pending = a.pending
        /\ s.touched = a.touched /\ s.wrote = a.wrote /\ s.closing = a.closing
    BY <1>5, <2>1 DEF Plans
  <2>4. /\ s.todo = r.todo \ {i} /\ s.index = r.index /\ s.chain = r.chain
        /\ s.wrote = r.wrote /\ s.closing = r.closing /\ s.touched = t
        /\ s.state = r.state /\ s.pending = r.pending
    BY <1>5, <2>3
  <2>. QED  BY <2>2, <2>3, <2>4 DEF IsArchived, t
<1>. QED  BY <1>6, <1>7, <1>8

-----------------------------------------------------------------------------
(* What a step of a run has to show.                                       *)

\* A run that goes on, or ends.
Typed(s) == s = Idle \/ Hooked(s) \/ s \in Plans

\* Every run goes on, or has ended.
LEMMA TypedFrame ==
  ASSUME NEW p \in Runs, NEW s, RunTypes, Typed(s), run' = [run EXCEPT ![p] = s]
  PROVE  RunTypes'
<1>1. DOMAIN run' = Runs /\ run'[p] = s /\ \A q \in Runs : q # p => run'[q] = run[q]
  BY Frame DEF RunTypes
<1>2. \A q \in Runs : Typed(run'[q])
  BY <1>1 DEF RunTypes, Typed
<1>. QED  BY <1>1, <1>2 DEF RunTypes, Typed

\* What was backed is, where originals and raw only grow.
LEMMA StillBacked ==
  ASSUME NEW idx, NEW st, Backed(idx, st), originals \subseteq originals',
         DOMAIN raw \subseteq DOMAIN raw'
  PROVE  Backed(idx, st)'
BY DEF Backed

\* Every copy is backed, if the one of the run that steps is.
LEMMA BackedFrame ==
  ASSUME NEW p \in Runs, NEW s, RunTypes, BackedInv, run' = [run EXCEPT ![p] = s],
         originals \subseteq originals', DOMAIN raw \subseteq DOMAIN raw',
         Backed(index, state)', InPlace(index)', s \in Plans => BackedCopy(s)'
  PROVE  BackedInv'
<1>1. run'[p] = s /\ \A q \in Runs : q # p => run'[q] = run[q]
  BY Frame DEF RunTypes
<1>2. ASSUME NEW q \in Runs, q # p, run[q] \in Plans
      PROVE  BackedCopy(run[q])'
  <2>1. PICK c : c = run[q]
    OBVIOUS
  <2>2. BackedCopy(c)
    BY <1>2, <2>1 DEF BackedInv
  <2>3. BackedCopy(c)'
    BY <2>2, StillBacked DEF BackedCopy
  <2>4. run'[q] = c
    BY <1>1, <1>2, <2>1
  <2>. QED  BY <2>3, <2>4
<1>. QED  BY <1>1, <1>2 DEF BackedInv

\* A step of the run that is alone, to the run s or to its end.
LEMMA AloneFrame ==
  ASSUME NEW p \in Runs, NEW s, RunTypes, AloneInv, run[p] # Idle,
         run' = [run EXCEPT ![p] = s], overlaps' = overlaps,
         Alone => /\ Agree(index, state)' /\ Kept(index)'
                  /\ s = Idle => AtRest'
                  /\ s # Idle => AtWork(s)'
  PROVE  AloneInv'
<1>1. run'[p] = s /\ \A q \in Runs : q # p => run'[q] = run[q]
  BY Frame DEF RunTypes
<1>. SUFFICES ASSUME Alone'
              PROVE  /\ Agree(index, state)' /\ Kept(index)'
                     /\ Quiet' => AtRest'
                     /\ \A q \in Runs : run'[q] # Idle =>
                          /\ \A o \in Runs : o # q => run'[o] = Idle
                          /\ AtWork(run[q])'
  BY Zenon DEF AloneInv
<1>2. Alone
  BY DEF Alone
<1>3. \A q \in Runs : q # p => run[q] = Idle
  BY <1>2 DEF AloneInv
<1>4. Quiet' => AtRest'
  BY <1>1, <1>2 DEF Quiet
<1>5. ASSUME NEW q \in Runs, run'[q] # Idle
      PROVE  /\ \A o \in Runs : o # q => run'[o] = Idle
             /\ AtWork(run[q])'
  <2>1. q = p
    BY <1>1, <1>3, <1>5
  <2>. QED  BY <1>1, <1>2, <1>3, <1>5, <2>1
<1>. QED  BY <1>2, <1>4, <1>5

\* The provenance owes no more while index and provenance stay.
LEMMA StillAccounted ==
  ASSUME NEW r, NEW s, Accounted(Due(r)), r.pc # "chain" \/ r.pending = s.pending,
         r.pc = "chain" <=> s.pc = "chain", UNCHANGED <<index, chain, crashes>>
  PROVE  Accounted(Due(s))'
BY DEF Accounted, Due, Missing, Recorded

-----------------------------------------------------------------------------
(* The beginning.                                                          *)

\* A library that has just been created keeps all of it.
LEMMA IngestBegins == Init => IngestInv
<1>. SUFFICES ASSUME Init PROVE IngestInv
  OBVIOUS
<1>. USE IngestAssumption DEF Init
<1>1. raw \in RawFiles
  <2>1. DOMAIN raw = {} /\ raw = [f \in {} |-> raw[f]]
    OBVIOUS
  <2>2. raw \in [{} -> Contents]
    BY <2>1
  <2>. QED  BY <2>2 DEF RawFiles
<1>2. DiskTypes
  BY <1>1 DEF DiskTypes, Archivable, Indexes, Chains, States, Rows, NoRow, Manifests, Tree,
              SystemFiles
<1>3. RunTypes /\ CountTypes
  BY DEF RunTypes, CountTypes
<1>4. BackedInv
  <2>1. Idle \notin Plans
    BY DEF Plans, PlanPoints, Idle
  <2>. QED  BY <2>1 DEF BackedInv, Backed, InPlace, NoRow
<1>5. AloneInv
  <2>1. Missing = {}
    BY DEF Missing
  <2>2. Accounted({})
    BY <2>1, FS_EmptySet DEF Accounted
  <2>. QED  BY <2>2 DEF AloneInv, Alone, Agree, Kept, AtRest, NoRow
<1>. QED  BY <1>2, <1>3, <1>4, <1>5 DEF IngestInv, Types

-----------------------------------------------------------------------------
(* The steps.                                                              *)

\* The parts of the invariant that speak of the disk only.
LEMMA DiskStays ==
  ASSUME DiskTypes, UNCHANGED <<source, originals, raw, index, chain, state>>,
         signed' \in Manifests
  PROVE  DiskTypes'
BY DEF DiskTypes

\* A run that starts has copied nothing; if it is alone, the library is at rest.
LEMMA StartStep ==
  ASSUME NEW p \in Runs, IngestInv, Start(p)
  PROVE  IngestInv'
<1>. USE DEF IngestInv, Types
<1>1. PICK s : /\ run' = [run EXCEPT ![p] = s]
               /\ \E plan \in SUBSET Items :
                    s = [pc |-> "load_index", todo |-> plan, doing |-> Nothing,
                         index |-> [i \in Items |-> <<>>], state |-> [i \in Items |-> NoRow],
                         chain |-> <<>>, pending |-> <<>>,
                         touched |-> [originals |-> {}, raw |-> {}],
                         wrote |-> FALSE, failed |-> FALSE, closing |-> FALSE]
  BY DEF Start
<1>2. /\ s \in Plans /\ s.pc = "load_index" /\ s.pending = <<>> /\ ~s.closing
      /\ \A i \in Items : s.index[i] = <<>> /\ s.state[i] = NoRow
  BY <1>1 DEF Plans, PlanPoints, Indexes, States, Rows, NoRow, Chains
<1>3. DiskTypes'
  BY DiskStays DEF Start, disk, DiskTypes
<1>4. RunTypes'
  BY <1>1, <1>2, TypedFrame DEF Typed
<1>5. CountTypes'
  BY DEF Start, CountTypes
<1>6. BackedInv'
  <2>1. Backed(s.index, s.state)' /\ InPlace(s.index)'
    BY <1>2, IngestAssumption DEF Backed, InPlace, NoRow
  <2>2. Backed(index, state)' /\ InPlace(index)'
    BY DEF BackedInv, Backed, InPlace, Start, disk
  <2>3. UNCHANGED <<originals, raw>>
    BY DEF Start, disk
  <2>. QED  BY <1>1, <1>2, <2>1, <2>2, <2>3, BackedFrame DEF BackedCopy
<1>7. AloneInv'
  <2>. SUFFICES ASSUME Alone'
                PROVE  /\ Agree(index, state)' /\ Kept(index)'
                       /\ Quiet' => AtRest'
                       /\ \A q \in Runs : run'[q] # Idle =>
                            /\ \A o \in Runs : o # q => run'[o] = Idle
                            /\ AtWork(run[q])'
    BY Zenon DEF AloneInv
  <2>1. Alone /\ Quiet
    BY DEF Alone, Start, CountTypes, Quiet
  <2>2. Agree(index, state) /\ Kept(index) /\ AtRest
    BY <2>1 DEF AloneInv
  <2>3. run'[p] = s /\ \A q \in Runs : q # p => run'[q] = Idle
    BY <1>1, <2>1, Frame DEF RunTypes, Quiet
  <2>4. s # Idle
    BY <1>2 DEF Idle
  <2>5. AtWork(s)'
    <3>1. Accounted(Due(s))'
      BY <1>2, <2>2 DEF AtRest, Accounted, Due, Missing, Recorded, Start, disk
    <3>2. Copies(s)'
      BY <1>2 DEF Copies, Working
    <3>3. (crashes = 0 => Manifest(s))'
      BY <1>2, <2>2 DEF AtRest, Manifest, Working, Tree, Start, disk
    <3>. QED  BY <3>1, <3>2, <3>3 DEF AtWork
  <2>6. Agree(index, state)' /\ Kept(index)'
    BY <2>2 DEF Agree, Kept, Start, disk
  <2>. QED  BY <2>3, <2>4, <2>5, <2>6 DEF Quiet
<1>. QED  BY <1>3, <1>4, <1>5, <1>6, <1>7

\* Where disk and runs stay, a run that is alone has what it had.
LEMMA AloneStays ==
  ASSUME AloneInv, UNCHANGED <<disk, run, crashes, overlaps>>
  PROVE  AloneInv'
<1>1. Accounted({}) => Accounted({})'
  BY DEF Accounted, Missing, Recorded, disk
<1>2. ASSUME NEW p \in Runs, AtWork(run[p])
      PROVE  AtWork(run[p])'
  <2>1. PICK r : r = run[p]
    OBVIOUS
  <2>2. Accounted(Due(r))'
    BY <1>2, <2>1, StillAccounted DEF AtWork, disk
  <2>3. r \in Plans => Copies(r)'
    BY <1>2, <2>1 DEF AtWork, Copies, Ahead, Agree, Kept, disk
  <2>4. (crashes = 0 => Manifest(r))'
    BY <1>2, <2>1
       DEF AtWork, Manifest, Explained, ChangedRaw, Tree, Marked, disk
  <2>. QED  BY <2>1, <2>2, <2>3, <2>4 DEF AtWork
<1>. QED
  BY <1>1, <1>2 DEF AloneInv, Alone, Quiet, Agree, Kept, AtRest, Tree, disk

\* So has all of the invariant.
LEMMA DiskAndRunsStay ==
  ASSUME IngestInv, UNCHANGED <<source, disk, run, crashes, overlaps>>
  PROVE  IngestInv'
<1>1. DiskTypes' /\ RunTypes' /\ CountTypes'
  BY DEF IngestInv, Types, DiskTypes, RunTypes, CountTypes, disk
<1>2. BackedInv'
  BY DEF IngestInv, BackedInv, Backed, BackedCopy, InPlace, disk
<1>3. AloneInv'
  BY AloneStays DEF IngestInv
<1>. QED  BY <1>1, <1>2, <1>3 DEF IngestInv, Types

\* An edit of the source is nothing to the accounts.
LEMMA EditStep ==
  ASSUME IngestInv, Edit
  PROVE  IngestInv'
<1>. USE DEF IngestInv, Types
<1>1. DiskTypes'
  BY DEF Edit, DiskTypes, disk
<1>2. RunTypes' /\ CountTypes'
  BY DEF Edit, RunTypes, CountTypes
<1>3. BackedInv'
  BY DEF Edit, BackedInv, Backed, BackedCopy, InPlace, disk
<1>4. AloneInv'
  BY AloneStays DEF Edit
<1>. QED  BY <1>1, <1>2, <1>3, <1>4

\* A step that writes nothing but the manifest.
LEMMA CopyStep ==
  ASSUME NEW p \in Runs, NEW s, IngestInv, run[p] # Idle,
         run' = [run EXCEPT ![p] = s], Typed(s), s \in Plans => BackedCopy(s),
         UNCHANGED <<originals, raw, index, chain, state, overlaps>>,
         source' = source, signed' \in Manifests, crashes' \in Nat,
         Alone /\ AtWork(run[p]) /\ Agree(index, state) /\ Kept(index) =>
           (s = Idle => AtRest') /\ (s # Idle => AtWork(s)')
  PROVE  IngestInv'
<1>. USE DEF IngestInv, Types
<1>1. DiskTypes'
  BY DiskStays
<1>2. RunTypes' /\ CountTypes'
  BY TypedFrame DEF CountTypes
<1>3. BackedInv'
  <2>1. Backed(index, state)' /\ InPlace(index)'
    BY DEF BackedInv, Backed, InPlace
  <2>2. s \in Plans => BackedCopy(s)'
    BY DEF BackedCopy, Backed, InPlace
  <2>. QED  BY <2>1, <2>2, BackedFrame
<1>4. AloneInv'
  <2>1. Alone => AtWork(run[p]) /\ Agree(index, state) /\ Kept(index)
    BY DEF AloneInv
  <2>2. Alone => Agree(index, state)' /\ Kept(index)'
    BY <2>1 DEF Agree, Kept
  <2>. QED  BY <2>1, <2>2, AloneFrame
<1>. QED  BY <1>1, <1>2, <1>3, <1>4

\* The copy that a run loads is the accounts ...
LEMMA LoadIndexStep ==
  ASSUME NEW p \in Runs, IngestInv, LoadIndex(p)
  PROVE  IngestInv'
<1>. USE DEF IngestInv, Types
<1>. DEFINE r == run[p]
<1>1. PICK s : s = [r EXCEPT !.pc = "load_state", !.index = index]
  OBVIOUS
<1>2. r \in Plans /\ r.pc = "load_index" /\ run' = [run EXCEPT ![p] = s]
  BY <1>1, HasPlan DEF LoadIndex, PlanPoints
<1>3. s \in Plans
  BY <1>1, <1>2 DEF Plans, PlanPoints, DiskTypes
<1>4. /\ s.pc = "load_state" /\ s.index = index /\ s.state = r.state
      /\ s.pending = r.pending /\ s.closing = r.closing
  BY <1>1, <1>2 DEF Plans
<1>5. s # Idle /\ r # Idle
  BY <1>2, <1>4 DEF Idle
<1>6. BackedCopy(s)
  BY <1>2, <1>4 DEF BackedInv, BackedCopy, Backed
<1>7. AtWork(r) => AtWork(s)'
  <2>1. UNCHANGED <<disk, counts>>
    BY DEF LoadIndex
  <2>2. AtWork(r) => Accounted(Due(s))'
    BY <1>2, <1>4, <2>1, StillAccounted DEF AtWork, disk, counts
  <2>3. AtWork(r) => Copies(s)'
    BY <1>2, <1>4, <2>1 DEF AtWork, Copies, Working, disk
  <2>4. AtWork(r) => (crashes = 0 => Manifest(s))'
    BY <1>2, <1>4, <2>1 DEF AtWork, Manifest, Working, Tree, disk, counts
  <2>. QED  BY <2>2, <2>3, <2>4 DEF AtWork
<1>. QED
  BY <1>2, <1>3, <1>5, <1>6, <1>7, CopyStep
     DEF LoadIndex, disk, counts, Typed, DiskTypes, CountTypes

\* ... and still is, if no other run writes.
LEMMA LoadStateStep ==
  ASSUME NEW p \in Runs, IngestInv, LoadStateAndChain(p)
  PROVE  IngestInv'
<1>. USE DEF IngestInv, Types
<1>. DEFINE r == run[p]
<1>1. PICK s : s = [r EXCEPT !.pc = "items", !.state = state, !.chain = chain]
  OBVIOUS
<1>2. r \in Plans /\ r.pc = "load_state" /\ run' = [run EXCEPT ![p] = s]
  BY <1>1, HasPlan DEF LoadStateAndChain, PlanPoints
<1>3. s \in Plans
  BY <1>1, <1>2 DEF Plans, PlanPoints, DiskTypes
<1>4. /\ s.pc = "items" /\ s.index = r.index /\ s.state = state /\ s.chain = chain
      /\ s.pending = r.pending /\ s.touched = r.touched /\ s.wrote = r.wrote
      /\ s.closing = r.closing
  BY <1>1, <1>2 DEF Plans
<1>5. s # Idle /\ r # Idle
  BY <1>2, <1>4 DEF Idle
<1>6. BackedCopy(s)
  BY <1>2, <1>4 DEF BackedInv, BackedCopy, Backed
<1>7. AtWork(r) /\ Agree(index, state) /\ Kept(index) => AtWork(s)'
  <2>1. UNCHANGED <<disk, counts>>
    BY DEF LoadStateAndChain
  <2>2. AtWork(r) => Accounted(Due(s))'
    BY <1>2, <1>4, <2>1, StillAccounted DEF AtWork, disk, counts
  <2>3. AtWork(r) /\ Agree(index, state) /\ Kept(index) => Copies(s)'
    BY <1>2, <1>4, <2>1 DEF AtWork, Copies, Working, Agree, Kept, disk
  <2>4. AtWork(r) => (crashes = 0 => Manifest(s))'
    BY <1>2, <1>4, <2>1 DEF AtWork, Manifest, Working, Tree, disk, counts, Explained, ChangedRaw
  <2>. QED  BY <2>2, <2>3, <2>4 DEF AtWork
<1>. QED
  BY <1>2, <1>3, <1>5, <1>6, <1>7, CopyStep
     DEF LoadStateAndChain, disk, counts, Typed, DiskTypes, CountTypes

\* The item a run takes is one of its plan.
LEMMA NextOfPlan ==
  ASSUME NEW p \in Runs, RunTypes, AtItem(p)
  PROVE  /\ run[p] \in Plans /\ run[p] # Idle /\ run[p].pc = "items"
         /\ NextItem(p) \in run[p].todo /\ NextItem(p) \in Items
<1>1. run[p] \in Plans /\ run[p] # Idle
  BY HasPlan DEF AtItem, PlanPoints, Idle
<1>2. \E i \in run[p].todo : TRUE
  BY DEF AtItem
<1>3. NextItem(p) \in run[p].todo
  BY <1>2 DEF NextItem
<1>. QED  BY <1>1, <1>3 DEF Plans, AtItem

\* An item whose source does not answer is failed, in the copy.
LEMMA FetchFailsStep ==
  ASSUME NEW p \in Runs, IngestInv, FetchFails(p)
  PROVE  IngestInv'
<1>. USE DEF IngestInv, Types
<1>. DEFINE r == run[p]
<1>1. PICK i, s : i = NextItem(p) /\ s = SetFailed(r, i)
  OBVIOUS
<1>2. r \in Plans /\ r # Idle /\ r.pc = "items" /\ i \in Items /\ i \in r.todo
  BY <1>1, NextOfPlan DEF FetchFails
<1>3. run' = [run EXCEPT ![p] = s] /\ UNCHANGED <<source, disk, crashes, overlaps>>
  BY <1>1 DEF FetchFails
<1>4. IsFailed(r, i, s)
  BY <1>1, <1>2, SetFailedFields
<1>. USE DEF IsFailed
<1>5. s # Idle
  BY <1>4 DEF Idle
<1>6. BackedCopy(s)
  BY <1>2, <1>4 DEF BackedInv, BackedCopy, Backed
<1>7. AtWork(r) => AtWork(s)'
  <2>1. AtWork(r) => Accounted(Due(s))'
    BY <1>2, <1>3, <1>4, StillAccounted DEF AtWork, disk
  <2>2. AtWork(r) => Copies(s)'
    <3>. SUFFICES ASSUME AtWork(r) PROVE Copies(s)'
      OBVIOUS
    <3>1. /\ r.chain = chain /\ Agree(r.index, r.state) /\ Kept(r.index)
          /\ r.index = index /\ r.pending = <<>> /\ (r.closing => r.todo = {})
      BY <1>2 DEF AtWork, Copies, Working
    <3>2. Agree(s.index, s.state)' /\ Kept(s.index)'
      BY <1>3, <1>4, <3>1 DEF Agree, Kept, disk
    <3>3. Ahead(s)' /\ Len(s.pending) <= 1
      BY <1>3, <1>4, <3>1 DEF Ahead, disk
    <3>. QED  BY <1>2, <1>3, <1>4, <3>1, <3>2, <3>3 DEF Copies, Working, disk
  <2>3. AtWork(r) => (crashes = 0 => Manifest(s))'
    BY <1>2, <1>3, <1>4
       DEF AtWork, Manifest, Working, Explained, ChangedRaw, TouchedFiles, Tree, disk
  <2>. QED  BY <2>1, <2>2, <2>3 DEF AtWork
<1>. QED
  BY <1>2, <1>3, <1>4, <1>5, <1>6, <1>7, CopyStep DEF disk, Typed, DiskTypes, CountTypes

\* A run that is alone, between two items or after its last one.
Settled(r) ==
  /\ r.chain = chain /\ r.index = index /\ Agree(r.index, r.state) /\ Kept(r.index)
  /\ r.pending = <<>>
  /\ r.closing => r.todo = {} /\ r.wrote
  /\ Accounted({})
  /\ crashes = 0 => Explained(r)

\* It goes on, or ends with the manifest signed if it has written.
LEMMA ProceedSettled ==
  ASSUME NEW p \in Runs, NEW r \in Plans, NEW s, s = Proceed(p, r), Settled(r)'
  PROVE  (s = Idle => AtRest') /\ (s # Idle => AtWork(s)')
<1>1. /\ s \in Plans =>
            /\ s.index = r.index /\ s.state = r.state /\ s.chain = r.chain
            /\ s.pending = r.pending /\ s.touched = r.touched
            /\ s.wrote = r.wrote /\ s.todo = r.todo
      /\ \/ s \in Plans /\ s.pc = "items" /\ s.closing = r.closing /\ s.todo # {}
         \/ s \in Plans /\ s.pc = "publish" /\ s.todo = {}
         \/ s \in Plans /\ s.pc = "sign"
         \/ /\ s = Idle \/ (s \in Plans /\ s.pc = "save")
            /\ ~r.wrote /\ (r.closing \/ ~TouchedFiles(r))
  BY ProceedFields
<1>2. (crashes' = 0 /\ (s = Idle \/ s.pc = "save")) => (signed = Tree)'
  BY <1>1 DEF Settled, Explained, Idle
<1>3. s = Idle => AtRest'
  BY <1>2 DEF Settled, AtRest
<1>4. ASSUME s # Idle
      PROVE  AtWork(s)'
  <2>1. Accounted(Due(s))'
    BY <1>1, <1>4 DEF Settled, Due
  <2>2. Copies(s)'
    BY <1>1, <1>4 DEF Settled, Copies, Working, Ahead
  <2>3. (crashes = 0 => Manifest(s))'
    BY <1>1, <1>2, <1>4 DEF Settled, Manifest, Working, Explained, TouchedFiles
  <2>. QED  BY <2>1, <2>2, <2>3 DEF AtWork
<1>. QED  BY <1>3, <1>4

\* An item that is already done is passed over.
LEMMA SkipDoneStep ==
  ASSUME NEW p \in Runs, IngestInv, SkipDone(p)
  PROVE  IngestInv'
<1>. USE DEF IngestInv, Types
<1>. DEFINE r == run[p]
<1>1. PICK t, s : t = Passed(r, NextItem(p)) /\ s = Proceed(p, t)
  OBVIOUS
<1>2. /\ r \in Plans /\ r # Idle /\ r.pc = "items"
      /\ NextItem(p) \in Items /\ NextItem(p) \in r.todo
  BY NextOfPlan DEF SkipDone
<1>3. run' = [run EXCEPT ![p] = s] /\ UNCHANGED <<source, disk, counts>>
  BY <1>1 DEF SkipDone
<1>4. /\ t \in Plans /\ t.pc = "items"
      /\ t.index = r.index /\ t.chain = r.chain /\ t.pending = r.pending /\ t.state = r.state
      /\ t.touched = r.touched /\ t.wrote = r.wrote /\ t.closing = r.closing
  BY <1>1, <1>2 DEF Passed, Plans
<1>5. Typed(s) /\ (s \in Plans => BackedCopy(s))
  <2>1. BackedCopy(r)
    BY <1>2 DEF BackedInv
  <2>2. /\ s \in Plans => s.index = t.index /\ s.state = t.state
        /\ \/ s \in Plans /\ s.pc \in {"items", "publish", "sign", "save"}
           \/ s = Idle
    BY <1>1, <1>4, ProceedFields
  <2>3. Idle \notin Plans
    BY DEF Idle, Plans, PlanPoints
  <2>. QED  BY <1>4, <2>1, <2>2, <2>3 DEF BackedCopy, Typed
<1>6. AtWork(r) => Settled(t)'
  <2>1. AtWork(r) => Accounted({})'
    BY <1>2, <1>3 DEF AtWork, Accounted, Due, Missing, Recorded, disk, counts
  <2>2. AtWork(r) => (crashes = 0 => Explained(t))'
    BY <1>2, <1>3, <1>4
       DEF AtWork, Manifest, Working, Explained, ChangedRaw, TouchedFiles, Tree, disk, counts
  <2>3. ASSUME AtWork(r)
        PROVE  /\ (t.chain = chain /\ t.index = index)'
               /\ Agree(t.index, t.state)' /\ Kept(t.index)'
               /\ t.pending = <<>> /\ ~t.closing
    <3>1. /\ r.chain = chain /\ Agree(r.index, r.state) /\ Kept(r.index)
          /\ r.index = index /\ r.pending = <<>> /\ ~r.closing
      BY <1>2, <2>3 DEF AtWork, Copies, Working
    <3>2. Agree(t.index, t.state)'
      BY <1>4, <3>1 DEF Agree
    <3>3. Kept(t.index)'
      BY <1>3, <1>4, <3>1 DEF Kept, disk
    <3>. QED  BY <1>3, <1>4, <3>1, <3>2, <3>3 DEF disk
  <2>. QED  BY <2>1, <2>2, <2>3 DEF Settled
<1>7. AtWork(r) => (s = Idle => AtRest') /\ (s # Idle => AtWork(s)')
  BY <1>1, <1>4, <1>6, ProceedSettled
<1>. QED
  BY <1>2, <1>3, <1>5, <1>7, CopyStep DEF disk, counts, DiskTypes, CountTypes

\* An original that is archived is one that the run has touched, or was there.
LEMMA ArchiveStep ==
  ASSUME NEW p \in Runs, IngestInv, Archive(p)
  PROVE  IngestInv'
<1>. USE DEF IngestInv, Types
<1>. DEFINE r == run[p]
<1>1. PICK i, s : i = NextItem(p) /\ s = Archived(r, i)
  OBVIOUS
<1>2. r \in Plans /\ r # Idle /\ r.pc = "items" /\ i \in Items /\ i \in r.todo
  BY <1>1, NextOfPlan DEF Archive
<1>3. /\ run' = [run EXCEPT ![p] = s]
      /\ source[i] # Nothing /\ originals' = originals \cup {<<i, source[i]>>}
      /\ UNCHANGED <<source, raw, index, chain, state, signed, lexical, counts>>
  BY <1>1 DEF Archive, ArchiveOriginal
<1>4. IsArchived(r, i, s)
  BY <1>1, <1>2, <1>3, ArchivedFields
<1>. USE DEF IsArchived
<1>5. s # Idle
  BY <1>4 DEF Idle
<1>6. DiskTypes'
  BY <1>2, <1>3 DEF DiskTypes, Archivable
<1>7. RunTypes' /\ CountTypes'
  BY <1>3, <1>4, TypedFrame DEF Typed, CountTypes, counts
<1>8. BackedInv'
  <2>1. BackedCopy(r)
    BY <1>2 DEF BackedInv
  <2>2. originals \subseteq originals' /\ raw' = raw /\ <<i, source[i]>> \in originals'
    BY <1>3
  <2>3. Backed(index, state)'
    BY <1>3, <2>2 DEF BackedInv, Backed
  <2>4. ASSUME NEW j \in Items
        PROVE  /\ \A n \in DOMAIN s.index[j] : /\ <<j, s.index[j][n].at>> \in DOMAIN raw'
                                               /\ <<j, s.index[j][n].origin>> \in originals'
               /\ s.state[j].origin # Nothing => <<j, s.state[j].origin>> \in originals'
    BY <1>4, <2>1, <2>2 DEF BackedCopy, Backed
  <2>5. BackedCopy(s)'
    BY <1>4, <2>1, <2>2, <2>4 DEF BackedCopy, Backed, InPlace
  <2>6. InPlace(index)'
    BY <1>3 DEF BackedInv, InPlace
  <2>. QED  BY <1>3, <2>2, <2>3, <2>5, <2>6, BackedFrame
<1>9. AloneInv'
  <2>1. ASSUME Alone
        PROVE  Agree(index, state)' /\ Kept(index)' /\ AtWork(s)'
    <3>1. AtWork(r) /\ Agree(index, state) /\ Kept(index)
      BY <1>2, <2>1 DEF AloneInv
    <3>2. Accounted(Due(s))'
      BY <1>2, <1>3, <1>4, <3>1, StillAccounted DEF AtWork, counts
    <3>3. Copies(s)'
      <4>1. /\ r.chain = chain /\ Agree(r.index, r.state) /\ Kept(r.index)
            /\ r.index = index /\ r.pending = <<>> /\ (r.closing => r.todo = {})
        BY <1>2, <3>1 DEF AtWork, Copies, Working
      <4>2. Agree(s.index, s.state)' /\ Kept(s.index)'
        <5>1. Agree(s.index, s.state)'
          BY <1>4, <4>1 DEF Agree
        <5>2. Kept(s.index)'
          BY <1>3, <1>4, <4>1 DEF Kept
        <5>. QED  BY <5>1, <5>2
      <4>3. Len(s.pending) <= 1 /\ (s.pc = "raw" => s.pending = <<>>)
        BY <1>4, <4>1
      <4>4. Ahead(s)'
        BY <1>3, <1>4, <4>1 DEF Ahead
      <4>. QED  BY <1>2, <1>3, <1>4, <4>1, <4>2, <4>3, <4>4 DEF Copies, Working
    <3>4. ASSUME crashes = 0
          PROVE  Manifest(s)'
      <4>1. Explained(r)
        BY <1>2, <3>1, <3>4 DEF AtWork, Manifest, Working
      <4>2. PICK x : /\ originals' = originals \cup {x}
                     /\ s.touched.originals = r.touched.originals \cup ({x} \ originals)
                     /\ s.touched.raw = r.touched.raw
        BY <1>3, <1>4
      <4>3. originals' \ signed.originals \subseteq s.touched.originals
        BY <4>1, <4>2 DEF Explained
      <4>4. ~TouchedFiles(s) /\ ~s.wrote => signed = Tree /\ Tree' = Tree
        <5>1. ~TouchedFiles(s) => originals' = originals /\ ~TouchedFiles(r)
          BY <4>2 DEF TouchedFiles
        <5>2. originals' = originals => Tree' = Tree
          BY <1>3 DEF Tree
        <5>. QED  BY <1>4, <4>1, <5>1, <5>2 DEF Explained
      <4>5. ChangedRaw(signed)' = ChangedRaw(signed)
        BY <1>3 DEF ChangedRaw
      <4>6. Explained(s)'
        BY <1>3, <1>4, <4>1, <4>3, <4>4, <4>5 DEF Explained
      <4>. QED  BY <1>4, <4>6 DEF Manifest, Working
    <3>5. Agree(index, state)' /\ Kept(index)'
      BY <1>3, <3>1 DEF Agree, Kept
    <3>. QED  BY <1>3, <3>2, <3>3, <3>4, <3>5 DEF AtWork, counts
  <2>. QED  BY <1>2, <1>3, <1>5, <2>1, AloneFrame DEF counts
<1>. QED  BY <1>6, <1>7, <1>8, <1>9

\* Files that a run has touched, and some more.
LEMMA TouchedMore ==
  ASSUME NEW A, NEW B, NEW t \in [originals : SUBSET A, raw : SUBSET B], NEW x
  PROVE  [t EXCEPT !.raw = @ \cup x] = [originals |-> t.originals, raw |-> t.raw \cup x]
OBVIOUS

\* The run s is the run r, with the artefact of an item entered in its copy.
IsEntered(r, i, content, version, place, s) ==
  /\ s \in Plans /\ s.pc = "publish" /\ s.todo = r.todo /\ s.chain = r.chain
  /\ s.wrote = r.wrote /\ s.closing = r.closing
  /\ s.touched.originals = r.touched.originals
  /\ s.touched.raw = r.touched.raw \cup {<<i, place>>}
  /\ s.pending = Append(r.pending, <<i, version>>)
  /\ \A j \in Items : j # i => s.index[j] = r.index[j] /\ s.state[j] = r.state[j]
  /\ s.state[i].origin = content
  /\ DOMAIN s.index[i] = DOMAIN r.index[i] \cup {version}
  /\ \A n \in DOMAIN r.index[i] : s.index[i][n] = r.index[i][n]
  /\ s.index[i][version].origin = content /\ s.index[i][version].at = place

\* It has the new version, and is otherwise what it was.
LEMMA EnteredFields ==
  ASSUME NEW r \in Plans, NEW i \in Items, NEW content \in Contents,
         NEW version \in Nat, NEW place \in Nat, version = Len(r.index[i]) + 1,
         NEW s, s = Entered(r, i, content, version, place)
  PROVE  IsEntered(r, i, content, version, place, s)
<1>. DEFINE v   == [origin |-> content, at |-> place]
            row == [status |-> "converted", origin |-> content, at |-> place]
            idx == [r.index EXCEPT ![i] = Append(@, v)]
            st  == [r.state EXCEPT ![i] = row]
            t   == [originals |-> r.touched.originals, raw |-> r.touched.raw \cup {<<i, place>>}]
            l   == Append(r.pending, <<i, version>>)
<1>1. v \in Versions /\ row \in Rows
  BY DEF Versions, Rows
<1>2. r.index \in Indexes /\ r.state \in States /\ r.pending \in Chains
  BY DEF Plans
<1>3. /\ idx \in Indexes /\ idx[i] = Append(r.index[i], v)
      /\ \A j \in Items : j # i => idx[j] = r.index[j]
  BY <1>1, <1>2 DEF Indexes
<1>4. /\ st \in States /\ st[i] = row
      /\ \A j \in Items : j # i => st[j] = r.state[j]
  BY <1>1, <1>2 DEF States
<1>5. t \in [originals : SUBSET Archivable, raw : SUBSET Files] /\ l \in Chains
  BY <1>2 DEF Plans, Files, Chains
<1>6. s = [r EXCEPT !.pc = "publish", !.doing = Nothing, !.touched = t, !.index = idx,
                    !.state = st, !.pending = l]
  <2>1. r.touched \in [originals : SUBSET Archivable, raw : SUBSET Files]
    BY DEF Plans
  <2>2. [r.touched EXCEPT !.raw = @ \cup {<<i, place>>}]
          = [originals |-> r.touched.originals, raw |-> r.touched.raw \cup {<<i, place>>}]
    BY ONLY <2>1, TouchedMore
  <2>. QED  BY <2>2 DEF Entered
<1>7. r.index[i] \in Seq(Versions)
  BY <1>2 DEF Indexes
<1>8. /\ DOMAIN Append(r.index[i], v) = DOMAIN r.index[i] \cup {version}
      /\ \A n \in DOMAIN r.index[i] : Append(r.index[i], v)[n] = r.index[i][n]
      /\ Append(r.index[i], v)[version] = v
  BY <1>7
<1>9. t = [originals |-> r.touched.originals, raw |-> r.touched.raw \cup {<<i, place>>}]
  OBVIOUS
<1>. HIDE DEF idx, st, t, l
<1>10. s \in Plans
  BY <1>3, <1>4, <1>5, <1>6, ZenonT(30) DEF Plans, PlanPoints
<1>11. /\ s.pc = "publish" /\ s.todo = r.todo /\ s.chain = r.chain
       /\ s.wrote = r.wrote /\ s.closing = r.closing /\ s.touched = t
       /\ s.index = idx /\ s.state = st /\ s.pending = l
  BY <1>6 DEF Plans
<1>12. s.pending = Append(r.pending, <<i, version>>)
  BY <1>11 DEF l
<1>13. s.state[i].origin = content
  BY <1>4, <1>11
<1>14. /\ s.touched.originals = r.touched.originals
       /\ s.touched.raw = r.touched.raw \cup {<<i, place>>}
  BY <1>9, <1>11
<1>15. s.index[i][version].origin = content /\ s.index[i][version].at = place
  BY <1>3, <1>8, <1>11
<1>16. \A j \in Items : j # i => s.index[j] = r.index[j] /\ s.state[j] = r.state[j]
  BY <1>3, <1>4, <1>11
<1>17. /\ DOMAIN s.index[i] = DOMAIN r.index[i] \cup {version}
       /\ \A n \in DOMAIN r.index[i] : s.index[i][n] = r.index[i][n]
  BY <1>3, <1>8, <1>11
<1>. QED  BY <1>10, <1>11, <1>12, <1>13, <1>14, <1>15, <1>16, <1>17 DEF IsEntered

\* A raw file is written beside the others, or over the one of its item.
LEMMA WrittenFields ==
  ASSUME NEW file \in Files, NEW content \in Contents, raw \in RawFiles,
         NEW new, new = Written(file, content)
  PROVE  /\ new \in RawFiles /\ DOMAIN new = DOMAIN raw \cup {file} /\ new[file] = content
         /\ \A f \in DOMAIN raw : f # file => new[f] = raw[f]
<1>1. PICK D \in SUBSET Files : raw \in [D -> Contents]
  BY DEF RawFiles
<1>2. new \in [D \cup {file} -> Contents]
  BY <1>1 DEF Written
<1>. QED  BY <1>1, <1>2 DEF Written, RawFiles

\* A version has a number of its own, and of a timeline item a file of its own.
LEMMA WriteRawStep ==
  ASSUME NEW p \in Runs, IngestInv, WriteRaw(p)
  PROVE  IngestInv'
<1>. USE DEF IngestInv, Types
<1>. DEFINE r == run[p]
<1>1. r \in Plans /\ r # Idle /\ r.pc = "raw"
  BY HasPlan DEF WriteRaw, PlanPoints, Idle
<1>2. BackedCopy(r)
  BY <1>1 DEF BackedInv
<1>3. PICK i \in Items, content \in Contents : r.doing = <<i, content>>
  BY <1>1, <1>2 DEF BackedCopy, DiskTypes, Archivable
<1>4. r.index \in Indexes /\ r.index[i] \in Seq(Versions)
  BY <1>1 DEF Plans, Indexes
<1>5. PICK version \in Nat, place \in Nat :
        /\ version = Len(r.index[i]) + 1
        /\ place = IF i \in Timeline THEN version ELSE 1
  BY <1>4
<1>. PICK s : s = Entered(r, i, content, version, place)
  OBVIOUS
<1>6. /\ raw' = Written(<<i, place>>, content) /\ run' = [run EXCEPT ![p] = s]
      /\ UNCHANGED <<source, originals, index, chain, state, signed, lexical, counts>>
  BY <1>3, <1>5 DEF WriteRaw, Version, VersionedPath
<1>7. /\ raw' \in RawFiles /\ DOMAIN raw' = DOMAIN raw \cup {<<i, place>>}
      /\ raw'[<<i, place>>] = content
      /\ \A f \in DOMAIN raw : f # <<i, place>> => raw'[f] = raw[f]
  BY <1>6, WrittenFields DEF DiskTypes, Files
<1>8. IsEntered(r, i, content, version, place, s)
  BY <1>1, <1>5, EnteredFields
<1>. USE DEF IsEntered
<1>9. s # Idle
  BY <1>8 DEF Idle
<1>10. DiskTypes'
  BY <1>6, <1>7 DEF DiskTypes
<1>11. RunTypes' /\ CountTypes'
  BY <1>6, <1>8, TypedFrame DEF Typed, CountTypes, counts
<1>12. BackedInv'
  <2>1. DOMAIN raw \subseteq DOMAIN raw' /\ originals' = originals
    BY <1>6, <1>7
  <2>2. Backed(index, state)' /\ InPlace(index)'
    BY <1>6, <2>1 DEF BackedInv, Backed, InPlace
  <2>3. /\ <<i, place>> \in DOMAIN raw' /\ <<i, content>> \in originals'
    BY <1>1, <1>2, <1>3, <1>7, <2>1 DEF BackedCopy
  <2>4. ASSUME NEW j \in Items
        PROVE  /\ \A n \in DOMAIN s.index[j] : /\ <<j, s.index[j][n].at>> \in DOMAIN raw'
                                               /\ <<j, s.index[j][n].origin>> \in originals'
               /\ s.state[j].origin # Nothing => <<j, s.state[j].origin>> \in originals'
    <3>1. CASE j # i
      BY <1>2, <1>8, <2>1, <3>1 DEF BackedCopy, Backed
    <3>2. CASE j = i
      <4>1. \A n \in DOMAIN r.index[i] :
              /\ <<i, r.index[i][n].at>> \in DOMAIN raw'
              /\ <<i, r.index[i][n].origin>> \in originals'
        BY <1>2, <2>1 DEF BackedCopy, Backed
      <4>2. ASSUME NEW n \in DOMAIN s.index[i]
            PROVE  /\ <<i, s.index[i][n].at>> \in DOMAIN raw'
                   /\ <<i, s.index[i][n].origin>> \in originals'
        <5>1. n \in DOMAIN r.index[i] \/ n = version
          BY <1>8, <4>2
        <5>2. CASE n \in DOMAIN r.index[i]
          BY <1>8, <4>1, <5>2
        <5>3. CASE n = version
          BY <1>8, <2>3, <5>3
        <5>. QED  BY <5>1, <5>2, <5>3
      <4>3. s.state[i].origin = content
        BY <1>8
      <4>. QED  BY <2>3, <3>2, <4>2, <4>3
    <3>. QED  BY <3>1, <3>2
  <2>5. ASSUME NEW j \in Timeline, NEW n \in DOMAIN s.index[j]
        PROVE  s.index[j][n].at = n
    <3>1. j \in Items
      BY IngestAssumption
    <3>2. \A m \in DOMAIN r.index[j] : r.index[j][m].at = m
      BY <1>2 DEF BackedCopy, InPlace
    <3>3. CASE j # i
      BY <1>8, <3>1, <3>2, <3>3
    <3>4. CASE j = i /\ n \in DOMAIN r.index[j]
      BY <1>8, <3>2, <3>4
    <3>5. CASE j = i /\ n = version
      <4>1. s.index[i][version].at = place
        BY <1>8
      <4>. QED  BY <1>5, <3>5, <4>1
    <3>. QED  BY <1>8, <3>3, <3>4, <3>5
  <2>6. BackedCopy(s)'
    BY <1>8, <2>4, <2>5 DEF BackedCopy, Backed, InPlace
  <2>. QED  BY <1>6, <2>1, <2>2, <2>6, BackedFrame
<1>13. AloneInv'
  <2>1. ASSUME Alone
        PROVE  Agree(index, state)' /\ Kept(index)' /\ AtWork(s)'
    <3>1. AtWork(r) /\ Agree(index, state) /\ Kept(index)
      BY <1>1, <2>1 DEF AloneInv
    <3>2. /\ r.chain = chain /\ Agree(r.index, r.state) /\ Kept(r.index)
          /\ r.index = index /\ r.pending = <<>> /\ (r.closing => r.todo = {})
      BY <1>1, <3>1 DEF AtWork, Copies, Working
    <3>3. Accounted(Due(s))'
      BY <1>1, <1>6, <1>8, <3>1, StillAccounted DEF AtWork, counts
    <3>4. \A j \in Timeline, n \in Nat :
            n \in DOMAIN r.index[j] => r.index[j][n].at = n /\ <<j, n>> # <<i, place>>
      BY <1>2, <1>4, <1>5 DEF BackedCopy, InPlace
    <3>5. ASSUME NEW j \in Timeline, NEW n \in DOMAIN r.index[j]
          PROVE  raw'[<<j, r.index[j][n].at>>] = r.index[j][n].origin
      <4>1. j \in Items /\ n \in Nat
        BY <1>4, IngestAssumption DEF Indexes
      <4>2. <<j, r.index[j][n].at>> \in DOMAIN raw /\ <<j, r.index[j][n].at>> # <<i, place>>
        BY <1>2, <3>4, <4>1 DEF BackedCopy, Backed
      <4>3. raw[<<j, r.index[j][n].at>>] = r.index[j][n].origin
        BY <3>2 DEF Kept
      <4>. QED  BY <1>7, <4>2, <4>3
    <3>6. ASSUME NEW j \in Timeline, NEW n \in DOMAIN s.index[j]
          PROVE  raw'[<<j, s.index[j][n].at>>] = s.index[j][n].origin
      <4>1. j \in Items
        BY IngestAssumption
      <4>2. CASE j # i
        <5>1. s.index[j] = r.index[j]
          BY <1>8, <4>1, <4>2
        <5>. QED  BY <3>5, <5>1
      <4>3. CASE j = i /\ n \in DOMAIN r.index[j]
        <5>1. s.index[j][n] = r.index[j][n]
          BY <1>8, <4>3
        <5>. QED  BY <3>5, <4>3, <5>1
      <4>4. CASE j = i /\ n = version
        <5>1. s.index[i][version].at = place /\ s.index[i][version].origin = content
          BY <1>8
        <5>. QED  BY <1>7, <4>4, <5>1
      <4>. QED  BY <1>8, <4>2, <4>3, <4>4
    <3>7. Agree(s.index, s.state)'
      BY <1>8, <3>2 DEF Agree
    <3>8. Ahead(s)' /\ Len(s.pending) <= 1
      <4>1. s.pending = <<<<i, version>>>>
        BY <1>8, <3>2
      <4>2. ASSUME NEW j \in Items
            PROVE  /\ \A n \in DOMAIN index[j] :
                        n \in DOMAIN s.index[j] /\ s.index[j][n] = index[j][n]
                   /\ \A n \in DOMAIN s.index[j] \ DOMAIN index[j] :
                        s.pending = <<<<j, n>>>>
        <5>1. CASE j # i
          BY <1>8, <3>2, <5>1
        <5>2. CASE j = i
          BY <1>8, <3>2, <4>1, <5>2
        <5>. QED  BY <5>1, <5>2
      <4>. QED  BY <1>6, <4>1, <4>2 DEF Ahead
    <3>9. Copies(s)'
      <4>1. Kept(s.index)'
        BY <3>6 DEF Kept
      <4>. QED  BY <1>6, <1>8, <3>2, <3>7, <3>8, <4>1 DEF Copies, Working
    <3>10. ASSUME crashes = 0
           PROVE  Manifest(s)'
      <4>1. Explained(r)
        BY <1>1, <3>1, <3>10 DEF AtWork, Manifest, Working
      <4>2. ChangedRaw(signed)' \subseteq ChangedRaw(signed) \cup {<<i, place>>}
        BY <1>6, <1>7 DEF ChangedRaw
      <4>3. <<i, place>> \in s.touched.raw
        BY <1>8
      <4>4. Explained(s)'
        <5>1. ~(s.touched.raw = {})
          BY <4>3
        <5>. QED  BY <1>6, <1>8, <4>1, <4>2, <5>1 DEF Explained, TouchedFiles
      <4>. QED  BY <1>8, <4>4 DEF Manifest, Working
    <3>11. Agree(index, state)' /\ Kept(index)'
      <4>1. \A j \in Timeline : \A n \in DOMAIN index[j] :
              raw'[<<j, index[j][n].at>>] = index[j][n].origin
        BY <3>2, <3>5
      <4>. QED  BY <1>6, <3>1, <4>1 DEF Agree, Kept
    <3>. QED  BY <1>6, <3>3, <3>9, <3>10, <3>11 DEF AtWork, counts
  <2>. QED  BY <1>1, <1>6, <1>9, <2>1, AloneFrame DEF counts
<1>. QED  BY <1>10, <1>11, <1>12, <1>13

\* A system file that is rewritten is stale in a manifest.
LEMMA StaleFields ==
  ASSUME NEW file \in SystemFiles, NEW n \in Manifests, NEW m, m = Stale(n, file)
  PROVE  /\ m \in Manifests /\ m.originals = n.originals /\ m.raw = n.raw
         /\ m.stale = n.stale \cup {file}
BY DEF Stale, Manifests

\* What a run can explain, it can after it has rewritten its accounts.
LEMMA StillExplained ==
  ASSUME NEW r, NEW s, Explained(r), signed \in Manifests, signed' = Stale(signed, "accounts"),
         UNCHANGED <<originals, raw>>, s.touched = r.touched, s.wrote
  PROVE  Explained(s)'
<1>1. /\ signed'.originals = signed.originals /\ signed'.raw = signed.raw
      /\ signed'.stale = signed.stale \cup {"accounts"}
  BY StaleFields DEF SystemFiles
<1>2. ChangedRaw(signed)' = ChangedRaw(signed)
  BY <1>1 DEF ChangedRaw
<1>. QED  BY <1>1, <1>2 DEF Explained

\* The provenance owes no more than it did.
LEMMA OwesLess ==
  ASSUME NEW D, NEW E, Accounted(D), Missing' \ E \subseteq Missing \ D,
         crashes \in Nat, crashes' = crashes
  PROVE  Accounted(E)'
<1>1. IsFiniteSet(Missing' \ E) /\ Cardinality(Missing' \ E) <= Cardinality(Missing \ D)
  BY FS_Subset DEF Accounted
<1>2. Cardinality(Missing' \ E) \in Nat /\ Cardinality(Missing \ D) \in Nat
  BY <1>1, FS_CardinalityType DEF Accounted
<1>. QED
  <2>1. Cardinality(Missing \ D) <= crashes
    BY DEF Accounted
  <2>2. Cardinality(Missing' \ E) <= crashes'
    BY <1>1, <1>2, <2>1
  <2>. QED  BY <1>1, <2>2 DEF Accounted

\* The index that is published has at most the version that is due.
LEMMA PublishIndexStep ==
  ASSUME NEW p \in Runs, IngestInv, PublishIndex(p)
  PROVE  IngestInv'
<1>. USE DEF IngestInv, Types
<1>. DEFINE r == run[p]
            pc == IF r.pending # <<>> THEN "chain" ELSE "state"
<1>1. r \in Plans /\ r # Idle /\ r.pc = "publish"
  BY HasPlan DEF PublishIndex, PlanPoints, Idle
<1>2. PICK s : s = [r EXCEPT !.wrote = TRUE, !.pc = pc]
  OBVIOUS
<1>3. /\ run' = [run EXCEPT ![p] = s]
      /\ index' = r.index /\ signed' = Stale(signed, "accounts")
      /\ UNCHANGED <<source, originals, raw, chain, state, lexical, counts>>
  BY <1>2 DEF PublishIndex, Rewrite
<1>4. s \in Plans
  BY <1>1, <1>2 DEF Plans, PlanPoints
<1>5. /\ s.pc = (IF r.pending # <<>> THEN "chain" ELSE "state") /\ s.wrote /\ s.todo = r.todo
      /\ s.index = r.index /\ s.state = r.state /\ s.chain = r.chain
      /\ s.pending = r.pending /\ s.touched = r.touched /\ s.closing = r.closing
  BY <1>1, <1>2 DEF Plans
<1>6. s # Idle
  BY <1>5 DEF Idle
<1>7. DiskTypes'
  <2>1. signed' \in Manifests
    BY <1>3, StaleFields DEF DiskTypes, SystemFiles
  <2>2. r.index \in Indexes
    BY <1>1 DEF Plans
  <2>. QED  BY <1>3, <2>1, <2>2 DEF DiskTypes
<1>8. RunTypes' /\ CountTypes'
  BY <1>3, <1>4, TypedFrame DEF Typed, CountTypes, counts
<1>9. BackedInv'
  <2>1. BackedCopy(r)
    BY <1>1 DEF BackedInv
  <2>2. Backed(index, state)' /\ InPlace(index)'
    BY <1>3, <2>1 DEF BackedInv, BackedCopy, Backed, InPlace
  <2>3. BackedCopy(s)'
    BY <1>3, <1>5, <2>1 DEF BackedCopy, Backed, InPlace
  <2>. QED  BY <1>3, <2>2, <2>3, BackedFrame
<1>10. AloneInv'
  <2>1. ASSUME Alone
        PROVE  Agree(index, state)' /\ Kept(index)' /\ AtWork(s)'
    <3>1. AtWork(r) /\ Agree(index, state)
      BY <1>1, <2>1 DEF AloneInv
    <3>2. /\ r.chain = chain /\ Agree(r.index, r.state) /\ Kept(r.index)
          /\ Ahead(r) /\ Len(r.pending) <= 1 /\ (r.closing => r.todo = {})
      BY <1>1, <3>1 DEF AtWork, Copies, Working
    <3>3. Kept(index)' /\ Kept(s.index)' /\ Agree(s.index, s.state)'
      <4>1. Kept(index)'
        BY <1>3, <3>2 DEF Kept
      <4>2. Kept(s.index)'
        <5>1. s.index = index'
          BY <1>3, <1>5
        <5>. QED  BY <4>1, <5>1 DEF Kept
      <4>3. Agree(s.index, s.state)'
        BY <1>5, <3>2 DEF Agree
      <4>. QED  BY <4>1, <4>2, <4>3
    <3>4. Agree(index, state)'
      BY <1>3, <3>1, <3>2 DEF Agree, Ahead
    <3>5. Accounted(Due(s))'
      <4>1. Accounted({})
        BY <1>1, <3>1 DEF AtWork, Due
      <4>2. ASSUME NEW i \in Items, NEW n \in DOMAIN r.index[i], n \notin DOMAIN index[i]
            PROVE  <<i, n>> \in Due(s)
        <5>1. r.pending = <<<<i, n>>>>
          BY <3>2, <4>2 DEF Ahead
        <5>. QED  BY <1>5, <5>1 DEF Due
      <4>3. Missing' \ Due(s) \subseteq Missing \ {}
        BY <1>3, <4>2 DEF Missing, Recorded
      <4>4. crashes' = crashes
        BY <1>3 DEF counts
      <4>5. PICK D : D = Due(s)
        OBVIOUS
      <4>6. Accounted(D)'
        BY <4>1, <4>3, <4>4, <4>5, OwesLess DEF CountTypes
      <4>. QED  BY <4>5, <4>6 DEF Due
    <3>6. Copies(s)'
      <4>1. s.pc = "chain" => Len(s.pending) = 1
        <5>1. r.pending \in Chains
          BY <1>1 DEF Plans
        <5>2. Len(r.pending) \in Nat /\ (r.pending # <<>> => Len(r.pending) # 0)
          BY <5>1 DEF Chains
        <5>3. r.pending # <<>> => Len(r.pending) = 1
          <6>1. \A m \in Nat : m <= 1 /\ m # 0 => m = 1
            OBVIOUS
          <6>. QED  BY <3>2, <5>2, <6>1, Zenon
        <5>. QED  BY <1>5, <5>3
      <4>. QED  BY <1>3, <1>5, <3>2, <3>3, <4>1 DEF Copies, Working
    <3>7. ASSUME crashes = 0
          PROVE  Manifest(s)'
      <4>1. Explained(r)
        BY <1>1, <3>1, <3>7 DEF AtWork, Manifest, Working
      <4>2. Explained(s)'
        BY <1>3, <1>5, <4>1, StillExplained DEF DiskTypes
      <4>. QED  BY <1>5, <4>2 DEF Manifest, Working
    <3>. QED  BY <1>3, <3>3, <3>4, <3>5, <3>6, <3>7 DEF AtWork, counts
  <2>. QED  BY <1>1, <1>3, <1>6, <2>1, AloneFrame DEF counts
<1>. QED  BY <1>7, <1>8, <1>9, <1>10

\* What was due is recorded.
LEMMA PublishChainStep ==
  ASSUME NEW p \in Runs, IngestInv, PublishChain(p)
  PROVE  IngestInv'
<1>. USE DEF IngestInv, Types
<1>. DEFINE r == run[p]
<1>1. r \in Plans /\ r # Idle /\ r.pc = "chain"
  BY HasPlan DEF PublishChain, PlanPoints, Idle
<1>2. PICK c, s : c = r.chain \o r.pending
                  /\ s = [r EXCEPT !.pc = "state", !.chain = c, !.pending = <<>>]
  OBVIOUS
<1>3. /\ run' = [run EXCEPT ![p] = s] /\ chain' = c /\ signed' = Stale(signed, "accounts")
      /\ UNCHANGED <<source, originals, raw, index, state, lexical, counts>>
  BY <1>2 DEF PublishChain, Rewrite
<1>4. r.chain \in Chains /\ r.pending \in Chains
  BY <1>1 DEF Plans
<1>5. c \in Chains /\ <<>> \in Chains
  BY <1>2, <1>4 DEF Chains
<1>6. s \in Plans
  BY <1>1, <1>2, <1>5 DEF Plans, PlanPoints
<1>7. /\ s.pc = "state" /\ s.wrote = r.wrote /\ s.todo = r.todo
      /\ s.index = r.index /\ s.state = r.state /\ s.chain = c
      /\ s.pending = <<>> /\ s.touched = r.touched /\ s.closing = r.closing
  BY <1>1, <1>2 DEF Plans
<1>8. s # Idle
  BY <1>7 DEF Idle
<1>9. DiskTypes'
  <2>1. signed' \in Manifests
    BY <1>3, StaleFields DEF DiskTypes, SystemFiles
  <2>. QED  BY <1>3, <1>5, <2>1 DEF DiskTypes
<1>10. RunTypes' /\ CountTypes'
  BY <1>3, <1>6, TypedFrame DEF Typed, CountTypes, counts
<1>11. BackedInv'
  <2>1. Backed(index, state)' /\ InPlace(index)'
    BY <1>3 DEF BackedInv, Backed, InPlace
  <2>2. BackedCopy(s)'
    BY <1>1, <1>3, <1>7 DEF BackedInv, BackedCopy, Backed, InPlace
  <2>. QED  BY <1>3, <2>1, <2>2, BackedFrame
<1>12. AloneInv'
  <2>1. ASSUME Alone
        PROVE  Agree(index, state)' /\ Kept(index)' /\ AtWork(s)'
    <3>1. AtWork(r) /\ Agree(index, state) /\ Kept(index)
      BY <1>1, <2>1 DEF AloneInv
    <3>2. /\ r.chain = chain /\ Agree(r.index, r.state) /\ Kept(r.index)
          /\ r.index = index /\ Len(r.pending) = 1 /\ (r.closing => r.todo = {}) /\ r.wrote
      BY <1>1, <3>1 DEF AtWork, Copies, Working
    <3>3. Kept(index)' /\ Agree(index, state)' /\ Kept(s.index)' /\ Agree(s.index, s.state)'
      <4>1. Kept(index)' /\ Agree(index, state)'
        BY <1>3, <3>1 DEF Kept, Agree
      <4>2. s.index = index' /\ s.state = r.state /\ s.index = r.index
        BY <1>3, <1>7, <3>2
      <4>3. Kept(s.index)'
        BY <4>1, <4>2 DEF Kept
      <4>4. Agree(s.index, s.state)'
        BY <3>2, <4>2 DEF Agree
      <4>. QED  BY <4>1, <4>3, <4>4
    <3>4. Accounted(Due(s))'
      <4>1. Accounted({r.pending[1]})
        BY <1>1, <3>1 DEF AtWork, Due
      <4>2. /\ \A k \in DOMAIN chain : k \in DOMAIN c /\ c[k] = chain[k]
            /\ \E k \in DOMAIN c : c[k] = r.pending[1]
        <5>1. \A k \in DOMAIN chain : k \in DOMAIN c /\ c[k] = chain[k]
          BY <1>2, <1>4, <3>2 DEF Chains
        <5>2. Len(chain) + 1 \in DOMAIN c /\ c[Len(chain) + 1] = r.pending[1]
          BY <1>2, <1>4, <3>2 DEF Chains
        <5>. QED  BY <5>1, <5>2
      <4>3. \A i, n : Recorded(i, n) \/ <<i, n>> = r.pending[1] => Recorded(i, n)'
        BY <1>3, <4>2 DEF Recorded
      <4>4. Missing' \ {} \subseteq Missing \ {r.pending[1]}
        BY <1>3, <4>3 DEF Missing
      <4>5. PICK D : D = {r.pending[1]}
        OBVIOUS
      <4>6. crashes' = crashes
        BY <1>3 DEF counts
      <4>7. Accounted({})'
        BY <4>1, <4>4, <4>5, <4>6, OwesLess DEF CountTypes
      <4>. QED  BY <1>7, <4>7 DEF Due
    <3>5. Copies(s)'
      BY <1>2, <1>3, <1>7, <3>2, <3>3 DEF Copies, Working
    <3>6. ASSUME crashes = 0
          PROVE  Manifest(s)'
      <4>1. Explained(r)
        BY <1>1, <3>1, <3>6 DEF AtWork, Manifest, Working
      <4>2. Explained(s)'
        BY <1>3, <1>7, <3>2, <4>1, StillExplained DEF DiskTypes
      <4>. QED  BY <1>7, <4>2 DEF Manifest, Working
    <3>. QED  BY <1>3, <3>3, <3>4, <3>5, <3>6 DEF AtWork, counts
  <2>. QED  BY <1>1, <1>3, <1>8, <2>1, AloneFrame DEF counts
<1>. QED  BY <1>9, <1>10, <1>11, <1>12

\* The state is published last: the accounts agree at every write.
LEMMA PublishStateStep ==
  ASSUME NEW p \in Runs, IngestInv, PublishState(p)
  PROVE  IngestInv'
<1>. USE DEF IngestInv, Types
<1>. DEFINE r == run[p]
<1>1. r \in Plans /\ r # Idle /\ r.pc = "state"
  BY HasPlan DEF PublishState, PlanPoints, Idle
<1>2. PICK s : s = Proceed(p, r)
  OBVIOUS
<1>3. /\ run' = [run EXCEPT ![p] = s] /\ state' = r.state /\ signed' = Stale(signed, "accounts")
      /\ UNCHANGED <<source, originals, raw, index, chain, lexical, counts>>
  BY <1>2 DEF PublishState, Rewrite
<1>4. /\ s \in Plans => s.index = r.index /\ s.state = r.state
      /\ (s \in Plans /\ s.pc \in {"items", "publish", "sign", "save"}) \/ s = Idle
  BY <1>1, <1>2, ProceedFields
<1>5. Idle \notin Plans
  BY DEF Idle, Plans, PlanPoints
<1>6. DiskTypes'
  <2>1. signed' \in Manifests
    BY <1>3, StaleFields DEF DiskTypes, SystemFiles
  <2>2. r.state \in States
    BY <1>1 DEF Plans
  <2>. QED  BY <1>3, <2>1, <2>2 DEF DiskTypes
<1>7. RunTypes' /\ CountTypes'
  BY <1>3, <1>4, TypedFrame DEF Typed, CountTypes, counts
<1>8. BackedInv'
  <2>1. BackedCopy(r)
    BY <1>1 DEF BackedInv
  <2>2. Backed(index, state)' /\ InPlace(index)'
    BY <1>3, <2>1 DEF BackedInv, BackedCopy, Backed, InPlace
  <2>3. s \in Plans => BackedCopy(s)'
    BY <1>3, <1>4, <1>5, <2>1 DEF BackedCopy, Backed, InPlace
  <2>. QED  BY <1>3, <2>2, <2>3, BackedFrame
<1>9. AloneInv'
  <2>1. ASSUME Alone
        PROVE  /\ Agree(index, state)' /\ Kept(index)'
               /\ s = Idle => AtRest'
               /\ s # Idle => AtWork(s)'
    <3>1. AtWork(r) /\ Kept(index)
      BY <1>1, <2>1 DEF AloneInv
    <3>2. /\ r.chain = chain /\ Agree(r.index, r.state) /\ Kept(r.index)
          /\ r.index = index /\ r.pending = <<>> /\ (r.closing => r.todo = {}) /\ r.wrote
      BY <1>1, <3>1 DEF AtWork, Copies, Working
    <3>3. PICK t : t = r
      OBVIOUS
    <3>4. Kept(index)' /\ Agree(index, state)'
      BY <1>3, <3>1, <3>2 DEF Kept, Agree
    <3>5. Kept(t.index)' /\ Agree(t.index, t.state)'
      BY <1>3, <3>2, <3>3 DEF Kept, Agree
    <3>6. Accounted({})'
      <4>1. Accounted({})
        BY <1>1, <3>1 DEF AtWork, Due
      <4>. QED  BY <1>3, <4>1 DEF Accounted, Missing, Recorded, counts
    <3>7. (crashes = 0 => Explained(t))'
      BY <1>1, <1>3, <3>1, <3>2, <3>3, StillExplained
         DEF AtWork, Manifest, Working, DiskTypes, counts
    <3>8. Settled(t)'
      BY <1>3, <3>2, <3>3, <3>5, <3>6, <3>7 DEF Settled
    <3>. QED  BY <1>1, <1>2, <3>3, <3>4, <3>8, ProceedSettled
  <2>. QED  BY <1>1, <1>3, <2>1, AloneFrame DEF counts
<1>. QED  BY <1>6, <1>7, <1>8, <1>9

\* The manifest of the tree is one.
LEMMA TreeFields ==
  ASSUME DiskTypes, UNCHANGED <<originals, raw>>
  PROVE  Tree \in Manifests /\ Tree' = Tree
BY DEF DiskTypes, Manifests, Tree

\* A step after the plan: only the manifest is still to be put right.
LEMMA ClosingStep ==
  ASSUME NEW p \in Runs, NEW s, IngestInv, run[p].pc \notin Working \cup {"idle"},
         run' = [run EXCEPT ![p] = s],
         s = Idle \/ Hooked(s) \/ (s \in Plans /\ s.pc \in {"save", "sign_save", "hook"}),
         s \in Plans => run[p] \in Plans /\ s.index = run[p].index /\ s.state = run[p].state,
         UNCHANGED <<source, originals, raw, index, chain, state, counts>>,
         signed' \in Manifests,
         Alone /\ crashes = 0 /\ Manifest(run[p]) =>
           (s = Idle => signed' = Tree) /\ (s # Idle => Manifest(s)')
  PROVE  IngestInv'
<1>. USE DEF IngestInv, Types
<1>1. run[p] # Idle
  BY DEF Idle
<1>2. Typed(s)
  BY DEF Typed
<1>3. s \in Plans => BackedCopy(s)
  <2>1. s \in Plans => s.pc \in {"save", "sign_save", "hook"}
    BY DEF Plans, PlanPoints, Idle, Hooked
  <2>. QED  BY <2>1 DEF BackedInv, BackedCopy
<1>4. ASSUME Alone, AtWork(run[p])
      PROVE  (s = Idle => AtRest') /\ (s # Idle => AtWork(s)')
  <2>1. Accounted({})
    BY <1>4 DEF AtWork, Due, Working
  <2>2. Accounted({})'
    BY <2>1 DEF Accounted, Missing, Recorded, counts
  <2>3. Tree' = Tree
    BY TreeFields
  <2>4. s = Idle => AtRest'
    BY <1>4, <2>2, <2>3 DEF AtWork, AtRest, counts
  <2>5. ASSUME s # Idle
        PROVE  AtWork(s)'
    <3>1. s.pc \in {"save", "sign_save", "hook", "publish_lexical", "sign_lexical"}
      BY <2>5 DEF Hooked
    <3>2. Accounted(Due(s))'
      BY <2>2, <3>1 DEF Due
    <3>3. Copies(s)'
      BY <3>1 DEF Copies, Working
    <3>. QED  BY <1>4, <2>5, <3>2, <3>3 DEF AtWork, counts
  <2>. QED  BY <2>4, <2>5
<1>. QED  BY <1>1, <1>2, <1>3, <1>4, CopyStep DEF counts, CountTypes

\* The refresh writes its own state, ...
LEMMA SaveStep ==
  ASSUME NEW p \in Runs, IngestInv, SaveRefreshState(p)
  PROVE  IngestInv'
<1>. USE DEF IngestInv, Types
<1>. DEFINE r == run[p]
<1>1. r \in Plans /\ r.pc = "save"
  BY HasPlan DEF SaveRefreshState, PlanPoints
<1>2. PICK s : s = [r EXCEPT !.pc = "sign_save"]
  OBVIOUS
<1>3. run' = [run EXCEPT ![p] = s] /\ signed' = Stale(signed, "refresh-state")
  BY <1>2 DEF SaveRefreshState, Rewrite
<1>4. UNCHANGED <<source, originals, raw, index, chain, state, lexical, counts>>
  BY DEF SaveRefreshState
<1>5. s \in Plans /\ s.pc = "sign_save" /\ s.index = r.index /\ s.state = r.state
  BY <1>1, <1>2 DEF Plans, PlanPoints
<1>6. signed = Tree => signed' = Marked("refresh-state")' /\ signed' = Marked("refresh-state")
  BY <1>3, <1>4 DEF Tree, Stale, Marked
<1>7. crashes = 0 /\ Manifest(r) => Manifest(s)'
  BY <1>1, <1>5, <1>6 DEF Manifest, Working
<1>8. signed' \in Manifests /\ s # Idle
  BY <1>3, <1>5, StaleFields DEF DiskTypes, SystemFiles, Idle
<1>. QED  BY <1>1, <1>3, <1>4, <1>5, <1>7, <1>8, ClosingStep DEF Working

\* The hook writes nothing ...
LEMMA HookStep ==
  ASSUME NEW p \in Runs, IngestInv, RefreshHook(p)
  PROVE  IngestInv'
<1>. USE DEF IngestInv, Types
<1>. DEFINE next == [pc |-> "publish_lexical", generation |-> Generation(index)]
<1>1. PICK s : s = IF lexical = Generation(index) \/ ~Collectable THEN Idle ELSE next
  OBVIOUS
<1>2. run' = [run EXCEPT ![p] = s] /\ run[p].pc = "hook"
  BY <1>1 DEF RefreshHook
<1>3. s = Idle \/ (s.pc = "publish_lexical" /\ s # Idle /\ s \notin Plans)
  BY <1>1 DEF Idle, Plans, PlanPoints
<1>4. Idle \notin Plans
  BY DEF Idle, Plans, PlanPoints
<1>5. UNCHANGED <<source, disk, counts>>
  BY DEF RefreshHook
<1>6. crashes = 0 /\ Manifest(run[p]) =>
        (s = Idle => signed' = Tree) /\ (s # Idle => Manifest(s)')
  <2>1. Tree' = Tree
    BY <1>5, TreeFields DEF disk
  <2>. QED  BY <1>2, <1>3, <1>5, <2>1 DEF Manifest, Working, disk
<1>. QED
  BY <1>2, <1>3, <1>4, <1>5, <1>6, ClosingStep DEF Working, Hooked, disk, DiskTypes

\* ... until it publishes the lexical index, ...
LEMMA PublishLexicalStep ==
  ASSUME NEW p \in Runs, IngestInv, PublishLexical(p)
  PROVE  IngestInv'
<1>. USE DEF IngestInv, Types
<1>1. PICK s : /\ run' = [run EXCEPT ![p] = s]
               /\ \/ s = [pc |-> "sign_lexical"] /\ signed' = Stale(signed, "lexical")
                  \/ s = Idle /\ signed' = signed
  BY DEF PublishLexical, Rewrite
<1>2. /\ run[p].pc = "publish_lexical"
      /\ UNCHANGED <<source, originals, raw, index, chain, state, counts>>
  BY DEF PublishLexical
<1>3. s = Idle \/ (s.pc = "sign_lexical" /\ s # Idle)
  BY <1>1 DEF Idle
<1>4. s \notin Plans
  BY <1>1 DEF Idle, Plans, PlanPoints
<1>5. signed = Tree => Stale(signed, "lexical") = Marked("lexical")'
  BY <1>2 DEF Tree, Stale, Marked
<1>6. crashes = 0 /\ Manifest(run[p]) =>
        (s = Idle => signed' = Tree) /\ (s # Idle => Manifest(s)')
  BY <1>1, <1>2, <1>3, <1>5 DEF Manifest, Working, Idle
<1>7. signed' \in Manifests
  BY <1>1, StaleFields DEF DiskTypes, SystemFiles
<1>. QED  BY <1>1, <1>2, <1>3, <1>4, <1>6, <1>7, ClosingStep DEF Working, Hooked

\* A manifest that is only loaded changes nothing on the disk.
LEMMA LoadManifestStep ==
  ASSUME NEW p \in Runs, IngestInv, LoadManifest(p)
  PROVE  IngestInv'
<1>1. UNCHANGED <<source, disk, run, crashes, overlaps>>
  BY DEF LoadManifest, counts
<1>. QED  BY <1>1, DiskAndRunsStay

\* What a run that is alone has loaded is what is signed.
LEMMA LoadedIsSigned ==
  ASSUME NEW p \in Runs, HandInv, hand[p].step = "loaded", Alone, crashes = 0
  PROVE  hand[p].manifest = signed
BY DEF HandInv, HeldInv

\* A run that is alone can explain the tree it scans.
LEMMA ScanTreeStep ==
  ASSUME NEW p \in Runs, IngestInv, HandInv, ScanTree(p)
  PROVE  IngestInv'
<1>. USE DEF IngestInv, Types
<1>1. PICK r, m : r = run[p] /\ m = hand[p].manifest
  OBVIOUS
<1>2. hand[p].step = "loaded" /\ r.pc \in SigningPoints
  BY <1>1 DEF ScanTree, HandInv, HandTypes
<1>3. UNCHANGED <<source, disk, counts>>
  BY DEF ScanTree
<1>4. CASE Explains(r, m)
  <2>1. run' = run
    BY <1>1, <1>4 DEF ScanTree
  <2>. QED  BY <1>3, <2>1, DiskAndRunsStay DEF counts
<1>5. CASE ~Explains(r, m)
  <2>1. run' = [run EXCEPT ![p] = Idle]
    BY <1>1, <1>5 DEF ScanTree
  <2>2. Alone /\ crashes = 0 => m = signed
    BY <1>1, <1>2, LoadedIsSigned
  <2>3. ~(Alone /\ crashes = 0 /\ Manifest(r))
    <3>. SUFFICES ASSUME Alone, crashes = 0, Manifest(r)
                  PROVE  FALSE
      OBVIOUS
    <3>1. CASE r.pc = "sign"
      BY <1>5, <2>2, <3>1 DEF Manifest, Explained, Explains, Unchanged
    <3>2. CASE r.pc = "sign_save"
      BY <1>5, <2>2, <3>2 DEF Manifest, Marked, Explains, Unchanged, ChangedRaw
    <3>3. CASE r.pc = "sign_lexical"
      BY <1>5, <2>2, <3>3 DEF Manifest, Marked, Explains, Unchanged, ChangedRaw
    <3>. QED  BY <1>2, <3>1, <3>2, <3>3 DEF SigningPoints
  <2>4. Idle \notin Plans
    BY DEF Idle, Plans, PlanPoints
  <2>. QED
    BY <1>1, <1>2, <1>3, <2>1, <2>3, <2>4, ClosingStep
       DEF SigningPoints, Working, disk, DiskTypes
<1>. QED  BY <1>4, <1>5

\* What it writes is that tree.
LEMMA WriteManifestStep ==
  ASSUME NEW p \in Runs, IngestInv, HandInv, WriteManifest(p)
  PROVE  IngestInv'
<1>. USE DEF IngestInv, Types
<1>1. PICK r, s : r = run[p] /\ s = AfterSign(p, r)
  OBVIOUS
<1>2. hand[p] \in Hands /\ hand[p].step = "scanned" /\ r.pc \in SigningPoints
  BY <1>1 DEF WriteManifest, HandInv, HandTypes
<1>3. /\ run' = [run EXCEPT ![p] = s] /\ signed' = hand[p].manifest
      /\ UNCHANGED <<source, originals, raw, index, chain, state, counts>>
  BY <1>1 DEF WriteManifest
<1>4. signed' \in Manifests
  BY <1>2, <1>3 DEF Hands
<1>5. r.pc \in {"sign", "sign_save"} => r \in Plans
  BY <1>1, HasPlan DEF PlanPoints
<1>6. \/ s = Idle
      \/ /\ r \in Plans /\ s \in Plans /\ s.pc \in {"save", "hook"}
         /\ s.index = r.index /\ s.state = r.state
  BY <1>1, <1>2, <1>5 DEF AfterSign, AfterPlan, SigningPoints, Plans, PlanPoints
<1>7. Alone /\ crashes = 0 => signed' = Tree /\ Tree' = Tree
  BY <1>2, <1>3, TreeFields DEF HandInv, HeldInv
<1>8. Alone /\ crashes = 0 => (s = Idle => signed' = Tree) /\ (s # Idle => Manifest(s)')
  BY <1>6, <1>7 DEF Manifest, Working
<1>9. Idle \notin Plans
  BY DEF Idle, Plans, PlanPoints
<1>. QED
  BY <1>1, <1>2, <1>3, <1>4, <1>6, <1>8, <1>9, ClosingStep DEF SigningPoints, Working

\* A death leaves at most the one version behind that was due.
LEMMA CrashStep ==
  ASSUME NEW p \in Runs, IngestInv, Crash(p)
  PROVE  IngestInv'
<1>. USE DEF IngestInv, Types
<1>. DEFINE r == run[p]
<1>1. /\ r # Idle /\ run' = [run EXCEPT ![p] = Idle] /\ crashes' = crashes + 1
      /\ UNCHANGED <<source, disk, overlaps>>
  BY DEF Crash
<1>2. crashes \in Nat /\ crashes' \in Nat
  BY <1>1 DEF CountTypes
<1>3. Idle \notin Plans
  BY DEF Idle, Plans, PlanPoints
<1>4. ASSUME AtWork(r)
      PROVE  AtRest'
  <2>1. PICK x : Due(r) \subseteq {x}
    BY DEF Due
  <2>. DEFINE rest == Missing \ Due(r)
  <2>2. IsFiniteSet(rest) /\ Cardinality(rest) <= crashes
    BY <1>4 DEF AtWork, Accounted
  <2>3. /\ IsFiniteSet(rest \cup {x}) /\ Cardinality(rest \cup {x}) \in Nat
        /\ Cardinality(rest) \in Nat
        /\ \/ Cardinality(rest \cup {x}) = Cardinality(rest)
           \/ Cardinality(rest \cup {x}) = Cardinality(rest) + 1
    BY <2>2, FS_AddElement, FS_CardinalityType
  <2>4. Missing \subseteq rest \cup {x}
    BY <2>1
  <2>5. /\ IsFiniteSet(Missing) /\ Cardinality(Missing) \in Nat
        /\ Cardinality(Missing) <= Cardinality(rest \cup {x})
    BY <2>3, <2>4, FS_Subset, FS_CardinalityType
  <2>. HIDE DEF rest
  <2>6. Cardinality(Missing) <= crashes'
    BY <1>1, <1>2, <2>2, <2>3, <2>5
  <2>7. Missing' = Missing /\ Missing \ {} = Missing
    BY <1>1 DEF Missing, Recorded, disk
  <2>8. Accounted({})'
    BY <2>5, <2>6, <2>7 DEF Accounted
  <2>. QED  BY <1>1, <1>2, <2>8 DEF AtRest
<1>. QED  BY <1>1, <1>2, <1>3, <1>4, CopyStep DEF Typed, disk, DiskTypes

-----------------------------------------------------------------------------
(* The manifest in hand.                                                   *)

\* A run without a manifest in hand.
LEMMA NoHandFields == NoHand \in Hands /\ NoHand.step = "none"
<1>1. NoHand = [step |-> "none", manifest |-> [originals |-> {}, raw |-> <<>>, stale |-> {}]]
  BY DEF NoHand
<1>2. <<>> \in RawFiles
  <2>1. PICK e : e = <<>>
    OBVIOUS
  <2>2. DOMAIN e = {} /\ e = [f \in {} |-> e[f]]
    BY <2>1
  <2>3. e \in [{} -> Contents]
    BY <2>2
  <2>. QED  BY <2>1, <2>3 DEF RawFiles
<1>. QED  BY <1>1, <1>2 DEF Hands, Manifests

\* No run has one when an ingest begins.
LEMMA HandBegins == Init => HandInv
BY NoHandFields DEF Init, HandInv, HandTypes, HeldInv

\* A step of a run that has none in hand, in a library where it is alone or
\* overlaps: what the others hold is at most marked.
LEMMA HandFrame ==
  ASSUME NEW p \in Runs, NEW s, RunTypes, HandInv, run' = [run EXCEPT ![p] = s],
         run[p].pc \notin SigningPoints,
         Alone' => \A q \in Runs : q # p => run[q] = Idle,
         hand' = hand \/ \E file \in SystemFiles : Rewrite(file)
  PROVE  HandInv'
<1>1. run'[p] = s /\ \A q \in Runs : q # p => run'[q] = run[q]
  BY Frame DEF RunTypes
<1>2. hand[p].step = "none"
  BY DEF HandInv, HandTypes
<1>3. /\ DOMAIN hand' = Runs
      /\ \A q \in Runs : hand'[q] \in Hands /\ hand'[q].step = hand[q].step
  <2>1. CASE hand' = hand
    BY <2>1 DEF HandInv, HandTypes
  <2>2. CASE \E file \in SystemFiles : Rewrite(file)
    <3>1. PICK file \in SystemFiles : Rewrite(file)
      BY <2>2
    <3>2. DOMAIN hand' = Runs
      BY <3>1 DEF Rewrite
    <3>3. ASSUME NEW q \in Runs
          PROVE  hand'[q] \in Hands /\ hand'[q].step = hand[q].step
      <4>1. PICK h \in Hands : h = hand[q]
        BY DEF HandInv, HandTypes
      <4>2. PICK m : m = Stale(h.manifest, file)
        OBVIOUS
      <4>3. m \in Manifests
        BY <4>1, <4>2, StaleFields DEF Hands
      <4>4. hand'[q] = IF h.step = "none" THEN h ELSE Hand(h.step, m)
        BY <3>1, <4>1, <4>2 DEF Rewrite
      <4>. QED  BY <4>1, <4>3, <4>4 DEF Hand, Hands
    <3>. QED  BY <3>2, <3>3
  <2>. QED  BY <2>1, <2>2
<1>4. HandTypes'
  BY <1>1, <1>2, <1>3 DEF HandInv, HandTypes
<1>5. HeldInv'
  <2>1. Alone' => \A q \in Runs : hand'[q].step = "none"
    BY <1>2, <1>3 DEF HandInv, HandTypes, Idle, SigningPoints
  <2>. QED  BY <2>1 DEF HeldInv
<1>. QED  BY <1>4, <1>5 DEF HandInv

\* Only refresh_manifest has a manifest in hand, and nothing is written
\* between its steps while the run is alone.
LEMMA HandStep == IngestInv /\ HandInv /\ [Next]_vars => HandInv'
<1>. SUFFICES ASSUME IngestInv, HandInv, [Next]_vars
              PROVE  HandInv'
  OBVIOUS
<1>. USE DEF IngestInv, Types
<1>1. CASE UNCHANGED vars \/ Edit
  <2>1. UNCHANGED <<disk, run, hand, crashes, overlaps>>
    BY <1>1 DEF vars, counts, Edit
  <2>. QED  BY <2>1 DEF HandInv, HandTypes, HeldInv, Alone, Tree, disk
<1>2. ASSUME NEW p \in Runs, Start(p)
      PROVE  HandInv'
  <2>1. PICK s : run' = [run EXCEPT ![p] = s]
    BY <1>2 DEF Start
  <2>2. run[p].pc \notin SigningPoints /\ hand' = hand
    BY <1>2 DEF Start, Idle, SigningPoints
  <2>3. Alone' => \A q \in Runs : run[q] = Idle
    BY <1>2 DEF Start, Alone, CountTypes
  <2>. QED  BY <2>1, <2>2, <2>3, HandFrame
<1>3. ASSUME NEW p \in Runs, Crash(p)
      PROVE  HandInv'
  <2>1. /\ run' = [run EXCEPT ![p] = Idle] /\ hand' = [hand EXCEPT ![p] = NoHand]
        /\ crashes' # 0
    BY <1>3 DEF Crash, CountTypes
  <2>2. \A q \in Runs : q # p => run'[q] = run[q] /\ hand'[q] = hand[q]
    BY <2>1, Frame DEF RunTypes, HandInv, HandTypes
  <2>3. hand'[p] = NoHand /\ DOMAIN hand' = Runs
    BY <2>1 DEF HandInv, HandTypes
  <2>4. HandTypes'
    BY <2>2, <2>3, NoHandFields DEF HandInv, HandTypes
  <2>. QED  BY <2>1, <2>4 DEF HandInv, HeldInv
<1>4. ASSUME NEW p \in Runs, Step(p), run[p].pc \notin SigningPoints
      PROVE  HandInv'
  <2>1. PICK s : run' = [run EXCEPT ![p] = s]
    BY <1>4 DEF Step, LoadIndex, LoadStateAndChain, FetchFails, SkipDone, Archive, WriteRaw,
                PublishIndex, PublishChain, PublishState, SaveRefreshState, RefreshHook,
                PublishLexical, LoadManifest, ScanTree, WriteManifest, SigningPoints,
                HandInv, HandTypes
  <2>2. /\ hand' = hand \/ \E file \in SystemFiles : Rewrite(file)
        /\ overlaps' = overlaps /\ run[p] # Idle
    <3>1. ~LoadManifest(p) /\ ~ScanTree(p) /\ ~WriteManifest(p)
      BY <1>4 DEF LoadManifest, ScanTree, WriteManifest, SigningPoints, HandInv, HandTypes
    <3>2. CASE LoadIndex(p) \/ LoadStateAndChain(p) \/ FetchFails(p) \/ SkipDone(p)
                \/ Archive(p) \/ WriteRaw(p) \/ RefreshHook(p)
      BY <3>2 DEF LoadIndex, LoadStateAndChain, FetchFails, SkipDone, Archive, WriteRaw,
                  RefreshHook, AtItem, Idle, counts
    <3>3. CASE PublishIndex(p) \/ PublishChain(p) \/ PublishState(p)
      <4>1. Rewrite("accounts") /\ overlaps' = overlaps /\ run[p].pc # "idle"
        BY <3>3, Zenon DEF PublishIndex, PublishChain, PublishState, counts
      <4>2. "accounts" \in SystemFiles /\ run[p] # Idle
        BY <4>1 DEF SystemFiles, Idle
      <4>. QED  BY <4>1, <4>2, Zenon
    <3>4. CASE SaveRefreshState(p)
      BY <3>4 DEF SaveRefreshState, SystemFiles, Idle, counts
    <3>5. CASE PublishLexical(p)
      BY <3>5 DEF PublishLexical, SystemFiles, Idle, counts
    <3>. QED  BY <1>4, <3>1, <3>2, <3>3, <3>4, <3>5 DEF Step
  <2>3. Alone' => \A q \in Runs : q # p => run[q] = Idle
    BY <2>2 DEF AloneInv, Alone
  <2>. QED  BY <1>4, <2>1, <2>2, <2>3, HandFrame
<1>5. ASSUME NEW p \in Runs, LoadManifest(p) \/ ScanTree(p) \/ WriteManifest(p),
             run[p].pc \in SigningPoints
      PROVE  HandInv'
  <2>1. /\ Alone' => Alone /\ \A q \in Runs : q # p => run[q] = Idle
        /\ crashes' = crashes /\ Tree' = Tree
    BY <1>5, TreeFields
       DEF LoadManifest, ScanTree, WriteManifest, AloneInv, Alone, Idle, SigningPoints, counts, disk
  <2>2. PICK h : hand' = [hand EXCEPT ![p] = h]
    BY <1>5 DEF LoadManifest, ScanTree, WriteManifest
  <2>3. DOMAIN hand' = Runs /\ hand'[p] = h /\ \A q \in Runs : q # p => hand'[q] = hand[q]
    BY <2>2 DEF HandInv, HandTypes
  <2>4. run' = run \/ \E s : run' = [run EXCEPT ![p] = s]
    BY <1>5 DEF LoadManifest, ScanTree, WriteManifest
  <2>5. \A q \in Runs : q # p => run'[q] = run[q]
    BY <2>4, Frame DEF RunTypes
  <2>6. /\ h \in Hands /\ (h.step # "none" => run'[p] = run[p])
        /\ h.step = "loaded" => h.manifest = signed'
        /\ h.step = "scanned" => h.manifest = Tree'
    <3>1. NoHand \in Hands /\ NoHand.step = "none"
      BY NoHandFields
    <3>2. CASE LoadManifest(p)
      BY <2>3, <3>2 DEF LoadManifest, Hand, Hands, DiskTypes, disk, HandInv, HandTypes
    <3>3. CASE ScanTree(p)
      <4>1. Tree \in Manifests
        BY DEF DiskTypes, Manifests, Tree
      <4>. QED
        BY <2>1, <2>3, <3>1, <3>3, <4>1 DEF ScanTree, Hand, Hands, HandInv, HandTypes
    <3>4. CASE WriteManifest(p)
      BY <2>3, <3>1, <3>4 DEF WriteManifest, HandInv, HandTypes
    <3>. QED  BY <1>5, <3>2, <3>3, <3>4
  <2>7. HandTypes'
    BY <1>5, <2>3, <2>5, <2>6 DEF HandInv, HandTypes
  <2>8. HeldInv'
    <3>1. Alone' => \A q \in Runs : q # p => hand'[q].step = "none"
      BY <2>1, <2>3 DEF HandInv, HandTypes, Idle, SigningPoints
    <3>. QED  BY <2>3, <2>6, <3>1 DEF HeldInv
  <2>. QED  BY <2>7, <2>8 DEF HandInv
<1>6. ASSUME NEW p \in Runs, Step(p), run[p].pc \in SigningPoints
      PROVE  HandInv'
  <2>1. LoadManifest(p) \/ ScanTree(p) \/ WriteManifest(p)
    BY <1>6 DEF Step, LoadIndex, LoadStateAndChain, FetchFails, SkipDone, Archive, WriteRaw,
                PublishIndex, PublishChain, PublishState, SaveRefreshState, RefreshHook,
                PublishLexical, AtItem, SigningPoints
  <2>. QED  BY <1>5, <1>6, <2>1
<1>. QED  BY <1>1, <1>2, <1>3, <1>4, <1>6 DEF Next

-----------------------------------------------------------------------------
(* The theorems.                                                           *)

\* Every step keeps the invariant.
LEMMA IngestStep == IngestInv /\ HandInv /\ [Next]_vars => IngestInv'
<1>. SUFFICES ASSUME IngestInv, HandInv, [Next]_vars
              PROVE  IngestInv'
  OBVIOUS
<1>1. CASE UNCHANGED vars
  <2>1. UNCHANGED <<source, disk, run, crashes, overlaps>>
    BY <1>1 DEF vars, counts
  <2>. QED  BY <2>1, DiskAndRunsStay
<1>2. CASE Edit
  BY <1>2, EditStep
<1>3. ASSUME NEW p \in Runs, Start(p) \/ Crash(p)
      PROVE  IngestInv'
  BY <1>3, StartStep, CrashStep
<1>4. ASSUME NEW p \in Runs, Step(p)
      PROVE  IngestInv'
  <2>1. CASE LoadIndex(p) \/ LoadStateAndChain(p)
    BY <2>1, LoadIndexStep, LoadStateStep
  <2>2. CASE FetchFails(p) \/ SkipDone(p) \/ Archive(p) \/ WriteRaw(p)
    BY <2>2, FetchFailsStep, SkipDoneStep, ArchiveStep, WriteRawStep
  <2>3. CASE PublishIndex(p) \/ PublishChain(p) \/ PublishState(p)
    BY <2>3, PublishIndexStep, PublishChainStep, PublishStateStep
  <2>4. CASE SaveRefreshState(p) \/ RefreshHook(p) \/ PublishLexical(p)
    BY <2>4, SaveStep, HookStep, PublishLexicalStep
  <2>5. CASE LoadManifest(p) \/ ScanTree(p) \/ WriteManifest(p)
    BY <2>5, LoadManifestStep, ScanTreeStep, WriteManifestStep
  <2>. QED  BY <1>4, <2>1, <2>2, <2>3, <2>4, <2>5 DEF Step
<1>. QED  BY <1>1, <1>2, <1>3, <1>4 DEF Next

\* In every state of an ingest the variables have their types, what the
\* accounts and their copies refer to exists, and a run that is alone can
\* explain what it has changed, whatever refresh_manifest has in hand.
THEOREM IngestInvariant == Spec => [](IngestInv /\ HandInv)
<1>1. Init => IngestInv /\ HandInv
  BY IngestBegins, HandBegins
<1>2. (IngestInv /\ HandInv) /\ [Next]_vars => (IngestInv /\ HandInv)'
  BY IngestStep, HandStep
<1>. QED  BY <1>1, <1>2, PTL DEF Spec

\* The accounts refer to what exists, whatever overlapped or died; without
\* overlap what the state calls converted is in the index.
THEOREM AccountsBacked == Spec => []AccountsAreBacked
<1>1. IngestInv => AccountsAreBacked
  BY DEF IngestInv, BackedInv, Backed, AloneInv, Agree, AccountsAreBacked
<1>. QED  BY <1>1, IngestInvariant, PTL

\* Without overlap no version of a timeline item loses its file.
THEOREM TimelineGrows == Spec => []TimelineOnlyGrows
<1>1. IngestInv => TimelineOnlyGrows
  BY DEF IngestInv, AloneInv, Kept, TimelineOnlyGrows
<1>. QED  BY <1>1, IngestInvariant, PTL

\* Without overlap each version of the index without provenance is one that
\* a run is about to record, or stands for a death.
THEOREM ProvenanceIsKept == Spec => []ProvenanceKept
<1>1. IngestInv => ProvenanceKept
  <2>. SUFFICES ASSUME IngestInv, Alone
                PROVE  Cardinality(Missing)
                         <= crashes + Cardinality({p \in Runs : run[p].pc = "chain"})
    BY DEF ProvenanceKept, Missing
  <2>. DEFINE writing == {p \in Runs : run[p].pc = "chain"}
  <2>1. crashes \in Nat
    BY DEF IngestInv, Types, CountTypes
  <2>2. CASE Quiet
    <3>1. Accounted({})
      BY <2>2 DEF IngestInv, AloneInv, AtRest
    <3>2. Missing \ {} = Missing
      OBVIOUS
    <3>3. writing = {}
      BY <2>2 DEF Quiet, Idle
    <3>4. Cardinality(writing) = 0
      BY <3>3, FS_EmptySet
    <3>5. Cardinality(Missing) \in Nat /\ Cardinality(Missing) <= crashes
      BY <3>1, <3>2, FS_CardinalityType DEF Accounted
    <3>. QED  BY <2>1, <3>4, <3>5
  <2>3. CASE ~Quiet
    <3>1. PICK p \in Runs : run[p] # Idle
      BY <2>3 DEF Quiet
    <3>2. AtWork(run[p]) /\ \A q \in Runs : q # p => run[q] = Idle
      BY <3>1 DEF IngestInv, AloneInv
    <3>3. CASE run[p].pc = "chain"
      <4>1. PICK x : Due(run[p]) = {x}
        BY <3>3 DEF Due
      <4>2. IsFiniteSet(Missing \ {x}) /\ Cardinality(Missing \ {x}) <= crashes
        BY <3>2, <4>1 DEF AtWork, Accounted
      <4>3. writing = {p}
        BY <3>2, <3>3 DEF Idle
      <4>4. Cardinality(writing) = 1
        BY <4>3, FS_Singleton
      <4>. DEFINE rest == Missing \ {x}
      <4>5. /\ IsFiniteSet(rest \cup {x}) /\ Cardinality(rest) \in Nat
            /\ Cardinality(rest \cup {x}) \in Nat
            /\ \/ Cardinality(rest \cup {x}) = Cardinality(rest)
               \/ Cardinality(rest \cup {x}) = Cardinality(rest) + 1
        BY <4>2, FS_AddElement, FS_CardinalityType
      <4>6. Missing \subseteq rest \cup {x}
        OBVIOUS
      <4>7. Cardinality(Missing) \in Nat /\ Cardinality(Missing) <= Cardinality(rest \cup {x})
        BY <4>5, <4>6, FS_Subset, FS_CardinalityType
      <4>. HIDE DEF rest
      <4>8. Cardinality(rest) <= crashes
        BY <4>2 DEF rest
      <4>. QED  BY <2>1, <4>4, <4>5, <4>7, <4>8
    <3>4. CASE run[p].pc # "chain"
      <4>1. Accounted({})
        BY <3>2, <3>4 DEF AtWork, Due
      <4>2. Missing \ {} = Missing
        OBVIOUS
      <4>3. writing = {}
        BY <3>2, <3>4 DEF Idle
      <4>4. Cardinality(writing) = 0
        BY <4>3, FS_EmptySet
      <4>5. Cardinality(Missing) \in Nat /\ Cardinality(Missing) <= crashes
        BY <4>1, <4>2, FS_CardinalityType DEF Accounted
      <4>. QED  BY <2>1, <4>4, <4>5
    <3>. QED  BY <3>3, <3>4
  <2>. QED  BY <2>2, <2>3
<1>. QED  BY <1>1, IngestInvariant, PTL

\* While no run overlapped or died, the manifest describes the tree whenever
\* no run is going.
THEOREM SignedWhenAtRest == Spec => []SignedAtRest
<1>1. IngestInv => SignedAtRest
  BY DEF IngestInv, AloneInv, AtRest, SignedAtRest
<1>. QED  BY <1>1, IngestInvariant, PTL
=============================================================================
