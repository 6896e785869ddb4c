--------------------------- MODULE EpochCommitProofs ---------------------------
(***************************************************************************)
(* Proofs about the two stores that commit as EpochCommit does: the        *)
(* credential references and the agent bindings, for any clients, tenants, *)
(* agents, requests and secrets, any epoch limit, number of transactions   *)
(* and of deaths.                                                          *)
(*                                                                         *)
(* Credentials.  The epoch of a reference only grows: a record is written  *)
(* over the one its call has read and has the next epoch.  What has a      *)
(* tombstone was the epoch before a rotation, so it is behind for good     *)
(* (Past); and at the begin of a rotation the epoch it replaces is in      *)
(* force, so it has none (FinalizeNotBlocked).  A job is its operation on  *)
(* the record its call has read, so that each write and each tombstone is  *)
(* one step of CredentialReference (ReferenceRefinement).                  *)
(*                                                                         *)
(* Bindings.  A context is believed as long as its epoch is its tenant's.  *)
(* Between the change of its binding and the bump, somebody owes the bump  *)
(* (Owes): the call that made the change, or a rotation.  A debt is paid,  *)
(* or noted in cut when the call ends half way.                            *)
(***************************************************************************)
EXTENDS CredentialBroker, AgentBinding, FiniteSetTheorems, TLAPS

(***************************************************************************)
(* The credential references.                                              *)
(***************************************************************************)

Names  == {"set", "disabled", "revoked", "rotation_begin", "rotation_finalize"}
Points == {"retire", "record", "receipt", "bump", "rebump", "done"}

Jobs == [pc : Points, op : [name : Names], key : Keys,
         prior : Credential \cup {Absent}, next : Credential, txn : Txns,
         todo : SUBSET Tenants, tenant : Tenants, seen : 0..MaxSafeEpoch]

Types ==
  /\ authEpoch \in [Tenants -> 1..MaxSafeEpoch]
  /\ tenantStatus \in [Tenants -> StatusesInPlay]
  /\ store \in [Keys -> Credential \cup {Absent}]
  /\ receipts \subseteq [key : Keys, epoch : Nat \ {0}, txn : Txns]
  /\ retired \subseteq Tenants \X Nat
  /\ work \in [Clients -> Jobs \cup {NoJob}]
  /\ nextTxn \in Nat \ {0}

EpochOf(r) == IF r = Absent THEN 0 ELSE r.epoch

Becomes(j, status, rotation, previous) ==
  /\ j.next.epoch = EpochOf(j.prior) + 1
  /\ j.next.status = status /\ j.next.rotation = rotation /\ j.next.previous = previous

Steady(r) == r # Absent /\ r.rotation = "stable"
Turning(r) == r # Absent /\ r.rotation = "dual_write"

\* What a call is to write is its operation, on the record it has read.
Prepared(j) ==
  \/ j.op.name = "set" /\ Becomes(j, "active", "stable", EpochOf(j.prior))
  \/ /\ j.op.name \in {"disabled", "revoked"}
     /\ Steady(j.prior) /\ j.prior.status # j.op.name
     /\ Becomes(j, j.op.name, "stable", j.prior.previous)
  \/ /\ j.op.name = "rotation_begin"
     /\ Steady(j.prior) /\ j.prior.status = "active"
     /\ Becomes(j, "rotating", "dual_write", j.prior.epoch)
  \/ /\ j.op.name = "rotation_finalize"
     /\ Turning(j.prior)
     /\ Becomes(j, "active", "stable", j.prior.epoch)

Finalizes(j) == j.op.name = "rotation_finalize"

\* The epoch that a finalize retires is behind.
Behind(j) ==
  /\ Turning(j.prior) /\ 0 < j.prior.previous /\ j.prior.previous < j.prior.epoch
  /\ j.prior.epoch <= EpochAt(j.key)

Ready(j) ==
  /\ j.key \in Tenants /\ Prepared(j)
  /\ Finalizes(j) => Behind(j)
  /\ j.pc = "retire" => Finalizes(j)
  /\ j.pc = "record" /\ Finalizes(j) => <<j.key, j.prior.previous>> \in retired

BeforeRecord(c) == At(c, "retire") \/ At(c, "record")

JobInv == \A c \in Clients : BeforeRecord(c) => Ready(work[c])

Past ==
  \A t \in Tenants :
    /\ Rotating(t) => 0 < store[t].previous /\ store[t].previous < store[t].epoch
    /\ \A e \in Nat : <<t, e>> \in retired => e < EpochAt(t)

IInv == Types /\ JobInv /\ Past /\ FinalizeNotBlocked

\* A host starts with no record and no call.
LEMMA InitIInv == Init => IInv
BY EpochCommitAssumption, CredentialAssumption
   DEF Init, CommitInit, IInv, Types, JobInv, BeforeRecord, Past, FinalizeNotBlocked, At,
       NoJob, EpochAt, Rotating, EpochCommitAssumption, CredentialAssumption

\* A record that is there is a credential.
LEMMA OnDisk ==
  ASSUME IInv, NEW t \in Tenants
  PROVE  /\ store[t] \in Credential \cup {Absent} /\ EpochAt(t) \in Nat
         /\ store[t] # Absent => /\ store[t] \in Credential
                                 /\ store[t].epoch \in Nat \ {0}
                                 /\ store[t].previous \in Nat
                                 /\ store[t].rotation \in {"stable", "dual_write"}
BY CredentialAssumption DEF IInv, Types, CredentialAssumption, EpochAt, Credential

\* A client that is idle takes up a job that is ready.
LEMMA PrepareStep ==
  ASSUME IInv, NEW c \in Clients, work[c] = NoJob, NEW t \in Tenants,
         NEW name \in Names, NEW status \in CredentialStates,
         NEW rotation \in {"stable", "dual_write"}, NEW previous \in Nat,
         NEW job, job.pc \in {"retire", "record"},
         job = [Replacement(name, t, status, rotation, previous) EXCEPT !.pc = job.pc],
         Prepare(c, job), nextTxn <= MaxTxns => Ready(job),
         UNCHANGED <<tenantVars, store, receipts, cut, retired>>
  PROVE  IInv'
<1> DEFINE new == [tenant |-> t, epoch |-> EpochAt(t) + 1, status |-> status,
                   rotation |-> rotation, previous |-> previous, txn |-> nextTxn]
<1>1. Tenants \subseteq Keys /\ MaxTxns \in Nat /\ MaxSafeEpoch \in Nat
  BY EpochCommitAssumption, CredentialAssumption
     DEF EpochCommitAssumption, CredentialAssumption
<1>2. /\ nextTxn \in Txns /\ nextTxn' \in Nat \ {0}
      /\ work' = [work EXCEPT ![c] = job]
  BY <1>1 DEF Prepare, IInv, Types, Txns
<1>3. store[t] \in Credential \cup {Absent} /\ EpochAt(t) \in Nat
  BY OnDisk
<1>4. new \in Credential
  BY <1>2, <1>3 DEF Credential
<1>5. job = [pc |-> job.pc, op |-> [name |-> name], key |-> t, prior |-> store[t],
             next |-> new, txn |-> nextTxn, todo |-> {t}, tenant |-> t, seen |-> 0]
  BY DEF Replacement, Job
<1>6. job \in Jobs
  BY <1>1, <1>2, <1>3, <1>4, <1>5 DEF Jobs, Points
<1>7. Ready(job)
  BY <1>2 DEF Prepare
<1>8. work' \in [Clients -> Jobs \cup {NoJob}] /\ work'[c] = job
      /\ \A d \in Clients \ {c} : work'[d] = work[d]
  BY <1>2, <1>6 DEF IInv, Types
<1>9. JobInv'
  BY <1>7, <1>8 DEF IInv, JobInv, BeforeRecord, Ready, Behind, EpochAt, At
<1>10. Types'
  BY <1>2, <1>8 DEF IInv, Types, tenantVars
<1>11. Past'
  BY DEF IInv, Past, Rotating, EpochAt
<1>12. FinalizeNotBlocked'
  <2>1. \A d \in Clients : At(d, "record") => d # c
    BY DEF At, NoJob
  <2> QED
    BY <1>8, <2>1 DEF IInv, FinalizeNotBlocked, Rotating, At
<1> QED
  BY <1>9, <1>10, <1>11, <1>12 DEF IInv

\* What a call reads when it begins, and so what it is to write.
LEMMA Begins ==
  ASSUME IInv, NEW c \in Clients, NEW t \in Tenants,
         \/ SetReference(c, t) \/ CredentialRotateBegin(c, t)
         \/ CredentialRotateFinalize(c, t)
         \/ \E s \in {"disabled", "revoked"} : ChangeStatus(c, t, s)
  PROVE  IInv'
<1>. USE DEF Names, CredentialStates
<1>1. CASE SetReference(c, t)
  <2> DEFINE job == Replacement("set", t, "active", "stable", EpochAt(t))
  <2>1. /\ work[c] = NoJob /\ Prepare(c, job)
        /\ UNCHANGED <<tenantVars, store, receipts, cut, retired>>
    BY <1>1 DEF SetReference, Replace
  <2>2. job.pc = "record" /\ job = [job EXCEPT !.pc = job.pc]
    BY DEF Replacement, Job
  <2>3. Ready(job)
    BY OnDisk DEF Replacement, Job, Ready, Prepared, Becomes, EpochOf, EpochAt, Finalizes
  <2> HIDE DEF job
  <2>4. job = [Replacement("set", t, "active", "stable", EpochAt(t)) EXCEPT !.pc = job.pc]
    BY <2>2 DEF job
  <2> QED
    BY <2>1, <2>2, <2>3, <2>4, OnDisk, PrepareStep
<1>2. CASE CredentialRotateBegin(c, t)
  <2> DEFINE job == Replacement("rotation_begin", t, "rotating", "dual_write", store[t].epoch)
  <2>1. /\ work[c] = NoJob /\ Prepare(c, job) /\ StatusAt(t) = "active" /\ ~Rotating(t)
        /\ UNCHANGED <<tenantVars, store, receipts, cut, retired>>
    BY <1>2 DEF CredentialRotateBegin, Replace
  <2>2. job.pc = "record" /\ job = [job EXCEPT !.pc = job.pc]
    BY DEF Replacement, Job
  <2>3. Steady(store[t]) /\ store[t].status = "active" /\ store[t].epoch \in Nat
    BY <2>1, OnDisk DEF StatusAt, Rotating, Steady
  <2>4. Ready(job)
    BY <2>3 DEF Replacement, Job, Ready, Prepared, Becomes, EpochOf, EpochAt, Finalizes, Steady
  <2> HIDE DEF job
  <2>5. job = [Replacement("rotation_begin", t, "rotating", "dual_write", store[t].epoch)
                 EXCEPT !.pc = job.pc]
    BY <2>2 DEF job
  <2> QED
    BY <2>1, <2>2, <2>3, <2>4, <2>5, PrepareStep
<1>3. ASSUME NEW s \in {"disabled", "revoked"}, ChangeStatus(c, t, s)
      PROVE  IInv'
  <2> DEFINE job == Replacement(s, t, s, "stable", store[t].previous)
  <2>1. /\ work[c] = NoJob /\ Prepare(c, job)
        /\ StatusAt(t) \notin {"none", s} /\ ~Rotating(t)
        /\ UNCHANGED <<tenantVars, store, receipts, cut, retired>>
    BY <1>3 DEF ChangeStatus, Replace
  <2>2. job.pc = "record" /\ job = [job EXCEPT !.pc = job.pc]
    BY DEF Replacement, Job
  <2>3. Steady(store[t]) /\ store[t].status # s /\ store[t].previous \in Nat
    BY <2>1, OnDisk DEF StatusAt, Rotating, Steady
  <2>4. Ready(job)
    BY <2>3 DEF Replacement, Job, Ready, Prepared, Becomes, EpochOf, EpochAt, Finalizes, Steady
  <2> HIDE DEF job
  <2>5. job = [Replacement(s, t, s, "stable", store[t].previous) EXCEPT !.pc = job.pc]
    BY <2>2 DEF job
  <2> QED
    BY <2>1, <2>2, <2>3, <2>4, <2>5, PrepareStep
<1>4. CASE CredentialRotateFinalize(c, t)
  <2> DEFINE old == Replacement("rotation_finalize", t, "active", "stable", store[t].epoch)
             job == [old EXCEPT !.pc = "retire"]
  <2>1. /\ work[c] = NoJob /\ Prepare(c, job) /\ Rotating(t)
        /\ UNCHANGED <<tenantVars, store, receipts, cut, retired>>
    BY <1>4 DEF CredentialRotateFinalize
  <2>2. job.pc = "retire" /\ job = [old EXCEPT !.pc = job.pc]
    BY DEF Replacement, Job
  <2>3. /\ Turning(store[t]) /\ store[t].previous < store[t].epoch /\ 0 < store[t].previous
        /\ store[t].epoch = EpochAt(t) /\ store[t].epoch \in Nat
    BY <2>1, OnDisk DEF Rotating, Turning, IInv, Past, EpochAt
  <2>4. Ready(job)
    BY <2>3 DEF Replacement, Job, Ready, Prepared, Becomes, EpochOf, Finalizes, Behind, Turning
  <2> HIDE DEF job
  <2> QED
    BY <2>1, <2>2, <2>3, <2>4, PrepareStep
<1> QED
  BY <1>1, <1>2, <1>3, <1>4


-----------------------------------------------------------------------------
(* The commit.                                                             *)

\* A call that runs has a job; its moves keep it one.
LEMMA RunningJob ==
  ASSUME IInv, NEW c \in Clients, work[c].pc # "idle"
  PROVE  work[c] \in Jobs /\ work[c] # NoJob
BY DEF IInv, Types, NoJob

\* A step that changes no reference, after which c is past its record or has
\* raised.  A finalize that raises before its record is among the cut.
LEMMA PastRecord ==
  ASSUME IInv, NEW c \in Clients,
         \/ /\ work' = [work EXCEPT ![c] = NoJob]
            /\ cut' = cut \cup {[key |-> work[c].key, pc |-> work[c].pc]}
         \/ /\ ~At(c, "record") /\ UNCHANGED cut
            /\ \E j \in Jobs \cup {NoJob} :
                 /\ j.pc \notin {"retire", "record"}
                 /\ work' = [work EXCEPT ![c] = j],
         authEpoch' \in [Tenants -> 1..MaxSafeEpoch],
         receipts' \subseteq [key : Keys, epoch : Nat \ {0}, txn : Txns],
         UNCHANGED <<tenantStatus, store, retired, nextTxn>>
  PROVE  IInv'
<1>1. \A d \in Clients \ {c} : work'[d] = work[d]
  BY DEF IInv, Types
<1>2. /\ work' \in [Clients -> Jobs \cup {NoJob}]
      /\ work'[c].pc \notin {"retire", "record"}
  BY DEF IInv, Types, NoJob
<1>3. Types'
  BY <1>2 DEF IInv, Types
<1>4. JobInv'
  <2>1. ASSUME NEW d \in Clients, BeforeRecord(d)' PROVE d # c /\ Ready(work[d])
    BY <1>1, <1>2, <2>1 DEF IInv, JobInv, BeforeRecord, At
  <2> QED
    BY <1>1, <2>1 DEF JobInv, Ready, Behind, EpochAt
<1>5. Past'
  BY DEF IInv, Past, Rotating, EpochAt
<1>6. FinalizeNotBlocked'
  <2> SUFFICES ASSUME NEW t \in Tenants, Rotating(t),
                      <<t, store[t].previous>> \in retired
               PROVE  \/ \E d \in Clients : At(d, "record")' /\ work'[d].key = t
                                             /\ work'[d].op.name = "rotation_finalize"
                      \/ [key |-> t, pc |-> "record"] \in cut'
    BY DEF FinalizeNotBlocked, Rotating, At
  <2>1. CASE [key |-> t, pc |-> "record"] \in cut
    BY <2>1
  <2>2. ASSUME NEW d \in Clients, At(d, "record"), work[d].key = t,
               work[d].op.name = "rotation_finalize"
        PROVE  \/ At(d, "record")' /\ work'[d].key = t
                  /\ work'[d].op.name = "rotation_finalize"
               \/ [key |-> t, pc |-> "record"] \in cut'
    <3>1. CASE d # c
      BY <1>1, <2>2, <3>1 DEF At
    <3>2. CASE d = c
      <4>1. cut' = cut \cup {[key |-> work[c].key, pc |-> work[c].pc]}
        BY <2>2, <3>2
      <4>2. [key |-> work[c].key, pc |-> work[c].pc] = [key |-> t, pc |-> "record"]
        BY <2>2, <3>2 DEF At
      <4> QED
        BY <4>1, <4>2
    <3> QED
      BY <3>1, <3>2
  <2> QED
    BY <2>1, <2>2 DEF IInv, FinalizeNotBlocked
<1> QED
  BY <1>3, <1>4, <1>5, <1>6 DEF IInv

\* The record is written over the one the call has read.
LEMMA RecordStep ==
  ASSUME IInv, NEW c \in Clients, WriteRecord(c), UNCHANGED retired
  PROVE  IInv'
<1> DEFINE k == work[c].key
           n == work[c].next
           j == [work[c] EXCEPT !.pc = "receipt"]
<1>1. work[c] \in Jobs /\ work[c].pc = "record"
  BY RunningJob DEF WriteRecord, At
<1>2. k \in Keys /\ n \in Credential /\ j \in Jobs /\ j.pc = "receipt"
  BY <1>1 DEF Jobs, Points
<1>3. store' = [store EXCEPT ![k] = n] /\ work' = [work EXCEPT ![c] = j]
  BY DEF WriteRecord, Goto
<1>4. store[k] = work[c].prior /\ Ready(work[c])
  BY <1>1 DEF WriteRecord, IInv, JobInv, BeforeRecord, At
<1>5. Absent \notin Credential /\ Tenants \subseteq Keys
  BY CredentialAssumption DEF CredentialAssumption
<1>6. /\ n.epoch = EpochAt(k) + 1 /\ EpochAt(k) \in Nat /\ n.epoch \in Nat
      /\ n.rotation = "dual_write" => /\ store[k] # Absent /\ n.previous = EpochAt(k)
                                      /\ 0 < EpochAt(k)
  BY <1>2, <1>4, OnDisk
     DEF Ready, Prepared, Becomes, EpochOf, Steady, EpochAt
<1>7. n # Absent
  BY <1>2, <1>5
<1>8. UNCHANGED <<tenantVars, receipts, nextTxn, cut>>
  BY DEF WriteRecord, boundVars
<1> HIDE DEF k, n, j
<1>9. /\ work' \in [Clients -> Jobs \cup {NoJob}] /\ work'[c].pc = "receipt"
      /\ \A d \in Clients \ {c} : work'[d] = work[d]
  BY <1>2, <1>3 DEF IInv, Types
<1>10. /\ store' \in [Keys -> Credential \cup {Absent}] /\ store'[k] = n
       /\ \A h \in Keys \ {k} : store'[h] = store[h]
  BY <1>2, <1>3 DEF IInv, Types
<1>11. Types'
  BY <1>8, <1>9, <1>10 DEF IInv, Types, tenantVars
<1>12. JobInv'
  <2>1. ASSUME NEW d \in Clients, BeforeRecord(d)'
        PROVE  work'[d] = work[d] /\ Ready(work[d])
    BY <1>9, <2>1 DEF IInv, JobInv, BeforeRecord, At
  <2>2. \A t \in Tenants : /\ EpochAt(t) \in Nat /\ EpochAt(t)' \in Nat
                           /\ EpochAt(t) <= EpochAt(t)'
    BY <1>5, <1>6, <1>7, <1>10, OnDisk DEF EpochAt
  <2>3. ASSUME NEW d \in Clients, BeforeRecord(d)', Finalizes(work[d])
        PROVE  Behind(work[d])'
    <3>1. work'[d] = work[d] /\ Behind(work[d]) /\ work[d].key \in Tenants
      BY <2>1, <2>3 DEF Ready
    <3>2. work[d] \in Jobs
      BY <2>1, <2>3, RunningJob DEF BeforeRecord, At
    <3>3. work[d].prior \in Credential
      BY <3>1, <3>2 DEF Jobs, Behind, Turning
    <3>4. work[d].prior.epoch \in Nat
      BY <3>3 DEF Credential
    <3>5. PICK t \in Tenants : t = work[d].key
      BY <3>1
    <3>6. work[d].prior.epoch <= EpochAt(t)'
      BY <2>2, <3>1, <3>4, <3>5 DEF Behind
    <3>7. work[d].prior.epoch <= EpochAt(work[d].key)'
      BY <3>1, <3>5, <3>6 DEF EpochAt
    <3> QED
      BY <3>1, <3>7 DEF Behind
  <2>4. ASSUME NEW d \in Clients, BeforeRecord(d)' PROVE Ready(work[d])'
    BY <2>1, <2>3, <2>4 DEF Ready
  <2> QED
    BY <2>4 DEF JobInv
<1>13. ASSUME NEW t \in Tenants
       PROVE  /\ Rotating(t)' => /\ 0 < store'[t].previous
                                  /\ store'[t].previous < store'[t].epoch
              /\ \A e \in Nat : <<t, e>> \in retired => e < EpochAt(t)'
  <2>1. CASE t = k
    <3>1. EpochAt(t)' = EpochAt(k) + 1
      BY <1>6, <1>7, <1>10, <2>1 DEF EpochAt
    <3>2. \A e \in Nat : <<t, e>> \in retired => e < EpochAt(k)
      BY <2>1 DEF IInv, Past
    <3>3. Rotating(t)' => n.rotation = "dual_write"
      BY <1>10, <2>1, <1>7 DEF Rotating
    <3> QED
      BY <1>6, <1>10, <2>1, <3>1, <3>2, <3>3
  <2>2. CASE t # k
    BY <1>5, <1>10, <2>2 DEF IInv, Past, Rotating, EpochAt
  <2> QED
    BY <2>1, <2>2
<1>14. Past'
  BY <1>13 DEF Past
<1>15. FinalizeNotBlocked'
  <2>1. ASSUME NEW t \in Tenants, Rotating(t)', (<<t, store[t].previous>> \in retired)'
        PROVE  \/ \E d \in Clients : At(d, "record")' /\ work'[d].key = t
                                      /\ work'[d].op.name = "rotation_finalize"
               \/ [key |-> t, pc |-> "record"] \in cut'
    <3>1. CASE t = k
      <4>1. n.rotation = "dual_write" /\ <<k, EpochAt(k)>> \in retired
        BY <1>6, <1>7, <1>10, <2>1, <3>1 DEF Rotating
      <4>2. FALSE
        BY <1>5, <1>2, <1>6, <3>1, <4>1 DEF IInv, Past
      <4> QED
        BY <4>2
    <3>2. CASE t # k
      <4>1. Rotating(t) /\ <<t, store[t].previous>> \in retired
        BY <1>5, <1>10, <2>1, <3>2 DEF Rotating
      <4>2. \A d \in Clients : work[d].key = t => d # c
        BY <3>2 DEF k
      <4> QED
        BY <1>8, <1>9, <4>1, <4>2 DEF IInv, FinalizeNotBlocked, At
    <3> QED
      BY <3>1, <3>2
  <2> QED
    BY <2>1 DEF FinalizeNotBlocked, At
<1> QED
  BY <1>11, <1>12, <1>14, <1>15 DEF IInv


\* A finalize writes its tombstone and goes on with the record it has read.
LEMMA RetireStep ==
  ASSUME IInv, NEW c \in Clients, RetireReference(c)
  PROVE  IInv'
<1> DEFINE k == work[c].key
           e == work[c].prior.previous
           j == [work[c] EXCEPT !.pc = "record"]
<1>1. /\ work[c] \in Jobs /\ work[c].pc = "retire" /\ Ready(work[c])
      /\ Finalizes(work[c]) /\ k \in Tenants /\ Behind(work[c])
  BY RunningJob DEF RetireReference, IInv, JobInv, BeforeRecord, At, Ready
<1>2. work[c].prior \in Credential
  BY <1>1 DEF Jobs, Behind, Turning
<1>3. e \in Nat /\ work[c].prior.epoch \in Nat /\ EpochAt(k) \in Nat /\ e < EpochAt(k)
  BY <1>1, <1>2, OnDisk DEF Credential, Behind
<1>4. j \in Jobs /\ j.pc = "record" /\ j.key = k /\ j.prior = work[c].prior
      /\ j.next = work[c].next /\ j.op = work[c].op
  BY <1>1 DEF Jobs, Points
<1>5. /\ work' = [work EXCEPT ![c] = j] /\ retired' = retired \cup {<<k, e>>}
      /\ UNCHANGED <<tenantVars, store, receipts, nextTxn, cut>>
  BY DEF RetireReference, Goto, Tombstone, fileVars, boundVars
<1> HIDE DEF k, e, j
<1>6. /\ work' \in [Clients -> Jobs \cup {NoJob}] /\ work'[c] = j
      /\ \A d \in Clients \ {c} : work'[d] = work[d]
  BY <1>4, <1>5 DEF IInv, Types
<1>7. Types'
  BY <1>1, <1>3, <1>5, <1>6 DEF IInv, Types, tenantVars
<1>8. JobInv'
  <2>1. Ready(work[c])'
    BY <1>1, <1>4, <1>5, <1>6
       DEF Ready, Prepared, Becomes, Finalizes, Behind, EpochAt, k, e
  <2>2. ASSUME NEW d \in Clients \ {c}, BeforeRecord(d)' PROVE Ready(work[d])'
    <3>1. work'[d] = work[d] /\ Ready(work[d])
      BY <1>6, <2>2 DEF IInv, JobInv, BeforeRecord, At
    <3> QED
      BY <1>5, <3>1 DEF Ready, Behind, EpochAt
  <2> QED
    BY <2>1, <2>2 DEF JobInv
<1>9. Past'
  BY <1>3, <1>5 DEF IInv, Past, Rotating, EpochAt
<1>10. FinalizeNotBlocked'
  <2>1. \A d \in Clients : At(d, "record") => d # c
    BY <1>1 DEF At
  <2>2. ASSUME NEW t \in Tenants, t # k, Rotating(t)', (<<t, store[t].previous>> \in retired)'
        PROVE  \/ \E d \in Clients : At(d, "record")' /\ work'[d].key = t
                                      /\ work'[d].op.name = "rotation_finalize"
               \/ [key |-> t, pc |-> "record"] \in cut'
    <3>1. Rotating(t) /\ <<t, store[t].previous>> \in retired
      BY <1>5, <2>2 DEF Rotating
    <3> QED
      BY <1>5, <1>6, <2>1, <3>1 DEF IInv, FinalizeNotBlocked, At
  <2> QED
    BY <1>1, <1>4, <1>6, <2>2 DEF FinalizeNotBlocked, At, Finalizes
<1> QED
  BY <1>7, <1>8, <1>9, <1>10 DEF IInv

\* The rest of a commit: receipt, bumps, conflicts, return, death.
LEMMA CommitStep ==
  ASSUME IInv, NEW c \in Clients, UNCHANGED retired,
         \/ RevisionConflict(c) \/ WriteReceipt(c) \/ BumpTenantAuthEpoch(c)
         \/ BumpConflict(c) \/ BumpRefused(c) \/ Crash(c)
         \/ RetireRefused(c) \/ CredentialReturns(c)
  PROVE  IInv'
<1>1. /\ authEpoch \in [Tenants -> 1..MaxSafeEpoch]
      /\ receipts \subseteq [key : Keys, epoch : Nat \ {0}, txn : Txns]
      /\ MaxSafeEpoch \in Nat
  BY EpochCommitAssumption DEF IInv, Types, EpochCommitAssumption
<1>2. CASE RevisionConflict(c) \/ BumpRefused(c) \/ Crash(c)
  <2>1. GiveUp(c) /\ UNCHANGED <<tenantVars, store, receipts, retired, nextTxn>>
    BY <1>2 DEF RevisionConflict, BumpRefused, Crash, fileVars, boundVars
  <2> QED
    BY <1>1, <2>1, PastRecord DEF GiveUp, Return, tenantVars
<1>3. CASE RetireRefused(c) \/ CredentialReturns(c)
  <2>1. /\ work' = [work EXCEPT ![c] = NoJob] /\ ~At(c, "record")
        /\ UNCHANGED <<tenantVars, store, receipts, retired, nextTxn, cut>>
    BY <1>3 DEF RetireRefused, CredentialReturns, Committed, Return, fileVars, boundVars, At
  <2> QED
    BY <1>1, <2>1, PastRecord DEF tenantVars, NoJob
<1>4. ASSUME work[c] \in Jobs, NEW s \in SUBSET Tenants, NextBump(c, s)
      PROVE  \E j \in Jobs \cup {NoJob} :
               /\ j.pc \notin {"retire", "record"}
               /\ work' = [work EXCEPT ![c] = j]
  <2>1. CASE s = {}
    <3> DEFINE j == [work[c] EXCEPT !.pc = "done"]
    <3>1. j \in Jobs /\ j.pc = "done"
      BY <1>4 DEF Jobs, Points
    <3>2. work' = [work EXCEPT ![c] = j]
      BY <1>4, <2>1 DEF NextBump, Goto
    <3> QED
      BY <3>1, <3>2
  <2>2. CASE s # {}
    <3>1. PICK t \in s : work' = [work EXCEPT ![c].pc = "bump", ![c].todo = s,
                                    ![c].tenant = t, ![c].seen = authEpoch[t]]
      BY <1>4, <2>2 DEF NextBump
    <3> DEFINE j == [work[c] EXCEPT !.pc = "bump", !.todo = s, !.tenant = t,
                                    !.seen = authEpoch[t]]
    <3>2. authEpoch[t] \in 0..MaxSafeEpoch
      BY <1>1
    <3>3. j \in Jobs /\ j.pc = "bump"
      BY <1>4, <3>2 DEF Jobs, Points
    <3>4. work' = [work EXCEPT ![c] = j]
      BY <3>1
    <3> QED
      BY <3>3, <3>4
  <2> QED
    BY <2>1, <2>2
<1>5. CASE WriteReceipt(c)
  <2>1. work[c] \in Jobs
    BY <1>5, RunningJob DEF WriteReceipt, At
  <2>2. /\ work[c].todo \in SUBSET Tenants /\ work[c].key \in Keys
        /\ work[c].next.epoch \in Nat \ {0} /\ work[c].txn \in Txns
    BY <2>1 DEF Jobs, Credential
  <2>3. receipts' \subseteq [key : Keys, epoch : Nat \ {0}, txn : Txns]
    BY <1>1, <1>5, <2>2 DEF WriteReceipt
  <2> QED
    BY <1>1, <1>4, <1>5, <2>1, <2>2, <2>3, PastRecord
       DEF WriteReceipt, At, tenantVars, boundVars
<1>6. CASE BumpTenantAuthEpoch(c)
  <2>1. work[c] \in Jobs /\ work[c].pc \in {"bump", "rebump"}
    BY <1>6, RunningJob DEF BumpTenantAuthEpoch, At
  <2>2. /\ work[c].tenant \in Tenants
        /\ work[c].todo \ {work[c].tenant} \in SUBSET Tenants
    BY <2>1 DEF Jobs
  <2>3. authEpoch' \in [Tenants -> 1..MaxSafeEpoch]
    BY <1>1, <1>6, <2>2 DEF BumpTenantAuthEpoch, Expected
  <2>4. /\ NextBump(c, work[c].todo \ {work[c].tenant}) /\ ~At(c, "record")
        /\ UNCHANGED <<tenantStatus, fileVars, boundVars, cut>>
    BY <1>6, <2>1 DEF BumpTenantAuthEpoch, At
  <2> QED
    BY <1>1, <1>4, <2>1, <2>2, <2>3, <2>4, PastRecord DEF fileVars, boundVars
<1>7. CASE BumpConflict(c)
  <2>1. work[c] \in Jobs /\ work[c].pc = "bump"
    BY <1>7, RunningJob DEF BumpConflict, At
  <2>2. authEpoch[work[c].tenant] \in 0..MaxSafeEpoch
    BY <1>1, <2>1 DEF Jobs
  <2> DEFINE j == [work[c] EXCEPT !.pc = "rebump", !.seen = authEpoch[work[c].tenant]]
  <2>3. j \in Jobs /\ j.pc = "rebump"
    BY <2>1, <2>2 DEF Jobs, Points
  <2>4. /\ work' = [work EXCEPT ![c] = j] /\ ~At(c, "record")
        /\ UNCHANGED <<tenantVars, fileVars, boundVars, cut>>
    BY <1>7, <2>1 DEF BumpConflict, At
  <2> HIDE DEF j
  <2> QED
    BY <1>1, <2>3, <2>4, PastRecord DEF fileVars, boundVars, tenantVars
<1> QED
  BY <1>2, <1>3, <1>5, <1>6, <1>7

\* The rest of the host.
LEMMA HostStep ==
  ASSUME IInv, NEW t \in Tenants, ForeignBump(t) \/ SetTenantStatus(t), UNCHANGED retired
  PROVE  IInv'
<1>1. UNCHANGED <<store, receipts, work, nextTxn, cut, retired>>
  BY DEF ForeignBump, SetTenantStatus, fileVars, boundVars
<1>2. authEpoch' \in [Tenants -> 1..MaxSafeEpoch]
  BY EpochCommitAssumption
     DEF ForeignBump, SetTenantStatus, IInv, Types, EpochCommitAssumption
<1>3. tenantStatus' \in [Tenants -> StatusesInPlay]
  BY DEF ForeignBump, SetTenantStatus, IInv, Types
<1> QED
  BY <1>1, <1>2, <1>3
     DEF IInv, Types, JobInv, BeforeRecord, Ready, Behind, Past, FinalizeNotBlocked,
         Rotating, EpochAt, At

\* Every step keeps the invariant.
LEMMA InvariantStep == IInv /\ [Next]_vars => IInv'
<1> SUFFICES ASSUME IInv, [Next]_vars PROVE IInv'
  OBVIOUS
<1>1. CASE UNCHANGED vars
  BY <1>1 DEF vars, commitVars, tenantVars, fileVars, boundVars, IInv, Types, JobInv,
     BeforeRecord, Ready, Behind, Past, FinalizeNotBlocked, Rotating, EpochAt, At
<1>2. ASSUME NEW c \in Clients, NEW t \in Tenants,
             \/ SetReference(c, t) \/ CredentialRotateBegin(c, t)
             \/ CredentialRotateFinalize(c, t)
             \/ \E s \in {"disabled", "revoked"} : ChangeStatus(c, t, s)
      PROVE  IInv'
  BY <1>2, Begins
<1>3. ASSUME NEW c \in Clients,
             RetireReference(c) \/ RetireRefused(c) \/ CredentialReturns(c)
      PROVE  IInv'
  BY <1>3, RetireStep, CommitStep DEF CredentialReturns, RetireRefused
<1>4. ASSUME NEW c \in Clients, Commit(c) \/ Crash(c), UNCHANGED retired
      PROVE  IInv'
  BY <1>4, RecordStep, CommitStep DEF Commit
<1>5. ASSUME NEW t \in Tenants, ForeignBump(t) \/ SetTenantStatus(t), UNCHANGED retired
      PROVE  IInv'
  BY <1>5, HostStep
<1> QED
  BY <1>1, <1>2, <1>3, <1>4, <1>5 DEF Next

-----------------------------------------------------------------------------
(* The theorems.                                                           *)

\* The inductive invariant: what each call has prepared, and that the epoch
\* of a reference is past every epoch that has a tombstone.
THEOREM Invariant == Spec => []IInv
BY InitIInv, InvariantStep, PTL DEF Spec

\* A record as the promise sees it.
RefOf(r) ==
  [epoch    |-> EpochOf(r),
   status   |-> IF r = Absent THEN "none" ELSE r.status,
   rotation |-> IF Turning(r) THEN "dual_write" ELSE "stable",
   previous |-> IF r = Absent THEN 0 ELSE r.previous]

\* The references of the promise are the records.
LEMMA RefIsOfStore ==
  /\ Ref = [t \in Tenants |-> RefOf(store[t])]
  /\ Ref' = [t \in Tenants |-> RefOf(store'[t])]
BY DEF Ref, RefOf, EpochOf, Turning, EpochAt, StatusAt, Rotating

\* The reference of a steady record, and of one in a rotation.
LEMMA RefOfRecord ==
  ASSUME NEW r
  PROVE  /\ RefOf(r).epoch = EpochOf(r)
         /\ Steady(r) => /\ RefOf(r).status = r.status /\ RefOf(r).rotation = "stable"
                         /\ RefOf(r).previous = r.previous /\ EpochOf(r) = r.epoch
         /\ Turning(r) => /\ RefOf(r).rotation = "dual_write"
                          /\ RefOf(r).previous = r.previous /\ EpochOf(r) = r.epoch
BY DEF RefOf, EpochOf, Steady, Turning

\* A record write is one operation of the promise on the reference in force.
LEMMA WritePromise ==
  ASSUME IInv, NEW c \in Clients, WriteRecord(c), UNCHANGED retired
  PROVE  Promise!Next
<1>1. work[c] \in Jobs /\ Ready(work[c]) /\ work[c].pc = "record"
  BY RunningJob DEF WriteRecord, IInv, JobInv, BeforeRecord, At
<1>2. PICK t \in Tenants : t = work[c].key
  BY <1>1 DEF Ready
<1>3. PICK n \in Credential : n = work[c].next
  BY <1>1 DEF Jobs
<1>4. store[t] = work[c].prior /\ store' = [store EXCEPT ![t] = n]
  BY <1>2, <1>3 DEF WriteRecord
<1>5. n # Absent /\ t \in Keys
  BY CredentialAssumption DEF CredentialAssumption
<1>6. store'[t] = n /\ \A u \in Tenants \ {t} : store'[u] = store[u]
  BY <1>4, <1>5, CredentialAssumption DEF IInv, Types, CredentialAssumption
<1>7. RefOf(n) = [epoch |-> n.epoch, status |-> n.status, rotation |-> n.rotation,
                  previous |-> n.previous]
  BY <1>5 DEF RefOf, EpochOf, Turning, Credential
<1>8. Ref[t] = RefOf(store[t]) /\ Ref' = [Ref EXCEPT ![t] = RefOf(n)]
  BY <1>6, RefIsOfStore
<1>. DEFINE op == work[c].op.name
            Becoming(status, rotation, previous) ==
              /\ n.epoch = Ref[t].epoch + 1 /\ n.status = status
              /\ n.rotation = rotation /\ n.previous = previous
<1>9. \/ op = "set" /\ Becoming("active", "stable", Ref[t].epoch)
      \/ /\ op \in {"disabled", "revoked"}
         /\ Ref[t].rotation = "stable" /\ Ref[t].status # op /\ Ref[t].status # "none"
         /\ Becoming(op, "stable", Ref[t].previous)
      \/ /\ op = "rotation_begin"
         /\ Ref[t].rotation = "stable" /\ Ref[t].status = "active"
         /\ Becoming("rotating", "dual_write", Ref[t].epoch)
      \/ /\ op = "rotation_finalize"
         /\ Ref[t].rotation = "dual_write" /\ <<t, Ref[t].previous>> \in retired
         /\ Becoming("active", "stable", Ref[t].epoch)
  <2>1. Steady(store[t]) => store[t].status # "none"
    BY OnDisk DEF Steady, Credential, CredentialStates
  <2> QED
    BY <1>1, <1>2, <1>3, <1>4, <1>8, <2>1, RefOfRecord
       DEF Ready, Prepared, Becomes, Finalizes
<1>10. ASSUME NEW status, NEW rotation, NEW previous, Becoming(status, rotation, previous)
       PROVE  Promise!Become(t, status, rotation, previous)
  BY <1>7, <1>8, <1>10 DEF Promise!Become
<1> HIDE DEF Becoming
<1>11. CASE op = "set" /\ Becoming("active", "stable", Ref[t].epoch)
  BY <1>10, <1>11 DEF Promise!Next, Promise!Set
<1>12. CASE /\ op \in {"disabled", "revoked"}
            /\ Ref[t].rotation = "stable" /\ Ref[t].status # op /\ Ref[t].status # "none"
            /\ Becoming(op, "stable", Ref[t].previous)
  BY <1>10, <1>12 DEF Promise!Next, Promise!ChangeStatus
<1>13. CASE /\ op = "rotation_begin"
            /\ Ref[t].rotation = "stable" /\ Ref[t].status = "active"
            /\ Becoming("rotating", "dual_write", Ref[t].epoch)
  BY <1>10, <1>13 DEF Promise!Next, Promise!BeginRotation
<1>14. CASE /\ op = "rotation_finalize"
            /\ Ref[t].rotation = "dual_write" /\ <<t, Ref[t].previous>> \in retired
            /\ Becoming("active", "stable", Ref[t].epoch)
  BY <1>10, <1>14 DEF Promise!Next, Promise!EndRotation
<1> QED
  BY <1>9, <1>11, <1>12, <1>13, <1>14

\* A tombstone is that of an epoch that is behind.
LEMMA RetirePromise ==
  ASSUME IInv, NEW c \in Clients, RetireReference(c)
  PROVE  Promise!Next
<1>1. work[c] \in Jobs /\ Ready(work[c]) /\ Behind(work[c])
  BY RunningJob DEF RetireReference, IInv, JobInv, BeforeRecord, At, Ready
<1>2. PICK t \in Tenants : t = work[c].key
  BY <1>1 DEF Ready
<1>3. PICK old \in Credential : old = work[c].prior
  BY <1>1 DEF Jobs, Behind, Turning
<1>4. /\ old.previous \in Nat /\ old.epoch \in Nat /\ 0 < old.previous
      /\ old.previous < old.epoch /\ old.epoch <= EpochAt(t) /\ EpochAt(t) \in Nat
  BY <1>1, <1>2, <1>3, OnDisk DEF Behind, Credential
<1>5. Ref[t].epoch = EpochAt(t)
  BY DEF Ref
<1>6. old.previous \in 1..Ref[t].epoch /\ old.previous < Ref[t].epoch
  BY <1>4, <1>5
<1>7. retired' = retired \cup {<<t, old.previous>>} /\ Ref' = Ref
  BY <1>2, <1>3, RefIsOfStore DEF RetireReference, Tombstone, fileVars
<1> QED
  BY <1>6, <1>7 DEF Promise!Next, Promise!Retire

\* Every other step is invisible in the promise.
LEMMA CredentialPromiseStep ==
  ASSUME IInv, [Next]_vars
  PROVE  [Promise!Next]_(Promise!vars)
<1>1. ASSUME NEW c \in Clients, WriteRecord(c), UNCHANGED retired PROVE Promise!Next
  BY <1>1, WritePromise
<1>2. ASSUME NEW c \in Clients, RetireReference(c) PROVE Promise!Next
  BY <1>2, RetirePromise
<1>3. CASE UNCHANGED <<store, retired>>
  <2>1. Ref' = Ref
    BY <1>3, RefIsOfStore
  <2> QED
    BY <1>3, <2>1 DEF Promise!vars
<1>4. ASSUME NEW c \in Clients, Commit(c) \/ Crash(c), UNCHANGED retired
      PROVE  WriteRecord(c) \/ UNCHANGED <<store, retired>>
  BY <1>4 DEF Commit, RevisionConflict, WriteReceipt, BumpTenantAuthEpoch, BumpConflict,
     BumpRefused, Crash, fileVars
<1>5. ASSUME NEW c \in Clients, NEW t \in Tenants,
             \/ SetReference(c, t) \/ CredentialRotateBegin(c, t)
             \/ CredentialRotateFinalize(c, t)
             \/ \E s \in {"disabled", "revoked"} : ChangeStatus(c, t, s)
      PROVE  UNCHANGED <<store, retired>>
  BY <1>5 DEF SetReference, CredentialRotateBegin, CredentialRotateFinalize, ChangeStatus
<1>6. ASSUME NEW c \in Clients, RetireRefused(c) \/ CredentialReturns(c)
      PROVE  UNCHANGED <<store, retired>>
  BY <1>6 DEF RetireRefused, CredentialReturns, Committed, fileVars
<1>7. ASSUME NEW t \in Tenants, ForeignBump(t) \/ SetTenantStatus(t), UNCHANGED retired
      PROVE  UNCHANGED <<store, retired>>
  BY <1>7 DEF ForeignBump, SetTenantStatus, fileVars
<1>8. CASE UNCHANGED vars
  BY <1>3, <1>8 DEF vars, commitVars, fileVars
<1> QED
  BY <1>1, <1>2, <1>3, <1>4, <1>5, <1>6, <1>7, <1>8 DEF Next

\* Types of the records, the receipts and the tombstones.
THEOREM TypeCorrect == Spec => []TypeOK
<1>1. IInv => TypeOK
  BY DEF IInv, Types, TypeOK
<1> QED
  BY <1>1, Invariant, PTL

\* A credential epoch that has a tombstone is never in force again, for any
\* number of calls that overlap, conflict and die (_commit, rotate_finalize).
THEOREM RetiredIsNeverInForce == Spec => []RetiredNeverInForce
<1>1. IInv => RetiredNeverInForce
  <2> SUFFICES ASSUME IInv, NEW t \in Tenants, <<t, EpochAt(t)>> \in retired PROVE FALSE
    BY DEF RetiredNeverInForce
  <2>1. EpochAt(t) \in Nat
    BY DEF IInv, Types
  <2>2. EpochAt(t) < EpochAt(t)
    BY <2>1 DEF IInv, Past
  <2> QED
    BY <2>1, <2>2
<1> QED
  BY <1>1, Invariant, PTL

\* Nothing but a finalize of the same reference, under way or cut short, can
\* stand in the way of the finalize of a rotation (rotate_finalize).
THEOREM RotationsCanEnd == Spec => []FinalizeNotBlocked
<1>1. IInv => FinalizeNotBlocked
  BY DEF IInv
<1> QED
  BY <1>1, Invariant, PTL

\* The broker implements CredentialReference: calls that read a record, then
\* write a tombstone, a record, a receipt and a bump, without a lock over them
\* and with deaths in between, change a reference in whole operations.
THEOREM ReferenceRefinement == Spec => ImplementsReference
<1>1. Init => Promise!Init
  BY CredentialAssumption
     DEF Init, CommitInit, CredentialAssumption, Promise!Init, Promise!NoReference, Ref,
         EpochAt, StatusAt, Rotating
<1>2. IInv /\ [Next]_vars => [Promise!Next]_(Promise!vars)
  BY CredentialPromiseStep
<1> QED
  BY <1>1, <1>2, Invariant, PTL DEF Spec, ImplementsReference, Promise!Spec

(***************************************************************************)
(* The agent bindings.                                                     *)
(***************************************************************************)

Ops ==
  [name : {"bind", "rebind_out"}, agent : Agents, tenant : Tenants]
    \cup [name : {"revoke", "suspend", "reactivate"}, agent : Agents]
    \cup [name : {"bind"}, agent : Agents, tenant : Tenants, rebind : {TRUE}]

CommitPoints   == {"record", "receipt", "bump", "rebump", "done", "relabel"}
RotationPoints == {"rotate_begin", "rotate_finalize", "rotate_tomb",
                   "rotate_unlink", "bump", "rebump", "done"}

CheckedJobs == [pc : {"checked"}, op : Ops, key : {Absent}]

CommitJobs ==
  [pc : CommitPoints, op : Ops, key : BindingKeys, prior : Binding \cup {Absent},
   next : Binding, txn : Txns, todo : SUBSET Tenants, tenant : Tenants, seen : Nat]

RotationJobs ==
  [pc : RotationPoints, op : [name : {"rotate"}], key : {Absent}, old : Nat,
   keys : SUBSET BindingKeys, todo : SUBSET Tenants,
   tenant : Tenants \cup BindingKeys \cup {Absent}, txn : {0}, seen : Nat]

WorkTypes == work \in [Clients -> {NoJob} \cup CheckedJobs \cup CommitJobs \cup RotationJobs]

Contexts ==
  {NoContext} \cup [pc : {"hash"}, key : BindingKeys]
    \cup [pc : {"resolved"}, key : BindingKeys, rec : Binding]
    \cup [pc : {"context"}, key : BindingKeys, rec : Binding, authEpoch : Nat,
          torn : BOOLEAN]

FileTypes ==
  /\ authEpoch \in [Tenants -> 1..MaxSafeEpoch]
  /\ tenantStatus \in [Tenants -> StatusesInPlay]
  /\ store \in [Keys -> Binding \cup {Absent}]
  /\ receipts \subseteq [key : BindingKeys, epoch : Nat \ {0}, txn : Txns]
  /\ tombstones \subseteq BindingKeys
  /\ ctx \in [Requests -> Contexts]
  /\ nextTxn \in Nat \ {0}

\* The secret: one rotation at a time begins, since its material is new.
PointerInv ==
  /\ pointer \in [state : {"stable", "dual_write"}, current : 1..MaxSecret,
                  secondary : 0..MaxSecret]
  /\ material \subseteq 1..MaxSecret
  /\ pointer.current \in material
  /\ Stable => pointer.secondary = 0
  /\ ~Stable => /\ pointer.secondary = pointer.current + 1
                /\ pointer.secondary \in material

\* What a client knows: a rotation of the secret it replaces and the files it
\* ends, a relabel of the record it has read.
Knows(c) ==
  /\ At(c, "rotate_begin") => /\ Stable /\ work[c].old = pointer.current
                              /\ work[c].old + 1 \in material
  /\ At(c, "rotate_finalize") => work[c].old <= pointer.current
  /\ At(c, "rotate_tomb") \/ At(c, "rotate_unlink") =>
       \A k \in work[c].keys : k[2] < pointer.current
  /\ At(c, "rotate_unlink") => work[c].tenant \in work[c].keys
  /\ At(c, "bump") \/ At(c, "rebump") => work[c].tenant \in Tenants
  /\ At(c, "relabel") => work[c].prior # Absent

KnowsInv ==
  /\ \A c \in Clients : Knows(c)
  /\ \A c, d \in Clients : At(c, "rotate_begin") /\ At(d, "rotate_begin") => c = d

HasRecord(r) == ctx[r].pc \in {"resolved", "context"}

\* The transaction of a call that has not written its record is on no record.
Fresh(c) ==
  /\ work[c].next.txn < nextTxn
  /\ \A k \in Keys : store[k] # Absent => store[k].txn # work[c].next.txn
  /\ \A r \in Requests : HasRecord(r) => ctx[r].rec.txn # work[c].next.txn
  /\ \A d \in Clients : At(d, "record") /\ d # c => work[d].next.txn # work[c].next.txn

TxnInv ==
  /\ \A k \in Keys : store[k] # Absent => store[k].txn < nextTxn
  /\ \A r \in Requests : HasRecord(r) => ctx[r].rec.txn < nextTxn
  /\ \A c \in Clients : At(c, "record") => Fresh(c)

\* What a call that is to write its record has read: it binds over nothing
\* that is held, or owes its bump to the tenant of the record it replaces.
ReadInv ==
  \A c \in Clients : At(c, "record") =>
    LET j == work[c] IN
    /\ j.next.epoch = (IF j.prior = Absent THEN 0 ELSE j.prior.epoch) + 1
    /\ j.prior # Absent /\ j.prior.status = "active" => j.prior.tenant \in j.todo

\* The client that has ended binding k still has to bump the tenant.
Owes(c, k, t) ==
  /\ work[c].pc \in {"receipt", "bump", "rebump", "rotate_tomb", "rotate_unlink"}
  /\ t \in work[c].todo
  /\ work[c].key = k \/ work[c].op.name = "rotate"

Reached(r) ==
  LET x == ctx[r] IN
  \/ StillBound(x.key, x.rec)
  \/ x.authEpoch < authEpoch[x.rec.tenant]
  \/ \E c \in Clients : Owes(c, x.key, x.rec.tenant)
  \/ CutShort(x.key)

ContextInv ==
  \A r \in Requests :
    /\ HasRecord(r) => /\ ctx[r].rec.status = "active"
                       /\ StillBound(ctx[r].key, ctx[r].rec) =>
                            /\ store[ctx[r].key].status = "active"
                            /\ store[ctx[r].key].tenant = ctx[r].rec.tenant
    /\ ctx[r].pc = "context" => /\ ctx[r].authEpoch <= authEpoch[ctx[r].rec.tenant]
                                /\ ~ctx[r].torn => Reached(r)

\* Keys under the current secret or a later one.
Live(k) == k \in BindingKeys /\ k[2] >= pointer.current

Receipted(k, e) == \E x \in receipts : x.key = k /\ x.epoch = e
Receipting(c, k, e) == At(c, "receipt") /\ work[c].key = k /\ work[c].next.epoch = e

AuditOf(k) ==
  /\ \A x \in receipts : x.key = k => x.epoch <= EpochAt(k)
  /\ \A x, y \in receipts : x.key = k /\ y.key = k /\ x.epoch = y.epoch => x = y
  /\ \A c \in Clients : At(c, "receipt") /\ work[c].key = k =>
       /\ work[c].next.epoch <= EpochAt(k)
       /\ ~Receipted(k, work[c].next.epoch)
       /\ \A d \in Clients : Receipting(d, k, work[c].next.epoch) => c = d
  /\ \A e \in 1..EpochAt(k) :
       \/ Receipted(k, e)
       \/ \E c \in Clients : Receipting(c, k, e)
       \/ [key |-> k, pc |-> "receipt"] \in cut

AuditInv == \A k \in BindingKeys : Live(k) => AuditOf(k)

BindingInv ==
  /\ FileTypes /\ WorkTypes
  /\ PointerInv /\ KnowsInv
  /\ TxnInv /\ ReadInv /\ ContextInv /\ AuditInv

-----------------------------------------------------------------------------
(* Jobs.                                                                   *)

AllJobs == {NoJob} \cup CheckedJobs \cup CommitJobs \cup RotationJobs

Same(c) == \A d \in Clients \ {c} : work'[d] = work[d]

\* The point a client has reached says what its job looks like.
LEMMA JobShapes ==
  ASSUME WorkTypes, NEW c \in Clients
  PROVE  /\ work[c] \in AllJobs
         /\ work[c].pc = "checked" => work[c] \in CheckedJobs
         /\ work[c].pc \in {"record", "receipt", "relabel"} => work[c] \in CommitJobs
         /\ work[c].pc \in {"rotate_begin", "rotate_finalize", "rotate_tomb", "rotate_unlink"}
              => work[c] \in RotationJobs
         /\ work[c].pc \in {"bump", "rebump", "done"}
              => work[c] \in CommitJobs \/ work[c] \in RotationJobs
<1>1. work[c] \in {NoJob} \cup CheckedJobs \cup CommitJobs \cup RotationJobs
  BY DEF WorkTypes
<1>2. CASE work[c] = NoJob
  BY <1>2 DEF NoJob, AllJobs
<1>3. CASE work[c] \in CheckedJobs
  BY <1>3 DEF CheckedJobs, AllJobs
<1>4. CASE work[c] \in CommitJobs
  BY <1>4 DEF CommitJobs, CommitPoints, AllJobs
<1>5. CASE work[c] \in RotationJobs
  BY <1>5 DEF RotationJobs, RotationPoints, AllJobs
<1> QED
  BY <1>1, <1>2, <1>3, <1>4, <1>5

\* A client takes up a job.
LEMMA NewJob ==
  ASSUME WorkTypes, NEW c \in Clients, NEW j \in AllJobs, work' = [work EXCEPT ![c] = j]
  PROVE  WorkTypes' /\ work'[c] = j /\ Same(c)
BY DEF WorkTypes, AllJobs, Same

\* A job of a commit at another point.
LEMMA CommitJobAt ==
  ASSUME NEW j \in CommitJobs, NEW l \in CommitPoints
  PROVE  LET i == [j EXCEPT !.pc = l] IN
         /\ i \in CommitJobs /\ i.pc = l
         /\ i.op = j.op /\ i.key = j.key /\ i.prior = j.prior /\ i.next = j.next
         /\ i.txn = j.txn /\ i.todo = j.todo /\ i.tenant = j.tenant /\ i.seen = j.seen
BY DEF CommitJobs

\* A job of a rotation at another point.
LEMMA RotationJobAt ==
  ASSUME NEW j \in RotationJobs, NEW l \in RotationPoints
  PROVE  LET i == [j EXCEPT !.pc = l] IN
         /\ i \in RotationJobs /\ i.pc = l
         /\ i.op = j.op /\ i.key = j.key /\ i.old = j.old /\ i.keys = j.keys
         /\ i.todo = j.todo /\ i.tenant = j.tenant /\ i.seen = j.seen
BY DEF RotationJobs

\* Going to a point of a commit.
LEMMA CommitGoto ==
  ASSUME WorkTypes, NEW c \in Clients, work[c] \in CommitJobs,
         NEW l \in CommitPoints, Goto(c, l)
  PROVE  /\ WorkTypes' /\ Same(c) /\ work'[c] = [work[c] EXCEPT !.pc = l]
         /\ work'[c] \in CommitJobs /\ work'[c].pc = l
         /\ work'[c].op = work[c].op /\ work'[c].key = work[c].key
         /\ work'[c].next = work[c].next /\ work'[c].todo = work[c].todo
<1> DEFINE i == [work[c] EXCEPT !.pc = l]
<1>1. i \in CommitJobs /\ i \in AllJobs /\ i.pc = l /\ i.op = work[c].op
      /\ i.key = work[c].key /\ i.next = work[c].next /\ i.todo = work[c].todo
  BY CommitJobAt DEF AllJobs
<1>2. work' = [work EXCEPT ![c] = i]
  BY DEF Goto
<1> HIDE DEF i
<1>3. WorkTypes' /\ work'[c] = i /\ Same(c)
  BY <1>1, <1>2, NewJob
<1> QED
  BY <1>1, <1>3 DEF i

\* The tenants left to bump: the call is done, or reads the epoch of one.
LEMMA BumpNext ==
  ASSUME FileTypes, WorkTypes, NEW c \in Clients, NEW tenants \in SUBSET Tenants,
         work[c] \in CommitJobs \/ work[c] \in RotationJobs, NextBump(c, tenants)
  PROVE  /\ WorkTypes' /\ Same(c) /\ work'[c].pc \in {"done", "bump"}
         /\ tenants # {} => /\ work'[c].pc = "bump" /\ work'[c].todo = tenants
                            /\ work'[c].tenant \in Tenants
         /\ tenants = {} => work'[c].pc = "done"
         /\ Knows(c)'
         /\ work'[c].op = work[c].op /\ work'[c].key = work[c].key
<1>1. CASE tenants = {}
  <2> DEFINE i == [work[c] EXCEPT !.pc = "done"]
  <2>1. i \in AllJobs /\ i.pc = "done" /\ i.op = work[c].op /\ i.key = work[c].key
    BY CommitJobAt, RotationJobAt DEF AllJobs, CommitPoints, RotationPoints
  <2>2. work' = [work EXCEPT ![c] = i]
    BY <1>1 DEF NextBump, Goto
  <2> HIDE DEF i
  <2>3. WorkTypes' /\ work'[c] = i /\ Same(c)
    BY <2>1, <2>2, NewJob
  <2> QED
    BY <1>1, <2>1, <2>3 DEF Knows, At
<1>2. CASE tenants # {}
  <2>1. PICK t \in tenants :
          work' = [work EXCEPT ![c].pc = "bump", ![c].todo = tenants,
                               ![c].tenant = t, ![c].seen = authEpoch[t]]
    BY <1>2 DEF NextBump
  <2> DEFINE i == [work[c] EXCEPT !.pc = "bump", !.todo = tenants,
                                  !.tenant = t, !.seen = authEpoch[t]]
  <2>2. authEpoch[t] \in Nat /\ t \in Tenants
    BY EpochCommitAssumption DEF FileTypes, EpochCommitAssumption
  <2>3. /\ i \in CommitJobs \cup RotationJobs
        /\ i.pc = "bump" /\ i.todo = tenants /\ i.op = work[c].op /\ i.key = work[c].key
        /\ i.tenant \in Tenants
    <3>1. CASE work[c] \in CommitJobs
      BY <2>2, <3>1 DEF CommitJobs, CommitPoints
    <3>2. CASE work[c] \in RotationJobs
      BY <2>2, <3>2 DEF RotationJobs, RotationPoints
    <3> QED
      BY <3>1, <3>2
  <2>4. work' = [work EXCEPT ![c] = i]
    BY <2>1
  <2> HIDE DEF i
  <2>5. i \in AllJobs
    BY <2>3 DEF AllJobs
  <2>6. WorkTypes' /\ work'[c] = i /\ Same(c)
    BY <2>4, <2>5, NewJob
  <2> QED
    BY <1>2, <2>3, <2>6 DEF Knows, At
<1> QED
  BY <1>1, <1>2

-----------------------------------------------------------------------------
(* A host starts with no binding, no context and one secret.               *)
LEMMA BindingInitInv == BindingInit => BindingInv
<1> SUFFICES ASSUME BindingInit PROVE BindingInv
  OBVIOUS
<1> USE EpochCommitAssumption, BindingAssumption
<1>1. FileTypes
  BY DEF BindingInit, CommitInit, FileTypes, Contexts, EpochCommitAssumption
<1>2. WorkTypes
  BY DEF BindingInit, CommitInit, WorkTypes
<1>3. PointerInv
  BY DEF BindingInit, PointerInv, Stable, BindingAssumption
<1>4. \A c \in Clients : work[c].pc = "idle"
  BY DEF BindingInit, CommitInit, NoJob
<1>5. KnowsInv /\ ReadInv
  BY <1>4 DEF KnowsInv, Knows, ReadInv, At
<1>6. \A r \in Requests : ctx[r].pc = "none"
  BY DEF BindingInit, NoContext
<1>7. TxnInv /\ ContextInv
  BY <1>4, <1>6 DEF BindingInit, CommitInit, TxnInv, ContextInv, HasRecord, At
<1>8. AuditInv
  <2>1. \A k \in BindingKeys : EpochAt(k) = 0 /\ receipts = {}
    BY DEF BindingInit, CommitInit, EpochAt, BindingAssumption
  <2>2. 1..0 = {}
    OBVIOUS
  <2> QED
    BY <1>4, <2>1, <2>2 DEF AuditInv, AuditOf, At
<1> QED
  BY <1>1, <1>2, <1>3, <1>5, <1>7, <1>8 DEF BindingInv

-----------------------------------------------------------------------------
(* What keeps each part of the invariant.                                  *)

\* No record is replaced by that of another transaction.
Alike ==
  \A k \in Keys :
    /\ (store'[k] = Absent) = (store[k] = Absent)
    /\ store[k] # Absent => /\ store'[k].txn = store[k].txn
                            /\ store'[k].epoch = store[k].epoch
                            /\ store'[k].status = store[k].status
                            /\ store'[k].tenant = store[k].tenant

\* A step of one client leaves what the others know, the secret unchanged.
LEMMA KnowsKept ==
  ASSUME KnowsInv, NEW c \in Clients, Same(c), UNCHANGED <<pointer, material>>,
         Knows(c)', At(c, "rotate_begin")' => At(c, "rotate_begin")
  PROVE  KnowsInv'
<1>1. ASSUME NEW d \in Clients PROVE Knows(d)'
  <2>1. CASE d = c
    BY <2>1
  <2>2. CASE d # c
    BY <2>2 DEF KnowsInv, Knows, Same, At, Stable
  <2> QED
    BY <2>1, <2>2
<1>2. \A d \in Clients : At(d, "rotate_begin")' => At(d, "rotate_begin")
  BY DEF Same, At
<1> QED
  BY <1>1, <1>2 DEF KnowsInv

\* Transactions stay told apart when no record is written and no call prepared.
LEMMA TxnKept ==
  ASSUME TxnInv, ReadInv, FileTypes, NEW c \in Clients, Same(c), ctx' = ctx,
         nextTxn' = nextTxn, ~At(c, "record")',
         \A k \in Keys : store'[k] # Absent =>
           store[k] # Absent /\ store'[k].txn = store[k].txn
  PROVE  TxnInv' /\ ReadInv'
<1>1. ASSUME NEW d \in Clients, At(d, "record")'
      PROVE  d # c /\ work'[d] = work[d] /\ At(d, "record")
  BY <1>1 DEF Same, At
<1>2. ASSUME NEW d \in Clients, At(d, "record")' PROVE Fresh(d)'
  <2>1. Fresh(d) /\ work'[d] = work[d]
    BY <1>1, <1>2 DEF TxnInv
  <2>2. \A e \in Clients : At(e, "record")' => work'[e] = work[e] /\ At(e, "record")
    BY <1>1
  <2> QED
    BY <2>1, <2>2 DEF Fresh, HasRecord
<1>3. TxnInv'
  BY <1>2 DEF TxnInv, HasRecord
<1>4. ReadInv'
  BY <1>1 DEF ReadInv, At
<1> QED
  BY <1>3, <1>4

\* The debts of the others stay, and client c pays its own or is noted.
DebtKept(c) ==
  \A k \in BindingKeys, t \in Tenants :
    Owes(c, k, t) => Owes(c, k, t)' \/ CutShort(k)' \/ authEpoch[t] < authEpoch'[t]

\* What a request holds at each point.
LEMMA ContextTypes ==
  ASSUME FileTypes, NEW r \in Requests
  PROVE  /\ ctx[r] \in Contexts
         /\ HasRecord(r) => ctx[r].key \in BindingKeys /\ ctx[r].rec \in Binding
         /\ ctx[r].pc = "context" => HasRecord(r) /\ ctx[r].authEpoch \in Nat
                                      /\ ctx[r].torn \in BOOLEAN
         /\ ctx[r].pc = "hash" => ctx[r].key \in BindingKeys
BY DEF FileTypes, Contexts, HasRecord, NoContext

\* A context stays reached: the debt that holds it back is kept, paid or noted.
LEMMA ReachedKept ==
  ASSUME FileTypes, NEW c \in Clients, NEW r \in Requests, ctx'[r] = ctx[r],
         ctx[r].pc = "context", ctx[r].authEpoch <= authEpoch[ctx[r].rec.tenant],
         Reached(r), Same(c), cut \subseteq cut',
         authEpoch' \in [Tenants -> Nat],
         \A t \in Tenants : authEpoch[t] <= authEpoch'[t],
         StillBound(ctx[r].key, ctx[r].rec) =>
           StillBound(ctx[r].key, ctx[r].rec)' \/ Owes(c, ctx[r].key, ctx[r].rec.tenant)'
             \/ CutShort(ctx[r].key)',
         DebtKept(c)
  PROVE  Reached(r)'
<1> DEFINE x == ctx[r]
           t == ctx[r].rec.tenant
<1>1. x.key \in BindingKeys /\ t \in Tenants /\ x.authEpoch \in Nat
  BY ContextTypes DEF Binding
<1>2. authEpoch[t] \in Nat /\ authEpoch'[t] \in Nat /\ authEpoch[t] <= authEpoch'[t]
  BY <1>1, EpochCommitAssumption DEF FileTypes, EpochCommitAssumption
<1>3. CASE StillBound(x.key, x.rec)
  BY <1>3 DEF Reached
<1>4. CASE x.authEpoch < authEpoch[t]
  <2>1. x.authEpoch < authEpoch'[t]
    BY <1>1, <1>2, <1>4
  <2> QED
    BY <2>1 DEF Reached
<1>5. CASE CutShort(x.key)
  <2>1. CutShort(x.key)'
    BY <1>5 DEF CutShort
  <2> QED
    BY <2>1 DEF Reached
<1>6. ASSUME NEW d \in Clients, Owes(d, x.key, t) PROVE Reached(r)'
  <2>1. CASE d # c
    <3>1. Owes(d, x.key, t)'
      BY <1>6, <2>1 DEF Owes, Same
    <3> QED
      BY <3>1 DEF Reached
  <2>2. CASE d = c
    <3>1. Owes(c, x.key, t)' \/ CutShort(x.key)' \/ authEpoch[t] < authEpoch'[t]
      BY <1>1, <1>6, <2>2 DEF DebtKept
    <3>2. CASE Owes(c, x.key, t)'
      BY <3>2 DEF Reached
    <3>3. CASE CutShort(x.key)'
      BY <3>3 DEF Reached
    <3>4. CASE authEpoch[t] < authEpoch'[t]
      <4>1. x.authEpoch < authEpoch'[t]
        BY <1>1, <1>2, <3>4
      <4> QED
        BY <4>1 DEF Reached
    <3> QED
      BY <3>1, <3>2, <3>3, <3>4
  <2> QED
    BY <2>1, <2>2
<1> QED
  BY <1>3, <1>4, <1>5, <1>6 DEF Reached

\* Contexts are not touched, nor what they were resolved from.
LEMMA ContextKept ==
  ASSUME FileTypes, ContextInv, NEW c \in Clients, ctx' = ctx, Same(c), cut \subseteq cut',
         Alike, authEpoch' \in [Tenants -> Nat],
         \A t \in Tenants : authEpoch[t] <= authEpoch'[t],
         DebtKept(c)
  PROVE  ContextInv'
<1> SUFFICES ASSUME NEW r \in Requests
             PROVE  /\ HasRecord(r) =>
                         /\ ctx[r].rec.status = "active"
                         /\ StillBound(ctx[r].key, ctx[r].rec)' =>
                              /\ store'[ctx[r].key].status = "active"
                              /\ store'[ctx[r].key].tenant = ctx[r].rec.tenant
                    /\ ctx[r].pc = "context" =>
                         /\ ctx[r].authEpoch <= authEpoch'[ctx[r].rec.tenant]
                         /\ ~ctx[r].torn => Reached(r)'
  BY DEF ContextInv, HasRecord
<1>1. ASSUME HasRecord(r)
      PROVE  StillBound(ctx[r].key, ctx[r].rec)' = StillBound(ctx[r].key, ctx[r].rec)
  <2>1. ctx[r].key \in Keys
    BY <1>1, ContextTypes, BindingAssumption DEF BindingAssumption
  <2> QED
    BY <2>1 DEF StillBound, Alike
<1>2. ASSUME HasRecord(r)
      PROVE  /\ ctx[r].rec.status = "active"
             /\ StillBound(ctx[r].key, ctx[r].rec)' =>
                  /\ store'[ctx[r].key].status = "active"
                  /\ store'[ctx[r].key].tenant = ctx[r].rec.tenant
  <2>1. ctx[r].key \in Keys
    BY <1>2, ContextTypes, BindingAssumption DEF BindingAssumption
  <2> QED
    BY <1>1, <1>2, <2>1 DEF ContextInv, Alike, StillBound
<1>3. ASSUME ctx[r].pc = "context"
      PROVE  /\ ctx[r].authEpoch <= authEpoch'[ctx[r].rec.tenant]
             /\ ~ctx[r].torn => Reached(r)'
  <2>1. /\ HasRecord(r) /\ ctx[r].authEpoch \in Nat /\ ctx[r].rec.tenant \in Tenants
        /\ ctx[r].authEpoch <= authEpoch[ctx[r].rec.tenant]
        /\ ~ctx[r].torn => Reached(r)
    BY <1>3, ContextTypes DEF ContextInv, Binding
  <2>2. authEpoch \in [Tenants -> Nat]
    BY EpochCommitAssumption DEF FileTypes, EpochCommitAssumption
  <2>3. ctx[r].authEpoch <= authEpoch'[ctx[r].rec.tenant]
    BY <2>1, <2>2
  <2>4. ASSUME ~ctx[r].torn PROVE Reached(r)'
    <3>1. StillBound(ctx[r].key, ctx[r].rec) => StillBound(ctx[r].key, ctx[r].rec)'
      BY <1>1, <2>1
    <3> QED
      BY <1>3, <2>1, <2>4, <3>1, ReachedKept
  <2> QED
    BY <2>3, <2>4
<1> QED
  BY <1>2, <1>3

\* No receipt is written or due, and the secret only moves on.
LEMMA AuditKept ==
  ASSUME FileTypes, PointerInv, AuditInv, NEW c \in Clients, Same(c),
         \A k \in BindingKeys : Live(k)' => Live(k) /\ EpochAt(k)' = EpochAt(k),
         receipts' = receipts, cut \subseteq cut', ~At(c, "receipt")',
         At(c, "receipt") => [key |-> work[c].key, pc |-> "receipt"] \in cut'
  PROVE  AuditInv'
<1> SUFFICES ASSUME NEW k \in BindingKeys, Live(k)'
             PROVE  AuditOf(k)'
  BY DEF AuditInv
<1>1. AuditOf(k) /\ EpochAt(k)' = EpochAt(k)
  BY DEF AuditInv
<1>2. \A d \in Clients : At(d, "receipt")' => d # c /\ work'[d] = work[d] /\ At(d, "receipt")
  BY DEF At, Same
<1>3. \A d \in Clients, e \in Nat : Receipting(d, k, e) =>
        Receipting(d, k, e)' \/ [key |-> k, pc |-> "receipt"] \in cut'
  BY DEF Receipting, At, Same
<1>4. /\ \A x \in receipts' : x.key = k => x.epoch <= EpochAt(k)'
      /\ \A x, y \in receipts' : x.key = k /\ y.key = k /\ x.epoch = y.epoch => x = y
  BY <1>1 DEF AuditOf
<1>5. ASSUME NEW d \in Clients, At(d, "receipt")', work'[d].key = k
      PROVE  /\ work'[d].next.epoch <= EpochAt(k)'
             /\ ~Receipted(k, work[d].next.epoch)'
             /\ \A b \in Clients : Receipting(b, k, work[d].next.epoch)' => d = b
  <2>1. /\ work'[d] = work[d] /\ At(d, "receipt")
        /\ \A b \in Clients : At(b, "receipt")' => work'[b] = work[b]
    BY <1>2, <1>5
  <2>2. /\ work[d].next.epoch <= EpochAt(k) /\ ~Receipted(k, work[d].next.epoch)
        /\ \A b \in Clients : Receipting(b, k, work[d].next.epoch) => d = b
    BY <1>1, <1>5, <2>1 DEF AuditOf
  <2> QED
    BY <1>1, <2>1, <2>2 DEF Receipted, Receipting, At
<1>6. ASSUME NEW e \in 1..EpochAt(k)'
      PROVE  \/ Receipted(k, e)'
             \/ \E d \in Clients : Receipting(d, k, e)'
             \/ [key |-> k, pc |-> "receipt"] \in cut'
  <2>1. e \in 1..EpochAt(k) /\ e \in Nat
    BY <1>1
  <2>2. \/ Receipted(k, e)
        \/ \E d \in Clients : Receipting(d, k, e)
        \/ [key |-> k, pc |-> "receipt"] \in cut
    BY <1>1, <2>1 DEF AuditOf
  <2> QED
    BY <1>3, <2>1, <2>2 DEF Receipted
<1> QED
  BY <1>4, <1>5, <1>6 DEF AuditOf

-----------------------------------------------------------------------------
(* Steps that write no file but tombstones.                                *)

\* What a client that ends a debt half way leaves in cut.
Noted(c) == [key |-> work[c].key, pc |-> work[c].pc] \in cut'

\* A step of one client that writes no record, receipt, secret or epoch.
LEMMA QuietStep ==
  ASSUME BindingInv, NEW c \in Clients, Same(c), WorkTypes',
         UNCHANGED <<authEpoch, store, receipts, pointer, material, ctx, nextTxn>>,
         tenantStatus' \in [Tenants -> StatusesInPlay],
         tombstones' \subseteq BindingKeys, cut \subseteq cut',
         work'[c].pc \notin {"record", "receipt", "rotate_begin"}, Knows(c)',
         \/ work[c].pc \in {"idle", "checked", "record", "done", "relabel",
                            "rotate_begin", "rotate_finalize"}
         \/ Noted(c)
         \/ \A k \in BindingKeys, t \in Tenants : Owes(c, k, t) => Owes(c, k, t)'
  PROVE  (At(c, "receipt") => Noted(c)) => BindingInv'
<1> SUFFICES ASSUME At(c, "receipt") => Noted(c) PROVE BindingInv'
  OBVIOUS
<1>1. FileTypes /\ PointerInv /\ KnowsInv /\ TxnInv /\ ReadInv /\ ContextInv
      /\ AuditInv /\ WorkTypes
  BY DEF BindingInv
<1>2. FileTypes'
  BY <1>1 DEF FileTypes
<1>3. PointerInv'
  BY <1>1 DEF PointerInv, Stable
<1>4. KnowsInv'
  BY <1>1, KnowsKept DEF At
<1>5. TxnInv' /\ ReadInv'
  BY <1>1, TxnKept DEF At
<1>6. DebtKept(c)
  <2> SUFFICES ASSUME NEW k \in BindingKeys, NEW t \in Tenants, Owes(c, k, t)
               PROVE  Owes(c, k, t)' \/ CutShort(k)'
    BY DEF DebtKept
  <2>1. CASE Noted(c)
    <3>1. work[c].key = k \/ work[c].key = Absent
      <4>1. CASE work[c] \in CommitJobs
        BY <4>1 DEF Owes, CommitJobs, Ops
      <4>2. CASE work[c] \in RotationJobs
        BY <4>2 DEF RotationJobs
      <4> QED
        BY <1>1, <4>1, <4>2, JobShapes DEF Owes
    <3>2. work[c].pc # "record"
      BY DEF Owes
    <3> QED
      BY <2>1, <3>1, <3>2 DEF Noted, CutShort
  <2> QED
    BY <2>1 DEF Owes
<1>7. ContextInv'
  <2>1. authEpoch' \in [Tenants -> Nat] /\ \A t \in Tenants : authEpoch[t] <= authEpoch'[t]
    BY <1>1, EpochCommitAssumption DEF FileTypes, EpochCommitAssumption
  <2>2. Alike
    BY DEF Alike
  <2> QED
    BY <1>1, <1>6, <2>1, <2>2, ContextKept
<1>8. AuditInv'
  <2>1. At(c, "receipt") => [key |-> work[c].key, pc |-> "receipt"] \in cut'
    BY DEF Noted, At
  <2>2. \A k \in BindingKeys : Live(k)' => Live(k) /\ EpochAt(k)' = EpochAt(k)
    BY DEF Live, EpochAt
  <2> QED
    BY <1>1, <2>1, <2>2, AuditKept DEF At
<1> QED
  BY <1>2, <1>3, <1>4, <1>5, <1>7, <1>8 DEF BindingInv

\* A call that ends, whatever it leaves.
LEMMA ReturnStep ==
  ASSUME BindingInv, NEW c \in Clients, Return(c)
  PROVE  /\ WorkTypes' /\ Same(c) /\ work'[c].pc = "idle" /\ Knows(c)'
<1>1. WorkTypes' /\ Same(c) /\ work'[c] = NoJob
  BY NewJob DEF Return, BindingInv, AllJobs
<1> QED
  BY <1>1 DEF NoJob, Knows, At

\* A call that ends half way leaves a note for what it owed.
LEMMA GiveUpStep ==
  ASSUME BindingInv, NEW c \in Clients, GiveUp(c),
         UNCHANGED <<tenantVars, fileVars, nextTxn, secretVars, ctx>>
  PROVE  BindingInv'
<1>1. /\ WorkTypes' /\ Same(c) /\ work'[c].pc = "idle" /\ Knows(c)'
      /\ cut \subseteq cut' /\ Noted(c)
  BY ReturnStep DEF GiveUp, Noted
<1> QED
  BY <1>1, QuietStep DEF BindingInv, FileTypes, tenantVars, fileVars, secretVars

\* A call that returns.
LEMMA ReturnsQuietly ==
  ASSUME BindingInv, NEW c \in Clients, Return(c), work[c].pc \in {"checked", "done"},
         UNCHANGED <<tenantVars, fileVars, nextTxn, cut, secretVars, ctx>>
  PROVE  BindingInv'
<1>1. WorkTypes' /\ Same(c) /\ work'[c].pc = "idle" /\ Knows(c)'
  BY ReturnStep
<1> QED
  BY <1>1, QuietStep DEF BindingInv, FileTypes, tenantVars, fileVars, secretVars, At

\* A client takes up a call that has read nothing yet.
LEMMA CheckedStep ==
  ASSUME BindingInv, NEW c \in Clients, NEW op \in Ops, work[c].pc \in {"idle", "done"},
         work' = [work EXCEPT ![c] = [pc |-> "checked", op |-> op, key |-> Absent]],
         UNCHANGED <<tenantVars, fileVars, nextTxn, cut, secretVars, ctx>>
  PROVE  BindingInv'
<1> DEFINE j == [pc |-> "checked", op |-> op, key |-> Absent]
<1>1. j \in AllJobs /\ j.pc = "checked"
  BY DEF AllJobs, CheckedJobs
<1>2. work' = [work EXCEPT ![c] = j]
  OBVIOUS
<1> HIDE DEF j
<1>3. WorkTypes' /\ Same(c) /\ work'[c].pc = "checked"
  BY <1>1, <1>2, NewJob DEF BindingInv
<1>4. Knows(c)'
  BY <1>3 DEF Knows, At
<1> QED
  BY <1>3, <1>4, QuietStep DEF BindingInv, FileTypes, tenantVars, fileVars, secretVars, At

\* A call starts, having seen that no rotation is on.
LEMMA StartBindingStep ==
  ASSUME BindingInv, NEW c \in Clients, NEW op \in BindingOps, StartBinding(c, op),
         ctx' = ctx
  PROVE  BindingInv'
<1>1. op \in Ops
  BY DEF BindingOps, Ops
<1>2. work[c].pc \in {"idle", "done"}
  BY DEF StartBinding, NoJob
<1> QED
  BY <1>1, <1>2, CheckedStep DEF StartBinding, boundVars

\* The second half of a rebind starts, or is refused.
LEMMA RebindInStep ==
  ASSUME BindingInv, NEW c \in Clients, RebindIn(c), ctx' = ctx
  PROVE  BindingInv'
<1>1. /\ work[c].pc \in {"checked", "done"} /\ work[c].pc \in {"idle", "done"}
      /\ work[c].op.name = "rebind_out"
      /\ UNCHANGED <<tenantVars, fileVars, nextTxn, cut, secretVars, ctx>>
  BY DEF RebindIn, Committed, At, boundVars
<1>2. CASE Return(c)
  BY <1>1, <1>2, ReturnsQuietly
<1>3. CASE ~Return(c)
  <2> DEFINE op == [name |-> "bind", agent |-> work[c].op.agent,
                    tenant |-> work[c].op.tenant, rebind |-> TRUE]
  <2>1. work[c] \in CommitJobs
    <3>1. work[c] \notin RotationJobs
      BY <1>1 DEF RotationJobs
    <3> QED
      BY <1>1, <3>1, JobShapes DEF BindingInv
  <2>2. op \in Ops
    BY <1>1, <2>1 DEF CommitJobs, Ops
  <2>3. work' = [work EXCEPT ![c] = [pc |-> "checked", op |-> op, key |-> Absent]]
    BY <1>3 DEF RebindIn
  <2> QED
    BY <1>1, <2>2, <2>3, CheckedStep
<1> QED
  BY <1>2, <1>3

\* The record that is to be relabelled is read, or gone.
LEMMA ReadToRelabelStep ==
  ASSUME BindingInv, NEW c \in Clients, ReadToRelabel(c), ctx' = ctx
  PROVE  BindingInv'
<1>1. /\ work[c].pc \in {"checked", "done"} /\ work[c].op.name = "bind"
      /\ UNCHANGED <<tenantVars, fileVars, nextTxn, cut, secretVars, ctx>>
  BY DEF ReadToRelabel, Committed, At, boundVars
<1>2. CASE store[work[c].key] = Absent
  BY <1>1, <1>2, ReturnsQuietly DEF ReadToRelabel
<1>3. CASE store[work[c].key] # Absent
  <2> DEFINE j == [work[c] EXCEPT !.pc = "relabel", !.prior = store[work[c].key]]
  <2>1. work[c] \in CommitJobs
    <3>1. work[c] \notin RotationJobs
      BY <1>1 DEF RotationJobs
    <3>2. work[c].pc = "done"
      BY DEF ReadToRelabel, Committed, At
    <3> QED
      BY <3>1, <3>2, JobShapes DEF BindingInv
  <2>2. store[work[c].key] \in Binding \cup {Absent}
    BY <2>1, BindingAssumption DEF BindingInv, FileTypes, CommitJobs, BindingAssumption
  <2>3. j \in CommitJobs /\ j.pc = "relabel" /\ j.prior = store[work[c].key]
    BY <2>1, <2>2 DEF CommitJobs, CommitPoints
  <2>4. work' = [work EXCEPT ![c] = j]
    BY <1>3 DEF ReadToRelabel
  <2> HIDE DEF j
  <2>5. WorkTypes' /\ Same(c) /\ work'[c].pc = "relabel" /\ work'[c].prior # Absent
    BY <1>3, <2>3, <2>4, NewJob DEF BindingInv, AllJobs
  <2>6. Knows(c)'
    BY <2>5 DEF Knows, At
  <2> QED
    BY <1>1, <2>5, <2>6, QuietStep
       DEF BindingInv, FileTypes, tenantVars, fileVars, secretVars, At
<1> QED
  BY <1>2, <1>3

\* A bump that lost a race reads the epoch again, and still owes it.
LEMMA BumpConflictStep ==
  ASSUME BindingInv, NEW c \in Clients, BumpConflict(c), UNCHANGED <<secretVars, ctx>>
  PROVE  BindingInv'
<1> DEFINE e == authEpoch[work[c].tenant]
           j == [work[c] EXCEPT !.pc = "rebump", !.seen = e]
<1>1. At(c, "bump") /\ UNCHANGED <<tenantVars, fileVars, nextTxn, cut, secretVars, ctx>>
  BY DEF BumpConflict, boundVars
<1>2. work' = [work EXCEPT ![c].pc = "rebump", ![c].seen = e]
  BY DEF BumpConflict
<1>3. work[c] \in CommitJobs \/ work[c] \in RotationJobs
  BY <1>1, JobShapes DEF BindingInv, At
<1>4. work[c].tenant \in Tenants /\ e \in Nat
  BY <1>1, EpochCommitAssumption
     DEF BindingInv, KnowsInv, Knows, FileTypes, EpochCommitAssumption
<1>5. /\ j \in CommitJobs \cup RotationJobs
      /\ j.pc = "rebump" /\ j.key = work[c].key /\ j.op = work[c].op
      /\ j.todo = work[c].todo /\ j.tenant = work[c].tenant
  <2>1. CASE work[c] \in CommitJobs
    BY <1>4, <2>1 DEF CommitJobs, CommitPoints
  <2>2. CASE work[c] \in RotationJobs
    BY <1>4, <2>2 DEF RotationJobs, RotationPoints
  <2> QED
    BY <1>3, <2>1, <2>2
<1>9. work' = [work EXCEPT ![c] = j]
  BY <1>2
<1> HIDE DEF j
<1>6. WorkTypes' /\ Same(c) /\ work'[c] = j
  <2>1. j \in AllJobs
    BY <1>5 DEF AllJobs
  <2> QED
    BY <1>9, <2>1, NewJob DEF BindingInv
<1>7. Knows(c)'
  BY <1>4, <1>5, <1>6 DEF Knows, At
<1>8. \A k \in BindingKeys, t \in Tenants : Owes(c, k, t) => Owes(c, k, t)'
  BY <1>5, <1>6 DEF Owes
<1> QED
  BY <1>1, <1>5, <1>6, <1>7, <1>8, QuietStep
     DEF BindingInv, FileTypes, tenantVars, fileVars, secretVars, At

\* The steps that end a call half way.
LEMMA CutStep ==
  ASSUME BindingInv, NEW c \in Clients, UNCHANGED <<secretVars, ctx>>,
         RevisionConflict(c) \/ BumpRefused(c) \/ Crash(c) \/ RotateConflict(c)
  PROVE  BindingInv'
<1>1. GiveUp(c) /\ UNCHANGED <<tenantVars, fileVars, nextTxn, secretVars, ctx>>
  BY DEF RevisionConflict, BumpRefused, Crash, RotateConflict, boundVars
<1> QED
  BY <1>1, GiveUpStep

\* A rotation that writes the tombstone of a record it listed.
LEMMA RotateTombstoneStep ==
  ASSUME BindingInv, NEW c \in Clients, RotateTombstone(c), ctx' = ctx
  PROVE  BindingInv'
<1>1. PICK k \in work[c].keys \ tombstones :
        /\ tombstones' = tombstones \cup {k}
        /\ work' = [work EXCEPT ![c].pc = "rotate_unlink", ![c].tenant = k]
  BY DEF RotateTombstone
<1> DEFINE j == [work[c] EXCEPT !.pc = "rotate_unlink", !.tenant = k]
<1>2. /\ At(c, "rotate_tomb")
      /\ UNCHANGED <<tenantVars, fileVars, nextTxn, cut, pointer, material, ctx>>
  BY DEF RotateTombstone, boundVars
<1>3. work[c] \in RotationJobs /\ k \in BindingKeys
  <2>1. work[c] \in RotationJobs
    BY <1>2, JobShapes DEF BindingInv, At
  <2> QED
    BY <2>1 DEF RotationJobs
<1>4. /\ j \in RotationJobs /\ j.pc = "rotate_unlink" /\ j.key = work[c].key
      /\ j.op = work[c].op /\ j.todo = work[c].todo /\ j.keys = work[c].keys
      /\ j.tenant = k
  BY <1>3 DEF RotationJobs, RotationPoints
<1>5. work' = [work EXCEPT ![c] = j]
  BY <1>1
<1> HIDE DEF j
<1>6. WorkTypes' /\ Same(c) /\ work'[c] = j
  <2>1. j \in AllJobs
    BY <1>4 DEF AllJobs
  <2> QED
    BY <1>5, <2>1, NewJob DEF BindingInv
<1>7. Knows(c)'
  BY <1>2, <1>4, <1>6 DEF Knows, At, BindingInv, KnowsInv
<1>8. \A l \in BindingKeys, t \in Tenants : Owes(c, l, t) => Owes(c, l, t)'
  BY <1>4, <1>6 DEF Owes
<1> QED
  BY <1>1, <1>2, <1>3, <1>4, <1>6, <1>7, <1>8, QuietStep
     DEF BindingInv, FileTypes, tenantVars, fileVars, At

\* A rotation that has ended its records turns to the tenants.
LEMMA RotateBumpStep ==
  ASSUME BindingInv, NEW c \in Clients, RotateBump(c), ctx' = ctx
  PROVE  BindingInv'
<1>1. /\ At(c, "rotate_tomb") /\ NextBump(c, work[c].todo)
      /\ UNCHANGED <<tenantVars, fileVars, nextTxn, cut, secretVars, ctx>>
  BY DEF RotateBump, boundVars
<1>2. work[c] \in RotationJobs
  BY <1>1, JobShapes DEF BindingInv, At
<1>3. work[c].todo \in SUBSET Tenants /\ work[c].op.name = "rotate"
  BY <1>2 DEF RotationJobs
<1>4. /\ WorkTypes' /\ Same(c) /\ work'[c].pc \in {"done", "bump"} /\ Knows(c)'
      /\ work[c].todo # {} => work'[c].pc = "bump" /\ work'[c].todo = work[c].todo
      /\ work'[c].op = work[c].op
  BY <1>1, <1>2, <1>3, BumpNext DEF BindingInv
<1>5. \A k \in BindingKeys, t \in Tenants : Owes(c, k, t) => Owes(c, k, t)'
  BY <1>3, <1>4 DEF Owes
<1> QED
  BY <1>1, <1>4, <1>5, QuietStep
     DEF BindingInv, FileTypes, tenantVars, fileVars, secretVars, At

-----------------------------------------------------------------------------
(* Calls that have read, and the commit.                                   *)

\* The records of a transaction.
Drafts(n) ==
  [tenant : Tenants, epoch : Nat \ {0}, status : BindingStates,
   action : {"bind", "revoke", "suspend", "reactivate", "rebind_out", "rebind_in"},
   txn : {n}]

\* A call that has read its record, under a new transaction.
LEMMA HasReadStep ==
  ASSUME BindingInv, NEW c \in Clients, At(c, "checked"), NEW op \in Ops,
         NEW k \in BindingKeys, NEW next \in Drafts(nextTxn),
         NEW t \in Tenants, next.epoch = EpochAt(k) + 1,
         StatusAt(k) = "active" => t = store[k].tenant,
         Prepare(c, Job(op, k, store[k], next, t)),
         UNCHANGED <<tenantVars, fileVars, cut, secretVars, ctx>>
  PROVE  BindingInv'
<1> DEFINE j == Job(op, k, store[k], next, t)
<1>1. FileTypes /\ PointerInv /\ KnowsInv /\ TxnInv /\ ReadInv /\ ContextInv
      /\ AuditInv /\ WorkTypes
  BY DEF BindingInv
<1>2. /\ nextTxn \in Txns /\ nextTxn \in Nat \ {0} /\ nextTxn' = nextTxn + 1
      /\ work' = [work EXCEPT ![c] = j]
  BY <1>1, EpochCommitAssumption DEF Prepare, Txns, FileTypes, EpochCommitAssumption
<1>3. /\ j \in CommitJobs /\ j.pc = "record" /\ j.next = next
      /\ j.prior = store[k] /\ j.todo = {t}
  <2>1. store[k] \in Binding \cup {Absent}
    BY <1>1, BindingAssumption DEF FileTypes, BindingAssumption
  <2>2. next \in Binding
    BY <1>2 DEF Binding, Drafts
  <2> QED
    BY <1>2, <2>1, <2>2 DEF Job, CommitJobs, CommitPoints
<1> HIDE DEF j
<1>4. WorkTypes' /\ Same(c) /\ work'[c] = j
  <2>1. j \in AllJobs
    BY <1>3 DEF AllJobs
  <2> QED
    BY <1>1, <1>2, <2>1, NewJob
<1>5. FileTypes'
  BY <1>1, <1>2 DEF FileTypes, tenantVars, fileVars, secretVars
<1>6. PointerInv'
  BY <1>1 DEF PointerInv, Stable, secretVars
<1>7. KnowsInv'
  <2>1. Knows(c)' /\ ~At(c, "rotate_begin")'
    BY <1>3, <1>4 DEF Knows, At
  <2> QED
    BY <1>1, <1>4, <2>1, KnowsKept DEF secretVars
<1>8. /\ \A l \in Keys : store[l] # Absent => store[l].txn \in Nat /\ store[l].txn < nextTxn
      /\ \A r \in Requests : HasRecord(r) => ctx[r].rec.txn \in Nat /\ ctx[r].rec.txn < nextTxn
      /\ \A d \in Clients : At(d, "record") =>
           work[d].next.txn \in Nat /\ work[d].next.txn < nextTxn
  <2>1. \A l \in Keys : store[l] # Absent => store[l].txn \in Nat
    BY <1>1 DEF FileTypes, Binding, Txns
  <2>2. \A r \in Requests : HasRecord(r) => ctx[r].rec.txn \in Nat
    BY <1>1, ContextTypes DEF Binding, Txns
  <2>3. \A d \in Clients : At(d, "record") => work[d].next.txn \in Nat
    BY <1>1, JobShapes DEF At, CommitJobs, Binding, Txns
  <2> QED
    BY <1>1, <2>1, <2>2, <2>3 DEF TxnInv, Fresh
<1>9. TxnInv'
  <2>1. /\ \A l \in Keys : store'[l] # Absent => store'[l].txn < nextTxn'
        /\ \A r \in Requests : HasRecord(r)' => ctx'[r].rec.txn < nextTxn'
    BY <1>2, <1>8 DEF HasRecord, fileVars
  <2>2. Fresh(c)'
    <3>1. work'[c].next.txn = nextTxn
      BY <1>3, <1>4 DEF Drafts
    <3>2. \A d \in Clients : At(d, "record")' /\ d # c => work'[d].next.txn # nextTxn
      BY <1>2, <1>4, <1>8 DEF At, Same
    <3> QED
      BY <1>2, <1>8, <3>1, <3>2 DEF Fresh, HasRecord, fileVars
  <2>3. ASSUME NEW d \in Clients, At(d, "record")', d # c PROVE Fresh(d)'
    <3>1. work'[d] = work[d] /\ At(d, "record") /\ Fresh(d)
      BY <1>1, <1>4, <2>3 DEF At, Same, TxnInv
    <3>2. /\ work'[d].next.txn < nextTxn' /\ work'[c].next.txn # work'[d].next.txn
      BY <1>2, <1>3, <1>4, <1>8, <3>1 DEF Drafts
    <3>3. \A e \in Clients : At(e, "record")' /\ e # d => work'[e].next.txn # work'[d].next.txn
      BY <1>4, <3>1, <3>2 DEF At, Same, Fresh
    <3> QED
      BY <3>1, <3>2, <3>3 DEF Fresh, HasRecord, fileVars
  <2> QED
    BY <2>1, <2>2, <2>3 DEF TxnInv
<1>10. ReadInv'
  <2>1. /\ j.next.epoch = (IF j.prior = Absent THEN 0 ELSE j.prior.epoch) + 1
        /\ j.prior # Absent /\ j.prior.status = "active" => j.prior.tenant \in j.todo
    BY <1>3 DEF EpochAt, StatusAt
  <2> QED
    BY <1>1, <1>4, <2>1 DEF ReadInv, At, Same
<1>11. ContextInv'
  <2>1. authEpoch' \in [Tenants -> Nat] /\ \A u \in Tenants : authEpoch[u] <= authEpoch'[u]
    BY <1>1, EpochCommitAssumption DEF FileTypes, EpochCommitAssumption, tenantVars
  <2>2. Alike /\ DebtKept(c)
    BY DEF Alike, DebtKept, Owes, At, fileVars
  <2> QED
    BY <1>1, <1>4, <2>1, <2>2, ContextKept
<1>12. AuditInv'
  <2>1. \A l \in BindingKeys : Live(l)' => Live(l) /\ EpochAt(l)' = EpochAt(l)
    BY DEF Live, EpochAt, fileVars, secretVars
  <2>2. ~At(c, "receipt") /\ ~At(c, "receipt")'
    BY <1>3, <1>4 DEF At
  <2> QED
    BY <1>1, <1>4, <2>1, <2>2, AuditKept DEF fileVars
<1> QED
  BY <1>4, <1>5, <1>6, <1>7, <1>9, <1>10, <1>11, <1>12 DEF BindingInv

\* The keys an agent's record may be under.
LEMMA LookupType ==
  ASSUME BindingInv, NEW a \in Agents
  PROVE  CurrentKey(a) \in BindingKeys /\ Lookup(a) \in BindingKeys
BY DEF BindingInv, PointerInv, Stable, CurrentKey, Lookup, BindingKeys

\* bind over a record that is not held: no tenant loses a binding.
LEMMA BindStep ==
  ASSUME BindingInv, NEW c \in Clients, Bind(c), ctx' = ctx
  PROVE  BindingInv'
<1> DEFINE op == work[c].op
           k  == CurrentKey(op.agent)
           next == Bound(op, store[k])
<1>1. work[c] \in CheckedJobs /\ op.name = "bind" /\ At(c, "checked")
  BY JobShapes DEF Bind, At, BindingInv
<1>2. op \in Ops /\ op.agent \in Agents /\ op.tenant \in Tenants
  BY <1>1 DEF CheckedJobs, Ops
<1>3. k \in BindingKeys
  BY <1>2, LookupType
<1>4. store[k] \in Binding \cup {Absent}
  BY <1>3, BindingAssumption DEF BindingInv, FileTypes, BindingAssumption
<1>5. next \in Drafts(nextTxn) /\ next.epoch = EpochAt(k) + 1
  BY <1>2, <1>4 DEF Bound, EpochAt, Binding, BindingStates, Drafts
<1>6. StatusAt(k) # "active"
  BY DEF Bind, Held
<1>7. Prepare(c, Job(op, k, store[k], next, op.tenant))
  BY DEF Bind
<1> HIDE DEF op, k, next
<1> QED
  BY <1>1, <1>2, <1>3, <1>5, <1>6, <1>7, HasReadStep DEF Bind, fileVars

\* A change of status owes its bump to the tenant of the record it has read.
LEMMA MutateStatusStep ==
  ASSUME BindingInv, NEW c \in Clients, MutateStatus(c), ctx' = ctx
  PROVE  BindingInv'
<1> DEFINE op == work[c].op
           k  == Lookup(op.agent)
           rec == store[k]
           next == [rec EXCEPT !.status = NewStatus(op.name), !.epoch = @ + 1,
                               !.action = op.name, !.txn = nextTxn]
<1>1. work[c] \in CheckedJobs /\ op.name # "bind" /\ At(c, "checked")
  BY JobShapes DEF MutateStatus, At, BindingInv
<1>2. op \in Ops /\ op.agent \in Agents
      /\ op.name \in {"revoke", "suspend", "reactivate", "rebind_out"}
  BY <1>1 DEF CheckedJobs, Ops
<1>3. k \in BindingKeys
  BY <1>2, LookupType
<1>4. rec \in Binding
  <2>1. rec \in Binding \cup {Absent}
    BY <1>3, BindingAssumption DEF BindingInv, FileTypes, BindingAssumption
  <2>2. StatusAt(k) # "none"
    BY DEF MutateStatus, RequireFrom
  <2> QED
    BY <2>1, <2>2 DEF StatusAt
<1>5. NewStatus(op.name) \in BindingStates
  BY DEF NewStatus, BindingStates
<1>6. next \in Drafts(nextTxn) /\ next.epoch = EpochAt(k) + 1 /\ rec.tenant \in Tenants
  <2>1. EpochAt(k) = rec.epoch
    BY <1>4, BindingAssumption DEF BindingAssumption, EpochAt
  <2>2. next \in Drafts(nextTxn) /\ next.epoch = rec.epoch + 1 /\ rec.tenant \in Tenants
    <3> DEFINE s == NewStatus(op.name)
               a == op.name
    <3>1. PICK t \in Tenants, e \in Nat \ {0}, s0 \in BindingStates,
               a0 \in {"bind", "revoke", "suspend", "reactivate", "rebind_out",
                       "rebind_in"}, n0 \in Txns :
            rec = [tenant |-> t, epoch |-> e, status |-> s0, action |-> a0, txn |-> n0]
      BY <1>4 DEF Binding
    <3>2. rec.tenant = t /\ rec.epoch = e
      BY <3>1
    <3>3. s \in BindingStates
          /\ a \in {"revoke", "suspend", "reactivate", "rebind_out"}
      BY <1>2, <1>5
    <3>4. next = [rec EXCEPT !.status = s, !.epoch = @ + 1, !.action = a, !.txn = nextTxn]
      OBVIOUS
    <3> HIDE DEF op, k, rec, next, s, a
    <3>5. next = [tenant |-> t, epoch |-> e + 1, status |-> s, action |-> a,
                  txn |-> nextTxn]
      BY <3>1, <3>4
    <3> QED
      BY <3>2, <3>3, <3>5 DEF Drafts
  <2> QED
    BY <2>1, <2>2
<1>7. Prepare(c, Job(op, k, rec, next, rec.tenant))
  BY DEF MutateStatus
<1> HIDE DEF op, k, next
<1> QED
  BY <1>1, <1>2, <1>3, <1>6, <1>7, HasReadStep DEF MutateStatus, fileVars

\* The record is written: contexts of the one before are owed a bump, and the
\* new version a receipt.
LEMMA WriteRecordStep ==
  ASSUME BindingInv, NEW c \in Clients, WriteRecord(c), UNCHANGED <<secretVars, ctx>>
  PROVE  BindingInv'
<1> DEFINE j == work[c]
           k == j.key
<1>1. FileTypes /\ PointerInv /\ KnowsInv /\ TxnInv /\ ReadInv /\ ContextInv
      /\ AuditInv /\ WorkTypes
  BY DEF BindingInv
<1>2. /\ At(c, "record") /\ store[k] = j.prior
      /\ store' = [store EXCEPT ![k] = j.next]
      /\ UNCHANGED <<authEpoch, tenantStatus, receipts, nextTxn, cut>>
      /\ UNCHANGED <<pointer, material, tombstones, ctx>>
  BY DEF WriteRecord, tenantVars, boundVars, secretVars
<1>3. work[c] \in CommitJobs
  BY <1>1, <1>2, JobShapes DEF At
<1>4. /\ WorkTypes' /\ Same(c) /\ work'[c].pc = "receipt" /\ work'[c].key = k
      /\ work'[c].next = j.next /\ work'[c].todo = j.todo
  BY <1>1, <1>3, CommitGoto DEF WriteRecord, CommitPoints
<1>5. /\ k \in BindingKeys /\ k \in Keys /\ j.next \in Binding
      /\ j.next # Absent /\ j.next.txn \in Nat
  BY <1>3, BindingAssumption DEF CommitJobs, BindingAssumption, Binding, Txns
<1>6. /\ store' \in [Keys -> Binding \cup {Absent}] /\ store'[k] = j.next
      /\ \A l \in Keys \ {k} : store'[l] = store[l]
  BY <1>1, <1>2, <1>5 DEF FileTypes
<1>7. /\ Fresh(c)
      /\ j.next.epoch = (IF j.prior = Absent THEN 0 ELSE j.prior.epoch) + 1
      /\ j.prior # Absent /\ j.prior.status = "active" => j.prior.tenant \in j.todo
  BY <1>1, <1>2 DEF TxnInv, ReadInv
<1>8. FileTypes'
  BY <1>1, <1>2, <1>6 DEF FileTypes
<1>9. PointerInv'
  BY <1>1, <1>2 DEF PointerInv, Stable
<1>10. KnowsInv'
  <2>1. Knows(c)' /\ ~At(c, "rotate_begin")'
    BY <1>4 DEF Knows, At
  <2> QED
    BY <1>1, <1>2, <1>4, <2>1, KnowsKept
<1>11. TxnInv' /\ ReadInv'
  <2>1. ASSUME NEW d \in Clients, At(d, "record")'
        PROVE  d # c /\ work'[d] = work[d] /\ At(d, "record") /\ Fresh(d)
    BY <1>1, <1>4, <2>1 DEF Same, At, TxnInv
  <2>2. ASSUME NEW d \in Clients, At(d, "record")' PROVE Fresh(d)'
    <3>1. j.next.txn # work[d].next.txn
      BY <1>2, <2>1, <2>2 DEF Fresh
    <3>2. \A l \in Keys : store'[l] # Absent => store'[l].txn # work[d].next.txn
      BY <1>6, <2>1, <2>2, <3>1 DEF Fresh
    <3>3. \A e \in Clients : At(e, "record")' => work'[e] = work[e] /\ At(e, "record")
      BY <2>1
    <3> QED
      BY <1>2, <2>1, <2>2, <3>2, <3>3 DEF Fresh, HasRecord
  <2>3. \A l \in Keys : store'[l] # Absent => store'[l].txn < nextTxn'
    BY <1>1, <1>2, <1>6, <1>7 DEF TxnInv, Fresh
  <2>4. \A r \in Requests : HasRecord(r)' => ctx'[r].rec.txn < nextTxn'
    BY <1>1, <1>2 DEF TxnInv, HasRecord
  <2>5. ReadInv'
    BY <1>1, <2>1 DEF ReadInv, At
  <2> QED
    BY <2>2, <2>3, <2>4, <2>5 DEF TxnInv
<1>12. ASSUME NEW r \in Requests, HasRecord(r)
       PROVE  /\ ctx[r].key \in Keys /\ ctx[r].rec.status = "active"
              /\ ctx[r].key = k => ~StillBound(k, ctx[r].rec)'
              /\ ctx[r].key # k => store'[ctx[r].key] = store[ctx[r].key]
              /\ StillBound(ctx[r].key, ctx[r].rec) =>
                   \/ StillBound(ctx[r].key, ctx[r].rec)'
                   \/ Owes(c, ctx[r].key, ctx[r].rec.tenant)'
  <2>1. ctx[r].key \in Keys /\ ctx[r].rec.txn # j.next.txn /\ ctx[r].rec.status = "active"
    BY <1>1, <1>7, <1>12, ContextTypes, BindingAssumption
       DEF BindingAssumption, Fresh, ContextInv
  <2>2. ctx[r].key = k => ~StillBound(k, ctx[r].rec)'
    BY <1>2, <1>4, <1>5, <1>6, <2>1 DEF StillBound
  <2>3. ctx[r].key # k => store'[ctx[r].key] = store[ctx[r].key]
    BY <1>6, <2>1
  <2>4. ASSUME ctx[r].key = k, StillBound(k, ctx[r].rec)
        PROVE  Owes(c, k, ctx[r].rec.tenant)'
    <3>1. store[k] # Absent /\ store[k].status = "active" /\ store[k].tenant = ctx[r].rec.tenant
      BY <1>1, <1>12, <2>4 DEF ContextInv, StillBound
    <3>2. ctx[r].rec.tenant \in j.todo
      BY <1>2, <1>7, <3>1
    <3> QED
      BY <1>2, <1>4, <3>2 DEF Owes
  <2>5. ctx[r].key # k => (StillBound(ctx[r].key, ctx[r].rec)' = StillBound(ctx[r].key, ctx[r].rec))
    BY <1>2, <2>3 DEF StillBound
  <2> QED
    BY <1>2, <1>4, <2>1, <2>2, <2>3, <2>4, <2>5
<1>13. ContextInv'
  <2> SUFFICES ASSUME NEW r \in Requests
               PROVE  /\ HasRecord(r) =>
                           /\ ctx[r].rec.status = "active"
                           /\ StillBound(ctx[r].key, ctx[r].rec)' =>
                                /\ store'[ctx[r].key].status = "active"
                                /\ store'[ctx[r].key].tenant = ctx[r].rec.tenant
                      /\ ctx[r].pc = "context" =>
                           /\ ctx[r].authEpoch <= authEpoch[ctx[r].rec.tenant]
                           /\ ~ctx[r].torn => Reached(r)'
    BY <1>2 DEF ContextInv, HasRecord
  <2>1. ASSUME HasRecord(r), StillBound(ctx[r].key, ctx[r].rec)'
        PROVE  /\ store'[ctx[r].key].status = "active"
               /\ store'[ctx[r].key].tenant = ctx[r].rec.tenant
    <3>1. ctx[r].key # k /\ store'[ctx[r].key] = store[ctx[r].key]
      BY <1>2, <1>4, <1>12, <2>1
    <3> QED
      BY <1>1, <2>1, <3>1 DEF ContextInv, StillBound
  <2>2. ASSUME ctx[r].pc = "context", ~ctx[r].torn PROVE Reached(r)'
    <3>1. /\ ctx[r].authEpoch <= authEpoch[ctx[r].rec.tenant] /\ Reached(r)
          /\ HasRecord(r)
      BY <1>1, <2>2 DEF ContextInv, HasRecord
    <3>2. authEpoch \in [Tenants -> Nat] /\ \A t \in Tenants : authEpoch[t] <= authEpoch[t]
      BY <1>1, EpochCommitAssumption DEF FileTypes, EpochCommitAssumption
    <3>3. DebtKept(c)
      BY <1>2 DEF DebtKept, Owes, At
    <3> QED
      BY <1>1, <1>2, <1>4, <1>12, <2>2, <3>1, <3>2, <3>3, ReachedKept
  <2> QED
    BY <1>1, <1>12, <2>1, <2>2 DEF ContextInv
<1>14. AuditInv'
  <2> SUFFICES ASSUME NEW l \in BindingKeys, Live(l)'
               PROVE  AuditOf(l)'
    BY DEF AuditInv
  <2>1. Live(l) /\ AuditOf(l) /\ l \in Keys
    BY <1>1, <1>2, BindingAssumption DEF Live, AuditInv, BindingAssumption
  <2>2. /\ EpochAt(l) \in Nat /\ EpochAt(l)' = (IF l = k THEN EpochAt(l) + 1 ELSE EpochAt(l))
        /\ l = k => j.next.epoch = EpochAt(l) + 1
    <3>1. store[l] \in Binding \cup {Absent}
      BY <1>1, <2>1 DEF FileTypes
    <3>2. EpochAt(l) \in Nat
      BY <3>1 DEF EpochAt, Binding
    <3>3. l = k => j.next.epoch = EpochAt(l) + 1
      BY <1>2, <1>7 DEF EpochAt
    <3> QED
      BY <1>5, <1>6, <2>1, <3>2, <3>3 DEF EpochAt
  <2>3. \A d \in Clients : At(d, "receipt") => work[d].next.epoch \in Nat \ {0}
    BY <1>1, JobShapes DEF At, CommitJobs, Binding
  <2>4. \A x \in receipts : x.epoch \in Nat \ {0}
    BY <1>1 DEF FileTypes
  <2>5. /\ \A d \in Clients \ {c} : At(d, "receipt")' = At(d, "receipt") /\ work'[d] = work[d]
        /\ ~At(c, "receipt") /\ At(c, "receipt")'
    BY <1>2, <1>4 DEF Same, At
  <2>6. \A x \in receipts' : x.key = l => x.epoch <= EpochAt(l)'
    BY <1>2, <2>1, <2>2, <2>4 DEF AuditOf
  <2>7. \A x, y \in receipts' : x.key = l /\ y.key = l /\ x.epoch = y.epoch => x = y
    BY <1>2, <2>1 DEF AuditOf
  <2>8. ASSUME NEW d \in Clients, At(d, "receipt")', work'[d].key = l
        PROVE  /\ work'[d].next.epoch <= EpochAt(l)'
               /\ ~Receipted(l, work[d].next.epoch)'
               /\ \A b \in Clients : Receipting(b, l, work[d].next.epoch)' => d = b
    <3>1. CASE d = c
      <4>1. l = k /\ work'[d].next.epoch = EpochAt(l) + 1
        BY <1>4, <2>2, <2>8, <3>1
      <4>2. ~Receipted(l, work[d].next.epoch)'
        BY <1>2, <2>1, <2>2, <2>4, <4>1 DEF Receipted, AuditOf
      <4>3. ASSUME NEW b \in Clients \ {c}, Receipting(b, l, work[d].next.epoch)'
            PROVE  FALSE
        <5>1. /\ At(b, "receipt") /\ work[b].key = l
              /\ work[b].next.epoch = EpochAt(l) + 1
          BY <2>5, <4>1, <4>3 DEF Receipting
        <5> QED
          BY <2>1, <2>2, <5>1 DEF AuditOf
      <4>4. \A b \in Clients : Receipting(b, l, work[d].next.epoch)' => d = b
        BY <3>1, <4>3
      <4> QED
        BY <2>2, <4>1, <4>2, <4>4
    <3>2. CASE d # c
      <4>1. At(d, "receipt") /\ work[d].key = l /\ work'[d] = work[d]
        BY <2>5, <2>8, <3>2
      <4>2. /\ work[d].next.epoch <= EpochAt(l) /\ ~Receipted(l, work[d].next.epoch)
            /\ \A b \in Clients : Receipting(b, l, work[d].next.epoch) => d = b
        BY <2>1, <4>1 DEF AuditOf
      <4>3. ~Receipting(c, l, work[d].next.epoch)'
        BY <1>4, <2>2, <2>3, <4>1, <4>2 DEF Receipting
      <4>4. ASSUME NEW b \in Clients, Receipting(b, l, work[d].next.epoch)' PROVE d = b
        <5>1. b # c
          BY <4>3, <4>4
        <5>2. Receipting(b, l, work[d].next.epoch)
          BY <2>5, <4>1, <4>4, <5>1 DEF Receipting
        <5> QED
          BY <4>2, <5>2
      <4> QED
        BY <1>2, <2>2, <2>3, <4>1, <4>2, <4>4 DEF Receipted
    <3> QED
      BY <3>1, <3>2
  <2>9. ASSUME NEW e \in 1..EpochAt(l)'
        PROVE  \/ Receipted(l, e)'
               \/ \E d \in Clients : Receipting(d, l, e)'
               \/ [key |-> l, pc |-> "receipt"] \in cut'
    <3>1. CASE e \in 1..EpochAt(l)
      <4>1. \/ Receipted(l, e)
            \/ \E d \in Clients : Receipting(d, l, e)
            \/ [key |-> l, pc |-> "receipt"] \in cut
        BY <2>1, <3>1 DEF AuditOf
      <4>2. \A d \in Clients : Receipting(d, l, e) => Receipting(d, l, e)'
        BY <2>5 DEF Receipting
      <4> QED
        BY <1>2, <4>1, <4>2 DEF Receipted
    <3>2. CASE e \notin 1..EpochAt(l)
      <4>1. l = k /\ e = EpochAt(l) + 1
        BY <2>2, <3>2
      <4> QED
        BY <1>4, <2>2, <2>5, <4>1 DEF Receipting
    <3> QED
      BY <3>1, <3>2
  <2> QED
    BY <2>6, <2>7, <2>8, <2>9 DEF AuditOf
<1> QED
  BY <1>4, <1>8, <1>9, <1>10, <1>11, <1>13, <1>14 DEF BindingInv

\* The receipt of a version that had none; the debt is still owed.
LEMMA WriteReceiptStep ==
  ASSUME BindingInv, NEW c \in Clients, WriteReceipt(c), UNCHANGED <<secretVars, ctx>>
  PROVE  BindingInv'
<1> DEFINE j == work[c]
           k == j.key
           e0 == j.next.epoch
           new == [key |-> k, epoch |-> e0, txn |-> j.txn]
<1>1. FileTypes /\ PointerInv /\ KnowsInv /\ TxnInv /\ ReadInv /\ ContextInv
      /\ AuditInv /\ WorkTypes
  BY DEF BindingInv
<1>2. /\ At(c, "receipt") /\ receipts' = receipts \cup {new}
      /\ NextBump(c, j.todo)
      /\ UNCHANGED <<authEpoch, tenantStatus, store, nextTxn, cut>>
      /\ UNCHANGED <<pointer, material, tombstones, ctx>>
  BY DEF WriteReceipt, tenantVars, boundVars, secretVars
<1>3. work[c] \in CommitJobs
  BY <1>1, <1>2, JobShapes DEF At
<1>4. /\ k \in BindingKeys /\ e0 \in Nat \ {0} /\ j.txn \in Txns /\ j.todo \in SUBSET Tenants
  BY <1>3 DEF CommitJobs, Binding
<1>5. /\ WorkTypes' /\ Same(c) /\ work'[c].pc \in {"done", "bump"}
      /\ j.todo # {} => work'[c].pc = "bump" /\ work'[c].todo = j.todo
      /\ Knows(c)' /\ work'[c].key = k
  BY <1>1, <1>2, <1>3, <1>4, BumpNext
<1>6. FileTypes'
  <2>1. new \in [key : BindingKeys, epoch : Nat \ {0}, txn : Txns]
    BY <1>4
  <2> HIDE DEF new
  <2> QED
    BY <1>1, <1>2, <2>1 DEF FileTypes
<1>7. PointerInv'
  BY <1>1, <1>2 DEF PointerInv, Stable
<1>8. KnowsInv'
  BY <1>1, <1>2, <1>5, KnowsKept DEF At
<1>9. TxnInv' /\ ReadInv'
  BY <1>1, <1>2, <1>5, TxnKept DEF At
<1>10. ContextInv'
  <2>1. authEpoch' \in [Tenants -> Nat] /\ \A t \in Tenants : authEpoch[t] <= authEpoch'[t]
    BY <1>1, <1>2, EpochCommitAssumption DEF FileTypes, EpochCommitAssumption
  <2>2. Alike
    BY <1>2 DEF Alike
  <2>3. DebtKept(c)
    <3> SUFFICES ASSUME NEW l \in BindingKeys, NEW t \in Tenants, Owes(c, l, t)
                 PROVE  Owes(c, l, t)'
      BY DEF DebtKept
    <3>1. t \in j.todo /\ work[c].key = l
      BY <1>3 DEF Owes, CommitJobs, Ops
    <3> QED
      BY <1>5, <3>1 DEF Owes
  <2> QED
    BY <1>1, <1>2, <1>5, <2>1, <2>2, <2>3, ContextKept
<1>11. AuditInv'
  <2> SUFFICES ASSUME NEW l \in BindingKeys, Live(l)'
               PROVE  AuditOf(l)'
    BY DEF AuditInv
  <2>1. Live(l) /\ AuditOf(l) /\ EpochAt(l)' = EpochAt(l)
    BY <1>1, <1>2 DEF Live, AuditInv, EpochAt
  <2>2. l = k => e0 <= EpochAt(l) /\ ~Receipted(l, e0)
                 /\ \A d \in Clients : Receipting(d, l, e0) => c = d
    BY <1>2, <2>1 DEF AuditOf
  <2>3. \A d \in Clients : At(d, "receipt")' =>
          At(d, "receipt") /\ d # c /\ work'[d] = work[d]
    BY <1>5 DEF At, Same
  <2>4. \A d \in Clients \ {c} : At(d, "receipt") => At(d, "receipt")' /\ work'[d] = work[d]
    BY <1>5 DEF At, Same
  <2>5. /\ new \in receipts' /\ new.key = k /\ new.epoch = e0
        /\ \A x \in receipts' : x \in receipts \/ x = new
        /\ receipts \subseteq receipts'
    BY <1>2
  <2> HIDE DEF new, e0, k, j
  <2>6. \A x \in receipts' : x.key = l => x.epoch <= EpochAt(l)'
    BY <2>1, <2>2, <2>5 DEF AuditOf
  <2>7. \A x, y \in receipts' : x.key = l /\ y.key = l /\ x.epoch = y.epoch => x = y
    BY <2>1, <2>2, <2>5 DEF AuditOf, Receipted
  <2>8. ASSUME NEW d \in Clients, At(d, "receipt")', work'[d].key = l
        PROVE  /\ work'[d].next.epoch <= EpochAt(l)'
               /\ ~Receipted(l, work[d].next.epoch)'
               /\ \A b \in Clients : Receipting(b, l, work[d].next.epoch)' => d = b
    <3>1. At(d, "receipt") /\ d # c /\ work'[d] = work[d] /\ work[d].key = l
      BY <2>3, <2>8
    <3>2. /\ work[d].next.epoch <= EpochAt(l) /\ ~Receipted(l, work[d].next.epoch)
          /\ \A b \in Clients : Receipting(b, l, work[d].next.epoch) => d = b
      BY <2>1, <3>1 DEF AuditOf
    <3>3. l = k => work[d].next.epoch # e0
      BY <2>2, <3>1 DEF Receipting
    <3>4. ~Receipted(l, work[d].next.epoch)'
      BY <2>5, <3>1, <3>2, <3>3 DEF Receipted
    <3>5. ASSUME NEW b \in Clients, Receipting(b, l, work[d].next.epoch)' PROVE d = b
      <4>1. Receipting(b, l, work[d].next.epoch)
        BY <2>3, <3>1, <3>5 DEF Receipting
      <4> QED
        BY <3>2, <4>1
    <3> QED
      BY <2>1, <3>1, <3>2, <3>4, <3>5
  <2>9. ASSUME NEW e \in 1..EpochAt(l)'
        PROVE  \/ Receipted(l, e)'
               \/ \E d \in Clients : Receipting(d, l, e)'
               \/ [key |-> l, pc |-> "receipt"] \in cut'
    <3>1. \/ Receipted(l, e)
          \/ \E d \in Clients : Receipting(d, l, e)
          \/ [key |-> l, pc |-> "receipt"] \in cut
      BY <2>1, <2>9 DEF AuditOf
    <3>2. CASE Receipted(l, e)
      BY <2>5, <3>2 DEF Receipted
    <3>3. ASSUME NEW d \in Clients, Receipting(d, l, e)
          PROVE  Receipted(l, e)' \/ Receipting(d, l, e)'
      <4>1. CASE d = c
        BY <2>5, <3>3, <4>1 DEF Receipted, Receipting, e0, k, j
      <4>2. CASE d # c
        BY <2>4, <3>3, <4>2 DEF Receipting
      <4> QED
        BY <4>1, <4>2
    <3> QED
      BY <1>2, <3>1, <3>2, <3>3
  <2> QED
    BY <2>6, <2>7, <2>8, <2>9 DEF AuditOf
<1> QED
  BY <1>5, <1>6, <1>7, <1>8, <1>9, <1>10, <1>11 DEF BindingInv

\* A bump pays one debt of the call: contexts of that tenant are stale now.
LEMMA BumpStep ==
  ASSUME BindingInv, NEW c \in Clients, BumpTenantAuthEpoch(c),
         UNCHANGED <<secretVars, ctx>>
  PROVE  BindingInv'
<1> DEFINE u == work[c].tenant
           rest == work[c].todo \ {u}
<1>1. FileTypes /\ PointerInv /\ KnowsInv /\ TxnInv /\ ReadInv /\ ContextInv
      /\ AuditInv /\ WorkTypes
  BY DEF BindingInv
<1>2. /\ At(c, "bump") \/ At(c, "rebump")
      /\ authEpoch[u] < MaxSafeEpoch \/ authEpoch[u] \notin Nat
      /\ authEpoch' = [authEpoch EXCEPT ![u] = @ + 1]
      /\ NextBump(c, rest)
      /\ UNCHANGED <<tenantStatus, store, receipts, nextTxn, cut>>
      /\ UNCHANGED <<pointer, material, tombstones, ctx>>
  BY DEF BumpTenantAuthEpoch, Expected, fileVars, boundVars, secretVars
<1>3. work[c] \in CommitJobs \/ work[c] \in RotationJobs
  BY <1>1, <1>2, JobShapes DEF At
<1>4. u \in Tenants /\ rest \in SUBSET Tenants
  <2>1. work[c].todo \in SUBSET Tenants
    BY <1>3 DEF CommitJobs, RotationJobs
  <2> QED
    BY <1>1, <1>2, <2>1 DEF KnowsInv, Knows
<1>5. /\ WorkTypes' /\ Same(c) /\ work'[c].pc \in {"done", "bump"}
      /\ rest # {} => work'[c].pc = "bump" /\ work'[c].todo = rest
      /\ Knows(c)' /\ work'[c].key = work[c].key /\ work'[c].op = work[c].op
  BY <1>1, <1>2, <1>3, <1>4, BumpNext
<1>6. /\ authEpoch' \in [Tenants -> 1..MaxSafeEpoch] /\ authEpoch' \in [Tenants -> Nat]
      /\ \A t \in Tenants : authEpoch[t] <= authEpoch'[t]
      /\ authEpoch[u] < authEpoch'[u]
  BY <1>1, <1>2, <1>4, EpochCommitAssumption DEF FileTypes, EpochCommitAssumption
<1> HIDE DEF u, rest
<1>7. FileTypes'
  BY <1>1, <1>2, <1>6 DEF FileTypes
<1>8. PointerInv'
  BY <1>1, <1>2 DEF PointerInv, Stable
<1>9. KnowsInv'
  BY <1>1, <1>2, <1>5, KnowsKept DEF At
<1>10. TxnInv' /\ ReadInv'
  BY <1>1, <1>2, <1>5, TxnKept DEF At
<1>11. ContextInv'
  <2>1. Alike
    BY <1>2 DEF Alike
  <2>2. DebtKept(c)
    <3> SUFFICES ASSUME NEW l \in BindingKeys, NEW t \in Tenants, Owes(c, l, t), t # u
                 PROVE  Owes(c, l, t)'
      BY <1>6 DEF DebtKept
    <3>1. t \in rest
      BY DEF Owes, rest
    <3> QED
      BY <1>5, <3>1 DEF Owes
  <2> QED
    BY <1>1, <1>2, <1>5, <1>6, <2>1, <2>2, ContextKept
<1>12. AuditInv'
  <2>1. \A l \in BindingKeys : Live(l)' => Live(l) /\ EpochAt(l)' = EpochAt(l)
    BY <1>2 DEF Live, EpochAt
  <2>2. ~At(c, "receipt") /\ ~At(c, "receipt")'
    BY <1>2, <1>5 DEF At
  <2> QED
    BY <1>1, <1>2, <1>5, <2>1, <2>2, AuditKept
<1> QED
  BY <1>5, <1>7, <1>8, <1>9, <1>10, <1>11, <1>12 DEF BindingInv

\* The last history entry of the record is relabelled, if it is still the one
\* read: no context is resolved from another.
LEMMA RelabelStep ==
  ASSUME BindingInv, NEW c \in Clients, Relabel(c), ctx' = ctx
  PROVE  BindingInv'
<1> DEFINE k == work[c].key
<1>1. FileTypes /\ PointerInv /\ KnowsInv /\ TxnInv /\ ReadInv /\ ContextInv
      /\ AuditInv /\ WorkTypes
  BY DEF BindingInv
<1>2. /\ At(c, "relabel") /\ Return(c)
      /\ store' = IF store[k] = work[c].prior
                  THEN [store EXCEPT ![k].action = "rebind_in"] ELSE store
      /\ UNCHANGED <<authEpoch, tenantStatus, receipts, nextTxn, cut>>
      /\ UNCHANGED <<pointer, material, tombstones, ctx>>
  BY DEF Relabel, tenantVars, boundVars, secretVars
<1>3. WorkTypes' /\ Same(c) /\ work'[c].pc = "idle" /\ Knows(c)'
  BY <1>2, ReturnStep
<1>4. work[c] \in CommitJobs /\ work[c].prior # Absent
  BY <1>1, <1>2, JobShapes DEF At, KnowsInv, Knows
<1>5. k \in Keys
  BY <1>4, BindingAssumption DEF CommitJobs, BindingAssumption
<1>6. Alike /\ store' \in [Keys -> Binding \cup {Absent}]
  <2>1. CASE store[k] # work[c].prior
    BY <1>1, <1>2, <2>1 DEF Alike, FileTypes
  <2>2. CASE store[k] = work[c].prior
    <3> DEFINE new == [store[k] EXCEPT !.action = "rebind_in"]
    <3>1. store[k] \in Binding
      BY <1>1, <1>4, <1>5, <2>2 DEF FileTypes
    <3>2. /\ new \in Binding /\ new.txn = store[k].txn /\ new.epoch = store[k].epoch
          /\ new.status = store[k].status /\ new.tenant = store[k].tenant
      BY <3>1 DEF Binding
    <3>3. store' = [store EXCEPT ![k] = new]
      BY <1>2, <2>2
    <3> HIDE DEF new
    <3>4. store' \in [Keys -> Binding \cup {Absent}] /\ store'[k] = new
          /\ \A l \in Keys \ {k} : store'[l] = store[l]
      BY <1>1, <1>5, <3>2, <3>3 DEF FileTypes
    <3>5. new # Absent /\ store[k] # Absent
      BY <3>1, <3>2, BindingAssumption DEF BindingAssumption
    <3> QED
      BY <3>2, <3>4, <3>5 DEF Alike
  <2> QED
    BY <2>1, <2>2
<1> HIDE DEF k
<1>7. FileTypes'
  BY <1>1, <1>2, <1>6 DEF FileTypes
<1>8. PointerInv'
  BY <1>1, <1>2 DEF PointerInv, Stable
<1>9. KnowsInv'
  BY <1>1, <1>2, <1>3, KnowsKept DEF At
<1>10. TxnInv' /\ ReadInv'
  BY <1>1, <1>2, <1>3, <1>6, TxnKept DEF At, Alike
<1>11. ContextInv'
  <2>1. authEpoch' \in [Tenants -> Nat] /\ \A t \in Tenants : authEpoch[t] <= authEpoch'[t]
    BY <1>1, <1>2, EpochCommitAssumption DEF FileTypes, EpochCommitAssumption
  <2>2. DebtKept(c)
    BY <1>2 DEF DebtKept, Owes, At
  <2> QED
    BY <1>1, <1>2, <1>3, <1>6, <2>1, <2>2, ContextKept
<1>12. AuditInv'
  <2>1. \A l \in BindingKeys : Live(l)' => Live(l) /\ EpochAt(l)' = EpochAt(l)
    BY <1>2, <1>6, BindingAssumption DEF Live, EpochAt, Alike, BindingAssumption
  <2>2. ~At(c, "receipt") /\ ~At(c, "receipt")'
    BY <1>2, <1>3 DEF At
  <2> QED
    BY <1>1, <1>2, <1>3, <2>1, <2>2, AuditKept
<1> QED
  BY <1>3, <1>7, <1>8, <1>9, <1>10, <1>11, <1>12 DEF BindingInv

\* The calls that return, and the one that is refused.
LEMMA ReturnsStep ==
  ASSUME BindingInv, NEW c \in Clients, ctx' = ctx,
         BindingRefused(c) \/ BindingReturns(c) \/ RotateReturns(c)
  PROVE  BindingInv'
<1>1. /\ Return(c) /\ work[c].pc \in {"checked", "done"}
      /\ UNCHANGED <<tenantVars, fileVars, nextTxn, cut, secretVars, ctx>>
  BY DEF BindingRefused, BindingReturns, RotateReturns, Committed, At, boundVars
<1> QED
  BY <1>1, ReturnsQuietly

-----------------------------------------------------------------------------
(* The rotation of the secret.                                             *)

\* Steps on the pointer and the material, which only go forward.
LEMMA SecretStep ==
  ASSUME BindingInv, NEW c \in Clients, Same(c), WorkTypes', PointerInv', KnowsInv',
         UNCHANGED <<tenantVars, fileVars, nextTxn, cut, tombstones, ctx>>,
         pointer.current <= pointer'.current,
         work[c].pc # "receipt", work'[c].pc \notin {"record", "receipt"},
         \A k \in BindingKeys, t \in Tenants : Owes(c, k, t) => Owes(c, k, t)'
  PROVE  BindingInv'
<1>1. FileTypes /\ PointerInv /\ KnowsInv /\ TxnInv /\ ReadInv /\ ContextInv
      /\ AuditInv /\ WorkTypes
  BY DEF BindingInv
<1>2. UNCHANGED <<authEpoch, tenantStatus, store, receipts, nextTxn, cut, tombstones, ctx>>
  BY DEF tenantVars, fileVars
<1>3. FileTypes'
  BY <1>1, <1>2 DEF FileTypes
<1>4. TxnInv' /\ ReadInv'
  BY <1>1, <1>2, TxnKept DEF At
<1>5. ContextInv'
  <2>1. authEpoch' \in [Tenants -> Nat] /\ \A t \in Tenants : authEpoch[t] <= authEpoch'[t]
    BY <1>1, <1>2, EpochCommitAssumption DEF FileTypes, EpochCommitAssumption
  <2>2. Alike /\ DebtKept(c)
    BY <1>2 DEF Alike, DebtKept
  <2> QED
    BY <1>1, <1>2, <2>1, <2>2, ContextKept
<1>6. AuditInv'
  <2>1. ASSUME NEW l \in BindingKeys, Live(l)' PROVE Live(l) /\ EpochAt(l)' = EpochAt(l)
    <3>1. l[2] \in Nat /\ pointer.current \in Nat /\ pointer'.current \in Nat
      BY <1>1, BindingAssumption DEF PointerInv, BindingKeys, BindingAssumption
    <3> QED
      BY <1>2, <2>1, <3>1 DEF Live, EpochAt
  <2> QED
    BY <1>1, <1>2, <2>1, AuditKept DEF At
<1> QED
  BY <1>3, <1>4, <1>5, <1>6 DEF BindingInv

\* The material of the next secret, which nobody has made.
LEMMA RotateMaterialStep ==
  ASSUME BindingInv, NEW c \in Clients, RotateMaterial(c), ctx' = ctx
  PROVE  BindingInv'
<1> DEFINE new == pointer.current + 1
           j == [pc |-> "rotate_begin", op |-> [name |-> "rotate"], key |-> Absent,
                 old |-> pointer.current, keys |-> {}, todo |-> {},
                 tenant |-> Absent, txn |-> 0, seen |-> 0]
<1>1. PointerInv /\ KnowsInv /\ WorkTypes
  BY DEF BindingInv
<1>2. /\ work[c] = NoJob /\ Stable /\ new <= MaxSecret /\ new \notin material
      /\ material' = material \cup {new} /\ work' = [work EXCEPT ![c] = j]
      /\ pointer' = pointer /\ pointer.current \in Nat
      /\ UNCHANGED <<tenantVars, fileVars, nextTxn, cut, tombstones, ctx>>
  BY <1>1, BindingAssumption DEF RotateMaterial, boundVars, PointerInv, BindingAssumption
<1>3. j \in AllJobs /\ j.pc = "rotate_begin" /\ j.old = pointer.current
  BY <1>2 DEF AllJobs, RotationJobs, RotationPoints
<1>4. PointerInv'
  <2>1. new \in 1..MaxSecret
    BY <1>2, BindingAssumption DEF BindingAssumption
  <2>2. material' \subseteq 1..MaxSecret /\ material \subseteq material'
    BY <1>1, <1>2, <2>1 DEF PointerInv
  <2> QED
    BY <1>1, <1>2, <2>2 DEF PointerInv, Stable
<1> HIDE DEF j
<1>5. WorkTypes' /\ work'[c] = j /\ Same(c)
  BY <1>1, <1>2, <1>3, NewJob
<1>6. KnowsInv'
  <2>1. Knows(c)'
    BY <1>2, <1>3, <1>5 DEF Knows, At, Stable
  <2>2. ASSUME NEW d \in Clients, d # c PROVE Knows(d)' /\ ~At(d, "rotate_begin")'
    <3>1. Knows(d) /\ work'[d] = work[d]
      BY <1>1, <1>5, <2>2 DEF KnowsInv, Same
    <3> QED
      BY <1>2, <3>1 DEF Knows, At, Stable
  <2> QED
    BY <2>1, <2>2 DEF KnowsInv
<1>7. work[c].pc = "idle"
  BY <1>2 DEF NoJob
<1> QED
  BY <1>2, <1>3, <1>4, <1>5, <1>6, <1>7, SecretStep DEF Owes

\* Both secrets are accepted; the tenants that own a record will be bumped.
LEMMA RotateBeginStep ==
  ASSUME BindingInv, NEW c \in Clients, RotateBegin(c), ctx' = ctx
  PROVE  BindingInv'
<1> DEFINE j == [work[c] EXCEPT !.pc = "rotate_finalize", !.todo = BoundTenants]
<1>1. FileTypes /\ PointerInv /\ KnowsInv /\ WorkTypes
  BY DEF BindingInv
<1>2. /\ At(c, "rotate_begin") /\ work' = [work EXCEPT ![c] = j]
      /\ pointer' = [state |-> "dual_write", current |-> work[c].old,
                     secondary |-> work[c].old + 1]
      /\ material' = material
      /\ UNCHANGED <<tenantVars, fileVars, nextTxn, cut, tombstones, ctx>>
  BY DEF RotateBegin, boundVars
<1>3. /\ Stable /\ work[c].old = pointer.current /\ work[c].old + 1 \in material
      /\ \A d \in Clients : At(d, "rotate_begin") => d = c
  BY <1>1, <1>2 DEF KnowsInv, Knows
<1>4. BoundTenants \in SUBSET Tenants
  BY <1>1, BindingAssumption DEF BoundTenants, FileTypes, Binding, BindingAssumption
<1>5. j \in RotationJobs /\ j.pc = "rotate_finalize" /\ j.old = work[c].old
  <2>1. work[c] \in RotationJobs
    BY <1>1, <1>2, JobShapes DEF At
  <2> QED
    BY <1>4, <2>1 DEF RotationJobs, RotationPoints
<1>6. PointerInv' /\ pointer'.current = pointer.current /\ pointer.current \in Nat
  BY <1>1, <1>2, <1>3, BindingAssumption DEF PointerInv, Stable, BindingAssumption
<1> HIDE DEF j
<1>7. WorkTypes' /\ work'[c] = j /\ Same(c)
  BY <1>1, <1>2, <1>5, NewJob DEF AllJobs
<1>8. KnowsInv'
  <2>1. Knows(c)' /\ ~At(c, "rotate_begin")'
    BY <1>3, <1>5, <1>6, <1>7 DEF Knows, At
  <2>2. ASSUME NEW d \in Clients, d # c PROVE Knows(d)' /\ ~At(d, "rotate_begin")'
    <3>1. Knows(d) /\ work'[d] = work[d] /\ ~At(d, "rotate_begin")
      BY <1>1, <1>3, <1>7, <2>2 DEF KnowsInv, Same
    <3> QED
      BY <1>6, <3>1 DEF Knows, At
  <2> QED
    BY <2>1, <2>2 DEF KnowsInv
<1>9. work[c].pc = "rotate_begin" /\ pointer.current <= pointer'.current
  BY <1>2, <1>6 DEF At
<1> QED
  BY <1>2, <1>5, <1>6, <1>7, <1>8, <1>9, SecretStep DEF Owes

\* The pointer after a switch, and what it does to the knowledge of others.
LEMMA Switched ==
  ASSUME WorkTypes, PointerInv, KnowsInv, ~Stable, pointer' = Finalized,
         material' = material
  PROVE  /\ PointerInv' /\ pointer.current \in Nat /\ pointer'.current = pointer.current + 1
         /\ \A d \in Clients : work'[d] = work[d] => Knows(d)' /\ ~At(d, "rotate_begin")'
<1>1. /\ PointerInv' /\ pointer.current \in Nat /\ pointer'.current = pointer.current + 1
  BY BindingAssumption DEF PointerInv, Stable, Finalized, BindingAssumption
<1>2. ASSUME NEW d \in Clients, work'[d] = work[d]
      PROVE  Knows(d)' /\ ~At(d, "rotate_begin")'
  <2>1. Knows(d) /\ ~At(d, "rotate_begin")
    BY DEF KnowsInv, Knows
  <2>2. At(d, "rotate_finalize")' => work'[d].old <= pointer'.current
    <3>1. At(d, "rotate_finalize") => work[d].old \in Nat
      BY JobShapes DEF At, RotationJobs
    <3> QED
      BY <1>1, <1>2, <2>1, <3>1 DEF Knows, At
  <2>3. At(d, "rotate_tomb")' \/ At(d, "rotate_unlink")' =>
          \A k \in work'[d].keys : k[2] < pointer'.current
    <3>1. At(d, "rotate_tomb") \/ At(d, "rotate_unlink") => work[d].keys \subseteq BindingKeys
      BY JobShapes DEF At, RotationJobs
    <3>2. \A k \in BindingKeys : k[2] \in Nat
      BY BindingAssumption DEF BindingKeys, BindingAssumption
    <3> QED
      BY <1>1, <1>2, <2>1, <3>1, <3>2 DEF Knows, At
  <2> QED
    BY <1>1, <1>2, <2>1, <2>2, <2>3 DEF Knows, At
<1> QED
  BY <1>1, <1>2

\* The switch; the records listed are those of a secret before it.
LEMMA RotateFinalizeStep ==
  ASSUME BindingInv, NEW c \in Clients, RotateFinalize(c), ctx' = ctx
  PROVE  BindingInv'
<1> DEFINE old == {k \in BindingKeys : k[2] = work[c].old /\ store[k] # Absent}
           j == [work[c] EXCEPT !.pc = "rotate_tomb", !.keys = old]
<1>1. FileTypes /\ PointerInv /\ KnowsInv /\ WorkTypes
  BY DEF BindingInv
<1>2. /\ At(c, "rotate_finalize") /\ ~Stable /\ work' = [work EXCEPT ![c] = j]
      /\ pointer' = Finalized /\ material' = material
      /\ UNCHANGED <<tenantVars, fileVars, nextTxn, cut, tombstones, ctx>>
  BY DEF RotateFinalize, boundVars
<1>3. work[c] \in RotationJobs /\ work[c].old <= pointer.current /\ work[c].old \in Nat
  BY <1>1, <1>2, JobShapes DEF At, KnowsInv, Knows, RotationJobs
<1>4. j \in RotationJobs /\ j.pc = "rotate_tomb" /\ j.keys = old
  <2>1. old \in SUBSET BindingKeys
    OBVIOUS
  <2> HIDE DEF old
  <2> QED
    BY <1>3, <2>1 DEF RotationJobs, RotationPoints
<1> HIDE DEF j
<1>5. WorkTypes' /\ work'[c] = j /\ Same(c)
  BY <1>1, <1>2, <1>4, NewJob DEF AllJobs
<1>6. /\ PointerInv' /\ pointer.current \in Nat /\ pointer'.current = pointer.current + 1
      /\ \A d \in Clients \ {c} : Knows(d)' /\ ~At(d, "rotate_begin")'
  BY <1>1, <1>2, <1>5, Switched DEF Same
<1>7. KnowsInv'
  <2>1. \A k \in old : k[2] < pointer'.current
    BY <1>3, <1>6
  <2>2. Knows(c)' /\ ~At(c, "rotate_begin")'
    BY <1>4, <1>5, <2>1 DEF Knows, At
  <2> QED
    BY <1>6, <2>2 DEF KnowsInv
<1>8. work[c].pc = "rotate_finalize" /\ pointer.current <= pointer'.current
  BY <1>2, <1>6 DEF At
<1> QED
  BY <1>2, <1>4, <1>5, <1>6, <1>7, <1>8, SecretStep DEF Owes

\* The switch of a rotation that stopped half way.
LEMMA FinalizeAloneStep ==
  ASSUME BindingInv, NEW c \in Clients, FinalizeAlone(c), ctx' = ctx
  PROVE  BindingInv'
<1>1. /\ work[c].pc = "idle" /\ work' = work /\ ~Stable
      /\ pointer' = Finalized /\ material' = material
      /\ UNCHANGED <<tenantVars, fileVars, nextTxn, cut, tombstones, ctx>>
  BY DEF FinalizeAlone, commitVars, boundVars, NoJob
<1>2. /\ PointerInv' /\ pointer.current \in Nat /\ pointer'.current = pointer.current + 1
      /\ \A d \in Clients : Knows(d)' /\ ~At(d, "rotate_begin")'
  BY <1>1, Switched DEF BindingInv
<1>3. KnowsInv' /\ Same(c) /\ WorkTypes' /\ pointer.current <= pointer'.current
  BY <1>1, <1>2 DEF KnowsInv, Same, WorkTypes, BindingInv
<1> QED
  BY <1>1, <1>2, <1>3, SecretStep DEF Owes

\* A record of a retired secret goes.  Its tenant is to be bumped by this
\* rotation, or the binding is noted as unlisted.
LEMMA RotateUnlinkStep ==
  ASSUME BindingInv, NEW c \in Clients, RotateUnlink(c), ctx' = ctx
  PROVE  BindingInv'
<1> DEFINE k == work[c].tenant
           j == [work[c] EXCEPT !.pc = "rotate_tomb", !.keys = @ \ {k}]
           gone == {[key |-> k, pc |-> "unlisted"] : t \in {store[k].tenant} \ work[c].todo}
<1>1. FileTypes /\ PointerInv /\ KnowsInv /\ TxnInv /\ ReadInv /\ ContextInv
      /\ AuditInv /\ WorkTypes
  BY DEF BindingInv
<1>2. /\ At(c, "rotate_unlink") /\ store' = [store EXCEPT ![k] = Absent]
      /\ work' = [work EXCEPT ![c] = j]
      /\ cut' = IF StatusAt(k) = "none" THEN cut ELSE cut \cup gone
      /\ UNCHANGED <<authEpoch, tenantStatus, receipts, nextTxn>>
      /\ UNCHANGED <<pointer, material, tombstones, ctx>>
  BY DEF RotateUnlink, tenantVars, boundVars, secretVars
<1>3. work[c] \in RotationJobs /\ k \in BindingKeys /\ k[2] < pointer.current
      /\ \A l \in work[c].keys : l[2] < pointer.current
  <2>1. work[c] \in RotationJobs
    BY <1>1, <1>2, JobShapes DEF At
  <2>2. k \in work[c].keys /\ \A l \in work[c].keys : l[2] < pointer.current
    BY <1>1, <1>2 DEF KnowsInv, Knows
  <2> QED
    BY <2>1, <2>2 DEF RotationJobs
<1>4. /\ j \in RotationJobs /\ j.pc = "rotate_tomb" /\ j.keys \subseteq work[c].keys
      /\ j.op.name = "rotate" /\ j.todo = work[c].todo /\ j.key = work[c].key
  BY <1>3 DEF RotationJobs, RotationPoints
<1> HIDE DEF j
<1>5. WorkTypes' /\ work'[c] = j /\ Same(c)
  BY <1>1, <1>2, <1>4, NewJob DEF AllJobs
<1>6. /\ k \in Keys /\ store'[k] = Absent /\ store' \in [Keys -> Binding \cup {Absent}]
      /\ \A l \in Keys \ {k} : store'[l] = store[l]
  BY <1>1, <1>2, <1>3, BindingAssumption DEF FileTypes, BindingAssumption
<1>7. cut \subseteq cut'
  BY <1>2
<1> HIDE DEF k, gone
<1>8. FileTypes'
  BY <1>1, <1>2, <1>6 DEF FileTypes
<1>9. PointerInv'
  BY <1>1, <1>2 DEF PointerInv, Stable
<1>10. KnowsInv'
  <2>1. Knows(c)' /\ ~At(c, "rotate_begin")'
    BY <1>2, <1>3, <1>4, <1>5 DEF Knows, At
  <2> QED
    BY <1>1, <1>2, <1>5, <2>1, KnowsKept
<1>11. TxnInv' /\ ReadInv'
  <2>1. \A l \in Keys : store'[l] # Absent => store[l] # Absent /\ store'[l].txn = store[l].txn
    BY <1>6
  <2> QED
    BY <1>1, <1>2, <1>4, <1>5, <2>1, TxnKept DEF At
<1>12. ASSUME NEW r \in Requests, HasRecord(r), StillBound(ctx[r].key, ctx[r].rec)
       PROVE  \/ StillBound(ctx[r].key, ctx[r].rec)'
              \/ Owes(c, ctx[r].key, ctx[r].rec.tenant)'
              \/ CutShort(ctx[r].key)'
  <2> DEFINE t == ctx[r].rec.tenant
  <2>1. ctx[r].key \in Keys
    BY <1>1, <1>12, ContextTypes, BindingAssumption DEF BindingAssumption
  <2>2. CASE ctx[r].key # k
    BY <1>2, <1>6, <1>12, <2>1, <2>2 DEF StillBound
  <2>3. CASE ctx[r].key = k
    <3>1. store[k] # Absent /\ store[k].status = "active" /\ store[k].tenant = t
      BY <1>1, <1>12, <2>3 DEF ContextInv, StillBound
    <3>2. CASE t \in work[c].todo
      <4>1. Owes(c, ctx[r].key, t)'
        BY <1>2, <1>4, <1>5, <3>2 DEF Owes
      <4> QED
        BY <4>1
    <3>3. CASE t \notin work[c].todo
      <4>1. [key |-> k, pc |-> "unlisted"] \in gone
        BY <3>1, <3>3 DEF gone
      <4>2. cut' = cut \cup gone
        BY <1>2, <3>1 DEF StatusAt
      <4>3. [key |-> k, pc |-> "unlisted"] \in cut'
        BY <4>1, <4>2
      <4> QED
        BY <1>2, <2>3, <4>3 DEF CutShort
    <3> QED
      BY <3>2, <3>3
  <2> QED
    BY <2>2, <2>3
<1>13. ContextInv'
  <2> SUFFICES ASSUME NEW r \in Requests
               PROVE  /\ HasRecord(r) =>
                           /\ ctx[r].rec.status = "active"
                           /\ StillBound(ctx[r].key, ctx[r].rec)' =>
                                /\ store'[ctx[r].key].status = "active"
                                /\ store'[ctx[r].key].tenant = ctx[r].rec.tenant
                      /\ ctx[r].pc = "context" =>
                           /\ ctx[r].authEpoch <= authEpoch[ctx[r].rec.tenant]
                           /\ ~ctx[r].torn => Reached(r)'
    BY <1>2 DEF ContextInv, HasRecord
  <2>1. ASSUME HasRecord(r), StillBound(ctx[r].key, ctx[r].rec)'
        PROVE  /\ store'[ctx[r].key].status = "active"
               /\ store'[ctx[r].key].tenant = ctx[r].rec.tenant
    <3>1. ctx[r].key \in Keys
      BY <1>1, <2>1, ContextTypes, BindingAssumption DEF BindingAssumption
    <3>2. ctx[r].key # k /\ store'[ctx[r].key] = store[ctx[r].key]
      BY <1>2, <1>6, <2>1, <3>1 DEF StillBound
    <3>3. StillBound(ctx[r].key, ctx[r].rec)
      BY <1>2, <2>1, <3>2 DEF StillBound
    <3> QED
      BY <1>1, <2>1, <3>2, <3>3 DEF ContextInv
  <2>2. ASSUME ctx[r].pc = "context", ~ctx[r].torn PROVE Reached(r)'
    <3>1. /\ ctx[r].authEpoch <= authEpoch[ctx[r].rec.tenant] /\ Reached(r)
          /\ HasRecord(r)
      BY <1>1, <2>2 DEF ContextInv, HasRecord
    <3>2. authEpoch \in [Tenants -> Nat] /\ \A t \in Tenants : authEpoch[t] <= authEpoch[t]
      BY <1>1, EpochCommitAssumption DEF FileTypes, EpochCommitAssumption
    <3>3. DebtKept(c)
      BY <1>4, <1>5 DEF DebtKept, Owes
    <3> QED
      BY <1>1, <1>2, <1>5, <1>7, <1>12, <2>2, <3>1, <3>2, <3>3, ReachedKept
  <2> QED
    BY <1>1, <2>1, <2>2 DEF ContextInv
<1>14. AuditInv'
  <2>1. ASSUME NEW l \in BindingKeys, Live(l)' PROVE Live(l) /\ EpochAt(l)' = EpochAt(l)
    <3>1. l[2] \in Nat /\ pointer.current \in Nat /\ l \in Keys
      BY <1>1, BindingAssumption DEF PointerInv, BindingKeys, BindingAssumption
    <3>2. Live(l) /\ l # k
      BY <1>2, <1>3, <2>1, <3>1 DEF Live, k
    <3> QED
      BY <1>6, <3>1, <3>2 DEF EpochAt
  <2>2. ~At(c, "receipt") /\ ~At(c, "receipt")'
    BY <1>2, <1>4, <1>5 DEF At
  <2> QED
    BY <1>1, <1>2, <1>5, <1>7, <2>1, <2>2, AuditKept
<1> QED
  BY <1>5, <1>8, <1>9, <1>10, <1>11, <1>13, <1>14 DEF BindingInv

-----------------------------------------------------------------------------
(* The host, and the requests.                                             *)

\* Nothing that touches neither calls nor files disturbs more than contexts.
LEMMA FilesStay ==
  ASSUME BindingInv, UNCHANGED <<store, receipts, work, nextTxn, cut>>,
         UNCHANGED <<pointer, material, tombstones>>
  PROVE  /\ WorkTypes' /\ PointerInv' /\ KnowsInv' /\ ReadInv' /\ AuditInv'
<1>1. WorkTypes' /\ PointerInv'
  BY DEF BindingInv, WorkTypes, PointerInv, Stable
<1>2. KnowsInv'
  BY DEF BindingInv, KnowsInv, Knows, At, Stable
<1>3. ReadInv'
  BY DEF BindingInv, ReadInv, At
<1>4. AuditInv'
  <2>1. \A k \in BindingKeys : Live(k)' = Live(k) /\ EpochAt(k)' = EpochAt(k)
    BY DEF Live, EpochAt
  <2>2. \A k \in BindingKeys : AuditOf(k) => AuditOf(k)'
    BY <2>1 DEF AuditOf, Receipted, Receipting, At
  <2> QED
    BY <2>1, <2>2 DEF BindingInv, AuditInv
<1> QED
  BY <1>1, <1>2, <1>3, <1>4

\* The tenant record is written by others: epochs only grow.
LEMMA TenantRecordStep ==
  ASSUME BindingInv, NEW t \in Tenants, ForeignBump(t) \/ SetTenantStatus(t),
         UNCHANGED <<secretVars, ctx>>
  PROVE  BindingInv'
<1>1. FileTypes /\ TxnInv /\ ContextInv
  BY DEF BindingInv
<1>2. /\ UNCHANGED <<store, receipts, work, nextTxn, cut>>
      /\ UNCHANGED <<pointer, material, tombstones, ctx>>
  BY DEF ForeignBump, SetTenantStatus, fileVars, boundVars, secretVars
<1>3. /\ authEpoch' \in [Tenants -> 1..MaxSafeEpoch] /\ authEpoch' \in [Tenants -> Nat]
      /\ tenantStatus' \in [Tenants -> StatusesInPlay]
      /\ \A u \in Tenants : authEpoch[u] <= authEpoch'[u]
  <2>1. CASE ForeignBump(t)
    BY <1>1, <2>1, EpochCommitAssumption DEF ForeignBump, FileTypes, EpochCommitAssumption
  <2>2. CASE SetTenantStatus(t)
    BY <1>1, <2>2, EpochCommitAssumption
       DEF SetTenantStatus, FileTypes, EpochCommitAssumption
  <2> QED
    BY <2>1, <2>2
<1>4. FileTypes'
  BY <1>1, <1>2, <1>3 DEF FileTypes
<1>5. TxnInv'
  BY <1>1, <1>2 DEF TxnInv, Fresh, HasRecord, At
<1>6. ContextInv'
  <2>1. ASSUME NEW r \in Requests, ctx[r].pc = "context"
        PROVE  /\ ctx[r].authEpoch <= authEpoch'[ctx[r].rec.tenant]
               /\ ~ctx[r].torn => Reached(r)'
    <3>1. /\ ctx[r].authEpoch \in Nat /\ ctx[r].rec.tenant \in Tenants
          /\ ctx[r].authEpoch <= authEpoch[ctx[r].rec.tenant]
      BY <1>1, <2>1, ContextTypes DEF ContextInv, Binding
    <3>2. authEpoch[ctx[r].rec.tenant] \in Nat /\ authEpoch'[ctx[r].rec.tenant] \in Nat
      BY <1>1, <1>3, <3>1, EpochCommitAssumption DEF FileTypes, EpochCommitAssumption
    <3>3. ctx[r].authEpoch <= authEpoch'[ctx[r].rec.tenant]
      BY <1>3, <3>1, <3>2
    <3>4. ctx[r].authEpoch < authEpoch[ctx[r].rec.tenant] =>
            ctx[r].authEpoch < authEpoch'[ctx[r].rec.tenant]
      BY <1>3, <3>1, <3>2
    <3>5. ASSUME ~ctx[r].torn PROVE Reached(r)'
      <4>1. Reached(r)
        BY <1>1, <2>1, <3>5 DEF ContextInv
      <4> QED
        BY <1>2, <3>4, <4>1 DEF Reached, StillBound, CutShort, Owes
    <3> QED
      BY <3>3, <3>5
  <2> QED
    BY <1>1, <1>2, <2>1 DEF ContextInv, HasRecord, StillBound
<1> QED
  BY <1>2, <1>4, <1>5, <1>6, FilesStay DEF BindingInv

\* What a request may note of a record, so that it is told apart from what
\* later transactions write.
Sound(key, rec) ==
  /\ rec.status = "active" /\ rec.txn < nextTxn
  /\ \A c \in Clients : At(c, "record") => rec.txn # work[c].next.txn
  /\ StillBound(key, rec) =>
       store[key].status = "active" /\ store[key].tenant = rec.tenant

\* A request goes on, with what it has read.
LEMMA ContextStep ==
  ASSUME BindingInv, NEW r \in Requests, NEW x \in Contexts, ctx' = [ctx EXCEPT ![r] = x],
         UNCHANGED <<commitVars, secretVars>>,
         x.pc \in {"resolved", "context"} => Sound(x.key, x.rec),
         x.pc = "context" => /\ x.authEpoch = authEpoch[x.rec.tenant]
                             /\ ~x.torn => StillBound(x.key, x.rec)
  PROVE  BindingInv'
<1>1. FileTypes /\ TxnInv /\ ContextInv
  BY DEF BindingInv
<1>2. /\ UNCHANGED <<authEpoch, tenantStatus, store, receipts, work, nextTxn, cut>>
      /\ UNCHANGED <<pointer, material, tombstones>>
  BY DEF commitVars, tenantVars, fileVars, boundVars, secretVars
<1>3. /\ ctx' \in [Requests -> Contexts] /\ ctx'[r] = x
      /\ \A q \in Requests \ {r} : ctx'[q] = ctx[q]
  BY <1>1 DEF FileTypes
<1>4. FileTypes'
  BY <1>1, <1>2, <1>3 DEF FileTypes
<1>5. ASSUME NEW q \in Requests, HasRecord(q)'
      PROVE  /\ ctx'[q].rec.txn < nextTxn'
             /\ \A c \in Clients : At(c, "record") => ctx'[q].rec.txn # work[c].next.txn
  <2>1. CASE q = r
    BY <1>2, <1>3, <1>5, <2>1 DEF HasRecord, Sound
  <2>2. CASE q # r
    BY <1>1, <1>2, <1>3, <1>5, <2>2 DEF HasRecord, TxnInv, Fresh
  <2> QED
    BY <2>1, <2>2
<1>6. TxnInv'
  <2>1. ASSUME NEW c \in Clients, At(c, "record")' PROVE Fresh(c)'
    <3>1. At(c, "record") /\ Fresh(c)
      BY <1>1, <1>2, <2>1 DEF TxnInv, At
    <3> QED
      BY <1>2, <1>5, <3>1 DEF Fresh, At
  <2> QED
    BY <1>1, <1>2, <1>5, <2>1 DEF TxnInv
<1>7. ContextInv'
  <2> SUFFICES ASSUME NEW q \in Requests
               PROVE  /\ HasRecord(q)' =>
                           /\ ctx'[q].rec.status = "active"
                           /\ StillBound(ctx[q].key, ctx[q].rec)' =>
                                /\ store'[ctx'[q].key].status = "active"
                                /\ store'[ctx'[q].key].tenant = ctx'[q].rec.tenant
                      /\ ctx'[q].pc = "context" =>
                           /\ ctx'[q].authEpoch <= authEpoch'[ctx'[q].rec.tenant]
                           /\ ~ctx'[q].torn => Reached(q)'
    BY DEF ContextInv
  <2>1. CASE q = r
    <3>1. HasRecord(r)' => /\ x.rec.status = "active"
                           /\ StillBound(x.key, x.rec) =>
                                /\ store[x.key].status = "active"
                                /\ store[x.key].tenant = x.rec.tenant
      BY <1>3 DEF HasRecord, Sound
    <3>2. StillBound(ctx[r].key, ctx[r].rec)' = StillBound(x.key, x.rec)
      BY <1>2, <1>3 DEF StillBound
    <3>3. ASSUME x.pc = "context"
          PROVE  /\ x.authEpoch <= authEpoch[x.rec.tenant]
                 /\ ~x.torn => Reached(r)'
      <4>1. x.authEpoch = authEpoch[x.rec.tenant] /\ x.authEpoch \in Nat
        BY <3>3 DEF Contexts, NoContext
      <4>2. ~x.torn => Reached(r)'
        BY <3>2, <3>3 DEF Reached
      <4> QED
        BY <4>1, <4>2
    <3> QED
      BY <1>2, <1>3, <2>1, <3>1, <3>2, <3>3
  <2>2. CASE q # r
    <3>1. ctx'[q] = ctx[q]
      BY <1>3, <2>2
    <3>2. StillBound(ctx[q].key, ctx[q].rec)' = StillBound(ctx[q].key, ctx[q].rec)
      BY <1>2, <3>1 DEF StillBound
    <3>3. Reached(q) => Reached(q)'
      BY <1>2, <3>1, <3>2 DEF Reached, Owes, CutShort
    <3> QED
      BY <1>1, <1>2, <3>1, <3>2, <3>3 DEF ContextInv, HasRecord
  <2> QED
    BY <2>1, <2>2
<1> QED
  BY <1>2, <1>4, <1>6, <1>7, FilesStay DEF BindingInv

\* A request looks up the pointer, the record and the tenant, and lets go.
LEMMA RequestStep ==
  ASSUME BindingInv, NEW r \in Requests,
         \/ \E a \in Agents : ResolvePointer(r, a)
         \/ ResolveRecord(r) \/ Capture(r) \/ Release(r)
  PROVE  BindingInv'
<1>1. FileTypes /\ PointerInv /\ TxnInv /\ ContextInv
  BY DEF BindingInv
<1>2. NoContext \in Contexts /\ NoContext.pc \notin {"resolved", "context"}
  BY DEF Contexts, NoContext
<1>3. CASE \E a \in Agents : ResolvePointer(r, a)
  <2>1. PICK a \in Agents : ResolvePointer(r, a)
    BY <1>3
  <2> DEFINE x == [pc |-> "hash", key |-> CurrentKey(a)]
  <2>2. x \in Contexts /\ x.pc = "hash"
    BY LookupType DEF Contexts
  <2>3. ctx' = [ctx EXCEPT ![r] = x] /\ UNCHANGED <<commitVars, secretVars>>
    BY <2>1 DEF ResolvePointer
  <2> HIDE DEF x
  <2> QED
    BY <2>2, <2>3, ContextStep
<1>4. CASE ResolveRecord(r)
  <2> DEFINE k == IF store[ctx[r].key] = Absent /\ ~Stable
                  THEN <<ctx[r].key[1], pointer.secondary>> ELSE ctx[r].key
             rec == store[k]
             x == [pc |-> "resolved", key |-> k, rec |-> rec]
  <2>1. k \in BindingKeys
    <3>1. ctx[r].key \in BindingKeys
      BY <1>1, <1>4, ContextTypes DEF ResolveRecord
    <3>2. ~Stable => pointer.secondary \in 1..MaxSecret
      BY <1>1 DEF PointerInv
    <3> QED
      BY <3>1, <3>2 DEF BindingKeys
  <2>2. k \in Keys /\ rec \in Binding \cup {Absent}
    BY <1>1, <2>1, BindingAssumption DEF FileTypes, BindingAssumption
  <2>3. /\ \/ ctx' = [ctx EXCEPT ![r] = NoContext]
           \/ /\ ctx' = [ctx EXCEPT ![r] = x]
              /\ rec # Absent /\ rec.status = "active"
        /\ UNCHANGED <<commitVars, secretVars>>
    BY <1>4 DEF ResolveRecord
  <2> HIDE DEF k
  <2>4. CASE ctx' = [ctx EXCEPT ![r] = NoContext]
    BY <1>2, <2>3, <2>4, ContextStep
  <2>5. CASE ctx' = [ctx EXCEPT ![r] = x] /\ rec # Absent /\ rec.status = "active"
    <3>1. x \in Contexts /\ x.pc = "resolved" /\ x.key = k /\ x.rec = rec
      BY <2>1, <2>2, <2>5 DEF Contexts
    <3>2. Sound(k, rec)
      BY <1>1, <2>2, <2>5 DEF Sound, TxnInv, Fresh
    <3> HIDE DEF x, rec
    <3> QED
      BY <2>3, <2>5, <3>1, <3>2, ContextStep
  <2> QED
    BY <2>3, <2>4, <2>5
<1>5. CASE Capture(r)
  <2> DEFINE rec == ctx[r].rec
             x == [pc |-> "context", key |-> ctx[r].key, rec |-> rec,
                   authEpoch |-> authEpoch[rec.tenant],
                   torn |-> ~StillBound(ctx[r].key, rec)]
  <2>1. /\ ctx[r].pc = "resolved" /\ HasRecord(r)
        /\ ctx' = [ctx EXCEPT ![r] = x] /\ UNCHANGED <<commitVars, secretVars>>
    BY <1>5 DEF Capture, HasRecord
  <2>2. ctx[r].key \in BindingKeys /\ rec \in Binding
    BY <1>1, <2>1, ContextTypes
  <2>3. authEpoch[rec.tenant] \in Nat
    BY <1>1, <2>2, EpochCommitAssumption DEF Binding, FileTypes, EpochCommitAssumption
  <2>4. StillBound(ctx[r].key, rec) \in BOOLEAN
    BY DEF StillBound
  <2>5. /\ x \in Contexts /\ x.pc = "context" /\ x.key = ctx[r].key /\ x.rec = rec
        /\ x.authEpoch = authEpoch[rec.tenant] /\ x.torn = ~StillBound(ctx[r].key, rec)
    BY <2>2, <2>3, <2>4 DEF Contexts
  <2>6. Sound(ctx[r].key, rec)
    BY <1>1, <2>1 DEF Sound, TxnInv, Fresh, ContextInv
  <2> HIDE DEF x, rec
  <2> QED
    BY <2>1, <2>5, <2>6, ContextStep
<1>6. CASE Release(r)
  BY <1>2, <1>6, ContextStep DEF Release
<1> QED
  BY <1>3, <1>4, <1>5, <1>6

-----------------------------------------------------------------------------
(* The invariant, and what follows from it.                                *)

\* Every step of the registry and of those around it keeps BindingInv.
LEMMA BindingInvariantStep == BindingInv /\ [BindingNext]_bindingVars => BindingInv'
<1> SUFFICES ASSUME BindingInv, [BindingNext]_bindingVars PROVE BindingInv'
  OBVIOUS
<1>1. ASSUME NEW c \in Clients, BindingStep(c), ctx' = ctx PROVE BindingInv'
  <2>1. CASE RotateConflict(c)
    <3>1. UNCHANGED <<secretVars, ctx>>
      BY <1>1, <2>1 DEF RotateConflict
    <3> QED
      BY <2>1, <3>1, CutStep
  <2>2. CASE \/ \E op \in BindingOps : StartBinding(c, op)
             \/ Bind(c) \/ MutateStatus(c) \/ BindingRefused(c) \/ BindingReturns(c)
             \/ RebindIn(c) \/ ReadToRelabel(c) \/ Relabel(c)
    BY <1>1, <2>2, StartBindingStep, BindStep, MutateStatusStep, ReturnsStep,
       RebindInStep, ReadToRelabelStep, RelabelStep
  <2>3. CASE \/ RotateMaterial(c) \/ RotateBegin(c) \/ RotateFinalize(c)
             \/ RotateTombstone(c) \/ RotateUnlink(c) \/ RotateBump(c)
             \/ RotateReturns(c) \/ FinalizeAlone(c)
    BY <1>1, <2>3, RotateMaterialStep, RotateBeginStep, RotateFinalizeStep,
       RotateTombstoneStep, RotateUnlinkStep, RotateBumpStep, ReturnsStep,
       FinalizeAloneStep
  <2> QED
    BY <1>1, <2>1, <2>2, <2>3 DEF BindingStep
<1>2. ASSUME NEW c \in Clients, Commit(c) \/ Crash(c), UNCHANGED <<secretVars, ctx>>
      PROVE  BindingInv'
  BY <1>2, WriteRecordStep, WriteReceiptStep, BumpStep, BumpConflictStep, CutStep DEF Commit
<1>3. ASSUME NEW t \in Tenants, ForeignBump(t) \/ SetTenantStatus(t),
             UNCHANGED <<secretVars, ctx>>
      PROVE  BindingInv'
  BY <1>3, TenantRecordStep
<1>4. ASSUME UNCHANGED bindingVars PROVE BindingInv'
  <2>1. /\ UNCHANGED <<authEpoch, tenantStatus, store, receipts, work, nextTxn, cut>>
        /\ UNCHANGED <<pointer, material, tombstones, ctx>>
    BY <1>4 DEF bindingVars, commitVars, tenantVars, fileVars, boundVars, secretVars
  <2>2. FileTypes' /\ TxnInv'
    BY <2>1 DEF BindingInv, FileTypes, TxnInv, Fresh, HasRecord, At
  <2>3. ContextInv'
    BY <2>1 DEF BindingInv, ContextInv, HasRecord, Reached, StillBound, Owes, CutShort
  <2> QED
    BY <2>1, <2>2, <2>3, FilesStay DEF BindingInv
<1> QED
  BY <1>1, <1>2, <1>3, <1>4, RequestStep DEF BindingNext

\* BindingInv holds in every reachable state.
THEOREM BindingInvariant == BindingSpec => []BindingInv
<1> QED
  BY BindingInitInv, BindingInvariantStep, PTL DEF BindingSpec

\* The types of the files, the secret and the contexts.
THEOREM BindingTypesHold == BindingSpec => []BindingTypeOK
<1>1. ASSUME BindingInv PROVE BindingTypeOK
  <2>1. FileTypes /\ PointerInv /\ ContextInv
    BY <1>1 DEF BindingInv
  <2>2. \A k \in BindingKeys : store[k] \in Binding \cup {Absent}
    BY <2>1, BindingAssumption DEF FileTypes, BindingAssumption
  <2>3. /\ pointer \in [state : {"stable", "dual_write"}, current : material,
                        secondary : material \cup {0}]
        /\ (pointer.secondary # 0) = (pointer.state = "dual_write")
    BY <2>1, BindingAssumption DEF PointerInv, Stable, BindingAssumption
  <2>4. \A r \in Requests : ctx[r].pc = "context" => ctx[r].rec.status = "active"
    BY <2>1 DEF ContextInv, HasRecord
  <2> QED
    BY <2>1, <2>2, <2>3, <2>4 DEF BindingTypeOK, FileTypes
<1> QED
  BY <1>1, BindingInvariant, PTL

\* A context that is believed, and not torn, was resolved from the binding as
\* it still is, or the call that ended it has not bumped yet, or was cut short.
THEOREM RevocationReaches == BindingSpec => []RevocationReachesContexts
<1>1. ASSUME BindingInv PROVE RevocationReachesContexts
  <2> SUFFICES ASSUME NEW r \in Requests, ctx[r].pc = "context", ~ctx[r].torn,
                      ctx[r].authEpoch = authEpoch[ctx[r].rec.tenant]
               PROVE  StillBound(ctx[r].key, ctx[r].rec) \/ Pending(ctx[r].key)
                        \/ CutShort(ctx[r].key)
    BY DEF RevocationReachesContexts
  <2>1. FileTypes /\ WorkTypes /\ ContextInv
    BY <1>1 DEF BindingInv
  <2>2. Reached(r) /\ ctx[r].authEpoch \in Nat
    BY <2>1, ContextTypes DEF ContextInv
  <2>3. ASSUME NEW c \in Clients, Owes(c, ctx[r].key, ctx[r].rec.tenant)
        PROVE  Pending(ctx[r].key)
    <3>1. CASE work[c].op.name = "rotate"
      <4>1. work[c] # NoJob
        BY <2>3 DEF Owes, NoJob
      <4> QED
        BY <3>1, <4>1 DEF Pending
    <3>2. CASE work[c].op.name # "rotate"
      <4>1. work[c].pc \notin {"rotate_tomb", "rotate_unlink"}
        BY <2>1, <3>2, JobShapes DEF RotationJobs
      <4> QED
        BY <2>3, <3>2, <4>1 DEF Owes, Pending
    <3> QED
      BY <3>1, <3>2
  <2> QED
    BY <2>2, <2>3 DEF Reached
<1> QED
  BY <1>1, BindingInvariant, PTL

\* Every version of a record under the current secret has one receipt.
THEOREM AuditTrailHolds == BindingSpec => []AuditTrail
<1>1. ASSUME BindingInv PROVE AuditTrail
  <2> SUFFICES ASSUME NEW k \in BindingKeys, k[2] >= pointer.current,
                      NEW e \in 1..EpochAt(k)
               PROVE  \/ Cardinality({x \in receipts : x.key = k /\ x.epoch = e}) = 1
                      \/ \E c \in Clients : At(c, "receipt") /\ work[c].key = k
                                              /\ work[c].next.epoch = e
                      \/ [key |-> k, pc |-> "receipt"] \in cut
    BY DEF AuditTrail
  <2>1. AuditOf(k)
    BY <1>1 DEF BindingInv, AuditInv, Live
  <2>2. \/ Receipted(k, e)
        \/ \E c \in Clients : Receipting(c, k, e)
        \/ [key |-> k, pc |-> "receipt"] \in cut
    BY <2>1 DEF AuditOf
  <2>3. ASSUME NEW y \in receipts, y.key = k, y.epoch = e
        PROVE  Cardinality({x \in receipts : x.key = k /\ x.epoch = e}) = 1
    <3>1. {x \in receipts : x.key = k /\ x.epoch = e} = {y}
      BY <2>1, <2>3 DEF AuditOf
    <3> QED
      BY <3>1, FS_Singleton
  <2> QED
    BY <2>2, <2>3 DEF Receipted, Receipting
<1> QED
  BY <1>1, BindingInvariant, PTL
=============================================================================
