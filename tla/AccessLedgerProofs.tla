------------------------- MODULE AccessLedgerProofs -------------------------
(***************************************************************************)
(* Proofs about AccessLedger, and at the end about TenantView over it, for *)
(* any sets of grants, of processes and of consumers, any lease, epoch     *)
(* limit and number of crashes.                                            *)
(*                                                                         *)
(* The inductive invariant says of a grant how far its revocation has got  *)
(* by its files alone (GrantInv), and of a process what the files of its   *)
(* grant must show at the point it has reached (ProcInv).  A process that  *)
(* dies leaves a state GrantInv still describes, which is why recover()    *)
(* can take up the journal.                                                *)
(***************************************************************************)
EXTENDS TenantView, TLAPS

\* What the files of one grant show, whoever works on it.
GrantInv(g) ==
  /\ grant[g].epoch <= authEpoch
  /\ grant[g].status # Absent => grant[g].epoch > 0
  /\ intent[g] <= authEpoch
  /\ tombstone[g] <= authEpoch
  /\ txns[g] <= 1
  /\ Begun(g) => IntentExistsFor(g) \/ HasReceipt(g)
  /\ Begun(g) => grant[g].status # Absent
  /\ ~Begun(g) => /\ ~Closed(g) /\ ~HasReceipt(g)
                  /\ grant[g].status # "revoked"
  /\ TombstoneExists(g) => grant[g].status = "revoked"
  /\ HasReceipt(g) => /\ tombstone[g] = receipt[g].after
                      /\ receipt[g].before < receipt[g].after

AfterReread == {"tombstone", "outbox", "receipt", "unlink"}

\* What a process may rely on at the point it has reached.
ProcInv(p) ==
  /\ seen[p] <= authEpoch
  /\ before[p] <= authEpoch
  /\ pc[p] # "idle" => on[p] \in Grants
  /\ pc[p] \in {"observe", "promote", "refresh"} => seen[p] > 0
  /\ pc[p] \in Completion \cup {"wait"} => Begun(on[p])
  /\ pc[p] \in Completion \ {"mark"} => grant[on[p]].status = "revoked"
  /\ pc[p] = "reread" => before[p] < authEpoch
  /\ pc[p] \in AfterReread => before[p] < seen[p]
  /\ pc[p] \in AfterReread \ {"tombstone"} => tombstone[on[p]] = seen[p]
  /\ pc[p] = "unlink" => HasReceipt(on[p])

IInv ==
  /\ TypeOK
  /\ \A g \in Grants : GrantInv(g)
  /\ \A p \in Procs : ProcInv(p)

-----------------------------------------------------------------------------
(* Type correctness, in three parts: processes, files, host.               *)

ProcTypeOK ==
  /\ pc \in [Procs -> Points]
  /\ on \in [Procs -> Grants \cup {NoKey}]
  /\ seen \in [Procs -> Nat]
  /\ before \in [Procs -> Nat]
  /\ stamp \in [Procs -> Nat]

FileTypeOK ==
  /\ grant \in [Grants -> GrantRecord]
  /\ event \in [Grants -> GrantStates \cup {Absent}]
  /\ intent \in [Grants -> Nat]
  /\ tombstone \in [Grants -> Nat]
  /\ outbox \in [Grants -> OutboxRecord]
  /\ receipt \in [Grants -> ReceiptRecord]
  /\ txns \in [Grants -> Nat]

HostTypeOK ==
  /\ authEpoch \in 1..MaxSafeEpoch
  /\ tenantStatus \in TenantStates
  /\ clock \in Nat
  /\ rebinds \in Nat
  /\ crashes \in Nat

\* The three parts make up the type invariant, before a step and after it.
LEMMA TypeParts ==
  /\ TypeOK <=> ProcTypeOK /\ FileTypeOK /\ HostTypeOK
  /\ ProcTypeOK' /\ FileTypeOK' /\ HostTypeOK' => TypeOK'
BY DEF TypeOK, ProcTypeOK, FileTypeOK, HostTypeOK

\* Setting the status of a grant record changes nothing else of it.
LEMMA StatusOnly ==
  ASSUME grant \in [Grants -> GrantRecord], NEW g \in Grants,
         NEW s \in GrantStates, grant' = [grant EXCEPT ![g].status = s]
  PROVE  /\ grant' = [grant EXCEPT ![g] = [status |-> s,
                                          epoch  |-> grant[g].epoch,
                                          lease  |-> grant[g].lease]]
         /\ grant' \in [Grants -> GrantRecord]
<1>1. grant[g] \in GrantRecord
  OBVIOUS
<1>2. [grant[g] EXCEPT !.status = s]
        = [status |-> s, epoch |-> grant[g].epoch, lease |-> grant[g].lease]
  BY <1>1 DEF GrantRecord
<1>3. grant' = [grant EXCEPT ![g] = [grant[g] EXCEPT !.status = s]]
  OBVIOUS
<1>4. grant' = [grant EXCEPT ![g] = [status |-> s, epoch |-> grant[g].epoch,
                                     lease |-> grant[g].lease]]
  BY <1>2, <1>3, Zenon
<1>5. grant' \in [Grants -> GrantRecord]
  BY <1>1, <1>4 DEF GrantRecord
<1>6. QED
  BY <1>4, <1>5

\* Writers and recoverers are processes.
LEMMA ProcsType == Writers \subseteq Procs /\ Recoverers \subseteq Procs
BY DEF Procs

\* The program points of the critical section are program points.
LEMMA PointsType ==
  /\ Completion \subseteq Points
  /\ {"append", "idle", "observe", "promote", "refresh", "wait"} \subseteq Points
BY DEF Completion, Critical, Points

\* A return leaves the locals of every process well typed.
LEMMA ReturnType ==
  ASSUME ProcTypeOK, NEW p \in Procs, Return(p)
  PROVE  ProcTypeOK'
BY DEF ProcTypeOK, Return, Points

\* So does a move to another program point.
LEMMA GotoType ==
  ASSUME ProcTypeOK, NEW p \in Procs, NEW l \in Points, Goto(p, l),
         UNCHANGED <<on, seen, before, stamp>>
  PROVE  ProcTypeOK'
BY DEF ProcTypeOK, Goto

\* So does a call that takes up a grant.
LEMMA EnterType ==
  ASSUME ProcTypeOK, NEW p \in Procs, NEW g \in Grants, NEW l \in Points,
         NEW e \in Nat, NEW b \in Nat, NEW s \in Nat, Enter(p, g, l, e, b, s)
  PROVE  ProcTypeOK'
BY DEF ProcTypeOK, Enter

\* Writing a well-typed record keeps records and locals well typed.
LEMMA WriteGrantType ==
  ASSUME TypeOK, NEW p \in Procs, NEW g \in Grants, NEW rec \in GrantRecord,
         WriteGrant(p, g, rec)
  PROVE  ProcTypeOK' /\ grant' \in [Grants -> GrantRecord]
<1>1. ProcTypeOK'
  BY PointsType, GotoType, TypeParts DEF WriteGrant
<1>2. grant' \in [Grants -> GrantRecord]
  BY DEF WriteGrant, TypeOK
<1>3. QED
  BY <1>1, <1>2

\* A host starts with well-typed files and idle processes.
LEMMA InitType == Init /\ LedgerAssumption => TypeOK
<1> SUFFICES ASSUME Init, LedgerAssumption PROVE TypeOK
  OBVIOUS
<1>1. ProcTypeOK
  BY PointsType DEF Init, ProcTypeOK
<1>2. FileTypeOK
  BY DEF Init, FileTypeOK, NoGrant, GrantRecord, NoOutbox, OutboxRecord,
         NoReceipt, ReceiptRecord
<1>3. HostTypeOK
  BY DEF Init, HostTypeOK, LedgerAssumption
<1>4. QED
  BY <1>1, <1>2, <1>3, TypeParts

\* A process past the first line of an operation works on a grant: the part
\* of ProcInv type correctness needs, and an invariant of its own.
WorksOnGrant == \A p \in Procs : pc[p] # "idle" => on[p] \in Grants

\* A step of _complete_revocation keeps the types.
LEMMA CompletionType ==
  ASSUME TypeOK, WorksOnGrant, NEW p \in Procs, CompleteRevocation(p)
  PROVE  TypeOK'
<1> USE TypeParts, PointsType DEF WorksOnGrant
<1>1. CASE MarkRevoked(p)
  <2>1. ProcTypeOK'
    BY <1>1, GotoType DEF MarkRevoked, Completion
  <2>2. FileTypeOK'
    <3>1. grant' \in [Grants -> GrantRecord]
      BY <1>1, StatusOnly DEF MarkRevoked, FileTypeOK, ProcTypeOK, GrantStates
    <3>2. QED
      BY <1>1, <3>1 DEF MarkRevoked, FileTypeOK, UNCHANGEDRevocation
  <2>3. HostTypeOK'
    BY <1>1 DEF MarkRevoked, HostTypeOK, tenantVars
  <2>4. QED
    BY <2>1, <2>2, <2>3
<1>2. CASE AppendRevoked(p)
  <2>1. ProcTypeOK'
    BY <1>2, GotoType DEF AppendRevoked, Completion
  <2>2. FileTypeOK'
    BY <1>2 DEF AppendRevoked, FileTypeOK, UNCHANGEDRevocation, GrantStates
  <2>3. HostTypeOK'
    BY <1>2 DEF AppendRevoked, HostTypeOK, tenantVars
  <2>4. QED
    BY <2>1, <2>2, <2>3
<1>3. CASE GetTenant(p)
  <2>1. ProcTypeOK'
    BY <1>3, GotoType DEF GetTenant, Completion
  <2>2. FileTypeOK' /\ HostTypeOK'
    BY <1>3 DEF GetTenant, FileTypeOK, HostTypeOK, fileVars, tenantVars
  <2>3. QED
    BY <2>1, <2>2
<1>4. CASE BumpAuthEpoch(p)
  <2>1. ProcTypeOK'
    BY <1>4, GotoType DEF BumpAuthEpoch, Completion
  <2>2. FileTypeOK'
    BY <1>4 DEF BumpAuthEpoch, FileTypeOK, fileVars
  <2>3. HostTypeOK'
    BY <1>4, LedgerAssumption DEF BumpAuthEpoch, HostTypeOK, LedgerAssumption
  <2>4. QED
    BY <2>1, <2>2, <2>3
<1>5. CASE BumpRefused(p) \/ TombstoneDrift(p) \/ ReceiptDrift(p)
  <2>1. Return(p) /\ UNCHANGED <<tenantVars, fileVars, clock, crashes>>
    BY <1>5 DEF BumpRefused, TombstoneDrift, ReceiptDrift
  <2>2. ProcTypeOK'
    BY <2>1, ReturnType
  <2>3. FileTypeOK' /\ HostTypeOK'
    BY <2>1 DEF FileTypeOK, HostTypeOK, fileVars, tenantVars
  <2>4. QED
    BY <2>2, <2>3
<1>6. CASE ReadEpochAfter(p)
  <2>1. ProcTypeOK'
    BY <1>6 DEF ReadEpochAfter, Goto, ProcTypeOK, HostTypeOK, Completion
  <2>2. FileTypeOK' /\ HostTypeOK'
    BY <1>6 DEF ReadEpochAfter, FileTypeOK, HostTypeOK, fileVars, tenantVars
  <2>3. QED
    BY <2>1, <2>2
<1>7. CASE WriteTombstone(p)
  <2>1. ProcTypeOK'
    BY <1>7, GotoType DEF WriteTombstone, Completion
  <2>2. FileTypeOK'
    BY <1>7 DEF WriteTombstone, FileTypeOK, ProcTypeOK
  <2>3. HostTypeOK'
    BY <1>7 DEF WriteTombstone, HostTypeOK, tenantVars
  <2>4. QED
    BY <2>1, <2>2, <2>3
<1>8. CASE WriteOutbox(p)
  <2>1. ProcTypeOK'
    BY <1>8 DEF WriteOutbox, Goto, ProcTypeOK, HostTypeOK, Completion
  <2>2. FileTypeOK'
    BY <1>8 DEF WriteOutbox, FileTypeOK, HostTypeOK, OutboxRecord
  <2>3. HostTypeOK'
    BY <1>8 DEF WriteOutbox, HostTypeOK, tenantVars
  <2>4. QED
    BY <2>1, <2>2, <2>3
<1>9. CASE WriteReceipt(p)
  <2>1. ProcTypeOK'
    BY <1>9, GotoType DEF WriteReceipt, Completion
  <2>2. BuiltReceipt(p) \in ReceiptRecord
    BY DEF BuiltReceipt, ReceiptRecord, ProcTypeOK
  <2>3. FileTypeOK'
    BY <1>9, <2>2 DEF WriteReceipt, FileTypeOK
  <2>4. HostTypeOK'
    BY <1>9 DEF WriteReceipt, HostTypeOK, tenantVars
  <2>5. QED
    BY <2>1, <2>3, <2>4
<1>10. CASE UnlinkIntent(p)
  <2>1. ProcTypeOK'
    BY <1>10, ReturnType DEF UnlinkIntent
  <2>2. FileTypeOK' /\ HostTypeOK'
    BY <1>10 DEF UnlinkIntent, FileTypeOK, HostTypeOK, tenantVars
  <2>3. QED
    BY <2>1, <2>2
<1>11. QED
  BY <1>1, <1>2, <1>3, <1>4, <1>5, <1>6, <1>7, <1>8, <1>9, <1>10
     DEF CompleteRevocation

\* A mutation outside revocation keeps the types.
LEMMA MutationType ==
  ASSUME TypeOK, LedgerAssumption, WorksOnGrant, NEW p \in Procs, Mutate(p)
  PROVE  TypeOK'
<1> USE TypeParts, PointsType DEF WorksOnGrant
<1>1. ASSUME NEW g \in Grants, StartObserve(p, g) PROVE TypeOK'
  <2>1. authEpoch \in Nat
    BY LedgerAssumption DEF HostTypeOK, LedgerAssumption
  <2>2. ProcTypeOK'
    BY <1>1, <2>1, EnterType DEF StartObserve
  <2>3. FileTypeOK' /\ HostTypeOK'
    BY <1>1 DEF StartObserve, FileTypeOK, HostTypeOK, fileVars, tenantVars
  <2>4. QED
    BY <2>2, <2>3
<1>2. ASSUME NEW g \in Grants, MarkRevalidationDue(p, g) PROVE TypeOK'
  <2>1. ProcTypeOK'
    BY <1>2, EnterType DEF MarkRevalidationDue
  <2>2. grant' \in [Grants -> GrantRecord]
    BY <1>2, StatusOnly DEF MarkRevalidationDue, FileTypeOK, GrantStates
  <2>3. FileTypeOK' /\ HostTypeOK'
    BY <1>2, <2>2 DEF MarkRevalidationDue, FileTypeOK, HostTypeOK, tenantVars,
                      UNCHANGEDRevocation
  <2>4. QED
    BY <2>1, <2>3
<1>3. ASSUME NEW g \in Grants, Revoke(p, g) PROVE TypeOK'
  <2>1. grant[g].epoch \in Nat
    BY DEF FileTypeOK, GrantRecord
  <2>2. ProcTypeOK'
    BY <1>3, <2>1, EnterType DEF Revoke, Completion
  <2>3. FileTypeOK' /\ HostTypeOK'
    BY <1>3, <2>1 DEF Revoke, FileTypeOK, HostTypeOK, tenantVars
  <2>4. QED
    BY <2>2, <2>3
<1>4. ASSUME NEW g \in Grants, NEW purpose \in {"promote", "refresh"},
             StartPromote(p, g, purpose)
      PROVE  TypeOK'
  <2>1. authEpoch \in Nat
    BY LedgerAssumption DEF HostTypeOK, LedgerAssumption
  <2>2. PICK r \in (clock + 1)..(clock + LeaseTTL) :
          Enter(p, g, purpose, authEpoch, 0, r)
    BY <1>4 DEF StartPromote
  <2>3. r \in Nat
    BY LedgerAssumption DEF HostTypeOK, LedgerAssumption
  <2>4. ProcTypeOK'
    BY <2>1, <2>2, <2>3, EnterType
  <2>5. FileTypeOK' /\ HostTypeOK'
    BY <1>4 DEF StartPromote, FileTypeOK, HostTypeOK, fileVars, tenantVars
  <2>6. QED
    BY <2>4, <2>5
<1>5. CASE Observe(p)
  <2>1. PICK obs \in {"discovered", "granted"}, changed \in BOOLEAN :
          ObserveWrite(p, obs, changed) \/ ObserveNothing(p, obs, changed)
    BY <1>5 DEF Observe
  <2>2. CASE ObserveWrite(p, obs, changed)
    <3> DEFINE g == on[p]
               rec == [status |-> ObservedStatus(grant[g].status, obs),
                       epoch |-> seen[p], lease |-> grant[g].lease]
    <3>1. g \in Grants
      BY <2>2 DEF ObserveWrite
    <3>2. rec \in GrantRecord
      BY <3>1 DEF GrantRecord, GrantStates, ObservedStatus, FileTypeOK,
                  ProcTypeOK
    <3>3. WriteGrant(p, g, rec)
      BY <2>2 DEF ObserveWrite
    <3>4. ProcTypeOK' /\ grant' \in [Grants -> GrantRecord]
      BY <3>1, <3>2, <3>3, WriteGrantType
    <3>5. FileTypeOK' /\ HostTypeOK'
      BY <2>2, <3>4 DEF ObserveWrite, FileTypeOK, HostTypeOK, tenantVars,
                        UNCHANGEDRevocation
    <3>6. QED
      BY <3>4, <3>5
  <2>3. CASE ObserveNothing(p, obs, changed)
    <3>1. ProcTypeOK'
      BY <2>3, ReturnType DEF ObserveNothing
    <3>2. FileTypeOK' /\ HostTypeOK'
      BY <2>3 DEF ObserveNothing, FileTypeOK, HostTypeOK, fileVars, tenantVars
    <3>3. QED
      BY <3>1, <3>2
  <2>4. QED
    BY <2>1, <2>2, <2>3
<1>6. CASE PromoteWrite(p)
  <2> DEFINE g == on[p]
             rec == [status |-> "active", epoch |-> seen[p],
                     lease |-> MinOf(clock + LeaseTTL, stamp[p])]
  <2>1. g \in Grants
    BY <1>6 DEF PromoteWrite
  <2>2. rec \in GrantRecord
    BY LedgerAssumption DEF GrantRecord, GrantStates, MinOf, ProcTypeOK,
                            HostTypeOK, LedgerAssumption
  <2>3. WriteGrant(p, g, rec)
    BY <1>6 DEF PromoteWrite
  <2>4. ProcTypeOK' /\ grant' \in [Grants -> GrantRecord]
    BY <2>1, <2>2, <2>3, WriteGrantType
  <2>5. FileTypeOK' /\ HostTypeOK'
    BY <1>6, <2>4 DEF PromoteWrite, FileTypeOK, HostTypeOK, tenantVars,
                      UNCHANGEDRevocation
  <2>6. QED
    BY <2>4, <2>5
<1>7. CASE PromoteRefused(p)
  <2>1. ProcTypeOK'
    BY <1>7, ReturnType DEF PromoteRefused
  <2>2. FileTypeOK' /\ HostTypeOK'
    BY <1>7 DEF PromoteRefused, FileTypeOK, HostTypeOK, fileVars, tenantVars
  <2>3. QED
    BY <2>1, <2>2
<1>8. CASE AppendEvent(p)
  <2>1. ProcTypeOK'
    BY <1>8, ReturnType DEF AppendEvent
  <2>2. grant[on[p]].status \in GrantStates \cup {Absent}
    BY <1>8 DEF AppendEvent, FileTypeOK, GrantRecord
  <2>3. FileTypeOK' /\ HostTypeOK'
    BY <1>8, <2>2 DEF AppendEvent, FileTypeOK, HostTypeOK, tenantVars,
                      UNCHANGEDRevocation
  <2>4. QED
    BY <2>1, <2>3
<1>9. QED
  BY <1>1, <1>2, <1>3, <1>4, <1>5, <1>6, <1>7, <1>8 DEF Mutate

\* A step of recover() before the transaction is resumed keeps the types.
LEMMA RecoverType ==
  ASSUME TypeOK, NEW p \in Procs, Recover(p)
  PROVE  TypeOK'
<1> USE TypeParts, PointsType
<1>1. ASSUME NEW g \in Grants, RecoverCommitted(p, g) PROVE TypeOK'
  BY <1>1 DEF RecoverCommitted, procVars, tenantVars, ProcTypeOK, FileTypeOK,
              HostTypeOK
<1>2. ASSUME NEW g \in Grants, RecoverRead(p, g) PROVE TypeOK'
  <2>1. ProcTypeOK'
    BY <1>2, EnterType DEF RecoverRead, FileTypeOK
  <2>2. FileTypeOK' /\ HostTypeOK'
    BY <1>2 DEF RecoverRead, FileTypeOK, HostTypeOK, fileVars, tenantVars
  <2>3. QED
    BY <2>1, <2>2
<1>3. CASE RecoverLock(p)
  <2>1. ProcTypeOK'
    BY <1>3, GotoType DEF RecoverLock, Completion
  <2>2. FileTypeOK' /\ HostTypeOK'
    BY <1>3 DEF RecoverLock, FileTypeOK, HostTypeOK, fileVars, tenantVars
  <2>3. QED
    BY <2>1, <2>2
<1>4. QED
  BY <1>1, <1>2, <1>3 DEF Recover

\* The rest of the host keeps the types.
LEMMA HostType ==
  ASSUME TypeOK, LedgerAssumption, Host
  PROVE  TypeOK'
<1> USE TypeParts DEF ProcTypeOK, FileTypeOK, HostTypeOK, procVars, fileVars,
        tenantVars
<1>1. CASE BumpTenantAuthEpoch
  BY <1>1 DEF BumpTenantAuthEpoch, LedgerAssumption
<1>2. CASE SetTenantStatus
  BY <1>2 DEF SetTenantStatus, AllowedTransitions, TenantStates
<1>3. CASE Tick
  BY <1>3 DEF Tick
<1>4. QED
  BY <1>1, <1>2, <1>3 DEF Host

\* So does a consumer that acknowledges.
LEMMA AckType ==
  ASSUME TypeOK, NEW g \in Grants, NEW c \in Consumers, AckCleanupTask(g, c)
  PROVE  TypeOK'
<1>1. outbox[g] \in OutboxRecord
  BY DEF TypeOK
<1>2. outbox' \in [Grants -> OutboxRecord]
  BY <1>1 DEF AckCleanupTask, TypeOK, NoOutbox, OutboxRecord
<1>3. QED
  BY <1>2 DEF AckCleanupTask, TypeOK, tenantVars, procVars

\* So does the death of a process.
LEMMA CrashType ==
  ASSUME TypeOK, NEW p \in Procs, Crash(p)
  PROVE  TypeOK'
<1>1. ProcTypeOK'
  BY TypeParts, ReturnType DEF Crash
<1>2. FileTypeOK' /\ HostTypeOK'
  BY TypeParts DEF Crash, FileTypeOK, HostTypeOK, fileVars, tenantVars
<1>3. QED
  BY <1>1, <1>2, TypeParts

\* Every step of the ledger keeps the types.
LEMMA NextType ==
  ASSUME TypeOK, LedgerAssumption, WorksOnGrant, [Next]_vars
  PROVE  TypeOK'
<1>1. CASE UNCHANGED vars
  BY <1>1 DEF TypeOK, vars, tenantVars, fileVars, procVars
<1>2. CASE Next
  BY <1>2, ProcsType, MutationType, RecoverType, CompletionType, CrashType,
     HostType, AckType DEF Next, LedgerStep
<1>3. QED
  BY <1>1, <1>2

-----------------------------------------------------------------------------
(* The inductive invariant.  A step of p must advance the files (Advance), *)
(* keep what they say of every grant, and leave p with what it may rely on *)
(* at its next point; the other processes then keep theirs (OthersKeep).   *)

\* What no step takes back: epochs grow, what is revoked stays revoked,
\* tombstones and receipts stay as they are.
Advance ==
  /\ authEpoch <= authEpoch'
  /\ \A g \in Grants :
       /\ Begun(g) => Begun(g)'
       /\ grant[g].status = "revoked" => grant'[g].status = "revoked"
       /\ TombstoneExists(g) => tombstone'[g] = tombstone[g]
       /\ HasReceipt(g) => receipt'[g] = receipt[g]

Stays(q) == /\ pc'[q] = pc[q] /\ on'[q] = on[q]
            /\ seen'[q] = seen[q] /\ before'[q] = before[q]

StepOf(p) ==
  /\ Advance
  /\ \A g \in Grants : GrantInv(g)'
  /\ ProcInv(p)'
  /\ \A q \in Procs \ {p} : Stays(q)

\* A process that does not move keeps what it may rely on.
LEMMA OthersKeep ==
  ASSUME TypeOK, TypeOK', Advance, NEW q \in Procs, ProcInv(q), Stays(q)
  PROVE  ProcInv(q)'
<1>1. /\ before[q] \in Nat /\ seen[q] \in Nat
      /\ authEpoch \in Nat /\ authEpoch' \in Nat
  BY DEF TypeOK
<1>2. CASE pc[q] = "idle"
  BY <1>1, <1>2 DEF ProcInv, Advance, Stays, Completion, AfterReread
<1>3. CASE pc[q] # "idle"
  <2>1. on[q] \in Grants
    BY <1>3 DEF ProcInv
  <2>2. pc[q] = "unlink" => receipt'[on[q]] # NoReceipt
    BY <2>1 DEF ProcInv, Advance, HasReceipt
  <2>3. pc[q] \in AfterReread \ {"tombstone"} => tombstone'[on[q]] = seen[q]
    BY <1>1, <2>1 DEF ProcInv, Advance, TombstoneExists, AfterReread
  <2>4. pc[q] \in Completion \cup {"wait"} => txns'[on[q]] > 0
    BY <2>1 DEF ProcInv, Advance, Begun
  <2>5. pc[q] \in Completion \ {"mark"} => grant'[on[q]].status = "revoked"
    BY <2>1 DEF ProcInv, Advance
  <2>6. pc[q] = "reread" => before[q] < authEpoch'
    BY <1>1 DEF ProcInv, Advance
  <2>7. QED
    BY <1>1, <2>1, <2>2, <2>3, <2>4, <2>5, <2>6
       DEF ProcInv, Advance, Stays, Begun, HasReceipt
<1>4. QED
  BY <1>2, <1>3

\* A step of one process that advances the files keeps the invariant.
LEMMA StepKeeps ==
  ASSUME IInv, TypeOK', NEW p \in Procs, StepOf(p)
  PROVE  IInv'
<1>1. \A q \in Procs : ProcInv(q)'
  BY OthersKeep DEF IInv, StepOf
<1>2. QED
  BY <1>1 DEF IInv, StepOf

\* A step that leaves these files alone advances them and keeps GrantInv.
LEMMA FilesAlone ==
  ASSUME IInv, TypeOK',
         UNCHANGED <<authEpoch, grant, intent, tombstone, receipt, txns>>
  PROVE  Advance /\ \A g \in Grants : GrantInv(g)'
BY DEF IInv, TypeOK, Advance, GrantInv, Begun, Closed, IntentExistsFor,
       TombstoneExists, HasReceipt

\* A process that returns relies on nothing.
LEMMA ReturnKeeps ==
  ASSUME IInv, TypeOK', NEW p \in Procs, Return(p),
         UNCHANGED <<authEpoch, grant, intent, tombstone, receipt, txns>>
  PROVE  StepOf(p)
<1>1. ProcInv(p)'
  BY DEF IInv, TypeOK, Return, ProcInv, Completion, AfterReread
<1>2. QED
  BY <1>1, FilesAlone DEF StepOf, Return, Stays, IInv, TypeOK

\* A grant that is not closed has no transaction.
LEMMA OpenNotBegun ==
  ASSUME IInv, NEW g \in Grants, ~Closed(g)
  PROVE  ~Begun(g)
BY DEF IInv, TypeOK, GrantInv, Closed, TombstoneExists, HasReceipt,
       ReceiptRecord

\* Writing a record into a grant that has no transaction, with an epoch that
\* is not ahead of the tenant's, keeps the files in order.
LEMMA OpenWrite ==
  ASSUME IInv, TypeOK', NEW g \in Grants, ~Begun(g), NEW rec \in GrantRecord,
         rec.status \notin {Absent, "revoked"}, rec.epoch \in 1..authEpoch,
         grant' = [grant EXCEPT ![g] = rec],
         UNCHANGED <<authEpoch, intent, tombstone, receipt, txns>>
  PROVE  Advance /\ \A h \in Grants : GrantInv(h)'
<1>1. grant'[g] = rec /\ \A h \in Grants \ {g} : grant'[h] = grant[h]
  BY DEF IInv, TypeOK
<1>2. Advance
  BY <1>1 DEF IInv, TypeOK, Advance, GrantInv, Begun, HasReceipt,
              TombstoneExists
<1>3. ASSUME NEW h \in Grants PROVE GrantInv(h)'
  <2>1. GrantInv(h)
    BY DEF IInv
  <2>2. CASE h = g
    BY <1>1, <2>1, <2>2 DEF IInv, TypeOK, GrantInv, Begun, Closed,
       HasReceipt, TombstoneExists, IntentExistsFor
  <2>3. CASE h # g
    BY <1>1, <2>1, <2>3 DEF GrantInv, Begun, Closed, HasReceipt,
       TombstoneExists, IntentExistsFor
  <2>4. QED
    BY <2>2, <2>3
<1>4. QED
  BY <1>2, <1>3

\* A process that moves to a point where it may rely on no more than before.
LEMMA GotoKeeps ==
  ASSUME IInv, TypeOK', NEW p \in Procs, NEW l \in Points, Goto(p, l),
         UNCHANGED <<on, seen, before>>, Advance, ProcInv(p)',
         \A g \in Grants : GrantInv(g)'
  PROVE  StepOf(p)
BY DEF IInv, TypeOK, Goto, StepOf, Stays

\* A step of _complete_revocation is a step of its process.
LEMMA CompletionStep ==
  ASSUME IInv, TypeOK', NEW p \in Procs, CompleteRevocation(p)
  PROVE  StepOf(p)
<1> DEFINE g == on[p]
<1> USE PointsType
<1>0. /\ pc \in [Procs -> Points] /\ on \in [Procs -> Grants \cup {NoKey}]
      /\ seen[p] \in Nat /\ before[p] \in Nat /\ authEpoch \in Nat
      /\ authEpoch' \in Nat /\ ProcInv(p)
  BY DEF IInv, TypeOK
<1>1. CASE MarkRevoked(p)
  <2>1. g \in Grants /\ Begun(g) /\ GrantInv(g)
    BY <1>0, <1>1 DEF MarkRevoked, ProcInv, IInv, Completion
  <2>2. UNCHANGED <<authEpoch, intent, tombstone, receipt, txns, on, seen,
                    before>>
    BY <1>1 DEF MarkRevoked, UNCHANGEDRevocation, tenantVars
  <2>3. PICK l \in {"get_tenant", "append_revoked"} : Goto(p, l)
    BY <1>1 DEF MarkRevoked
  <2>4. /\ grant'[g].status = "revoked" /\ grant'[g].epoch = grant[g].epoch
        /\ \A h \in Grants \ {g} : grant'[h] = grant[h]
    <3>1. CASE grant[g].status = "revoked" /\ UNCHANGED grant
      BY <3>1
    <3>2. CASE grant' = [grant EXCEPT ![g].status = "revoked"]
      BY <3>2, <2>1, StatusOnly DEF IInv, TypeOK, GrantStates
    <3>3. QED
      BY <1>1, <3>1, <3>2 DEF MarkRevoked
  <2>5. Advance
    BY <1>0, <2>2, <2>4 DEF Advance, Begun, TombstoneExists, HasReceipt
  <2>6. ASSUME NEW h \in Grants PROVE GrantInv(h)'
    <3>1. GrantInv(h)
      BY DEF IInv
    <3>2. CASE h = g
      BY <2>1, <2>2, <2>4, <3>1, <3>2 DEF GrantInv, Begun, Closed, HasReceipt,
         TombstoneExists, IntentExistsFor, Absent
    <3>3. CASE h # g
      BY <2>2, <2>4, <3>1, <3>3 DEF GrantInv, Begun, Closed, HasReceipt,
         TombstoneExists, IntentExistsFor
    <3>4. QED
      BY <3>2, <3>3
  <2>7. pc'[p] \in {"get_tenant", "append_revoked"}
    BY <1>0, <2>3 DEF Goto
  <2>8. ProcInv(p)'
    BY <1>0, <2>1, <2>2, <2>4, <2>7 DEF ProcInv, AfterReread, Begun, Completion
  <2>9. QED
    BY <2>2, <2>3, <2>5, <2>6, <2>8, GotoKeeps DEF Completion
<1>2. CASE AppendRevoked(p) \/ GetTenant(p)
  <2>1. PICK l \in {"get_tenant", "bump", "reread"} :
          Goto(p, l) /\ (l = "reread" => authEpoch # before[p])
    BY <1>2 DEF AppendRevoked, GetTenant
  <2>2. UNCHANGED <<authEpoch, grant, intent, tombstone, receipt, txns, on,
                    seen, before>>
    BY <1>2 DEF AppendRevoked, GetTenant, UNCHANGEDRevocation, tenantVars,
                fileVars
  <2>3. pc'[p] = l /\ pc[p] \in {"append_revoked", "get_tenant"}
    BY <1>0, <1>2, <2>1 DEF Goto, AppendRevoked, GetTenant
  <2>4. ProcInv(p)'
    BY <1>0, <2>1, <2>2, <2>3
       DEF ProcInv, AfterReread, Begun, Completion, HasReceipt
  <2>5. QED
    BY <2>1, <2>2, <2>4, FilesAlone, GotoKeeps DEF Completion
<1>3. CASE BumpAuthEpoch(p)
  <2>1. /\ authEpoch' = authEpoch + 1 /\ before[p] < authEpoch'
        /\ Goto(p, "reread") /\ pc[p] = "bump"
        /\ UNCHANGED <<grant, intent, tombstone, receipt, txns, on, seen,
                       before>>
    BY <1>0, <1>3 DEF BumpAuthEpoch, fileVars
  <2>2. Advance /\ \A h \in Grants : GrantInv(h)'
    BY <1>0, <2>1 DEF IInv, TypeOK, GrantRecord, Advance, GrantInv, Begun,
       Closed, IntentExistsFor, TombstoneExists, HasReceipt
  <2>3. pc'[p] = "reread"
    BY <1>0, <2>1 DEF Goto
  <2>4. ProcInv(p)'
    BY <1>0, <2>1, <2>3 DEF ProcInv, AfterReread, Begun, Completion, HasReceipt
  <2>5. QED
    BY <2>1, <2>2, <2>4, GotoKeeps DEF Completion
<1>4. CASE BumpRefused(p) \/ TombstoneDrift(p) \/ ReceiptDrift(p)
  BY <1>4, ReturnKeeps DEF BumpRefused, TombstoneDrift, ReceiptDrift, fileVars,
                           tenantVars
<1>5. CASE ReadEpochAfter(p)
  <2>1. /\ Goto(p, "tombstone") /\ pc[p] = "reread"
        /\ seen' = [seen EXCEPT ![p] = authEpoch]
        /\ UNCHANGED <<authEpoch, grant, intent, tombstone, receipt, txns, on,
                       before>>
    BY <1>5 DEF ReadEpochAfter, fileVars, tenantVars
  <2>2. pc'[p] = "tombstone" /\ seen'[p] = authEpoch
    BY <1>0, <2>1 DEF Goto, IInv, TypeOK
  <2>3. ProcInv(p)'
    BY <1>0, <2>1, <2>2 DEF ProcInv, AfterReread, Begun, Completion, HasReceipt
  <2>4. QED
    BY <1>0, <2>1, <2>3, FilesAlone DEF StepOf, Stays, Goto, IInv, TypeOK
<1>6. CASE WriteTombstone(p)
  <2>1. /\ g \in Grants /\ Begun(g) /\ GrantInv(g)
        /\ grant[g].status = "revoked" /\ before[p] < seen[p]
        /\ seen[p] <= authEpoch
    BY <1>0, <1>6 DEF WriteTombstone, ProcInv, IInv, Completion, AfterReread
  <2>2. /\ Goto(p, "outbox") /\ tombstone[g] \in {0, seen[p]}
        /\ UNCHANGED <<authEpoch, grant, intent, receipt, txns, on, seen,
                       before>>
    BY <1>6 DEF WriteTombstone, tenantVars
  <2>3. /\ tombstone'[g] = seen[p]
        /\ \A h \in Grants \ {g} : tombstone'[h] = tombstone[h]
    BY <1>6, <2>1 DEF WriteTombstone, IInv, TypeOK
  <2>4. Advance
    BY <1>0, <2>2, <2>3 DEF Advance, Begun, TombstoneExists, HasReceipt
  <2>5. ASSUME NEW h \in Grants PROVE GrantInv(h)'
    <3>1. GrantInv(h)
      BY DEF IInv
    <3>2. CASE h = g
      <4>1. HasReceipt(g) => tombstone[g] = seen[p]
        BY <1>0, <2>1, <2>2 DEF GrantInv, IInv, TypeOK, ReceiptRecord
      <4>2. QED
        BY <1>0, <2>1, <2>2, <2>3, <3>1, <3>2, <4>1 DEF GrantInv, Begun, Closed,
           HasReceipt, TombstoneExists, IntentExistsFor
    <3>3. CASE h # g
      BY <2>2, <2>3, <3>1, <3>3 DEF GrantInv, Begun, Closed, HasReceipt,
         TombstoneExists, IntentExistsFor
    <3>4. QED
      BY <3>2, <3>3
  <2>6. pc'[p] = "outbox"
    BY <1>0, <2>2 DEF Goto
  <2>7. ProcInv(p)'
    BY <1>0, <2>1, <2>2, <2>3, <2>6
       DEF ProcInv, AfterReread, Begun, Completion
  <2>8. QED
    BY <2>2, <2>4, <2>5, <2>7, GotoKeeps DEF Completion
<1>7. CASE WriteOutbox(p)
  <2>1. /\ Goto(p, "receipt") /\ pc[p] = "outbox"
        /\ UNCHANGED <<authEpoch, grant, intent, tombstone, receipt, txns, on,
                       seen, before>>
    BY <1>7 DEF WriteOutbox, tenantVars
  <2>2. pc'[p] = "receipt"
    BY <1>0, <2>1 DEF Goto
  <2>3. ProcInv(p)'
    BY <1>0, <2>1, <2>2 DEF ProcInv, AfterReread, Begun, Completion, HasReceipt
  <2>4. QED
    BY <2>1, <2>3, FilesAlone, GotoKeeps DEF Completion
<1>8. CASE WriteReceipt(p)
  <2>1. /\ g \in Grants /\ Begun(g) /\ GrantInv(g)
        /\ grant[g].status = "revoked" /\ before[p] < seen[p]
        /\ tombstone[g] = seen[p]
    BY <1>0, <1>8 DEF WriteReceipt, ProcInv, IInv, Completion, AfterReread
  <2>2. /\ Goto(p, "unlink") /\ receipt[g] \in {NoReceipt, BuiltReceipt(p)}
        /\ UNCHANGED <<authEpoch, grant, intent, tombstone, txns, on, seen,
                       before>>
    BY <1>8 DEF WriteReceipt, tenantVars
  <2>3. /\ receipt'[g] = BuiltReceipt(p)
        /\ \A h \in Grants \ {g} : receipt'[h] = receipt[h]
    BY <1>8, <2>1 DEF WriteReceipt, IInv, TypeOK
  <2>4. /\ BuiltReceipt(p).before = before[p]
        /\ BuiltReceipt(p).after = seen[p] /\ BuiltReceipt(p) # NoReceipt
    <3>1. /\ BuiltReceipt(p).before = before[p]
          /\ BuiltReceipt(p).after = seen[p]
      BY DEF BuiltReceipt
    <3>2. NoReceipt.after = 0
      BY DEF NoReceipt
    <3>3. QED
      BY <1>0, <2>1, <3>1, <3>2
  <2>5. Advance
    BY <1>0, <2>2, <2>3 DEF Advance, Begun, TombstoneExists, HasReceipt
  <2>6. ASSUME NEW h \in Grants PROVE GrantInv(h)'
    <3>1. GrantInv(h)
      BY DEF IInv
    <3>2. CASE h = g
      BY <2>1, <2>2, <2>3, <2>4, <3>1, <3>2 DEF GrantInv, Begun, Closed,
         HasReceipt, TombstoneExists, IntentExistsFor
    <3>3. CASE h # g
      BY <2>2, <2>3, <3>1, <3>3 DEF GrantInv, Begun, Closed, HasReceipt,
         TombstoneExists, IntentExistsFor
    <3>4. QED
      BY <3>2, <3>3
  <2>7. pc'[p] = "unlink"
    BY <1>0, <2>2 DEF Goto
  <2>8. ProcInv(p)'
    BY <1>0, <2>1, <2>2, <2>3, <2>4, <2>7
       DEF ProcInv, AfterReread, Begun, Completion, HasReceipt
  <2>9. QED
    BY <2>2, <2>5, <2>6, <2>8, GotoKeeps DEF Completion
<1>9. CASE UnlinkIntent(p)
  <2>1. /\ g \in Grants /\ HasReceipt(g)
    BY <1>0, <1>9 DEF UnlinkIntent, ProcInv, Completion
  <2>2. /\ Return(p) /\ intent' = [intent EXCEPT ![g] = 0]
        /\ UNCHANGED <<authEpoch, grant, tombstone, receipt, txns>>
    BY <1>9 DEF UnlinkIntent, tenantVars
  <2>3. Advance /\ \A h \in Grants : GrantInv(h)'
    BY <1>0, <2>1, <2>2 DEF IInv, TypeOK, Advance, GrantInv, Begun, Closed,
       IntentExistsFor, TombstoneExists, HasReceipt
  <2>4. ProcInv(p)'
    BY <2>2 DEF IInv, TypeOK, Return, ProcInv, Completion, AfterReread
  <2>5. QED
    BY <2>2, <2>3, <2>4 DEF StepOf, Return, Stays, IInv, TypeOK
<1>10. QED
  BY <1>1, <1>2, <1>3, <1>4, <1>5, <1>6, <1>7, <1>8, <1>9
     DEF CompleteRevocation

\* Taking up a grant without touching a file is a step of its process.
LEMMA EnterKeeps ==
  ASSUME IInv, TypeOK', NEW p \in Procs, NEW g \in Grants,
         NEW l \in {"observe", "promote", "refresh", "wait"},
         NEW e \in 0..authEpoch, NEW b \in 0..authEpoch, NEW s,
         Enter(p, g, l, e, b, s),
         l = "wait" => Begun(g), l # "wait" => e > 0,
         UNCHANGED <<authEpoch, grant, intent, tombstone, receipt, txns>>
  PROVE  StepOf(p)
<1>1. pc'[p] = l /\ on'[p] = g /\ seen'[p] = e /\ before'[p] = b
  BY DEF Enter, IInv, TypeOK
<1>2. ProcInv(p)'
  BY <1>1 DEF ProcInv, Completion, AfterReread, Begun, IInv, TypeOK
<1>3. QED
  BY <1>2, FilesAlone DEF StepOf, Stays, Enter, IInv, TypeOK

\* A write of a grant record by observe, promote or refresh is too.
LEMMA WriteKeeps ==
  ASSUME IInv, TypeOK', NEW p \in Procs, NEW g \in Grants, on[p] = g,
         ~Closed(g), NEW rec \in GrantRecord, rec.epoch = seen[p], seen[p] > 0,
         rec.status \notin {Absent, "revoked"}, WriteGrant(p, g, rec),
         UNCHANGED <<authEpoch, intent, tombstone, receipt, txns>>
  PROVE  StepOf(p)
<1>1. /\ ProcInv(p) /\ seen[p] \in Nat /\ before[p] \in Nat /\ authEpoch \in Nat
      /\ pc'[p] = "append"
  BY DEF IInv, TypeOK, WriteGrant, Goto
<1>2. rec.epoch \in 1..authEpoch
  BY <1>1 DEF ProcInv
<1>3. Advance /\ \A h \in Grants : GrantInv(h)'
  BY <1>2, OpenNotBegun, OpenWrite DEF WriteGrant
<1>4. ProcInv(p)'
  BY <1>1 DEF ProcInv, WriteGrant, Completion, AfterReread
<1>5. QED
  BY <1>3, <1>4, GotoKeeps, PointsType DEF WriteGrant

\* A mutation outside revocation, or the call that begins one, is a step of
\* its process.
LEMMA MutationStep ==
  ASSUME IInv, TypeOK', LedgerAssumption, NEW p \in Procs, Mutate(p)
  PROVE  StepOf(p)
<1>0. /\ pc \in [Procs -> Points] /\ on \in [Procs -> Grants \cup {NoKey}]
      /\ seen[p] \in Nat /\ before[p] \in Nat /\ authEpoch \in Nat \ {0}
      /\ grant \in [Grants -> GrantRecord] /\ ProcInv(p)
  BY LedgerAssumption DEF IInv, TypeOK, LedgerAssumption
<1>1. ASSUME NEW g \in Grants, StartObserve(p, g) PROVE StepOf(p)
  BY <1>0, <1>1, EnterKeeps DEF StartObserve, tenantVars, fileVars
<1>2. ASSUME NEW g \in Grants, NEW purpose \in {"promote", "refresh"},
             StartPromote(p, g, purpose)
      PROVE  StepOf(p)
  <2>1. PICK r : Enter(p, g, purpose, authEpoch, 0, r)
    BY <1>2 DEF StartPromote
  <2>2. QED
    BY <1>0, <1>2, <2>1, EnterKeeps DEF StartPromote, tenantVars, fileVars
<1>3. ASSUME NEW g \in Grants, MarkRevalidationDue(p, g) PROVE StepOf(p)
  <2> DEFINE rec == [status |-> "revalidation_due", epoch |-> grant[g].epoch,
                     lease |-> grant[g].lease]
  <2>1. grant' = [grant EXCEPT ![g] = rec]
    BY <1>0, <1>3, StatusOnly DEF MarkRevalidationDue, GrantStates
  <2>2. rec \in GrantRecord /\ rec.epoch \in 1..authEpoch
    BY <1>0, <1>3 DEF MarkRevalidationDue, GrantRecord, GrantStates, GrantInv,
                      IInv, Absent
  <2>3. ~Begun(g)
    BY <1>3, OpenNotBegun DEF MarkRevalidationDue
  <2>4. UNCHANGED <<authEpoch, intent, tombstone, receipt, txns>>
    BY <1>3 DEF MarkRevalidationDue, UNCHANGEDRevocation, tenantVars
  <2>5. rec.status \notin {Absent, "revoked"}
    BY DEF Absent
  <2>6. Advance /\ \A h \in Grants : GrantInv(h)'
    <3> HIDE DEF rec
    <3> QED
      BY <2>1, <2>2, <2>3, <2>4, <2>5, OpenWrite
  <2>7. pc'[p] = "append" /\ on'[p] = g /\ seen'[p] = 0 /\ before'[p] = 0
    BY <1>3 DEF MarkRevalidationDue, Enter, IInv, TypeOK
  <2>8. ProcInv(p)'
    BY <1>0, <2>4, <2>7 DEF ProcInv, Completion, AfterReread
  <2>9. QED
    BY <1>3, <2>6, <2>8 DEF MarkRevalidationDue, StepOf, Stays, Enter, IInv,
                            TypeOK
<1>4. ASSUME NEW g \in Grants, Revoke(p, g) PROVE StepOf(p)
  <2>1. ~Begun(g) /\ GrantInv(g)
    BY <1>4, OpenNotBegun DEF Revoke, IInv
  <2>2. /\ Enter(p, g, "mark", 0, grant[g].epoch, 0)
        /\ UNCHANGED <<authEpoch, grant, tombstone, receipt>>
        /\ grant[g].status \notin {Absent, "revoked"}
    BY <1>4 DEF Revoke, tenantVars
  <2>3. /\ intent'[g] = grant[g].epoch /\ txns'[g] = 1
        /\ \A h \in Grants \ {g} : intent'[h] = intent[h] /\ txns'[h] = txns[h]
    <3>1. txns[g] \in Nat /\ ~(txns[g] > 0)
      BY <2>1 DEF IInv, TypeOK, Begun
    <3>2. QED
      BY <1>4, <3>1 DEF Revoke, IInv, TypeOK
  <2>4. Advance
    BY <2>2, <2>3 DEF Advance, Begun, TombstoneExists, HasReceipt, IInv, TypeOK
  <2>5. ASSUME NEW h \in Grants PROVE GrantInv(h)'
    <3>1. GrantInv(h)
      BY DEF IInv
    <3>2. CASE h = g
      BY <1>0, <2>1, <2>2, <2>3, <3>2 DEF GrantInv, GrantRecord, Begun, Closed,
         HasReceipt, TombstoneExists, IntentExistsFor
    <3>3. CASE h # g
      BY <2>2, <2>3, <3>1, <3>3 DEF GrantInv, Begun, Closed, HasReceipt,
         TombstoneExists, IntentExistsFor
    <3>4. QED
      BY <3>2, <3>3
  <2>6. pc'[p] = "mark" /\ on'[p] = g /\ seen'[p] = 0 /\ before'[p] = grant[g].epoch
    BY <2>2 DEF Enter, IInv, TypeOK
  <2>7. ProcInv(p)'
    BY <1>0, <2>1, <2>2, <2>3, <2>6
       DEF ProcInv, Completion, AfterReread, GrantInv, Begun
  <2>8. QED
    BY <2>2, <2>4, <2>5, <2>7 DEF StepOf, Stays, Enter, IInv, TypeOK
<1>5. CASE Observe(p)
  <2>1. PICK obs \in {"discovered", "granted"}, changed \in BOOLEAN :
          ObserveWrite(p, obs, changed) \/ ObserveNothing(p, obs, changed)
    BY <1>5 DEF Observe
  <2>2. CASE ObserveWrite(p, obs, changed)
    <3> DEFINE g == on[p]
               rec == [status |-> ObservedStatus(grant[g].status, obs),
                       epoch |-> seen[p], lease |-> grant[g].lease]
    <3>1. g \in Grants /\ seen[p] > 0 /\ ~Closed(g)
      BY <1>0, <2>2 DEF ObserveWrite, ProcInv
    <3>2. rec \in GrantRecord /\ rec.status \notin {Absent, "revoked"}
      BY <1>0, <3>1 DEF GrantRecord, GrantStates, ObservedStatus, Absent
    <3>3. /\ WriteGrant(p, g, rec)
          /\ UNCHANGED <<authEpoch, intent, tombstone, receipt, txns>>
      BY <2>2 DEF ObserveWrite, UNCHANGEDRevocation, tenantVars
    <3>4. rec.epoch = seen[p]
      OBVIOUS
    <3>5. QED
      <4> HIDE DEF rec
      <4> QED
        BY <3>1, <3>2, <3>3, <3>4, WriteKeeps
  <2>3. CASE ObserveNothing(p, obs, changed)
    BY <2>3, ReturnKeeps DEF ObserveNothing, tenantVars, fileVars
  <2>4. QED
    BY <2>1, <2>2, <2>3
<1>6. CASE PromoteWrite(p)
  <2> DEFINE g == on[p]
             rec == [status |-> "active", epoch |-> seen[p],
                     lease |-> MinOf(clock + LeaseTTL, stamp[p])]
  <2>1. g \in Grants /\ seen[p] > 0 /\ ~Closed(g)
    BY <1>0, <1>6 DEF PromoteWrite, ProcInv
  <2>2. rec \in GrantRecord /\ rec.status \notin {Absent, "revoked"}
    BY <1>0, LedgerAssumption DEF GrantRecord, GrantStates, MinOf, Absent,
       LedgerAssumption, IInv, TypeOK
  <2>3. /\ WriteGrant(p, g, rec)
        /\ UNCHANGED <<authEpoch, intent, tombstone, receipt, txns>>
    BY <1>6 DEF PromoteWrite, UNCHANGEDRevocation, tenantVars
  <2>4. rec.epoch = seen[p]
    OBVIOUS
  <2>5. QED
    <3> HIDE DEF rec
    <3> QED
      BY <2>1, <2>2, <2>3, <2>4, WriteKeeps
<1>7. CASE PromoteRefused(p)
  BY <1>7, ReturnKeeps DEF PromoteRefused, tenantVars, fileVars
<1>8. CASE AppendEvent(p)
  BY <1>8, ReturnKeeps DEF AppendEvent, UNCHANGEDRevocation, tenantVars
<1>9. QED
  BY <1>1, <1>2, <1>3, <1>4, <1>5, <1>6, <1>7, <1>8 DEF Mutate

\* recover() finds a journal, or resumes its transaction.
LEMMA RecoverStep ==
  ASSUME IInv, TypeOK', LedgerAssumption, NEW p \in Procs, Recover(p)
  PROVE  StepOf(p)
<1>1. ASSUME NEW g \in Grants, RecoverCommitted(p, g) PROVE StepOf(p)
  <2>1. /\ HasReceipt(g) /\ intent' = [intent EXCEPT ![g] = 0]
        /\ UNCHANGED <<authEpoch, grant, tombstone, receipt, txns, pc, on,
                       seen, before>>
    BY <1>1 DEF RecoverCommitted, tenantVars, procVars
  <2>2. Advance /\ \A h \in Grants : GrantInv(h)'
    BY <2>1 DEF IInv, TypeOK, Advance, GrantInv, Begun, Closed,
       IntentExistsFor, TombstoneExists, HasReceipt
  <2>3. ProcInv(p)'
    BY <2>1 DEF IInv, ProcInv, Begun, HasReceipt
  <2>4. QED
    BY <2>1, <2>2, <2>3 DEF StepOf, Stays
<1>2. ASSUME NEW g \in Grants, RecoverRead(p, g) PROVE StepOf(p)
  <2>1. /\ Enter(p, g, "wait", 0, intent[g], 0)
        /\ IntentExistsFor(g) /\ GrantInv(g)
        /\ UNCHANGED <<authEpoch, grant, intent, tombstone, receipt, txns>>
    BY <1>2 DEF RecoverRead, IInv, tenantVars, fileVars
  <2>2. Begun(g) /\ intent[g] \in 0..authEpoch /\ 0 \in 0..authEpoch
    BY <2>1 DEF GrantInv, Closed, IInv, TypeOK
  <2>3. QED
    BY <2>1, <2>2, EnterKeeps
<1>3. CASE RecoverLock(p)
  <2>1. /\ Goto(p, "mark") /\ pc[p] = "wait" /\ ProcInv(p)
        /\ UNCHANGED <<authEpoch, grant, intent, tombstone, receipt, txns, on,
                       seen, before>>
    BY <1>3 DEF RecoverLock, IInv, tenantVars, fileVars
  <2>2. ProcInv(p)'
    BY <2>1 DEF ProcInv, Goto, Completion, AfterReread, Begun, IInv, TypeOK
  <2>3. QED
    BY <2>1, <2>2, FilesAlone, GotoKeeps, PointsType DEF Completion
<1>4. QED
  BY <1>1, <1>2, <1>3 DEF Recover

\* The rest of the host, and a consumer that acknowledges, advance the files.
LEMMA HostStep ==
  ASSUME IInv, TypeOK', Host \/ UNCHANGED vars
           \/ \E g \in Grants, c \in Consumers : AckCleanupTask(g, c)
  PROVE  Advance /\ (\A g \in Grants : GrantInv(g)') /\ \A q \in Procs : Stays(q)
<1>1. CASE BumpTenantAuthEpoch
  <2>1. /\ authEpoch' = authEpoch + 1
        /\ UNCHANGED <<grant, intent, tombstone, receipt, txns, procVars>>
    BY <1>1 DEF BumpTenantAuthEpoch, fileVars
  <2>2. QED
    BY <2>1 DEF IInv, TypeOK, GrantRecord, Advance, GrantInv, Begun, Closed,
       IntentExistsFor, TombstoneExists, HasReceipt, Stays, procVars
<1>2. CASE SetTenantStatus \/ Tick \/ UNCHANGED vars
  BY <1>2, FilesAlone DEF SetTenantStatus, Tick, vars, tenantVars, fileVars,
                          procVars, Stays
<1>3. CASE \E g \in Grants, c \in Consumers : AckCleanupTask(g, c)
  BY <1>3, FilesAlone DEF AckCleanupTask, tenantVars, procVars, Stays
<1>4. QED
  BY <1>1, <1>2, <1>3 DEF Host

\* Every step advances the files and keeps the invariant.
LEMMA InvariantStep ==
  ASSUME IInv, LedgerAssumption, [Next]_vars
  PROVE  IInv' /\ Advance
<1>1. TypeOK'
  BY NextType DEF IInv, ProcInv, WorksOnGrant
<1>2. ASSUME NEW p \in Procs, Mutate(p) \/ Recover(p) \/ CompleteRevocation(p)
      PROVE  IInv' /\ Advance
  BY <1>1, <1>2, MutationStep, RecoverStep, CompletionStep, StepKeeps DEF StepOf
<1>3. ASSUME NEW p \in Procs, Crash(p) PROVE IInv' /\ Advance
  <2>1. StepOf(p)
    BY <1>1, <1>3, ReturnKeeps DEF Crash, tenantVars, fileVars
  <2>2. QED
    BY <1>1, <2>1, StepKeeps DEF StepOf
<1>4. CASE Host \/ UNCHANGED vars
             \/ \E g \in Grants, c \in Consumers : AckCleanupTask(g, c)
  BY <1>1, <1>4, HostStep, OthersKeep DEF IInv
<1>5. QED
  BY <1>2, <1>3, <1>4, ProcsType DEF Next, LedgerStep

\* The invariant holds at the start, when there is no file.
LEMMA InvariantInit == Init /\ LedgerAssumption => IInv
<1> SUFFICES ASSUME Init, LedgerAssumption PROVE IInv
  OBVIOUS
<1>1. TypeOK
  BY InitType
<1>2. ASSUME NEW g \in Grants PROVE GrantInv(g)
  BY DEF Init, GrantInv, NoGrant, Begun, Closed, IntentExistsFor,
         TombstoneExists, HasReceipt, Absent
<1>3. ASSUME NEW p \in Procs PROVE ProcInv(p)
  BY DEF Init, ProcInv, Completion, AfterReread
<1>4. QED
  BY <1>1, <1>2, <1>3 DEF IInv

-----------------------------------------------------------------------------
(* Safety.                                                                 *)

\* The invariant holds in every reachable state.
THEOREM Invariant == Spec => []IInv
<1>1. Init => IInv
  BY InvariantInit, LedgerAssumption
<1>2. IInv /\ [Next]_vars => IInv'
  BY InvariantStep, LedgerAssumption
<1>3. QED
  BY <1>1, <1>2, PTL DEF Spec

\* Files, locals and counters keep their types, whoever crashes when.
THEOREM TypeCorrect == Spec => []TypeOK
<1>1. IInv => TypeOK
  BY DEF IInv
<1>2. QED
  BY <1>1, Invariant, PTL

\* A grant whose revocation has begun has its journal, or its tombstone and a
\* revoked record: no order of crashes and recoveries readmits it.
THEOREM BarredForGood == Spec => []BegunStaysBarred
<1>1. IInv => BegunStaysBarred
  BY DEF IInv, TypeOK, GrantInv, BegunStaysBarred, HasReceipt, ReceiptRecord,
         TombstoneExists
<1>2. QED
  BY <1>1, Invariant, PTL

\* Every receipt is backed by a revoked record and by a tombstone at an epoch
\* the tenant has reached and the revoked grant had not.
THEOREM ReceiptsAreBacked == Spec => []ReceiptIsBacked
<1>1. IInv => ReceiptIsBacked
  BY DEF IInv, TypeOK, GrantInv, ReceiptIsBacked, HasReceipt, ReceiptRecord,
         TombstoneExists
<1>2. QED
  BY <1>1, Invariant, PTL

\* No grant is revoked by two transactions.
THEOREM SingleTransaction == Spec => []OneTransaction
<1>1. IInv => OneTransaction
  BY DEF IInv, GrantInv, OneTransaction
<1>2. QED
  BY <1>1, Invariant, PTL

\* No step rewrites or removes a tombstone or a receipt.
THEOREM NothingRewritten == Spec => Immutable
<1>1. IInv /\ [Next]_vars =>
        [\A g \in Grants :
           /\ TombstoneExists(g) => tombstone'[g] = tombstone[g]
           /\ HasReceipt(g) => receipt'[g] = receipt[g]]_vars
  BY InvariantStep, LedgerAssumption DEF Advance
<1>2. QED
  BY <1>1, Invariant, PTL DEF Spec, Immutable

\* The steps that write a grant record.
Writes(p, g) ==
  \/ on[p] = g /\ \E obs \in {"discovered", "granted"}, changed \in BOOLEAN :
                    ObserveWrite(p, obs, changed)
  \/ on[p] = g /\ PromoteWrite(p)
  \/ on[p] = g /\ MarkRevoked(p)
  \/ MarkRevalidationDue(p, g)

\* A step leaves the grant records alone, or is one of those.
LEMMA GrantWriters ==
  ASSUME IInv, [Next]_vars
  PROVE  \/ UNCHANGED grant
         \/ \E p \in Procs, g \in Grants : Writes(p, g)
<1>1. ASSUME NEW p \in Procs, Mutate(p)
      PROVE  UNCHANGED grant \/ \E g \in Grants : Writes(p, g)
  <2>1. \A obs, changed : ObserveWrite(p, obs, changed) => on[p] \in Grants
    BY DEF ObserveWrite, IInv, ProcInv
  <2>2. PromoteWrite(p) => on[p] \in Grants
    BY DEF PromoteWrite, IInv, ProcInv
  <2>3. QED
    BY <1>1, <2>1, <2>2 DEF Mutate, Writes, StartObserve, Revoke, StartPromote,
       Observe, ObserveNothing, PromoteRefused, AppendEvent, fileVars
<1>2. ASSUME NEW p \in Procs, CompleteRevocation(p)
      PROVE  UNCHANGED grant \/ \E g \in Grants : Writes(p, g)
  <2>1. MarkRevoked(p) => on[p] \in Grants
    BY DEF MarkRevoked, IInv, ProcInv
  <2>2. QED
    BY <1>2, <2>1 DEF CompleteRevocation, Writes, AppendRevoked, GetTenant,
       BumpAuthEpoch, BumpRefused, ReadEpochAfter, WriteTombstone,
       TombstoneDrift, WriteOutbox, WriteReceipt, ReceiptDrift, UnlinkIntent,
       fileVars
<1>3. ASSUME NEW p \in Procs, Recover(p) \/ Crash(p) PROVE UNCHANGED grant
  BY <1>3 DEF Recover, RecoverCommitted, RecoverRead, RecoverLock, Crash,
              fileVars
<1>4. CASE Host \/ UNCHANGED vars
             \/ \E g \in Grants, c \in Consumers : AckCleanupTask(g, c)
  BY <1>4 DEF Host, BumpTenantAuthEpoch, SetTenantStatus, Tick, AckCleanupTask,
              vars, fileVars
<1>5. QED
  BY <1>1, <1>2, <1>3, <1>4, ProcsType DEF Next, LedgerStep

\* The status of a grant moves only along the transitions of the code's table.
THEOREM TransitionsAreLegal == Spec => LegalTransitions
<1>1. ASSUME IInv, [Next]_vars, NEW h \in Grants,
             grant'[h].status # grant[h].status
      PROVE  grant'[h].status \in GrantTransitions(grant[h].status)
  <2>0. /\ grant \in [Grants -> GrantRecord] /\ GrantInv(h)
        /\ grant[h].status \in GrantStates \cup {Absent}
    BY <1>1 DEF IInv, TypeOK, GrantRecord
  <2>1. PICK p \in Procs, g \in Grants : Writes(p, g)
    <3>1. ~(UNCHANGED grant)
      BY <1>1
    <3>2. QED
      BY <1>1, <3>1, GrantWriters
  <2>2. CASE on[p] = g /\ \E obs \in {"discovered", "granted"},
                             changed \in BOOLEAN : ObserveWrite(p, obs, changed)
    <3>1. PICK obs \in {"discovered", "granted"}, changed \in BOOLEAN :
            ObserveWrite(p, obs, changed)
      BY <2>2
    <3>2. /\ g = h /\ grant[h].status # "revoked"
          /\ grant'[h].status = ObservedStatus(grant[h].status, obs)
      BY <1>1, <2>0, <2>2, <3>1 DEF ObserveWrite, WriteGrant
    <3>3. QED
      BY <1>1, <2>0, <3>2 DEF ObservedStatus, GrantTransitions, Absent,
                              GrantStates
  <2>3. CASE on[p] = g /\ PromoteWrite(p)
    <3>1. /\ g = h /\ grant'[h].status = "active"
          /\ grant[h].status \in {"granted", "active", "revalidation_due"}
      BY <1>1, <2>0, <2>3 DEF PromoteWrite, WriteGrant, AllowedCurrent
    <3>2. QED
      BY <1>1, <3>1 DEF GrantTransitions, Absent
  <2>4. CASE on[p] = g /\ MarkRevoked(p)
    <3>1. Begun(g) /\ grant[g].status # Absent
      BY <1>1, <2>4 DEF MarkRevoked, IInv, ProcInv, GrantInv, Completion
    <3>2. grant' = [grant EXCEPT ![g].status = "revoked"]
      BY <1>1, <2>4 DEF MarkRevoked
    <3>3. g = h /\ grant'[h].status = "revoked"
      BY <1>1, <2>0, <3>2, StatusOnly DEF GrantStates
    <3>4. QED
      BY <1>1, <2>0, <3>1, <3>3 DEF GrantTransitions, GrantStates, Absent
  <2>5. CASE MarkRevalidationDue(p, g)
    <3>1. /\ g = h /\ grant[h].status = "active"
          /\ grant'[h].status = "revalidation_due"
      BY <1>1, <2>0, <2>5, StatusOnly DEF MarkRevalidationDue, GrantStates
    <3>2. QED
      BY <3>1 DEF GrantTransitions, Absent
  <2>6. QED
    BY <2>1, <2>2, <2>3, <2>4, <2>5 DEF Writes
<1>2. IInv /\ [Next]_vars =>
        [\A g \in Grants :
           grant'[g].status # grant[g].status =>
             grant'[g].status \in GrantTransitions(grant[g].status)]_vars
  BY <1>1
<1>3. QED
  BY <1>2, Invariant, PTL DEF Spec, LegalTransitions

-----------------------------------------------------------------------------
(* The ledger implements GrantRevocation: one case per way a step can move *)
(* the phase of a grant and the set of admitted grants.                    *)

\* The host starts with no grant admitted.
LEMMA PromiseInit == Init => Promise!Init
BY DEF Init, Promise!Init, Phase, Admitted, Current, NoGrant, HasReceipt,
       Closed, IntentExistsFor, TombstoneExists, Absent

\* A step that moves no phase and admits no grant is a lapse.
LEMMA Lapses ==
  ASSUME Phase' = Phase, Admitted' \subseteq Admitted
  PROVE  Promise!Next
<1>1. Admitted \ Admitted' \in SUBSET Grants
  BY DEF Admitted
<1>2. Promise!Lapse(Admitted \ Admitted')
  BY DEF Promise!Lapse
<1>3. QED
  BY <1>1, <1>2 DEF Promise!Next

\* Steps that leave grants and revocations alone, while epoch and clock grow.
LEMMA QuietPromise ==
  ASSUME IInv, UNCHANGED <<grant, intent, tombstone, receipt>>,
         authEpoch' \in Nat, clock' \in Nat,
         authEpoch <= authEpoch', clock <= clock'
  PROVE  Promise!Next
<1>1. Phase' = Phase
  BY DEF Phase, HasReceipt, Closed, IntentExistsFor, TombstoneExists
<1>2. ASSUME NEW g \in Grants, Current(g)' PROVE Current(g)
  BY <1>2 DEF IInv, TypeOK, GrantInv, GrantRecord, Current, Closed,
              IntentExistsFor, TombstoneExists
<1>3. QED
  BY <1>1, <1>2, Lapses DEF Admitted

\* What happens to one grant while nothing happens to the others.
PhaseOf(g) == IF HasReceipt(g) THEN "closed"
              ELSE IF Closed(g) THEN "closing" ELSE "open"

OnlyOf(g) ==
  /\ UNCHANGED <<authEpoch, clock>>
  /\ \A h \in Grants \ {g} :
       /\ grant'[h] = grant[h] /\ intent'[h] = intent[h]
       /\ tombstone'[h] = tombstone[h] /\ receipt'[h] = receipt[h]

Moves(g) ==
  \/ PhaseOf(g)' = PhaseOf(g) /\ (Current(g)' => Current(g))
  \/ PhaseOf(g)' = PhaseOf(g) /\ PhaseOf(g) = "open" /\ Current(g)'
  \/ PhaseOf(g) = "open" /\ PhaseOf(g)' = "closing" /\ ~Current(g)'
  \/ /\ PhaseOf(g) = "closing" /\ PhaseOf(g)' = "closed"
     /\ Current(g)' <=> Current(g)

\* Each way one grant can move is an action of the promise.
LEMMA OneGrantPromise ==
  ASSUME NEW g \in Grants, OnlyOf(g), Moves(g)
  PROVE  Promise!Next
<1>1. ASSUME NEW h \in Grants \ {g}
      PROVE  PhaseOf(h)' = PhaseOf(h) /\ (Current(h)' <=> Current(h))
  BY DEF OnlyOf, PhaseOf, Current, HasReceipt, Closed, IntentExistsFor,
         TombstoneExists
<1>2. Phase = [h \in Grants |-> PhaseOf(h)]
  BY DEF Phase, PhaseOf
<1>3. Phase' = [h \in Grants |-> PhaseOf(h)']
  BY DEF Phase, PhaseOf
<1>4. Admitted = {h \in Grants : Current(h)} /\ Admitted' = {h \in Grants : Current(h)'}
  BY DEF Admitted
<1> HIDE DEF Phase, Admitted
<1>5. CASE PhaseOf(g)' = PhaseOf(g) /\ (Current(g)' => Current(g))
  BY <1>1, <1>2, <1>3, <1>4, <1>5, Lapses
<1>6. CASE PhaseOf(g)' = PhaseOf(g) /\ PhaseOf(g) = "open" /\ Current(g)'
  <2>1. Phase' = Phase /\ Phase[g] = "open"
    BY <1>1, <1>2, <1>3, <1>6
  <2>2. Admitted' = Admitted \cup {g}
    BY <1>1, <1>4, <1>6
  <2>3. QED
    BY <2>1, <2>2 DEF Promise!Admit, Promise!Next
<1>7. CASE PhaseOf(g) = "open" /\ PhaseOf(g)' = "closing" /\ ~Current(g)'
  <2>1. Phase[g] = "open" /\ Phase' = [Phase EXCEPT ![g] = "closing"]
    BY <1>1, <1>2, <1>3, <1>7
  <2>2. Admitted' = Admitted \ {g}
    BY <1>1, <1>4, <1>7
  <2>3. QED
    BY <2>1, <2>2 DEF Promise!Begin, Promise!Next
<1>8. CASE /\ PhaseOf(g) = "closing" /\ PhaseOf(g)' = "closed"
           /\ Current(g)' <=> Current(g)
  <2>1. Phase[g] = "closing" /\ Phase' = [Phase EXCEPT ![g] = "closed"]
    BY <1>1, <1>2, <1>3, <1>8
  <2>2. Admitted' = Admitted
    BY <1>1, <1>4, <1>8
  <2>3. QED
    BY <2>1, <2>2 DEF Promise!Close, Promise!Next
<1>9. QED
  BY <1>5, <1>6, <1>7, <1>8 DEF Moves

\* A write of the record of an open grant admits it or lets it lapse.
LEMMA OpenWritePromise ==
  ASSUME IInv, NEW g \in Grants, ~Closed(g),
         \A h \in Grants \ {g} : grant'[h] = grant[h],
         UNCHANGED <<authEpoch, clock, intent, tombstone, receipt>>
  PROVE  Promise!Next
<1>1. ~HasReceipt(g)
  BY OpenNotBegun DEF IInv, GrantInv
<1>2. PhaseOf(g) = "open" /\ PhaseOf(g)' = "open"
  BY <1>1 DEF PhaseOf, HasReceipt, Closed, IntentExistsFor, TombstoneExists
<1>3. OnlyOf(g) /\ Moves(g)
  BY <1>2 DEF OnlyOf, Moves
<1>4. QED
  BY <1>3, OneGrantPromise

\* A step on a grant that is closed and stays so moves its phase forward.
LEMMA ClosedPromise ==
  ASSUME NEW g \in Grants, Closed(g), Closed(g)', OnlyOf(g),
         HasReceipt(g) => HasReceipt(g)'
  PROVE  Promise!Next
<1>1. ~Current(g) /\ ~Current(g)'
  BY DEF Current
<1>2. Moves(g)
  BY <1>1 DEF Moves, PhaseOf
<1>3. QED
  BY <1>2, OneGrantPromise

\* A step of _complete_revocation moves the phase of its grant forward.
LEMMA CompletionPromise ==
  ASSUME IInv, IInv', Advance, NEW p \in Procs, NEW g \in Grants, on[p] = g,
         CompleteRevocation(p)
  PROVE  Promise!Next
<1>0. /\ authEpoch \in Nat /\ authEpoch' \in Nat /\ clock \in Nat
      /\ clock' \in Nat /\ authEpoch <= authEpoch' /\ Begun(g)
      /\ seen[p] \in Nat /\ before[p] \in Nat
  BY DEF IInv, TypeOK, Advance, ProcInv, Completion, CompleteRevocation,
         MarkRevoked, AppendRevoked, GetTenant, BumpAuthEpoch, BumpRefused,
         ReadEpochAfter, WriteTombstone, TombstoneDrift, WriteOutbox,
         WriteReceipt, ReceiptDrift, UnlinkIntent
<1>1. Closed(g)
  BY <1>0, OpenNotBegun
<1>2. Begun(g)'
  BY <1>0 DEF Advance
<1>3. Closed(g)'
  BY <1>2 DEF IInv, TypeOK, GrantInv, Closed, TombstoneExists, HasReceipt,
              ReceiptRecord
<1>4. HasReceipt(g) => HasReceipt(g)'
  BY DEF Advance, HasReceipt
<1>5. CASE MarkRevoked(p)
  <2>1. UNCHANGED <<authEpoch, clock, intent, tombstone, receipt>>
    BY <1>5 DEF MarkRevoked, UNCHANGEDRevocation, tenantVars
  <2>2. \A h \in Grants \ {g} : grant'[h] = grant[h]
    <3>1. CASE UNCHANGED grant
      BY <3>1
    <3>2. CASE grant' = [grant EXCEPT ![g].status = "revoked"]
      BY <3>2, StatusOnly DEF IInv, TypeOK, GrantStates
    <3>3. QED
      BY <1>5, <3>1, <3>2 DEF MarkRevoked
  <2>3. QED
    BY <1>1, <1>3, <1>4, <2>1, <2>2, ClosedPromise DEF OnlyOf
<1>6. CASE WriteTombstone(p) \/ WriteReceipt(p) \/ UnlinkIntent(p)
  <2>1. OnlyOf(g)
    BY <1>6 DEF OnlyOf, WriteTombstone, WriteReceipt, UnlinkIntent, tenantVars,
                IInv, TypeOK
  <2>2. QED
    BY <1>1, <1>3, <1>4, <2>1, ClosedPromise
<1>7. CASE \/ AppendRevoked(p) \/ GetTenant(p) \/ BumpAuthEpoch(p)
           \/ BumpRefused(p) \/ ReadEpochAfter(p) \/ TombstoneDrift(p)
           \/ WriteOutbox(p) \/ ReceiptDrift(p)
  <2>1. UNCHANGED <<grant, intent, tombstone, receipt, clock>>
    BY <1>7 DEF AppendRevoked, GetTenant, BumpAuthEpoch, BumpRefused,
       ReadEpochAfter, TombstoneDrift, WriteOutbox, ReceiptDrift,
       UNCHANGEDRevocation, fileVars
  <2>2. QED
    BY <1>0, <2>1, QuietPromise
<1>8. QED
  BY <1>5, <1>6, <1>7 DEF CompleteRevocation

\* A mutation of a grant admits it, lets it lapse, or begins its revocation.
LEMMA MutationPromise ==
  ASSUME IInv, IInv', Advance, NEW p \in Procs, Mutate(p)
  PROVE  Promise!Next
<1>0. /\ authEpoch \in Nat /\ authEpoch' \in Nat /\ clock \in Nat
      /\ clock' \in Nat /\ authEpoch <= authEpoch'
  BY DEF IInv, TypeOK, Advance
<1>1. ASSUME NEW g \in Grants, Revoke(p, g) PROVE Promise!Next
  <2>1. /\ ~Closed(g) /\ ~HasReceipt(g)
        /\ UNCHANGED <<authEpoch, clock, grant, tombstone, receipt>>
    BY <1>1, OpenNotBegun DEF Revoke, IInv, GrantInv, tenantVars
  <2>2. grant[g].epoch > 0
    BY <1>1 DEF Revoke, IInv, GrantInv
  <2>3. /\ intent'[g] = grant[g].epoch
        /\ \A h \in Grants \ {g} : intent'[h] = intent[h]
    BY <1>1 DEF Revoke, IInv, TypeOK
  <2>4. OnlyOf(g)
    BY <2>1, <2>3 DEF OnlyOf
  <2>5. Closed(g)' /\ ~HasReceipt(g)'
    BY <2>1, <2>2, <2>3 DEF Closed, IntentExistsFor, HasReceipt, IInv, TypeOK,
                            GrantRecord
  <2>6. Moves(g)
    BY <2>1, <2>5 DEF Moves, PhaseOf, Current
  <2>7. QED
    BY <2>4, <2>6, OneGrantPromise
<1>2. ASSUME NEW g \in Grants, MarkRevalidationDue(p, g) PROVE Promise!Next
  <2>1. \A h \in Grants \ {g} : grant'[h] = grant[h]
    BY <1>2, StatusOnly DEF MarkRevalidationDue, IInv, TypeOK, GrantStates
  <2>2. QED
    BY <1>2, <2>1, OpenWritePromise DEF MarkRevalidationDue, tenantVars,
       UNCHANGEDRevocation
<1>3. ASSUME NEW obs \in {"discovered", "granted"}, NEW changed \in BOOLEAN,
             ObserveWrite(p, obs, changed)
      PROVE  Promise!Next
  <2>1. PICK g \in Grants : on[p] = g
    BY <1>3 DEF ObserveWrite, IInv, ProcInv
  <2>2. ~Closed(g) /\ \A h \in Grants \ {g} : grant'[h] = grant[h]
    BY <1>3, <2>1 DEF ObserveWrite, WriteGrant, IInv, TypeOK
  <2>3. QED
    BY <1>3, <2>2, OpenWritePromise DEF ObserveWrite, tenantVars,
       UNCHANGEDRevocation
<1>4. CASE PromoteWrite(p)
  <2>1. PICK g \in Grants : on[p] = g
    BY <1>4 DEF PromoteWrite, IInv, ProcInv
  <2>2. ~Closed(g) /\ \A h \in Grants \ {g} : grant'[h] = grant[h]
    BY <1>4, <2>1 DEF PromoteWrite, WriteGrant, IInv, TypeOK
  <2>3. QED
    BY <1>4, <2>2, OpenWritePromise DEF PromoteWrite, tenantVars,
       UNCHANGEDRevocation
<1>5. CASE UNCHANGED <<grant, intent, tombstone, receipt, clock>>
  BY <1>0, <1>5, QuietPromise
<1>6. QED
  BY <1>1, <1>2, <1>3, <1>4, <1>5 DEF Mutate, StartObserve, StartPromote,
     Observe, ObserveNothing, PromoteRefused, AppendEvent, fileVars,
     UNCHANGEDRevocation

\* Every step of the ledger is a step of the promise.
LEMMA PromiseStep ==
  ASSUME IInv, [Next]_vars
  PROVE  Promise!Next
<1>0. IInv' /\ Advance
  BY InvariantStep, LedgerAssumption
<1>1. /\ authEpoch \in Nat /\ authEpoch' \in Nat /\ clock \in Nat
      /\ clock' \in Nat /\ authEpoch <= authEpoch'
  BY <1>0 DEF IInv, TypeOK, Advance
<1>2. ASSUME NEW p \in Procs, Mutate(p) PROVE Promise!Next
  BY <1>0, <1>2, MutationPromise
<1>3. ASSUME NEW p \in Procs, CompleteRevocation(p) PROVE Promise!Next
  <2>1. on[p] \in Grants
    BY <1>3 DEF IInv, ProcInv, CompleteRevocation, MarkRevoked, AppendRevoked,
       GetTenant, BumpAuthEpoch, BumpRefused, ReadEpochAfter, WriteTombstone,
       TombstoneDrift, WriteOutbox, WriteReceipt, ReceiptDrift, UnlinkIntent
  <2>2. QED
    BY <1>0, <1>3, <2>1, CompletionPromise
<1>4. ASSUME NEW p \in Procs, Recover(p) PROVE Promise!Next
  <2>1. ASSUME NEW g \in Grants, RecoverCommitted(p, g) PROVE Promise!Next
    <3>1. HasReceipt(g) /\ OnlyOf(g) /\ Closed(g)
      BY <2>1 DEF RecoverCommitted, OnlyOf, Closed, tenantVars, IInv, TypeOK
    <3>2. HasReceipt(g)' /\ Closed(g)'
      BY <1>0, <2>1 DEF RecoverCommitted, IInv, TypeOK, GrantInv, Closed,
         HasReceipt, TombstoneExists, ReceiptRecord
    <3>3. QED
      BY <3>1, <3>2, ClosedPromise
  <2>2. CASE UNCHANGED <<grant, intent, tombstone, receipt, clock>>
    BY <1>1, <2>2, QuietPromise
  <2>3. QED
    BY <1>4, <2>1, <2>2 DEF Recover, RecoverRead, RecoverLock, fileVars
<1>5. CASE \/ \E p \in Procs : Crash(p)
           \/ Host \/ UNCHANGED vars
           \/ \E g \in Grants, c \in Consumers : AckCleanupTask(g, c)
  <2>1. UNCHANGED <<grant, intent, tombstone, receipt>> /\ clock <= clock'
    BY <1>1, <1>5 DEF Crash, Host, BumpTenantAuthEpoch, SetTenantStatus, Tick,
       AckCleanupTask, vars, fileVars
  <2>2. QED
    BY <1>1, <2>1, QuietPromise
<1>6. QED
  BY <1>2, <1>3, <1>4, <1>5, ProcsType DEF Next, LedgerStep

\* The ledger, with its files, locks, crashes and recoveries, does what
\* GrantRevocation promises: open, closing, closed, and never back.
THEOREM Refinement == Spec => ImplementsPromise
<1>1. Init => Promise!Init
  BY PromiseInit
<1>2. IInv /\ [Next]_vars => [Promise!Next]_(Promise!vars)
  BY PromiseStep
<1>3. QED
  BY <1>1, <1>2, Invariant, PTL DEF Spec, ImplementsPromise, Promise!Spec
-----------------------------------------------------------------------------
(***************************************************************************)
(* The eligibility check and TenantView over the ledger, for any number of *)
(* sessions, grants, processes, crashes and revisions.                     *)
(*                                                                         *)
(* They rest on the ledger's invariant and on what no step of it takes     *)
(* back (Advance).  A check that begins after the journal was written can  *)
(* get past the journals only when the journal is gone, and then the       *)
(* tombstone is there for good: that is Session.                           *)
(***************************************************************************)

\* How far the check of session a can have got.
Session(a) ==
  /\ qpc[a] \in Checking \cup {"eligible"} => qon[a] \in Grants
  /\ doomed[a] => qon[a] \in Grants /\ Begun(qon[a])
  /\ doomed[a] => qpc[a] \notin {"grant", "eligible"}
  /\ doomed[a] /\ qpc[a] = "tombstone" => TombstoneExists(qon[a])

SessionTypes ==
  /\ QTypeOK
  /\ \A a \in Agents : call[a] # "none" => qon[a] # NoKey
  /\ \A a \in Agents : call[a] = "upsert_write" => qpc[a] = "eligible"
  /\ call \in [Agents -> Calls]
  /\ draft \in [Agents -> Overlay]

StoreTypes ==
  /\ overlay \in [Grants -> Overlay]
  /\ consumer \in [Grants -> {"idle", "purged"}]

VInv ==
  /\ IInv
  /\ SessionTypes
  /\ StoreTypes
  /\ \A a \in Agents : Session(a)

\* A new store has no overlay and no session.
LEMMA ViewInitInv == TInit => VInv
<1> SUFFICES ASSUME TInit PROVE VInv
  OBVIOUS
<1>1. IInv
  BY InvariantInit, LedgerAssumption DEF TInit
<1>2. SessionTypes
  BY DEF TInit, QueryInit, ViewInit, SessionTypes, QTypeOK, QueryPoint, Snapshot,
         TenantStates, Calls, Overlay, NoOverlay
<1>3. StoreTypes
  BY DEF TInit, ViewInit, StoreTypes, Overlay, NoOverlay
<1>4. \A a \in Agents : Session(a)
  BY DEF TInit, QueryInit, Session, Checking
<1> QED
  BY <1>1, <1>2, <1>3, <1>4 DEF VInv

-----------------------------------------------------------------------------
(* Steps of the ledger, under the sessions.                                *)

\* A session that does not move keeps what its check has established, as
\* long as the ledger only advances.
LEMMA SessionStays ==
  ASSUME IInv, IInv', Advance, NEW a \in Agents, Session(a),
         qpc'[a] = qpc[a], qon'[a] = qon[a], doomed'[a] = doomed[a]
  PROVE  Session(a)'
<1>1. CASE doomed[a]
  <2>1. qon[a] \in Grants /\ Begun(qon[a])
    BY <1>1 DEF Session
  <2>2. txns'[qon[a]] > 0
    BY <2>1 DEF Advance, Begun
  <2>3. TombstoneExists(qon[a]) => tombstone'[qon[a]] # 0
    BY <2>1 DEF Advance, TombstoneExists
  <2> QED
    BY <2>1, <2>2, <2>3 DEF Session, Begun, TombstoneExists
<1>2. CASE ~doomed[a]
  BY <1>2 DEF Session
<1> QED
  BY <1>1, <1>2

\* A ledger step, or an acknowledgement, under sessions that stay.
LEMMA LedgerUnder ==
  ASSUME VInv, Next, UNCHANGED <<queryVars, call, draft, overlay>>, StoreTypes'
  PROVE  VInv'
<1>1. IInv' /\ Advance
  BY InvariantStep, LedgerAssumption DEF VInv
<1>2. SessionTypes'
  BY DEF VInv, SessionTypes, QTypeOK, queryVars
<1>3. ASSUME NEW a \in Agents PROVE Session(a)'
  BY <1>1, SessionStays DEF VInv, queryVars
<1> QED
  BY <1>1, <1>2, <1>3 DEF VInv

\* The ledger left alone, or a process death counted, keeps its invariant.
LEMMA LedgerIdle ==
  ASSUME IInv, UNCHANGED <<tenantVars, fileVars, procVars, clock>>,
         crashes' \in Nat
  PROVE  IInv' /\ Advance
<1>1. TypeOK'
  BY DEF IInv, TypeOK, tenantVars, fileVars, procVars
<1>2. Advance /\ \A g \in Grants : GrantInv(g)'
  BY <1>1, FilesAlone DEF tenantVars, fileVars
<1>3. \A q \in Procs : ProcInv(q)'
  BY <1>1, <1>2, OthersKeep DEF IInv, Stays, procVars
<1> QED
  BY <1>1, <1>2, <1>3 DEF IInv

-----------------------------------------------------------------------------
(* Steps of one session.                                                   *)

\* What is left of the session's proof once its own part is settled.
LEMMA OneSession ==
  ASSUME VInv, NEW a \in Agents,
         UNCHANGED <<tenantVars, fileVars, procVars, clock>>, crashes' \in Nat,
         SessionTypes', StoreTypes', Session(a)',
         \A b \in Agents \ {a} :
           qpc'[b] = qpc[b] /\ qon'[b] = qon[b] /\ doomed'[b] = doomed[b]
  PROVE  VInv'
<1>1. IInv' /\ Advance
  BY LedgerIdle DEF VInv
<1>2. \A b \in Agents : Session(b)'
  BY <1>1, SessionStays DEF VInv
<1> QED
  BY <1>1, <1>2 DEF VInv

\* The four variables of a session after a step that sets them.
Sets(a, p, g, d, l) ==
  /\ qpc' = [qpc EXCEPT ![a] = p]
  /\ qon' = [qon EXCEPT ![a] = g]
  /\ doomed' = [doomed EXCEPT ![a] = d]
  /\ call' = [call EXCEPT ![a] = l]

\* A step that leaves the session where its check had got to, or somewhere
\* it relies on nothing, keeps the types.
LEMMA SetsTypes ==
  ASSUME SessionTypes, NEW a \in Agents, NEW p \in QueryPoint,
         NEW g \in Grants \cup {NoKey}, NEW d \in BOOLEAN, NEW l \in Calls,
         Sets(a, p, g, d, l),
         l # "none" => g # NoKey, l = "upsert_write" => p = "eligible",
         snap' \in [Agents -> Snapshot], draft' \in [Agents -> Overlay]
  PROVE  SessionTypes'
<1>1. /\ qpc' \in [Agents -> QueryPoint] /\ qon' \in [Agents -> Grants \cup {NoKey}]
      /\ doomed' \in [Agents -> BOOLEAN] /\ call' \in [Agents -> Calls]
  BY DEF SessionTypes, QTypeOK, Sets
<1>2. ASSUME NEW b \in Agents
      PROVE  /\ call'[b] # "none" => qon'[b] # NoKey
             /\ call'[b] = "upsert_write" => qpc'[b] = "eligible"
  <2>1. CASE b = a
    BY <2>1 DEF SessionTypes, QTypeOK, Sets
  <2>2. CASE b # a
    BY <2>2 DEF SessionTypes, QTypeOK, Sets
  <2> QED
    BY <2>1, <2>2
<1> QED
  BY <1>1, <1>2 DEF SessionTypes, QTypeOK

\* Such a step keeps the invariant if what it sets is what Session asks.
LEMMA SessionStep ==
  ASSUME VInv, NEW a \in Agents, NEW p \in QueryPoint,
         NEW g \in Grants \cup {NoKey}, NEW d \in BOOLEAN, NEW l \in Calls,
         Sets(a, p, g, d, l),
         UNCHANGED <<tenantVars, fileVars, procVars, clock>>, crashes' \in Nat,
         l # "none" => g # NoKey, l = "upsert_write" => p = "eligible",
         snap' \in [Agents -> Snapshot], draft' \in [Agents -> Overlay],
         StoreTypes',
         p \in Checking \cup {"eligible"} => g \in Grants,
         d => /\ g \in Grants /\ Begun(g) /\ p \notin {"grant", "eligible"}
              /\ p = "tombstone" => TombstoneExists(g)
  PROVE  VInv'
<1>1. SessionTypes'
  BY SetsTypes DEF VInv
<1>2. qpc'[a] = p /\ qon'[a] = g /\ doomed'[a] = d
  BY DEF VInv, SessionTypes, QTypeOK, Sets
<1>3. UNCHANGED txns /\ UNCHANGED tombstone
  BY DEF fileVars
<1>4. Session(a)'
  BY <1>2, <1>3 DEF Session, Begun, TombstoneExists
<1>5. \A b \in Agents \ {a} :
        qpc'[b] = qpc[b] /\ qon'[b] = qon[b] /\ doomed'[b] = doomed[b]
  BY DEF VInv, SessionTypes, QTypeOK, Sets
<1> QED
  BY <1>1, <1>4, <1>5, OneSession


\* A denial, or an end of the call, leaves nothing to rely on.
LEMMA DenyKeeps ==
  ASSUME VInv, NEW a \in Agents, Deny(a), Carry(a, "none", NoOverlay),
         UNCHANGED <<tenantVars, fileVars, procVars, clock>>, crashes' \in Nat,
         StoreTypes'
  PROVE  VInv'
<1>1. Sets(a, "ready", NoKey, FALSE, "none")
  BY DEF Deny, QGoto, Carry, Sets
<1>2. draft' \in [Agents -> Overlay]
  BY DEF VInv, SessionTypes, Carry, Overlay, NoOverlay
<1>3. snap' \in [Agents -> Snapshot]
  BY DEF VInv, SessionTypes, QTypeOK, Deny
<1> QED
  BY <1>1, <1>2, <1>3, SessionStep DEF QueryPoint, Calls, Checking

\* A check begins, by itself or in a call of the store.
LEMMA CheckBegins ==
  ASSUME VInv, NEW a \in Agents, NEW g \in Grants, CheckTenant(a, g),
         NEW l \in Calls, l # "upsert_write", call' = [call EXCEPT ![a] = l],
         draft' \in [Agents -> Overlay],
         UNCHANGED <<vars, storeVars>>
  PROVE  VInv'
<1>1. Sets(a, "intent", g, Begun(g), l)
  BY DEF CheckTenant, QGoto, Sets
<1>2. snap' \in [Agents -> Snapshot]
  BY DEF VInv, SessionTypes, QTypeOK, CheckTenant
<1>3. StoreTypes' /\ crashes' \in Nat
  BY DEF VInv, IInv, TypeOK, StoreTypes, storeVars, vars
<1>4. g # NoKey
  BY LedgerAssumption DEF LedgerAssumption
<1>5. Begun(g) \in BOOLEAN
  BY DEF Begun
<1>6. "intent" \in QueryPoint
  BY DEF QueryPoint, Checking
<1>7. UNCHANGED <<tenantVars, fileVars, procVars, clock>>
  BY DEF vars
<1> QED
  BY <1>1, <1>2, <1>3, <1>4, <1>5, <1>6, <1>7, SessionStep

\* The first check of a call has passed, and the call goes on.
LEMMA CheckedOnce ==
  ASSUME VInv, NEW a \in Agents, CheckAgain(a),
         NEW l \in Calls, l # "upsert_write", NEW d \in Overlay, Carry(a, l, d),
         UNCHANGED <<vars, storeVars>>
  PROVE  VInv'
<1> DEFINE g == qon[a]
<1>1. g \in Grants /\ g # NoKey
  BY LedgerAssumption DEF VInv, Session, CheckAgain, LedgerAssumption
<1>2. Sets(a, "ready", g, Begun(g), l)
  BY DEF VInv, SessionTypes, QTypeOK, CheckAgain, QGoto, Carry, Sets
<1>3. snap' \in [Agents -> Snapshot] /\ draft' \in [Agents -> Overlay]
  BY DEF VInv, SessionTypes, QTypeOK, CheckAgain, Carry
<1>4. StoreTypes' /\ crashes' \in Nat
  BY DEF VInv, IInv, TypeOK, StoreTypes, storeVars, vars
<1>5. Begun(g) \in BOOLEAN /\ "ready" \in QueryPoint
  BY DEF Begun, QueryPoint
<1>6. UNCHANGED <<tenantVars, fileVars, procVars, clock>>
  BY DEF vars
<1> HIDE DEF g
<1> QED
  BY <1>1, <1>2, <1>3, <1>4, <1>5, <1>6, SessionStep DEF Checking

\* A check goes on with its next read.
LEMMA ReadOn ==
  ASSUME VInv, NEW a \in Agents, NEW p \in QueryPoint,
         QGoto(a, p), UNCHANGED <<qon, doomed, call>>,
         snap' \in [Agents -> Snapshot], draft' \in [Agents -> Overlay],
         UNCHANGED <<vars, storeVars>>,
         call[a] = "upsert_write" => p = "eligible",
         p \in Checking \cup {"eligible"} => qon[a] \in Grants,
         doomed[a] => /\ p \notin {"grant", "eligible"}
                      /\ p = "tombstone" => TombstoneExists(qon[a])
  PROVE  VInv'
<1> DEFINE g == qon[a] d == doomed[a] l == call[a]
<1>1. Sets(a, p, g, d, l)
  BY DEF VInv, SessionTypes, QTypeOK, QGoto, Sets
<1>2. g \in Grants \cup {NoKey} /\ d \in BOOLEAN /\ l \in Calls
  BY DEF VInv, SessionTypes, QTypeOK
<1>3. StoreTypes' /\ crashes' \in Nat
  BY DEF VInv, IInv, TypeOK, StoreTypes, storeVars, vars
<1>4. /\ l # "none" => g # NoKey
      /\ d => g \in Grants /\ Begun(g)
  BY DEF VInv, SessionTypes, Session
<1>5. UNCHANGED <<tenantVars, fileVars, procVars, clock>>
  BY DEF vars
<1>6. /\ l = "upsert_write" => p = "eligible"
      /\ p \in Checking \cup {"eligible"} => g \in Grants
      /\ d => /\ p \notin {"grant", "eligible"}
              /\ p = "tombstone" => TombstoneExists(g)
  OBVIOUS
<1> HIDE DEF g, d, l
<1> QED
  BY <1>1, <1>2, <1>3, <1>4, <1>5, <1>6, SessionStep

\* The journals are looked through: a grant whose revocation has begun and
\* that has no journal any more has its tombstone.
LEMMA IntentRead ==
  ASSUME VInv, NEW a \in Agents, qon[a] \in Grants, Begun(qon[a]),
         ~IntentExistsFor(qon[a])
  PROVE  TombstoneExists(qon[a])
BY DEF VInv, IInv, TypeOK, GrantInv, HasReceipt, ReceiptRecord, TombstoneExists

\* A step inside a check.
LEMMA InsideStep ==
  ASSUME VInv, NEW a \in Agents, InsideCheck(a)
  PROVE  VInv'
<1>1. StoreTypes' /\ crashes' \in Nat /\ UNCHANGED <<tenantVars, fileVars, procVars, clock>>
  BY DEF VInv, IInv, TypeOK, StoreTypes, storeVars, vars, InsideCheck
<1>2. UNCHANGED <<vars, storeVars>>
  BY DEF InsideCheck
<1>3. Session(a) /\ (call[a] = "upsert_write" => qpc[a] = "eligible")
  BY DEF VInv, SessionTypes
<1>4. qpc' = [qpc EXCEPT ![a] = "ready"] => qpc'[a] = "ready"
  BY DEF VInv, SessionTypes, QTypeOK
<1>5. CASE Deny(a)
  BY <1>1, <1>4, <1>5, DenyKeeps DEF InsideCheck, Deny, QGoto
<1>6. CASE FromTrusted(a)
  <2>1. qpc'[a] = "ready"
    BY <1>4, <1>6 DEF FromTrusted, QGoto
  <2>2. Carry(a, "none", NoOverlay)
    BY <2>1 DEF InsideCheck
  <2>3. Sets(a, "ready", qon[a], doomed[a], "none")
    BY <1>6, <2>2 DEF VInv, SessionTypes, QTypeOK, FromTrusted, QGoto, Carry, Sets
  <2>4. draft' \in [Agents -> Overlay]
    BY <2>2 DEF VInv, SessionTypes, Carry, Overlay, NoOverlay
  <2>5. authEpoch \in Nat /\ tenantStatus \in TenantStates
    BY DEF VInv, IInv, TypeOK
  <2>6. [epoch |-> authEpoch, status |-> tenantStatus] \in Snapshot
    BY <2>5 DEF Snapshot
  <2>7. snap' \in [Agents -> Snapshot]
    BY <1>6, <2>6 DEF VInv, SessionTypes, QTypeOK, FromTrusted
  <2>8. qon[a] \in Grants \cup {NoKey} /\ doomed[a] \in BOOLEAN
    BY DEF VInv, SessionTypes, QTypeOK
  <2>9. doomed[a] => qon[a] \in Grants /\ Begun(qon[a])
    BY <1>3 DEF Session
  <2> QED
    BY <1>1, <2>3, <2>4, <2>7, <2>8, <2>9, SessionStep DEF QueryPoint, Calls, Checking
<1>7. CASE call[a] = "none" /\ DropContext(a)
  <2>1. qpc'[a] = "out"
    BY <1>7 DEF VInv, SessionTypes, QTypeOK, DropContext, QGoto
  <2>2. UNCHANGED <<call, draft>>
    BY <2>1 DEF InsideCheck
  <2>3. snap' \in [Agents -> Snapshot]
    BY <1>7 DEF VInv, SessionTypes, QTypeOK, DropContext, Snapshot, TenantStates
  <2>4. draft' \in [Agents -> Overlay]
    BY <2>2 DEF VInv, SessionTypes
  <2> QED
    BY <1>2, <1>7, <2>2, <2>3, <2>4, ReadOn DEF DropContext, QueryPoint, Checking
<1>8. CASE CheckIntent(a) /\ ~Deny(a)
  <2>1. ~IntentExistsFor(qon[a]) /\ QGoto(a, "tombstone") /\ UNCHANGED <<qon, snap, doomed>>
    BY <1>8 DEF CheckIntent
  <2>2. UNCHANGED <<call, draft>>
    BY <2>1 DEF VInv, SessionTypes, QTypeOK, QGoto, InsideCheck
  <2>3. qpc[a] = "intent" /\ qon[a] \in Grants
    BY <1>3, <1>8 DEF CheckIntent, Session, Checking
  <2>4. doomed[a] => TombstoneExists(qon[a])
    BY <1>3, <2>1, <2>3, IntentRead DEF Session
  <2>5. snap' \in [Agents -> Snapshot] /\ draft' \in [Agents -> Overlay]
    BY <2>1, <2>2 DEF VInv, SessionTypes, QTypeOK
  <2> QED
    BY <1>2, <1>3, <2>1, <2>2, <2>3, <2>4, <2>5, ReadOn DEF QueryPoint, Checking
<1>9. CASE CheckTombstone(a) /\ ~Deny(a)
  <2>1. ~TombstoneExists(qon[a]) /\ QGoto(a, "grant") /\ UNCHANGED <<qon, snap, doomed>>
    BY <1>9 DEF CheckTombstone
  <2>2. UNCHANGED <<call, draft>>
    BY <2>1 DEF VInv, SessionTypes, QTypeOK, QGoto, InsideCheck
  <2>3. qpc[a] = "tombstone" /\ qon[a] \in Grants /\ ~doomed[a]
    BY <1>3, <1>9, <2>1 DEF CheckTombstone, Session, Checking
  <2>4. snap' \in [Agents -> Snapshot] /\ draft' \in [Agents -> Overlay]
    BY <2>1, <2>2 DEF VInv, SessionTypes, QTypeOK
  <2> QED
    BY <1>2, <1>3, <2>1, <2>2, <2>3, <2>4, ReadOn DEF QueryPoint, Checking
<1>10. CASE CheckGrant(a) /\ ~Deny(a)
  <2>1. QGoto(a, "eligible") /\ UNCHANGED <<qon, snap, doomed>>
    BY <1>10 DEF CheckGrant
  <2>2. UNCHANGED <<call, draft>>
    BY <2>1 DEF VInv, SessionTypes, QTypeOK, QGoto, InsideCheck
  <2>3. qpc[a] = "grant" /\ qon[a] \in Grants /\ ~doomed[a]
    BY <1>3, <1>10 DEF CheckGrant, Session, Checking
  <2>4. snap' \in [Agents -> Snapshot] /\ draft' \in [Agents -> Overlay]
    BY <2>1, <2>2 DEF VInv, SessionTypes, QTypeOK
  <2> QED
    BY <1>2, <1>3, <2>1, <2>2, <2>3, <2>4, ReadOn DEF QueryPoint, Checking
<1> QED
  BY <1>5, <1>6, <1>7, <1>8, <1>9, <1>10 DEF InsideCheck


\* A step of a session keeps the invariant.
LEMMA ViewStepKeeps ==
  ASSUME VInv, NEW a \in Agents, ViewStep(a)
  PROVE  VInv'
<1> USE DEF viewVars, storeVars, vars
<1>1. draft \in [Agents -> Overlay] /\ call[a] \in Calls /\ Session(a)
  BY DEF VInv, SessionTypes
<1>2. overlay \in [Grants -> Overlay] /\ crashes \in Nat
  BY DEF VInv, StoreTypes, IInv, TypeOK
<1>3. NoOverlay \in Overlay
  BY DEF Overlay, NoOverlay
<1>4. UNCHANGED storeVars => StoreTypes'
  BY DEF VInv, StoreTypes
<1>5. \A d \in Overlay : \A l : Carry(a, l, d) => draft' \in [Agents -> Overlay]
  BY <1>1 DEF Carry
<1>6. ASSUME NEW g \in Grants, StartQuery(a, g)
      PROVE  VInv'
  <2>1. call' = [call EXCEPT ![a] = "none"]
    BY <1>6 DEF VInv, SessionTypes, StartQuery
  <2> QED
    BY <1>1, <1>6, <2>1, CheckBegins DEF StartQuery, Calls
<1>7. ASSUME NEW g \in Grants, StartRead(a, g) \/ StartUpsert(a, g)
      PROVE  VInv'
  <2>1. CASE StartRead(a, g)
    <3>1. draft' \in [Agents -> Overlay]
      BY <1>3, <1>5, <2>1 DEF StartRead
    <3> QED
      BY <2>1, <3>1, CheckBegins DEF StartRead, Carry, Calls
  <2>2. CASE StartUpsert(a, g)
    <3>1. draft' \in [Agents -> Overlay]
      BY <1>3, <1>5, <2>2 DEF StartUpsert
    <3> QED
      BY <2>2, <3>1, CheckBegins DEF StartUpsert, Carry, Calls
  <2> QED
    BY <1>7, <2>1, <2>2
<1>8. CASE AnswerQuery(a)
  <2>1. Deny(a) /\ UNCHANGED <<call, draft>> /\ call[a] = "none"
    BY <1>8 DEF AnswerQuery, Answer
  <2>2. Sets(a, "ready", NoKey, FALSE, "none")
    BY <2>1 DEF VInv, SessionTypes, Deny, QGoto, Sets
  <2>3. snap' \in [Agents -> Snapshot] /\ draft' \in [Agents -> Overlay]
    BY <2>1 DEF VInv, SessionTypes, QTypeOK, Deny
  <2> QED
    BY <1>2, <1>4, <1>8, <2>2, <2>3, SessionStep DEF AnswerQuery, QueryPoint, Calls, Checking
<1>9. CASE LoadView(a) \/ LoadExisting(a)
  <2>1. qon[a] \in Grants
    BY <1>1, <1>9 DEF LoadView, LoadExisting, Session
  <2>2. overlay[qon[a]] \in Overlay
    BY <1>2, <2>1
  <2>3. CASE Deny(a) /\ Carry(a, "none", NoOverlay)
    BY <1>2, <1>4, <1>9, <2>3, DenyKeeps DEF LoadView, LoadExisting
  <2>4. CASE CheckAgain(a) /\ Carry(a, "read_second", overlay[qon[a]])
    BY <1>9, <2>2, <2>4, CheckedOnce DEF LoadView, LoadExisting, Calls
  <2>5. CASE CheckAgain(a) /\ Carry(a, "upsert_second", overlay[qon[a]])
    BY <1>9, <2>2, <2>5, CheckedOnce DEF LoadView, LoadExisting, Calls
  <2> QED
    BY <1>9, <2>3, <2>4, <2>5 DEF LoadView, LoadExisting
<1>10. CASE SecondCheck(a)
  <2>1. qon[a] \in Grants
    BY <1>10 DEF VInv, SessionTypes, QTypeOK, SecondCheck
  <2>2. call[a] # "upsert_write" /\ call' = [call EXCEPT ![a] = call[a]]
    BY <1>10 DEF VInv, SessionTypes, SecondCheck
  <2>3. CheckTenant(a, qon[a]) /\ UNCHANGED <<vars, storeVars, draft>>
    BY <1>10 DEF SecondCheck
  <2> HIDE DEF vars
  <2> QED
    BY <1>1, <2>1, <2>2, <2>3, CheckBegins
<1>11. CASE SecondDenied(a) \/ ReturnView(a)
  BY <1>2, <1>4, <1>11, DenyKeeps DEF SecondDenied, ReturnView
<1>12. CASE CompareDigest(a)
  <2>1. CASE Deny(a) /\ Carry(a, "none", NoOverlay)
    BY <1>2, <1>4, <1>12, <2>1, DenyKeeps DEF CompareDigest
  <2>2. CASE Carry(a, "upsert_write", draft[a]) /\ UNCHANGED <<qpc, qon, snap, doomed>>
    <3>1. qpc[a] = "eligible" /\ qon[a] \in Grants /\ ~doomed[a]
      BY <1>1, <1>12 DEF CompareDigest, Session
    <3>2. Sets(a, "eligible", qon[a], FALSE, "upsert_write")
      BY <2>2, <3>1 DEF VInv, SessionTypes, QTypeOK, Carry, Sets
    <3>3. draft' \in [Agents -> Overlay] /\ snap' \in [Agents -> Snapshot]
      BY <1>1, <2>2 DEF VInv, SessionTypes, QTypeOK, Carry
    <3>4. qon[a] # NoKey
      BY <3>1, LedgerAssumption DEF LedgerAssumption
    <3>5. UNCHANGED <<tenantVars, fileVars, procVars, clock, crashes, storeVars>>
      BY <1>12 DEF CompareDigest
    <3> QED
      BY <1>2, <1>4, <3>1, <3>2, <3>3, <3>4, <3>5, SessionStep DEF QueryPoint, Calls
  <2> QED
    BY <1>12, <2>1, <2>2 DEF CompareDigest
<1>13. CASE RenameOverlay(a)
  <2>1. qon[a] \in Grants
    BY <1>1, <1>13 DEF RenameOverlay, Session
  <2>2. draft[a].revision + 1 \in Nat
    BY <1>1 DEF Overlay
  <2>3. [revision |-> draft[a].revision + 1, by |-> a] \in Overlay
    BY <2>2 DEF Overlay
  <2>4. StoreTypes'
    BY <1>13, <2>1, <2>3 DEF VInv, StoreTypes, RenameOverlay
  <2> QED
    BY <1>2, <1>13, <2>4, DenyKeeps DEF RenameOverlay
<1>14. CASE InsideCheck(a)
  BY <1>14, InsideStep
<1>15. CASE ViewCrash(a)
  BY <1>2, <1>4, <1>15, DenyKeeps DEF ViewCrash
<1> QED
  BY <1>6, <1>7, <1>8, <1>9, <1>10, <1>11, <1>12, <1>13, <1>14, <1>15 DEF ViewStep

\* So does a step of the ledger, of the purge and of the consumers.
LEMMA ViewInvariantStep ==
  ASSUME VInv, [TNext]_tvars
  PROVE  VInv'
<1>1. CASE UNCHANGED tvars
  <2>1. UNCHANGED <<vars, queryVars, viewVars>>
    BY <1>1 DEF tvars, qvars
  <2>2. IInv' /\ Advance
    BY <2>1, InvariantStep, LedgerAssumption DEF VInv
  <2>3. SessionTypes' /\ StoreTypes'
    BY <2>1 DEF VInv, SessionTypes, QTypeOK, StoreTypes, queryVars, viewVars, storeVars
  <2>4. \A a \in Agents : Session(a)'
    BY <2>1, <2>2, SessionStays DEF VInv, queryVars
  <2> QED
    BY <2>2, <2>3, <2>4 DEF VInv
<1>2. CASE LedgerStep /\ UNCHANGED <<queryVars, viewVars>>
  BY <1>2, LedgerUnder DEF VInv, StoreTypes, viewVars, storeVars, Next
<1>3. ASSUME NEW a \in Agents, ViewStep(a) PROVE VInv'
  BY <1>3, ViewStepKeeps
<1>4. ASSUME NEW g \in Grants, PurgeForRevokedGrant(g) PROVE VInv'
  <2>1. StoreTypes'
    BY <1>4 DEF VInv, StoreTypes, PurgeForRevokedGrant, Overlay, NoOverlay
  <2>2. IInv' /\ Advance
    BY <1>4, InvariantStep, LedgerAssumption DEF VInv, PurgeForRevokedGrant
  <2>3. SessionTypes'
    BY <1>4 DEF VInv, SessionTypes, QTypeOK, PurgeForRevokedGrant, queryVars
  <2>4. \A a \in Agents : Session(a)'
    BY <1>4, <2>2, SessionStays DEF VInv, PurgeForRevokedGrant, queryVars
  <2> QED
    BY <2>1, <2>2, <2>3, <2>4 DEF VInv
<1>5. ASSUME NEW g \in Grants, AckPurge(g) PROVE VInv'
  <2>1. Next
    BY <1>5, ViewAssumption DEF AckPurge, Next, ViewAssumption
  <2>2. StoreTypes'
    BY <1>5 DEF VInv, StoreTypes, AckPurge
  <2> QED
    BY <1>5, <2>1, <2>2, LedgerUnder DEF AckPurge
<1>6. ASSUME NEW g \in Grants, NEW c \in Consumers, AckOther(g, c) PROVE VInv'
  <2>1. Next
    BY <1>6 DEF AckOther, Next
  <2> QED
    BY <1>6, <2>1, LedgerUnder DEF VInv, StoreTypes, AckOther, viewVars, storeVars
<1> QED
  BY <1>1, <1>2, <1>3, <1>4, <1>5, <1>6 DEF TNext

-----------------------------------------------------------------------------
(* The theorems.                                                           *)

\* The inductive invariant: the ledger's, and how far the check of a session
\* can have got when the revocation of its grant had begun before it.
THEOREM ViewInvariant == TSpec => []VInv
BY ViewInitInv, ViewInvariantStep, PTL DEF TSpec

\* Files, sessions and calls keep their types.
THEOREM ViewTypeCorrect == TSpec => []TTypeOK
<1>1. VInv => TTypeOK
  BY DEF VInv, IInv, SessionTypes, StoreTypes, TTypeOK
<1> QED
  BY <1>1, ViewInvariant, PTL

\* check_query_eligibility never answers "eligible" for a grant whose journal
\* was written before the check began, however its four lock-free reads mix
\* with the revocation, with crashes and with recover().
THEOREM RevokedIsNeverServed == TSpec => []RevokedNeverServed
<1>1. VInv => RevokedNeverServed
  BY DEF VInv, Session, RevokedNeverServed
<1> QED
  BY <1>1, ViewInvariant, PTL

-----------------------------------------------------------------------------
(***************************************************************************)
(* The cleanup of a revoked grant's overlay.  "tenant_view" is owed from   *)
(* the outbox entry to its acknowledgement, and the acknowledgement        *)
(* follows a purge; from then on only a late upsert can bring an overlay.  *)
(***************************************************************************)

\* Nothing is left to purge, but for what came late.
Cleaned(g) == overlay[g] = NoOverlay \/ g \in late

\* The entry still asks for the purge, or the purge is done.
Filed(g) == "tenant_view" \in outbox[g].consumers \/ Cleaned(g)

GrantFiled(g) ==
  /\ consumer[g] = "purged" => Begun(g) /\ Cleaned(g)
  /\ HasReceipt(g) \/ outbox[g] # NoOutbox => Begun(g) /\ Filed(g)

\* The outbox entry comes before the receipt.
FiledInv ==
  /\ \A g \in Grants : GrantFiled(g)
  /\ \A p \in Procs : pc[p] = "receipt" => Filed(on[p])

\* Where a step of the ledger can bring an entry, a receipt, or a process to
\* the point before the receipt.
LEMMA FilingMoves ==
  ASSUME IInv, LedgerStep
  PROVE  /\ \/ UNCHANGED outbox
            \/ \E p \in Procs : WriteOutbox(p)
         /\ \A g \in Grants : HasReceipt(g)' =>
              \/ HasReceipt(g)
              \/ \E p \in Procs : pc[p] = "receipt" /\ on[p] = g
         /\ \A p \in Procs : pc'[p] = "receipt" =>
              \/ pc[p] = "receipt" /\ on'[p] = on[p]
              \/ WriteOutbox(p)
<1> USE DEF HasReceipt
<1>1. ASSUME NEW p \in Procs, NEW l \in Points, l # "receipt",
             pc' = [pc EXCEPT ![p] = l], NEW h \in Grants \cup {NoKey},
             on' = [on EXCEPT ![p] = h]
      PROVE  \A q \in Procs : pc'[q] = "receipt" => pc[q] = "receipt" /\ on'[q] = on[q]
  BY <1>1 DEF IInv, TypeOK
<1>2. ASSUME NEW p \in Procs, NEW l \in Points, l # "receipt",
             pc' = [pc EXCEPT ![p] = l], UNCHANGED on
      PROVE  \A q \in Procs : pc'[q] = "receipt" => pc[q] = "receipt" /\ on'[q] = on[q]
  BY <1>2 DEF IInv, TypeOK
<1>3. ASSUME NEW p \in Procs, Return(p)
      PROVE  \A q \in Procs : pc'[q] = "receipt" => pc[q] = "receipt" /\ on'[q] = on[q]
  BY <1>1, <1>3 DEF Return, Points
<1>4. ASSUME NEW p \in Procs, Mutate(p)
      PROVE  /\ UNCHANGED <<outbox, receipt>>
             /\ \A q \in Procs : pc'[q] = "receipt" => pc[q] = "receipt" /\ on'[q] = on[q]
  <2>1. CASE \E g \in Grants : \/ StartObserve(p, g) \/ MarkRevalidationDue(p, g)
                               \/ Revoke(p, g)
    BY <1>1, <2>1 DEF StartObserve, MarkRevalidationDue, Revoke, Enter, fileVars,
       UNCHANGEDRevocation, Points, Critical, Completion
  <2>2. CASE \E g \in Grants : \E purpose \in {"promote", "refresh"} :
               StartPromote(p, g, purpose)
    BY <1>1, <2>2 DEF StartPromote, Enter, fileVars, Points
  <2>3. CASE Observe(p) \/ PromoteWrite(p)
    BY <1>2, <1>3, <2>3 DEF Observe, ObserveWrite, ObserveNothing, PromoteWrite,
       WriteGrant, Goto, fileVars, UNCHANGEDRevocation, Points, Critical
  <2>4. CASE PromoteRefused(p) \/ AppendEvent(p)
    BY <1>3, <2>4 DEF PromoteRefused, AppendEvent, fileVars, UNCHANGEDRevocation
  <2> QED
    BY <1>4, <2>1, <2>2, <2>3, <2>4 DEF Mutate
<1>5. ASSUME NEW p \in Procs, Recover(p) \/ Crash(p)
      PROVE  /\ UNCHANGED <<outbox, receipt>>
             /\ \A q \in Procs : pc'[q] = "receipt" => pc[q] = "receipt" /\ on'[q] = on[q]
  <2>1. CASE \E g \in Grants : RecoverCommitted(p, g)
    BY <2>1 DEF RecoverCommitted, procVars
  <2>2. CASE \E g \in Grants : RecoverRead(p, g)
    BY <1>1, <2>2 DEF RecoverRead, Enter, fileVars, Points
  <2>3. CASE RecoverLock(p)
    BY <1>2, <2>3 DEF RecoverLock, Goto, fileVars, Points, Critical, Completion
  <2>4. CASE Crash(p)
    BY <1>3, <2>4 DEF Crash, fileVars
  <2> QED
    BY <1>5, <2>1, <2>2, <2>3, <2>4 DEF Recover
<1>6. ASSUME NEW p \in Procs,
             \/ MarkRevoked(p) \/ AppendRevoked(p) \/ GetTenant(p) \/ BumpAuthEpoch(p)
             \/ BumpRefused(p) \/ ReadEpochAfter(p) \/ WriteTombstone(p)
             \/ TombstoneDrift(p) \/ ReceiptDrift(p) \/ UnlinkIntent(p)
      PROVE  /\ UNCHANGED <<outbox, receipt>>
             /\ \A q \in Procs : pc'[q] = "receipt" => pc[q] = "receipt" /\ on'[q] = on[q]
  <2>1. CASE MarkRevoked(p) \/ AppendRevoked(p) \/ GetTenant(p)
    BY <1>2, <2>1 DEF MarkRevoked, AppendRevoked, GetTenant, Goto, fileVars,
       UNCHANGEDRevocation, Points, Critical, Completion
  <2>2. CASE BumpAuthEpoch(p) \/ ReadEpochAfter(p) \/ WriteTombstone(p)
    BY <1>2, <2>2 DEF BumpAuthEpoch, ReadEpochAfter, WriteTombstone, Goto, fileVars,
       Points, Critical, Completion
  <2>3. CASE BumpRefused(p) \/ TombstoneDrift(p) \/ ReceiptDrift(p) \/ UnlinkIntent(p)
    BY <1>3, <2>3 DEF BumpRefused, TombstoneDrift, ReceiptDrift, UnlinkIntent, fileVars
  <2> QED
    BY <1>6, <2>1, <2>2, <2>3
<1>7. ASSUME NEW p \in Procs, WriteOutbox(p)
      PROVE  /\ UNCHANGED receipt
             /\ \A q \in Procs : pc'[q] = "receipt" =>
                  (pc[q] = "receipt" /\ on'[q] = on[q]) \/ WriteOutbox(q)
  BY <1>7 DEF WriteOutbox, Goto, IInv, TypeOK
<1>8. ASSUME NEW p \in Procs, WriteReceipt(p)
      PROVE  /\ UNCHANGED outbox
             /\ \A g \in Grants : HasReceipt(g)' => HasReceipt(g) \/ (pc[p] = "receipt" /\ on[p] = g)
             /\ \A q \in Procs : pc'[q] = "receipt" => pc[q] = "receipt" /\ on'[q] = on[q]
  <2>1. \A g \in Grants : receipt'[g] # receipt[g] => g = on[p]
    BY <1>8 DEF WriteReceipt, IInv, TypeOK
  <2>2. \A q \in Procs : pc'[q] = "receipt" => pc[q] = "receipt" /\ on'[q] = on[q]
    BY <1>2, <1>8 DEF WriteReceipt, Goto, Points, Critical, Completion
  <2> QED
    BY <1>8, <2>1, <2>2 DEF WriteReceipt
<1>9. CASE Host
  BY <1>9 DEF Host, BumpTenantAuthEpoch, SetTenantStatus, Tick, fileVars, procVars
<1> QED
  BY <1>4, <1>5, <1>6, <1>7, <1>8, <1>9, ProcsType DEF LedgerStep, CompleteRevocation

\* What is begun stays begun, and what is cleaned stays cleaned, in a step
\* that touches no overlay.
LEMMA CleanedStays ==
  ASSUME IInv, Advance, UNCHANGED <<overlay, late>>, NEW g \in Grants
  PROVE  /\ Begun(g) => Begun(g)'
         /\ Cleaned(g) => Cleaned(g)'
BY DEF Advance, Cleaned

\* A step of the ledger, under sessions and a store that stay.
LEMMA LedgerFiles ==
  ASSUME VInv, FiledInv, LedgerStep, UNCHANGED storeVars
  PROVE  FiledInv'
<1>1. Advance /\ IInv
  BY InvariantStep, LedgerAssumption DEF VInv, Next
<1>2. UNCHANGED <<overlay, late, consumer>>
  BY DEF storeVars
<1>3. ASSUME NEW g \in Grants
      PROVE  /\ Begun(g) => Begun(g)'
             /\ Cleaned(g) => Cleaned(g)'
  BY <1>1, <1>2, CleanedStays
<1>4. ASSUME NEW p \in Procs, pc[p] \in {"outbox", "receipt"}
      PROVE  on[p] \in Grants /\ Begun(on[p])
  BY <1>4 DEF VInv, IInv, ProcInv, Completion
<1>5. ASSUME NEW g \in Grants, NEW p \in Procs, WriteOutbox(p), on[p] = g
      PROVE  Filed(g)' /\ outbox' = [outbox EXCEPT ![g] = outbox'[g]]
  <2>1. outbox[g] \in OutboxRecord /\ outbox \in [Grants -> OutboxRecord]
    BY DEF VInv, IInv, TypeOK
  <2>2. CASE outbox[g] = NoOutbox
    BY <1>5, <2>1, <2>2, ViewAssumption DEF WriteOutbox, Filed, ViewAssumption
  <2>3. CASE outbox[g] # NoOutbox
    BY <1>3, <1>5, <2>1, <2>3 DEF WriteOutbox, FiledInv, GrantFiled, Filed
  <2> QED
    BY <2>2, <2>3
<1>6. ASSUME NEW g \in Grants
      PROVE  /\ Filed(g) => Filed(g)'
             /\ outbox'[g] # NoOutbox => Begun(g) /\ Filed(g)' 
  <2>1. CASE UNCHANGED outbox
    BY <1>3, <2>1 DEF Filed, FiledInv, GrantFiled
  <2>2. ASSUME NEW p \in Procs, WriteOutbox(p), on[p] = g
        PROVE  Filed(g)' /\ Begun(g)
    BY <1>4, <1>5, <2>2 DEF WriteOutbox
  <2>3. ASSUME NEW p \in Procs, WriteOutbox(p), on[p] # g
        PROVE  outbox'[g] = outbox[g]
    BY <2>3 DEF WriteOutbox, VInv, IInv, TypeOK
  <2> QED
    BY <1>3, <2>1, <2>2, <2>3, <1>1, FilingMoves DEF Filed, FiledInv, GrantFiled
<1>7. ASSUME NEW g \in Grants, HasReceipt(g)' PROVE Begun(g) /\ Filed(g)
  <2>1. CASE HasReceipt(g)
    BY <2>1 DEF FiledInv, GrantFiled
  <2>2. CASE \E p \in Procs : pc[p] = "receipt" /\ on[p] = g
    BY <1>4, <2>2 DEF FiledInv
  <2> QED
    BY <1>1, <1>7, <2>1, <2>2, FilingMoves
<1>8. ASSUME NEW g \in Grants PROVE GrantFiled(g)'
  BY <1>2, <1>3, <1>6, <1>7 DEF FiledInv, GrantFiled
<1>9. ASSUME NEW p \in Procs, pc'[p] = "receipt" PROVE Filed(on[p])'
  <2>1. CASE pc[p] = "receipt" /\ on'[p] = on[p]
    BY <1>4, <1>6, <2>1 DEF FiledInv, Filed, Cleaned
  <2>2. CASE WriteOutbox(p)
    <3>1. on'[p] = on[p] /\ on[p] \in Grants
      BY <1>4, <2>2 DEF WriteOutbox
    <3> QED
      BY <1>5, <2>2, <3>1 DEF Filed, Cleaned
  <2> QED
    BY <1>1, <1>9, <2>1, <2>2, FilingMoves
<1> QED
  BY <1>8, <1>9 DEF FiledInv

\* The store alone moves, and cleans, or adds late, every grant it touches.
LEMMA StoreFiles ==
  ASSUME VInv, FiledInv, UNCHANGED <<fileVars, procVars>>,
         \A g \in Grants : Begun(g) => (Cleaned(g) => Cleaned(g)'),
         \A g \in Grants : consumer'[g] = "purged" =>
           consumer[g] = "purged" \/ (Begun(g) /\ Cleaned(g)')
  PROVE  FiledInv'
<1>1. UNCHANGED <<outbox, receipt, txns, pc, on>>
  BY DEF fileVars, procVars
<1>2. ASSUME NEW g \in Grants PROVE GrantFiled(g)'
  BY <1>1 DEF FiledInv, GrantFiled, Filed, HasReceipt, Begun
<1>3. ASSUME NEW p \in Procs, pc'[p] = "receipt" PROVE Filed(on[p])'
  <2>1. on[p] \in Grants /\ Begun(on[p]) /\ on'[p] = on[p] /\ pc[p] = "receipt"
    BY <1>1, <1>3 DEF VInv, IInv, ProcInv, Completion
  <2> QED
    BY <1>1, <2>1 DEF FiledInv, Filed, Cleaned
<1> QED
  BY <1>2, <1>3 DEF FiledInv

\* An acknowledgement takes "tenant_view" off only when the purge is done.
LEMMA AckFiles ==
  ASSUME VInv, FiledInv, NEW g \in Grants, NEW c \in Consumers,
         AckCleanupTask(g, c), c = "tenant_view" => Cleaned(g),
         UNCHANGED <<overlay, late>>,
         \A h \in Grants : consumer'[h] = "purged" => consumer[h] = "purged"
  PROVE  FiledInv'
<1>1. UNCHANGED <<receipt, txns, pc, on>>
  BY DEF AckCleanupTask, procVars
<1>2. /\ outbox \in [Grants -> OutboxRecord]
      /\ c \in outbox[g].consumers
  BY DEF VInv, IInv, TypeOK, AckCleanupTask
<1>3. Filed(g) /\ Begun(g)
  BY <1>2 DEF FiledInv, GrantFiled, NoOutbox
<1>4. Filed(g)'
  BY <1>2, <1>3 DEF AckCleanupTask, Filed, Cleaned
<1>5. \A h \in Grants \ {g} : outbox'[h] = outbox[h]
  BY <1>2 DEF AckCleanupTask
<1>6. \A h \in Grants : Filed(h) => Filed(h)'
  BY <1>4, <1>5 DEF Filed, Cleaned
<1>7. ASSUME NEW h \in Grants PROVE GrantFiled(h)'
  BY <1>1, <1>3, <1>4, <1>5, <1>6 DEF FiledInv, GrantFiled, HasReceipt, Begun, Cleaned
<1>8. ASSUME NEW p \in Procs, pc'[p] = "receipt" PROVE Filed(on[p])'
  <2>1. on[p] \in Grants /\ on'[p] = on[p] /\ pc[p] = "receipt"
    BY <1>1, <1>8 DEF VInv, IInv, ProcInv
  <2> QED
    BY <1>6, <2>1 DEF FiledInv, Filed, Cleaned
<1> QED
  BY <1>7, <1>8 DEF FiledInv

\* A session's only step on an overlay is the rename, and a rename over a
\* grant whose revocation has begun is late.
LEMMA SessionFiles ==
  ASSUME VInv, FiledInv, NEW a \in Agents, ViewStep(a)
  PROVE  FiledInv'
<1>1. UNCHANGED <<fileVars, procVars>>
  BY DEF ViewStep, StartQuery, StartRead, StartUpsert, AnswerQuery, LoadView,
     LoadExisting, SecondCheck, SecondDenied, CompareDigest, RenameOverlay,
     ReturnView, InsideCheck, ViewCrash, vars
<1>2. CASE RenameOverlay(a)
  <2>1. /\ ~doomed[a] /\ overlay \in [Grants -> Overlay]
        /\ qon[a] \in Grants
    BY <1>2 DEF RenameOverlay, VInv, Session, StoreTypes
  <2>2. \A g \in Grants : Begun(g) => (Cleaned(g) => Cleaned(g)')
    BY <1>2, <2>1 DEF RenameOverlay, Cleaned
  <2>3. UNCHANGED consumer
    BY <1>2 DEF RenameOverlay
  <2> QED
    BY <1>1, <2>2, <2>3, StoreFiles
<1>3. CASE ~RenameOverlay(a)
  <2>1. UNCHANGED <<overlay, consumer, late>>
    BY <1>3 DEF ViewStep, StartQuery, StartRead, StartUpsert, AnswerQuery, LoadView,
       LoadExisting, SecondCheck, SecondDenied, CompareDigest, ReturnView,
       InsideCheck, ViewCrash, viewVars, storeVars
  <2>2. \A g \in Grants : Cleaned(g) => Cleaned(g)'
    BY <2>1 DEF Cleaned
  <2> QED
    BY <1>1, <2>1, <2>2, StoreFiles
<1> QED
  BY <1>2, <1>3

\* Every step keeps the filing.
LEMMA FiledStep ==
  ASSUME VInv, FiledInv, [TNext]_tvars
  PROVE  FiledInv'
<1>1. CASE UNCHANGED tvars
  <2>1. UNCHANGED <<fileVars, procVars, overlay, consumer, late>>
    BY <1>1 DEF tvars, qvars, vars, viewVars, storeVars
  <2>2. \A g \in Grants : Cleaned(g) => Cleaned(g)'
    BY <2>1 DEF Cleaned
  <2> QED
    BY <2>1, <2>2, StoreFiles
<1>2. CASE LedgerStep /\ UNCHANGED <<queryVars, viewVars>>
  BY <1>2, LedgerFiles DEF viewVars
<1>3. ASSUME NEW a \in Agents, ViewStep(a) PROVE FiledInv'
  BY <1>3, SessionFiles
<1>4. ASSUME NEW g \in Grants, PurgeForRevokedGrant(g) PROVE FiledInv'
  <2>1. Begun(g)
    BY <1>4 DEF PurgeForRevokedGrant, VInv, IInv, GrantInv, Closed
  <2>2. overlay' = [overlay EXCEPT ![g] = NoOverlay] /\ UNCHANGED late
    BY <1>4 DEF PurgeForRevokedGrant
  <2>3. \A h \in Grants : Cleaned(h) => Cleaned(h)'
    BY <2>2 DEF Cleaned, VInv, StoreTypes
  <2>4. Cleaned(g)' /\ \A h \in Grants \ {g} : consumer'[h] = consumer[h]
    BY <1>4, <2>2 DEF Cleaned, VInv, StoreTypes, PurgeForRevokedGrant
  <2>5. UNCHANGED <<fileVars, procVars>>
    BY <1>4 DEF PurgeForRevokedGrant, vars
  <2> QED
    BY <2>1, <2>3, <2>4, <2>5, StoreFiles
<1>5. ASSUME NEW g \in Grants, AckPurge(g) PROVE FiledInv'
  <2>1. Cleaned(g)
    BY <1>5 DEF AckPurge, FiledInv, GrantFiled
  <2>2. \A h \in Grants : consumer'[h] = "purged" => consumer[h] = "purged"
    BY <1>5 DEF AckPurge, VInv, StoreTypes
  <2> QED
    BY <1>5, <2>1, <2>2, AckFiles, ViewAssumption DEF AckPurge, ViewAssumption
<1>6. ASSUME NEW g \in Grants, NEW c \in Consumers, AckOther(g, c) PROVE FiledInv'
  BY <1>6, AckFiles DEF AckOther, viewVars, storeVars
<1> QED
  BY <1>1, <1>2, <1>3, <1>4, <1>5, <1>6 DEF TNext

\* A revocation that has its receipt and its "tenant_view" acknowledgement
\* has left no overlay of the report, whatever died or was taken up again on
\* the way, unless an upsert that was past its second check renamed one after.
THEOREM CleanupIsComplete == TSpec => []CleanupIsDone
<1>1. TInit => FiledInv
  BY DEF TInit, Init, ViewInit, FiledInv, GrantFiled, HasReceipt, NoOverlay
<1>2. FiledInv => CleanupIsDone
  BY DEF FiledInv, GrantFiled, Filed, Cleaned, CleanupIsDone
<1> QED
  BY <1>1, <1>2, ViewInvariant, FiledStep, PTL DEF TSpec
=============================================================================
