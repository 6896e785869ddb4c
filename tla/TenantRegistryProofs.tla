------------------------ MODULE TenantRegistryProofs ------------------------
(***************************************************************************)
(* Proofs about TenantRegistry, for any sets of clients and recoverers,    *)
(* any limit of the counters and any number of transactions and deaths.    *)
(*                                                                         *)
(* The argument is the lock: at most one client is between its journal and *)
(* its projection, so what it has checked under the lock is still so when  *)
(* it writes the record.  recover(), which takes no lock, writes neither   *)
(* the record nor the history.                                             *)
(***************************************************************************)
EXTENDS TenantRegistry, FiniteSetTheorems, TLAPS

Before == {"init_tree", "init_record", "commit"}   \* the record is not written

ProcTypes ==
  /\ pc \in [Procs -> Points]
  /\ kind \in [Procs -> {"epoch", "revision"}]
  /\ base \in [Procs -> Record]
  /\ txn \in [Procs -> 0..MaxTxns]

DiskTypes ==
  /\ record \in Record
  /\ record.epoch <= record.revision /\ record.revision <= MaxSafeInt
  /\ journals \subseteq Txns
  /\ receipts \subseteq Txns
  /\ tree \in {"none", "whole", "partial"}
  /\ projection \in Nat
  /\ nextTxn \in 1..(MaxTxns + 1)
  /\ stops \in Nat

\* Every transaction that wrote was given its id before, and once.
HistoryInv ==
  /\ written \subseteq {t \in Txns : t < nextTxn}
  /\ IsFiniteSet(written)
  /\ NoLostUpdate
  /\ Exists => record.epoch > 0 /\ record.revision > 0

\* What a client relies on at the point it has reached.
LockInv ==
  /\ \A p, q \in Procs : pc[p] \in Critical /\ pc[q] \in Critical => p = q
  /\ \A p \in Procs :
       /\ pc[p] \in Before =>
            txn[p] \in Txns /\ txn[p] < nextTxn /\ txn[p] \notin written
       /\ pc[p] \in Critical => txn[p] \in Txns
       /\ pc[p] \in {"init_tree", "init_record"} => ~Exists
       /\ pc[p] = "bump_lock" => Exists
       /\ pc[p] = "commit" => Exists /\ AsExpected(p) /\ ~Overflows(kind[p])
       /\ pc[p] \in {"r_record", "r_empty", "r_remove", "r_unlink"} => txn[p] \in Txns

IInv == ProcTypes /\ DiskTypes /\ HistoryInv /\ LockInv


-----------------------------------------------------------------------------
(* Types.                                                                  *)

\* The program points, and which of them hold the lock.
LEMMA PointsType ==
  /\ Critical \subseteq Points /\ Before \subseteq Critical
  /\ {"idle", "init_lock", "bump_lock", "r_record", "r_empty", "r_remove",
      "r_unlink"} \subseteq Points
  /\ {"idle", "init_lock", "bump_lock", "r_record", "r_empty", "r_remove",
      "r_unlink"} \cap Critical = {}
BY DEF Critical, Points, Before

\* Clients and recoveries are processes.
LEMMA ProcsType == Clients \subseteq Procs /\ Recoverers \subseteq Procs
BY DEF Procs

\* A move of the program counter keeps the types of the locals.
LEMMA GotoType ==
  ASSUME ProcTypes, NEW p \in Procs, NEW l \in Points, Goto(p, l),
         UNCHANGED <<kind, base, txn>>
  PROVE  ProcTypes'
BY DEF ProcTypes, Goto

\* So does a return.
LEMMA ReturnType ==
  ASSUME ProcTypes, NEW p \in Procs, Return(p)
  PROVE  ProcTypes'
<1>1. 0 \in 0..MaxTxns /\ NoRecord \in Record
  BY RegistryAssumption DEF NoRecord, Record
<1> QED
  BY <1>1, PointsType DEF ProcTypes, Return, Goto

\* A journal takes the next transaction.
LEMMA JournalType ==
  ASSUME ProcTypes, DiskTypes, NEW p \in Procs, NEW l \in Points,
         WriteJournal(p, l), UNCHANGED <<kind, base>>
  PROVE  /\ ProcTypes'
         /\ nextTxn \in Txns /\ nextTxn' = nextTxn + 1 /\ nextTxn' \in 1..(MaxTxns + 1)
         /\ journals' \subseteq Txns
         /\ txn' = [txn EXCEPT ![p] = nextTxn]
         /\ pc' = [pc EXCEPT ![p] = l]
<1>1. nextTxn \in Txns /\ nextTxn \in 0..MaxTxns /\ nextTxn' \in 1..(MaxTxns + 1)
  BY RegistryAssumption DEF WriteJournal, DiskTypes, Txns
<1> QED
  BY <1>1 DEF WriteJournal, ProcTypes, DiskTypes, Goto

\* A host without the tenant satisfies the invariant.
LEMMA InitIInv == Init => IInv
<1> SUFFICES ASSUME Init PROVE IInv
  OBVIOUS
<1>1. 0 \in 0..MaxTxns /\ NoRecord \in Record /\ 1 \in 1..(MaxTxns + 1)
  BY RegistryAssumption DEF NoRecord, Record
<1>2. ProcTypes
  BY <1>1, PointsType DEF Init, ProcTypes
<1>3. DiskTypes
  BY <1>1, RegistryAssumption DEF Init, DiskTypes, NoRecord
<1>4. HistoryInv
  BY FS_EmptySet DEF Init, HistoryInv, NoLostUpdate, NoRecord, Exists
<1>5. LockInv
  BY PointsType DEF Init, LockInv, Before, Critical
<1> QED
  BY <1>2, <1>3, <1>4, <1>5 DEF IInv

\* A bumped record is one revision on, its epoch at most one, both within the
\* safe integer.
LEMMA BumpedType ==
  ASSUME DiskTypes, NEW k \in {"epoch", "revision"}, ~Overflows(k), NEW t \in Txns
  PROVE  LET new == [revision |-> Bumped(k).revision, epoch |-> Bumped(k).epoch,
                     receipt |-> t]
         IN  /\ new \in Record
             /\ new.revision = record.revision + 1
             /\ new.epoch \in {record.epoch, record.epoch + 1}
             /\ new.epoch <= new.revision /\ new.revision <= MaxSafeInt
<1>1. record.revision \in Nat /\ record.epoch \in Nat /\ t \in Nat
  BY DEF DiskTypes, Record, Txns
<1>2. record.revision < MaxSafeInt
  BY <1>1, RegistryAssumption DEF Overflows
<1> QED
  BY <1>1, <1>2, RegistryAssumption DEF Bumped, Record, DiskTypes

-----------------------------------------------------------------------------
(* The step that matters: a write of the record, and it counts once.       *)

\* A record that is one revision on accounts for one more acknowledged write.
LEMMA RecordWritten ==
  ASSUME IInv, NEW p \in Procs, pc[p] \in {"init_record", "commit"},
         written' = written \cup {txn[p]}, record'.revision = record.revision + 1,
         record' \in Record, record'.epoch > 0, nextTxn' = nextTxn
  PROVE  HistoryInv'
<1>1. txn[p] \in Txns /\ txn[p] < nextTxn /\ txn[p] \notin written
  BY DEF IInv, LockInv, Before
<1>2. IsFiniteSet(written') /\ Cardinality(written') = Cardinality(written) + 1
  BY <1>1, FS_AddElement DEF IInv, HistoryInv
<1>3. record.revision \in Nat /\ record'.revision > 0
  BY DEF IInv, DiskTypes, Record
<1> QED
  BY <1>1, <1>2, <1>3 DEF IInv, HistoryInv, NoLostUpdate


-----------------------------------------------------------------------------
(* One lemma per group of actions.                                         *)

\* A process that gives up whatever it had, the files being as they were but
\* for journals, receipts, directories and the projection.
LEMMA ReturnStep ==
  ASSUME IInv, NEW p \in Procs, Return(p), UNCHANGED <<record, histVars>>
  PROVE  HistoryInv' /\ LockInv'
<1>1. HistoryInv'
  BY DEF IInv, HistoryInv, NoLostUpdate, Exists, histVars
<1>2. pc'[p] = "idle" /\ \A q \in Procs : q # p => /\ pc'[q] = pc[q] /\ txn'[q] = txn[q]
                                                  /\ kind'[q] = kind[q] /\ base'[q] = base[q]
  BY DEF Return, Goto, IInv, ProcTypes
<1>3. LockInv'
  <2>1. \A q \in Procs : pc'[q] # "idle" => q # p
    BY <1>2
  <2> QED
    BY <1>2, <2>1, PointsType DEF IInv, LockInv, Before, Exists, AsExpected, Overflows, histVars
<1> QED
  BY <1>1, <1>3

\* The steps of init_tenant keep the invariant.
LEMMA InitSteps ==
  ASSUME IInv, NEW p \in Clients,
         StartInit(p) \/ InitJournal(p) \/ TenantExists(p) \/ InitTree(p) \/ InitRecord(p)
  PROVE  IInv'
<1> USE DEF IInv, diskVars, histVars
<1>p. p \in Procs
  BY ProcsType
<1>1. CASE StartInit(p)
  <2>1. ProcTypes'
    BY <1>p, <1>1, GotoType, PointsType DEF StartInit
  <2>2. DiskTypes' /\ HistoryInv'
    BY <1>1 DEF StartInit, DiskTypes, HistoryInv, NoLostUpdate, Exists
  <2>3. LockInv'
    BY <1>p, <1>1 DEF StartInit, Goto, LockInv, ProcTypes, Critical, Before, Exists,
       AsExpected, Overflows
  <2> QED
    BY <2>1, <2>2, <2>3
<1>2. CASE InitJournal(p)
  <2>1. /\ ProcTypes' /\ nextTxn \in Txns /\ nextTxn' = nextTxn + 1
        /\ nextTxn' \in 1..(MaxTxns + 1) /\ journals' \subseteq Txns
        /\ txn' = [txn EXCEPT ![p] = nextTxn] /\ pc' = [pc EXCEPT ![p] = "init_tree"]
    BY <1>p, <1>2, JournalType, PointsType DEF InitJournal, Critical
  <2>2. DiskTypes'
    BY <1>2, <2>1 DEF InitJournal, DiskTypes
  <2>3. HistoryInv'
    BY <1>2, <2>1 DEF InitJournal, HistoryInv, NoLostUpdate, Exists, Txns
  <2>4. LockInv'
    BY <1>p, <1>2, <2>1 DEF InitJournal, Locked, LockInv, ProcTypes, HistoryInv, Critical,
       Before, Exists, AsExpected, Overflows, Txns
  <2> QED
    BY <2>1, <2>2, <2>3, <2>4
<1>3. CASE TenantExists(p)
  BY <1>p, <1>3, ReturnType, ReturnStep DEF TenantExists, DiskTypes
<1>4. CASE InitTree(p)
  <2>1. ProcTypes'
    BY <1>p, <1>4, GotoType, PointsType DEF InitTree, Critical
  <2>2. DiskTypes' /\ HistoryInv'
    BY <1>4 DEF InitTree, DiskTypes, HistoryInv, NoLostUpdate, Exists
  <2>3. LockInv'
    BY <1>p, <1>4 DEF InitTree, Goto, LockInv, ProcTypes, Critical, Before, Exists,
       AsExpected, Overflows
  <2> QED
    BY <2>1, <2>2, <2>3
<1>5. CASE InitRecord(p)
  <2>1. ProcTypes'
    BY <1>p, <1>5, GotoType, PointsType DEF InitRecord, Critical
  <2>2. txn[p] \in Txns /\ record = NoRecord
    BY <1>p, <1>5 DEF InitRecord, LockInv, Before, Exists
  <2>3. record' \in Record /\ record'.revision = record.revision + 1 /\ record'.epoch = 1
    BY <1>5, <2>2 DEF InitRecord, Record, NoRecord, Txns
  <2>4. DiskTypes'
    BY <1>5, <2>3, RegistryAssumption DEF InitRecord, DiskTypes
  <2>5. HistoryInv'
    BY <1>p, <1>5, <2>3, RecordWritten DEF InitRecord
  <2>6. Exists'
    BY <2>3 DEF Exists, NoRecord, DiskTypes, Record
  <2>7. LockInv'
    BY <1>p, <1>5, <2>6 DEF InitRecord, Goto, LockInv, ProcTypes, Critical, Before
  <2> QED
    BY <2>1, <2>4, <2>5, <2>7
<1> QED
  BY <1>1, <1>2, <1>3, <1>4, <1>5

\* The steps of both bumps keep it.
LEMMA BumpSteps ==
  ASSUME IInv, NEW p \in Clients,
         \/ \E k \in {"epoch", "revision"} : StartBump(p, k)
         \/ BumpJournal(p) \/ BumpRefused(p) \/ CommitRecord(p)
  PROVE  IInv'
<1> USE DEF IInv, diskVars, histVars
<1>p. p \in Procs
  BY ProcsType
<1>1. ASSUME NEW k \in {"epoch", "revision"}, StartBump(p, k)
      PROVE  IInv'
  <2>1. ProcTypes'
    BY <1>p, <1>1, PointsType DEF StartBump, Goto, ProcTypes, DiskTypes
  <2>2. DiskTypes' /\ HistoryInv'
    BY <1>1 DEF StartBump, DiskTypes, HistoryInv, NoLostUpdate, Exists
  <2>3. LockInv'
    BY <1>p, <1>1 DEF StartBump, Goto, LockInv, ProcTypes, Critical, Before, Exists,
       AsExpected, Overflows
  <2> QED
    BY <2>1, <2>2, <2>3
<1>2. CASE BumpJournal(p)
  <2>1. /\ ProcTypes' /\ nextTxn \in Txns /\ nextTxn' = nextTxn + 1
        /\ nextTxn' \in 1..(MaxTxns + 1) /\ journals' \subseteq Txns
        /\ txn' = [txn EXCEPT ![p] = nextTxn] /\ pc' = [pc EXCEPT ![p] = "commit"]
    BY <1>p, <1>2, JournalType, PointsType DEF BumpJournal, Critical
  <2>2. DiskTypes'
    BY <1>2, <2>1 DEF BumpJournal, DiskTypes
  <2>3. HistoryInv'
    BY <1>2, <2>1 DEF BumpJournal, HistoryInv, NoLostUpdate, Exists, Txns
  <2>4. Exists
    BY <1>p, <1>2 DEF BumpJournal, LockInv
  <2>5. LockInv'
    BY <1>p, <1>2, <2>1, <2>4 DEF BumpJournal, Locked, LockInv, ProcTypes, HistoryInv,
       Critical, Before, Exists, AsExpected, Overflows, Txns
  <2> QED
    BY <2>1, <2>2, <2>3, <2>5
<1>3. CASE BumpRefused(p)
  BY <1>p, <1>3, ReturnType, ReturnStep DEF BumpRefused, DiskTypes
<1>4. CASE CommitRecord(p)
  <2>1. ProcTypes'
    BY <1>p, <1>4, GotoType, PointsType DEF CommitRecord, Critical
  <2>2. txn[p] \in Txns /\ ~Overflows(kind[p]) /\ kind[p] \in {"epoch", "revision"} /\ Exists
    BY <1>p, <1>4 DEF CommitRecord, LockInv, Before, ProcTypes
  <2>3. /\ record' \in Record /\ record'.revision = record.revision + 1
        /\ record'.epoch \in {record.epoch, record.epoch + 1}
        /\ record'.epoch <= record'.revision /\ record'.revision <= MaxSafeInt
    BY <1>4, <2>2, BumpedType DEF CommitRecord
  <2>4. DiskTypes'
    BY <1>4, <2>3 DEF CommitRecord, DiskTypes
  <2>5. record'.epoch > 0
    BY <2>2, <2>3 DEF HistoryInv, DiskTypes, Record
  <2>6. HistoryInv'
    BY <1>p, <1>4, <2>3, <2>5, RecordWritten DEF CommitRecord
  <2>7. Exists'
    BY <2>3 DEF Exists, NoRecord, DiskTypes, Record
  <2>8. LockInv'
    BY <1>p, <1>4, <2>7 DEF CommitRecord, Goto, LockInv, ProcTypes, Critical, Before
  <2> QED
    BY <2>1, <2>4, <2>6, <2>8
<1> QED
  BY <1>1, <1>2, <1>3, <1>4

\* The end of both transactions.
LEMMA FinishSteps ==
  ASSUME IInv, NEW p \in Clients,
         WriteReceipt(p) \/ UnlinkJournal(p) \/ WriteProjection(p)
  PROVE  IInv'
<1> USE DEF IInv, diskVars, histVars
<1>p. p \in Procs
  BY ProcsType
<1>1. CASE WriteReceipt(p)
  <2>1. ProcTypes' /\ txn[p] \in Txns
    BY <1>p, <1>1, GotoType, PointsType DEF WriteReceipt, LockInv, Critical
  <2>2. DiskTypes' /\ HistoryInv'
    BY <1>1, <2>1 DEF WriteReceipt, DiskTypes, HistoryInv, NoLostUpdate, Exists
  <2>3. LockInv'
    BY <1>p, <1>1 DEF WriteReceipt, Goto, LockInv, ProcTypes, Critical, Before, Exists,
       AsExpected, Overflows
  <2> QED
    BY <2>1, <2>2, <2>3
<1>2. CASE UnlinkJournal(p)
  <2>1. ProcTypes'
    BY <1>p, <1>2, GotoType, PointsType DEF UnlinkJournal, Critical
  <2>2. DiskTypes' /\ HistoryInv'
    BY <1>2 DEF UnlinkJournal, DiskTypes, HistoryInv, NoLostUpdate, Exists
  <2>3. LockInv'
    BY <1>p, <1>2 DEF UnlinkJournal, Goto, LockInv, ProcTypes, Critical, Before, Exists,
       AsExpected, Overflows
  <2> QED
    BY <2>1, <2>2, <2>3
<1>3. CASE WriteProjection(p)
  <2>1. DiskTypes'
    BY <1>3 DEF WriteProjection, DiskTypes, Record
  <2> QED
    BY <1>p, <1>3, <2>1, ReturnType, ReturnStep DEF WriteProjection
<1> QED
  BY <1>1, <1>2, <1>3

\* recover() touches neither the record nor the history.
LEMMA RecoverSteps ==
  ASSUME IInv, NEW p \in Recoverers, Recover(p) \/ \E t \in Txns : RecoverJournal(p, t)
  PROVE  IInv'
<1> USE DEF IInv, diskVars, histVars
<1>p. p \in Procs
  BY ProcsType
<1>1. ASSUME NEW t \in Txns, RecoverJournal(p, t)
      PROVE  IInv'
  <2>1. ProcTypes'
    BY <1>p, <1>1, PointsType DEF RecoverJournal, Goto, ProcTypes, Txns
  <2>2. DiskTypes' /\ HistoryInv'
    BY <1>1 DEF RecoverJournal, DiskTypes, HistoryInv, NoLostUpdate, Exists
  <2>3. LockInv'
    BY <1>p, <1>1 DEF RecoverJournal, Goto, LockInv, ProcTypes, Critical, Before, Exists,
       AsExpected, Overflows
  <2> QED
    BY <2>1, <2>2, <2>3
<1>2. CASE RecoverRecord(p) \/ RollbackCheck(p)
  <2>1. ProcTypes'
    BY <1>p, <1>2, GotoType, PointsType DEF RecoverRecord, RollbackCheck
  <2>2. DiskTypes' /\ HistoryInv'
    BY <1>2 DEF RecoverRecord, RollbackCheck, DiskTypes, HistoryInv, NoLostUpdate, Exists
  <2>3. LockInv'
    BY <1>p, <1>2 DEF RecoverRecord, RollbackCheck, Goto, LockInv, ProcTypes, Critical,
       Before, Exists, AsExpected, Overflows
  <2> QED
    BY <2>1, <2>2, <2>3
<1>3. CASE RollbackRemove(p)
  <2>1. ProcTypes'
    BY <1>p, <1>3, GotoType, PointsType DEF RollbackRemove
  <2>2. DiskTypes' /\ HistoryInv'
    BY <1>3 DEF RollbackRemove, DiskTypes, HistoryInv, NoLostUpdate, Exists
  <2>3. LockInv'
    BY <1>p, <1>3 DEF RollbackRemove, Goto, LockInv, ProcTypes, Critical,
       Before, Exists, AsExpected, Overflows
  <2> QED
    BY <2>1, <2>2, <2>3
<1>4. CASE RecoverUnlink(p)
  <2>1. DiskTypes'
    BY <1>4 DEF RecoverUnlink, DiskTypes
  <2> QED
    BY <1>p, <1>4, <2>1, ReturnType, ReturnStep DEF RecoverUnlink
<1> QED
  BY <1>1, <1>2, <1>3, <1>4 DEF Recover

\* A process that stops leaves its files.
LEMMA StopStep ==
  ASSUME IInv, NEW p \in Procs, Stop(p)
  PROVE  IInv'
<1>1. DiskTypes'
  BY DEF IInv, Stop, DiskTypes, diskVars, histVars
<1> QED
  BY <1>1, ReturnType, ReturnStep DEF IInv, Stop, diskVars

\* A step that changes nothing keeps it.
LEMMA StutterStep ==
  ASSUME IInv, UNCHANGED vars
  PROVE  IInv'
BY DEF vars, diskVars, histVars, procVars, IInv, ProcTypes, DiskTypes, HistoryInv, LockInv,
       NoLostUpdate, Exists, AsExpected, Overflows

\* Every step keeps the invariant.
LEMMA InvariantStep == IInv /\ [Next]_vars => IInv'
<1> SUFFICES ASSUME IInv, [Next]_vars PROVE IInv'
  OBVIOUS
<1>1. CASE UNCHANGED vars
  BY <1>1, StutterStep
<1>2. ASSUME NEW p \in Clients,
             StartInit(p) \/ Transact(p) \/ \E k \in {"epoch", "revision"} : StartBump(p, k)
      PROVE  IInv'
  BY <1>2, InitSteps, BumpSteps, FinishSteps DEF Transact
<1>3. ASSUME NEW p \in Recoverers, Recover(p) \/ \E t \in Txns : RecoverJournal(p, t)
      PROVE  IInv'
  BY <1>3, RecoverSteps
<1>4. ASSUME NEW p \in Procs, Stop(p)
      PROVE  IInv'
  BY <1>4, StopStep
<1> QED
  BY <1>1, <1>2, <1>3, <1>4 DEF Next


-----------------------------------------------------------------------------
(* The theorems.                                                           *)

\* The inductive invariant: the lock keeps what was checked under it true.
THEOREM Invariant == Spec => []IInv
BY InitIInv, InvariantStep, PTL DEF Spec

\* Every record write is one revision and none is lost: a tenant is created
\* once, and no bump overwrites one it had not seen (_commit_record).
THEOREM EveryUpdateCounts == Spec => []NoLostUpdate
<1>1. IInv => NoLostUpdate
  BY DEF IInv, HistoryInv
<1> QED
  BY <1>1, Invariant, PTL

\* Types, with auth_epoch never ahead of record_revision, and neither beyond
\* the last safe integer (_monotonic).
THEOREM TypeCorrect == Spec => []TypeOK
<1>1. IInv => TypeOK
  BY DEF IInv, ProcTypes, DiskTypes, HistoryInv, TypeOK
<1> QED
  BY <1>1, Invariant, PTL

\* What a client of the registry may rely on: the tenant's two counters are
\* those of EpochRegister, whatever dies, and whatever recover() does.
THEOREM Refinement == Spec => ImplementsRegister
<1>1. Init => Register!Init
  BY DEF Init, NoRecord, Register!Init
<1>2. IInv /\ [Next]_vars => [Register!Next]_(Register!vars)
  <2> SUFFICES ASSUME IInv, [Next]_vars
               PROVE  Register!Next \/ UNCHANGED record
    BY DEF Register!vars
  <2>1. CASE UNCHANGED vars
    BY <2>1 DEF vars, diskVars
  <2>2. ASSUME NEW p \in Clients, InitRecord(p)
        PROVE  Register!Create
    <3>1. record = NoRecord
      BY <2>2, ProcsType DEF InitRecord, IInv, LockInv, Exists
    <3> QED
      BY <2>2, <3>1 DEF InitRecord, NoRecord, Register!Create
  <2>3. ASSUME NEW p \in Clients, CommitRecord(p)
        PROVE  Register!BumpEpoch \/ Register!BumpRevision
    <3>1. record.revision > 0
      BY <2>3, ProcsType DEF CommitRecord, IInv, LockInv, HistoryInv
    <3> QED
      BY <2>3, <3>1 DEF CommitRecord, Bumped, Register!BumpEpoch, Register!BumpRevision
  <2>4. ASSUME NEW p \in Clients,
               \/ StartInit(p) \/ \E k \in {"epoch", "revision"} : StartBump(p, k)
               \/ InitJournal(p) \/ TenantExists(p) \/ InitTree(p)
               \/ BumpJournal(p) \/ BumpRefused(p)
               \/ WriteReceipt(p) \/ UnlinkJournal(p) \/ WriteProjection(p)
        PROVE  UNCHANGED record
    BY <2>4 DEF StartInit, StartBump, InitJournal, TenantExists, InitTree, BumpJournal,
       BumpRefused, WriteReceipt, UnlinkJournal, WriteProjection, diskVars
  <2>5. ASSUME NEW p \in Recoverers, Recover(p) \/ \E t \in Txns : RecoverJournal(p, t)
        PROVE  UNCHANGED record
    BY <2>5 DEF Recover, RecoverRecord, RollbackCheck, RollbackRemove, RecoverUnlink,
       RecoverJournal, diskVars
  <2>6. ASSUME NEW p \in Procs, Stop(p)
        PROVE  UNCHANGED record
    BY <2>6 DEF Stop, diskVars
  <2> QED
    BY <2>1, <2>2, <2>3, <2>4, <2>5, <2>6 DEF Next, Transact, Register!Next
<1> QED
  BY <1>1, <1>2, Invariant, PTL DEF Spec, ImplementsRegister, Register!Spec
=============================================================================
