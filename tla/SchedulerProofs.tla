-------------------------- MODULE SchedulerProofs ---------------------------
(***************************************************************************)
(* Proofs about Scheduler.tla, for every number of threads and every block *)
(* size.  The invariants about ownership (who executes, who waits, who     *)
(* resumes) are inductive only together and with the mutexes: LockInv says *)
(* what the holder of a status mutex may rely on.                          *)
(***************************************************************************)
EXTENDS Scheduler, BlockSets, TLAPS

\* The default prover of this module; a leaf with arithmetic names SMT.
USE ZenonT(40)

(***************************************************************************)
(* TypeOK with the range of the index register, which bounds the operands  *)
(* of the fetch_min operations.                                            *)
(***************************************************************************)
TypeInv ==
  /\ TypeOK
  /\ \A th \in Threads :
       /\ pc[th] # "load_min" => idx[th] \in 0 .. block_size
       /\ pc[th] \in {"drain_idx", "add_dep"} => idx[th] \in Tx

(***************************************************************************)
(* The status mutexes: two threads never hold the same one; while          *)
(* add_dependency holds the mutex of the blocking transaction that one     *)
(* does not finish; and once finish_execution has drained the dependents   *)
(* no new one arrives before the mutex is released.                        *)
(***************************************************************************)
LockInv ==
  /\ \A th, other \in Threads :
       pc[th] \in HoldsStatus /\ pc[other] = "add_dep" =>
         idx[other] # ver[th].tx_idx
  /\ \A th \in Threads : pc[th] = "add_dep" =>
       tx_status[idx[th]].status \notin {"Executed", "Validated"}
  /\ \A th \in Threads : pc[th] \in HoldsStatus \ {"drain", "drain_idx"} =>
       tx_dependency[ver[th].tx_idx] = {}

OwnInv == ExclusiveExecution /\ DependentsWait /\ AbortedHasResumer /\ LockInv

IInv == TypeInv /\ OwnInv

-----------------------------------------------------------------------------
(***************************************************************************)
(* Type correctness.                                                       *)
(***************************************************************************)
LEMMA InitType == Init => TypeInv
<1> SUFFICES ASSUME Init PROVE TypeInv
  OBVIOUS
<1> USE BlockSizeAssumption DEF Init, Tx
<1>1. tx_status \in [Tx -> TxStatus] /\ tx_dependency \in [Tx -> SUBSET Tx]
  BY DEF TxStatus, IncarnationStatus
<1>2. /\ execution_idx \in 0 .. block_size
      /\ validation_idx \in 0 .. block_size
      /\ min_validation_idx \in 0 .. block_size
      /\ num_validated \in Int
      /\ abort_reason \in AbortReason \cup {"none"}
  BY SMTT(30)
<1>3. aborted \in BOOLEAN
  OBVIOUS
<1>4. pc \in [Threads -> Label] /\ \A th \in Threads : pc[th] = "next"
  BY DEF Label
<1>5. ver \in [Threads -> [tx_idx : Tx, tx_incarnation : Nat]]
  BY SMTT(30) DEF NoVersion
<1>6. idx \in [Threads -> Int] /\ \A th \in Threads : idx[th] = 0
  BY SMTT(30)
<1>7. flags \in [Threads -> SUBSET Bit]
  OBVIOUS
<1> QED
  BY <1>1, <1>2, <1>4, <1>5, <1>6, <1>7, <1>3 DEF TypeInv, TypeOK

\* The flags Vm::execute reports are a set of bits.
LEMMA FlagsType == \A t \in Tx, lazy, wrote \in BOOLEAN : ExecFlags(t, lazy, wrote) \in SUBSET Bit
  BY DEF ExecFlags, NeedValidation, WroteNewLocation, Bit

\* set_ready_status leaves well-formed statuses.
LEMMA ReadyType ==
  ASSUME tx_status \in [Tx -> TxStatus], NEW t \in Tx, SetReadyStatus(t)
  PROVE  tx_status' \in [Tx -> TxStatus]
  BY SMTT(30) DEF SetReadyStatus, TxStatus, IncarnationStatus

\* Setting the status of one transaction leaves well-formed statuses.
LEMMA StatusType ==
  ASSUME tx_status \in [Tx -> TxStatus], NEW t \in Tx,
         NEW s \in IncarnationStatus, SetStatus(t, s)
  PROVE  tx_status' \in [Tx -> TxStatus]
  BY DEF SetStatus, TxStatus

VersionMaps == [Threads -> [tx_idx : Tx, tx_incarnation : Nat]]

\* A thread that takes a task holds a version of the block.
LEMMA HoldType ==
  ASSUME ver \in VersionMaps, NEW th \in Threads, NEW t \in Tx, NEW i \in Nat, Hold(th, t, i)
  PROVE  ver' \in VersionMaps
  BY DEF Hold, VersionMaps

\* A thread that gives its task up holds the version of no task.
LEMMA ReleaseType ==
  ASSUME ver \in VersionMaps, NEW th \in Threads, Release(th)
  PROVE  ver' \in VersionMaps
  BY BlockSizeAssumption, SMTT(30) DEF Release, NoVersion, VersionMaps, Tx

\* The version a thread holds names a transaction and an incarnation.
LEMMA VersionOf ==
  ASSUME TypeOK, NEW th \in Threads
  PROVE  /\ ver[th].tx_idx \in Tx
         /\ tx_status[ver[th].tx_idx].incarnation \in Nat
         /\ tx_status[ver[th].tx_idx].status \in IncarnationStatus
  BY DEF TypeOK, TxStatus

\* Every step of the scheduler keeps the types.
LEMMA TypeStep == TypeInv /\ [Next]_vars => TypeInv'
<1> SUFFICES ASSUME TypeInv, [Next]_vars PROVE TypeInv'
  OBVIOUS
<1> USE BlockSizeAssumption, VersionOf DEF TypeInv, TypeOK, VersionMaps, Tx, Goto,
        txVars, indices, abortVars, Label, ExecutionLabels, ValidationLabels,
        HoldsStatus, ReturnLabels, AbortReason
<1>1. ASSUME NEW th \in Threads, CheckAborted(th) PROVE TypeInv'
  BY <1>1 DEF CheckAborted
<1>2. ASSUME NEW th \in Threads, LoadExecutionIdx(th) PROVE TypeInv'
  BY <1>2, SMTT(30) DEF LoadExecutionIdx
<1>3. ASSUME NEW th \in Threads, LoadValidationIdx(th) PROVE TypeInv'
  BY <1>3, SMTT(30) DEF LoadValidationIdx
<1>4. ASSUME NEW th \in Threads, LoadNumValidated(th) PROVE TypeInv'
  BY <1>4 DEF LoadNumValidated
<1>5. ASSUME NEW th \in Threads, LoadMinValidationIdx(th) PROVE TypeInv'
  BY <1>5, SMTT(30) DEF LoadMinValidationIdx
<1>6. ASSUME NEW th \in Threads, TakeValidationIdx(th) PROVE TypeInv'
  <2>1. ver' \in VersionMaps
    BY <1>6, HoldType, SMTT(30) DEF TakeValidationIdx
  <2>2. validation_idx' \in 0 .. block_size
    BY <1>6, SMTT(30) DEF TakeValidationIdx, FetchAdd
  <2> QED
    BY <1>6, <2>1, <2>2, ZenonT(40) DEF TakeValidationIdx
<1>7. ASSUME NEW th \in Threads, PeekStatus(th) PROVE TypeInv'
  <2>1. tx_status' \in [Tx -> TxStatus]
    BY <1>7, StatusType DEF PeekStatus, IncarnationStatus
  <2>2. ver' \in VersionMaps
    BY <1>7, HoldType, ReleaseType DEF PeekStatus
  <2> QED
    BY <1>7, <2>1, <2>2, ZenonT(40) DEF PeekStatus
<1>8. ASSUME NEW th \in Threads, TakeExecutionIdx(th) PROVE TypeInv'
  <2>1. ver' \in VersionMaps
    BY <1>8, HoldType, SMTT(30) DEF TakeExecutionIdx
  <2>2. execution_idx' \in 0 .. block_size
    BY <1>8, SMTT(30) DEF TakeExecutionIdx, FetchAdd
  <2> QED
    BY <1>8, <2>1, <2>2, ZenonT(40) DEF TakeExecutionIdx
<1>9. ASSUME NEW th \in Threads, TryExecute(th) PROVE TypeInv'
  <2>1. tx_status' \in [Tx -> TxStatus]
    BY <1>9, StatusType DEF TryExecute, IncarnationStatus
  <2>2. ver' \in VersionMaps
    BY <1>9, HoldType, ReleaseType DEF TryExecute
  <2> QED
    BY <1>9, <2>1, <2>2, ZenonT(40) DEF TryExecute
<1>10. ASSUME NEW th \in Threads, ResumeDependent(th) PROVE TypeInv'
  <2>1. PICK j \in tx_dependency[ver[th].tx_idx] :
          /\ tx_dependency' = [tx_dependency EXCEPT ![ver[th].tx_idx] = @ \ {j}]
          /\ SetReadyStatus(j)
          /\ idx' = [idx EXCEPT ![th] = j]
    BY <1>10 DEF ResumeDependent
  <2>2. j \in Tx
    OBVIOUS
  <2>3. tx_status' \in [Tx -> TxStatus]
    BY <2>1, <2>2, ReadyType
  <2>4. tx_dependency' \in [Tx -> SUBSET Tx]
    BY <2>1
  <2>5. idx' \in [Threads -> Int] /\ \A o \in Threads : idx'[o] = IF o = th THEN j ELSE idx[o]
    BY <2>1, <2>2, SMTT(30)
  <2> QED
    BY <1>10, <2>2, <2>3, <2>4, <2>5, SMTT(30) DEF ResumeDependent
<1>11. ASSUME NEW th \in Threads, LowerExecutionIdx(th) PROVE TypeInv'
  BY <1>11, SMTT(30) DEF LowerExecutionIdx, Min2
<1>12. ASSUME NEW th \in Threads, LowerMinValidationIdx(th) PROVE TypeInv'
  BY <1>12, SMTT(30) DEF LowerMinValidationIdx, Min2
<1>13. ASSUME NEW th \in Threads, CompareValidationIdx(th) PROVE TypeInv'
  BY <1>13 DEF CompareValidationIdx
<1>14. ASSUME NEW th \in Threads, LowerValidationIdx(th) PROVE TypeInv'
  BY <1>14 DEF LowerValidationIdx, Min2
<1>15. ASSUME NEW th \in Threads, SetExecutedStatus(th) PROVE TypeInv'
  <2>1. tx_status' \in [Tx -> TxStatus]
    BY <1>15, StatusType DEF SetExecutedStatus, IncarnationStatus
  <2>2. ver' \in VersionMaps
    BY <1>15, ReleaseType DEF SetExecutedStatus
  <2>3. num_validated' \in Int /\ flags' \in [Threads -> SUBSET Bit]
    BY <1>15, SMTT(30) DEF SetExecutedStatus
  <2>4. /\ pc' \in [Threads -> Label]
        /\ pc'[th] \notin {"load_min", "drain_idx", "add_dep"}
        /\ \A o \in Threads \ {th} : pc'[o] = pc[o]
    BY <1>15, ZenonT(40) DEF SetExecutedStatus
  <2>5. /\ idx' \in [Threads -> Int]
        /\ \A o \in Threads : idx'[o] = IF o = th THEN 0 ELSE idx[o]
    BY <1>15, SMTT(30) DEF SetExecutedStatus
  <2> QED
    BY <1>15, <2>1, <2>2, <2>3, <2>4, <2>5, SMTT(30), ZenonT(40) DEF SetExecutedStatus
<1>16. ASSUME NEW th \in Threads, AddDependency(th) PROVE TypeInv'
  <2>1. tx_status' \in [Tx -> TxStatus]
    BY <1>16, StatusType DEF AddDependency, IncarnationStatus
  <2>2. ver' \in VersionMaps
    BY <1>16, ReleaseType DEF AddDependency
  <2>3. tx_dependency' \in [Tx -> SUBSET Tx]
    BY <1>16, SMTT(30) DEF AddDependency
  <2>4. /\ pc' \in [Threads -> Label]
        /\ pc'[th] \notin {"load_min", "drain_idx", "add_dep"}
        /\ \A o \in Threads \ {th} : pc'[o] = pc[o]
    BY <1>16 DEF AddDependency
  <2>5. /\ idx' \in [Threads -> Int]
        /\ \A o \in Threads : idx'[o] = IF o = th THEN 0 ELSE idx[o]
    BY <1>16, SMTT(30) DEF AddDependency
  <2> QED
    BY <1>16, <2>1, <2>2, <2>3, <2>4, <2>5, SMTT(30), ZenonT(40) DEF AddDependency
<1>17. ASSUME NEW th \in Threads, InitAbortReason(th) PROVE TypeInv'
  BY <1>17, ReleaseType DEF InitAbortReason
<1>18. ASSUME NEW th \in Threads, TryValidationAbort(th) PROVE TypeInv'
  <2>1. tx_status' \in [Tx -> TxStatus]
    BY <1>18, StatusType DEF TryValidationAbort, IncarnationStatus
  <2>2. num_validated' \in Int
    BY <1>18, SMTT(30) DEF TryValidationAbort
  <2> QED
    BY <1>18, <2>1, <2>2, ZenonT(40) DEF TryValidationAbort
<1>19. ASSUME NEW th \in Threads, RescheduleAborted(th) PROVE TypeInv'
  <2>1. tx_status' \in [Tx -> TxStatus]
    BY <1>19, ReadyType DEF RescheduleAborted
  <2> QED
    BY <1>19, <2>1 DEF RescheduleAborted
<1>20. ASSUME NEW th \in Threads, LowerValidationIdxAborted(th) PROVE TypeInv'
  BY <1>20, SMTT(30), ZenonT(40) DEF LowerValidationIdxAborted, Min2
<1>21. ASSUME NEW th \in Threads, CheckExecutionIdx(th) PROVE TypeInv'
  BY <1>21, ReleaseType, ZenonT(40) DEF CheckExecutionIdx
<1>22. ASSUME NEW th \in Threads, ConfirmValidated(th) PROVE TypeInv'
  <2>1. tx_status' \in [Tx -> TxStatus]
    BY <1>22, StatusType DEF ConfirmValidated, IncarnationStatus
  <2>2. ver' \in VersionMaps
    BY <1>22, ReleaseType DEF ConfirmValidated
  <2>3. num_validated' \in Int
    BY <1>22, SMTT(30) DEF ConfirmValidated
  <2> QED
    BY <1>22, <2>1, <2>2, <2>3 DEF ConfirmValidated
<1>23. ASSUME NEW th \in Threads, WorkerLoop(th) PROVE TypeInv'
  BY <1>23, ReleaseType, ZenonT(40) DEF WorkerLoop
<1>24. ASSUME NEW th \in Threads, Succeed(th) PROVE TypeInv'
  <2>1. ASSUME NEW fl \in SUBSET Bit, FinishExecution(th, fl) PROVE TypeInv'
    BY <2>1 DEF FinishExecution
  <2>2. ASSUME ReadSetChecked(th, TRUE) PROVE TypeInv'
    BY <2>2 DEF ReadSetChecked
  <2> QED
    BY <1>24, <2>1, <2>2, FlagsType DEF Succeed
<1>25. ASSUME NEW th \in Threads, Setback(th) PROVE TypeInv'
  <2>1. ASSUME ExecuteAgain(th) PROVE TypeInv'
    BY <2>1, ReleaseType DEF ExecuteAgain
  <2>2. ASSUME NEW b \in Tx, LockBlocking(th, b) PROVE TypeInv'
    BY <2>2, SMTT(30) DEF LockBlocking
  <2>3. ASSUME NEW reason \in AbortReason, AbortScheduler(th, reason) PROVE TypeInv'
    BY <2>3 DEF AbortScheduler
  <2>4. ASSUME ReadSetChecked(th, FALSE) PROVE TypeInv'
    BY <2>4 DEF ReadSetChecked
  <2> QED
    BY <1>25, <2>1, <2>2, <2>3, <2>4 DEF Setback, AddDependencyLate
<1>26. ASSUME UNCHANGED vars PROVE TypeInv'
  BY <1>26 DEF vars
<1> QED
  BY <1>1, <1>2, <1>3, <1>4, <1>5, <1>6, <1>7, <1>8, <1>9, <1>10, <1>11, <1>12,
     <1>13, <1>14, <1>15, <1>16, <1>17, <1>18, <1>19, <1>20, <1>21, <1>22, <1>23,
     <1>24, <1>25, <1>26 DEF Next, SchedulerStep, Terminated

-----------------------------------------------------------------------------
(***************************************************************************)
(* Ownership.  Two lemmas cover the actions that leave the transactions    *)
(* alone: a thread that has, or gives up, nothing (QuietStep), and one     *)
(* that goes on executing its incarnation (StayStep).                      *)
(***************************************************************************)
OthersSame(th) ==
  \A o \in Threads \ {th} : pc'[o] = pc[o] /\ ver'[o] = ver[o] /\ idx'[o] = idx[o]

(***************************************************************************)
(* What is left to show of ExclusiveExecution when thread th moves: the    *)
(* others keep their transactions, and th has one of its own or none.      *)
(***************************************************************************)
LEMMA ExclusiveKept ==
  ASSUME ExclusiveExecution, NEW th \in Threads, OthersSame(th),
         \A o \in Threads \ {th} : pc[o] \in ExecutionLabels =>
           tx_status'[ver[o].tx_idx] = tx_status[ver[o].tx_idx],
         pc'[th] \in ExecutionLabels =>
           /\ tx_status'[ver'[th].tx_idx] =
                [incarnation |-> ver'[th].tx_incarnation, status |-> "Executing"]
           /\ \A o \in Threads \ {th} : pc[o] \in ExecutionLabels =>
                ver[o].tx_idx # ver'[th].tx_idx
  PROVE  ExclusiveExecution'
<1> SUFFICES ASSUME NEW o \in Threads, pc'[o] \in ExecutionLabels
             PROVE  /\ tx_status'[ver'[o].tx_idx] =
                         [incarnation |-> ver'[o].tx_incarnation, status |-> "Executing"]
                    /\ \A p \in Threads \ {o} : pc'[p] \in ExecutionLabels =>
                         ver'[p].tx_idx # ver'[o].tx_idx
  BY DEF ExclusiveExecution
<1>1. CASE o = th
  BY <1>1 DEF OthersSame
<1>2. CASE o # th
  <2>1. pc[o] \in ExecutionLabels /\ ver'[o] = ver[o]
    BY <1>2 DEF OthersSame
  <2>2. tx_status[ver[o].tx_idx] =
          [incarnation |-> ver[o].tx_incarnation, status |-> "Executing"]
    BY <2>1 DEF ExclusiveExecution
  <2>3. ASSUME NEW p \in Threads \ {o}, pc'[p] \in ExecutionLabels
        PROVE  ver'[p].tx_idx # ver'[o].tx_idx
    <3>1. CASE p = th
      BY <1>2, <2>1, <2>3, <3>1
    <3>2. CASE p # th
      <4>1. pc[p] \in ExecutionLabels /\ ver'[p] = ver[p]
        BY <2>3, <3>2 DEF OthersSame
      <4> QED
        BY <2>1, <4>1, ZenonT(30) DEF ExclusiveExecution
    <3> QED
      BY <3>1, <3>2
  <2> QED
    BY <1>2, <2>1, <2>2, <2>3
<1> QED
  BY <1>1, <1>2

(***************************************************************************)
(* What is left to show of DependentsWait when no dependent is added and   *)
(* only the status of t changes: t waits for nobody, and nobody waits for  *)
(* t once it is executed.                                                  *)
(***************************************************************************)
LEMMA DependentsKept ==
  ASSUME TypeOK, DependentsWait, NEW t \in Tx,
         \A c \in Tx : tx_dependency'[c] \subseteq tx_dependency[c] \ {t},
         \A k \in Tx : k # t => tx_status'[k] = tx_status[k],
         \/ tx_dependency'[t] = {}
         \/ tx_status'[t].status \notin {"Executed", "Validated"}
  PROVE  DependentsWait'
<1> SUFFICES ASSUME NEW c \in Tx, NEW j \in tx_dependency'[c]
             PROVE  /\ tx_status'[j].status = "Aborted"
                    /\ tx_status'[c].status \notin {"Executed", "Validated"}
                    /\ \A d \in Tx \ {c} : j \notin tx_dependency'[d]
  BY DEF DependentsWait
<1>1. j \in tx_dependency[c] /\ j # t
  OBVIOUS
<1>2. j \in Tx
  BY <1>1 DEF TypeOK
<1>3. /\ tx_status[j].status = "Aborted"
      /\ tx_status[c].status \notin {"Executed", "Validated"}
      /\ \A d \in Tx \ {c} : j \notin tx_dependency[d]
  BY <1>1 DEF DependentsWait
<1>4. tx_status'[j].status = "Aborted"
  BY <1>1, <1>2, <1>3
<1>5. tx_status'[c].status \notin {"Executed", "Validated"}
  BY <1>3
<1>6. \A d \in Tx \ {c} : j \notin tx_dependency'[d]
  BY <1>3
<1> QED
  BY <1>4, <1>5, <1>6

(***************************************************************************)
(* What is left to show of AbortedHasResumer when only the transaction t   *)
(* may be aborted or resumed.                                              *)
(***************************************************************************)
LEMMA ResumerMoved ==
  ASSUME AbortedHasResumer, NEW t,
         \A k \in Tx \ {t} : /\ tx_status'[k].status = "Aborted" <=>
                                  tx_status[k].status = "Aborted"
                             /\ Waiting(k)' <=> Waiting(k)
                             /\ \A o \in Threads : Aborting(o, k)' <=> Aborting(o, k),
         tx_status'[t].status = "Aborted" <=>
           Waiting(t)' \/ \E o \in Threads : Aborting(o, t)',
         \A o \in Threads : Aborting(o, t)' =>
           /\ ~Waiting(t)'
           /\ \A p \in Threads \ {o} : ~Aborting(p, t)'
  PROVE  AbortedHasResumer'
<1> SUFFICES ASSUME NEW k \in Tx
             PROVE  /\ tx_status'[k].status = "Aborted" <=>
                         Waiting(k)' \/ \E o \in Threads : Aborting(o, k)'
                    /\ \A o \in Threads : Aborting(o, k)' =>
                         /\ ~Waiting(k)'
                         /\ \A p \in Threads \ {o} : ~Aborting(p, k)'
  BY DEF AbortedHasResumer
<1>1. CASE k = t
  BY <1>1
<1>2. CASE k # t
  BY <1>2 DEF AbortedHasResumer
<1> QED
  BY <1>1, <1>2

\* The same when no transaction is aborted or resumed.
LEMMA ResumerKept ==
  ASSUME AbortedHasResumer,
         \A k \in Tx : /\ tx_status'[k].status = "Aborted" <=> tx_status[k].status = "Aborted"
                       /\ Waiting(k)' <=> Waiting(k)
                       /\ \A o \in Threads : Aborting(o, k)' <=> Aborting(o, k)
  PROVE  AbortedHasResumer'
  BY DEF AbortedHasResumer

\* What is left to show of LockInv when thread th ends without a mutex.
LEMMA LockKept ==
  ASSUME LockInv, NEW th \in Threads, OthersSame(th),
         pc'[th] \notin HoldsStatus \cup {"add_dep"},
         \A o \in Threads \ {th} : pc[o] = "add_dep" =>
           tx_status'[idx[o]].status \notin {"Executed", "Validated"},
         \A o \in Threads \ {th} : pc[o] \in HoldsStatus \ {"drain", "drain_idx"} =>
           tx_dependency'[ver[o].tx_idx] = {}
  PROVE  LockInv'
<1>1. \A o, p \in Threads : pc'[o] \in HoldsStatus /\ pc'[p] = "add_dep" =>
        idx'[p] # ver'[o].tx_idx
  BY SMTT(30) DEF LockInv, OthersSame
<1>2. \A o \in Threads : pc'[o] = "add_dep" =>
        tx_status'[idx'[o]].status \notin {"Executed", "Validated"}
  BY DEF OthersSame
<1>3. \A o \in Threads : pc'[o] \in HoldsStatus \ {"drain", "drain_idx"} =>
        tx_dependency'[ver'[o].tx_idx] = {}
  BY DEF OthersSame
<1> QED
  BY <1>1, <1>2, <1>3 DEF LockInv

\* A step that touches no status and no dependency list, of a thread that owns nothing after it.
LEMMA QuietStep ==
  ASSUME TypeInv, OwnInv, NEW th \in Threads,
         UNCHANGED txVars, OthersSame(th),
         pc[th] # "estimate",
         pc'[th] \notin ExecutionLabels \cup {"estimate"}
  PROVE  OwnInv'
<1> USE DEF txVars, OwnInv
<1>1. ExclusiveExecution'
  BY ExclusiveKept
<1>2. DependentsWait'
  BY DEF DependentsWait
<1>3. AbortedHasResumer'
  <2>1. \A k \in Tx : Waiting(k)' <=> Waiting(k)
    BY DEF Waiting
  <2>2. \A k \in Tx, o \in Threads : Aborting(o, k)' <=> Aborting(o, k)
    BY DEF Aborting, OthersSame
  <2> QED
    BY <2>1, <2>2, ResumerKept
<1>4. LockInv'
  <2>1. pc'[th] \notin HoldsStatus \cup {"add_dep"}
    BY DEF ExecutionLabels
  <2> QED
    BY <2>1, LockKept DEF LockInv
<1> QED
  BY <1>1, <1>2, <1>3, <1>4

\* A step by which a thread keeps what it owns and the statuses stay.
LEMMA StayStep ==
  ASSUME TypeInv, OwnInv, NEW th \in Threads,
         UNCHANGED <<txVars, ver>>, OthersSame(th),
         pc[th] \in ExecutionLabels,
         pc'[th] \in ExecutionLabels \ {"add_dep"},
         pc'[th] \in HoldsStatus =>
           pc[th] \in HoldsStatus \/ ~StatusLocked(ver[th].tx_idx),
         pc'[th] \in HoldsStatus \ {"drain", "drain_idx"} =>
           tx_dependency[ver[th].tx_idx] = {}
  PROVE  OwnInv'
<1> USE DEF txVars, OwnInv
<1>1. ExclusiveExecution'
  <2>1. /\ tx_status[ver[th].tx_idx] =
             [incarnation |-> ver[th].tx_incarnation, status |-> "Executing"]
        /\ \A o \in Threads \ {th} : pc[o] \in ExecutionLabels =>
             ver[o].tx_idx # ver[th].tx_idx
    BY DEF ExclusiveExecution
  <2> QED
    BY <2>1, ExclusiveKept
<1>2. DependentsWait'
  BY DEF DependentsWait
<1>3. AbortedHasResumer'
  <2>1. pc[th] # "estimate" /\ pc'[th] # "estimate"
    BY DEF ExecutionLabels, HoldsStatus
  <2>2. \A k \in Tx : Waiting(k)' <=> Waiting(k)
    BY DEF Waiting
  <2>3. \A k \in Tx, o \in Threads : Aborting(o, k)' <=> Aborting(o, k)
    BY <2>1 DEF Aborting, OthersSame
  <2> QED
    BY <2>2, <2>3, ResumerKept
<1>4. LockInv'
  BY SMTT(30) DEF OthersSame, LockInv, ExecutionLabels, HoldsStatus, StatusLocked
<1> QED
  BY <1>1, <1>2, <1>3, <1>4

\* What a thread knows of the transaction it executes.
LEMMA ExecutingStatus ==
  ASSUME ExclusiveExecution, NEW th \in Threads, pc[th] \in ExecutionLabels
  PROVE  /\ tx_status[ver[th].tx_idx].status = "Executing"
         /\ tx_status[ver[th].tx_idx].incarnation = ver[th].tx_incarnation
<1>1. tx_status[ver[th].tx_idx] =
         [incarnation |-> ver[th].tx_incarnation, status |-> "Executing"]
  BY DEF ExclusiveExecution
<1> QED
  BY <1>1, SMTT(30)

(***************************************************************************)
(* try_execute and next_task claim a ready transaction.                    *)
(***************************************************************************)
LEMMA ClaimStep ==
  ASSUME TypeInv, OwnInv, NEW th \in Threads, NEW t \in Tx,
         tx_status[t].status = "ReadyToExecute",
         SetStatus(t, "Executing"), UNCHANGED tx_dependency,
         Hold(th, t, tx_status[t].incarnation), OthersSame(th),
         pc[th] \notin ExecutionLabels \cup {"estimate"},
         pc'[th] \in {"execute", "ret_exec"}
  PROVE  OwnInv'
<1> /\ TypeOK /\ ExclusiveExecution /\ DependentsWait /\ AbortedHasResumer /\ LockInv
  BY DEF OwnInv, TypeInv
<1>1. \A k \in Tx :
        /\ tx_status'[k].status = IF k = t THEN "Executing" ELSE tx_status[k].status
        /\ k # t => tx_status'[k] = tx_status[k]
  BY SMTT(30) DEF SetStatus, TypeOK, TxStatus
<1>2. tx_status'[t] = [incarnation |-> tx_status[t].incarnation, status |-> "Executing"]
  BY SMTT(30) DEF SetStatus, TypeOK, TxStatus
<1>3. ver'[th] = [tx_idx |-> t, tx_incarnation |-> tx_status[t].incarnation]
  BY DEF Hold, TypeOK
<1>4. \A o \in Threads : ver[o].tx_idx \in Tx
  BY DEF TypeOK
<1>5. \A o \in Threads \ {th} : pc[o] \in ExecutionLabels => ver[o].tx_idx # t
  BY ExecutingStatus
<1>6. ExclusiveExecution'
  <2>1. \A o \in Threads \ {th} : pc[o] \in ExecutionLabels =>
          tx_status'[ver[o].tx_idx] = tx_status[ver[o].tx_idx]
    BY <1>1, <1>4, <1>5
  <2>2. ver'[th].tx_idx = t
    BY <1>3, SMTT(30)
  <2>3. ver'[th].tx_incarnation = tx_status[t].incarnation
    BY <1>3, SMTT(30)
  <2>4. tx_status'[ver'[th].tx_idx] =
          [incarnation |-> ver'[th].tx_incarnation, status |-> "Executing"]
    BY <1>2, <2>2, <2>3
  <2> QED
    BY <1>5, <2>1, <2>2, <2>4, ExclusiveKept
<1>7. DependentsWait'
  BY <1>1 DEF DependentsWait, TypeOK
<1>8. AbortedHasResumer'
  <2>1. \A k \in Tx : Waiting(k)' <=> Waiting(k)
    BY DEF Waiting
  <2>2. \A k \in Tx, o \in Threads : Aborting(o, k)' <=> Aborting(o, k)
    BY DEF Aborting, OthersSame
  <2> QED
    BY <1>1, <2>1, <2>2, ResumerKept
<1>9. LockInv'
  <2>1. \A o \in Threads : pc[o] = "add_dep" =>
          tx_status'[idx[o]].status \notin {"Executed", "Validated"}
    BY <1>1 DEF LockInv, TypeInv
  <2>2. \A o \in Threads : pc[o] \in HoldsStatus \ {"drain", "drain_idx"} =>
          tx_dependency'[ver[o].tx_idx] = {}
    BY DEF LockInv
  <2>3. pc'[th] \notin HoldsStatus \cup {"add_dep"}
    BY DEF HoldsStatus
  <2> QED
    BY <2>1, <2>2, <2>3, LockKept
<1> QED
  BY <1>6, <1>7, <1>8, <1>9 DEF OwnInv

(***************************************************************************)
(* An Aborted transaction becomes ready: its dependency resumes it or the  *)
(* thread that aborted it has converted its writes.                        *)
(***************************************************************************)
LEMMA ResumeStep ==
  ASSUME TypeInv, OwnInv, NEW th \in Threads, ResumeDependent(th)
  PROVE  OwnInv'
<1> /\ TypeOK /\ ExclusiveExecution /\ DependentsWait /\ AbortedHasResumer /\ LockInv
  BY DEF OwnInv, TypeInv
<1> PICK t \in Tx : t = ver[th].tx_idx
  BY DEF TypeOK
<1>1. PICK j \in tx_dependency[t] :
        /\ tx_dependency' = [tx_dependency EXCEPT ![t] = @ \ {j}]
        /\ SetReadyStatus(j)
        /\ idx' = [idx EXCEPT ![th] = j]
  BY DEF ResumeDependent
<1>2. t \in Tx /\ j \in Tx
  BY DEF TypeOK
<1>3. /\ tx_status[j].status = "Aborted"
      /\ \A c \in Tx \ {t} : j \notin tx_dependency[c]
  BY <1>1, <1>2 DEF DependentsWait
<1>4. \A k \in Tx : /\ k # j => tx_status'[k] = tx_status[k]
                    /\ k = j => tx_status'[k].status = "ReadyToExecute"
  BY <1>1, <1>2 DEF SetReadyStatus, TypeOK
<1>5. \A c \in Tx : tx_dependency'[c] = tx_dependency[c] \ {j}
  BY <1>1, <1>2, <1>3, SMTT(30) DEF TypeOK
<1>6. /\ pc[th] = "drain" /\ pc'[th] = "drain_idx" /\ ver' = ver
      /\ \A o \in Threads \ {th} : pc'[o] = pc[o] /\ idx'[o] = idx[o]
  BY <1>1, SMTT(30) DEF ResumeDependent, Goto, TypeOK
<1>7. \A o \in Threads : ver[o].tx_idx \in Tx
  BY DEF TypeOK
<1>8. \A o \in Threads : pc[o] \in ExecutionLabels => ver[o].tx_idx # j
  BY <1>3, ExecutingStatus
<1> OthersSame(th)
  BY <1>6 DEF OthersSame
<1>9. ExclusiveExecution'
  <2>1. pc[th] \in ExecutionLabels /\ pc'[th] \in ExecutionLabels
    BY <1>6 DEF ExecutionLabels, HoldsStatus
  <2>2. \A o \in Threads : pc[o] \in ExecutionLabels =>
          tx_status'[ver[o].tx_idx] = tx_status[ver[o].tx_idx]
    BY <1>4, <1>7, <1>8
  <2>3. /\ tx_status'[ver'[th].tx_idx] =
             [incarnation |-> ver'[th].tx_incarnation, status |-> "Executing"]
        /\ \A o \in Threads \ {th} : pc[o] \in ExecutionLabels =>
             ver[o].tx_idx # ver'[th].tx_idx
    BY <1>6, <2>1, <2>2 DEF ExclusiveExecution
  <2> QED
    BY <2>2, <2>3, ExclusiveKept
<1>10. DependentsWait'
  BY <1>2, <1>4, <1>5, DependentsKept, SMTT(30)
<1>11. AbortedHasResumer'
  <2>1. Waiting(j)
    BY <1>1, <1>2 DEF Waiting
  <2>2. \A k \in Tx : Waiting(k)' <=> Waiting(k) /\ k # j
    BY <1>5 DEF Waiting
  <2>3. \A o \in Threads, k \in Tx : Aborting(o, k)' <=> Aborting(o, k)
    BY <1>6 DEF Aborting
  <2>4. \A o \in Threads : ~Aborting(o, j)
    BY <1>2, <2>1 DEF AbortedHasResumer
  <2> QED
    BY <1>2, <1>4, <2>2, <2>3, <2>4, ResumerMoved
<1>12. LockInv'
  <2>1. \A o \in Threads : pc[o] = "add_dep" => idx[o] \in Tx
    BY DEF TypeInv
  <2>2. pc[th] \in HoldsStatus /\ pc'[th] \in {"drain", "drain_idx"} /\ pc'[th] # "add_dep"
    BY <1>6 DEF HoldsStatus
  <2>3. \A o, p \in Threads : pc'[o] \in HoldsStatus /\ pc'[p] = "add_dep" =>
          idx'[p] # ver'[o].tx_idx
    BY <1>6, <2>2, SMTT(30) DEF LockInv
  <2>4. ASSUME NEW o \in Threads, pc'[o] = "add_dep"
        PROVE  tx_status'[idx'[o]].status \notin {"Executed", "Validated"}
    <3>1. pc[o] = "add_dep" /\ idx'[o] = idx[o] /\ idx[o] \in Tx
      BY <1>6, <2>1, <2>2, <2>4
    <3> QED
      BY <1>4, <3>1, SMTT(30) DEF LockInv
  <2>5. ASSUME NEW o \in Threads, pc'[o] \in HoldsStatus \ {"drain", "drain_idx"}
        PROVE  tx_dependency'[ver'[o].tx_idx] = {}
    <3>1. pc[o] \in HoldsStatus \ {"drain", "drain_idx"} /\ ver'[o] = ver[o]
      BY <1>6, <2>2, <2>5
    <3>2. tx_dependency[ver[o].tx_idx] = {}
      BY <3>1 DEF LockInv
    <3> QED
      BY <1>5, <1>7, <3>1, <3>2
  <2> QED
    BY <2>3, <2>4, <2>5 DEF LockInv
<1> QED
  BY <1>9, <1>10, <1>11, <1>12 DEF OwnInv

\* finish_validation makes the transaction it aborted ready again.
LEMMA RescheduleStep ==
  ASSUME TypeInv, OwnInv, NEW th \in Threads, RescheduleAborted(th)
  PROVE  OwnInv'
<1> /\ TypeOK /\ ExclusiveExecution /\ DependentsWait /\ AbortedHasResumer /\ LockInv
  BY DEF OwnInv, TypeInv
<1> PICK t \in Tx : t = ver[th].tx_idx
  BY DEF TypeOK
<1>1. t \in Tx /\ \A o \in Threads : ver[o].tx_idx \in Tx
  BY DEF TypeOK
<1>2. /\ pc[th] = "estimate" /\ pc'[th] = "lower_abort"
      /\ ver' = ver /\ idx' = idx /\ tx_dependency' = tx_dependency
      /\ \A o \in Threads \ {th} : pc'[o] = pc[o]
  BY DEF RescheduleAborted, Goto, TypeOK, indices
<1>3. \A k \in Tx : /\ k # t => tx_status'[k] = tx_status[k]
                    /\ k = t => tx_status'[k].status = "ReadyToExecute"
  BY <1>1 DEF RescheduleAborted, SetReadyStatus, TypeOK
<1>4. Aborting(th, t)
  BY <1>2 DEF Aborting
<1>5. /\ tx_status[t].status = "Aborted" /\ ~Waiting(t)
      /\ \A o \in Threads \ {th} : ~Aborting(o, t)
  BY <1>1, <1>4 DEF AbortedHasResumer
<1>6. \A o \in Threads : pc[o] \in ExecutionLabels => ver[o].tx_idx # t
  BY <1>5, ExecutingStatus
<1> OthersSame(th)
  BY <1>2 DEF OthersSame
<1>7. ExclusiveExecution'
  <2>1. pc'[th] \notin ExecutionLabels
    BY <1>2 DEF ExecutionLabels, HoldsStatus
  <2> QED
    BY <1>1, <1>3, <1>6, <2>1, ExclusiveKept
<1>8. DependentsWait'
  <2>1. \A c \in Tx : tx_dependency'[c] \subseteq tx_dependency[c] \ {t}
    BY <1>2, <1>5 DEF Waiting
  <2>2. tx_status'[t].status \notin {"Executed", "Validated"}
    BY <1>3
  <2> QED
    BY <1>3, <2>1, <2>2, DependentsKept
<1>9. AbortedHasResumer'
  <2>1. \A k \in Tx : Waiting(k)' <=> Waiting(k)
    BY <1>2 DEF Waiting
  <2>2. \A o \in Threads, k \in Tx : Aborting(o, k)' <=> Aborting(o, k) /\ o # th
    BY <1>2 DEF Aborting
  <2>3. \A k \in Tx \ {t} : ~Aborting(th, k)
    BY DEF Aborting
  <2>4. tx_status'[t].status # "Aborted" /\ ~Waiting(t)' /\ \A o \in Threads : ~Aborting(o, t)'
    BY <1>1, <1>3, <1>5, <2>1, <2>2
  <2>5. \A k \in Tx \ {t} : /\ tx_status'[k].status = "Aborted" <=>
                                 tx_status[k].status = "Aborted"
                            /\ \A o \in Threads : Aborting(o, k)' <=> Aborting(o, k)
    BY <1>3, <2>2, <2>3
  <2> QED
    BY <2>1, <2>4, <2>5, ResumerMoved
<1>10. LockInv'
  <2>1. \A o \in Threads : pc[o] = "add_dep" =>
          tx_status'[idx[o]].status \notin {"Executed", "Validated"}
    BY <1>3 DEF LockInv, TypeInv
  <2>2. \A o \in Threads : pc[o] \in HoldsStatus \ {"drain", "drain_idx"} =>
          tx_dependency'[ver[o].tx_idx] = {}
    BY <1>2 DEF LockInv
  <2>3. pc'[th] \notin HoldsStatus \cup {"add_dep"}
    BY <1>2 DEF HoldsStatus
  <2> QED
    BY <2>1, <2>2, <2>3, LockKept
<1> QED
  BY <1>7, <1>8, <1>9, <1>10 DEF OwnInv

(***************************************************************************)
(* The execution ends: the mutex of t is released with its new status.     *)
(***************************************************************************)
LEMMA ExecutedStep ==
  ASSUME TypeInv, OwnInv, NEW th \in Threads, SetExecutedStatus(th)
  PROVE  OwnInv'
<1> /\ TypeOK /\ ExclusiveExecution /\ DependentsWait /\ AbortedHasResumer /\ LockInv
  BY DEF OwnInv, TypeInv
<1> PICK t \in Tx : t = ver[th].tx_idx
  BY DEF TypeOK
<1>1. t \in Tx /\ \A o \in Threads : ver[o].tx_idx \in Tx
  BY DEF TypeOK
<1>2. /\ pc[th] \in {"set_none", "set_ret"}
      /\ pc'[th] \in {"ret_val", "ret_none"}
      /\ tx_dependency' = tx_dependency
      /\ \A o \in Threads \ {th} : pc'[o] = pc[o] /\ ver'[o] = ver[o] /\ idx'[o] = idx[o]
  BY DEF SetExecutedStatus, Goto, Release, TypeOK, abortVars
<1>3. \A k \in Tx : /\ k # t => tx_status'[k] = tx_status[k]
                    /\ k = t => tx_status'[k].status \in {"Executed", "Validated"}
  BY <1>1, SMTT(30) DEF SetExecutedStatus, SetStatus, TypeOK, TxStatus
<1>4. tx_status[t].status = "Executing" /\ tx_dependency[t] = {}
  BY <1>2, ExecutingStatus DEF LockInv, ExecutionLabels, HoldsStatus
<1>5. \A o \in Threads \ {th} : pc[o] \in ExecutionLabels => ver[o].tx_idx # t
  BY <1>2 DEF ExclusiveExecution, ExecutionLabels, HoldsStatus
<1> OthersSame(th)
  BY <1>2 DEF OthersSame
<1>6. ExclusiveExecution'
  <2>1. pc'[th] \notin ExecutionLabels
    BY <1>2 DEF ExecutionLabels, HoldsStatus
  <2> QED
    BY <1>1, <1>3, <1>5, <2>1, ExclusiveKept
<1>7. DependentsWait'
  <2>1. ~Waiting(t)
    BY <1>4 DEF AbortedHasResumer
  <2>2. \A c \in Tx : tx_dependency'[c] \subseteq tx_dependency[c] \ {t}
    BY <1>2, <2>1 DEF Waiting
  <2>3. tx_dependency'[t] = {}
    BY <1>2, <1>4
  <2>4. \A k \in Tx : k # t => tx_status'[k] = tx_status[k]
    BY <1>3
  <2> QED
    BY <2>2, <2>3, <2>4, DependentsKept
<1>8. AbortedHasResumer'
  <2>1. \A k \in Tx : Waiting(k)' <=> Waiting(k)
    BY <1>2 DEF Waiting
  <2>2. \A o \in Threads, k \in Tx : Aborting(o, k)' <=> Aborting(o, k)
    BY <1>2 DEF Aborting
  <2>3. \A k \in Tx : tx_status'[k].status = "Aborted" <=> tx_status[k].status = "Aborted"
    BY <1>3, <1>4
  <2> QED
    BY <2>1, <2>2, <2>3, ResumerKept
<1>9. LockInv'
  <2>1. \A o \in Threads : pc[o] = "add_dep" => idx[o] \in Tx /\ idx[o] # t
    BY <1>2 DEF LockInv, HoldsStatus, TypeInv
  <2>2. \A o \in Threads : pc[o] = "add_dep" =>
          tx_status'[idx[o]].status \notin {"Executed", "Validated"}
    BY <1>3, <2>1 DEF LockInv
  <2>3. \A o \in Threads : pc[o] \in HoldsStatus \ {"drain", "drain_idx"} =>
          tx_dependency'[ver[o].tx_idx] = {}
    BY <1>2 DEF LockInv
  <2>4. pc'[th] \notin HoldsStatus \cup {"add_dep"}
    BY <1>2 DEF HoldsStatus
  <2> QED
    BY <2>2, <2>3, <2>4, LockKept
<1> QED
  BY <1>6, <1>7, <1>8, <1>9 DEF OwnInv

(***************************************************************************)
(* add_dependency: first the mutex of the blocking transaction, then the   *)
(* abort of the blocked one.                                               *)
(***************************************************************************)
LEMMA LockBlockingStep ==
  ASSUME TypeInv, OwnInv, NEW th \in Threads, NEW b \in Tx, LockBlocking(th, b)
  PROVE  OwnInv'
<1> /\ TypeOK /\ ExclusiveExecution /\ DependentsWait /\ AbortedHasResumer /\ LockInv
  BY DEF OwnInv, TypeInv
<1>1. /\ pc[th] = "execute" /\ pc'[th] = "add_dep" /\ idx'[th] = b
      /\ ver' = ver /\ tx_status' = tx_status /\ tx_dependency' = tx_dependency
      /\ \A o \in Threads \ {th} : pc'[o] = pc[o] /\ idx'[o] = idx[o]
      /\ tx_status[b].status \notin {"Executed", "Validated"}
      /\ \A o \in Threads : pc[o] \in HoldsStatus => ver[o].tx_idx # b
  BY DEF LockBlocking, Goto, TypeOK, txVars, StatusLocked
<1>2. ExclusiveExecution'
  <2>1. \A o \in Threads : pc'[o] \in ExecutionLabels => pc[o] \in ExecutionLabels
    BY <1>1 DEF ExecutionLabels
  <2> QED
    BY <1>1, <2>1 DEF ExclusiveExecution
<1>3. DependentsWait'
  BY <1>1 DEF DependentsWait
<1>4. AbortedHasResumer'
  <2>1. \A k \in Tx : Waiting(k)' <=> Waiting(k)
    BY <1>1 DEF Waiting
  <2>2. \A k \in Tx, o \in Threads : Aborting(o, k)' <=> Aborting(o, k)
    BY <1>1 DEF Aborting
  <2> QED
    BY <1>1, <2>1, <2>2, ResumerKept
<1>5. LockInv'
  <2>1. "add_dep" \notin HoldsStatus
    BY DEF HoldsStatus
  <2>2. ASSUME NEW o \in Threads
        PROVE  pc'[o] \in HoldsStatus => pc[o] \in HoldsStatus
    BY <1>1, <2>1
  <2> QED
    BY <1>1, <2>1, <2>2, SMTT(30) DEF LockInv
<1> QED
  BY <1>2, <1>3, <1>4, <1>5 DEF OwnInv

\* add_dependency aborts the dependent and enters it in the list, under both locks.
LEMMA AddDependencyStep ==
  ASSUME TypeInv, OwnInv, NEW th \in Threads, AddDependency(th)
  PROVE  OwnInv'
<1> /\ TypeOK /\ ExclusiveExecution /\ DependentsWait /\ AbortedHasResumer /\ LockInv
  BY DEF OwnInv, TypeInv
<1> PICK t \in Tx : t = ver[th].tx_idx
  BY DEF TypeOK
<1> PICK b \in Tx : b = idx[th]
  BY DEF TypeInv, AddDependency
<1>1. t \in Tx /\ b \in Tx /\ \A o \in Threads : ver[o].tx_idx \in Tx
  BY DEF TypeInv, TypeOK, AddDependency
<1>2. /\ pc[th] = "add_dep" /\ pc'[th] = "ret_none" /\ ~StatusLocked(t)
      /\ \A o \in Threads \ {th} : pc'[o] = pc[o] /\ ver'[o] = ver[o] /\ idx'[o] = idx[o]
  BY DEF AddDependency, Goto, Release, TypeOK
<1>3. \A k \in Tx : /\ k # t => tx_status'[k] = tx_status[k]
                    /\ k = t => tx_status'[k].status = "Aborted"
  BY <1>1 DEF AddDependency, SetStatus, TypeOK, TxStatus
<1>4. /\ \A c \in Tx : c # b => tx_dependency'[c] = tx_dependency[c]
      /\ tx_dependency'[b] = tx_dependency[b] \cup {t}
  BY <1>1 DEF AddDependency, TypeOK
<1>4a. \A c \in Tx : \A k : k \in tx_dependency'[c] <=>
        k \in tx_dependency[c] \/ (k = t /\ c = b)
  BY <1>4
<1>5. tx_status[t].status = "Executing" /\ tx_status[b].status \notin {"Executed", "Validated"}
  BY <1>2, ExecutingStatus DEF LockInv, ExecutionLabels
<1>6. \A o \in Threads \ {th} : pc[o] \in ExecutionLabels => ver[o].tx_idx # t
  BY <1>2 DEF ExclusiveExecution, ExecutionLabels
<1>7. ~Waiting(t) /\ \A o \in Threads : ~Aborting(o, t)
  BY <1>1, <1>5 DEF AbortedHasResumer
<1> OthersSame(th)
  BY <1>2 DEF OthersSame
<1>8. ExclusiveExecution'
  <2>1. pc'[th] \notin ExecutionLabels
    BY <1>2 DEF ExecutionLabels, HoldsStatus
  <2> QED
    BY <1>1, <1>3, <1>6, <2>1, ExclusiveKept
<1>9. DependentsWait'
  <2> SUFFICES ASSUME NEW c \in Tx, NEW j \in tx_dependency'[c]
               PROVE  /\ tx_status'[j].status = "Aborted"
                      /\ tx_status'[c].status \notin {"Executed", "Validated"}
                      /\ \A d \in Tx \ {c} : j \notin tx_dependency'[d]
    BY DEF DependentsWait
  <2>1. tx_status'[c].status \notin {"Executed", "Validated"}
    <3>1. tx_status[c].status \notin {"Executed", "Validated"}
      BY <1>5, <1>4a DEF DependentsWait
    <3> QED
      BY <1>3, <3>1
  <2>2. CASE j = t
    BY <1>1, <1>3, <1>7, <1>4a, <2>1, <2>2 DEF Waiting
  <2>3. CASE j # t
    <3>1. j \in tx_dependency[c]
      BY <1>4a, <2>3
    <3>2. j \in Tx
      BY <3>1 DEF TypeOK
    <3>3. /\ tx_status[j].status = "Aborted"
          /\ \A d \in Tx \ {c} : j \notin tx_dependency[d]
      BY <3>1 DEF DependentsWait
    <3>4. tx_status'[j].status = "Aborted"
      BY <1>3, <2>3, <3>2, <3>3
    <3>5. \A d \in Tx \ {c} : j \notin tx_dependency'[d]
      BY <1>4a, <2>3, <3>3
    <3> QED
      BY <2>1, <3>4, <3>5
  <2> QED
    BY <2>2, <2>3
<1>10. AbortedHasResumer'
  <2>1. \A k \in Tx : Waiting(k)' <=> Waiting(k) \/ k = t
    BY <1>4a DEF Waiting
  <2>2. \A o \in Threads, k \in Tx : Aborting(o, k)' <=> Aborting(o, k)
    BY <1>2 DEF Aborting
  <2>3. /\ tx_status'[t].status = "Aborted" /\ Waiting(t)'
        /\ \A o \in Threads : ~Aborting(o, t)'
    BY <1>1, <1>3, <1>7, <2>1, <2>2
  <2> QED
    BY <1>3, <2>1, <2>2, <2>3, ResumerMoved, SMTT(20)
<1>11. LockInv'
  <2>1. \A o \in Threads : pc[o] = "add_dep" => idx[o] \in Tx
    BY DEF TypeInv
  <2>2. \A o \in Threads : pc[o] \in HoldsStatus => ver[o].tx_idx # b
    BY <1>2 DEF LockInv
  <2>3. \A o \in Threads : pc[o] = "add_dep" =>
          tx_status'[idx[o]].status \notin {"Executed", "Validated"}
    BY <1>3, <2>1 DEF LockInv
  <2>4. \A o \in Threads : pc[o] \in HoldsStatus \ {"drain", "drain_idx"} =>
          tx_dependency'[ver[o].tx_idx] = {}
    BY <1>1, <1>4, <2>2 DEF LockInv
  <2>5. pc'[th] \notin HoldsStatus \cup {"add_dep"}
    BY <1>2 DEF HoldsStatus
  <2> QED
    BY <2>3, <2>4, <2>5, LockKept
<1> QED
  BY <1>8, <1>9, <1>10, <1>11 DEF OwnInv

(***************************************************************************)
(* try_validation_abort and finish_validation.                             *)
(***************************************************************************)
LEMMA TryAbortStep ==
  ASSUME TypeInv, OwnInv, NEW th \in Threads, TryValidationAbort(th)
  PROVE  OwnInv'
<1> /\ TypeOK /\ ExclusiveExecution /\ DependentsWait /\ AbortedHasResumer /\ LockInv
  BY DEF OwnInv, TypeInv
<1> PICK t \in Tx : t = ver[th].tx_idx
  BY DEF TypeOK
<1>1. CASE tx_status[t].status \notin {"Executed", "Validated"}
  BY <1>1, QuietStep
  DEF TryValidationAbort, Goto, TypeOK, txVars, OthersSame, abortVars,
      ExecutionLabels, HoldsStatus
<1>2. CASE tx_status[t].status \in {"Executed", "Validated"}
  <2>1. t \in Tx /\ \A o \in Threads : ver[o].tx_idx \in Tx
    BY DEF TypeOK
  <2>2. /\ pc[th] = "try_abort" /\ pc'[th] = "estimate" /\ ~StatusLocked(t)
        /\ ver' = ver /\ idx' = idx /\ tx_dependency' = tx_dependency
        /\ \A o \in Threads \ {th} : pc'[o] = pc[o]
    BY <1>2 DEF TryValidationAbort, Goto, TypeOK
  <2>3. \A k \in Tx : /\ k # t => tx_status'[k] = tx_status[k]
                      /\ k = t => tx_status'[k].status = "Aborted"
    BY <1>2, <2>1, SMTT(30) DEF TryValidationAbort, SetStatus, TypeOK, TxStatus
  <2>4. \A o \in Threads : pc[o] \in ExecutionLabels => ver[o].tx_idx # t
    BY <1>2, ExecutingStatus
  <2>5. ~Waiting(t) /\ \A o \in Threads : ~Aborting(o, t)
    BY <1>2, <2>1 DEF AbortedHasResumer
  <2> OthersSame(th)
    BY <2>2 DEF OthersSame
  <2>6. ExclusiveExecution'
    <3>1. pc'[th] \notin ExecutionLabels
      BY <2>2 DEF ExecutionLabels, HoldsStatus
    <3> QED
      BY <2>1, <2>3, <2>4, <3>1, ExclusiveKept
  <2>7. DependentsWait'
    <3>1. \A c \in Tx : tx_dependency'[c] \subseteq tx_dependency[c] \ {t}
      BY <2>2, <2>5 DEF Waiting
    <3>2. tx_status'[t].status \notin {"Executed", "Validated"}
      BY <2>3
    <3> QED
      BY <2>3, <3>1, <3>2, DependentsKept
  <2>8. AbortedHasResumer'
    <3>1. \A k \in Tx : Waiting(k)' <=> Waiting(k)
      BY <2>2 DEF Waiting
    <3>2. \A o \in Threads, k \in Tx :
            Aborting(o, k)' <=> Aborting(o, k) \/ (o = th /\ k = t)
      BY <2>2 DEF Aborting
    <3>3. /\ tx_status'[t].status = "Aborted" /\ ~Waiting(t)' /\ Aborting(th, t)'
          /\ \A o \in Threads \ {th} : ~Aborting(o, t)'
      BY <2>1, <2>3, <2>5, <3>1, <3>2
    <3>4. \A k \in Tx \ {t} : /\ tx_status'[k].status = "Aborted" <=>
                                   tx_status[k].status = "Aborted"
                              /\ \A o \in Threads : Aborting(o, k)' <=> Aborting(o, k)
      BY <2>3, <3>2
    <3> QED
      BY <3>1, <3>3, <3>4, ResumerMoved
  <2>9. LockInv'
    <3>1. \A o \in Threads : pc[o] = "add_dep" =>
            tx_status'[idx[o]].status \notin {"Executed", "Validated"}
      BY <2>3 DEF LockInv, TypeInv
    <3>2. \A o \in Threads : pc[o] \in HoldsStatus \ {"drain", "drain_idx"} =>
            tx_dependency'[ver[o].tx_idx] = {}
      BY <2>2 DEF LockInv
    <3>3. pc'[th] \notin HoldsStatus \cup {"add_dep"}
      BY <2>2 DEF HoldsStatus
    <3> QED
      BY <3>1, <3>2, <3>3, LockKept
  <2> QED
    BY <2>6, <2>7, <2>8, <2>9 DEF OwnInv
<1> QED
  BY <1>1, <1>2

\* finish_validation confirms a transaction that is still Executed.
LEMMA ConfirmStep ==
  ASSUME TypeInv, OwnInv, NEW th \in Threads, ConfirmValidated(th)
  PROVE  OwnInv'
<1> /\ TypeOK /\ ExclusiveExecution /\ DependentsWait /\ AbortedHasResumer /\ LockInv
  BY DEF OwnInv, TypeInv
<1> PICK t \in Tx : t = ver[th].tx_idx
  BY DEF TypeOK
<1>1. t \in Tx /\ \A o \in Threads : ver[o].tx_idx \in Tx
  BY DEF TypeOK
<1>2. /\ pc[th] = "confirm" /\ pc'[th] = "ret_none" /\ ~StatusLocked(t)
      /\ tx_dependency' = tx_dependency
      /\ \A o \in Threads \ {th} : pc'[o] = pc[o] /\ ver'[o] = ver[o] /\ idx'[o] = idx[o]
  BY DEF ConfirmValidated, Goto, Release, TypeOK
<1>3. CASE tx_status[t].status # "Executed"
  BY <1>2, <1>3, QuietStep
  DEF ConfirmValidated, txVars, OthersSame, ExecutionLabels, HoldsStatus
<1>4. CASE tx_status[t].status = "Executed"
  <2>1. \A k \in Tx : /\ k # t => tx_status'[k] = tx_status[k]
                      /\ k = t => tx_status'[k].status = "Validated"
    BY <1>1, <1>4, SMTT(30) DEF ConfirmValidated, SetStatus, TypeOK, TxStatus
  <2>2. \A o \in Threads : pc[o] \in ExecutionLabels => ver[o].tx_idx # t
    BY <1>4, ExecutingStatus
  <2>3. tx_dependency[t] = {}
    BY <1>1, <1>4 DEF DependentsWait
  <2> OthersSame(th)
    BY <1>2 DEF OthersSame
  <2>4. ExclusiveExecution'
    <3>1. pc'[th] \notin ExecutionLabels
      BY <1>2 DEF ExecutionLabels, HoldsStatus
    <3> QED
      BY <1>1, <2>1, <2>2, <3>1, ExclusiveKept
  <2>5. DependentsWait'
    <3>1. ~Waiting(t)
      BY <1>4 DEF AbortedHasResumer
    <3>2. \A c \in Tx : tx_dependency'[c] \subseteq tx_dependency[c] \ {t}
      BY <1>2, <3>1 DEF Waiting
    <3> QED
      BY <1>2, <2>1, <2>3, <3>2, DependentsKept, SMTT(30)
  <2>6. AbortedHasResumer'
    <3>1. \A k \in Tx : Waiting(k)' <=> Waiting(k)
      BY <1>2 DEF Waiting
    <3>2. \A o \in Threads, k \in Tx : Aborting(o, k)' <=> Aborting(o, k)
      BY <1>2 DEF Aborting
    <3>3. \A k \in Tx : tx_status'[k].status = "Aborted" <=> tx_status[k].status = "Aborted"
      BY <1>4, <2>1
    <3> QED
      BY <3>1, <3>2, <3>3, ResumerKept
  <2>7. LockInv'
    <3>1. \A o \in Threads : pc[o] = "add_dep" => idx[o] \in Tx /\ idx[o] # t
      BY <1>4 DEF LockInv, TypeInv
    <3>2. \A o \in Threads : pc[o] = "add_dep" =>
            tx_status'[idx[o]].status \notin {"Executed", "Validated"}
      BY <2>1, <3>1 DEF LockInv
    <3>3. \A o \in Threads : pc[o] \in HoldsStatus \ {"drain", "drain_idx"} =>
            tx_dependency'[ver[o].tx_idx] = {}
      BY <1>2 DEF LockInv
    <3>4. pc'[th] \notin HoldsStatus \cup {"add_dep"}
      BY <1>2 DEF HoldsStatus
    <3> QED
      BY <3>2, <3>3, <3>4, LockKept
  <2> QED
    BY <2>4, <2>5, <2>6, <2>7 DEF OwnInv
<1> QED
  BY <1>3, <1>4

\* Scheduler::new: nobody owns anything.
LEMMA InitOwn == Init => OwnInv
<1> SUFFICES ASSUME Init PROVE OwnInv
  OBVIOUS
<1>1. \A th \in Threads : pc[th] \notin ExecutionLabels \cup HoldsStatus \cup {"add_dep", "estimate"}
  BY DEF Init, ExecutionLabels, HoldsStatus
<1>2. \A t \in Tx : tx_dependency[t] = {} /\ tx_status[t].status = "ReadyToExecute"
  BY DEF Init
<1>3. ExclusiveExecution /\ LockInv
  BY <1>1 DEF ExclusiveExecution, LockInv
<1>4. DependentsWait
  BY <1>2 DEF DependentsWait
<1>5. AbortedHasResumer
  BY <1>1, <1>2 DEF AbortedHasResumer, Waiting, Aborting
<1> QED
  BY <1>3, <1>4, <1>5 DEF OwnInv

\* Every step keeps the ownership invariants.
LEMMA OwnStep == TypeInv /\ OwnInv /\ [Next]_vars => OwnInv'
<1> SUFFICES ASSUME TypeInv, OwnInv, [Next]_vars PROVE OwnInv'
  OBVIOUS
<1> USE DEF OthersSame, Goto, Hold, Release, txVars
<1>1. ASSUME NEW th \in Threads,
             \/ CheckAborted(th) \/ LoadExecutionIdx(th) \/ LoadValidationIdx(th)
             \/ LoadNumValidated(th) \/ LoadMinValidationIdx(th)
      PROVE OwnInv'
  BY <1>1, QuietStep, SMTT(30)
  DEF TypeInv, TypeOK, CheckAborted, LoadExecutionIdx, LoadValidationIdx, LoadNumValidated,
      LoadMinValidationIdx, ExecutionLabels, HoldsStatus
<1>2. ASSUME NEW th \in Threads, TakeValidationIdx(th) \/ TakeExecutionIdx(th)
      PROVE OwnInv'
  BY <1>2, QuietStep, SMTT(30)
  DEF TypeInv, TypeOK, TakeValidationIdx, TakeExecutionIdx, ExecutionLabels, HoldsStatus
<1>3. ASSUME NEW th \in Threads, PeekStatus(th) PROVE OwnInv'
  <2>1. CASE tx_status[ver[th].tx_idx].status = "ReadyToExecute"
    BY <1>3, <2>1, ClaimStep
    DEF TypeInv, TypeOK, PeekStatus, ExecutionLabels, HoldsStatus
  <2>2. CASE tx_status[ver[th].tx_idx].status # "ReadyToExecute"
    BY <1>3, <2>2, QuietStep, SMTT(30)
    DEF TypeInv, TypeOK, PeekStatus, ExecutionLabels, HoldsStatus
  <2> QED
    BY <2>1, <2>2
<1>4. ASSUME NEW th \in Threads, TryExecute(th) PROVE OwnInv'
  <2>1. CASE tx_status[ver[th].tx_idx].status = "ReadyToExecute"
    BY <1>4, <2>1, ClaimStep
    DEF TypeInv, TypeOK, TryExecute, ExecutionLabels, HoldsStatus
  <2>2. CASE tx_status[ver[th].tx_idx].status # "ReadyToExecute"
    BY <1>4, <2>2, QuietStep
    DEF TypeInv, TypeOK, TryExecute, ExecutionLabels, HoldsStatus
  <2> QED
    BY <2>1, <2>2
<1>5. ASSUME NEW th \in Threads,
             \/ LowerExecutionIdx(th) \/ LowerMinValidationIdx(th)
             \/ CompareValidationIdx(th) \/ LowerValidationIdx(th)
      PROVE OwnInv'
  <2>1. /\ UNCHANGED <<txVars, ver>> /\ OthersSame(th)
        /\ pc[th] \in HoldsStatus /\ pc'[th] \in HoldsStatus
    BY <1>5 DEF TypeInv, TypeOK, LowerExecutionIdx, LowerMinValidationIdx,
                CompareValidationIdx, LowerValidationIdx, HoldsStatus
  <2>2. pc'[th] \in HoldsStatus \ {"drain", "drain_idx"} =>
          tx_dependency[ver[th].tx_idx] = {}
    BY <1>5 DEF TypeInv, TypeOK, OwnInv, LockInv, LowerExecutionIdx, LowerMinValidationIdx,
                CompareValidationIdx, LowerValidationIdx, HoldsStatus
  <2> QED
    BY <2>1, <2>2, StayStep DEF ExecutionLabels, HoldsStatus
<1>6. ASSUME NEW th \in Threads,
             \/ InitAbortReason(th) \/ LowerValidationIdxAborted(th) \/ CheckExecutionIdx(th)
      PROVE OwnInv'
  BY <1>6, QuietStep, SMTT(30)
  DEF TypeInv, TypeOK, InitAbortReason, LowerValidationIdxAborted, CheckExecutionIdx,
      ExecutionLabels, HoldsStatus, AbortReason
<1>7. ASSUME NEW th \in Threads, WorkerLoop(th) PROVE OwnInv'
  <2>1. CASE pc'[th] = "execute"
    BY <1>7, <2>1, StayStep
    DEF TypeInv, TypeOK, WorkerLoop, ReturnLabels, ExecutionLabels, HoldsStatus
  <2>2. CASE pc'[th] # "execute"
    BY <1>7, <2>2, QuietStep, SMTT(30), ZenonT(40)
    DEF TypeInv, TypeOK, WorkerLoop, ReturnLabels, ExecutionLabels, HoldsStatus
  <2> QED
    BY <2>1, <2>2
<1>8. ASSUME NEW th \in Threads, Succeed(th) PROVE OwnInv'
  <2>1. ASSUME NEW fl, FinishExecution(th, fl) PROVE OwnInv'
    BY <2>1, StayStep
    DEF TypeInv, TypeOK, FinishExecution, ExecutionLabels, HoldsStatus
  <2>2. ASSUME ReadSetChecked(th, TRUE) PROVE OwnInv'
    BY <2>2, QuietStep DEF TypeInv, TypeOK, ReadSetChecked, ExecutionLabels, HoldsStatus
  <2> QED
    BY <1>8, <2>1, <2>2 DEF Succeed
<1>9. ASSUME NEW th \in Threads, Setback(th) PROVE OwnInv'
  <2>1. ASSUME ExecuteAgain(th) PROVE OwnInv'
    <3>1. CASE abort_reason = "none"
      BY <2>1, <3>1, StayStep
      DEF TypeInv, TypeOK, ExecuteAgain, ExecutionLabels, HoldsStatus
    <3>2. CASE abort_reason # "none"
      BY <2>1, <3>2, QuietStep
      DEF TypeInv, TypeOK, ExecuteAgain, ExecutionLabels, HoldsStatus
    <3> QED
      BY <3>1, <3>2
  <2>2. ASSUME NEW reason \in AbortReason, AbortScheduler(th, reason) PROVE OwnInv'
    BY <2>2, QuietStep
    DEF TypeInv, TypeOK, AbortScheduler, AbortReason, ExecutionLabels, HoldsStatus
  <2>3. ASSUME ReadSetChecked(th, FALSE) PROVE OwnInv'
    BY <2>3, QuietStep DEF TypeInv, TypeOK, ReadSetChecked, ExecutionLabels, HoldsStatus
  <2> QED
    BY <1>9, <2>1, <2>2, <2>3, LockBlockingStep DEF Setback, AddDependencyLate
<1>10. ASSUME UNCHANGED vars PROVE OwnInv'
  <2>1. ExclusiveExecution'
    BY <1>10 DEF vars, OwnInv, ExclusiveExecution
  <2>2. DependentsWait'
    BY <1>10 DEF vars, OwnInv, DependentsWait
  <2>3. AbortedHasResumer'
    <3>1. /\ tx_status' = tx_status /\ tx_dependency' = tx_dependency
          /\ pc' = pc /\ ver' = ver
      BY <1>10 DEF vars
    <3>2. \A k \in Tx : Waiting(k)' <=> Waiting(k)
      BY <3>1 DEF Waiting
    <3>3. \A k \in Tx, o \in Threads : Aborting(o, k)' <=> Aborting(o, k)
      BY <3>1 DEF Aborting
    <3> QED
      BY <3>1, <3>2, <3>3, ResumerKept DEF OwnInv
  <2>4. LockInv'
    BY <1>10 DEF vars, OwnInv, LockInv
  <2> QED
    BY <2>1, <2>2, <2>3, <2>4 DEF OwnInv
<1> QED
  BY <1>1, <1>2, <1>3, <1>4, <1>5, <1>6, <1>7, <1>8, <1>9, <1>10, ResumeStep,
     ExecutedStep, AddDependencyStep, TryAbortStep, RescheduleStep, ConfirmStep
  DEF Next, SchedulerStep, Terminated

-----------------------------------------------------------------------------
(***************************************************************************)
(* num_validated.  Every action leaves the set of Validated transactions   *)
(* alone, or moves one transaction in or out together with the counter.    *)
(***************************************************************************)
ValidatedSet == {t \in Tx : tx_status[t].status = "Validated"}

\* A step that changes neither the Validated transactions nor the counter.
LEMMA CountSame ==
  ASSUME NumValidatedExact, num_validated' = num_validated,
         \A t \in Tx : tx_status'[t].status = "Validated" <=> tx_status[t].status = "Validated"
  PROVE  NumValidatedExact'
<1>1. ValidatedSet' = ValidatedSet
  BY DEF ValidatedSet
<1> QED
  BY <1>1 DEF NumValidatedExact, ValidatedSet

\* fetch_add in the critical section that makes a transaction Validated.
LEMMA CountUp ==
  ASSUME Counted, NumValidatedExact, NEW t \in Tx, num_validated' = num_validated + 1,
         tx_status[t].status # "Validated", tx_status'[t].status = "Validated",
         \A k \in Tx \ {t} : tx_status'[k] = tx_status[k]
  PROVE  NumValidatedExact'
<1>1. ValidatedSet' = ValidatedSet \cup {t} /\ t \notin ValidatedSet
  BY SMTT(30) DEF ValidatedSet
<1>2. Cardinality(ValidatedSet') = Cardinality(ValidatedSet) + 1
  <2>1. ValidatedSet \in SUBSET Tx
    BY DEF ValidatedSet
  <2> QED
    BY <1>1, <2>1 DEF Counted
<1> QED
  BY <1>2 DEF NumValidatedExact, ValidatedSet

\* fetch_sub in the critical section that aborts a Validated transaction.
LEMMA CountDown ==
  ASSUME Counted, NumValidatedExact, NEW t \in Tx, num_validated' = num_validated - 1,
         tx_status[t].status = "Validated", tx_status'[t].status # "Validated",
         \A k \in Tx \ {t} : tx_status'[k] = tx_status[k]
  PROVE  NumValidatedExact'
<1>1. ValidatedSet' = ValidatedSet \ {t} /\ t \in ValidatedSet
  BY DEF ValidatedSet
<1>2. Cardinality(ValidatedSet') = Cardinality(ValidatedSet) - 1
  <2>1. ValidatedSet \in SUBSET Tx
    BY DEF ValidatedSet
  <2> QED
    BY <1>1, <2>1 DEF Counted
<1> QED
  BY <1>2 DEF NumValidatedExact, ValidatedSet

\* Scheduler::new: nothing is Validated and the counter is zero.
LEMMA InitCount == Counted /\ Init => NumValidatedExact
<1> SUFFICES ASSUME Counted, Init PROVE NumValidatedExact
  OBVIOUS
<1>1. ValidatedSet = {}
  BY DEF Init, ValidatedSet
<1> QED
  BY <1>1 DEF Counted, Init, NumValidatedExact, ValidatedSet

\* Every step keeps num_validated exact.
LEMMA CountStep == Counted /\ IInv /\ NumValidatedExact /\ [Next]_vars => NumValidatedExact'
<1> SUFFICES ASSUME Counted, IInv, NumValidatedExact, [Next]_vars PROVE NumValidatedExact'
  OBVIOUS
<1> USE DEF IInv, TypeInv, OwnInv
<1>1. ASSUME NEW th \in Threads, PeekStatus(th) \/ TryExecute(th) PROVE NumValidatedExact'
  BY <1>1, CountSame, SMTT(30) DEF PeekStatus, TryExecute, SetStatus, TypeOK, TxStatus, indices
<1>2. ASSUME NEW th \in Threads, ResumeDependent(th) PROVE NumValidatedExact'
  <2>1. PICK j \in tx_dependency[ver[th].tx_idx] : SetReadyStatus(j)
    BY <1>2 DEF ResumeDependent
  <2>2. ver[th].tx_idx \in Tx /\ j \in Tx
    BY DEF TypeOK
  <2>3. tx_status[j].status = "Aborted"
    BY <2>1, <2>2 DEF DependentsWait
  <2> QED
    BY <1>2, <2>1, <2>2, <2>3, CountSame DEF ResumeDependent, SetReadyStatus, TypeOK, indices
<1>3. ASSUME NEW th \in Threads, SetExecutedStatus(th) PROVE NumValidatedExact'
  <2>1. tx_status[ver[th].tx_idx].status = "Executing" /\ ver[th].tx_idx \in Tx
    BY <1>3, ExecutingStatus DEF SetExecutedStatus, ExecutionLabels, HoldsStatus, TypeOK
  <2>2. SetStatus(ver[th].tx_idx, "Executed") /\ num_validated' = num_validated
    BY <1>3 DEF SetExecutedStatus, contains, NeedValidation
  <2> QED
    BY <2>1, <2>2, CountSame DEF SetStatus, TypeOK, TxStatus
<1>4. ASSUME NEW th \in Threads, AddDependency(th) PROVE NumValidatedExact'
  <2>1. tx_status[ver[th].tx_idx].status = "Executing" /\ ver[th].tx_idx \in Tx
    BY <1>4, ExecutingStatus DEF AddDependency, ExecutionLabels, TypeOK
  <2> QED
    BY <1>4, <2>1, CountSame DEF AddDependency, SetStatus, TypeOK, TxStatus, indices
<1>5. ASSUME NEW th \in Threads, TryValidationAbort(th) PROVE NumValidatedExact'
  <2>1. CASE tx_status[ver[th].tx_idx].status = "Validated"
    BY <1>5, <2>1, CountDown, SMTT(30) DEF TryValidationAbort, SetStatus, TypeOK, TxStatus
  <2>2. CASE tx_status[ver[th].tx_idx].status # "Validated"
    BY <1>5, <2>2, CountSame, ZenonT(40) DEF TryValidationAbort, SetStatus, TypeOK, TxStatus
  <2> QED
    BY <2>1, <2>2
<1>6. ASSUME NEW th \in Threads, RescheduleAborted(th) PROVE NumValidatedExact'
  <2>1. Aborting(th, ver[th].tx_idx) /\ ver[th].tx_idx \in Tx
    BY <1>6 DEF RescheduleAborted, Aborting, TypeOK
  <2>2. tx_status[ver[th].tx_idx].status = "Aborted"
    BY <2>1 DEF AbortedHasResumer
  <2> QED
    BY <1>6, <2>1, <2>2, CountSame DEF RescheduleAborted, SetReadyStatus, TypeOK, indices
<1>7. ASSUME NEW th \in Threads, ConfirmValidated(th) PROVE NumValidatedExact'
  <2>1. CASE tx_status[ver[th].tx_idx].status = "Executed"
    BY <1>7, <2>1, CountUp, SMTT(30) DEF ConfirmValidated, SetStatus, TypeOK, TxStatus
  <2>2. CASE tx_status[ver[th].tx_idx].status # "Executed"
    BY <1>7, <2>2, CountSame DEF ConfirmValidated
  <2> QED
    BY <2>1, <2>2
<1>8. ASSUME UNCHANGED <<tx_status, num_validated>> PROVE NumValidatedExact'
  BY <1>8, CountSame
<1>9. ASSUME NEW th \in Threads,
             \/ CheckAborted(th) \/ LoadExecutionIdx(th) \/ LoadValidationIdx(th)
             \/ LoadNumValidated(th) \/ LoadMinValidationIdx(th) \/ TakeValidationIdx(th)
             \/ TakeExecutionIdx(th) \/ LowerExecutionIdx(th) \/ LowerMinValidationIdx(th)
             \/ CompareValidationIdx(th) \/ LowerValidationIdx(th) \/ InitAbortReason(th)
             \/ LowerValidationIdxAborted(th) \/ CheckExecutionIdx(th) \/ WorkerLoop(th)
             \/ Succeed(th) \/ Setback(th)
      PROVE UNCHANGED <<tx_status, num_validated>>
  BY <1>9 DEF CheckAborted, LoadExecutionIdx, LoadValidationIdx, LoadNumValidated,
              LoadMinValidationIdx, TakeValidationIdx, TakeExecutionIdx, LowerExecutionIdx,
              LowerMinValidationIdx, CompareValidationIdx, LowerValidationIdx,
              InitAbortReason, LowerValidationIdxAborted, CheckExecutionIdx, WorkerLoop,
              Succeed, Setback, FinishExecution, ReadSetChecked, AddDependencyLate,
              LockBlocking, ExecuteAgain, AbortScheduler, txVars, indices
<1> QED
  BY <1>1, <1>2, <1>3, <1>4, <1>5, <1>6, <1>7, <1>8, <1>9
  DEF Next, SchedulerStep, Terminated, vars, txVars, indices

-----------------------------------------------------------------------------
(***************************************************************************)
(* The inductive invariant, and the properties of Scheduler.tla it gives.  *)
(***************************************************************************)
LEMMA Invariance == Spec => []IInv
<1>1. Init => IInv
  BY InitType, InitOwn DEF IInv
<1>2. IInv /\ [Next]_vars => IInv'
  BY TypeStep, OwnStep DEF IInv
<1> QED
  BY <1>1, <1>2, PTL DEF Spec

(***************************************************************************)
(* The scheduler state is well typed: every index that index_mutex! uses   *)
(* unchecked is an index of the block.                                     *)
(***************************************************************************)
THEOREM TypeCorrect == Spec => []TypeOK
<1>1. IInv => TypeOK
  BY DEF IInv, TypeInv
<1> QED
  BY <1>1, Invariance, PTL

(***************************************************************************)
(* No incarnation is executed by two threads, and the debug_asserts of     *)
(* finish_execution hold.                                                  *)
(***************************************************************************)
THEOREM ExecutionExclusive == Spec => []ExclusiveExecution
<1>1. IInv => ExclusiveExecution
  BY DEF IInv, OwnInv
<1> QED
  BY <1>1, Invariance, PTL

(***************************************************************************)
(* No dependent is left waiting for a transaction that has finished.       *)
(***************************************************************************)
THEOREM NoLostDependent == Spec => []DependentsWait
<1>1. IInv => DependentsWait
  BY DEF IInv, OwnInv
<1> QED
  BY <1>1, Invariance, PTL

(***************************************************************************)
(* Every Aborted transaction has exactly one resumer.                      *)
(***************************************************************************)
THEOREM NoLostAborted == Spec => []AbortedHasResumer
<1>1. IInv => AbortedHasResumer
  BY DEF IInv, OwnInv
<1> QED
  BY <1>1, Invariance, PTL

(***************************************************************************)
(* Every change of a status is a move of the diagram in types.rs.          *)
(***************************************************************************)
StatusMoves ==
  \A t \in Tx : tx_status'[t] # tx_status[t] => StatusMove(tx_status[t], tx_status'[t])

\* A step that changes one status along the diagram.
LEMMA MoveOne ==
  ASSUME TypeOK, NEW t \in Tx, NEW s \in IncarnationStatus, SetStatus(t, s),
         <<tx_status[t].status, s>> \in
            {<<"ReadyToExecute", "Executing">>, <<"Executing", "Executed">>,
             <<"Executed", "Validated">>, <<"Executed", "Aborted">>,
             <<"Validated", "Aborted">>, <<"Executing", "Aborted">>}
  PROVE  StatusMoves
<1>1. \A k \in Tx : k # t => tx_status'[k] = tx_status[k]
  BY DEF SetStatus, TypeOK
<1>2. tx_status'[t].status = s /\ tx_status'[t].incarnation = tx_status[t].incarnation
  BY SMTT(30) DEF SetStatus, TypeOK, TxStatus
<1>3. tx_status[t].status # "Aborted"
  OBVIOUS
<1> QED
  BY <1>1, <1>2, <1>3 DEF StatusMoves, StatusMove

\* set_ready_status moves an Aborted status along the diagram.
LEMMA MoveReady ==
  ASSUME TypeOK, NEW t \in Tx, tx_status[t].status = "Aborted", SetReadyStatus(t)
  PROVE  StatusMoves
  BY DEF StatusMoves, StatusMove, SetReadyStatus, TypeOK

\* Every step moves statuses along the diagram of types.rs only.
LEMMA StatusStep == IInv /\ [Next]_vars => [StatusMoves]_vars
<1> SUFFICES ASSUME IInv, Next PROVE StatusMoves
  BY DEF StatusMoves, vars
<1> USE DEF IInv, TypeInv, OwnInv, IncarnationStatus
<1>0. \A th \in Threads : ver[th].tx_idx \in Tx
  BY DEF TypeOK
<1>1. ASSUME NEW th \in Threads, PeekStatus(th) \/ TryExecute(th) PROVE StatusMoves
  <2>1. CASE tx_status[ver[th].tx_idx].status = "ReadyToExecute"
    BY <1>0, <1>1, <2>1, MoveOne DEF PeekStatus, TryExecute
  <2>2. CASE tx_status[ver[th].tx_idx].status # "ReadyToExecute"
    BY <1>1, <2>2 DEF PeekStatus, TryExecute, StatusMoves
  <2> QED
    BY <2>1, <2>2
<1>2. ASSUME NEW th \in Threads, ResumeDependent(th) PROVE StatusMoves
  <2>1. PICK j \in tx_dependency[ver[th].tx_idx] : SetReadyStatus(j)
    BY <1>2 DEF ResumeDependent
  <2>2. j \in Tx
    BY <1>0 DEF TypeOK
  <2>3. tx_status[j].status = "Aborted"
    BY <1>0, <2>1, <2>2 DEF DependentsWait
  <2> QED
    BY <2>1, <2>2, <2>3, MoveReady
<1>3. ASSUME NEW th \in Threads, SetExecutedStatus(th) PROVE StatusMoves
  <2>1. tx_status[ver[th].tx_idx].status = "Executing"
    BY <1>3, ExecutingStatus DEF SetExecutedStatus, ExecutionLabels, HoldsStatus
  <2>2. SetStatus(ver[th].tx_idx, "Executed")
    BY <1>3 DEF SetExecutedStatus, contains, NeedValidation
  <2> QED
    BY <1>0, <2>1, <2>2, MoveOne
<1>4. ASSUME NEW th \in Threads, AddDependency(th) PROVE StatusMoves
  <2>1. tx_status[ver[th].tx_idx].status = "Executing"
    BY <1>4, ExecutingStatus DEF AddDependency, ExecutionLabels
  <2> QED
    BY <1>0, <1>4, <2>1, MoveOne DEF AddDependency
<1>5. ASSUME NEW th \in Threads, TryValidationAbort(th) PROVE StatusMoves
  <2>1. CASE tx_status[ver[th].tx_idx].status \in {"Executed", "Validated"}
    BY <1>0, <1>5, <2>1, MoveOne DEF TryValidationAbort
  <2>2. CASE tx_status[ver[th].tx_idx].status \notin {"Executed", "Validated"}
    BY <1>5, <2>2 DEF TryValidationAbort, StatusMoves
  <2> QED
    BY <2>1, <2>2
<1>6. ASSUME NEW th \in Threads, RescheduleAborted(th) PROVE StatusMoves
  <2>1. Aborting(th, ver[th].tx_idx)
    BY <1>6 DEF RescheduleAborted, Aborting
  <2>2. tx_status[ver[th].tx_idx].status = "Aborted"
    BY <1>0, <2>1 DEF AbortedHasResumer
  <2> QED
    BY <1>0, <1>6, <2>2, MoveReady DEF RescheduleAborted
<1>7. ASSUME NEW th \in Threads, ConfirmValidated(th) PROVE StatusMoves
  <2>1. CASE tx_status[ver[th].tx_idx].status = "Executed"
    BY <1>0, <1>7, <2>1, MoveOne DEF ConfirmValidated
  <2>2. CASE tx_status[ver[th].tx_idx].status # "Executed"
    BY <1>7, <2>2 DEF ConfirmValidated, StatusMoves
  <2> QED
    BY <2>1, <2>2
<1>8. ASSUME UNCHANGED tx_status PROVE StatusMoves
  BY <1>8 DEF StatusMoves
<1>9. ASSUME NEW th \in Threads,
             \/ CheckAborted(th) \/ LoadExecutionIdx(th) \/ LoadValidationIdx(th)
             \/ LoadNumValidated(th) \/ LoadMinValidationIdx(th) \/ TakeValidationIdx(th)
             \/ TakeExecutionIdx(th) \/ LowerExecutionIdx(th) \/ LowerMinValidationIdx(th)
             \/ CompareValidationIdx(th) \/ LowerValidationIdx(th) \/ InitAbortReason(th)
             \/ LowerValidationIdxAborted(th) \/ CheckExecutionIdx(th) \/ WorkerLoop(th)
             \/ Succeed(th) \/ Setback(th)
      PROVE UNCHANGED tx_status
  BY <1>9 DEF CheckAborted, LoadExecutionIdx, LoadValidationIdx, LoadNumValidated,
              LoadMinValidationIdx, TakeValidationIdx, TakeExecutionIdx, LowerExecutionIdx,
              LowerMinValidationIdx, CompareValidationIdx, LowerValidationIdx,
              InitAbortReason, LowerValidationIdxAborted, CheckExecutionIdx, WorkerLoop,
              Succeed, Setback, FinishExecution, ReadSetChecked, AddDependencyLate,
              LockBlocking, ExecuteAgain, AbortScheduler, txVars
<1> QED
  BY <1>1, <1>2, <1>3, <1>4, <1>5, <1>6, <1>7, <1>8, <1>9
  DEF Next, SchedulerStep, Terminated, vars, txVars

\* The status diagram of types.rs, as an action property of every behaviour.
THEOREM StatusDiagramHolds == Spec => StatusDiagram
<1>1. StatusDiagram <=> [][StatusMoves]_vars
  BY PTL DEF StatusDiagram, StatusMoves
<1> QED
  BY <1>1, Invariance, StatusStep, PTL DEF Spec

-----------------------------------------------------------------------------
(***************************************************************************)
(* No task is lost: a ready transaction is still to be taken from          *)
(* execution_idx or in the hands of a thread, and so is an executed one    *)
(* with respect to validation_idx.  The ownership invariants are needed to *)
(* see who may change a status meanwhile.                                  *)
(***************************************************************************)
CarrierLabels == {"drain_idx", "try_exec", "lower_abort", "check_exec", "retry_exec"}

\* A step of a thread that carries no execution and makes nothing ready.
LEMMA KeepExecution ==
  ASSUME TypeInv, TypeInv', NoLostExecution, NEW th \in Threads, OthersSame(th),
         abort_reason' = "none" => abort_reason = "none",
         execution_idx' <= execution_idx,
         \A t \in Tx : tx_status'[t].status = "ReadyToExecute" =>
                         tx_status[t].status = "ReadyToExecute",
         pc[th] \notin CarrierLabels
  PROVE  NoLostExecution'
<1> SUFFICES ASSUME abort_reason' = "none", NEW t \in Tx,
                    tx_status'[t].status = "ReadyToExecute"
             PROVE  \/ execution_idx' <= t
                    \/ \E o \in Threads : CarriesExecution(o, t)'
  BY DEF NoLostExecution
<1>1. execution_idx <= t \/ \E o \in Threads : CarriesExecution(o, t)
  BY DEF NoLostExecution
<1>2. CASE execution_idx <= t
  BY <1>2, SMTT(30) DEF TypeInv, TypeOK, Tx
<1>3. CASE \E o \in Threads : CarriesExecution(o, t)
  <2>1. PICK o \in Threads : CarriesExecution(o, t)
    BY <1>3
  <2>2. o # th
    BY <2>1 DEF CarriesExecution, CarrierLabels
  <2>3. CarriesExecution(o, t)'
    BY <2>1, <2>2 DEF CarriesExecution, OthersSame
  <2> QED
    BY <2>3
<1> QED
  BY <1>1, <1>2, <1>3

(***************************************************************************)
(* A step of the thread th that carries, or comes to carry, transaction k: *)
(* the other ready transactions keep what they had.                        *)
(***************************************************************************)
LEMMA MoveExecution ==
  ASSUME TypeInv, TypeInv', NoLostExecution, NEW th \in Threads, NEW k \in Tx, OthersSame(th),
         abort_reason' = abort_reason,
         \A t \in Tx \ {k} : /\ execution_idx <= t => execution_idx' <= t
                             /\ tx_status'[t].status = "ReadyToExecute" =>
                                  tx_status[t].status = "ReadyToExecute"
                             /\ ~CarriesExecution(th, t),
         tx_status'[k].status = "ReadyToExecute" =>
           execution_idx' <= k \/ CarriesExecution(th, k)'
  PROVE  NoLostExecution'
<1> SUFFICES ASSUME abort_reason' = "none", NEW t \in Tx \ {k},
                    tx_status'[t].status = "ReadyToExecute"
             PROVE  \/ execution_idx' <= t
                    \/ \E o \in Threads : CarriesExecution(o, t)'
  BY DEF NoLostExecution
<1>1. execution_idx <= t \/ \E o \in Threads \ {th} : CarriesExecution(o, t)
  BY DEF NoLostExecution
<1>2. CASE \E o \in Threads \ {th} : CarriesExecution(o, t)
  BY <1>2, SMTT(30) DEF CarriesExecution, OthersSame
<1> QED
  BY <1>1, <1>2

\* Setting another status than ReadyToExecute makes nothing ready.
LEMMA NotReady ==
  ASSUME TypeOK, NEW t \in Tx, NEW s, SetStatus(t, s), s # "ReadyToExecute"
  PROVE  \A k \in Tx : tx_status'[k].status = "ReadyToExecute" =>
                         tx_status[k].status = "ReadyToExecute"
  BY DEF TypeOK, TxStatus, SetStatus

\* Every step keeps a ready transaction at the index or in the hands of a thread.
LEMMA ExecutionTaskStep ==
  IInv /\ IInv' /\ NoLostExecution /\ [Next]_vars => NoLostExecution'
<1> SUFFICES ASSUME IInv, IInv', NoLostExecution, [Next]_vars PROVE NoLostExecution'
  OBVIOUS
<1>0. /\ TypeInv /\ TypeInv' /\ TypeOK /\ OwnInv
      /\ \A th \in Threads : ver[th].tx_idx \in Tx
      /\ execution_idx \in Int
  BY SMTT(30) DEF IInv, TypeInv, TypeOK
<1> USE DEF OthersSame, Goto, Hold, Release, txVars, indices, abortVars
<1>1. ASSUME NEW th \in Threads,
             \/ CheckAborted(th) \/ LoadExecutionIdx(th) \/ LoadValidationIdx(th)
             \/ LoadNumValidated(th) \/ LoadMinValidationIdx(th) \/ TakeValidationIdx(th)
      PROVE NoLostExecution'
  BY <1>0, <1>1, KeepExecution, SMTT(30)
  DEF TypeOK, CheckAborted, LoadExecutionIdx, LoadValidationIdx, LoadNumValidated,
      LoadMinValidationIdx, TakeValidationIdx, CarrierLabels
<1>2. ASSUME NEW th \in Threads,
             \/ LowerMinValidationIdx(th) \/ CompareValidationIdx(th)
             \/ LowerValidationIdx(th) \/ WorkerLoop(th) \/ InitAbortReason(th)
      PROVE NoLostExecution'
  BY <1>0, <1>2, KeepExecution, SMTT(30)
  DEF TypeOK, LowerMinValidationIdx, CompareValidationIdx, LowerValidationIdx, WorkerLoop,
      InitAbortReason, AbortReason, ReturnLabels, CarrierLabels
<1>3. ASSUME NEW th \in Threads, PeekStatus(th) \/ SetExecutedStatus(th) PROVE NoLostExecution'
  <2>1. \A t \in Tx : tx_status'[t].status = "ReadyToExecute" =>
                        tx_status[t].status = "ReadyToExecute"
    BY <1>0, <1>3, NotReady DEF PeekStatus, SetExecutedStatus
  <2>2. /\ abort_reason' = abort_reason /\ execution_idx' = execution_idx
        /\ OthersSame(th) /\ pc[th] \notin CarrierLabels
    BY <1>0, <1>3 DEF TypeOK, PeekStatus, SetExecutedStatus, CarrierLabels
  <2> QED
    BY <1>0, <2>1, <2>2, KeepExecution, SMTT(30)
<1>4. ASSUME NEW th \in Threads,
             AddDependency(th) \/ TryValidationAbort(th) \/ ConfirmValidated(th)
      PROVE NoLostExecution'
  <2>1. \A t \in Tx : tx_status'[t].status = "ReadyToExecute" =>
                        tx_status[t].status = "ReadyToExecute"
    BY <1>0, <1>4, NotReady DEF AddDependency, TryValidationAbort, ConfirmValidated
  <2>2. /\ abort_reason' = abort_reason /\ execution_idx' = execution_idx
        /\ OthersSame(th) /\ pc[th] \notin CarrierLabels
    BY <1>0, <1>4, SMTT(30) DEF TypeOK, AddDependency, TryValidationAbort, ConfirmValidated,
       CarrierLabels
  <2> QED
    BY <1>0, <2>1, <2>2, KeepExecution, SMTT(30)
<1>5. ASSUME NEW th \in Threads, Succeed(th) \/ Setback(th) PROVE NoLostExecution'
  <2>1. /\ abort_reason' = abort_reason /\ execution_idx' = execution_idx
        /\ tx_status' = tx_status
        /\ OthersSame(th) /\ pc[th] \notin CarrierLabels
    BY <1>0, <1>5, SMTT(30)
    DEF TypeOK, Succeed, Setback, FinishExecution, ReadSetChecked, AddDependencyLate,
        LockBlocking, ExecuteAgain, AbortScheduler, CarrierLabels
  <2> QED
    BY <1>0, <2>1, KeepExecution, SMTT(30)
<1>6. ASSUME NEW th \in Threads, TakeExecutionIdx(th) PROVE NoLostExecution'
  <2>1. CASE execution_idx < block_size
    <3>1. PICK k \in Tx : k = execution_idx
      BY <1>0, <2>1, BlockSizeAssumption, SMTT(30) DEF TypeOK, Tx
    <3>2. CarriesExecution(th, k)'
      BY <1>0, <1>6, <2>1, <3>1, SMTT(30) DEF TypeOK, TakeExecutionIdx, CarriesExecution
    <3>3. \A t \in Tx : ~CarriesExecution(th, t)
      BY <1>6 DEF TakeExecutionIdx, CarriesExecution
    <3>4. \A t \in Tx \ {k} : execution_idx <= t => execution_idx' <= t
      BY <1>0, <1>6, <2>1, <3>1, SMTT(30) DEF TakeExecutionIdx, FetchAdd, Tx
    <3>5. abort_reason' = abort_reason /\ tx_status' = tx_status /\ OthersSame(th)
      BY <1>0, <1>6, <2>1 DEF TypeOK, TakeExecutionIdx
    <3> QED
      BY <1>0, <3>1, <3>2, <3>3, <3>4, <3>5, MoveExecution
  <2>2. CASE ~(execution_idx < block_size)
    <3>1. /\ abort_reason' = abort_reason /\ execution_idx' = execution_idx
          /\ tx_status' = tx_status
          /\ OthersSame(th) /\ pc[th] \notin CarrierLabels
      BY <1>0, <1>6, <2>2 DEF TypeOK, TakeExecutionIdx, FetchAdd, CarrierLabels
    <3> QED
      BY <1>0, <3>1, KeepExecution, SMTT(30)
  <2> QED
    BY <2>1, <2>2
<1>7. ASSUME NEW th \in Threads, TryExecute(th) PROVE NoLostExecution'
  <2>0. PICK k \in Tx : k = ver[th].tx_idx
    BY <1>0
  <2>1. tx_status'[k].status # "ReadyToExecute"
    BY <1>0, <1>7, <2>0, SMTT(30) DEF TypeOK, TxStatus, TryExecute, SetStatus
  <2>2. \A t \in Tx \ {k} : /\ tx_status'[t] = tx_status[t]
                            /\ ~CarriesExecution(th, t)
    BY <1>0, <1>7, <2>0 DEF TypeOK, TryExecute, SetStatus, CarriesExecution
  <2>3. abort_reason' = abort_reason /\ execution_idx' = execution_idx /\ OthersSame(th)
    BY <1>0, <1>7, <2>0 DEF TypeOK, TryExecute
  <2> QED
    BY <1>0, <2>1, <2>2, <2>3, MoveExecution
<1>8. ASSUME NEW th \in Threads, ResumeDependent(th) PROVE NoLostExecution'
  <2>1. PICK j \in tx_dependency[ver[th].tx_idx] :
          SetReadyStatus(j) /\ idx' = [idx EXCEPT ![th] = j]
    BY <1>8 DEF ResumeDependent
  <2>2. j \in Tx
    BY <1>0 DEF TypeOK
  <2>3. CarriesExecution(th, j)'
    BY <1>0, <1>8, <2>1 DEF TypeOK, ResumeDependent, CarriesExecution
  <2>4. \A t \in Tx \ {j} : tx_status'[t] = tx_status[t] /\ ~CarriesExecution(th, t)
    BY <1>0, <1>8, <2>1, SMTT(30) DEF TypeOK, ResumeDependent, SetReadyStatus, CarriesExecution
  <2>5. abort_reason' = abort_reason /\ execution_idx' = execution_idx /\ OthersSame(th)
    BY <1>0, <1>8, <2>1, SMTT(30) DEF TypeOK, ResumeDependent
  <2> QED
    BY <1>0, <2>2, <2>3, <2>4, <2>5, MoveExecution
<1>9. ASSUME NEW th \in Threads, LowerExecutionIdx(th) PROVE NoLostExecution'
  <2>1. PICK k \in Tx : k = idx[th] /\ k \in Int
    BY <1>0, <1>9, SMTT(30) DEF TypeInv, LowerExecutionIdx, Tx
  <2>2. execution_idx' <= k /\ execution_idx' <= execution_idx /\ execution_idx' \in Int
    BY <1>0, <1>9, <2>1, SMTT(30) DEF LowerExecutionIdx, Min2
  <2>3. \A t \in Tx \ {k} : ~CarriesExecution(th, t)
    BY <1>9, <2>1 DEF LowerExecutionIdx, CarriesExecution
  <2>4. \A t \in Tx \ {k} : execution_idx <= t => execution_idx' <= t
    BY <1>0, <2>2, SMTT(30) DEF Tx
  <2>5. abort_reason' = abort_reason /\ tx_status' = tx_status /\ OthersSame(th)
    BY <1>0, <1>9 DEF TypeOK, LowerExecutionIdx
  <2> QED
    BY <1>0, <2>1, <2>2, <2>3, <2>4, <2>5, MoveExecution
<1>10. ASSUME NEW th \in Threads, RescheduleAborted(th) PROVE NoLostExecution'
  <2>0. PICK k \in Tx : k = ver[th].tx_idx
    BY <1>0
  <2>1. CarriesExecution(th, k)'
    BY <1>0, <1>10, <2>0 DEF TypeOK, RescheduleAborted, CarriesExecution
  <2>2. \A t \in Tx \ {k} : tx_status'[t] = tx_status[t] /\ ~CarriesExecution(th, t)
    BY <1>0, <1>10, <2>0 DEF TypeOK, RescheduleAborted, SetReadyStatus, CarriesExecution
  <2>3. abort_reason' = abort_reason /\ execution_idx' = execution_idx /\ OthersSame(th)
    BY <1>0, <1>10, <2>0 DEF TypeOK, RescheduleAborted
  <2> QED
    BY <1>0, <2>1, <2>2, <2>3, MoveExecution
<1>11. ASSUME NEW th \in Threads, LowerValidationIdxAborted(th) \/ CheckExecutionIdx(th)
       PROVE NoLostExecution'
  <2>0. PICK k \in Tx : k = ver[th].tx_idx
    BY <1>0
  <2>1. execution_idx' <= k \/ CarriesExecution(th, k)'
    BY <1>0, <1>11, <2>0, SMTT(30) DEF TypeOK, Tx, LowerValidationIdxAborted, CheckExecutionIdx,
       CarriesExecution
  <2>2. \A t \in Tx \ {k} : ~CarriesExecution(th, t)
    BY <1>11, <2>0 DEF LowerValidationIdxAborted, CheckExecutionIdx, CarriesExecution
  <2>3. /\ abort_reason' = abort_reason /\ execution_idx' = execution_idx
        /\ tx_status' = tx_status /\ OthersSame(th)
    BY <1>0, <1>11, <2>0 DEF TypeOK, LowerValidationIdxAborted, CheckExecutionIdx
  <2> QED
    BY <1>0, <2>1, <2>2, <2>3, MoveExecution
<1>12. ASSUME UNCHANGED vars PROVE NoLostExecution'
  BY <1>12, SMTT(30) DEF vars, NoLostExecution, CarriesExecution
<1> QED
  BY <1>1, <1>2, <1>3, <1>4, <1>5, <1>6, <1>7, <1>8, <1>9, <1>10, <1>11, <1>12
  DEF Next, SchedulerStep, Terminated

-----------------------------------------------------------------------------
(***************************************************************************)
(* Validation tasks.  finish_execution compares validation_idx before it   *)
(* sets the status to Executed; a thread that takes the index past the     *)
(* transaction in between waits for the status mutex and will see the new  *)
(* status (Peeked).                                                        *)
(***************************************************************************)
Peeked(t) ==
  \/ validation_idx <= t
  \/ \E o \in Threads : pc[o] = "peek_val" /\ ver[o].tx_idx = t

ValidationInv ==
  /\ NoLostValidation
  /\ \A th \in Threads : /\ pc[th] # "lower_min"
                         /\ pc[th] = "set_none" => Peeked(ver[th].tx_idx)

\* One step of thread th, which may only move the validation of k.
LEMMA MoveValidation ==
  ASSUME NoLostValidation, NEW th \in Threads, NEW k \in Tx, OthersSame(th),
         abort_reason' = "none" => abort_reason = "none",
         \A t \in Tx \ {k} : /\ validation_idx <= t => validation_idx' <= t
                             /\ tx_status'[t].status = "Executed" =>
                                  tx_status[t].status = "Executed"
                             /\ ~CarriesValidation(th, t),
         abort_reason' = "none" /\ tx_status'[k].status = "Executed" =>
           validation_idx' <= k \/ \E o \in Threads : CarriesValidation(o, k)'
  PROVE  NoLostValidation'
<1> SUFFICES ASSUME abort_reason' = "none", NEW t \in Tx \ {k},
                    tx_status'[t].status = "Executed"
             PROVE  \/ validation_idx' <= t
                    \/ \E o \in Threads : CarriesValidation(o, t)'
  BY DEF NoLostValidation
<1>1. validation_idx <= t \/ \E o \in Threads \ {th} : CarriesValidation(o, t)
  BY DEF NoLostValidation
<1>2. CASE \E o \in Threads \ {th} : CarriesValidation(o, t)
  BY <1>2 DEF CarriesValidation, OthersSame
<1> QED
  BY <1>1, <1>2

\* One step of a thread that carries no validation and executes nothing to the end.
LEMMA KeepValidation ==
  ASSUME NoLostValidation, NEW th \in Threads, OthersSame(th),
         abort_reason' = "none" => abort_reason = "none",
         \A t \in Tx : /\ validation_idx <= t => validation_idx' <= t
                       /\ tx_status'[t].status = "Executed" =>
                            tx_status[t].status = "Executed"
                       /\ ~CarriesValidation(th, t)
  PROVE  NoLostValidation'
<1> SUFFICES ASSUME abort_reason' = "none", NEW t \in Tx,
                    tx_status'[t].status = "Executed"
             PROVE  \/ validation_idx' <= t
                    \/ \E o \in Threads : CarriesValidation(o, t)'
  BY DEF NoLostValidation
<1>1. validation_idx <= t \/ \E o \in Threads \ {th} : CarriesValidation(o, t)
  BY DEF NoLostValidation
<1>2. CASE \E o \in Threads \ {th} : CarriesValidation(o, t)
  BY <1>2 DEF CarriesValidation, OthersSame
<1> QED
  BY <1>1, <1>2

\* The threads that wait in set_none: nobody takes their transaction from them.
LEMMA PeekedStep ==
  ASSUME TypeInv, ValidationInv, NEW th \in Threads, OthersSame(th),
         \A t \in Tx : validation_idx <= t =>
           validation_idx' <= t \/ (pc'[th] = "peek_val" /\ ver'[th].tx_idx = t),
         pc[th] = "peek_val" => ~StatusLocked(ver[th].tx_idx),
         pc'[th] # "lower_min",
         pc'[th] = "set_none" =>
           pc[th] # "peek_val" /\ ver'[th] = ver[th] /\ Peeked(ver[th].tx_idx)
  PROVE  \A o \in Threads : /\ pc'[o] # "lower_min"
                            /\ pc'[o] = "set_none" => Peeked(ver[o].tx_idx)'
<1> SUFFICES ASSUME NEW o \in Threads, pc'[o] = "set_none"
             PROVE  Peeked(ver[o].tx_idx)'
  BY DEF ValidationInv, OthersSame
<1>1. PICK t \in Tx : t = ver[o].tx_idx
  BY DEF TypeInv, TypeOK
<1>2. ver'[o] = ver[o] /\ Peeked(t) /\ (o # th => pc[o] = "set_none")
  BY <1>1 DEF ValidationInv, OthersSame
<1>3. pc[th] = "peek_val" => ver[th].tx_idx # t
  BY <1>1, <1>2 DEF StatusLocked, HoldsStatus
<1>4. Peeked(t)'
  <2>1. CASE validation_idx <= t
    BY <2>1 DEF Peeked
  <2>2. CASE \E p \in Threads : pc[p] = "peek_val" /\ ver[p].tx_idx = t
    BY <2>2, <1>3 DEF Peeked, OthersSame
  <2> QED
    BY <1>2, <2>1, <2>2 DEF Peeked
<1> QED
  BY <1>1, <1>2, <1>4 DEF Peeked

CarrierOf(th) == pc[th] \in {"peek_val", "ret_val", "validate", "try_abort", "confirm"}

\* Steps that touch neither the statuses nor validation_idx nor a carrier.
LEMMA IdleValidation ==
  ASSUME TypeInv, ValidationInv, NEW th \in Threads, OthersSame(th),
         abort_reason' = "none" => abort_reason = "none",
         tx_status' = tx_status, validation_idx' = validation_idx,
         ~CarrierOf(th), pc'[th] \notin {"lower_min", "set_none"}
  PROVE  ValidationInv'
<1>1. \A t \in Tx : ~CarriesValidation(th, t)
  BY DEF CarriesValidation, CarrierOf
<1>2. NoLostValidation'
  BY <1>1, KeepValidation DEF ValidationInv
<1>3. pc[th] # "peek_val"
  BY DEF CarrierOf
<1>4. \A o \in Threads : pc'[o] # "lower_min" /\ (pc'[o] = "set_none" => Peeked(ver[o].tx_idx)')
  BY <1>3, PeekedStep
<1> QED
  BY <1>2, <1>4 DEF ValidationInv

\* Steps that lower validation_idx and touch nothing else.
LEMMA LowerValidation ==
  ASSUME TypeInv, ValidationInv, NEW th \in Threads, OthersSame(th), NEW n \in Int,
         abort_reason' = abort_reason, tx_status' = tx_status,
         validation_idx' = Min2(validation_idx, n),
         ~CarrierOf(th), pc'[th] \notin {"lower_min", "set_none"}
  PROVE  ValidationInv'
<1>1. \A t \in Tx : ~CarriesValidation(th, t)
  BY DEF CarriesValidation, CarrierOf
<1>2. \A t \in Tx : validation_idx <= t => validation_idx' <= t
  BY SMTT(30) DEF TypeInv, TypeOK, Min2, Tx
<1>3. NoLostValidation'
  BY <1>1, <1>2, KeepValidation DEF ValidationInv
<1>4. pc[th] # "peek_val"
  BY DEF CarrierOf
<1>5. \A o \in Threads : pc'[o] # "lower_min" /\ (pc'[o] = "set_none" => Peeked(ver[o].tx_idx)')
  BY <1>2, <1>4, PeekedStep
<1> QED
  BY <1>3, <1>5 DEF ValidationInv

\* A thread that carries the validation of k before the step, or after it.
LEMMA CarryValidation ==
  ASSUME TypeInv, ValidationInv, NEW th \in Threads, OthersSame(th), NEW k \in Tx,
         ver[th].tx_idx = k, validation_idx' = validation_idx,
         abort_reason' = "none" => abort_reason = "none",
         \A t \in Tx \ {k} : tx_status'[t].status = "Executed" => tx_status[t].status = "Executed",
         abort_reason' = "none" /\ tx_status'[k].status = "Executed" =>
           CarriesValidation(th, k)',
         pc[th] = "peek_val" => ~StatusLocked(k),
         pc'[th] \notin {"lower_min", "set_none"}
  PROVE  ValidationInv'
<1>1. \A t \in Tx \ {k} : ~CarriesValidation(th, t)
  BY DEF CarriesValidation
<1>2. NoLostValidation'
  BY <1>1, MoveValidation DEF ValidationInv
<1>3. \A o \in Threads : pc'[o] # "lower_min" /\ (pc'[o] = "set_none" => Peeked(ver[o].tx_idx)')
  BY PeekedStep
<1> QED
  BY <1>2, <1>3 DEF ValidationInv

\* SetStatus changes the status of its transaction and of no other.
LEMMA NotExecuted ==
  ASSUME TypeOK, NEW t \in Tx, NEW s, SetStatus(t, s)
  PROVE  /\ \A k \in Tx \ {t} : tx_status'[k] = tx_status[k]
         /\ tx_status'[t].status = s
  BY SMTT(30) DEF TypeOK, TxStatus, SetStatus

\* Every step keeps an executed transaction at the index or in the hands of a thread.
LEMMA ValidationTaskStep ==
  IInv /\ IInv' /\ ValidationInv /\ [Next]_vars => ValidationInv'
<1> SUFFICES ASSUME IInv, IInv', ValidationInv, [Next]_vars PROVE ValidationInv'
  OBVIOUS
<1>0. /\ TypeInv /\ TypeOK /\ OwnInv
      /\ \A th \in Threads : ver[th].tx_idx \in Tx
      /\ validation_idx \in Int /\ min_validation_idx \in Int
  BY SMTT(30), ZenonT(40) DEF IInv, TypeInv, TypeOK
<1> USE DEF OthersSame, Goto, Hold, Release, txVars, indices, abortVars
<1>1. ASSUME NEW th \in Threads,
             \/ CheckAborted(th) \/ LoadExecutionIdx(th) \/ LoadValidationIdx(th)
             \/ LoadNumValidated(th) \/ LoadMinValidationIdx(th) \/ TakeExecutionIdx(th)
      PROVE ValidationInv'
  BY <1>0, <1>1, IdleValidation, SMTT(30), ZenonT(40)
  DEF TypeOK, CheckAborted, LoadExecutionIdx, LoadValidationIdx, LoadNumValidated,
      LoadMinValidationIdx, TakeExecutionIdx, CarrierOf
<1>2. ASSUME NEW th \in Threads,
             LowerExecutionIdx(th) \/ InitAbortReason(th) \/ CheckExecutionIdx(th)
      PROVE ValidationInv'
  BY <1>0, <1>2, IdleValidation, SMTT(20)
  DEF TypeOK, LowerExecutionIdx, InitAbortReason, CheckExecutionIdx, AbortReason, CarrierOf
<1>3. ASSUME NEW th \in Threads, LowerMinValidationIdx(th) PROVE ValidationInv'
  <2>1. pc'[th] = "load_val_idx"
    BY <1>0, <1>3, BlockSizeAssumption, SMTT(30)
    DEF TypeOK, LowerMinValidationIdx, Min2, contains, NeedValidation, Tx
  <2> QED
    BY <1>0, <1>3, <2>1, IdleValidation DEF TypeOK, LowerMinValidationIdx, CarrierOf
<1>4. ASSUME NEW th \in Threads, CompareValidationIdx(th) PROVE ValidationInv'
  <2>1. pc'[th] = "set_none" => Peeked(ver[th].tx_idx)
    BY <1>0, <1>4 DEF TypeOK, CompareValidationIdx, Peeked, Tx
  <2>2. pc[th] = "load_val_idx" /\ pc'[th] # "lower_min" /\ ver' = ver /\ OthersSame(th)
        /\ validation_idx' = validation_idx /\ tx_status' = tx_status
        /\ abort_reason' = abort_reason
    BY <1>0, <1>4 DEF TypeOK, CompareValidationIdx
  <2>3. NoLostValidation'
    BY <2>2, KeepValidation DEF ValidationInv, CarriesValidation
  <2>4. \A o \in Threads : pc'[o] # "lower_min" /\ (pc'[o] = "set_none" => Peeked(ver[o].tx_idx)')
    BY <1>0, <2>1, <2>2, PeekedStep
  <2> QED
    BY <2>3, <2>4 DEF ValidationInv
<1>5. ASSUME NEW th \in Threads, LowerValidationIdx(th) PROVE ValidationInv'
  <2>1. pc[th] = "lower_next" /\ idx[th] \in Int
    BY <1>0, <1>5 DEF TypeOK, ValidationInv, LowerValidationIdx
  <2> QED
    BY <1>0, <1>5, <2>1, LowerValidation DEF TypeOK, LowerValidationIdx, CarrierOf
<1>6. ASSUME NEW th \in Threads, LowerValidationIdxAborted(th) PROVE ValidationInv'
  <2>1. ver[th].tx_idx + 1 \in Int
    BY <1>0, SMTT(30) DEF Tx
  <2> QED
    BY <1>0, <1>6, <2>1, LowerValidation DEF TypeOK, LowerValidationIdxAborted, CarrierOf
<1>7. ASSUME NEW th \in Threads, TakeValidationIdx(th) PROVE ValidationInv'
  <2>1. CASE validation_idx < block_size
    <3>1. PICK k \in Tx : k = validation_idx
      BY <1>0, <2>1, BlockSizeAssumption, SMTT(30) DEF TypeOK, Tx
    <3>2. CarriesValidation(th, k)' /\ pc'[th] = "peek_val" /\ ver'[th].tx_idx = k
      BY <1>0, <1>7, <2>1, <3>1, SMTT(30) DEF TypeOK, TakeValidationIdx, CarriesValidation
    <3>3. \A t \in Tx : ~CarriesValidation(th, t)
      BY <1>7 DEF TakeValidationIdx, CarriesValidation
    <3>4. \A t \in Tx \ {k} : validation_idx <= t => validation_idx' <= t
      BY <1>0, <1>7, <2>1, <3>1, SMTT(20) DEF TakeValidationIdx, FetchAdd, Tx
    <3>5. abort_reason' = abort_reason /\ tx_status' = tx_status /\ OthersSame(th)
      BY <1>0, <1>7, <2>1 DEF TypeOK, TakeValidationIdx
    <3>6. NoLostValidation'
      BY <3>2, <3>3, <3>4, <3>5, MoveValidation DEF ValidationInv
    <3>7. pc[th] = "take_val"
      BY <1>7 DEF TakeValidationIdx
    <3>8. \A o \in Threads : pc'[o] # "lower_min" /\ (pc'[o] = "set_none" => Peeked(ver[o].tx_idx)')
      BY <1>0, <3>2, <3>4, <3>5, <3>7, PeekedStep
    <3> QED
      BY <3>6, <3>8 DEF ValidationInv
  <2>2. CASE ~(validation_idx < block_size)
    BY <1>0, <1>7, <2>2, IdleValidation DEF TypeOK, TakeValidationIdx, FetchAdd, CarrierOf
  <2> QED
    BY <2>1, <2>2
<1>8. ASSUME NEW th \in Threads, PeekStatus(th) PROVE ValidationInv'
  <2>1. PICK k \in Tx : k = ver[th].tx_idx
    BY <1>0
  <2>2. /\ \A t \in Tx \ {k} : tx_status'[t] = tx_status[t]
        /\ tx_status'[k].status = "Executed" => pc'[th] = "validate" /\ ver'[th].tx_idx = k
    <3>1. CASE tx_status[k].status = "ReadyToExecute"
      <4>1. SetStatus(k, "Executing")
        BY <1>8, <2>1, <3>1 DEF PeekStatus
      <4>2. /\ \A t \in Tx \ {k} : tx_status'[t] = tx_status[t]
            /\ tx_status'[k].status = "Executing"
        BY <1>0, <4>1, NotExecuted
      <4> QED
        BY <4>2
    <3>2. CASE tx_status[k].status # "ReadyToExecute"
      BY <1>0, <1>8, <2>1, <3>2, SMTT(20) DEF TypeOK, PeekStatus
    <3> QED
      BY <3>1, <3>2
  <2>3. /\ validation_idx' = validation_idx /\ abort_reason' = abort_reason /\ OthersSame(th)
        /\ ~StatusLocked(k) /\ pc'[th] \notin {"lower_min", "set_none"}
    BY <1>0, <1>8, <2>1 DEF TypeOK, PeekStatus
  <2> QED
    BY <1>0, <2>1, <2>2, <2>3, CarryValidation, SMTT(30) DEF CarriesValidation
<1>9. ASSUME NEW th \in Threads, TryExecute(th) \/ AddDependency(th) PROVE ValidationInv'
  <2>1. PICK k \in Tx : k = ver[th].tx_idx
    BY <1>0
  <2>2. \A t \in Tx : tx_status'[t].status = "Executed" => tx_status[t].status = "Executed"
    BY <1>0, <1>9, <2>1, NotExecuted, SMTT(30), ZenonT(40) DEF TryExecute, AddDependency
  <2>3. /\ validation_idx' = validation_idx /\ abort_reason' = abort_reason /\ OthersSame(th)
        /\ pc[th] \in {"try_exec", "retry_exec", "add_dep"}
        /\ pc'[th] \notin {"lower_min", "set_none"}
    BY <1>0, <1>9, SMTT(30) DEF TypeOK, TryExecute, AddDependency
  <2>4. NoLostValidation'
    BY <2>2, <2>3, KeepValidation DEF ValidationInv, CarriesValidation
  <2>5. \A o \in Threads : pc'[o] # "lower_min" /\ (pc'[o] = "set_none" => Peeked(ver[o].tx_idx)')
    BY <1>0, <2>3, PeekedStep
  <2> QED
    BY <2>4, <2>5 DEF ValidationInv
<1>10. ASSUME NEW th \in Threads, ResumeDependent(th) \/ RescheduleAborted(th) PROVE ValidationInv'
  <2>1. PICK j \in Tx : SetReadyStatus(j)
    BY <1>0, <1>10 DEF TypeOK, ResumeDependent, RescheduleAborted
  <2>2. \A t \in Tx : tx_status'[t].status = "Executed" => tx_status[t].status = "Executed"
    BY <1>0, <2>1 DEF TypeOK, SetReadyStatus
  <2>3. /\ validation_idx' = validation_idx /\ abort_reason' = abort_reason /\ OthersSame(th)
        /\ pc[th] \in {"drain", "estimate"}
        /\ pc'[th] \notin {"lower_min", "set_none"}
    BY <1>0, <1>10 DEF TypeOK, ResumeDependent, RescheduleAborted
  <2>4. NoLostValidation'
    BY <2>2, <2>3, KeepValidation DEF ValidationInv, CarriesValidation
  <2>5. \A o \in Threads : pc'[o] # "lower_min" /\ (pc'[o] = "set_none" => Peeked(ver[o].tx_idx)')
    BY <1>0, <2>3, PeekedStep
  <2> QED
    BY <2>4, <2>5 DEF ValidationInv
<1>11. ASSUME NEW th \in Threads, SetExecutedStatus(th) PROVE ValidationInv'
  <2>1. PICK k \in Tx : k = ver[th].tx_idx
    BY <1>0
  <2>2. \A t \in Tx \ {k} : tx_status'[t] = tx_status[t]
    BY <1>0, <1>11, <2>1, NotExecuted DEF SetExecutedStatus
  <2>3. /\ validation_idx' = validation_idx /\ abort_reason' = abort_reason /\ OthersSame(th)
        /\ pc[th] \in {"set_none", "set_ret"}
        /\ pc'[th] \notin {"lower_min", "set_none"}
    BY <1>0, <1>11 DEF TypeOK, SetExecutedStatus
  <2>4. pc[th] = "set_ret" => CarriesValidation(th, k)'
    BY <1>0, <1>11, <2>1
    DEF TypeOK, SetExecutedStatus, CarriesValidation, contains, NeedValidation
  <2>5. pc[th] = "set_none" =>
          validation_idx' <= k \/ \E o \in Threads : CarriesValidation(o, k)'
    <3>1. ASSUME pc[th] = "set_none" PROVE Peeked(k)
      BY <2>1, <3>1 DEF ValidationInv
    <3>2. ASSUME NEW o \in Threads, pc[o] = "peek_val", ver[o].tx_idx = k
          PROVE  CarriesValidation(o, k)'
      BY <2>3, <3>2 DEF CarriesValidation
    <3> QED
      BY <2>3, <3>1, <3>2 DEF Peeked
  <2>6. NoLostValidation'
    <3>1. \A t \in Tx : ~CarriesValidation(th, t)
      BY <2>3 DEF CarriesValidation
    <3> QED
      BY <2>2, <2>3, <2>4, <2>5, <3>1, MoveValidation, SMTT(20) DEF ValidationInv
  <2>7. \A o \in Threads : pc'[o] # "lower_min" /\ (pc'[o] = "set_none" => Peeked(ver[o].tx_idx)')
    BY <1>0, <2>3, PeekedStep
  <2> QED
    BY <2>6, <2>7 DEF ValidationInv
<1>12. ASSUME NEW th \in Threads, TryValidationAbort(th) PROVE ValidationInv'
  <2>1. PICK k \in Tx : k = ver[th].tx_idx
    BY <1>0
  <2>2. /\ validation_idx' = validation_idx /\ abort_reason' = abort_reason /\ OthersSame(th)
        /\ pc[th] = "try_abort" /\ pc'[th] \in {"estimate", "confirm"} /\ ver' = ver
    BY <1>0, <1>12 DEF TypeOK, TryValidationAbort
  <2>3. /\ \A t \in Tx \ {k} : tx_status'[t] = tx_status[t]
        /\ tx_status'[k].status # "Executed"
    <3>1. CASE tx_status[k].status \in {"Executed", "Validated"}
      <4>1. SetStatus(k, "Aborted")
        BY <1>12, <2>1, <3>1 DEF TryValidationAbort
      <4>2. /\ \A t \in Tx \ {k} : tx_status'[t] = tx_status[t]
            /\ tx_status'[k].status = "Aborted"
        BY <1>0, <4>1, NotExecuted
      <4> QED
        BY <4>2
    <3>2. CASE tx_status[k].status \notin {"Executed", "Validated"}
      BY <1>12, <2>1, <3>2 DEF TryValidationAbort
    <3> QED
      BY <3>1, <3>2
  <2> QED
    BY <1>0, <2>1, <2>2, <2>3, CarryValidation, SMTT(30), ZenonT(40)
<1>13. ASSUME NEW th \in Threads, ConfirmValidated(th) PROVE ValidationInv'
  <2>1. PICK k \in Tx : k = ver[th].tx_idx
    BY <1>0
  <2>2. /\ validation_idx' = validation_idx /\ abort_reason' = abort_reason /\ OthersSame(th)
        /\ pc[th] = "confirm" /\ pc'[th] = "ret_none"
    BY <1>0, <1>13 DEF TypeOK, ConfirmValidated
  <2>3. /\ \A t \in Tx \ {k} : tx_status'[t] = tx_status[t]
        /\ tx_status'[k].status # "Executed"
    <3>1. CASE tx_status[k].status = "Executed"
      <4>1. SetStatus(k, "Validated")
        BY <1>13, <2>1, <3>1 DEF ConfirmValidated
      <4>2. /\ \A t \in Tx \ {k} : tx_status'[t] = tx_status[t]
            /\ tx_status'[k].status = "Validated"
        BY <1>0, <4>1, NotExecuted
      <4> QED
        BY <4>2
    <3>2. CASE tx_status[k].status # "Executed"
      BY <1>13, <2>1, <3>2 DEF ConfirmValidated
    <3> QED
      BY <3>1, <3>2
  <2> QED
    BY <1>0, <2>1, <2>2, <2>3, CarryValidation, SMTT(30), ZenonT(40)
<1>14. ASSUME NEW th \in Threads, WorkerLoop(th) PROVE ValidationInv'
  <2>1. PICK k \in Tx : k = ver[th].tx_idx
    BY <1>0
  <2>2. /\ validation_idx' = validation_idx /\ abort_reason' = abort_reason /\ OthersSame(th)
        /\ tx_status' = tx_status
        /\ pc[th] \in ReturnLabels /\ pc'[th] \in {"done", "next", "execute", "validate"}
    BY <1>0, <1>14 DEF TypeOK, WorkerLoop, ReturnLabels
  <2>3. CASE pc[th] = "ret_val"
    <3>1. abort_reason' = "none" => CarriesValidation(th, k)'
      BY <1>0, <1>14, <2>1, <2>3 DEF TypeOK, WorkerLoop, CarriesValidation
    <3> QED
      BY <1>0, <2>1, <2>2, <2>3, <3>1, CarryValidation
  <2>4. CASE pc[th] # "ret_val"
    BY <1>0, <2>2, <2>4, IdleValidation DEF CarrierOf, ReturnLabels
  <2> QED
    BY <2>3, <2>4
<1>15. ASSUME NEW th \in Threads, NEW valid \in BOOLEAN, ReadSetChecked(th, valid)
       PROVE ValidationInv'
  <2>1. PICK k \in Tx : k = ver[th].tx_idx
    BY <1>0
  <2>2. /\ validation_idx' = validation_idx /\ abort_reason' = abort_reason /\ OthersSame(th)
        /\ tx_status' = tx_status /\ ver' = ver
        /\ pc[th] = "validate" /\ pc'[th] \in {"try_abort", "confirm"}
    BY <1>0, <1>15 DEF TypeOK, ReadSetChecked
  <2>3. CarriesValidation(th, k)'
    BY <2>1, <2>2 DEF CarriesValidation
  <2> QED
    BY <1>0, <2>1, <2>2, <2>3, CarryValidation
<1>16. ASSUME NEW th \in Threads, Succeed(th) PROVE ValidationInv'
  <2>1. ASSUME NEW fl, FinishExecution(th, fl) PROVE ValidationInv'
    BY <1>0, <2>1, IdleValidation DEF TypeOK, FinishExecution, CarrierOf
  <2> QED
    BY <1>15, <1>16, <2>1 DEF Succeed
<1>17. ASSUME NEW th \in Threads, Setback(th) PROVE ValidationInv'
  <2>1. ASSUME NEW b \in Tx, LockBlocking(th, b) PROVE ValidationInv'
    BY <1>0, <2>1, IdleValidation DEF TypeOK, LockBlocking, CarrierOf
  <2>2. ASSUME ExecuteAgain(th) PROVE ValidationInv'
    BY <1>0, <2>2, IdleValidation DEF TypeOK, ExecuteAgain, CarrierOf
  <2>3. ASSUME NEW reason \in AbortReason, AbortScheduler(th, reason) PROVE ValidationInv'
    BY <1>0, <2>3, IdleValidation DEF TypeOK, AbortScheduler, AbortReason, CarrierOf
  <2> QED
    BY <1>15, <1>17, <2>1, <2>2, <2>3 DEF Setback, AddDependencyLate
<1>18. ASSUME UNCHANGED vars PROVE ValidationInv'
  BY <1>18, SMTT(30) DEF vars, ValidationInv, NoLostValidation, CarriesValidation, Peeked
<1> QED
  BY <1>1, <1>2, <1>3, <1>4, <1>5, <1>6, <1>7, <1>8, <1>9, <1>10, <1>11, <1>12, <1>13,
     <1>14, <1>16, <1>17, <1>18
  DEF Next, SchedulerStep, Terminated

-----------------------------------------------------------------------------
(***************************************************************************)
(* As long as the block is not aborted, a transaction that is ready to     *)
(* execute is in front of execution_idx or in the hands of a thread.       *)
(***************************************************************************)
THEOREM NoExecutionLost == Spec => []NoLostExecution
<1>1. Init => NoLostExecution
  BY BlockSizeAssumption, SMTT(30) DEF Init, NoLostExecution, Tx
<1> QED
  BY <1>1, Invariance, ExecutionTaskStep, PTL DEF Spec

(***************************************************************************)
(* As long as the block is not aborted, an executed transaction is in      *)
(* front of validation_idx or a thread holds a validation of it.           *)
(***************************************************************************)
THEOREM NoValidationLost == Spec => []NoLostValidation
<1>1. Init => ValidationInv
  BY SMTT(30) DEF Init, ValidationInv, NoLostValidation
<1>2. ValidationInv => NoLostValidation
  BY DEF ValidationInv
<1> QED
  BY <1>1, <1>2, Invariance, ValidationTaskStep, PTL DEF Spec

-----------------------------------------------------------------------------
(***************************************************************************)
(* The workers leave a block behind that is complete, for every positive   *)
(* number of threads and every block size.  next_task reads two indices    *)
(* and two counters one after the other, and a thread may leave while      *)
(* others still work; the last thread to leave may not.                    *)
(***************************************************************************)
\* The thread has found both indices at the end of the block, or left.
PastValidation(th) == pc[th] \in {"load_num", "load_min", "done"}

\* The thread has found execution_idx at the end of the block, or left.
PastExecution(th) ==
  PastValidation(th) \/ (pc[th] = "load_val" /\ ~(idx[th] < block_size))

Owns(th, t) == pc[th] \in ExecutionLabels \cup AbortReason /\ ver[th].tx_idx = t

\* While an index is below the end of the block, somebody has yet to look at it.
IndicesSeen ==
  ~aborted =>
    /\ execution_idx < block_size => \E th \in Threads : ~PastExecution(th)
    /\ validation_idx < block_size => \E th \in Threads : ~PastValidation(th)

\* The reason of an abort is known, or about to be.
ReasonFollows ==
  /\ abort_reason # "none" => aborted
  /\ aborted => abort_reason # "none" \/ \E th \in Threads : pc[th] \in AbortReason
  /\ \A th \in Threads : pc[th] \in AbortReason => aborted

\* Somebody executes every transaction that is Executing.
ExecutingOwned ==
  abort_reason = "none" =>
    \A t \in Tx : tx_status[t].status = "Executing" => \E th \in Threads : Owns(th, t)

\* Transactions wait for lower ones.
WaitLower ==
  /\ \A b \in Tx : \A j \in tx_dependency[b] : b < j
  /\ \A th \in Threads : pc[th] = "add_dep" => idx[th] < ver[th].tx_idx

JoinInv == IndicesSeen /\ ReasonFollows /\ ExecutingOwned /\ WaitLower

\* The first conjuncts hold in the initial states: a worker has yet to look.
LEMMA InitJoin == Init => JoinInv
<1> SUFFICES ASSUME Init PROVE JoinInv
  OBVIOUS
<1>1. PICK th \in Threads : TRUE
  BY ThreadsAssumption
<1>2. ~PastValidation(th) /\ ~PastExecution(th)
  BY DEF Init, PastValidation, PastExecution
<1>3. IndicesSeen
  BY <1>2 DEF IndicesSeen
<1>4. ReasonFollows /\ ExecutingOwned /\ WaitLower
  BY DEF Init, ReasonFollows, ExecutingOwned, WaitLower, AbortReason
<1> QED
  BY <1>3, <1>4 DEF JoinInv

-----------------------------------------------------------------------------
(***************************************************************************)
(* The loop of next_task.                                                  *)
(***************************************************************************)
Looking == {"load_val", "load_num", "load_min", "done"}

\* A thread that goes on working will look at the indices itself.
LEMMA WorkingSees ==
  ASSUME NEW th \in Threads, pc'[th] \notin Looking
  PROVE  IndicesSeen'
<1>1. ~PastValidation(th)' /\ ~PastExecution(th)'
  BY DEF PastValidation, PastExecution, Looking
<1> QED
  BY <1>1 DEF IndicesSeen

\* A thread that is past an index it has not moved leaves the others' looks alone.
LEMMA LookingSees ==
  ASSUME IndicesSeen, NEW th \in Threads, OthersSame(th),
         aborted' = aborted, execution_idx' = execution_idx, validation_idx' = validation_idx,
         PastExecution(th)' /\ execution_idx < block_size => PastExecution(th),
         PastValidation(th)' /\ validation_idx < block_size => PastValidation(th)
  PROVE  IndicesSeen'
<1>1. \A o \in Threads \ {th} : /\ PastExecution(o)' <=> PastExecution(o)
                                /\ PastValidation(o)' <=> PastValidation(o)
  BY DEF OthersSame, PastExecution, PastValidation
<1>2. ASSUME ~aborted, execution_idx < block_size
      PROVE  \E o \in Threads : ~PastExecution(o)'
  <2>1. PICK o \in Threads : ~PastExecution(o)
    BY <1>2 DEF IndicesSeen
  <2> QED
    BY <1>1, <1>2, <2>1
<1>3. ASSUME ~aborted, validation_idx < block_size
      PROVE  \E o \in Threads : ~PastValidation(o)'
  <2>1. PICK o \in Threads : ~PastValidation(o)
    BY <1>3 DEF IndicesSeen
  <2> QED
    BY <1>1, <1>3, <2>1
<1> QED
  BY <1>2, <1>3 DEF IndicesSeen

\* Every step of the loop looks at the real indices before it leaves.
LEMMA LoopStep ==
  ASSUME TypeInv, JoinInv, NEW th \in Threads,
         \/ CheckAborted(th) \/ LoadExecutionIdx(th) \/ LoadValidationIdx(th)
         \/ LoadNumValidated(th) \/ LoadMinValidationIdx(th)
  PROVE  IndicesSeen'
<1> USE DEF OthersSame, Goto, txVars, indices, abortVars, TypeInv, TypeOK
<1>0. IndicesSeen /\ execution_idx \in Int /\ validation_idx \in Int
  BY SMTT(30) DEF JoinInv
<1>1. CASE CheckAborted(th)
  <2>1. CASE aborted
    BY <1>1, <2>1 DEF CheckAborted, IndicesSeen
  <2>2. CASE ~aborted
    BY <1>1, <2>2, WorkingSees DEF CheckAborted, Looking
  <2> QED
    BY <2>1, <2>2
<1>2. CASE LoadExecutionIdx(th)
  <2>1. PastExecution(th)' => ~(execution_idx < block_size)
    BY <1>2 DEF LoadExecutionIdx, PastExecution, PastValidation
  <2>2. ~PastValidation(th)'
    BY <1>2 DEF LoadExecutionIdx, PastValidation
  <2> QED
    BY <1>0, <1>2, <2>1, <2>2, LookingSees DEF LoadExecutionIdx
<1>3. CASE LoadValidationIdx(th)
  <2>1. PastExecution(th)' => PastExecution(th)
    BY <1>3, BlockSizeAssumption, SMTT(30) DEF LoadValidationIdx, PastExecution, PastValidation
  <2>2. PastValidation(th)' => ~(validation_idx < block_size)
    BY <1>0, <1>3, BlockSizeAssumption, SMTT(30) DEF LoadValidationIdx, PastValidation
  <2> QED
    BY <1>0, <1>3, <2>1, <2>2, LookingSees DEF LoadValidationIdx
<1>4. CASE LoadNumValidated(th) \/ LoadMinValidationIdx(th)
  <2>1. PastExecution(th) /\ PastValidation(th)
    BY <1>4 DEF LoadNumValidated, LoadMinValidationIdx, PastExecution, PastValidation
  <2> QED
    BY <1>0, <1>4, <2>1, LookingSees DEF LoadNumValidated, LoadMinValidationIdx
<1> QED
  BY <1>1, <1>2, <1>3, <1>4

\* The steps outside next_task go on working, unless the block is aborted.
LEMMA SeenStep ==
  ASSUME TypeInv, JoinInv, [Next]_vars PROVE IndicesSeen'
<1> USE DEF Goto, txVars, indices, abortVars, Looking
<1>0. pc \in [Threads -> Label]
  BY DEF TypeInv, TypeOK
<1>1. ASSUME NEW th \in Threads,
             \/ CheckAborted(th) \/ LoadExecutionIdx(th) \/ LoadValidationIdx(th)
             \/ LoadNumValidated(th) \/ LoadMinValidationIdx(th)
      PROVE IndicesSeen'
  BY <1>1, LoopStep
<1>2. ASSUME NEW th \in Threads,
             \/ TakeValidationIdx(th) \/ PeekStatus(th) \/ TakeExecutionIdx(th) \/ TryExecute(th)
             \/ ResumeDependent(th) \/ LowerExecutionIdx(th) \/ LowerMinValidationIdx(th)
      PROVE IndicesSeen'
  <2>1. pc'[th] \notin Looking
    BY <1>0, <1>2 DEF TakeValidationIdx, PeekStatus, TakeExecutionIdx, TryExecute,
       ResumeDependent, LowerExecutionIdx, LowerMinValidationIdx
  <2> QED
    BY <2>1, WorkingSees
<1>3. ASSUME NEW th \in Threads,
             \/ CompareValidationIdx(th) \/ LowerValidationIdx(th) \/ SetExecutedStatus(th)
             \/ AddDependency(th) \/ InitAbortReason(th)
      PROVE IndicesSeen'
  <2>1. pc'[th] \notin Looking
    BY <1>0, <1>3 DEF CompareValidationIdx, LowerValidationIdx, SetExecutedStatus,
       AddDependency, InitAbortReason
  <2> QED
    BY <2>1, WorkingSees
<1>4. ASSUME NEW th \in Threads,
             \/ TryValidationAbort(th) \/ RescheduleAborted(th) \/ LowerValidationIdxAborted(th)
             \/ CheckExecutionIdx(th) \/ ConfirmValidated(th)
      PROVE IndicesSeen'
  <2>1. pc'[th] \notin Looking
    BY <1>0, <1>4 DEF TryValidationAbort, RescheduleAborted, LowerValidationIdxAborted,
       CheckExecutionIdx, ConfirmValidated
  <2> QED
    BY <2>1, WorkingSees
<1>5. ASSUME NEW th \in Threads, Succeed(th) \/ Setback(th) PROVE IndicesSeen'
  <2>1. pc'[th] \notin Looking
    BY <1>0, <1>5 DEF Succeed, Setback, FinishExecution, ReadSetChecked, AddDependencyLate,
       LockBlocking, ExecuteAgain, AbortScheduler, AbortReason
  <2> QED
    BY <2>1, WorkingSees
<1>6. ASSUME NEW th \in Threads, WorkerLoop(th) PROVE IndicesSeen'
  <2>1. CASE abort_reason # "none"
    <3>1. aborted'
      BY <1>6, <2>1 DEF WorkerLoop, JoinInv, ReasonFollows
    <3> QED
      BY <3>1 DEF IndicesSeen
  <2>2. CASE abort_reason = "none"
    <3>1. pc'[th] \notin Looking
      BY <1>0, <1>6, <2>2 DEF WorkerLoop, ReturnLabels
    <3> QED
      BY <3>1, WorkingSees
  <2> QED
    BY <2>1, <2>2
<1>7. ASSUME UNCHANGED vars PROVE IndicesSeen'
  BY <1>7 DEF vars, JoinInv, IndicesSeen, PastExecution, PastValidation
<1> QED
  BY <1>1, <1>2, <1>3, <1>4, <1>5, <1>6, <1>7, SMTT(30) DEF Next, SchedulerStep, Terminated

-----------------------------------------------------------------------------
(***************************************************************************)
(* The reason of an abort.                                                 *)
(***************************************************************************)
\* A thread that is not aborting leaves what is known of an abort alone.
LEMMA ReasonKept ==
  ASSUME ReasonFollows, NEW th \in Threads, OthersSame(th),
         aborted' = aborted, abort_reason' = abort_reason,
         pc[th] \notin AbortReason, pc'[th] \notin AbortReason
  PROVE  ReasonFollows'
<1>1. \A o \in Threads : pc'[o] \in AbortReason <=> pc[o] \in AbortReason
  BY DEF OthersSame
<1> QED
  BY <1>1 DEF ReasonFollows

\* Only the two steps of an abort change what is known of it.
LEMMA ReasonStep ==
  ASSUME TypeInv, JoinInv, [Next]_vars PROVE ReasonFollows'
<1> USE DEF Goto, Hold, Release, txVars, indices, abortVars, OthersSame, AbortReason
<1>0. ReasonFollows /\ TypeOK
  BY DEF TypeInv, JoinInv
<1>1. ASSUME NEW th \in Threads,
             \/ CheckAborted(th) \/ LoadExecutionIdx(th) \/ LoadValidationIdx(th)
             \/ LoadNumValidated(th) \/ LoadMinValidationIdx(th) \/ TakeValidationIdx(th)
             \/ PeekStatus(th) \/ TakeExecutionIdx(th) \/ TryExecute(th)
      PROVE ReasonFollows'
  <2>1. /\ aborted' = aborted /\ abort_reason' = abort_reason /\ OthersSame(th)
        /\ pc[th] \notin AbortReason /\ pc'[th] \notin AbortReason
    BY <1>0, <1>1 DEF TypeOK, CheckAborted, LoadExecutionIdx, LoadValidationIdx,
       LoadNumValidated, LoadMinValidationIdx, TakeValidationIdx, PeekStatus, TakeExecutionIdx,
       TryExecute
  <2> QED
    BY <1>0, <2>1, ReasonKept
<1>2. ASSUME NEW th \in Threads,
             \/ ResumeDependent(th) \/ LowerExecutionIdx(th) \/ LowerMinValidationIdx(th)
             \/ CompareValidationIdx(th) \/ LowerValidationIdx(th) \/ SetExecutedStatus(th)
             \/ AddDependency(th)
      PROVE ReasonFollows'
  <2>1. /\ aborted' = aborted /\ abort_reason' = abort_reason /\ OthersSame(th)
        /\ pc[th] \notin AbortReason /\ pc'[th] \notin AbortReason
    BY <1>0, <1>2 DEF TypeOK, ResumeDependent, LowerExecutionIdx, LowerMinValidationIdx,
       CompareValidationIdx, LowerValidationIdx, SetExecutedStatus, AddDependency
  <2> QED
    BY <1>0, <2>1, ReasonKept
<1>3. ASSUME NEW th \in Threads,
             \/ TryValidationAbort(th) \/ RescheduleAborted(th) \/ LowerValidationIdxAborted(th)
             \/ CheckExecutionIdx(th) \/ ConfirmValidated(th) \/ WorkerLoop(th)
      PROVE ReasonFollows'
  <2>1. /\ aborted' = aborted /\ abort_reason' = abort_reason /\ OthersSame(th)
        /\ pc[th] \notin AbortReason /\ pc'[th] \notin AbortReason
    BY <1>0, <1>3, SMTT(30) DEF TypeOK, TryValidationAbort, RescheduleAborted, LowerValidationIdxAborted,
       CheckExecutionIdx, ConfirmValidated, WorkerLoop, ReturnLabels
  <2> QED
    BY <1>0, <2>1, ReasonKept
<1>4. ASSUME NEW th \in Threads, NEW reason \in AbortReason, AbortScheduler(th, reason)
      PROVE ReasonFollows'
  <2>1. aborted' /\ pc'[th] \in AbortReason
    BY <1>0, <1>4 DEF TypeOK, AbortScheduler
  <2> QED
    BY <2>1 DEF ReasonFollows
<1>5. ASSUME NEW th \in Threads, Succeed(th) \/ Setback(th) PROVE ReasonFollows'
  <2>1. CASE \E reason \in AbortReason : AbortScheduler(th, reason)
    BY <1>4, <2>1, SMTT(30)
  <2>2. CASE ~\E reason \in AbortReason : AbortScheduler(th, reason)
    <3>1. /\ aborted' = aborted /\ abort_reason' = abort_reason /\ OthersSame(th)
          /\ pc[th] \notin AbortReason /\ pc'[th] \notin AbortReason
      BY <1>0, <1>5, <2>2 DEF TypeOK, Succeed, Setback, FinishExecution, ReadSetChecked,
         AddDependencyLate, LockBlocking, ExecuteAgain
    <3> QED
      BY <1>0, <3>1, ReasonKept
  <2> QED
    BY <2>1, <2>2
<1>6. ASSUME NEW th \in Threads, InitAbortReason(th) PROVE ReasonFollows'
  <2>1. aborted
    BY <1>0, <1>6 DEF InitAbortReason, ReasonFollows
  <2>2. aborted' /\ abort_reason' # "none"
    BY <1>6, <2>1 DEF InitAbortReason
  <2> QED
    BY <2>2 DEF ReasonFollows
<1>7. ASSUME UNCHANGED vars PROVE ReasonFollows'
  BY <1>0, <1>7 DEF vars, ReasonFollows
<1> QED
  BY <1>1, <1>2, <1>3, <1>5, <1>6, <1>7 DEF Next, SchedulerStep, Terminated

-----------------------------------------------------------------------------
(***************************************************************************)
(* Who executes a transaction.                                             *)
(***************************************************************************)
\* A step keeps an owner of what is Executing if it neither starts nor drops a transaction.
LEMMA OwnerKept ==
  ASSUME ExecutingOwned, NEW th \in Threads, OthersSame(th),
         abort_reason' = "none" => abort_reason = "none",
         abort_reason' = "none" => \A t \in Tx : tx_status'[t].status = "Executing" =>
           \/ Owns(th, t)'
           \/ tx_status[t].status = "Executing" /\ ~Owns(th, t)
  PROVE  ExecutingOwned'
<1> SUFFICES ASSUME abort_reason' = "none", NEW t \in Tx,
                    tx_status'[t].status = "Executing", ~Owns(th, t)'
             PROVE  \E o \in Threads : Owns(o, t)'
  BY DEF ExecutingOwned
<1>1. PICK o \in Threads : Owns(o, t) /\ ~Owns(th, t)
  BY DEF ExecutingOwned
<1>2. o # th
  BY <1>1
<1>3. Owns(o, t)'
  BY <1>1, <1>2 DEF OthersSame, Owns
<1> QED
  BY <1>3

\* A thread that neither has nor takes a transaction.
LEMMA OwnerIdle ==
  ASSUME ExecutingOwned, NEW th \in Threads, OthersSame(th), abort_reason' = abort_reason,
         pc[th] \notin ExecutionLabels \cup AbortReason,
         \A t \in Tx : tx_status'[t].status = "Executing" => tx_status[t].status = "Executing"
  PROVE  ExecutingOwned'
<1>1. \A t \in Tx : ~Owns(th, t)
  BY DEF Owns
<1> QED
  BY <1>1, OwnerKept

\* A thread that goes on executing its transaction.
LEMMA OwnerStays ==
  ASSUME ExecutingOwned, NEW th \in Threads, OthersSame(th), abort_reason' = abort_reason,
         pc'[th] \in ExecutionLabels \cup AbortReason, ver'[th] = ver[th],
         \A t \in Tx : tx_status'[t].status = "Executing" => tx_status[t].status = "Executing"
  PROVE  ExecutingOwned'
<1>1. \A t \in Tx : Owns(th, t) => Owns(th, t)'
  BY DEF Owns
<1> QED
  BY <1>1, OwnerKept

\* A thread whose transaction is not Executing any more.
LEMMA OwnerEnds ==
  ASSUME ExecutingOwned, NEW th \in Threads, OthersSame(th), abort_reason' = abort_reason,
         tx_status'[ver[th].tx_idx].status # "Executing",
         \A t \in Tx : tx_status'[t].status = "Executing" => tx_status[t].status = "Executing"
  PROVE  ExecutingOwned'
<1>1. \A t \in Tx : tx_status'[t].status = "Executing" => ~Owns(th, t)
  BY DEF Owns
<1> QED
  BY <1>1, OwnerKept

\* Setting a status other than Executing.
LEMMA NotExecuting ==
  ASSUME TypeOK, NEW k \in Tx, NEW s, SetStatus(k, s), s # "Executing"
  PROVE  /\ tx_status'[k].status # "Executing"
         /\ \A t \in Tx : tx_status'[t].status = "Executing" => tx_status[t].status = "Executing"
  BY SMTT(30) DEF TypeOK, TxStatus, SetStatus

\* set_ready_status never starts a transaction.
LEMMA ReadyNotExecuting ==
  ASSUME TypeOK, NEW k \in Tx, SetReadyStatus(k)
  PROVE  \A t \in Tx : tx_status'[t].status = "Executing" => tx_status[t].status = "Executing"
  BY DEF TypeOK, TxStatus, SetReadyStatus

\* Only the steps that set another status drop a transaction they execute.
LEMMA OwnerStep ==
  ASSUME TypeInv, JoinInv, [Next]_vars PROVE ExecutingOwned'
<1> USE DEF Goto, Hold, Release, txVars, indices, abortVars, OthersSame
<1>0. /\ ExecutingOwned /\ TypeOK /\ \A th \in Threads : ver[th].tx_idx \in Tx
      /\ DOMAIN pc = Threads /\ DOMAIN ver = Threads
  BY DEF TypeInv, TypeOK, JoinInv
<1>1. ASSUME NEW th \in Threads,
             \/ CheckAborted(th) \/ LoadExecutionIdx(th) \/ LoadValidationIdx(th)
             \/ LoadNumValidated(th) \/ LoadMinValidationIdx(th) \/ TakeValidationIdx(th)
             \/ TakeExecutionIdx(th) \/ LowerValidationIdxAborted(th) \/ CheckExecutionIdx(th)
             \/ \E valid : ReadSetChecked(th, valid)
      PROVE ExecutingOwned'
  <2>1. /\ tx_status' = tx_status /\ abort_reason' = abort_reason /\ OthersSame(th)
        /\ pc[th] \notin ExecutionLabels \cup AbortReason
    BY <1>0, <1>1 DEF TypeOK, CheckAborted, LoadExecutionIdx, LoadValidationIdx,
       LoadNumValidated, LoadMinValidationIdx, TakeValidationIdx, TakeExecutionIdx,
       LowerValidationIdxAborted, CheckExecutionIdx, ReadSetChecked, ExecutionLabels,
       HoldsStatus, AbortReason
  <2> QED
    BY <1>0, <2>1, OwnerIdle
<1>2. ASSUME NEW th \in Threads, PeekStatus(th) \/ TryExecute(th) PROVE ExecutingOwned'
  <2>1. PICK k \in Tx : k = ver[th].tx_idx
    BY <1>0
  <2>2. abort_reason' = abort_reason /\ OthersSame(th)
    BY <1>0, <1>2 DEF TypeOK, PeekStatus, TryExecute
  <2>3. \A t \in Tx : ~Owns(th, t)
    BY <1>2 DEF PeekStatus, TryExecute, Owns, ExecutionLabels, HoldsStatus, AbortReason
  <2>4. CASE SetStatus(k, "Executing") /\ pc'[th] \in {"execute", "ret_exec"} /\ ver'[th].tx_idx = k
    <3>1. Owns(th, k)'
      BY <2>4 DEF Owns, ExecutionLabels
    <3>2. \A t \in Tx \ {k} : tx_status'[t] = tx_status[t]
      BY <1>0, <2>4 DEF TypeOK, SetStatus
    <3> QED
      BY <1>0, <2>2, <2>3, <3>1, <3>2, OwnerKept
  <2>5. CASE tx_status' = tx_status
    BY <1>0, <2>2, <2>3, <2>5, OwnerKept, SMTT(30)
  <2>6. \/ SetStatus(k, "Executing") /\ pc'[th] \in {"execute", "ret_exec"} /\ ver'[th].tx_idx = k
        \/ tx_status' = tx_status
    BY <1>0, <1>2, <2>1, SMTT(30) DEF PeekStatus, TryExecute
  <2> QED
    BY <2>4, <2>5, <2>6
<1>3. ASSUME NEW th \in Threads,
             \/ LowerExecutionIdx(th) \/ LowerMinValidationIdx(th) \/ CompareValidationIdx(th)
             \/ LowerValidationIdx(th) \/ \E fl : FinishExecution(th, fl)
             \/ \E b : LockBlocking(th, b) \/ \E reason \in AbortReason : AbortScheduler(th, reason)
      PROVE ExecutingOwned'
  <2>1. /\ tx_status' = tx_status /\ abort_reason' = abort_reason /\ OthersSame(th)
        /\ ver'[th] = ver[th] /\ pc'[th] \in ExecutionLabels \cup AbortReason
    <3>1. CASE LowerExecutionIdx(th) \/ LowerMinValidationIdx(th) \/ CompareValidationIdx(th)
      BY <1>0, <3>1 DEF TypeOK, LowerExecutionIdx, LowerMinValidationIdx, CompareValidationIdx,
         ExecutionLabels, HoldsStatus
    <3>2. CASE \/ LowerValidationIdx(th) \/ \E fl : FinishExecution(th, fl)
               \/ \E b : LockBlocking(th, b) \/ \E reason \in AbortReason : AbortScheduler(th, reason)
      BY <1>0, <3>2 DEF TypeOK, LowerValidationIdx, FinishExecution, LockBlocking, AbortScheduler,
         ExecutionLabels, HoldsStatus
    <3> QED
      BY <1>3, <3>1, <3>2
  <2> QED
    BY <1>0, <2>1, OwnerStays
<1>4. ASSUME NEW th \in Threads, ResumeDependent(th) PROVE ExecutingOwned'
  <2>1. PICK j \in Tx : SetReadyStatus(j)
    BY <1>0, <1>4 DEF TypeOK, ResumeDependent
  <2>2. /\ abort_reason' = abort_reason /\ OthersSame(th)
        /\ ver'[th] = ver[th] /\ pc'[th] \in ExecutionLabels \cup AbortReason
    BY <1>0, <1>4, SMTT(30) DEF TypeOK, ResumeDependent, ExecutionLabels, HoldsStatus
  <2> QED
    BY <1>0, <2>1, <2>2, ReadyNotExecuting, OwnerStays
<1>5. ASSUME NEW th \in Threads, SetExecutedStatus(th) \/ AddDependency(th) PROVE ExecutingOwned'
  <2>1. PICK k \in Tx, s \in {"Executed", "Validated", "Aborted"} :
          k = ver[th].tx_idx /\ SetStatus(k, s)
    BY <1>0, <1>5 DEF SetExecutedStatus, AddDependency
  <2>2. abort_reason' = abort_reason /\ OthersSame(th)
    BY <1>0, <1>5, SMTT(30) DEF TypeOK, SetExecutedStatus, AddDependency
  <2> QED
    BY <1>0, <2>1, <2>2, NotExecuting, OwnerEnds
<1>6. ASSUME NEW th \in Threads, TryValidationAbort(th) \/ ConfirmValidated(th)
      PROVE ExecutingOwned'
  <2>1. \/ tx_status' = tx_status
        \/ \E k \in Tx, s \in {"Validated", "Aborted"} : SetStatus(k, s)
    BY <1>0, <1>6 DEF TryValidationAbort, ConfirmValidated
  <2>2. \A t \in Tx : tx_status'[t].status = "Executing" => tx_status[t].status = "Executing"
    BY <1>0, <2>1, NotExecuting
  <2>3. /\ abort_reason' = abort_reason /\ OthersSame(th)
        /\ pc[th] \notin ExecutionLabels \cup AbortReason
    BY <1>0, <1>6 DEF TypeOK, TryValidationAbort, ConfirmValidated, ExecutionLabels,
       HoldsStatus, AbortReason
  <2> QED
    BY <1>0, <2>2, <2>3, OwnerIdle
<1>7. ASSUME NEW th \in Threads, RescheduleAborted(th) PROVE ExecutingOwned'
  <2>1. PICK k \in Tx : SetReadyStatus(k)
    BY <1>0, <1>7 DEF RescheduleAborted
  <2>2. /\ abort_reason' = abort_reason /\ OthersSame(th)
        /\ pc[th] \notin ExecutionLabels \cup AbortReason
    BY <1>0, <1>7 DEF TypeOK, RescheduleAborted, ExecutionLabels, HoldsStatus, AbortReason
  <2> QED
    BY <1>0, <2>1, <2>2, ReadyNotExecuting, OwnerIdle
<1>8. ASSUME NEW th \in Threads, ExecuteAgain(th) \/ WorkerLoop(th) PROVE ExecutingOwned'
  <2>1. tx_status' = tx_status /\ abort_reason' = abort_reason /\ OthersSame(th)
    BY <1>0, <1>8 DEF TypeOK, ExecuteAgain, WorkerLoop
  <2>2. abort_reason = "none" => \A t \in Tx : Owns(th, t) => Owns(th, t)'
    BY <1>0, <1>8 DEF TypeOK, ExecuteAgain, WorkerLoop, Owns, ExecutionLabels, HoldsStatus,
       AbortReason, ReturnLabels
  <2> QED
    BY <1>0, <2>1, <2>2, OwnerKept
<1>9. ASSUME NEW th \in Threads, InitAbortReason(th) PROVE ExecutingOwned'
  <2>1. abort_reason' # "none"
    BY <1>9 DEF InitAbortReason, AbortReason
  <2> QED
    BY <2>1 DEF ExecutingOwned
<1>10. ASSUME UNCHANGED vars PROVE ExecutingOwned'
  BY <1>0, <1>10 DEF vars, ExecutingOwned, Owns
<1>11. ASSUME NEW th \in Threads, Succeed(th) \/ Setback(th) PROVE ExecutingOwned'
  BY <1>1, <1>3, <1>8, <1>11 DEF Succeed, Setback, AddDependencyLate
<1> QED
  BY <1>1, <1>2, <1>3, <1>4, <1>5, <1>6, <1>7, <1>8, <1>9, <1>10, <1>11
  DEF Next, SchedulerStep, Terminated

-----------------------------------------------------------------------------
(***************************************************************************)
(* Transactions wait for lower ones.                                       *)
(***************************************************************************)
\* Dropped dependents, and threads that register none, keep the order.
LEMMA WaitKept ==
  ASSUME WaitLower, NEW th \in Threads, OthersSame(th),
         \A b \in Tx : tx_dependency'[b] \subseteq tx_dependency[b],
         pc'[th] # "add_dep"
  PROVE  WaitLower'
<1>1. \A o \in Threads : pc'[o] = "add_dep" =>
        pc[o] = "add_dep" /\ idx'[o] = idx[o] /\ ver'[o] = ver[o]
  BY DEF OthersSame
<1> QED
  BY <1>1 DEF WaitLower

\* add_dependency only waits for a lower transaction: a read blocks on a lower one.
LEMMA WaitStep ==
  ASSUME TypeInv, JoinInv, [Next]_vars PROVE WaitLower'
<1> USE DEF Goto, Hold, Release, txVars, indices, abortVars, OthersSame
<1>0. WaitLower /\ TypeOK /\ \A th \in Threads : ver[th].tx_idx \in Tx
  BY DEF TypeInv, TypeOK, JoinInv
<1>1. ASSUME NEW th \in Threads,
             \/ CheckAborted(th) \/ LoadExecutionIdx(th) \/ LoadValidationIdx(th)
             \/ LoadNumValidated(th) \/ LoadMinValidationIdx(th) \/ TakeValidationIdx(th)
             \/ PeekStatus(th) \/ TakeExecutionIdx(th) \/ TryExecute(th)
      PROVE WaitLower'
  <2>1. tx_dependency' = tx_dependency /\ OthersSame(th) /\ pc'[th] # "add_dep"
    BY <1>0, <1>1 DEF TypeOK, CheckAborted, LoadExecutionIdx, LoadValidationIdx,
       LoadNumValidated, LoadMinValidationIdx, TakeValidationIdx, PeekStatus, TakeExecutionIdx,
       TryExecute
  <2> QED
    BY <1>0, <2>1, WaitKept
<1>2. ASSUME NEW th \in Threads,
             \/ LowerExecutionIdx(th) \/ LowerMinValidationIdx(th) \/ CompareValidationIdx(th)
             \/ LowerValidationIdx(th) \/ SetExecutedStatus(th) \/ InitAbortReason(th)
      PROVE WaitLower'
  <2>1. tx_dependency' = tx_dependency /\ OthersSame(th) /\ pc'[th] # "add_dep"
    <3>1. CASE LowerExecutionIdx(th) \/ LowerMinValidationIdx(th) \/ CompareValidationIdx(th)
      BY <1>0, <3>1 DEF TypeOK, LowerExecutionIdx, LowerMinValidationIdx, CompareValidationIdx
    <3>2. CASE LowerValidationIdx(th) \/ SetExecutedStatus(th) \/ InitAbortReason(th)
      BY <1>0, <3>2 DEF TypeOK, LowerValidationIdx, SetExecutedStatus, InitAbortReason
    <3> QED
      BY <1>2, <3>1, <3>2
  <2> QED
    BY <1>0, <2>1, WaitKept
<1>3. ASSUME NEW th \in Threads,
             \/ TryValidationAbort(th) \/ RescheduleAborted(th) \/ LowerValidationIdxAborted(th)
             \/ CheckExecutionIdx(th) \/ ConfirmValidated(th) \/ WorkerLoop(th)
      PROVE WaitLower'
  <2>1. tx_dependency' = tx_dependency /\ OthersSame(th) /\ pc'[th] # "add_dep"
    BY <1>0, <1>3 DEF TypeOK, TryValidationAbort, RescheduleAborted,
       LowerValidationIdxAborted,
       CheckExecutionIdx, ConfirmValidated, WorkerLoop, ReturnLabels
  <2> QED
    BY <1>0, <2>1, WaitKept
<1>4. ASSUME NEW th \in Threads, ResumeDependent(th) PROVE WaitLower'
  <2>1. /\ \A b \in Tx : tx_dependency'[b] \subseteq tx_dependency[b]
        /\ OthersSame(th) /\ pc'[th] # "add_dep"
    BY <1>0, <1>4, SMTT(30) DEF TypeOK, ResumeDependent
  <2> QED
    BY <1>0, <2>1, WaitKept
<1>5. ASSUME NEW th \in Threads, AddDependency(th) PROVE WaitLower'
  <2>1. PICK b \in Tx, j \in Tx : b = idx[th] /\ j = ver[th].tx_idx /\ b < j
    BY <1>0, <1>5 DEF TypeInv, AddDependency, WaitLower
  <2>2. \A c \in Tx : tx_dependency'[c] \subseteq
                        IF c = b THEN tx_dependency[c] \cup {j} ELSE tx_dependency[c]
    BY <1>0, <1>5, <2>1 DEF TypeOK, AddDependency
  <2>3. \A o \in Threads : pc'[o] = "add_dep" =>
          pc[o] = "add_dep" /\ idx'[o] = idx[o] /\ ver'[o] = ver[o]
    BY <1>0, <1>5 DEF TypeOK, AddDependency
  <2> QED
    BY <1>0, <2>1, <2>2, <2>3, SMTT(30) DEF WaitLower
<1>6. ASSUME NEW th \in Threads, NEW b \in Tx, b < ver[th].tx_idx, LockBlocking(th, b)
      PROVE WaitLower'
  <2>1. tx_dependency' = tx_dependency /\ ver' = ver /\ idx'[th] = b
    BY <1>0, <1>6 DEF TypeOK, LockBlocking
  <2>2. \A o \in Threads \ {th} : pc'[o] = pc[o] /\ idx'[o] = idx[o]
    BY <1>0, <1>6, SMTT(30) DEF TypeOK, LockBlocking
  <2> QED
    BY <1>0, <1>6, <2>1, <2>2 DEF WaitLower
<1>7. ASSUME NEW th \in Threads,
             \/ ExecuteAgain(th) \/ \E fl : FinishExecution(th, fl)
             \/ \E valid : ReadSetChecked(th, valid)
             \/ \E reason \in AbortReason : AbortScheduler(th, reason)
      PROVE WaitLower'
  <2>1. tx_dependency' = tx_dependency /\ OthersSame(th) /\ pc'[th] # "add_dep"
    BY <1>0, <1>7 DEF TypeOK, ExecuteAgain, FinishExecution, ReadSetChecked,
       AbortScheduler,
       AbortReason
  <2> QED
    BY <1>0, <2>1, WaitKept
<1>8. ASSUME NEW th \in Threads, Succeed(th) \/ Setback(th) PROVE WaitLower'
  BY <1>6, <1>7, <1>8 DEF Succeed, Setback, AddDependencyLate
<1>9. ASSUME UNCHANGED vars PROVE WaitLower'
  BY <1>0, <1>9 DEF vars, WaitLower
<1> QED
  BY <1>1, <1>2, <1>3, <1>4, <1>5, <1>8, <1>9 DEF Next, SchedulerStep, Terminated

\* Every step keeps the four conjuncts, given the types of the inductive invariant.
LEMMA JoinStep == IInv /\ JoinInv /\ [Next]_vars => JoinInv'
<1> SUFFICES ASSUME IInv, JoinInv, [Next]_vars PROVE JoinInv'
  OBVIOUS
<1>1. TypeInv
  BY DEF IInv
<1>2. IndicesSeen' /\ ReasonFollows'
  BY <1>1, SeenStep, ReasonStep
<1>3. ExecutingOwned' /\ WaitLower'
  BY <1>1, OwnerStep, WaitStep
<1> QED
  BY <1>2, <1>3 DEF JoinInv

-----------------------------------------------------------------------------
(***************************************************************************)
(* Without an abort no status but Aborted and Validated is left when all   *)
(* threads are done: the others need a thread or an index in reach.        *)
(***************************************************************************)
LEMMA JoinedStatus ==
  ASSUME IInv, NoLostExecution, NoLostValidation, JoinInv, Joined, ~aborted, NEW t \in Tx
  PROVE  tx_status[t].status \in {"Aborted", "Validated"}
<1>0. t < block_size /\ t \in Int /\ abort_reason = "none"
  BY BlockSizeAssumption, SMTT(30) DEF Tx, JoinInv, ReasonFollows
<1>1. \A th \in Threads : pc[th] = "done" /\ PastExecution(th) /\ PastValidation(th)
  BY DEF Joined, PastExecution, PastValidation
<1>2. /\ execution_idx \in Int /\ validation_idx \in Int
      /\ tx_status[t].status \in IncarnationStatus
  BY SMTT(30) DEF IInv, TypeInv, TypeOK, TxStatus
<1>3. ~(execution_idx < block_size) /\ ~(validation_idx < block_size)
  BY <1>1 DEF JoinInv, IndicesSeen
<1>4. ~(execution_idx <= t) /\ ~(validation_idx <= t)
  BY <1>0, <1>2, <1>3, BlockSizeAssumption, SMTT(30)
<1>5. tx_status[t].status # "ReadyToExecute"
  BY <1>0, <1>1, <1>4 DEF NoLostExecution, CarriesExecution
<1>6. tx_status[t].status # "Executed"
  BY <1>0, <1>1, <1>4 DEF NoLostValidation, CarriesValidation
<1>7. tx_status[t].status # "Executing"
  BY <1>0, <1>1 DEF JoinInv, ExecutingOwned, Owns, ExecutionLabels, HoldsStatus, AbortReason
<1> QED
  BY <1>2, <1>5, <1>6, <1>7 DEF IncarnationStatus

\* A lowest Aborted transaction would wait for a lower one that is Aborted, too.
LEMMA JoinedValidated ==
  ASSUME Ordered, IInv, NoLostExecution, NoLostValidation, JoinInv, Joined, ~aborted
  PROVE  \A t \in Tx : tx_status[t].status = "Validated" /\ tx_dependency[t] = {}
<1> DEFINE Left == {t \in Tx : tx_status[t].status = "Aborted"}
<1>1. OwnInv /\ TypeOK /\ WaitLower
  BY DEF IInv, TypeInv, JoinInv
<1>2. \A t \in Left : \E b \in Left : b < t
  <2> SUFFICES ASSUME NEW t \in Left PROVE \E b \in Left : b < t
    OBVIOUS
  <2>1. \A th \in Threads : ~Aborting(th, t)
    BY DEF Joined, Aborting
  <2>2. Waiting(t)
    BY <1>1, <2>1 DEF OwnInv, AbortedHasResumer
  <2>3. PICK b \in Tx : t \in tx_dependency[b]
    BY <2>2 DEF Waiting
  <2>4. tx_status[b].status # "Validated" /\ b < t
    BY <1>1, <2>3 DEF OwnInv, DependentsWait, WaitLower
  <2> QED
    BY <2>4, JoinedStatus
<1>3. Left \in SUBSET Tx
  OBVIOUS
<1>4. Left = {}
  <2> SUFFICES ASSUME Left # {} PROVE FALSE
    OBVIOUS
  <2>1. PICK m \in Left : \A n \in Left : ~(n < m)
    BY <1>3 DEF Ordered
  <2> QED
    BY <1>2, <2>1
<1>5. \A t \in Tx : tx_status[t].status = "Validated"
  BY <1>4, JoinedStatus
<1>6. \A t \in Tx : tx_dependency[t] = {}
  BY <1>1, <1>5 DEF OwnInv, DependentsWait
<1> QED
  BY <1>5, <1>6

LEMMA JoinInvariance == Spec => []JoinInv
  BY InitJoin, JoinStep, Invariance, PTL DEF Spec

\* When all workers have left, the block is aborted for a reason, or complete.
LEMMA JoinedCompletes ==
  ASSUME Ordered, IInv, NoLostExecution, NoLostValidation, JoinInv
  PROVE  JoinedComplete
<1> SUFFICES ASSUME Joined
             PROVE  /\ aborted <=> abort_reason # "none"
                    /\ ~aborted => \A t \in Tx : /\ tx_status[t].status = "Validated"
                                                 /\ tx_dependency[t] = {}
  BY DEF JoinedComplete
<1>1. \A th \in Threads : pc[th] \notin AbortReason
  BY DEF Joined, AbortReason
<1>2. aborted <=> abort_reason # "none"
  BY <1>1 DEF JoinInv, ReasonFollows
<1> QED
  BY <1>2, JoinedValidated
=============================================================================
