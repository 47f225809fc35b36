----------------------------- MODULE StepProofs -----------------------------
(***************************************************************************)
(* What the steps of ParallelExecutor.tla do to the scheduler, to the      *)
(* threads, to the workers and to the memory.  Known is what the arguments *)
(* about the steps need of the scheduler and of the workers.               *)
(***************************************************************************)
EXTENDS ExecutorInvariants, TLAPS

\* The default prover of this module; a leaf with arithmetic names SMT.
USE ZenonT(40)

Known ==
  /\ TypeOK /\ ExclusiveExecution /\ DependentsWait /\ AbortedHasResumer
  /\ WorkInv /\ MemInv /\ Counted

-----------------------------------------------------------------------------
(***************************************************************************)
(* The scheduler's part of a step.                                         *)
(***************************************************************************)
\* The steps of the scheduler leave the other threads alone.
LEMMA SchedulerThreads ==
  ASSUME TypeOK, NEW th \in Threads, SchedulerStep(th)
  PROVE  ThreadsSame(th)
<1> USE DEF ThreadsSame, Goto, Hold, Release
<1>0. DOMAIN pc = Threads /\ DOMAIN ver = Threads /\ DOMAIN idx = Threads /\ DOMAIN flags = Threads
  BY DEF TypeOK
<1>1. CASE CheckAborted(th) \/ LoadExecutionIdx(th) \/ LoadValidationIdx(th)
  BY <1>0, <1>1 DEF CheckAborted, LoadExecutionIdx, LoadValidationIdx
<1>2. CASE LoadNumValidated(th) \/ LoadMinValidationIdx(th) \/ TakeValidationIdx(th)
  BY <1>0, <1>2 DEF LoadNumValidated, LoadMinValidationIdx, TakeValidationIdx
<1>3. CASE PeekStatus(th) \/ TakeExecutionIdx(th) \/ TryExecute(th)
  BY <1>0, <1>3 DEF PeekStatus, TakeExecutionIdx, TryExecute
<1>4. CASE ResumeDependent(th) \/ LowerExecutionIdx(th) \/ LowerMinValidationIdx(th)
  BY <1>0, <1>4 DEF ResumeDependent, LowerExecutionIdx, LowerMinValidationIdx
<1>5. CASE CompareValidationIdx(th) \/ LowerValidationIdx(th) \/ SetExecutedStatus(th)
  BY <1>0, <1>5 DEF CompareValidationIdx, LowerValidationIdx, SetExecutedStatus
<1>6. CASE AddDependency(th) \/ InitAbortReason(th) \/ TryValidationAbort(th)
  BY <1>0, <1>6 DEF AddDependency, InitAbortReason, TryValidationAbort
<1>7. CASE RescheduleAborted(th) \/ LowerValidationIdxAborted(th) \/ CheckExecutionIdx(th)
  BY <1>0, <1>7 DEF RescheduleAborted, LowerValidationIdxAborted, CheckExecutionIdx
<1>8. CASE ConfirmValidated(th) \/ WorkerLoop(th)
  BY <1>0, <1>8 DEF ConfirmValidated, WorkerLoop
<1> QED
  BY <1>1, <1>2, <1>3, <1>4, <1>5, <1>6, <1>7, <1>8 DEF SchedulerStep

\* None of them happens in the middle of an execution or a validation.
LEMMA SchedulerIdle ==
  ASSUME NEW th \in Threads, SchedulerStep(th)
  PROVE  pc[th] \notin {"execute", "validate"}
<1>1. CASE \/ CheckAborted(th) \/ LoadExecutionIdx(th) \/ LoadValidationIdx(th)
           \/ LoadNumValidated(th) \/ LoadMinValidationIdx(th) \/ TakeExecutionIdx(th)
           \/ TakeValidationIdx(th) \/ PeekStatus(th) \/ TryExecute(th) \/ ResumeDependent(th)
  BY <1>1 DEF CheckAborted, LoadExecutionIdx, LoadValidationIdx, LoadNumValidated,
     LoadMinValidationIdx, TakeExecutionIdx, TakeValidationIdx, PeekStatus, TryExecute,
     ResumeDependent
<1>2. CASE \/ LowerExecutionIdx(th) \/ LowerMinValidationIdx(th) \/ CompareValidationIdx(th)
           \/ LowerValidationIdx(th) \/ SetExecutedStatus(th) \/ AddDependency(th)
           \/ InitAbortReason(th)
  BY <1>2 DEF LowerExecutionIdx, LowerMinValidationIdx, CompareValidationIdx, LowerValidationIdx,
     SetExecutedStatus, AddDependency, InitAbortReason, AbortReason
<1>3. CASE \/ TryValidationAbort(th) \/ RescheduleAborted(th) \/ LowerValidationIdxAborted(th)
           \/ CheckExecutionIdx(th) \/ ConfirmValidated(th) \/ WorkerLoop(th)
  BY <1>3 DEF TryValidationAbort, RescheduleAborted, LowerValidationIdxAborted,
     CheckExecutionIdx, ConfirmValidated, WorkerLoop, ReturnLabels
<1> QED
  BY <1>1, <1>2, <1>3 DEF SchedulerStep

\* A transaction is executed by one thread.
LEMMA ExecutionStatus ==
  ASSUME ExclusiveExecution, NEW th \in Threads, pc[th] \in ExecutionLabels
  PROVE  /\ tx_status[ver[th].tx_idx].status = "Executing"
         /\ \A o \in Threads \ {th} : pc[o] \in ExecutionLabels => ver[o].tx_idx # ver[th].tx_idx
<1>1. /\ tx_status[ver[th].tx_idx] =
           [incarnation |-> ver[th].tx_incarnation, status |-> "Executing"]
      /\ \A o \in Threads \ {th} : pc[o] \in ExecutionLabels => ver[o].tx_idx # ver[th].tx_idx
  BY DEF ExclusiveExecution
<1> QED
  BY <1>1, SMTT(30)

\* What they do to the statuses.
LEMMA SchedulerStatus ==
  ASSUME TypeOK, ExclusiveExecution, DependentsWait, NEW th \in Threads,
         pc[th] # "estimate", SchedulerStep(th)
  PROVE  StatusMoved(th)
<1> USE DEF StatusMoved, FinishedSame, Finished, HoldsStatus, Goto, Hold, Release, SetStatus
<1>0. /\ pc \in [Threads -> Label] /\ DOMAIN ver = Threads
      /\ tx_status \in [Tx -> TxStatus] /\ ver[th].tx_idx \in Tx
  BY DEF TypeOK
<1>1. CASE CheckAborted(th) \/ LoadExecutionIdx(th) \/ LoadValidationIdx(th)
  BY <1>0, <1>1 DEF CheckAborted, LoadExecutionIdx, LoadValidationIdx, txVars
<1>2. CASE LoadNumValidated(th) \/ LoadMinValidationIdx(th) \/ TakeValidationIdx(th)
  BY <1>0, <1>2 DEF LoadNumValidated, LoadMinValidationIdx, TakeValidationIdx, txVars
<1>3. CASE PeekStatus(th)
  BY <1>0, <1>3, SMTT(30) DEF PeekStatus, TxStatus
<1>4. CASE TakeExecutionIdx(th)
  BY <1>0, <1>4 DEF TakeExecutionIdx, txVars
<1>5. CASE TryExecute(th)
  BY <1>0, <1>5, SMTT(30) DEF TryExecute, TxStatus
<1>6. CASE ResumeDependent(th)
  <2>1. PICK j \in tx_dependency[ver[th].tx_idx] : SetReadyStatus(j)
    BY <1>6 DEF ResumeDependent
  <2>2. j \in Tx /\ tx_status[j].status = "Aborted"
    BY <1>0, <2>1 DEF DependentsWait, TypeOK
  <2>3. \A k \in Tx : FinishedSame(k)
    BY <1>0, <2>1, <2>2 DEF SetReadyStatus
  <2>4. pc[th] = "drain" /\ pc'[th] = "drain_idx" /\ ver' = ver
    BY <1>0, <1>6 DEF ResumeDependent
  <2> HIDE DEF FinishedSame
  <2> QED
    BY <1>0, <2>3, <2>4
<1>7. CASE LowerExecutionIdx(th) \/ LowerMinValidationIdx(th)
  BY <1>0, <1>7 DEF LowerExecutionIdx, LowerMinValidationIdx, txVars
<1>8. CASE CompareValidationIdx(th) \/ LowerValidationIdx(th)
  BY <1>0, <1>8 DEF CompareValidationIdx, LowerValidationIdx, txVars
<1>9. CASE SetExecutedStatus(th)
  BY <1>0, <1>9, SMTT(30) DEF SetExecutedStatus, TxStatus
<1>10. CASE AddDependency(th)
  <2>1. tx_status[ver[th].tx_idx].status = "Executing"
    BY <1>10, ExecutionStatus DEF AddDependency, ExecutionLabels
  <2> QED
    BY <1>0, <1>10, <2>1 DEF AddDependency, TxStatus
<1>11. CASE InitAbortReason(th)
  BY <1>0, <1>11 DEF InitAbortReason, AbortReason, txVars
<1>12. CASE TryValidationAbort(th)
  BY <1>0, <1>12 DEF TryValidationAbort, TxStatus
<1>13. CASE LowerValidationIdxAborted(th) \/ CheckExecutionIdx(th)
  BY <1>0, <1>13 DEF LowerValidationIdxAborted, CheckExecutionIdx, txVars
<1>14. CASE ConfirmValidated(th)
  BY <1>0, <1>14, SMTT(30) DEF ConfirmValidated, TxStatus
<1>15. CASE WorkerLoop(th)
  BY <1>0, <1>15 DEF WorkerLoop, ReturnLabels, txVars
<1>16. CASE RescheduleAborted(th)
  BY <1>16 DEF RescheduleAborted
<1> QED
  BY <1>1, <1>2, <1>3, <1>4, <1>5, <1>6, <1>7, <1>8, <1>9, <1>10, <1>11, <1>12, <1>13, <1>14,
     <1>15, <1>16, Zenon DEF SchedulerStep

\* Indices are natural numbers.
LEMMA IndexTypes ==
  ASSUME TypeOK
  PROVE  /\ block_size \in Nat /\ validation_idx \in Nat /\ min_validation_idx \in Nat
         /\ \A t \in Tx : t \in Nat /\ t < block_size
         /\ \A th \in Threads : /\ ver[th].tx_idx \in Tx /\ ver[th].tx_idx \in Nat
                              /\ ver[th].tx_idx < block_size
<1>1. \A t \in Tx : t \in Nat /\ t < block_size
  BY BlockSizeAssumption, SMTT(30) DEF Tx
<1>2. \A th \in Threads : ver[th].tx_idx \in Tx
  BY DEF TypeOK
<1>3. validation_idx \in Nat /\ min_validation_idx \in Nat
  BY BlockSizeAssumption, SMTT(30) DEF TypeOK
<1> QED
  BY <1>1, <1>2, <1>3, BlockSizeAssumption

-----------------------------------------------------------------------------
(***************************************************************************)
(* The workers.                                                            *)
(***************************************************************************)
\* A step of a worker leaves the others and the block alone.
Frame(th) ==
  /\ ThreadsSame(th)
  /\ \A o \in Threads \ {th} : work'[o] = work[o]
  /\ DOMAIN work' = Threads
  /\ txs' = txs

\* The outcome of an execution or a validation, as the scheduler sees it.
Outcome(th) ==
  \/ \E fl : FinishExecution(th, fl)
  \/ \E b : LockBlocking(th, b) \/ AddDependencyLate(th, b)
  \/ ExecuteAgain(th)
  \/ \E reason \in AbortReason : AbortScheduler(th, reason)
  \/ \E valid \in BOOLEAN : ReadSetChecked(th, valid)
  \/ RescheduleAborted(th)

LEMMA OutcomeThreads ==
  ASSUME TypeOK, NEW th \in Threads, Outcome(th)
  PROVE  ThreadsSame(th)
<1> USE DEF ThreadsSame, Goto, Release
<1>0. DOMAIN pc = Threads /\ DOMAIN ver = Threads /\ DOMAIN idx = Threads /\ DOMAIN flags = Threads
  BY DEF TypeOK
<1>1. CASE \E fl : FinishExecution(th, fl)
  BY <1>0, <1>1 DEF FinishExecution
<1>2. CASE \E b : LockBlocking(th, b)
  BY <1>0, <1>2 DEF LockBlocking
<1>3. CASE ExecuteAgain(th)
  BY <1>0, <1>3 DEF ExecuteAgain
<1>4. CASE \E reason \in AbortReason : AbortScheduler(th, reason)
  BY <1>0, <1>4 DEF AbortScheduler
<1>5. CASE \E valid \in BOOLEAN : ReadSetChecked(th, valid)
  BY <1>0, <1>5 DEF ReadSetChecked
<1>6. CASE RescheduleAborted(th)
  BY <1>0, <1>6 DEF RescheduleAborted
<1> QED
  BY <1>1, <1>2, <1>3, <1>4, <1>5, <1>6 DEF Outcome, AddDependencyLate

LEMMA WorkerFrame ==
  ASSUME Known, NEW th \in Threads, Worker(th)
  PROVE  Frame(th)
<1> DEFINE Others == DOMAIN work' = Threads /\ (\A o \in Threads \ {th} : work'[o] = work[o])
<1>0. TypeOK /\ DOMAIN work = Threads
  BY DEF Known, WorkInv
<1>1. (UNCHANGED vars \/ Outcome(th) \/ SchedulerStep(th)) => ThreadsSame(th)
  BY <1>0, SchedulerThreads, OutcomeThreads DEF ThreadsSame, vars
<1>2. ASSUME NEW w, Set(th, w) PROVE Others
  BY <1>0, <1>2 DEF Set
<1> HIDE DEF Others
<1>3. ASSUME txs' = txs, Others, UNCHANGED vars \/ Outcome(th) \/ SchedulerStep(th) PROVE Frame(th)
  BY <1>1, <1>3 DEF Frame, Others
<1>4. CASE SchedulerOnly(th)
  BY <1>0, <1>3, <1>4 DEF SchedulerOnly, Others
<1>5. CASE ReadLocation(th)
  BY <1>2, <1>3, <1>5 DEF ReadLocation
<1>6. CASE LackOfFund(th)
  BY <1>2, <1>3, <1>6 DEF LackOfFund
<1>7. CASE BeginRecord(th)
  BY <1>2, <1>3, <1>7 DEF BeginRecord
<1>8. CASE RecordRemove(th)
  BY <1>0, <1>3, <1>8 DEF RecordRemove, Others
<1>9. CASE RecordInsert(th)
  BY <1>2, <1>3, <1>9 DEF RecordInsert
<1>10. CASE RecordDone(th)
  BY <1>2, <1>3, <1>10 DEF RecordDone, Outcome
<1>11. CASE HandleBlocking(th)
  BY <1>2, <1>3, <1>11 DEF HandleBlocking, Outcome
<1>12. CASE HandleRetry(th)
  BY <1>2, <1>3, <1>12 DEF HandleRetry, Outcome
<1>13. CASE HandleAbort(th)
  BY <1>2, <1>3, <1>13 DEF HandleAbort, Outcome, AbortReason
<1>14. CASE BeginValidate(th)
  BY <1>2, <1>3, <1>14 DEF BeginValidate
<1>15. CASE CheckLocation(th)
  BY <1>2, <1>3, <1>15 DEF CheckLocation, Outcome
<1>16. CASE ValidateDone(th)
  BY <1>2, <1>3, <1>16 DEF ValidateDone, Outcome
<1>17. CASE BeginConvert(th)
  BY <1>2, <1>3, <1>17 DEF BeginConvert
<1>18. CASE ConvertWrite(th)
  BY <1>2, <1>3, <1>18 DEF ConvertWrite
<1>19. CASE ConvertDone(th)
  BY <1>2, <1>3, <1>19 DEF ConvertDone, Outcome
<1> QED
  BY <1>4, <1>5, <1>6, <1>7, <1>8, <1>9, <1>10, <1>11, <1>12, <1>13, <1>14, <1>15, <1>16, <1>17,
     <1>18, <1>19, SMTT(30) DEF Worker

\* Nobody else works on a transaction that is executed or converted.
LEMMA Alone ==
  ASSUME Known, NEW th \in Threads, pc[th] \in {"execute", "estimate"}, NEW k, k = ver[th].tx_idx
  PROVE  /\ tx_status[k].status \notin Finished
         /\ \A o \in Threads \ {th} : ver[o].tx_idx = k =>
              /\ pc[o] \notin ExecutionLabels \cup {"estimate"}
              /\ work[o].stage \notin {"convert", "converted", "record", "recorded"}
<1>0. ExclusiveExecution /\ AbortedHasResumer /\ k \in Tx
  BY IndexTypes DEF Known
<1>1. \A o \in Threads : ver[o].tx_idx = k /\ pc[o] = "estimate" =>
        /\ tx_status[k].status = "Aborted"
        /\ \A x \in Threads \ {o} : ~(ver[x].tx_idx = k /\ pc[x] = "estimate")
  BY <1>0, SMTT(30) DEF AbortedHasResumer, Aborting
<1>2. \A o \in Threads : ver[o].tx_idx = k /\ pc[o] \in ExecutionLabels =>
        /\ tx_status[k].status = "Executing"
        /\ \A x \in Threads \ {o} : ~(ver[x].tx_idx = k /\ pc[x] \in ExecutionLabels)
  BY <1>0, ExecutionStatus
<1>3. tx_status[k].status \notin Finished
  BY <1>1, <1>2 DEF Finished, ExecutionLabels
<1>4. ASSUME NEW o \in Threads \ {th}, ver[o].tx_idx = k
      PROVE  pc[o] \notin ExecutionLabels \cup {"estimate"}
  BY <1>1, <1>2, <1>4 DEF ExecutionLabels
<1>5. ASSUME NEW o \in Threads, pc[o] \notin ExecutionLabels \cup {"estimate"}
      PROVE  work[o].stage \notin {"convert", "converted", "record", "recorded"}
  BY <1>5 DEF Known, WorkInv, Staged, ExecuteStages, ExecutionLabels
<1> QED
  BY <1>3, <1>4, <1>5

-----------------------------------------------------------------------------
(***************************************************************************)
(* What the steps of record and convert_writes_to_estimates do.            *)
(***************************************************************************)
\* The entry of k at l is the only one that changes; it is there afterwards.
Puts(l, k) ==
  /\ \A m \in Loc \ {l} : data'[m] = data[m]
  /\ DOMAIN data'[l] = DOMAIN data[l] \cup {k}
  /\ \A j \in DOMAIN data[l] \ {k} : data'[l][j] = data[l][j]

\* The entry of k at l is the only one that changes; it is gone afterwards.
Removes(l, k) ==
  /\ \A m \in Loc \ {l} : data'[m] = data[m]
  /\ DOMAIN data'[l] = DOMAIN data[l] \ {k}
  /\ \A j \in DOMAIN data[l] \ {k} : data'[l][j] = data[l][j]

LEMMA PutPuts ==
  ASSUME MemInv, NEW l \in Loc, NEW k \in Tx, NEW e, data' = Put(l, k, e)
  PROVE  Puts(l, k) /\ data'[l][k] = e
  BY DEF Put, Puts, MemInv

\* The write set of a program names locations, the beneficiary among them.
LEMMA WriteSetLoc ==
  ASSUME MemInv, NEW t \in Tx, NEW seen
  PROVE  /\ DOMAIN WriteSet(txs[t], seen) \subseteq Loc
         /\ beneficiary \in DOMAIN WriteSet(txs[t], seen)
<1>1. DOMAIN WriteSet(txs[t], seen) \in {DOMAIN txs[t].onZero, DOMAIN txs[t].otherwise}
  BY DEF WriteSet
<1> QED
  BY <1>1, BlocksAssumption DEF MemInv

LEMMA BeginRecordEffect ==
  ASSUME Known, LocInv, NEW th \in Threads, BeginRecord(th), NEW k \in Tx, k = ver[th].tx_idx
  PROVE  /\ UNCHANGED vars /\ data' = data
         /\ pc[th] = "execute" /\ work[th].stage = "idle"
         /\ \A j \in Tx : locations'[j].write = locations[j].write
         /\ \A j \in Tx \ {k} : locations'[j].read = locations[j].read
         /\ work'[th].stage = "record" /\ work'[th].todo = RecordedSet(th)'
<1>0. MemInv /\ Staged(th) /\ DOMAIN work = Threads /\ Frame(th)
  BY WorkerFrame DEF Known, WorkInv, Worker
<1> DEFINE todo == DOMAIN WriteSet(txs[k], work[th].seen)
           w == [work[th] EXCEPT !.stage = "record", !.todo = todo]
<1>1. Set(th, w) /\ SetReadSet(k, work[th].reads) /\ UNCHANGED vars /\ data' = data
  BY DEF BeginRecord
<1>2. w.todo = todo /\ w.seen = work[th].seen /\ w.stage = "record"
  BY <1>0 DEF Staged
<1>3. work'[th] = w
  BY <1>0, <1>1 DEF Set
<1> HIDE DEF w
<1>4. work'[th].todo = RecordedSet(th)'
  BY <1>0, <1>1, <1>2, <1>3 DEF RecordedSet, Frame, vars
<1>5. /\ \A j \in Tx : locations'[j].write = locations[j].write
      /\ \A j \in Tx \ {k} : locations'[j].read = locations[j].read
  BY <1>0, <1>1 DEF SetReadSet, MemInv
<1>6. pc[th] = "execute" /\ work[th].stage = "idle"
  BY DEF BeginRecord, ReadsDone, Executing
<1> QED
  BY <1>1, <1>2, <1>3, <1>4, <1>5, <1>6

LEMMA RecordRemoveEffect ==
  ASSUME Known, LocInv, NEW th \in Threads, RecordRemove(th), NEW k \in Tx, k = ver[th].tx_idx
  PROVE  /\ UNCHANGED vars /\ work' = work
         /\ pc[th] = "execute" /\ work[th].stage = "record"
         /\ RecordedSet(th)' = RecordedSet(th)
         /\ \A j \in Tx : locations'[j].read = locations[j].read
         /\ \A j \in Tx \ {k} : locations'[j].write = locations[j].write
         /\ \E l \in Loc :
              /\ l \in locations[k].write /\ l \notin RecordedSet(th)
              /\ locations'[k].write = locations[k].write \ {l}
              /\ Removes(l, k)
<1>0. MemInv /\ Staged(th) /\ DOMAIN work = Threads /\ Frame(th)
  BY WorkerFrame DEF Known, WorkInv, Worker
<1>1. /\ UNCHANGED vars /\ work' = work /\ work[th].stage = "record"
      /\ \E l \in Stale(th) : RemoveWrite(k, l)
  BY DEF RecordRemove
<1>2. pc[th] = "execute"
  BY <1>0, <1>1 DEF Staged, ExecuteStages
<1>3. RecordedSet(th)' = RecordedSet(th)
  BY <1>0, <1>1 DEF RecordedSet, Frame, vars
<1>4. PICK l \in locations[k].write \ RecordedSet(th) : RemoveWrite(k, l)
  BY <1>1 DEF Stale, RecordedSet
<1>5. l \in Loc
  BY DEF LocInv
<1>6. Removes(l, k)
  BY <1>0, <1>4, <1>5 DEF RemoveWrite, Restrict, MemInv, Removes
<1>7. /\ \A j \in Tx : locations'[j].read = locations[j].read
      /\ \A j \in Tx \ {k} : locations'[j].write = locations[j].write
      /\ locations'[k].write = locations[k].write \ {l}
  BY <1>0, <1>4 DEF RemoveWrite, MemInv
<1> QED
  BY <1>1, <1>2, <1>3, <1>5, <1>6, <1>7

LEMMA RecordInsertEffect ==
  ASSUME Known, LocInv, NEW th \in Threads, RecordInsert(th), NEW k \in Tx, k = ver[th].tx_idx
  PROVE  /\ UNCHANGED vars
         /\ pc[th] = "execute" /\ work[th].stage = "record"
         /\ RecordedSet(th)' = RecordedSet(th)
         /\ RecordedSet(th) \subseteq Loc /\ beneficiary \in RecordedSet(th)
         /\ locations[k].write \subseteq RecordedSet(th)
         /\ \A j \in Tx : locations'[j].read = locations[j].read
         /\ \A j \in Tx \ {k} : locations'[j].write = locations[j].write
         /\ \E l \in work[th].todo :
              /\ l \in RecordedSet(th)
              /\ locations'[k].write = locations[k].write \cup {l}
              /\ Puts(l, k) /\ data'[l][k] # Estimate
              /\ work'[th].stage = (IF work[th].todo = {l} THEN "recorded" ELSE "record")
              /\ work'[th].todo = work[th].todo \ {l}
              /\ work'[th].wrote = (work[th].wrote \/ l \notin locations[k].write)
<1>0. MemInv /\ Staged(th) /\ DOMAIN work = Threads /\ Frame(th)
  BY WorkerFrame DEF Known, WorkInv, Worker
<1> DEFINE W(l) == [work[th] EXCEPT !.stage = IF work[th].todo = {l} THEN "recorded" ELSE @,
                                    !.todo = @ \ {l},
                                    !.wrote = @ \/ l \notin locations[k].write]
           e(l) == Data(ver[th].tx_incarnation, WriteSet(txs[k], work[th].seen)[l])
<1>1. UNCHANGED vars /\ work[th].stage = "record" /\ Stale(th) = {}
  BY DEF RecordInsert
<1>2. PICK l \in work[th].todo :
        /\ data' = Put(l, k, e(l))
        /\ locations' = [locations EXCEPT ![k].write = @ \cup {l}]
        /\ Set(th, W(l))
  BY DEF RecordInsert, InsertWrite
<1>3. /\ W(l).stage = (IF work[th].todo = {l} THEN "recorded" ELSE "record")
      /\ W(l).todo = work[th].todo \ {l} /\ W(l).seen = work[th].seen
      /\ W(l).wrote = (work[th].wrote \/ l \notin locations[k].write)
  BY <1>0, <1>1 DEF Staged
<1>4. work'[th] = W(l)
  BY <1>0, <1>2 DEF Set
<1>5. e(l) # Estimate
  BY DEF Data, Estimate
<1> HIDE DEF W, e
<1>6. pc[th] = "execute"
  BY <1>0, <1>1 DEF Staged, ExecuteStages
<1>7. RecordedSet(th)' = RecordedSet(th)
  BY <1>0, <1>1, <1>3, <1>4 DEF RecordedSet, Frame, vars
<1>8. RecordedSet(th) \subseteq Loc /\ beneficiary \in RecordedSet(th)
  BY <1>0, WriteSetLoc DEF RecordedSet
<1>9. work[th].todo \subseteq RecordedSet(th)
  BY <1>1 DEF LocInv
<1>10. locations[k].write \subseteq RecordedSet(th)
  BY <1>1 DEF Stale, RecordedSet
<1>11. /\ \A j \in Tx : locations'[j].read = locations[j].read
       /\ \A j \in Tx \ {k} : locations'[j].write = locations[j].write
       /\ locations'[k].write = locations[k].write \cup {l}
  BY <1>0, <1>2 DEF MemInv
<1>12. Puts(l, k) /\ data'[l][k] # Estimate
  BY <1>0, <1>2, <1>5, <1>8, <1>9, PutPuts, SMTT(30)
<1> QED
  BY <1>1, <1>2, <1>3, <1>4, <1>6, <1>7, <1>8, <1>9, <1>10, <1>11, <1>12, Zenon

LEMMA ConvertWriteEffect ==
  ASSUME Known, LocInv, NEW th \in Threads, ConvertWrite(th), NEW k \in Tx, k = ver[th].tx_idx
  PROVE  /\ UNCHANGED vars /\ locations' = locations
         /\ pc[th] = "estimate" /\ work[th].stage = "convert"
         /\ \E l \in work[th].todo :
              /\ l \in locations[k].write /\ l \in Loc
              /\ Puts(l, k) /\ data'[l][k] = Estimate
              /\ \/ work[th].todo = {l} /\ work'[th].stage = "converted"
                 \/ work'[th].stage = "convert" /\ work'[th].todo = work[th].todo \ {l}
<1>0. /\ MemInv /\ Staged(th) /\ DOMAIN work = Threads
      /\ work[th].stage = "convert" => work[th].todo \subseteq locations[k].write
  BY DEF Known, WorkInv, ConvertsWritten
<1>1. UNCHANGED vars /\ locations' = locations /\ work[th].stage = "convert"
  BY DEF ConvertWrite, MarkEstimate
<1>2. PICK l \in work[th].todo :
        /\ data' = Put(l, k, Estimate)
        /\ \/ work[th].todo = {l} /\ Set(th, [Idle EXCEPT !.stage = "converted"])
           \/ Set(th, [work[th] EXCEPT !.todo = @ \ {l}])
  BY DEF ConvertWrite, MarkEstimate
<1>3. /\ [Idle EXCEPT !.stage = "converted"].stage = "converted"
      /\ [work[th] EXCEPT !.todo = @ \ {l}].stage = "convert"
      /\ [work[th] EXCEPT !.todo = @ \ {l}].todo = work[th].todo \ {l}
  BY <1>0, <1>1 DEF Idle, Staged
<1>4. l \in locations[k].write /\ l \in Loc
  BY <1>0, <1>1 DEF LocInv
<1>5. Puts(l, k) /\ data'[l][k] = Estimate
  BY <1>0, <1>2, <1>4, PutPuts, SMTT(30)
<1>6. pc[th] = "estimate"
  BY <1>0, <1>1 DEF Staged
<1>7. \/ work[th].todo = {l} /\ work'[th].stage = "converted"
      \/ work'[th].stage = "convert" /\ work'[th].todo = work[th].todo \ {l}
  BY <1>0, <1>2, <1>3 DEF Set
<1> QED
  BY <1>1, <1>4, <1>5, <1>6, <1>7
=============================================================================
