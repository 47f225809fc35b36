------------------------------ MODULE Scheduler ------------------------------
(***************************************************************************)
(* The collaborative scheduler of the parallel executor                    *)
(* (crates/pe/src/scheduler.rs) together with the worker loop that drives  *)
(* it (crates/pe/src/executor.rs, `execute' and `try_execute').            *)
(*                                                                         *)
(* Every worker is a thread with a program counter.  One action is one     *)
(* atomic operation on a shared index, or one critical section of a status *)
(* mutex.  finish_execution keeps the status mutex of its transaction      *)
(* while it touches the shared indices, so its steps are separate actions  *)
(* and the mutex is a condition on the program counters (StatusLocked).    *)
(*                                                                         *)
(* What the EVM and the multi-version memory answer is left open here: an  *)
(* execution may finish, block, be retried or abort the block, a           *)
(* validation may pass or fail.  ParallelExecutor.tla closes those choices.*)
(***************************************************************************)
EXTENDS Block, FiniteSets

CONSTANTS
  Threads,         \* the worker threads spawned by `execute'
  MaxIncarnation   \* bound: the environment fails an incarnation below it only

\* The value of MaxIncarnation that bounds nothing.
NoBound == -1

ASSUME MaxIncarnationAssumption == MaxIncarnation \in Nat \cup {NoBound}

\* concurrency_level is a NonZeroUsize.
ASSUME ThreadsAssumption == Threads # {}

VARIABLES
  tx_status,           \* [Tx -> TxStatus], each behind its mutex
  tx_dependency,       \* [Tx -> SUBSET Tx], the dependents to resume
  execution_idx,       \* AtomicUsize
  validation_idx,      \* AtomicUsize
  min_validation_idx,  \* AtomicUsize
  num_validated,       \* AtomicUsize
  aborted,             \* AtomicBool
  abort_reason,        \* OnceLock<AbortReason> of the executor
  pc,                  \* [Threads -> Label]
  ver,                 \* [Threads -> TxVersion]: the version in hand
  idx,                 \* [Threads -> Nat]: the index, count or bound in hand
  flags                \* [Threads -> SUBSET Bit]: FinishExecFlags in hand

txVars == <<tx_status, tx_dependency>>
indices == <<execution_idx, validation_idx, min_validation_idx, num_validated>>
abortVars == <<aborted, abort_reason>>
vars == <<txVars, indices, abortVars, pc, ver, idx, flags>>

IncarnationStatus ==
  {"ReadyToExecute", "Executing", "Executed", "Validated", "Aborted"}

TxStatus == [incarnation : Nat, status : IncarnationStatus]

TxVersion == [tx_idx : 0 .. block_size, tx_incarnation : Nat]

\* The register of a thread that holds no version.
NoVersion == [tx_idx |-> 0, tx_incarnation |-> 0]

AbortReason == {"FallbackToSequential", "ExecutionError"}

(***************************************************************************)
(* FinishExecFlags, as sets of bits.  The constant NeedValidation is the   *)
(* bit pattern 0: every flag set contains it.                              *)
(***************************************************************************)
Bit == {0, 1}
NeedValidation == {}
WroteNewLocation == {0}
contains(fl, f) == f \subseteq fl

(***************************************************************************)
(* The flags Vm::execute returns for transaction t.                        *)
(***************************************************************************)
ExecFlags(t, lazy, wrote) ==
  (IF t > 0 /\ ~lazy THEN NeedValidation ELSE {})
    \cup (IF wrote THEN WroteNewLocation ELSE {})

Min2(a, b) == IF a < b THEN a ELSE b

(***************************************************************************)
(* fetch_add(1) on execution_idx and validation_idx.  The code compares    *)
(* these indices with block_size before anything else, so all values from  *)
(* block_size up are alike and the counter saturates there.                *)
(***************************************************************************)
FetchAdd(i) == IF i < block_size THEN i + 1 ELSE i

(***************************************************************************)
(* Labels.  In HoldsStatus a thread owns the status mutex of ver.tx_idx,   *)
(* in "add_dep" the one of the blocking transaction idx.                   *)
(***************************************************************************)
HoldsStatus ==
  {"drain", "drain_idx", "load_val_idx", "lower_min", "lower_next",
   "set_none", "set_ret"}

ReturnLabels == {"ret_none", "ret_exec", "ret_val"}

\* A thread at one of these labels owns the incarnation ver for execution.
ExecutionLabels == HoldsStatus \cup {"ret_exec", "execute", "add_dep"}

\* A thread at one of these labels works on a validation of ver.
ValidationLabels ==
  {"ret_val", "validate", "try_abort", "confirm", "estimate"}

Label ==
  ExecutionLabels \cup ValidationLabels \cup ReturnLabels \cup AbortReason
    \cup {"next", "load_exec", "load_val", "load_num", "load_min",
          "take_val", "peek_val", "take_exec", "try_exec",
          "lower_abort", "check_exec", "retry_exec", "done"}

StatusLocked(t) ==
  \E th \in Threads :
    \/ pc[th] \in HoldsStatus /\ ver[th].tx_idx = t
    \/ pc[th] = "add_dep" /\ idx[th] = t

Init ==
  /\ tx_status = [t \in Tx |-> [incarnation |-> 0, status |-> "ReadyToExecute"]]
  /\ tx_dependency = [t \in Tx |-> {}]
  /\ execution_idx = 0
  /\ validation_idx = block_size
  /\ min_validation_idx = block_size
  /\ num_validated = 0
  /\ aborted = FALSE
  /\ abort_reason = "none"
  /\ pc = [th \in Threads |-> "next"]
  /\ ver = [th \in Threads |-> NoVersion]
  /\ idx = [th \in Threads |-> 0]
  /\ flags = [th \in Threads |-> {}]

-----------------------------------------------------------------------------
Goto(th, label) == pc' = [pc EXCEPT ![th] = label]

Hold(th, t, i) == ver' = [ver EXCEPT ![th] = [tx_idx |-> t, tx_incarnation |-> i]]

Release(th) == ver' = [ver EXCEPT ![th] = NoVersion]

SetStatus(t, s) == tx_status' = [tx_status EXCEPT ![t].status = s]

(***************************************************************************)
(* next_task                                                               *)
(***************************************************************************)
CheckAborted(th) ==
  /\ pc[th] = "next"
  /\ Goto(th, IF aborted THEN "done" ELSE "load_exec")
  /\ UNCHANGED <<txVars, indices, abortVars, ver, idx, flags>>

LoadExecutionIdx(th) ==
  /\ pc[th] = "load_exec"
  /\ idx' = [idx EXCEPT ![th] = execution_idx]
  /\ Goto(th, "load_val")
  /\ UNCHANGED <<txVars, indices, abortVars, ver, flags>>

LoadValidationIdx(th) ==
  /\ pc[th] = "load_val"
  /\ Goto(th, IF idx[th] >= block_size /\ validation_idx >= block_size
              THEN "load_num"
              ELSE IF validation_idx < idx[th] THEN "take_val" ELSE "take_exec")
  /\ idx' = [idx EXCEPT ![th] = 0]
  /\ UNCHANGED <<txVars, indices, abortVars, ver, flags>>

LoadNumValidated(th) ==
  /\ pc[th] = "load_num"
  /\ idx' = [idx EXCEPT ![th] = num_validated]
  /\ Goto(th, "load_min")
  /\ UNCHANGED <<txVars, indices, abortVars, ver, flags>>

\* Variant: the exit test is strict.
LoadMinValidationIdxStrict(th) ==
  /\ pc[th] = "load_min"
  /\ Goto(th, IF idx[th] > block_size - min_validation_idx THEN "done" ELSE "next")
  /\ idx' = [idx EXCEPT ![th] = 0]
  /\ UNCHANGED <<txVars, indices, abortVars, ver, flags>>

LoadMinValidationIdx(th) ==
  /\ pc[th] = "load_min"
  /\ Goto(th, IF idx[th] >= block_size - min_validation_idx
              THEN "done" ELSE "next")
  /\ idx' = [idx EXCEPT ![th] = 0]
  /\ UNCHANGED <<txVars, indices, abortVars, ver, flags>>

TakeValidationIdx(th) ==
  /\ pc[th] = "take_val"
  /\ validation_idx' = FetchAdd(validation_idx)
  /\ IF validation_idx < block_size
     THEN Hold(th, validation_idx, 0) /\ Goto(th, "peek_val")
     ELSE UNCHANGED ver /\ Goto(th, "take_exec")
  /\ UNCHANGED <<txVars, execution_idx, min_validation_idx, num_validated,
                 abortVars, idx, flags>>

(***************************************************************************)
(* The critical section of next_task on the transaction taken from         *)
(* validation_idx: execute it if ready, validate it if executed, look again *)
(* if aborted, and try an execution task if somebody is executing it.      *)
(***************************************************************************)
PeekStatus(th) ==
  LET t == ver[th].tx_idx
      i == tx_status[t].incarnation
      s == tx_status[t].status
  IN  /\ pc[th] = "peek_val"
      /\ ~StatusLocked(t)
      /\ \/ /\ s = "ReadyToExecute"
            /\ SetStatus(t, "Executing")
            /\ Hold(th, t, i)
            /\ Goto(th, "execute")
         \/ /\ s \in {"Executed", "Validated"}
            /\ Hold(th, t, i)
            /\ Goto(th, "validate")
            /\ UNCHANGED tx_status
         \/ /\ s \in {"Aborted", "Executing"}
            /\ Release(th)
            /\ Goto(th, IF s = "Aborted" THEN "next" ELSE "take_exec")
            /\ UNCHANGED tx_status
      /\ UNCHANGED <<tx_dependency, indices, abortVars, idx, flags>>

\* Variant: the index is not compared with block_size.
TakeExecutionIdxUnchecked(th) ==
  /\ pc[th] = "take_exec"
  /\ execution_idx' = FetchAdd(execution_idx)
  /\ Hold(th, execution_idx, 0) /\ Goto(th, "try_exec")
  /\ UNCHANGED <<txVars, validation_idx, min_validation_idx, num_validated,
                 abortVars, idx, flags>>

TakeExecutionIdx(th) ==
  /\ pc[th] = "take_exec"
  /\ execution_idx' = FetchAdd(execution_idx)
  /\ IF execution_idx < block_size
     THEN Hold(th, execution_idx, 0) /\ Goto(th, "try_exec")
     ELSE UNCHANGED ver /\ Goto(th, "next")
  /\ UNCHANGED <<txVars, validation_idx, min_validation_idx, num_validated,
                 abortVars, idx, flags>>

\* Variant: an Aborted transaction is executed before anybody made it ready.
TryExecuteAborted(th) ==
  LET t == ver[th].tx_idx
  IN  /\ pc[th] \in {"try_exec", "retry_exec"}
      /\ ~StatusLocked(t)
      /\ IF tx_status[t].status \in {"ReadyToExecute", "Aborted"}
         THEN /\ SetStatus(t, "Executing")
              /\ Hold(th, t, tx_status[t].incarnation)
              /\ Goto(th, IF pc[th] = "try_exec" THEN "execute" ELSE "ret_exec")
         ELSE /\ Release(th)
              /\ Goto(th, IF pc[th] = "try_exec" THEN "next" ELSE "ret_none")
              /\ UNCHANGED tx_status
      /\ UNCHANGED <<tx_dependency, indices, abortVars, idx, flags>>

(***************************************************************************)
(* try_execute, called by next_task ("try_exec") and by finish_validation  *)
(* after a successful abort ("retry_exec").                                *)
(***************************************************************************)
TryExecute(th) ==
  LET t == ver[th].tx_idx
  IN  /\ pc[th] \in {"try_exec", "retry_exec"}
      /\ ~StatusLocked(t)
      /\ IF tx_status[t].status = "ReadyToExecute"
         THEN /\ SetStatus(t, "Executing")
              /\ Hold(th, t, tx_status[t].incarnation)
              /\ Goto(th, IF pc[th] = "try_exec" THEN "execute" ELSE "ret_exec")
         ELSE /\ Release(th)
              /\ Goto(th, IF pc[th] = "try_exec" THEN "next" ELSE "ret_none")
              /\ UNCHANGED tx_status
      /\ UNCHANGED <<tx_dependency, indices, abortVars, idx, flags>>

-----------------------------------------------------------------------------
(***************************************************************************)
(* finish_execution.  The first step takes the status mutex of the         *)
(* transaction, the last one releases it.                                  *)
(***************************************************************************)
FinishExecution(th, fl) ==
  /\ pc[th] = "execute"
  /\ ~StatusLocked(ver[th].tx_idx)
  /\ flags' = [flags EXCEPT ![th] = fl]
  /\ Goto(th, "drain")
  /\ UNCHANGED <<txVars, indices, abortVars, ver, idx>>

\* Variant: the incarnation is not incremented.
SetReadyStatusSame(t) == SetStatus(t, "ReadyToExecute")

(***************************************************************************)
(* set_ready_status: a new incarnation is ready.                           *)
(***************************************************************************)
SetReadyStatus(t) ==
  tx_status' = [tx_status EXCEPT ![t] =
                  [incarnation |-> @.incarnation + 1, status |-> "ReadyToExecute"]]

ResumeDependent(th) ==
  LET t == ver[th].tx_idx
  IN  /\ pc[th] = "drain"
      /\ \E j \in tx_dependency[t] :
           /\ ~StatusLocked(j)
           /\ tx_dependency' = [tx_dependency EXCEPT ![t] = @ \ {j}]
           /\ SetReadyStatus(j)
           /\ idx' = [idx EXCEPT ![th] = j]
      /\ Goto(th, "drain_idx")
      /\ UNCHANGED <<indices, abortVars, ver, flags>>

\* Variant: a resumed transaction does not lower execution_idx.
LowerExecutionIdxSkipped(th) ==
  /\ pc[th] = "drain_idx"
  /\ idx' = [idx EXCEPT ![th] = 0]
  /\ Goto(th, "drain")
  /\ UNCHANGED <<txVars, indices, abortVars, ver, flags>>

LowerExecutionIdx(th) ==
  /\ pc[th] = "drain_idx"
  /\ execution_idx' = Min2(execution_idx, idx[th])
  /\ idx' = [idx EXCEPT ![th] = 0]
  /\ Goto(th, "drain")
  /\ UNCHANGED <<txVars, validation_idx, min_validation_idx, num_validated,
                 abortVars, ver, flags>>

(***************************************************************************)
(* The fetch_min (or load) of min_validation_idx and the branches that     *)
(* depend on it.  idx keeps the bound of a later fetch_min on              *)
(* validation_idx.                                                         *)
(***************************************************************************)
LowerMinValidationIdx(th) ==
  LET t == ver[th].tx_idx
      m == IF contains(flags[th], NeedValidation)
           THEN Min2(min_validation_idx, t) ELSE min_validation_idx
  IN  /\ pc[th] = "drain"
      /\ tx_dependency[t] = {}
      /\ min_validation_idx' = m
      /\ Goto(th, IF m >= block_size THEN "set_none"
                  ELSE IF t >= m THEN "load_val_idx"
                  ELSE IF contains(flags[th], WroteNewLocation) THEN "lower_min"
                  ELSE "set_none")
      /\ idx' = [idx EXCEPT ![th] = IF t < m THEN m ELSE t + 1]
      /\ UNCHANGED <<txVars, execution_idx, validation_idx, num_validated,
                     abortVars, ver, flags>>

\* Variant: off by one, the transaction just below validation_idx is left out.
CompareValidationIdxOff(th) ==
  /\ pc[th] = "load_val_idx"
  /\ Goto(th, IF ver[th].tx_idx + 1 >= validation_idx THEN "set_none"
              ELSE IF contains(flags[th], WroteNewLocation) THEN "lower_next"
              ELSE "set_ret")
  /\ UNCHANGED <<txVars, indices, abortVars, ver, idx, flags>>

CompareValidationIdx(th) ==
  /\ pc[th] = "load_val_idx"
  /\ Goto(th, IF ver[th].tx_idx >= validation_idx THEN "set_none"
              ELSE IF contains(flags[th], WroteNewLocation) THEN "lower_next"
              ELSE "set_ret")
  /\ UNCHANGED <<txVars, indices, abortVars, ver, idx, flags>>

LowerValidationIdx(th) ==
  /\ pc[th] \in {"lower_min", "lower_next"}
  /\ validation_idx' = Min2(validation_idx, idx[th])
  /\ Goto(th, IF pc[th] = "lower_next" THEN "set_ret" ELSE "set_none")
  /\ UNCHANGED <<txVars, execution_idx, min_validation_idx, num_validated,
                 abortVars, ver, idx, flags>>

(***************************************************************************)
(* The status is set and the mutex released.  "set_ret" is the branch of a *)
(* transaction below validation_idx: it returns the validation task, or,   *)
(* when the flags ask for none, counts the transaction and falls through   *)
(* to the code that counts it again.                                       *)
(***************************************************************************)
SetExecutedStatus(th) ==
  LET t == ver[th].tx_idx
      below == pc[th] = "set_ret"
  IN  /\ pc[th] \in {"set_none", "set_ret"}
      /\ IF contains(flags[th], NeedValidation)
         THEN /\ SetStatus(t, "Executed")
              /\ Goto(th, IF below THEN "ret_val" ELSE "ret_none")
              /\ IF below THEN UNCHANGED ver ELSE Release(th)
              /\ UNCHANGED num_validated
         ELSE /\ SetStatus(t, "Validated")
              /\ Goto(th, "ret_none")
              /\ Release(th)
              /\ num_validated' = num_validated + (IF below THEN 2 ELSE 1)
      /\ flags' = [flags EXCEPT ![th] = {}]
      /\ idx' = [idx EXCEPT ![th] = 0]
      /\ UNCHANGED <<tx_dependency, execution_idx, validation_idx,
                     min_validation_idx, abortVars>>

-----------------------------------------------------------------------------
(***************************************************************************)
(* The other outcomes of vm.execute in the executor's try_execute.         *)
(*                                                                         *)
(* Retry, and Blocking(b) when b finished before the dependency could be   *)
(* added, run the same incarnation again unless the block is aborted.      *)
(***************************************************************************)
ExecuteAgain(th) ==
  /\ pc[th] = "execute"
  /\ IF abort_reason = "none"
     THEN UNCHANGED <<pc, ver>>
     ELSE Release(th) /\ Goto(th, "ret_none")
  /\ UNCHANGED <<txVars, indices, abortVars, idx, flags>>

AddDependencyLate(th, b) ==
  /\ ~StatusLocked(b)
  /\ tx_status[b].status \in {"Executed", "Validated"}
  /\ ExecuteAgain(th)

\* Variant: the status of the blocking transaction is not looked at.
LockBlockingUnchecked(th, b) ==
  /\ pc[th] = "execute"
  /\ ~StatusLocked(b)
  /\ idx' = [idx EXCEPT ![th] = b]
  /\ Goto(th, "add_dep")
  /\ UNCHANGED <<txVars, indices, abortVars, ver, flags>>

(***************************************************************************)
(* add_dependency: the mutex of the blocking transaction is held while the *)
(* one of the blocked transaction is taken.                                *)
(***************************************************************************)
LockBlocking(th, b) ==
  /\ pc[th] = "execute"
  /\ ~StatusLocked(b)
  /\ tx_status[b].status \notin {"Executed", "Validated"}
  /\ idx' = [idx EXCEPT ![th] = b]
  /\ Goto(th, "add_dep")
  /\ UNCHANGED <<txVars, indices, abortVars, ver, flags>>

AddDependency(th) ==
  LET t == ver[th].tx_idx
  IN  /\ pc[th] = "add_dep"
      /\ ~StatusLocked(t)
      /\ SetStatus(t, "Aborted")
      /\ tx_dependency' = [tx_dependency EXCEPT ![idx[th]] = @ \cup {t}]
      /\ idx' = [idx EXCEPT ![th] = 0]
      /\ Release(th)
      /\ Goto(th, "ret_none")
      /\ UNCHANGED <<indices, abortVars, flags>>

\* Variant: the scheduler is stopped without a reason.
AbortSchedulerOnly(th, reason) ==
  /\ pc[th] = "execute"
  /\ aborted' = TRUE
  /\ Release(th)
  /\ Goto(th, "ret_none")
  /\ UNCHANGED <<txVars, indices, abort_reason, idx, flags>>

(***************************************************************************)
(* FallbackToSequential and ExecutionError: stop the scheduler, then set   *)
(* the reason unless another thread was first.                             *)
(***************************************************************************)
AbortScheduler(th, reason) ==
  /\ pc[th] = "execute"
  /\ aborted' = TRUE
  /\ Goto(th, reason)
  /\ UNCHANGED <<txVars, indices, abort_reason, ver, idx, flags>>

InitAbortReason(th) ==
  /\ pc[th] \in AbortReason
  /\ abort_reason' = IF abort_reason = "none" THEN pc[th] ELSE abort_reason
  /\ Release(th)
  /\ Goto(th, "ret_none")
  /\ UNCHANGED <<txVars, indices, aborted, idx, flags>>

-----------------------------------------------------------------------------
(***************************************************************************)
(* try_validate: the read set is valid or not, then try_validation_abort   *)
(* and finish_validation.                                                  *)
(***************************************************************************)
ReadSetChecked(th, valid) ==
  /\ pc[th] = "validate"
  /\ Goto(th, IF valid THEN "confirm" ELSE "try_abort")
  /\ UNCHANGED <<txVars, indices, abortVars, ver, idx, flags>>

\* Variant: num_validated is not decremented.
TryValidationAbortCounted(th) ==
  LET t == ver[th].tx_idx
  IN  /\ pc[th] = "try_abort"
      /\ ~StatusLocked(t)
      /\ IF tx_status[t].status \in {"Executed", "Validated"}
         THEN SetStatus(t, "Aborted") /\ Goto(th, "estimate")
         ELSE UNCHANGED tx_status /\ Goto(th, "confirm")
      /\ UNCHANGED <<tx_dependency, indices, abortVars, ver, idx, flags>>

TryValidationAbort(th) ==
  LET t == ver[th].tx_idx
      s == tx_status[t].status
  IN  /\ pc[th] = "try_abort"
      /\ ~StatusLocked(t)
      /\ num_validated' = IF s = "Validated" THEN num_validated - 1 ELSE num_validated
      /\ IF s \in {"Executed", "Validated"}
         THEN SetStatus(t, "Aborted") /\ Goto(th, "estimate")
         ELSE UNCHANGED tx_status /\ Goto(th, "confirm")
      /\ UNCHANGED <<tx_dependency, execution_idx, validation_idx,
                     min_validation_idx, abortVars, ver, idx, flags>>

\* finish_validation with aborted = true
RescheduleAborted(th) ==
  LET t == ver[th].tx_idx
  IN  /\ pc[th] = "estimate"
      /\ ~StatusLocked(t)
      /\ SetReadyStatus(t)
      /\ Goto(th, "lower_abort")
      /\ UNCHANGED <<tx_dependency, indices, abortVars, ver, idx, flags>>

\* Variant: the higher transactions are not validated again.
LowerValidationIdxSkipped(th) ==
  /\ pc[th] = "lower_abort"
  /\ Goto(th, "check_exec")
  /\ UNCHANGED <<txVars, indices, abortVars, ver, idx, flags>>

LowerValidationIdxAborted(th) ==
  /\ pc[th] = "lower_abort"
  /\ validation_idx' = Min2(validation_idx, ver[th].tx_idx + 1)
  /\ Goto(th, "check_exec")
  /\ UNCHANGED <<txVars, execution_idx, min_validation_idx, num_validated,
                 abortVars, ver, idx, flags>>

\* Variant: the execution task is returned without claiming the transaction.
CheckExecutionIdxUnclaimed(th) ==
  LET t == ver[th].tx_idx
  IN  /\ pc[th] = "check_exec"
      /\ IF execution_idx > t
         THEN Hold(th, t, tx_status[t].incarnation) /\ Goto(th, "ret_exec")
         ELSE Release(th) /\ Goto(th, "ret_none")
      /\ UNCHANGED <<txVars, indices, abortVars, idx, flags>>

CheckExecutionIdx(th) ==
  /\ pc[th] = "check_exec"
  /\ IF execution_idx > ver[th].tx_idx
     THEN UNCHANGED ver /\ Goto(th, "retry_exec")
     ELSE Release(th) /\ Goto(th, "ret_none")
  /\ UNCHANGED <<txVars, indices, abortVars, idx, flags>>

\* finish_validation with aborted = false
ConfirmValidated(th) ==
  LET t == ver[th].tx_idx
  IN  /\ pc[th] = "confirm"
      /\ ~StatusLocked(t)
      /\ IF tx_status[t].status = "Executed"
         THEN SetStatus(t, "Validated") /\ num_validated' = num_validated + 1
         ELSE UNCHANGED <<tx_status, num_validated>>
      /\ Release(th)
      /\ Goto(th, "ret_none")
      /\ UNCHANGED <<tx_dependency, execution_idx, validation_idx,
                     min_validation_idx, abortVars, idx, flags>>

(***************************************************************************)
(* The worker loop after a task: leave when the block is aborted, else run *)
(* the returned task or ask for the next one.                              *)
(***************************************************************************)
WorkerLoop(th) ==
  /\ pc[th] \in ReturnLabels
  /\ IF abort_reason # "none"
     THEN Goto(th, "done") /\ Release(th)
     ELSE /\ Goto(th, CASE pc[th] = "ret_none" -> "next"
                         [] pc[th] = "ret_exec" -> "execute"
                         [] pc[th] = "ret_val"  -> "validate")
          /\ UNCHANGED ver
  /\ UNCHANGED <<txVars, indices, abortVars, idx, flags>>

-----------------------------------------------------------------------------
\* The steps of a worker that the scheduler and the worker loop determine.
SchedulerStep(th) ==
  \/ CheckAborted(th)
  \/ LoadExecutionIdx(th)
  \/ LoadValidationIdx(th)
  \/ LoadNumValidated(th)
  \/ LoadMinValidationIdx(th)
  \/ TakeValidationIdx(th)
  \/ PeekStatus(th)
  \/ TakeExecutionIdx(th)
  \/ TryExecute(th)
  \/ ResumeDependent(th)
  \/ LowerExecutionIdx(th)
  \/ LowerMinValidationIdx(th)
  \/ CompareValidationIdx(th)
  \/ LowerValidationIdx(th)
  \/ SetExecutedStatus(th)
  \/ AddDependency(th)
  \/ InitAbortReason(th)
  \/ TryValidationAbort(th)
  \/ RescheduleAborted(th)
  \/ LowerValidationIdxAborted(th)
  \/ CheckExecutionIdx(th)
  \/ ConfirmValidated(th)
  \/ WorkerLoop(th)

\* Outcomes of an execution and of a validation that move the block forward.
Succeed(th) ==
  \/ \E lazy, wrote \in BOOLEAN :
       FinishExecution(th, ExecFlags(ver[th].tx_idx, lazy, wrote))
  \/ ReadSetChecked(th, TRUE)

\* Outcomes that hold it back; an incarnation at the bound always succeeds.
MayFail(th) ==
  MaxIncarnation # NoBound => tx_status[ver[th].tx_idx].incarnation < MaxIncarnation

Setback(th) ==
  \/ \E b \in Tx : /\ b < ver[th].tx_idx
                   /\ \/ AddDependencyLate(th, b)
                      \/ MayFail(th) /\ LockBlocking(th, b)
  \/ ExecuteAgain(th)
  \/ \E reason \in AbortReason : AbortScheduler(th, reason)
  \/ MayFail(th) /\ ReadSetChecked(th, FALSE)

\* All workers have left: the scope of `execute' joins them.
Joined == \A th \in Threads : pc[th] = "done"

Terminated == Joined /\ UNCHANGED vars

Next ==
  \/ \E th \in Threads : SchedulerStep(th) \/ Succeed(th) \/ Setback(th)
  \/ Terminated

Spec == Init /\ [][Next]_vars

(***************************************************************************)
(* The operating system runs every thread, and vm.execute does not fail    *)
(* the same incarnation forever.                                           *)
(***************************************************************************)
Fairness == \A th \in Threads : WF_vars(SchedulerStep(th) \/ Succeed(th))

FairSpec == Spec /\ Fairness

-----------------------------------------------------------------------------
(***************************************************************************)
(* Type correctness of the scheduler state and of the registers; the       *)
(* version a thread works on is an index of the block, which index_mutex!  *)
(* relies on for its unchecked accesses.                                   *)
(***************************************************************************)
TypeOK ==
  /\ tx_status \in [Tx -> TxStatus]
  /\ tx_dependency \in [Tx -> SUBSET Tx]
  /\ execution_idx \in 0 .. block_size
  /\ validation_idx \in 0 .. block_size
  /\ min_validation_idx \in 0 .. block_size
  /\ num_validated \in Int
  /\ aborted \in BOOLEAN
  /\ abort_reason \in AbortReason \cup {"none"}
  /\ pc \in [Threads -> Label]
  /\ ver \in [Threads -> [tx_idx : Tx, tx_incarnation : Nat]]
  /\ idx \in [Threads -> Int]
  /\ flags \in [Threads -> SUBSET Bit]

(***************************************************************************)
(* num_validated counts exactly the transactions whose status is           *)
(* Validated: every change of it happens in the critical section that      *)
(* changes the status, so next_task may trust it to decide termination.    *)
(***************************************************************************)
NumValidatedExact ==
  num_validated = Cardinality({t \in Tx : tx_status[t].status = "Validated"})

(***************************************************************************)
(* An incarnation is executed by one thread only, and as long as a thread  *)
(* executes it the status is Executing with that incarnation: the two      *)
(* debug_asserts of finish_execution hold.                                 *)
(***************************************************************************)
ExclusiveExecution ==
  \A th \in Threads : pc[th] \in ExecutionLabels =>
    /\ tx_status[ver[th].tx_idx] =
         [incarnation |-> ver[th].tx_incarnation, status |-> "Executing"]
    /\ \A other \in Threads \ {th} :
         pc[other] \in ExecutionLabels => ver[other].tx_idx # ver[th].tx_idx

(***************************************************************************)
(* A transaction waiting in a dependency list is Aborted, waits in that    *)
(* list only, and waits for a transaction that has not finished: the race  *)
(* add_dependency guards against (the blocking transaction completing      *)
(* before the dependency is added) never leaves a dependent behind.        *)
(***************************************************************************)
DependentsWait ==
  \A b \in Tx : \A j \in tx_dependency[b] :
    /\ tx_status[j].status = "Aborted"
    /\ tx_status[b].status \notin {"Executed", "Validated"}
    /\ \A c \in Tx \ {b} : j \notin tx_dependency[c]

(***************************************************************************)
(* The transactions that are Aborted are those somebody will make ready:   *)
(* the transaction they depend on, or the one thread that aborted their    *)
(* validation and now converts their writes, and never both.               *)
(***************************************************************************)
Waiting(t) == \E b \in Tx : t \in tx_dependency[b]

Aborting(th, t) == pc[th] = "estimate" /\ ver[th].tx_idx = t

AbortedHasResumer ==
  \A t \in Tx :
    /\ tx_status[t].status = "Aborted" <=>
         Waiting(t) \/ \E th \in Threads : Aborting(th, t)
    /\ \A th \in Threads : Aborting(th, t) =>
         /\ ~Waiting(t)
         /\ \A other \in Threads \ {th} : ~Aborting(other, t)

(***************************************************************************)
(* No execution task is lost: while the block is not aborted, a ready      *)
(* transaction is at or above execution_idx, or in the hands of a thread   *)
(* that is about to lower the index or to try the execution.               *)
(***************************************************************************)
CarriesExecution(th, t) ==
  \/ pc[th] = "drain_idx" /\ idx[th] = t
  \/ /\ pc[th] \in {"try_exec", "lower_abort", "check_exec", "retry_exec"}
     /\ ver[th].tx_idx = t

NoLostExecution ==
  abort_reason = "none" =>
    \A t \in Tx : tx_status[t].status = "ReadyToExecute" =>
      execution_idx <= t \/ \E th \in Threads : CarriesExecution(th, t)

(***************************************************************************)
(* No validation task is lost: while the block is not aborted, an Executed *)
(* transaction is at or above validation_idx or a thread holds a           *)
(* validation of it.                                                       *)
(***************************************************************************)
CarriesValidation(th, t) ==
  /\ pc[th] \in {"peek_val", "ret_val", "validate", "try_abort", "confirm"}
  /\ ver[th].tx_idx = t

NoLostValidation ==
  abort_reason = "none" =>
    \A t \in Tx : tx_status[t].status = "Executed" =>
      validation_idx <= t \/ \E th \in Threads : CarriesValidation(th, t)

(***************************************************************************)
(* When the workers have joined, either the block was aborted and the      *)
(* reason is known, or every transaction is Validated and no dependent is  *)
(* left: a thread may leave next_task early, the last one may not.         *)
(***************************************************************************)
JoinedComplete ==
  Joined =>
    /\ aborted <=> abort_reason # "none"
    /\ ~aborted => \A t \in Tx : /\ tx_status[t].status = "Validated"
                                 /\ tx_dependency[t] = {}

(***************************************************************************)
(* A status only moves along the diagram above IncarnationStatus in        *)
(* types.rs, and the incarnation grows exactly when an Aborted transaction *)
(* becomes ready again.                                                    *)
(***************************************************************************)
StatusMove(s, r) ==
  IF s.status = "Aborted"
  THEN r = [incarnation |-> s.incarnation + 1, status |-> "ReadyToExecute"]
  ELSE /\ r.incarnation = s.incarnation
       /\ <<s.status, r.status>> \in
            {<<"ReadyToExecute", "Executing">>, <<"Executing", "Executed">>,
             <<"Executed", "Validated">>, <<"Executed", "Aborted">>,
             <<"Validated", "Aborted">>, <<"Executing", "Aborted">>}

StatusDiagram ==
  [][\A t \in Tx : tx_status'[t] # tx_status[t] =>
                     StatusMove(tx_status[t], tx_status'[t])]_vars

(***************************************************************************)
(* Every worker eventually leaves: the loop of next_task does not spin     *)
(* forever on a block whose transactions eventually succeed.               *)
(***************************************************************************)
Termination == <>Joined
=============================================================================
