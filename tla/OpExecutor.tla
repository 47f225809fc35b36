----------------------------- MODULE OpExecutor -------------------------------
(***************************************************************************)
(* The Optimism executor and vm (crates/pe/src/op_executor.rs, op_vm.rs):  *)
(* one call of execute on the executor that op_provider.rs makes for each  *)
(* block.                                                                  *)
(*                                                                         *)
(* OpVm wraps the TxEnv of a transaction with OpTransaction::new, which    *)
(* has no envelope.  A transaction that gets through its interpretation    *)
(* therefore panics in apply_rewards, unless it is a deposit, whose type   *)
(* TxType::try_from does not know.  So no transaction ever finishes: there *)
(* is nothing to validate, no dependent is resumed, no slot of results is  *)
(* filled.  The credit of the three rewards and the evaluation of the lazy *)
(* addresses are not reached.                                              *)
(***************************************************************************)
EXTENDS Integers, FiniteSets

CONSTANTS
  Worker,   \* the threads of the scope, concurrency_level of them
  Blocks    \* the blocks: functions from 0 .. size - 1 to [kind, check, contract]: a
            \* deposit or a plain transaction, what validating it on the state below
            \* the block comes to, and whether it destroys a contract or calls it

VARIABLES
  txs,
  execution_idx,
  worker,         \* [Worker -> [pc, tx_idx]]
  recorded,       \* the transactions whose writes are in the multi-version memory
  abort_reason,
  outcome

vars == <<txs, execution_idx, worker, recorded, abort_reason, outcome>>

block_size == Cardinality(DOMAIN txs)

At(pc, t) == [pc |-> pc, tx_idx |-> t]

\* execute returns at once when the block is empty.
Init ==
  /\ txs \in Blocks
  /\ execution_idx = 0
  /\ worker = [w \in Worker |-> At("next", 0)]
  /\ recorded = {}
  /\ abort_reason = "None"
  /\ outcome = IF txs = <<>> THEN "Ok" ELSE "Running"

Goto(w, pc) == worker' = [worker EXCEPT ![w].pc = pc]
Executing(w) == outcome = "Running" /\ worker[w].pc = "execute"

(***************************************************************************)
(* Scheduler::next_task.  No status is ever Executed, so validation_idx    *)
(* and min_validation_idx stay at block_size, and the task is the          *)
(* execution of the next transaction, which no other thread can have.      *)
(***************************************************************************)
NextTask(w) ==
  /\ outcome = "Running" /\ worker[w].pc = "next"
  /\ abort_reason = "None" /\ execution_idx < block_size
  /\ worker' = [worker EXCEPT ![w] = At("execute", execution_idx)]
  /\ execution_idx' = execution_idx + 1
  /\ UNCHANGED <<txs, recorded, abort_reason, outcome>>

\* The thread leaves its loop: the scheduler is aborted, or there is no task left and
\* num_validated = 0 is all that min_validation_idx asks for.
Leave(w) ==
  /\ outcome = "Running" /\ worker[w].pc = "next"
  /\ abort_reason # "None" \/ execution_idx >= block_size
  /\ Goto(w, "left")
  /\ UNCHANGED <<txs, execution_idx, recorded, abort_reason, outcome>>

\* try_execute: scheduler.abort() and get_or_init of the reason.
Abort(w, reason) ==
  /\ abort_reason' = IF abort_reason = "None" THEN reason ELSE abort_reason
  /\ Goto(w, "next")
  /\ UNCHANGED <<txs, execution_idx, recorded, outcome>>

(***************************************************************************)
(* What the validation of t may come to: "ok", "low" for a nonce that is   *)
(* too low, "wait" for one that is too high, too little money or a read of *)
(* an estimate.  It reads the state below the block, until a deposit is    *)
(* recorded: its writes may change the verdict, or make t lazy.            *)
(***************************************************************************)
Verdicts(t) == IF recorded = {} THEN {txs[t].check} ELSE {"ok", "low", "wait"}

\* A panic of apply_rewards ends the thread; its transaction stays Executing.
PanicUnenveloped(w) ==
  LET t == worker[w].tx_idx
  IN  /\ Executing(w)
      /\ txs[t].kind = "plain" /\ "ok" \in Verdicts(t)
      /\ Goto(w, "panicked")
      /\ UNCHANGED <<txs, execution_idx, recorded, abort_reason, outcome>>

\* A deposit has no rewards and is recorded; then its type is an error.
RecordDeposit(w) ==
  LET t == worker[w].tx_idx
  IN  /\ Executing(w)
      /\ txs[t].kind = "deposit" /\ "ok" \in Verdicts(t)
      /\ recorded' = recorded \cup {t}
      /\ Goto(w, "untyped")
      /\ UNCHANGED <<txs, execution_idx, abort_reason, outcome>>

RejectType(w) ==
  /\ outcome = "Running" /\ worker[w].pc = "untyped"
  /\ Abort(w, "ExecutionError")

Reject(w) ==
  LET t == worker[w].tx_idx
  IN  /\ Executing(w)
      /\ "low" \in Verdicts(t) \/ (t = 0 /\ "wait" \in Verdicts(t))
      /\ Abort(w, "ExecutionError")

\* Blocking on the transaction before it, which never finishes: t stays Aborted.
AddDependency(w) ==
  LET t == worker[w].tx_idx
  IN  /\ Executing(w)
      /\ t > 0 /\ "wait" \in Verdicts(t)
      /\ Goto(w, "next")
      /\ UNCHANGED <<txs, execution_idx, recorded, abort_reason, outcome>>

\* OpVmDB::new reads the code of a contract that a deposit below destroyed.
Fallback(w) ==
  LET t == worker[w].tx_idx
  IN  /\ Executing(w)
      /\ txs[t].contract = "calls"
      /\ \E d \in recorded : d < t /\ txs[d].contract = "destroys"
      /\ Abort(w, "FallbackToSequential")

(***************************************************************************)
(* op_execute_sequential fails on the type of a deposit.  Built without    *)
(* the compiler it fails on a transaction without an envelope, too.        *)
(***************************************************************************)
OpExecuteSequential ==
  IF \E t \in DOMAIN txs : txs[t].kind = "deposit" THEN {"Err"} ELSE {"Err", "Ok"}

\* thread::scope joins all threads, and panics if one of them has; without an abort
\* the unwrap of the empty slots panics.
Join ==
  /\ outcome = "Running"
  /\ \A w \in Worker : worker[w].pc \in {"left", "panicked"}
  /\ outcome' \in IF \E w \in Worker : worker[w].pc = "panicked" THEN {"Panicked"}
                  ELSE CASE abort_reason = "FallbackToSequential" -> OpExecuteSequential
                         [] abort_reason = "ExecutionError" -> {"Err"}
                         [] abort_reason = "None" -> {"Panicked"}
  /\ UNCHANGED <<txs, execution_idx, worker, recorded, abort_reason>>

Step(w) ==
  \/ NextTask(w) \/ Leave(w)
  \/ PanicUnenveloped(w) \/ RecordDeposit(w) \/ RejectType(w)
  \/ Reject(w) \/ AddDependency(w) \/ Fallback(w)

Next == Join \/ \E w \in Worker : Step(w)

Spec == Init /\ [][Next]_vars

-----------------------------------------------------------------------------
(***************************************************************************)
(* "Ensures outputs are consistent with serial execution under a fixed     *)
(* order" (crates/pe/README.md): when execute is over, a block whose       *)
(* transactions are all acceptable on the state below it has results.      *)
(***************************************************************************)
OpReturnsResults ==
  (outcome # "Running" /\ \A t \in DOMAIN txs : txs[t].check = "ok") => outcome = "Ok"
=============================================================================
