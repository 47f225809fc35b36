--------------------------- MODULE ParallelExecutor ---------------------------
(***************************************************************************)
(* Block-STM execution of a block: the scheduler of Scheduler.tla, the     *)
(* multi-version memory of MvMemory.tla, and between them the worker's     *)
(* try_execute and try_validate and the join of `execute'                  *)
(* (crates/pe/src/executor.rs, crates/pe/src/vm.rs).                       *)
(*                                                                         *)
(* A worker reads one location per step and publishes its write set one    *)
(* location per step, so other workers see half of an execution's writes.  *)
(* The mutex of locations[t] is a condition on what the workers do         *)
(* (LocationsLocked).                                                      *)
(***************************************************************************)
EXTENDS Scheduler, MvMemory, BlockExecution

CONSTANTS
  beneficiary,  \* the location of the block's beneficiary
  Blocks        \* the blocks to execute: sets of [Tx -> program]

ASSUME BeneficiaryAssumption == beneficiary \in Loc

\* apply_rewards adds the beneficiary to every write set.
ASSUME BlocksAssumption ==
  \A block \in Blocks : \A t \in Tx :
    /\ block[t].reads \in Seq(Loc)
    /\ \A writes \in {block[t].onZero, block[t].otherwise} :
         beneficiary \in DOMAIN writes /\ DOMAIN writes \subseteq Loc

\* The rewards and the transfers that are added lazily go to accounts; a code
\* hash is set or its account destroyed.
ASSUME WritesAssumption ==
  \A block \in Blocks : \A t \in Tx :
    \A writes \in {block[t].onZero, block[t].otherwise} :
      \A l \in DOMAIN writes :
        /\ writes[l] \in [kind : {"Absolute", "Lazy", "SelfDestructed"}, amount : Int]
        /\ l \in CodeLoc => writes[l].kind # "Lazy"

VARIABLES
  work,               \* [Threads -> what the worker does inside its task]
  execution_results   \* [Tx -> the amounts the finished execution read]

peVars == <<vars, mvVars, txs, outcome, work, execution_results>>

(***************************************************************************)
(* stage "idle" until something is locked or decided; seen and reads are   *)
(* the amounts and origins read so far, todo the locations still to treat, *)
(* wrote the wrote_new_location of record, on the blocking transaction.    *)
(***************************************************************************)
Idle == [stage |-> "idle", seen |-> <<>>, reads |-> <<>>, todo |-> {},
         wrote |-> FALSE, on |-> 0]

PInit ==
  /\ Init
  /\ MvInit(beneficiary)
  /\ BlockInit
  /\ txs \in Blocks
  /\ work = [th \in Threads |-> Idle]
  /\ execution_results = [t \in Tx |-> <<>>]

Set(th, w) == work' = [work EXCEPT ![th] = w]

LocationsLocked(t) ==
  \E th \in Threads : /\ work[th].stage \in {"record", "check", "convert"}
                      /\ ver[th].tx_idx = t

-----------------------------------------------------------------------------
(***************************************************************************)
(* Vm::execute: the reads of the EVM, in program order.                    *)
(***************************************************************************)
Executing(th) == pc[th] = "execute" /\ work[th].stage = "idle"

Prior(w, l) == IF l \in DOMAIN w.reads THEN w.reads[l] ELSE <<>>

ReadLocation(th) ==
  LET t == ver[th].tx_idx
      w == work[th]
      p == txs[t]
      l == p.reads[Len(w.seen) + 1]
      r == Read(l, t, Prior(w, l))
  IN  /\ Executing(th)
      /\ Len(w.seen) < Len(p.reads)
      /\ \/ /\ r.result = "Ok"
            /\ Set(th, [w EXCEPT !.seen = Append(@, r.amount),
                                 !.reads = [m \in DOMAIN @ \cup {l} |->
                                              IF m = l THEN r.origins ELSE @[m]]])
         \/ /\ r.result = "Blocking"
            /\ Set(th, [Idle EXCEPT !.stage = "blocking", !.on = r.on])
         \/ /\ r.result = "InconsistentRead"
            /\ Set(th, [Idle EXCEPT !.stage = "retry"])
         \/ /\ r.result = "SelfDestructed"
            /\ Set(th, [Idle EXCEPT !.stage = "fallback"])
      /\ UNCHANGED <<vars, mvVars, txs, outcome, execution_results>>

ReadsDone(th) == Executing(th) /\ Len(work[th].seen) = Len(txs[ver[th].tx_idx].reads)

\* Variants: blocked on the transaction itself, and failing at once.
LackOfFundSelf(th) ==
  LET t == ver[th].tx_idx
  IN  /\ ReadsDone(th)
      /\ ~Affordable(txs[t], work[th].seen)
      /\ Set(th, IF t > 0 THEN [Idle EXCEPT !.stage = "blocking", !.on = t]
                 ELSE [Idle EXCEPT !.stage = "error"])
      /\ UNCHANGED <<vars, mvVars, txs, outcome, execution_results>>

LackOfFundFails(th) ==
  /\ ReadsDone(th)
  /\ ~Affordable(txs[ver[th].tx_idx], work[th].seen)
  /\ Set(th, [Idle EXCEPT !.stage = "error"])
  /\ UNCHANGED <<vars, mvVars, txs, outcome, execution_results>>

\* LackOfFundForMaxFee: blocked on the preceding transaction, if there is one.
LackOfFund(th) ==
  LET t == ver[th].tx_idx
  IN  /\ ReadsDone(th)
      /\ ~Affordable(txs[t], work[th].seen)
      /\ Set(th, IF t > 0 THEN [Idle EXCEPT !.stage = "blocking", !.on = t - 1]
                 ELSE [Idle EXCEPT !.stage = "error"])
      /\ UNCHANGED <<vars, mvVars, txs, outcome, execution_results>>

(***************************************************************************)
(* MvMemory::record.  Locations of the previous incarnation that are not   *)
(* written any more are removed before the writes are inserted.            *)
(***************************************************************************)
BeginRecord(th) ==
  LET t == ver[th].tx_idx
  IN  /\ ReadsDone(th)
      /\ Affordable(txs[t], work[th].seen)
      /\ ~LocationsLocked(t)
      /\ SetReadSet(t, work[th].reads)
      /\ Set(th, [work[th] EXCEPT !.stage = "record",
                    !.todo = DOMAIN WriteSet(txs[t], work[th].seen)])
      /\ UNCHANGED <<vars, data, txs, outcome, execution_results>>

Stale(th) == locations[ver[th].tx_idx].write
               \ DOMAIN WriteSet(txs[ver[th].tx_idx], work[th].seen)

RecordRemove(th) ==
  /\ work[th].stage = "record"
  /\ \E l \in Stale(th) : RemoveWrite(ver[th].tx_idx, l)
  /\ UNCHANGED <<vars, txs, outcome, work, execution_results>>

RecordInsert(th) ==
  LET t == ver[th].tx_idx
  IN  /\ work[th].stage = "record"
      /\ Stale(th) = {}
      /\ \E l \in work[th].todo :
           /\ InsertWrite(t, ver[th].tx_incarnation, l,
                          WriteSet(txs[t], work[th].seen)[l])
           /\ Set(th, [work[th] EXCEPT
                         !.stage = IF work[th].todo = {l} THEN "recorded" ELSE @,
                         !.todo = @ \ {l},
                         !.wrote = @ \/ l \notin locations[t].write])
      /\ UNCHANGED <<vars, txs, outcome, execution_results>>

\* The result is stored and finish_execution takes the status mutex.
RecordDone(th) ==
  LET t == ver[th].tx_idx
  IN  /\ work[th].stage = "recorded"
      /\ execution_results' = [execution_results EXCEPT ![t] = work[th].seen]
      /\ FinishExecution(th, ExecFlags(t, FALSE, work[th].wrote))
      /\ Set(th, Idle)
      /\ UNCHANGED <<mvVars, txs, outcome>>

(***************************************************************************)
(* The error arms of the executor's try_execute.                           *)
(***************************************************************************)
HandleBlocking(th) ==
  /\ work[th].stage = "blocking"
  /\ LockBlocking(th, work[th].on) \/ AddDependencyLate(th, work[th].on)
  /\ Set(th, Idle)
  /\ UNCHANGED <<mvVars, txs, outcome, execution_results>>

HandleRetry(th) ==
  /\ work[th].stage = "retry"
  /\ ExecuteAgain(th)
  /\ Set(th, Idle)
  /\ UNCHANGED <<mvVars, txs, outcome, execution_results>>

HandleAbort(th) ==
  /\ \/ work[th].stage = "fallback" /\ AbortScheduler(th, "FallbackToSequential")
     \/ work[th].stage = "error" /\ AbortScheduler(th, "ExecutionError")
  /\ Set(th, Idle)
  /\ UNCHANGED <<mvVars, txs, outcome, execution_results>>

-----------------------------------------------------------------------------
(***************************************************************************)
(* try_validate: validate_read_locations looks at one location per step    *)
(* and stops at the first that changed; a successful abort converts the    *)
(* writes to ESTIMATEs before the transaction becomes ready.               *)
(***************************************************************************)
BeginValidate(th) ==
  LET t == ver[th].tx_idx
  IN  /\ pc[th] = "validate" /\ work[th].stage = "idle"
      /\ ~LocationsLocked(t)
      /\ Set(th, [Idle EXCEPT !.stage = "check", !.todo = DOMAIN locations[t].read])
      /\ UNCHANGED <<vars, mvVars, txs, outcome, execution_results>>

CheckLocation(th) ==
  LET t == ver[th].tx_idx
  IN  /\ work[th].stage = "check"
      /\ \E l \in work[th].todo :
           IF OriginsValid(l, t, locations[t].read[l])
           THEN Set(th, [work[th] EXCEPT !.todo = @ \ {l}]) /\ UNCHANGED vars
           ELSE Set(th, Idle) /\ ReadSetChecked(th, FALSE)
      /\ UNCHANGED <<mvVars, txs, outcome, execution_results>>

ValidateDone(th) ==
  /\ work[th].stage = "check"
  /\ work[th].todo = {}
  /\ ReadSetChecked(th, TRUE)
  /\ Set(th, Idle)
  /\ UNCHANGED <<mvVars, txs, outcome, execution_results>>

BeginConvert(th) ==
  LET t == ver[th].tx_idx
  IN  /\ pc[th] = "estimate" /\ work[th].stage = "idle"
      /\ ~LocationsLocked(t)
      /\ Set(th, [Idle EXCEPT !.stage = "convert", !.todo = locations[t].write])
      /\ UNCHANGED <<vars, mvVars, txs, outcome, execution_results>>

ConvertWrite(th) ==
  /\ work[th].stage = "convert"
  /\ \E l \in work[th].todo :
       /\ MarkEstimate(ver[th].tx_idx, l)
       /\ Set(th, IF work[th].todo = {l} THEN [Idle EXCEPT !.stage = "converted"]
                  ELSE [work[th] EXCEPT !.todo = @ \ {l}])
  /\ UNCHANGED <<vars, txs, outcome, execution_results>>

ConvertDone(th) ==
  /\ work[th].stage = "converted"
  /\ RescheduleAborted(th)
  /\ Set(th, Idle)
  /\ UNCHANGED <<mvVars, txs, outcome, execution_results>>

-----------------------------------------------------------------------------
(***************************************************************************)
(* The end of `execute', once the workers have joined: fall back to        *)
(* execute_sequential, return the error, or collect the results and        *)
(* evaluate the lazy locations.                                            *)
(***************************************************************************)
Collect ==
  /\ Joined
  /\ outcome = Running
  /\ outcome' = CASE abort_reason = "FallbackToSequential" -> SerialOutcome
                  [] abort_reason = "ExecutionError" -> Err
                  [] abort_reason = "none" ->
                       Ok([i \in 1 .. block_size |-> execution_results[i - 1]],
                          [l \in Loc |-> Evaluate(l)])
  /\ UNCHANGED <<vars, mvVars, txs, work, execution_results>>

\* The steps of the scheduler that the memory takes no part in.
SchedulerOnly(th) ==
  /\ pc[th] # "estimate" /\ SchedulerStep(th)
  /\ UNCHANGED <<mvVars, txs, outcome, work, execution_results>>

Worker(th) ==
  \/ SchedulerOnly(th)
  \/ ReadLocation(th)
  \/ LackOfFund(th)
  \/ BeginRecord(th)
  \/ RecordRemove(th)
  \/ RecordInsert(th)
  \/ RecordDone(th)
  \/ HandleBlocking(th)
  \/ HandleRetry(th)
  \/ HandleAbort(th)
  \/ BeginValidate(th)
  \/ CheckLocation(th)
  \/ ValidateDone(th)
  \/ BeginConvert(th)
  \/ ConvertWrite(th)
  \/ ConvertDone(th)

Returned == outcome # Running /\ UNCHANGED peVars

PNext == (\E th \in Threads : Worker(th)) \/ Collect \/ Returned

PSpec == PInit /\ [][PNext]_peVars

\* The operating system runs every worker and the joining thread.
PFairSpec ==
  PSpec /\ (\A th \in Threads : WF_peVars(Worker(th))) /\ WF_peVars(Collect)

-----------------------------------------------------------------------------
(***************************************************************************)
(* The memory holds entries of transactions of the block only.             *)
(***************************************************************************)
PTypeOK ==
  /\ TypeOK
  /\ \A l \in Loc : DOMAIN data[l] \subseteq Tx
  /\ \A t \in Tx : /\ DOMAIN locations[t].read \subseteq Loc
                   /\ locations[t].write \subseteq Loc

(***************************************************************************)
(* When the workers have joined without an abort, every read set is valid  *)
(* against the final memory and no ESTIMATE is left, so the results are    *)
(* those of the final memory and the `unreachable!' of the lazy evaluation *)
(* is unreachable.                                                         *)
(***************************************************************************)
FinalReadsValid ==
  Joined /\ abort_reason = "none" =>
    EntriesDefinite /\ \A t \in Tx : ReadSetValid(t)

(***************************************************************************)
(* The data an ESTIMATE or an entry belongs to is in the write set of its  *)
(* transaction, except the initial estimates of transactions that have not *)
(* recorded yet: an abort finds every entry it has to mark.                *)
(***************************************************************************)
EntriesOwned ==
  \A l \in Loc : \A k \in DOMAIN data[l] :
    \/ l \in locations[k].write
    \/ l = beneficiary /\ data[l][k] = Estimate

(***************************************************************************)
(* The composition takes only steps the scheduler's specification allows,  *)
(* so the theorems about Scheduler.tla hold of it.                         *)
(***************************************************************************)
SchedulerContract == Spec

(***************************************************************************)
(* The parallel executor implements the serial one: whatever the workers   *)
(* interleave, execute returns what execute_sequential returns.  A block   *)
(* is executed in the one step in which `execute' collects the results;    *)
(* every other step of the workers is invisible.                           *)
(***************************************************************************)
SerialEquivalence == BlockSpec

(***************************************************************************)
(* execute returns, and what it returns is the outcome of                  *)
(* execute_sequential: "deterministically consistent with serial           *)
(* execution" (crates/pe/README.md).                                       *)
(***************************************************************************)
ReturnsSerialOutcome == <>(outcome # Running /\ outcome = SerialOutcome)

(***************************************************************************)
(* The comment on validate_read_locations: a validation of an incarnation  *)
(* that has been aborted meanwhile "will have no effect regardless of the  *)
(* outcome", it leaves the status of the later incarnation alone.          *)
(***************************************************************************)
StaleValidationNoEffect ==
  [][\A th \in Threads :
       LET t == ver[th].tx_idx
       IN  /\ pc[th] \in {"try_abort", "confirm"} /\ pc'[th] # pc[th]
           /\ ver[th].tx_incarnation < tx_status[t].incarnation
           => tx_status'[t] = tx_status[t]]_peVars
=============================================================================
