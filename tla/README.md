# A TLA+ model of metis-sdk

This directory holds TLA+ specifications of the parallel execution engine of
metis-sdk and of the parts around it, TLC configurations that check them on
small instances, and proofs that TLAPS checks for every instance.
`PROJECT.json` lists components, runs, mutants, hazards, findings and theorems,
and maps every definition to the lines it models.

## The system

`crates/pe` executes the transactions of a block in parallel (Block-STM) and
promises what serial execution returns. Worker threads take tasks from a
**scheduler**: execute an incarnation of a transaction, or validate what it
read. Executions read from and write to a **multi-version memory**, one entry
per location and transaction. A validation that fails aborts the incarnation,
turns its writes into estimates, and schedules it again. When no task is left
the threads join, and the **executor** collects the results, evaluates the
**lazy updates** of balances and nonces, or falls back to **sequential**
execution. The **Optimism executor** is a second copy of this machinery with
its own VM. `crates/chain` wraps both in the **block executors** of the node;
`crates/vm` looks up and compiles native code in the background for the
contracts that are called (the **compile worker**). The programs of
`crates/tools` record blocks as **fixtures** and run test vectors.

| Component | State | Operations | Interacts with | What is hard |
|---|---|---|---|---|
| Scheduler (`pe/src/scheduler.rs`) | status and incarnation per transaction, dependency lists, `execution_idx`, `validation_idx`, `min_validation_idx`, `num_validated`, `aborted` | `next_task`, `try_execute`, `add_dependency`, `finish_execution`, `try_validation_abort`, `finish_validation`, `abort` | the workers | separate atomics read one by one; nested locks; tasks that change hands; termination |
| Multi-version memory (`pe/src/mv_memory.rs`) | entries per location, last read and write set per transaction, lazy addresses | `record`, `validate_read_locations`, `convert_writes_to_estimates` | reads of the VM, validation | not atomic across locations; estimates; removed entries |
| VM reads and writes (`pe/src/vm.rs`) | read set, write set, mode of the incarnation | `basic`, `storage`, `get_code_hash`, `execute`, `apply_rewards` | memory, database | reads that change under way; lazy sums; blocking on lack of funds |
| Executor (`pe/src/executor.rs`) | abort reason and result slots, which survive a block | worker loop, `try_execute`, `try_validate`, collection and lazy evaluation | all of the above | abort and fallback races; join; what an aborted block leaves behind |
| I257 (`primitives/src/i257.rs`) | none | `add`, `sub` | lazy sums | two zeros, saturation |
| Block executors (`chain/src/provider.rs`, `op_provider.rs`) | the node's state, receipts, gas | `execute_block` and its steps | executor, node | failures between commits, order of changes |
| Compile worker (`vm/src/compiler.rs`, `pool.rs`) | cache, store on disk, semaphore, mutex, tasks | `frame_call`, `get_function`, `spawn`, `block`, compile tasks | executor's VM | duplicate tasks, files seen half-written, crash |
| Optimism executor (`pe/src/op_executor.rs`, `op_vm.rs`) | as the executor | `execute`, three rewards, fallback | VM, memory, scheduler | transactions that reach the VM without their envelope |
| Block fixtures (`tools/bins/blockfetch`, `blocktest`) | files in `data/blocks` | fetch, replay, write; read and execute | a node, both executors | failures between the requests; files truncated meanwhile; what a conversion drops |
| Test vectors (`tools/bins/ethertest`, `eelstest`) | state per suite, verdicts | files, suites, hard forks, cases | sequential and parallel executors | a thread pool that drops jobs; early returns |

## Modules

| Module | What it models |
|---|---|
| `Block` | the transaction indices of a block |
| `Scheduler` | the scheduler, one action per atomic operation or critical section of a worker |
| `Locations`, `MvMemory` | locations and values; reads, recording, validation and estimates, one map operation at a time |
| `BlockExecution` | abstract specification: `execute` returns what `execute_sequential` returns, in one step |
| `ParallelExecutor` | extends `Scheduler`, `MvMemory` and `BlockExecution`: the workers of `execute` |
| `I257` | signed 257-bit arithmetic |
| `LazyUpdates` | pure operators: lazy entries, what a read sums up, write sets, rewards, the evaluation of a location |
| `ExecutorBlocks` | several blocks on one executor: result slots and abort reason; lazy and strict transfers, rewards and the final evaluation on balances and nonces |
| `OpExecutor` | the workers of one call of the Optimism executor |
| `CompileWorker` | lookups and compile tasks |
| `ParallelBlockExecutor` | the Ethereum and Optimism block executors |
| `BlockFixtures` | blockfetch and blocktest |
| `StateTests` | ethertest and eelstest |
| `Programs` | the node or one of the tools: the three modules above side by side |
| `BlockSets`, `ExecutorInvariants`, `ValueInvariants` | definitions the proofs share: facts about finite sets of transactions; the inductive invariants of the workers and the memory, and of the amounts they read and write |
| `SchedulerProofs` | theorems about `Scheduler` |
| `StepProofs` | lemmas: what each step of `ParallelExecutor` does to the threads, the workers and the memory |
| `MemoryProofs` | lemmas: the steps are steps of `Scheduler`; what the memory holds; who will validate a stale read set |
| `ValueProofs` | lemmas: what was read are the amounts of the versions that are named as origins |
| `SerialProofs` | lemmas: folds, what a read returns, and that what is collected is the outcome of the serial execution |
| `ExecutorProofs` | theorems about `ParallelExecutor`, and those about `Scheduler` that count |
| `CompileProofs`, `SlotProofs` | theorems about `CompileWorker`; about `ExecutorBlocks` and `I257` |
| `MC*` | instances for TLC |

**Scheduler.** A worker's `pc` names the next atomic operation of the code it
is in, `ver` its task, `idx` an index it has loaded or works on, `flags` what its
execution reported. A lock that is held over several operations (the status lock in
`finish_execution` and `add_dependency`) is a condition on the `pc` of the
holder. What executing and validating find is a choice here and is decided by
`ParallelExecutor`. The indices saturate at `block_size`, because the code
only compares them with it; `MaxIncarnation` bounds the incarnations that may
fail when `Scheduler` runs alone, and is `NoBound` under `ParallelExecutor`,
where the memory decides. A flag set contains `NeedValidation` always, as in the
code, where that flag is `0`.

**ParallelExecutor.** A transaction is a small program: locations to read, the
amount it needs, and what it writes if the sum of its reads is zero or not.
Reading, recording, validating and marking estimates proceed one location at a
time, so other workers see intermediate memory. Values are absolute or lazy
(an addition); a code location makes a read of a destroyed contract fall back
to sequential execution. `Collect` is the code after the join.
`SerialEquivalence` is the refinement of the abstract specification, whose
variables `txs` and `outcome` are those of `ParallelExecutor`: all the steps of
the workers are stutters of it, and `Collect` is its one step.
`SchedulerContract` is the refinement of `Scheduler`, which carries the
theorems over.

**ExecutorBlocks.** One step is the last incarnation of one transaction, in
block order: `FinalReadsValid` of `ParallelExecutor` shows that the reads of
the last incarnations are those of the last incarnations below them. Which
transfers are lazy depends on what other workers had recorded; `MayBeLazy` and
`MayBeStrict` allow every mixture the code can produce. `Begin` is the start of
`execute`, which extends the result slots; the executions fill them;
`AbortWith` is a worker that found an error or a deletion while others may have
filled slots above it; `Collect` takes the results and evaluates the lazy
addresses; `Return` hands them over and drops the memory (at once, although the
dropper thread may take its time: nobody reads it again). Transactions are
transfers, creations of contracts that destroy themselves, and transactions
whose type is unknown. The balances of revm's checks (`Payable`) are external.
`Stuck` is an execution that is retried without end. A sender that cannot pay
is an error if its transaction is the first (`RejectStrict`) and `Stuck`
otherwise, the two cases of `LackOfFund` in `ParallelExecutor`, whose programs
have no nonces and no types: a nonce that is too low and an unknown type, which
are errors of any transaction, are modelled only here, on final reads. Errors
from reads that a later incarnation would correct are not modelled.

**OpExecutor.** `OpVm::execute` wraps the `TxEnv` of every transaction with
`OpTransaction::new` (`op_vm.rs:441`), which carries no envelope, so a
transaction that gets through its interpretation panics in `apply_rewards`
(`op_vm.rs:635`). A deposit pays no rewards and is recorded, and then fails on
its type. The module models the workers of one call up to there: tasks, aborts,
dependencies that nobody resumes, the fallback and the join. No block with a
transaction returns results; the rewards, the slots and the evaluation at the
end of `op_executor.rs` are therefore not modelled. `op_provider.rs` makes an
executor for each block, so one call is all an executor sees.

**CompileWorker.** The compiler, the linker, the loader and the cache are
external: a link makes the library appear before it is complete, only a complete
library loads, and the cache keeps what it likes within its capacity. That a
linker that fails removes its output is an assumption of its own
(`LinkerLeaves`; GNU ld and lld unlink it): `compiler.rs:138-141` only returns
the error, so with a linker that kept its output `OrphansBounded` would also have
to count failed links. A crash keeps the store only. The mode, AOT or JIT, is
chosen in the initial state.

**ParallelBlockExecutor.** The state is the sequence of the changes made to
it; the chain and its forks are part of the input. The block of Optimism is
executed only if it is empty and fails or panics otherwise, as `OpExecutor`
shows. Every step that the node's
libraries perform may fail, before it has changed anything: a system call that
fails half-way is not distinguished.

**BlockFixtures.** blockfetch is a process that may fail between any two
requests; blocktest may run at any moment, also while a file is truncated. A
transaction is what it reads, writes, destroys and asks for, its fees, its
blobs and authorizations, and what it emits; the value of an account carries all
that the transaction that wrote it observed. The chain executes a block with the
system calls before it, its own hard fork and the whole transaction. blockfetch
replays it without system calls, with the last hard fork that `get_block_spec`
knows, without random value and blob fee, and without blobs and authorizations
(`tx_into_env`). blocktest runs what was recorded, with the random value and
without the priority fee (`TxEnvOf`), and compares the logs only; the EVM may
reject a transaction whose sender is not what it was in the replay. `Replayable`
says of which blocks the replay leaves nothing out; only of these the logs of a
fixture and of a test that passes are claimed to be the chain's, and nothing is
claimed of balances. The chain and the requests are external.

**StateTests.** A case carries what its checks would find; the module models
the control around them: what is skipped, which exceptions end a case, a hard
fork or a file, what the pool drops once a job has failed, and which state the
transactions of a suite run on. In eelstest a post state that is given by its hash
is compared with nothing (`eelstest/main.rs:643-653`), so such a case passes
once it is executed.

## Assumptions

Atomics are sequentially consistent. The code uses `Ordering::Relaxed`
throughout; the statuses are protected by mutexes, but the indices and the
counter are not, so behaviours that only a weak memory allows are outside
these models. Maps of the memory are linearisable per location. The EVM, the
database, the Rust runtime and the LLVM tools are external.

## Runs

| Run | Instance | Shows |
|---|---|---|
| `scheduler` | 2 workers, 3 transactions, 1 failure each, fair (270 thousand states) | types, exact counter, exclusive execution, waiting dependents, one resumer per aborted transaction, no lost execution or validation, complete join, status diagram; every worker leaves |
| `parallel_executor` | 2 workers, blocks with conflicts, late funds, deployment, self-destruction (164 thousand) | final reads valid, entries owned, refinement of serial execution and of the scheduler |
| `parallel_executor_liveness` | 2 workers, fair | `execute` returns the serial outcome |
| `executor_blocks` | three calls on one executor: first any of 55,296 blocks of 3 transfers or a mixed block, then mixed blocks of up to 3 transactions; 5 accounts (472 thousand) | reads and results are those of the serial ledger; results and outcome are those of the block alone |
| `compile_worker` | 1 caller, 3 tasks, 2 permits, 2 contracts and the zero hash, 1 crash, both modes, fair (215 thousand) | permits balanced, object files kept, incomplete libraries only from crashes; what is looked up gets compiled or fails |
| `programs` | the node: 3 transactions, both chains, every failure; the tools: 5 blocks, 2 fetches, 2 tests, runs of up to 2 files (52 thousand) | changes in order, all transactions or none, cumulative receipts; a complete fixture holds the state before the block and, where the replay leaves nothing out, the logs of the chain; a test that passes shows these logs and one that fails has a reason; verdicts independent of the pool |

*Bounds.* Two workers and three transactions contain the races the hazards
name: a worker that executes or aborts, one that reads, validates or lowers an
index meanwhile, and a chain of a blocking transaction, a dependent and a
reader of the dependent. A failure per transaction allows a validation to be
overtaken by a later incarnation. The theorems remove these bounds for the
scheduler and the executor. The transfers use amounts around the fees, so that senders run out,
are refilled inside the block, and reuse nonces. `U256Max` is 63, above every
sum that occurs, as 2^256 is above the supply of a chain; the first
transaction's nonce is fixed to 0. A second call of the executor is what can
meet slots and an abort reason of an earlier one, and a third one those of an
earlier one that met some (`OwnResults` is proved for any number). One caller is enough for the compile
worker, because a call ends where its task begins, and three tasks let two
compile one contract while a third does another. `HashWindow` is 2 instead of
256. Each of the five blocks of `programs` lacks something else in its replay or its
test: nothing, a visible and an invisible priority fee, block hashes, system
calls with blobs and authorizations, the random value. Larger instances were run once and passed: 2 failures for each
transaction of the scheduler, 3 workers on one block of `ParallelExecutor`
(2.5 million states), and two callers with 3 tasks of the compile worker.
The symmetric sets are the threads, which no definition tells apart; runs with
liveness properties use no symmetry. Deadlock checking is off for the compile
worker, whose callers need not call again, and for `op_executor`, whose one call
ends, and on everywhere else: a specification that has finished stutters explicitly.

*Fairness.* In `ParallelExecutor`, weak fairness of each worker and of the
joining thread: threads of the operating system run, and every lock that is
taken is released by a step of its holder. In `Scheduler` alone, where the
outcome of an execution is a choice, fairness also says that `vm.execute` does
not fail the same incarnation forever. That is an assumption about the VM, not
about scheduling, and the code does not always meet it: the run `unaffordable`
is a block on which it fails. `Termination` therefore shows that the
scheduler adds no livelock of its own, and `parallel_executor_liveness`, which
does not make this assumption, shows it for the blocks of its instance. For the
compile worker, weak fairness of each caller inside a call and of each task of
the runtime; nobody has to call. `CalledIsCompiled` promises nothing after a
crash, when an incomplete library may stay in the store.

### Runs that are violated

Each states what the repository says of the program and what the code does
otherwise; `PROJECT.json` quotes the lines.

| Run | Statement | What happens |
|---|---|---|
| `stale_validation` | a validation of an aborted incarnation has no effect | it can confirm or abort the next incarnation; results stay serial |
| `unaffordable` | outputs are those of serial execution | a transaction that cannot be paid for is retried without end; serial execution returns an error |
| `absent_recipient` | after a transfer of nothing an absent account stays absent | a later read finds an empty account if the transfer was lazy |
| `op_executor` | outputs are those of serial execution | no block with a transaction returns results on Optimism: a plain transaction panics for want of its envelope, a deposit is an error |
| `fetched_hashes` | blockfetch stores the hashes of the previous blocks | it stores the hash of the block itself under each of their numbers |
| `block_gas_used` | the gas of a block is that of serial execution | cumulative amounts are summed |

Four smaller disagreements are plain from the text and have no run:
`crates/pe/src/lib.rs:18` and `scheduler.rs:202` say that the first transaction
is not validated, but `NeedValidation` is the bit set 0, which every set
contains, so it is; and `crates/vm/src/pool.rs:33` describes a threshold that
nothing reads, so a contract is compiled on the first miss;
`tools/bins/eelstest/main.rs:244-246` says that `assert_db` returns an error,
but it panics; and `ethertest/main.rs:445` returns from a whole hard fork when
one case has an invalid transaction type, so that the cases after it are not
executed. `ExitVerdict` describes this and does not object to it.

## Proofs

`SchedulerProofs` proves, for every set of threads, every positive block size
and every bound on the failures, that `TypeOK`, `ExclusiveExecution`,
`DependentsWait` and `AbortedHasResumer` are invariants and that `StatusDiagram`
holds. The inductive invariant is `IInv`:

- `TypeInv`, the types together with the range of `idx`, which bounds the
  operands of the `fetch_min` operations;
- `OwnInv`, the ownership argument: a thread at an execution label owns its
  transaction, which is `Executing` with its incarnation; an `Aborted`
  transaction is in exactly one dependency list or in the hands of exactly one
  aborting thread; and `LockInv`, which says who holds the status locks and
  what stays true while they are held. None of them is inductive alone: that a
  dependent is resumed once needs that nobody else aborts it, which needs that
  its last executor has let go of it.

Actions that change who owns a transaction have a lemma each; the others fall
under `QuietStep` and `StayStep`; `OwnStep` combines them. What a step leaves
alone is argued once per conjunct, in the frame lemmas `ExclusiveKept`,
`DependentsKept`, `ResumerMoved` (with `ResumerKept`) and `LockKept`.
`NumValidatedExact` rests on the fact that the counter moves in the critical
section that moves the status (`CountStep`).

It adds `NoLostExecution` and `NoLostValidation` on top of `IInv`: a
ready (executed) transaction stays at or above the index, or the thread that
took it, or is about to lower the index, carries it. For validations the
invariant is strengthened (`ValidationInv`). `finish_execution` compares
`validation_idx` before it sets the status, so another thread may take the index
past the transaction in between; that thread then waits at the status mutex and
will see the new status (`Peeked`). `ValidationInv` also shows that no thread
reaches the label `lower_min`: the branch `tx_idx < min_validation_idx`
(`scheduler.rs:364-369`) is modelled but dead, because `NeedValidation` is 0, so
`min_validation_idx` is always lowered to the transaction first.

`SchedulerProofs` also proves what the join needs (`JoinInv`): a thread that has
left, or is about to, had seen both indices at the end of the block, and since then
only a thread that is still at work lowered one; the reason of an abort is set
before the thread that aborted leaves; and a chain of dependents ends in a
transaction that somebody executes. `JoinedComplete` follows: when the last
worker leaves without an abort, everything is `Validated`.

`ExecutorProofs` holds the theorems about `ParallelExecutor`, for every block
that `BlocksAssumption` admits, every number of workers and every interleaving:

- `ImplementsScheduler` (`SchedulerContract`): what reads, records and
  validations find in the memory leads only to steps that `Scheduler` allows.
  The invariant is `PInv` (`MemoryProofs`): which stage a worker is in at which
  label, that the mutex of a transaction's locations is held once, and that a
  blocked read names a lower transaction. All theorems about `Scheduler` carry
  over; `ExecutorComplete` says so of `JoinedComplete`.
- `EntriesAlwaysOwned` (`EntriesOwned`), from the same invariant.
- `ReadsValidWhenJoined` (`FinalReadsValid`): what `execute` collects was read
  from what it collects. The invariant is `ReadInv`: `EntryInv` says of each
  transaction which of its entries are estimates, from its status and the stage
  of the worker that records or converts it; `StaleReadsDue`
  says that a finished transaction whose read set is not valid any more is at or
  above `validation_idx`, in the hands of a validation that has not passed the
  stale location, or above a transaction whose worker is about to lower the index
  to it. A single location suffices for the induction, because
  an entry that is written, removed or marked changes the origins at its own
  location only, and whoever changes an entry of a finished transaction lowers
  the index afterwards. When all have left nothing is due, so nothing is stale.
- `ExecutorTyped` (`PTypeOK`), from `ReadInv`.
- `ExecutorSerial` (`SerialEquivalence`): parallel execution is serial execution.
  The argument is below.

**Serial equivalence.** That the last read sets are valid says that the
*versions* a transaction named are those the memory holds. It remains that the
*amounts* it computed with are theirs, that its entries and its result follow
from these amounts, and that the whole is what one transaction after the other
computes.

- *A version is written once.* Incarnations only grow, and an execution inserts a
  location once, so a version (transaction, incarnation) stands for one value at
  a location, also after the entry became an estimate or was removed. `hist` in
  `ValueInvariants` is the value of every version, past ones included; it is
  existentially quantified and extended when an entry is inserted.
  `OriginsWritten` makes the extension harmless: nobody has seen, and no read set
  names, a version that is still to be written.
- *`ValueInv`*, the inductive invariant: the entries hold the values of their
  versions (`EntriesAre`); what a worker has seen, and what a finished execution
  recorded, are the amounts (`Amount`: lazy additions down to an absolute value
  or to the storage) of the origins it names (`WorkersSaw`, `ResultsSaw`); the
  entries are what the program writes when it sees these amounts
  (`RecordsSeen`, `ResultsWritten`); and an execution error is the verdict of the
  first transaction on the storage (`ErrorsJustified`). `ValueProofs` shows that
  each kind of step keeps it. One incarnation that reads a location twice sees
  one amount because the origins must agree.
- *Folds.* `Amount`, `Evaluate` and `SerialOutcome` are folds of the community
  modules, whose definitions choose a recursive function. `SerialProofs` shows
  that this function exists (`FoldExists`), that a sum can be taken in any order
  (`SumAnyOrder`), and what one more element does. The library's induction
  theorems have an operator as a parameter, which cannot be instantiated here; induction
  is over a *set* of natural numbers instead (`Induct`), by its least
  counterexample.
- *The end.* When the workers have joined without an abort every read set is
  valid and no estimate is left (`Collects`). By induction over the block, the
  serial state in front of transaction t is, at every location, the evaluation of the
  entries below t; a valid read of t found that amount; so t executes serially
  with the amounts it saw, and writes what its entries hold
  (`CollectedSerial`). An execution error is what the serial execution finds at
  the first transaction (`FailedSerial`), and a fallback executes serially.

These theorems have the hypothesis `MaxIncarnation = NoBound`, the value that
the configurations give: `PSpec` does not mention the bound, but `Scheduler`'s
`Spec`, which it implements, does. Facts about finite sets (`Counted`,
`Ordered`) and what the steps need of folds (`Folded`) are hypotheses of the
step lemmas, so that these do not see the library; `SerialProofs` proves them
(`CountedHolds`, `OrderedHolds`, `FoldedHolds`), and `ExecutorProofs` discharges
them.

In every proof module but `ExecutorProofs`, `USE ZenonT(40)` makes Zenon the default
prover; leaves with arithmetic name SMT, and the large ones name both in the order
they are tried.

`CompileProofs` proves `TypeOK`, `PermitsBalanced`, `ObjectKept` and
`OrphansBounded` for any callers, contracts, tasks, permits and crashes. Its
inductive invariant adds to them `MutexInv` (who is between the lock and the
unlock of the global mutex is who holds it), without which two links of one
contract could remove each other's object, and `OrphansInv`, which counts the
incomplete libraries that no task links as a set and compares its cardinality
with the crashes. Cardinalities move by the lemmas `Holding*` and `Orphans*`;
the types are split by variable and by action.

`SlotProofs` proves `ResultsOfBlock` for any number of blocks of any size:
whatever an earlier block left in the slots, a block that collects finds its
own results. `SlotsInv` says that the slots below the next transaction belong
to the current block as long as nothing aborted it, and `BlockInv` that there
are as many slots as transactions; `Collect` needs both, because it takes every
slot below the block size.

It also proves that `add` and `sub` of `I257` are integer addition and subtraction
whenever the result fits, with either representation of zero.

The assumptions on the constants are `BlockSizeAssumption` (a block has a
transaction), `MaxIncarnationAssumption`, `LocationAssumption` and
`BeneficiaryAssumption` (the code locations and the beneficiary are locations),
`BlocksAssumption` (programs read and write locations, and reward the
beneficiary), `WritesAssumption` (what they write are values, and a code hash is
never added to), `U256MaxAssumption`, `PoolAssumption` (the sizes are natural
numbers, the pool has a permit, the zero hash is a code hash), and in
`ExecutorBlocks` `FeeAssumption` (fees are natural numbers) and its own
`BlocksAssumption` (transactions are numbered from 0). The runs evaluate all of them. The proofs share the sequential consistency of
the model.

*Only model-checked*: everything under fairness (`Termination`,
`ReturnsSerialOutcome`, `CalledIsCompiled`), which TLAPS cannot prove; the other
properties that compare with a fold over the block
(`ReadsSerial`, `LazyEquivalence`, `OutcomeOfBlock`,
`ReceiptsCumulative`, `FixtureFaithful`, `PassedLogs`,
`FailureExplained`), which need induction over data; the types of
`ExecutorBlocks`, whose balances stay in range only because the supply of the
instance is bounded; and the control properties of
`ParallelBlockExecutor` and `StateTests`.

## Not modelled

- **Hooked EVM** (`crates/hook`, `hook_provider.rs`): trait implementations that
  delegate to the EVM library and keep no state of their own.
- **Task providers**: the scheduler reads `num_tasks` and never asks for a task.
- **In-memory database**: read-only maps; the stored accounts are a constant.
- **Inference precompile**: one call to an external language model under a lock.
- **blocktrace**: executes one transaction after the other and writes a trace for
  each; input and output.
- **Node binary, type aliases and re-exports**: wiring.
- **Parts of modelled components**: contract calls and blob fees next to lazy
  transfers (they read and write strictly, as `ParallelExecutor` models), what the
  Optimism executor and `op_provider.rs` would do with results, weak memory (see
  the assumptions), post states of hand-written fixtures.

## Running

    tlc -workers 2 -config MCScheduler.cfg Scheduler
    tlapm SchedulerProofs.tla
