------------------------ MODULE ParallelBlockExecutor -------------------------
(***************************************************************************)
(* The block executors of the chain crate (crates/chain/src/provider.rs    *)
(* and op_provider.rs), between the node and the parallel executor: apply  *)
(* the changes that precede the block, run its transactions in parallel,   *)
(* commit their states one by one, calculate the requests (Ethereum), and  *)
(* apply the changes that follow the block.                                *)
(*                                                                         *)
(* The state database is the sequence of the changes made to it.  The      *)
(* parallel executor's results are those ParallelExecutor.tla shows it     *)
(* returns; the one of Optimism returns none unless the block is empty     *)
(* (OpExecutor.tla).  A step of the node's libraries may fail.             *)
(***************************************************************************)
EXTENDS Block, Sequences, SequencesExt

CONSTANT Gas  \* the amounts of gas a transaction may use

ASSUME GasAssumption == Gas \subseteq Nat

VARIABLES
  block,           \* the input: gas of its transactions, chain and forks
  step,            \* the call execute_block is in
  db,              \* the changes made to the state, in order
  results,         \* what the parallel executor returned and is not yet committed
  receipts,        \* cumulative_gas_used of each receipt
  total_gas_used,
  outcome

blockVars == <<block, step, db, results, receipts, total_gas_used, outcome>>

BlockInputs ==
  [gas : [Tx -> Gas] \cup {<<>>}, optimism : BOOLEAN, prague : BOOLEAN, dao : BOOLEAN]

\* The transactions of the block: all of Tx, or none.
TxOfBlock == DOMAIN block.gas
size == IF block.gas = <<>> THEN 0 ELSE block_size

BlockExecutorInit ==
  /\ block \in BlockInputs
  /\ step = "pre_execution"
  /\ db = <<>>
  /\ results = <<>>
  /\ receipts = <<>>
  /\ total_gas_used = 0
  /\ outcome = "Running"

-----------------------------------------------------------------------------
\* The changes to the state: of the system, or of a transaction.
System(s) == <<s>>
OfTx(t) == <<"tx", t>>

\* Variant: the error is dropped.
FailSilent(s) ==
  /\ step = s
  /\ step' = "returned"
  /\ UNCHANGED <<block, db, results, receipts, total_gas_used, outcome>>

\* A `?': execute_block returns the error, and the changes stay in the State.
Fail(s) ==
  /\ step = s
  /\ step' = "returned" /\ outcome' = "Err"
  /\ UNCHANGED <<block, db, results, receipts, total_gas_used>>

ApplyPreExecutionChanges ==
  /\ step = "pre_execution"
  /\ db' = Append(db, System("pre_execution"))
  /\ step' = "execute"
  /\ UNCHANGED <<block, results, receipts, total_gas_used, outcome>>

\* Variant: the gas of each transaction alone.
CumulativeAlone(acc, gas) == Append(acc, gas)

\* The loop over execution_results in ParallelExecutor::execute.
Cumulative(acc, gas) == Append(acc, gas + IF acc = <<>> THEN 0 ELSE Last(acc))

Execute ==
  LET sums == FoldLeft(Cumulative, <<>>, [i \in 1 .. size |-> block.gas[i - 1]])
  IN  /\ step = "execute" /\ (block.optimism => size = 0)
      /\ results' = [i \in 1 .. size |-> [tx |-> i - 1, gas |-> sums[i]]]
      /\ step' = "commit"
      /\ UNCHANGED <<block, db, receipts, total_gas_used, outcome>>

\* OpParallelExecutor::execute on a block with transactions: an error (Failure) or a
\* panic of thread::scope.
OpExecutePanics ==
  /\ step = "execute" /\ block.optimism /\ size > 0
  /\ step' = "returned" /\ outcome' = "Panic"
  /\ UNCHANGED <<block, db, results, receipts, total_gas_used>>

\* Variant: an error between two commits.
CommitFailing ==
  /\ step = "commit"
  /\ results # <<>>
  /\ \/ /\ db' = Append(db, OfTx(Head(results).tx))
        /\ results' = Tail(results)
        /\ receipts' = Append(receipts, Head(results).gas)
        /\ total_gas_used' = total_gas_used + Head(results).gas
        /\ UNCHANGED <<step, outcome>>
     \/ /\ step' = "returned" /\ outcome' = "Err"
        /\ UNCHANGED <<db, results, receipts, total_gas_used>>
  /\ UNCHANGED block

\* The closure over the results: the state is committed, then the receipt is made.
Commit ==
  LET r == Head(results)
  IN  /\ step = "commit"
      /\ results # <<>>
      /\ db' = Append(db, OfTx(r.tx))
      /\ results' = Tail(results)
      /\ total_gas_used' = total_gas_used + r.gas
      /\ receipts' = Append(receipts, r.gas)
      /\ UNCHANGED <<block, step, outcome>>

Committed ==
  /\ step = "commit"
  /\ results = <<>>
  /\ step' = IF block.optimism THEN "post_execution" ELSE "calc_requests"
  /\ UNCHANGED <<block, db, results, receipts, total_gas_used, outcome>>

\* Variant: the balances are incremented before the system calls.
CalcRequestsLate ==
  /\ step = "calc_requests"
  /\ db' = IF block.prague THEN db \o <<System("increment_balances"), System("calc_requests")>> ELSE db
  /\ step' = "post_execution"
  /\ UNCHANGED <<block, results, receipts, total_gas_used, outcome>>

\* From Prague on the system calls that collect requests change the state.
CalcRequests ==
  /\ step = "calc_requests"
  /\ db' = IF block.prague THEN Append(db, System("calc_requests")) ELSE db
  /\ step' = "post_execution"
  /\ UNCHANGED <<block, results, receipts, total_gas_used, outcome>>

\* On Ethereum, in the block of the DAO fork, post_execution first drains accounts.
DrainBalances ==
  /\ step = "post_execution"
  /\ block.dao /\ ~block.optimism
  /\ db' = Append(db, System("drain_balances"))
  /\ step' = "increment_balances"
  /\ UNCHANGED <<block, results, receipts, total_gas_used, outcome>>

IncrementBalances ==
  /\ \/ step = "post_execution" /\ (block.optimism \/ ~block.dao)
     \/ step = "increment_balances"
  /\ db' = Append(db, System("increment_balances"))
  /\ step' = "returned" /\ outcome' = "Ok"
  /\ UNCHANGED <<block, results, receipts, total_gas_used>>

\* Only from Prague on can calc_requests fail.
Failure ==
  \/ Fail("pre_execution")
  \/ Fail("execute")
  \/ block.prague /\ Fail("calc_requests")
  \/ Fail("post_execution")
  \/ Fail("increment_balances")

Returned == step = "returned" /\ UNCHANGED blockVars

BlockExecutorNext ==
  \/ ApplyPreExecutionChanges \/ Execute \/ OpExecutePanics
  \/ Commit \/ Committed
  \/ CalcRequests \/ DrainBalances \/ IncrementBalances \/ Failure \/ Returned

BlockExecutorSpec == BlockExecutorInit /\ [][BlockExecutorNext]_blockVars

-----------------------------------------------------------------------------
(***************************************************************************)
(* The types.                                                              *)
(***************************************************************************)
TypeOK ==
  /\ step \in {"pre_execution", "execute", "commit", "calc_requests",
               "post_execution", "increment_balances", "returned"}
  /\ Len(db) <= block_size + 4
  /\ receipts \in Seq(Nat) /\ total_gas_used \in Nat
  /\ outcome \in {"Running", "Ok", "Err", "Panic"}
  /\ outcome = "Running" <=> step # "returned"

\* What the serial block executor does to the state, in order.
Pipeline ==
  <<System("pre_execution")>> \o [i \in 1 .. size |-> OfTx(i - 1)]
    \o (IF block.prague /\ ~block.optimism THEN <<System("calc_requests")>> ELSE <<>>)
    \o (IF block.dao /\ ~block.optimism THEN <<System("drain_balances")>> ELSE <<>>)
    \o <<System("increment_balances")>>

(***************************************************************************)
(* The changes reach the state in the order of serial block execution, on  *)
(* every path, and a block that is Ok made all of them.                    *)
(***************************************************************************)
ChangesInOrder ==
  /\ IsPrefix(db, Pipeline)
  /\ outcome = "Ok" => db = Pipeline

(***************************************************************************)
(* execute_block ends with all the transactions committed or with none:    *)
(* an error or a panic of the parallel executor leaves no transaction in   *)
(* the state, and nothing ends the closure that commits them half way.     *)
(***************************************************************************)
AllOrNoTransactions ==
  outcome # "Running" =>
    ToSet(db) \cap {OfTx(t) : t \in Tx} \in {{}, {OfTx(t) : t \in TxOfBlock}}

GasUpTo(i) == FoldLeft(LAMBDA acc, k : acc + block.gas[k], 0, [j \in 1 .. i |-> j - 1])

(***************************************************************************)
(* The receipts of a block carry the gas used up to and including their    *)
(* transaction, one receipt per committed transaction.                     *)
(***************************************************************************)
ReceiptsCumulative ==
  /\ \A i \in 1 .. Len(receipts) : receipts[i] = GasUpTo(i)
  /\ outcome = "Ok" => Len(receipts) = size

(***************************************************************************)
(* "the final state and outputs are deterministically consistent with      *)
(* serial execution" (crates/pe/README.md): the gas_used of the block is   *)
(* the gas its transactions used.                                          *)
(***************************************************************************)
GasUsedOfBlock == outcome = "Ok" => total_gas_used = GasUpTo(size)
=============================================================================
