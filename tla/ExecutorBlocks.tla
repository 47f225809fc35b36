---------------------------- MODULE ExecutorBlocks ----------------------------
(***************************************************************************)
(* One ParallelExecutor (crates/pe/src/executor.rs, vm.rs) runs several    *)
(* blocks of transfers, creations and transactions of a type it does not   *)
(* know.  The slots of results and the reason of an abort belong to the    *)
(* executor and survive a block.                                           *)
(*                                                                         *)
(* A transfer to an account that is not in the database may run lazily: it *)
(* reads nothing and records what to add and subtract.  Explicit reads add *)
(* the lazy updates below them up, and the end of `execute' evaluates      *)
(* every lazy address from the bottom of the block.                        *)
(*                                                                         *)
(* One step is the last incarnation of one transaction.  The scheduler and *)
(* the multi-version memory (ParallelExecutor.tla) make its reads those of *)
(* the last incarnations below it, so these run in block order here.  What *)
(* the order of the workers still decides is which incarnations are lazy   *)
(* (MayBeLazy, MayBeStrict), who aborts the block, and which slots are     *)
(* filled by then.                                                         *)
(***************************************************************************)
EXTENDS LazyUpdates, FiniteSets

CONSTANTS
  Account,
  db,          \* partial function on Account: the state below every block
  Fee,         \* what a transaction is charged for gas
  MaxFee,      \* what its sender must be able to pay, gas_limit * gas_price
  Reward,      \* the part of Fee the beneficiary gets
  Blocks(_),   \* the blocks the n-th call may be given: a beneficiary and a function
               \* from 0 .. size - 1 to transactions [kind, caller, to, value, nonce]
  MaxBlocks    \* bound: the calls of execute on one executor

ASSUME FeeAssumption ==
  Fee \in Nat /\ MaxFee \in Nat /\ Reward \in Nat /\ Reward <= Fee /\ Fee <= MaxFee /\ 0 < MaxFee

ASSUME BlocksAssumption ==
  /\ MaxBlocks \in Nat
  /\ \A n \in 1 .. MaxBlocks : \A b \in Blocks(n) :
       /\ b.beneficiary \in Account
       /\ Cardinality(DOMAIN b.txs) \in Nat
       /\ DOMAIN b.txs = 0 .. Cardinality(DOMAIN b.txs) - 1

VARIABLES
  beneficiary,        \* block_env.beneficiary
  txs,                \* the block
  number,             \* how many calls of execute the executor has seen
  next,               \* the transaction whose last incarnation runs next
  data,               \* [Account -> partial function from indexes to LocationValue]
  destroyed,          \* the accounts whose CodeHash entry is SelfDestructed
  lazy_addresses,     \* the addresses to evaluate at the end
  execution_results,  \* the slots: NoResult or the block and index they belong to
  abort_reason,
  outcome             \* of the last call of execute

vars == <<beneficiary, txs, number, next, data, destroyed, lazy_addresses,
          execution_results, abort_reason, outcome>>

Stored(a) == IF a \in DOMAIN db THEN db[a] ELSE Absent

block_size == Cardinality(DOMAIN txs)

NoBeneficiary == "None"
NoResult == [number |-> 0, tx_idx |-> 0]
NoReason == "None"

\* What execute came to; it is Idle between two calls.
Idle == [kind |-> "Idle"]
Running == [kind |-> "Running"]
Err == [kind |-> "Err"]
Sequential == [kind |-> "Sequential"]
Stuck == [kind |-> "Stuck"]
Panicked == [kind |-> "Panicked"]
Ok(results, states) == [kind |-> "Ok", results |-> results, states |-> states]

Init ==
  /\ beneficiary = NoBeneficiary
  /\ txs = <<>> /\ number = 0 /\ next = 0
  /\ data = [a \in Account |-> <<>>]
  /\ destroyed = {} /\ lazy_addresses = {}
  /\ execution_results = <<>>
  /\ abort_reason = NoReason
  /\ outcome = Idle

-----------------------------------------------------------------------------
Callable == outcome = Idle /\ number < MaxBlocks

\* The early return of execute.
ExecuteEmpty ==
  /\ Callable
  /\ number' = number + 1
  /\ UNCHANGED <<beneficiary, txs, next, data, destroyed, lazy_addresses,
                 execution_results, abort_reason, outcome>>

\* Variant: one slot too few.
ExtendedShort(n) ==
  execution_results \o [i \in 1 .. n - 1 - Len(execution_results) |-> NoResult]

\* execution_results is extended to n slots, never shortened or cleared.
Extended(n) ==
  execution_results \o [i \in 1 .. n - Len(execution_results) |-> NoResult]

\* build_mv_memory; its estimates at the beneficiary's location show in MayBeLazy.
BuildMvMemory ==
  /\ data' = [a \in Account |-> <<>>]
  /\ destroyed' = {}
  /\ lazy_addresses' = {beneficiary'}

Begin ==
  /\ Callable
  /\ \E b \in Blocks(number + 1) :
       /\ DOMAIN b.txs # {}
       /\ txs' = b.txs /\ beneficiary' = b.beneficiary
       /\ execution_results' = Extended(Cardinality(DOMAIN b.txs))
  /\ number' = number + 1
  /\ next' = 0
  /\ BuildMvMemory
  /\ outcome' = Running
  /\ UNCHANGED abort_reason

-----------------------------------------------------------------------------
\* VmDB::basic
ReadAccount(a, t) == ReadColumn(data[a], t, a \in DOMAIN db, Stored(a))

\* The accounts of transaction t; a created contract that destroys itself is not written.
Parties(t) == {txs[t].caller} \cup (IF txs[t].kind = "create" THEN {} ELSE {txs[t].to})

(***************************************************************************)
(* VmDB::new.  is_lazy holds for a call whose recipient has no account     *)
(* when the sender or the recipient is a key of the multi-version data,    *)
(* which depends on what the other workers recorded when the incarnation   *)
(* began.  The beneficiary is a key from the start.  A strict incarnation  *)
(* may begin before any key exists and read the lower entries afterwards.  *)
(***************************************************************************)
IsPlainCall(t) == txs[t].kind # "create" /\ txs[t].to \notin DOMAIN db

MayBeLazy(t) ==
  /\ IsPlainCall(t)
  /\ \/ beneficiary \in Parties(t)
     \/ \E k \in DOMAIN txs \ {t} : Parties(t) \cap Parties(k) # {}

MayBeStrict(t) == IsPlainCall(t) => beneficiary \notin Parties(t)

\* VmDB::new and basic: reading the code of a self-destructed account.
ReadsDestroyed(t) == txs[t].kind # "create" /\ txs[t].to \in destroyed

\* Vm::apply_rewards on a write set.
ApplyRewards(ws) == Credit(ws, beneficiary, Reward)

(***************************************************************************)
(* A lazy execution: the sender has a mocked balance of 2^256 - 1 and the  *)
(* nonce of the transaction, the recipient is absent.                      *)
(***************************************************************************)
LazyWriteSet(t) == LazyWrites(txs[t], Fee)

(***************************************************************************)
(* A strict execution.  The recipient is written only if it changed; an    *)
(* absent recipient of nothing stays absent.  A creation whose code        *)
(* destroys the new contract writes only its sender.                       *)
(***************************************************************************)
StrictWriteSet(t) ==
  LET p == txs[t]
  IN  IF p.kind = "create"
      THEN StrictWrites([p EXCEPT !.value = 0], Fee, ReadAccount(p.caller, t), Absent)
      ELSE StrictWrites(p, Fee, ReadAccount(p.caller, t), ReadAccount(p.to, t))

Payable(t) == ReadAccount(txs[t].caller, t).balance >= txs[t].value + MaxFee

Acceptable(t) == ReadAccount(txs[t].caller, t).nonce = txs[t].nonce /\ Payable(t)

Slot(t) == [number |-> number, tx_idx |-> t]

\* Variant: a slot that is still filled is kept.
StoreOnce(t) ==
  execution_results' = [execution_results EXCEPT ![t + 1] = IF @ = NoResult THEN Slot(t) ELSE @]

Store(t) == execution_results' = [execution_results EXCEPT ![t + 1] = Slot(t)]

\* Variant: the recipient is not evaluated at the end.
AddLazyAddressesCaller(t) == lazy_addresses' = lazy_addresses \cup {txs[t].caller}

AddLazyAddresses(t) == lazy_addresses' = lazy_addresses \cup Parties(t)

\* A worker may take another step of the block.
Working == outcome = Running /\ abort_reason = NoReason /\ next < block_size

\* The rest of Vm::execute and try_execute for a transaction of a known type.
Finish(t, ws) ==
  /\ txs[t].kind \in {"call", "create"}
  /\ data' = RecordWrites(data, t, ApplyRewards(ws))
  /\ destroyed' = IF txs[t].kind = "create" THEN destroyed \cup {txs[t].to} ELSE destroyed
  /\ Store(t)
  /\ next' = next + 1
  /\ UNCHANGED <<beneficiary, txs, number, abort_reason, outcome>>

ExecuteLazy ==
  /\ Working /\ ~ReadsDestroyed(next) /\ MayBeLazy(next)
  /\ Finish(next, LazyWriteSet(next))
  /\ AddLazyAddresses(next)

ExecuteStrict ==
  /\ Working /\ ~ReadsDestroyed(next) /\ MayBeStrict(next) /\ Acceptable(next)
  /\ Finish(next, StrictWriteSet(next))
  /\ UNCHANGED lazy_addresses

-----------------------------------------------------------------------------
\* try_execute aborts; until the other workers notice, they fill slots of their own.
AbortWith(reason, t) ==
  /\ abort_reason' = reason
  /\ \E filled \in SUBSET (next .. block_size - 1 \ {t}) :
       execution_results' = [i \in DOMAIN execution_results |->
         IF i - 1 \in filled THEN Slot(i - 1) ELSE execution_results[i]]
  /\ UNCHANGED <<beneficiary, txs, number, next, data, destroyed, lazy_addresses, outcome>>

\* Transaction t calls a contract that one below it creates and destroys.
CallsDestroyed(t) ==
  \E k \in 0 .. t - 1 : /\ txs[k].kind = "create"
                        /\ txs[t].kind # "create" /\ txs[t].to = txs[k].to

\* FallbackToSequential; above next both transactions may have run speculatively.
Fallback ==
  /\ Working
  /\ \E t \in next .. block_size - 1 :
       CallsDestroyed(t) /\ AbortWith("FallbackToSequential", t)

\* Transaction t gets through its interpretation; above next it may do so speculatively.
MayRun(t) ==
  t > next \/ (~ReadsDestroyed(t) /\ (MayBeLazy(t) \/ (MayBeStrict(t) /\ Acceptable(t))))

(***************************************************************************)
(* A transaction whose type TxType::try_from does not know is executed and *)
(* recorded; then it is an error, whatever the others are doing.           *)
(***************************************************************************)
RejectType ==
  /\ Working
  /\ \E t \in next .. block_size - 1 :
       txs[t].kind = "untyped" /\ MayRun(t) /\ AbortWith("ExecutionError", t)

(***************************************************************************)
(* A strict execution that finds the wrong nonce or too little to pay: a   *)
(* nonce that is too low, or any problem of the first transaction, is an   *)
(* error; otherwise it blocks on the transaction before it, which is done, *)
(* and is retried without end.                                             *)
(***************************************************************************)
Unacceptable ==
  Working /\ ~ReadsDestroyed(next) /\ MayBeStrict(next) /\ ~Acceptable(next)

RejectStrict ==
  /\ Unacceptable
  /\ next = 0 \/ txs[next].nonce < ReadAccount(txs[next].caller, next).nonce
  /\ AbortWith("ExecutionError", next)

RetryForever ==
  /\ Unacceptable
  /\ next > 0 /\ txs[next].nonce >= ReadAccount(txs[next].caller, next).nonce
  /\ outcome' = Stuck
  /\ UNCHANGED <<beneficiary, txs, number, next, data, destroyed, lazy_addresses,
                 execution_results, abort_reason>>

-----------------------------------------------------------------------------
(***************************************************************************)
(* execute_sequential on the state below the block: ok as long as every    *)
(* transaction has a known type and every sender the right nonce and the   *)
(* money.                                                                  *)
(***************************************************************************)
SerialStep(acc, p) ==
  LET paid == [acc.ledger EXCEPT ![p.caller] = Info(@.balance - p.value - Fee, @.nonce + 1)]
      got  == [paid EXCEPT ![p.to].balance = @ + p.value]
  IN  IF /\ acc.ok
         /\ p.kind \in {"call", "create"}
         /\ acc.ledger[p.caller].nonce = p.nonce
         /\ acc.ledger[p.caller].balance >= p.value + MaxFee
      THEN [ok |-> TRUE, ledger |-> [got EXCEPT ![beneficiary].balance = @ + Reward]]
      ELSE [acc EXCEPT !.ok = FALSE]

\* Before transaction t.
Serial(t) ==
  FoldLeft(SerialStep, [ok |-> TRUE, ledger |-> [a \in Account |-> Stored(a)]],
           [i \in 1 .. t |-> txs[i - 1]])

\* Variant: the reason is read and not taken.
TakeAbortReasonKept == UNCHANGED abort_reason

TakeAbortReason == abort_reason' = NoReason

\* All workers have left the scope after an abort.
JoinAborted ==
  /\ outcome = Running /\ abort_reason # NoReason
  /\ TakeAbortReason
  /\ outcome' = IF abort_reason = "FallbackToSequential" /\ Serial(block_size).ok
                THEN Sequential ELSE Err
  /\ UNCHANGED <<beneficiary, txs, number, next, data, destroyed, lazy_addresses,
                 execution_results>>

\* The account a after transaction t, evaluated from the bottom of the block.
Evaluated(a, t) == EvaluateColumn(a, txs, MaxFee, data[a], t, Stored(a))

\* The state each transaction's result reports.
States ==
  [a \in Account |-> [k \in DOMAIN data[a] |->
     IF a \in lazy_addresses THEN Evaluated(a, k).info ELSE data[a][k].info]]

(***************************************************************************)
(* The end of execute: the slots of the block are taken, each must be      *)
(* filled, and the lazy addresses are evaluated.                           *)
(***************************************************************************)
Collect ==
  /\ outcome = Running /\ abort_reason = NoReason /\ next = block_size
  /\ execution_results' = [i \in DOMAIN execution_results |->
       IF i <= block_size THEN NoResult ELSE execution_results[i]]
  /\ outcome' = IF \E i \in 1 .. block_size : execution_results[i] = NoResult THEN Panicked
                ELSE IF \A a \in lazy_addresses : Evaluated(a, block_size - 1).ok
                THEN Ok(SubSeq(execution_results, 1, block_size), States)
                ELSE Err
  /\ UNCHANGED <<beneficiary, txs, number, next, data, destroyed, lazy_addresses, abort_reason>>

(***************************************************************************)
(* The caller has the result, and the dropper's thread (dropper.rs) has    *)
(* dropped the memory, the scheduler and the transactions of the block.    *)
(***************************************************************************)
Return ==
  /\ outcome.kind \in {"Ok", "Err", "Sequential"}
  /\ outcome' = Idle
  /\ beneficiary' = NoBeneficiary /\ txs' = <<>> /\ next' = 0
  /\ data' = [a \in Account |-> <<>>]
  /\ destroyed' = {} /\ lazy_addresses' = {}
  /\ UNCHANGED <<number, execution_results, abort_reason>>

\* No further call: the bound is reached, or a call never returned.
Done ==
  /\ outcome.kind \in {"Panicked", "Stuck"} \/ (outcome = Idle /\ number = MaxBlocks)
  /\ UNCHANGED vars

Next ==
  \/ ExecuteEmpty \/ Begin
  \/ ExecuteLazy \/ ExecuteStrict
  \/ Fallback \/ RejectType \/ RejectStrict \/ RetryForever
  \/ JoinAborted \/ Collect \/ Return \/ Done

Spec == Init /\ [][Next]_vars

-----------------------------------------------------------------------------
(***************************************************************************)
(* Balances and nonces stay in range, there are slots for the block, and a *)
(* slot holds a result of its own index.                                   *)
(***************************************************************************)
TypeOK ==
  /\ next \in 0 .. block_size
  /\ lazy_addresses \subseteq Account
  /\ Len(execution_results) >= block_size
  /\ \A i \in DOMAIN execution_results :
       execution_results[i] = NoResult \/ execution_results[i] \in
         [number : 1 .. number, tx_idx : {i - 1}]
  /\ \A a \in Account : /\ DOMAIN data[a] \subseteq 0 .. next - 1
                        /\ \A k \in DOMAIN data[a] :
                             IF data[a][k].kind = "Basic"
                             THEN data[a][k].info \in [balance : U256, nonce : Nat]
                             ELSE data[a][k].amount \in U256

(***************************************************************************)
(* An explicit read returns the balance and the nonce that serial          *)
(* execution leaves at that point, whichever of the lower transactions     *)
(* were lazy, as long as serial execution has not failed below.            *)
(***************************************************************************)
ReadsSerial ==
  \A t \in 0 .. next : Serial(t).ok =>
    \A a \in Account : Info(ReadAccount(a, t).balance, ReadAccount(a, t).nonce)
                         = Serial(t).ledger[a]

(***************************************************************************)
(* Every account with a lazy entry is evaluated at the end of the block.   *)
(***************************************************************************)
LazyEvaluated ==
  \A a \in Account : \A k \in DOMAIN data[a] :
    data[a][k].kind # "Basic" => a \in lazy_addresses

(***************************************************************************)
(* If execute succeeds so does execute_sequential, and every transaction   *)
(* reports exactly the accounts it changed, with the balances and nonces   *)
(* of the serial ledger.  The mocked balances of lazy senders never leak   *)
(* into a result.                                                          *)
(***************************************************************************)
LazyEquivalence ==
  outcome.kind = "Ok" =>
    /\ Serial(block_size).ok
    /\ \A a \in Account, k \in DOMAIN txs :
         IF k \in DOMAIN outcome.states[a]
         THEN outcome.states[a][k] = Serial(k + 1).ledger[a]
         ELSE Serial(k + 1).ledger[a] = Serial(k).ledger[a]

(***************************************************************************)
(* A block returns the results of its own transactions in their order,     *)
(* although slots keep what an aborted block left in them and are never    *)
(* cleared when the next block begins; no slot is found empty.             *)
(***************************************************************************)
ResultsOfBlock ==
  /\ outcome.kind = "Ok" => outcome.results = [i \in 1 .. block_size |-> Slot(i - 1)]
  /\ outcome # Panicked

(***************************************************************************)
(* What becomes of a block depends on the block alone, not on what the     *)
(* executor ran before: it fails or never returns only if serial execution *)
(* of it fails, and it runs sequentially only if it calls a contract that  *)
(* it destroyed.                                                           *)
(***************************************************************************)
OutcomeOfBlock ==
  /\ outcome.kind \in {"Err", "Stuck"} => ~Serial(block_size).ok
  /\ outcome = Sequential => \E t \in DOMAIN txs : CallsDestroyed(t)

(***************************************************************************)
(* "Sending 0 ETH to an empty account, which we treat as a non-write here. *)
(* A later read would trace back to storage and return a [None]" (vm.rs):  *)
(* an account that is not stored and got nothing is absent.                *)
(***************************************************************************)
AbsentReadsNone ==
  \A t \in 0 .. next : Serial(t).ok =>
    \A a \in Account \ DOMAIN db :
      ReadAccount(a, t).exists => Serial(t).ledger[a] # Absent
=============================================================================
