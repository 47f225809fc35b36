---------------------------- MODULE BlockFixtures -----------------------------
(***************************************************************************)
(* metis-blockfetch and metis-blocktest (crates/tools/bins).  blockfetch   *)
(* replays a block of the chain on the state of the block before it, and   *)
(* writes the transactions, the logs of the replay, the block hashes and   *)
(* the accounts it touched to a file; blocktest runs the files through     *)
(* both executors and compares the logs.  The tools are processes of their *)
(* own: a fetch may fail between any two of its requests, and blocktest    *)
(* may read a file while a fetch is at work.                               *)
(*                                                                         *)
(* The value of an account is the transaction that wrote it last and all   *)
(* that this one observed: accounts, block hashes, values of the block,    *)
(* the gas price it paid, its blobs and authorizations, the hard fork.  A  *)
(* log is the part of this that the transaction emits, possibly nothing.   *)
(* That the two executors agree is ParallelExecutor.tla's; here both run   *)
(* in order.                                                               *)
(***************************************************************************)
EXTENDS Integers, FiniteSets, Sequences, SequencesExt

CONSTANTS
  Account,
  Chain,       \* the blocks that can be fetched, [numbers -> [timestamp, mix_hash,
               \* base_fee, blob_fee, spec, system, txs]]; system: the accounts that the
               \* calls before the block write.  A transaction is [caller, gas_price,
               \* gas_priority_fee, blobs, auths, reads, writes, destroys, asks, env, emits]
  Before,      \* the accounts below the first of them
  HashWindow,  \* the previous block hashes a block may ask for: 256
  MaxFetches,  \* bound: runs of blockfetch
  MaxTests     \* bound: runs of blocktest

VARIABLES
  files,    \* data/blocks: [DOMAIN Chain -> Missing, Truncated or a complete file]
  fetch,    \* the run of blockfetch
  fetches,  \* how many there were
  test,     \* the run of blocktest
  tests     \* how many there were

fixtureVars == <<files, fetch, fetches, test, tests>>

None == <<>>
Missing == [kind |-> "Missing"]
Truncated == [kind |-> "Truncated"]

NoFetch == [phase |-> "none", number |-> 0, cache |-> <<>>, logs |-> <<>>,
            block_hashes |-> <<>>, pre |-> <<>>, asked |-> {}]

NoTest == [phase |-> "none", listed |-> <<>>, todo |-> <<>>, suite |-> Missing,
           cache_state |-> <<>>, sequential |-> <<>>, passed |-> {}]

FixturesInit ==
  /\ files = [n \in DOMAIN Chain |-> Missing]
  /\ fetch = NoFetch /\ fetches = 0
  /\ test = NoTest /\ tests = 0

-----------------------------------------------------------------------------
\* The blocks that start a hard fork, and the hard forks between them.
ForkBlocks == <<1150000, 2463000, 2675000, 4370000, 7280000, 9069000, 12244000,
                12965000, 15537394>>
ForkNames == <<"FRONTIER", "HOMESTEAD", "TANGERINE", "SPURIOUS_DRAGON", "BYZANTIUM",
               "PETERSBURG", "ISTANBUL", "BERLIN", "LONDON", "MERGE">>

get_block_spec(timestamp, block_number) ==
  IF timestamp >= 1710338135 THEN "CANCUN"
  ELSE IF timestamp >= 1681338455 THEN "SHANGHAI"
  ELSE ForkNames[1 + Cardinality({i \in DOMAIN ForkBlocks : block_number >= ForkBlocks[i]})]

(***************************************************************************)
(* What executing a transaction observes, writes and emits.  The price is  *)
(* that of EIP-1559 if there is a priority fee.                            *)
(***************************************************************************)
NoFee == -1

Price(tx, base_fee) ==
  IF tx.gas_priority_fee = NoFee THEN tx.gas_price
  ELSE Min({tx.gas_price, base_fee + tx.gas_priority_fee})

Observed(tx, n, state, world) ==
  [sender |-> state[tx.caller],
   reads  |-> [a \in tx.reads |-> state[a]],
   hashes |-> [d \in tx.asks |-> world.hashes[n - d]],
   env    |-> [v \in tx.env |-> world.env[v]],
   price  |-> Price(tx, world.base_fee),
   blobs  |-> tx.blobs,
   auths  |-> tx.auths,
   spec   |-> world.spec]

\* Transaction i of block n on a state: the state after it and its logs.
Transact(tx, n, i, state, world) ==
  LET seen == Observed(tx, n, state, world)
  IN  [state |-> [a \in DOMAIN state |->
                    IF a \in tx.destroys THEN None
                    ELSE IF a \in tx.writes \cup tx.auths \cup {tx.caller}
                    THEN [by |-> <<n, i>>, seen |-> seen] ELSE state[a]],
       logs  |-> [k \in tx.emits |-> seen[k]]]

\* The transactions of block n in order: states[i] is the state before transaction i.
Run(state, n, txs, world) ==
  FoldLeft(LAMBDA acc, i : LET done == Transact(txs[i], n, i, Last(acc.states), world)
                           IN  [states |-> Append(acc.states, done.state),
                                logs   |-> Append(acc.logs, done.logs)],
           [states |-> <<state>>, logs |-> <<>>], [i \in 1 .. Len(txs) |-> i])

-----------------------------------------------------------------------------
(***************************************************************************)
(* The chain: the calls before a block, then its transactions.             *)
(***************************************************************************)
Hash(n) == <<"hash", n>>
PreviousHashes(n) == [m \in n - HashWindow .. n - 1 |-> Hash(m)]

RunOnChain(state, n) ==
  Run([a \in Account |-> IF a \in Chain[n].system THEN [by |-> <<n, 0>>] ELSE state[a]],
      n, Chain[n].txs,
      [hashes |-> PreviousHashes(n), base_fee |-> Chain[n].base_fee, spec |-> Chain[n].spec,
       env |-> [random |-> Chain[n].mix_hash, blob_fee |-> Chain[n].blob_fee]])

\* The state after the blocks up to n, by number; and the logs of each block.
StatesAfter ==
  [n \in UNION {{m - 1, m} : m \in DOMAIN Chain} |->
     FoldLeft(LAMBDA s, m : Last(RunOnChain(s, m).states), Before,
              SetToSortSeq({m \in DOMAIN Chain : m <= n}, <))]
StateAfter(n) == StatesAfter[n]

ChainLogs == [n \in DOMAIN Chain |-> RunOnChain(StateAfter(n - 1), n).logs]

-----------------------------------------------------------------------------
\* Variant: the replay and the accounts use the block's own state.
PreviousOwn(n) == n

previous_block_number(n) == n - 1

\* blockfetch: the block itself.
GetBlock(n) ==
  /\ fetch.phase = "none" /\ fetches < MaxFetches
  /\ fetch' = [NoFetch EXCEPT !.phase = "replay", !.number = n]
  /\ fetches' = fetches + 1
  /\ UNCHANGED <<files, test, tests>>

\* The transaction as the EVM gets it: without blobs and authorizations.
tx_into_env(tx) == [tx EXCEPT !.blobs = FALSE, !.auths = {}]

(***************************************************************************)
(* The environment of the replay: the hard fork is that of get_block_spec, *)
(* the random value and the blob fee of the block stay at their defaults.  *)
(***************************************************************************)
ReplayWorld(n) ==
  [hashes |-> PreviousHashes(n), base_fee |-> Chain[n].base_fee,
   spec |-> get_block_spec(Chain[n].timestamp, n), env |-> [random |-> 0, blob_fee |-> 0]]

(***************************************************************************)
(* Replay of one transaction.  The accounts it touches are loaded from the *)
(* previous block the first time; nothing replays the calls that precede   *)
(* the block.  An error of the EVM, or, when the block lists hashes only,  *)
(* a gas that differs from the receipt's, ends the fetch (FailFetch).      *)
(***************************************************************************)
ReplayTx ==
  LET n      == fetch.number
      i      == Len(fetch.logs) + 1
      tx     == tx_into_env(Chain[n].txs[i])
      loaded == [a \in DOMAIN fetch.cache \cup tx.reads \cup tx.writes \cup tx.destroys
                         \cup {tx.caller} |->
                   IF a \in DOMAIN fetch.cache THEN fetch.cache[a]
                   ELSE StateAfter(previous_block_number(n))[a]]
      done   == Transact(tx, n, i, loaded, ReplayWorld(n))
  IN  /\ fetch.phase = "replay" /\ Len(fetch.logs) < Len(Chain[n].txs)
      /\ fetch' = [fetch EXCEPT !.cache = done.state, !.logs = Append(@, done.logs)]
      /\ UNCHANGED <<files, fetches, test, tests>>

\* File::create, before what remains to be fetched.
CreateFile ==
  /\ fetch.phase = "replay" /\ Len(fetch.logs) = Len(Chain[fetch.number].txs)
  /\ files' = [files EXCEPT ![fetch.number] = Truncated]
  /\ fetch' = [fetch EXCEPT !.phase = "hashes"]
  /\ UNCHANGED <<fetches, test, tests>>

\* One turn of the loop over the previous numbers: it asks for block_id.
FetchHash ==
  LET n == fetch.number
      m == n - HashWindow + Cardinality(DOMAIN fetch.block_hashes)
  IN  /\ fetch.phase = "hashes"
      /\ fetch' = [fetch EXCEPT
                     !.phase = IF m = n - 1 THEN "pre" ELSE @,
                     !.block_hashes =
                       [k \in n - HashWindow .. m |-> IF k = m THEN Hash(n) ELSE @[k]]]
      /\ UNCHANGED <<files, fetches, test, tests>>

\* CacheState::trie_account: the accounts of the replay that exist after it.
trie_account == {a \in DOMAIN fetch.cache : fetch.cache[a] # None}

\* An account at the previous block, or none if get_account has no answer.
FetchAccount(a) ==
  LET value == StateAfter(previous_block_number(fetch.number))[a]
  IN  /\ fetch.phase = "pre" /\ a \in trie_account \ fetch.asked /\ value # None
      /\ fetch' = [fetch EXCEPT !.asked = @ \cup {a},
                     !.pre = [b \in DOMAIN @ \cup {a} |-> IF b = a THEN value ELSE @[b]]]
      /\ UNCHANGED <<files, fetches, test, tests>>

SkipAccount(a) ==
  /\ fetch.phase = "pre" /\ a \in trie_account \ fetch.asked
  /\ fetch' = [fetch EXCEPT !.asked = @ \cup {a}]
  /\ UNCHANGED <<files, fetches, test, tests>>

\* TestTransaction has no blob hashes and no authorizations.
TestTransaction(tx) == [k \in DOMAIN tx \ {"blobs", "auths"} |-> tx[k]]

\* "The key denotes the tx index + 1", and for the logs the index.
Fixture ==
  LET block == Chain[fetch.number]
      last  == Len(block.txs) - 1
  IN  [kind |-> "Complete",
       env |-> [block_number |-> fetch.number, current_timestamp |-> block.timestamp,
                mix_hash |-> block.mix_hash, base_fee_per_gas |-> block.base_fee],
       transactions |-> [key \in {idx + 1 : idx \in 0 .. last} |->
                           TestTransaction(tx_into_env(block.txs[key]))],
       logs |-> [idx \in 0 .. last |-> fetch.logs[idx + 1]],
       block_hashes |-> fetch.block_hashes,
       pre |-> fetch.pre]

WriteFile ==
  /\ fetch.phase = "pre" /\ fetch.asked = trie_account
  /\ files' = [files EXCEPT ![fetch.number] = Fixture]
  /\ fetch' = NoFetch
  /\ UNCHANGED <<fetches, test, tests>>

\* A request, the write or an assertion fails: the file stays as it is.
FailFetch ==
  /\ fetch.phase # "none"
  /\ fetch' = NoFetch
  /\ UNCHANGED <<files, fetches, test, tests>>

-----------------------------------------------------------------------------
\* blocktest lists the files in the order of their names.
ListTests ==
  LET found == SetToSortSeq({n \in DOMAIN Chain : files[n] # Missing}, <)
  IN  /\ test.phase \in {"none", "ok", "panicked"} /\ tests < MaxTests
      /\ test' = [NoTest EXCEPT !.phase = "next", !.listed = found, !.todo = found]
      /\ tests' = tests + 1
      /\ UNCHANGED <<files, fetch, fetches>>

Panic(suite) == test' = [test EXCEPT !.phase = "panicked", !.suite = suite]

\* The file is read and its accounts make up cache_state.
ReadTest ==
  LET suite == files[Head(test.todo)]
      cache == [a \in Account |-> IF a \in DOMAIN suite.pre THEN suite.pre[a] ELSE None]
  IN  /\ test.phase = "next" /\ test.todo # <<>>
      /\ IF suite.kind = "Complete"
         THEN test' = [test EXCEPT !.phase = "sequential", !.suite = suite,
                                   !.cache_state = cache]
         ELSE Panic(suite)
      /\ UNCHANGED <<files, fetch, fetches, tests>>

\* The TxEnv of a recorded transaction: gas_priority_fee is None.
TxEnvOf(tx) ==
  [k \in DOMAIN tx \cup {"blobs", "auths"} |->
     CASE k = "blobs" -> FALSE
       [] k = "auths" -> {}
       [] k = "gas_priority_fee" -> NoFee
       [] OTHER -> tx[k]]

\* "Sort transactions by id": the vector, and the run of it from a state.
ExecuteSuite(suite, state) ==
  LET n == suite.env.block_number
  IN  Run(state, n, [key \in 1 .. Cardinality(DOMAIN suite.transactions) |->
                       TxEnvOf(suite.transactions[key])],
          [hashes |-> suite.block_hashes, base_fee |-> suite.env.base_fee_per_gas,
           spec |-> get_block_spec(suite.env.current_timestamp, n),
           env |-> [random |-> suite.env.mix_hash, blob_fee |-> 0]])

(***************************************************************************)
(* The EVM may reject a transaction whose sender is not what it was when   *)
(* blockfetch replayed the block: it may lack the money or the nonce.      *)
(* Both executors reject the same block.                                   *)
(***************************************************************************)
MayBeRejected(suite, states) ==
  LET n      == suite.env.block_number
      txs    == [i \in DOMAIN Chain[n].txs |-> tx_into_env(Chain[n].txs[i])]
      replay == Run(StateAfter(n - 1), n, txs, ReplayWorld(n)).states
  IN  \E i \in DOMAIN txs : states[i][txs[i].caller] # replay[i][txs[i].caller]

\* Variant: only the number of the logs is compared.
check_counts(results, suite) ==
  \A idx \in DOMAIN suite.logs : DOMAIN results[idx + 1] = DOMAIN suite.logs[idx]

\* Number and contents of the logs each transaction emitted.
check_execute_results(results, suite) ==
  \A i \in DOMAIN results : i - 1 \in DOMAIN suite.logs /\ results[i] = suite.logs[i - 1]

\* Variant: the executors share one state.
CloneShared(cache, after) == after

\* Each executor runs on a clone of cache_state.
Clone(cache, after) == cache

\* The unwrap of the results, then the check of their logs.
RunSequential ==
  LET run == ExecuteSuite(test.suite, test.cache_state)
  IN  /\ test.phase = "sequential"
      /\ \/ /\ check_execute_results(run.logs, test.suite)
            /\ test' = [test EXCEPT !.phase = "parallel", !.sequential = run.logs,
                                    !.cache_state = Clone(@, Last(run.states))]
         \/ /\ \/ ~check_execute_results(run.logs, test.suite)
               \/ MayBeRejected(test.suite, run.states)
            /\ Panic(test.suite)
      /\ UNCHANGED <<files, fetch, fetches, tests>>

\* The logs again, and the receipts of both executors against each other.
RunParallel ==
  LET run == ExecuteSuite(test.suite, test.cache_state)
  IN  /\ test.phase = "parallel"
      /\ IF check_execute_results(run.logs, test.suite) /\ run.logs = test.sequential
         THEN test' = [test EXCEPT !.phase = "next", !.todo = Tail(@),
                         !.passed = @ \cup {[number |-> Head(test.todo), logs |-> run.logs]}]
         ELSE Panic(test.suite)
      /\ UNCHANGED <<files, fetch, fetches, tests>>

AllTestsCompleted ==
  /\ test.phase = "next" /\ test.todo = <<>>
  /\ test' = [test EXCEPT !.phase = "ok"]
  /\ UNCHANGED <<files, fetch, fetches, tests>>

FixturesNext ==
  \/ \E n \in DOMAIN Chain : GetBlock(n)
  \/ ReplayTx \/ CreateFile \/ FetchHash
  \/ \E a \in Account : FetchAccount(a) \/ SkipAccount(a)
  \/ WriteFile \/ FailFetch
  \/ ListTests \/ ReadTest \/ RunSequential \/ RunParallel \/ AllTestsCompleted

-----------------------------------------------------------------------------
(***************************************************************************)
(* The replay leaves nothing of block n out: no calls precede it, its hard *)
(* fork is in the table of get_block_spec, and its transactions carry no   *)
(* blobs and authorizations and use neither random value nor blob fee.     *)
(***************************************************************************)
Replayable(n) ==
  /\ Chain[n].system = {}
  /\ Chain[n].spec = get_block_spec(Chain[n].timestamp, n)
  /\ \A i \in DOMAIN Chain[n].txs :
       LET tx == Chain[n].txs[i] IN ~tx.blobs /\ tx.auths = {} /\ tx.env = {}

(***************************************************************************)
(* A complete file holds accounts as they were before the block, and if    *)
(* the replay leaves nothing of the block out, the logs that its           *)
(* transactions have on the chain.                                         *)
(***************************************************************************)
FixtureFaithful ==
  \A n \in DOMAIN Chain : files[n].kind = "Complete" =>
    /\ \A a \in DOMAIN files[n].pre : files[n].pre[a] = StateAfter(n - 1)[a]
    /\ Replayable(n) =>
         \A i \in DOMAIN Chain[n].txs : files[n].logs[i - 1] = ChainLogs[n][i]

(***************************************************************************)
(* In a block test that passes both executors emitted the logs of the      *)
(* chain, if the replay leaves nothing of the block out, whatever accounts *)
(* blockfetch skipped and whenever it was interrupted; and blocktest ends  *)
(* well only if every listed file passed.  Logs are all it compares: the   *)
(* balances of a test that passed may differ from the chain's.             *)
(***************************************************************************)
PassedLogs ==
  /\ \A p \in test.passed : Replayable(p.number) => p.logs = ChainLogs[p.number]
  /\ test.phase = "ok" =>
       {p.number : p \in test.passed} = {test.listed[i] : i \in DOMAIN test.listed}

\* What blocktest does not have of block n as blockfetch replayed it.
Unrecorded(n, suite) ==
  \E i \in DOMAIN Chain[n].txs :
    LET tx == Chain[n].txs[i]
    IN  \/ "random" \in tx.env
        \/ tx.asks # {}
        \/ \E a \in (tx.reads \cup {tx.caller}) \ DOMAIN suite.pre : StateAfter(n - 1)[a] # None
        \/ Price(tx, Chain[n].base_fee) # tx.gas_price

(***************************************************************************)
(* blocktest fails on a file of blockfetch only if the fetch did not       *)
(* finish, or a transaction uses a block hash, the random value, or an     *)
(* account that was skipped or that no longer existed after the replay, or *)
(* paid less than its maximal fee, which the test makes it pay.            *)
(***************************************************************************)
FailureExplained ==
  test.phase = "panicked" =>
    \/ test.suite.kind = "Truncated"
    \/ Unrecorded(Head(test.todo), test.suite)

(***************************************************************************)
(* "Fetching previous 256 block hashes": the hashes in a complete file are *)
(* those of the previous blocks.                                           *)
(***************************************************************************)
FetchedHashes ==
  \A n \in DOMAIN Chain : files[n].kind = "Complete" =>
    files[n].block_hashes = PreviousHashes(n)
=============================================================================
