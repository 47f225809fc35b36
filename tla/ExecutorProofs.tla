---------------------------- MODULE ExecutorProofs ----------------------------
(***************************************************************************)
(* The theorems that rest on the library's theory of finite sets, and what *)
(* the parallel executor has when its workers have joined: the theorems    *)
(* about the scheduler hold of it by ImplementsScheduler, and with ReadInv *)
(* they say what the memory holds that is collected.                       *)
(***************************************************************************)
EXTENDS SchedulerProofs, MemoryProofs, ValueProofs, SerialProofs

-----------------------------------------------------------------------------
(***************************************************************************)
(* num_validated is the number of Validated transactions.                  *)
(***************************************************************************)
THEOREM NumValidatedCorrect == Spec => []NumValidatedExact
<1>1. Init => NumValidatedExact
  BY InitCount, CountedHolds
<1>2. IInv /\ NumValidatedExact /\ [Next]_vars => NumValidatedExact'
  BY CountStep, CountedHolds
<1> QED
  BY <1>1, <1>2, Invariance, PTL DEF Spec

(***************************************************************************)
(* When all workers have left, the block was aborted for a known reason or *)
(* every transaction is validated and none waits: next_task may let a      *)
(* thread go early, but never the last one.                                *)
(***************************************************************************)
THEOREM CompleteWhenJoined == Spec => []JoinedComplete
<1>1. IInv /\ NoLostExecution /\ NoLostValidation /\ JoinInv => JoinedComplete
  BY JoinedCompletes, OrderedHolds
<1> QED
  BY <1>1, JoinInvariance, Invariance, NoExecutionLost, NoValidationLost, PTL

-----------------------------------------------------------------------------
LEMMA InitExecutor ==
  ASSUME PInit
  PROVE  Init /\ TypeInv /\ PInv
<1>1. Init /\ TypeInv
  BY InitType DEF PInit
<1> QED
  BY <1>1, InitPInv DEF TypeInv

LEMMA ExecutorStep ==
  ASSUME MaxIncarnation = NoBound, TypeInv, PInv, [PNext]_peVars
  PROVE  TypeInv' /\ PInv' /\ [Next]_vars
<1>1. [Next]_vars => TypeInv'
  BY TypeStep
<1>2. TypeInv' => TypeOK'
  BY DEF TypeInv
<1>3. PInv' /\ [Next]_vars
  BY <1>1, <1>2, OrderedHolds, PStep
<1> QED
  BY <1>1, <1>3

(***************************************************************************)
(* The parallel executor takes only steps of the scheduler: no outcome of  *)
(* an execution or a validation, read from the multi-version memory while  *)
(* others change it, is one that Scheduler.tla does not expect.            *)
(***************************************************************************)
THEOREM ImplementsScheduler == MaxIncarnation = NoBound => (PSpec => SchedulerContract)
<1> SUFFICES ASSUME MaxIncarnation = NoBound PROVE PSpec => SchedulerContract
  OBVIOUS
<1>1. PInit => Init /\ TypeInv /\ PInv
  BY InitExecutor
<1>2. TypeInv /\ PInv /\ [PNext]_peVars => TypeInv' /\ PInv' /\ [Next]_vars
  BY ExecutorStep
<1> QED
  BY <1>1, <1>2, PTL DEF PSpec, Spec, SchedulerContract

(***************************************************************************)
(* What a transaction has in the memory is in its write set, or is one of  *)
(* the initial estimates: convert_writes_to_estimates, which marks the     *)
(* write set only, leaves nothing of an aborted incarnation behind.        *)
(***************************************************************************)
THEOREM EntriesAlwaysOwned == MaxIncarnation = NoBound => (PSpec => []EntriesOwned)
<1> SUFFICES ASSUME MaxIncarnation = NoBound PROVE PSpec => []EntriesOwned
  OBVIOUS
<1>1. PInit => TypeInv /\ PInv
  BY InitExecutor
<1>2. TypeInv /\ PInv /\ [PNext]_peVars => TypeInv' /\ PInv'
  BY ExecutorStep
<1>3. PInv => EntriesOwned
  BY DEF PInv, MemInv
<1> QED
  BY <1>1, <1>2, <1>3, PTL DEF PSpec

\* What the scheduler promises is what the argument about read sets needs.
LEMMA KnownHolds ==
  ASSUME PInv, IInv
  PROVE  Known
  BY CountedHolds DEF PInv, IInv, OwnInv, Known

LEMMA ExecutorInvariance ==
  MaxIncarnation = NoBound => (PSpec => [](Known /\ ReadInv /\ JoinInv /\ JoinedComplete))
<1> SUFFICES ASSUME MaxIncarnation = NoBound
             PROVE  PSpec => [](Known /\ ReadInv /\ JoinInv /\ JoinedComplete)
  OBVIOUS
<1>1. PInit => TypeInv /\ PInv /\ ReadInv
  BY InitExecutor, InitReadInv
<1>2. TypeInv /\ PInv /\ [PNext]_peVars => TypeInv' /\ PInv'
  BY ExecutorStep
<1>3. PInv /\ IInv => Known
  BY KnownHolds
<1>4. Known /\ ReadInv /\ [PNext]_peVars => ReadInv'
  <2> SUFFICES ASSUME Known, ReadInv, [PNext]_peVars PROVE ReadInv'
    OBVIOUS
  <2> QED
    BY ReadInvStep
<1>5. PSpec => [](IInv /\ JoinInv /\ JoinedComplete)
  BY ImplementsScheduler, Invariance, JoinInvariance, CompleteWhenJoined, PTL DEF SchedulerContract
<1> QED
  BY <1>1, <1>2, <1>3, <1>4, <1>5, PTL DEF PSpec

(***************************************************************************)
(* When the workers have joined and nothing aborted the block, every       *)
(* transaction is validated: `execute' never collects half a block.        *)
(***************************************************************************)
THEOREM ExecutorComplete == MaxIncarnation = NoBound => (PSpec => []JoinedComplete)
<1> SUFFICES ASSUME MaxIncarnation = NoBound PROVE PSpec => []JoinedComplete
  OBVIOUS
<1> QED
  BY ImplementsScheduler, CompleteWhenJoined, PTL DEF SchedulerContract

(***************************************************************************)
(* The memory holds entries of transactions of the block, and read and     *)
(* write sets name locations.                                              *)
(***************************************************************************)
THEOREM ExecutorTyped == MaxIncarnation = NoBound => (PSpec => []PTypeOK)
<1> SUFFICES ASSUME MaxIncarnation = NoBound PROVE PSpec => []PTypeOK
  OBVIOUS
<1>1. Known /\ ReadInv => PTypeOK
  BY DEF Known, MemInv, ReadInv, LocInv, Listed, PTypeOK
<1> QED
  BY <1>1, ExecutorInvariance, PTL

\* Nobody is left to validate anything, so every read set is valid.
LEMMA JoinedReadsValid ==
  ASSUME Known, ReadInv, JoinInv, JoinedComplete
  PROVE  FinalReadsValid
<1> SUFFICES ASSUME Joined, abort_reason = "none"
             PROVE  EntriesDefinite /\ \A t \in Tx : ReadSetValid(t)
  BY DEF FinalReadsValid
<1>1. ~aborted /\ \A t \in Tx : tx_status[t].status \in Finished
  BY DEF JoinedComplete, Finished
<1>2. EntriesDefinite
  <2>1. \A t \in Tx : Published(t)
    BY <1>1 DEF Published
  <2>2. \A l \in Loc : \A t \in Tx : ~Marked(l, t)
    BY <2>1 DEF ReadInv, EntryInv
  <2>3. \A l \in Loc : DOMAIN data[l] \subseteq Tx
    BY DEF Known, MemInv
  <2> QED
    BY <2>2, <2>3 DEF EntriesDefinite, Marked
<1>3. ASSUME NEW t \in Tx, NEW l \in DOMAIN locations[t].read
      PROVE  OriginsValid(l, t, locations[t].read[l])
  <2>1. \/ OriginsValid(l, t, locations[t].read[l])
        \/ \E th \in Threads : DueBy(th, t, l)
    BY <1>1 DEF ReadInv, StaleReadsDue, Settled
  <2>2. ~(validation_idx <= t)
    <3>1. ~(validation_idx < block_size)
      BY <1>1 DEF JoinInv, IndicesSeen, PastValidation, Joined
    <3>2. t \in Nat /\ t < block_size /\ block_size \in Nat /\ validation_idx \in Nat
      BY IndexTypes DEF Known, TypeOK
    <3> QED
      BY <3>1, <3>2
  <2>3. ASSUME NEW th \in Threads PROVE ~Revalidates(th, t, l) /\ ~Lowers(th, t)
    <3>1. pc[th] = "done" /\ work[th].stage \notin {"record", "recorded"}
      BY DEF Joined, Known, WorkInv, Staged, ExecuteStages
    <3> QED
      BY <3>1 DEF Revalidates, Lowers
  <2> QED
    BY <2>1, <2>2, <2>3 DEF DueBy
<1> QED
  BY <1>2, <1>3 DEF ReadSetValid

(***************************************************************************)
(* What `execute' collects was read from the memory it collects: when the  *)
(* workers have joined without an abort, the origins every transaction     *)
(* recorded are still those the memory holds and no ESTIMATE is left,      *)
(* however the last validations, aborts and records interleaved.           *)
(***************************************************************************)
THEOREM ReadsValidWhenJoined == MaxIncarnation = NoBound => (PSpec => []FinalReadsValid)
<1> SUFFICES ASSUME MaxIncarnation = NoBound PROVE PSpec => []FinalReadsValid
  OBVIOUS
<1>1. Known /\ ReadInv /\ JoinInv /\ JoinedComplete => FinalReadsValid
  BY JoinedReadsValid
<1> QED
  BY <1>1, ExecutorInvariance, PTL

(***************************************************************************)
(* Parallel execution is serial execution: whatever the workers interleave *)
(* - half-published write sets, stale reads, aborts, estimates, lazy       *)
(* additions, self-destructed accounts, a fallback - `execute' returns, if *)
(* it returns, what execute_sequential returns for the same block.  Blocks *)
(* of any length, any number of workers, any programs.                     *)
(***************************************************************************)
THEOREM ExecutorSerial == MaxIncarnation = NoBound => (PSpec => SerialEquivalence)
<1> SUFFICES ASSUME MaxIncarnation = NoBound PROVE PSpec => SerialEquivalence
  OBVIOUS
<1>1. PInit => ValueInv /\ BlockInit
  BY InitValueInv DEF PInit
<1>2. Known /\ ReadInv /\ ValueInv /\ [PNext]_peVars => ValueInv'
  <2> SUFFICES ASSUME Known, ReadInv, ValueInv, [PNext]_peVars PROVE ValueInv'
    OBVIOUS
  <2>1. Folded
    BY FoldedHolds DEF Known
  <2> QED
    BY <2>1, ValueStep
<1>3. Known /\ ReadInv /\ ValueInv /\ JoinInv /\ JoinedComplete /\ [PNext]_peVars
        => [ExecuteBlock]_<<txs, outcome>>
  <2> SUFFICES ASSUME Known, ReadInv, ValueInv, JoinInv, JoinedComplete, [PNext]_peVars
               PROVE  [ExecuteBlock]_<<txs, outcome>>
    OBVIOUS
  <2>1. TypeOK /\ Counted /\ MemInv /\ FinalReadsValid
    BY JoinedReadsValid DEF Known
  <2> QED
    BY <2>1, SerialStep
<1> QED
  BY <1>1, <1>2, <1>3, ExecutorInvariance, PTL DEF PSpec, SerialEquivalence, BlockSpec
=============================================================================
