------------------------------ MODULE SlotProofs -------------------------------
(***************************************************************************)
(* Proofs about the slots of results of the parallel executor, for every   *)
(* sequence of blocks of every size and every ledger, and about the signed *)
(* numbers that its vm adds lazy updates up in.                            *)
(***************************************************************************)
EXTENDS ExecutorBlocks, TLAPS

\* The default prover of this module; a leaf with arithmetic names SMT.
USE ZenonT(40)

\* The integer a signed number stands for.
Meaning(x) == IF x.is_negative THEN -x.value ELSE x.value

Fits(n) == -U256Max <= n /\ n <= U256Max

(***************************************************************************)
(* Add computes the sum, with either zero, as long as its magnitude fits   *)
(* in 256 bits; beyond that it saturates.                                  *)
(***************************************************************************)
THEOREM AddExact ==
  ASSUME NEW x \in Signed, NEW y \in Signed, Fits(Meaning(x) + Meaning(y))
  PROVE  add(x, y) \in Signed /\ Meaning(add(x, y)) = Meaning(x) + Meaning(y)
<1> USE U256MaxAssumption DEF U256, Fits, Meaning, add, new, SaturatingAdd
<1>1. /\ x.value \in U256 /\ y.value \in U256
      /\ x.is_negative \in BOOLEAN /\ y.is_negative \in BOOLEAN
  BY DEF Signed
<1>2. /\ add(x, y).value \in U256
      /\ Meaning(add(x, y)) = Meaning(x) + Meaning(y)
  <2>1. CASE x.is_negative = TRUE /\ y.is_negative = TRUE
    BY <1>1, <2>1, SMTT(30)
  <2>2. CASE x.is_negative = TRUE /\ y.is_negative = FALSE
    BY <1>1, <2>2, SMTT(30)
  <2>3. CASE x.is_negative = FALSE /\ y.is_negative = TRUE
    BY <1>1, <2>3, SMTT(30)
  <2>4. CASE x.is_negative = FALSE /\ y.is_negative = FALSE
    BY <1>1, <2>4, SMTT(30)
  <2> QED
    BY <1>1, <2>1, <2>2, <2>3, <2>4
<1>3. add(x, y).is_negative \in BOOLEAN
  BY <1>1
<1>4. add(x, y) = new(add(x, y).value, add(x, y).is_negative)
  OBVIOUS
<1> QED
  BY <1>2, <1>3, <1>4 DEF Signed

(***************************************************************************)
(* Sub computes the difference under the same condition.                   *)
(***************************************************************************)
THEOREM SubExact ==
  ASSUME NEW x \in Signed, NEW y \in Signed, Fits(Meaning(x) - Meaning(y))
  PROVE  sub(x, y) \in Signed /\ Meaning(sub(x, y)) = Meaning(x) - Meaning(y)
<1> USE U256MaxAssumption DEF U256, Fits, Meaning, sub, new, SaturatingAdd
<1>1. /\ x.value \in U256 /\ y.value \in U256
      /\ x.is_negative \in BOOLEAN /\ y.is_negative \in BOOLEAN
  BY DEF Signed
<1>2. /\ sub(x, y).value \in U256
      /\ Meaning(sub(x, y)) = Meaning(x) - Meaning(y)
  <2>1. CASE x.is_negative = TRUE /\ y.is_negative = TRUE
    <3>1. sub(x, y) = IF x.value > y.value THEN new(x.value - y.value, TRUE)
                      ELSE new(y.value - x.value, FALSE)
      BY <2>1
    <3> QED
      BY <1>1, <2>1, <3>1, SMTT(30)
  <2>2. CASE x.is_negative = TRUE /\ y.is_negative = FALSE
    BY <1>1, <2>2, SMTT(30)
  <2>3. CASE x.is_negative = FALSE /\ y.is_negative = TRUE
    BY <1>1, <2>3, SMTT(30)
  <2>4. CASE x.is_negative = FALSE /\ y.is_negative = FALSE
    <3>1. sub(x, y) = IF x.value > y.value THEN new(x.value - y.value, FALSE)
                      ELSE new(y.value - x.value, TRUE)
      BY <2>4
    <3> QED
      BY <1>1, <2>4, <3>1, SMTT(30)
  <2> QED
    BY <1>1, <2>1, <2>2, <2>3, <2>4
<1>3. sub(x, y).is_negative \in BOOLEAN
  BY <1>1
<1>4. sub(x, y) = new(sub(x, y).value, sub(x, y).is_negative)
  OBVIOUS
<1> QED
  BY <1>2, <1>3, <1>4 DEF Signed

-----------------------------------------------------------------------------
\* What the proofs use of sequences.
LEMMA FunctionIsSeq ==
  ASSUME NEW S, NEW n \in Nat, NEW f \in [1 .. n -> S] PROVE f \in Seq(S) /\ Len(f) = n
  BY SMTT(30)

LEMMA SeqIsFunction ==
  ASSUME NEW S, NEW s \in Seq(S)
  PROVE  Len(s) \in Nat /\ DOMAIN s = 1 .. Len(s) /\ s \in [1 .. Len(s) -> S]
  BY SMTT(30)

LEMMA ConcatSeq ==
  ASSUME NEW S, NEW s \in Seq(S), NEW u \in Seq(S)
  PROVE  s \o u \in Seq(S) /\ Len(s \o u) = Len(s) + Len(u)
  BY SMTT(30)

LEMMA ReplaceInSeq ==
  ASSUME NEW S, NEW s \in Seq(S), NEW n \in 1 .. Len(s), NEW e \in S
  PROVE  /\ [s EXCEPT ![n] = e] \in Seq(S) /\ Len([s EXCEPT ![n] = e]) = Len(s)
         /\ \A i \in 1 .. Len(s) : [s EXCEPT ![n] = e][i] = IF i = n THEN e ELSE s[i]
  BY SMTT(30)

LEMMA FirstOfSeq ==
  ASSUME NEW S, NEW s \in Seq(S), NEW n \in 0 .. Len(s)
  PROVE  /\ SubSeq(s, 1, n) \in Seq(S) /\ Len(SubSeq(s, 1, n)) = n
         /\ \A i \in 1 .. n : SubSeq(s, 1, n)[i] = s[i]
  BY SMTT(30)

Result == [number : Nat, tx_idx : Int]

SlotsType == number \in Nat /\ execution_results \in Seq(Result)

\* The block that runs has as many transactions as block_size says, and slots for them.
BlockInv ==
  outcome = Running =>
    /\ block_size \in Nat /\ DOMAIN txs = 0 .. block_size - 1
    /\ next \in 0 .. block_size
    /\ Len(execution_results) >= block_size

(***************************************************************************)
(* Whatever the slots held before the block, those below next hold the     *)
(* results of its own transactions, as long as nothing aborted it.         *)
(***************************************************************************)
SlotsInv ==
  /\ outcome = Running => number > 0
  /\ outcome = Running /\ abort_reason = NoReason =>
       \A i \in 1 .. next : execution_results[i] = Slot(i - 1)

IInv == BlockInv /\ SlotsType /\ SlotsInv /\ ResultsOfBlock

\* The kinds of outcome differ.
LEMMA Kinds ==
  /\ Running # Idle /\ Running # Err /\ Running # Sequential
  /\ Running # Stuck /\ Running # Panicked
  /\ Panicked # Idle /\ Panicked # Err /\ Panicked # Sequential /\ Panicked # Stuck
  /\ \A o \in {Idle, Running, Err, Sequential, Stuck, Panicked} : o.kind # "Ok"
  /\ \A r, s : Ok(r, s) # Running /\ Ok(r, s) # Panicked /\ Ok(r, s).results = r
BY SMTT(30) DEF Idle, Running, Err, Sequential, Stuck, Panicked, Ok

\* The initial states satisfy the invariant.
LEMMA InitIInv == Init => IInv
<1> SUFFICES ASSUME Init PROVE IInv
  OBVIOUS
<1>1. SlotsType
  BY SMTT(30) DEF SlotsType, Init
<1>2. BlockInv /\ SlotsInv /\ ResultsOfBlock
  BY Kinds DEF BlockInv, SlotsInv, ResultsOfBlock, Init
<1> QED
  BY <1>1, <1>2 DEF IInv

-----------------------------------------------------------------------------
\* Extended(n) keeps the slots and has at least n of them.
LEMMA ExtendedSlots ==
  ASSUME execution_results \in Seq(Result), NEW n \in Nat
  PROVE  Extended(n) \in Seq(Result) /\ Len(Extended(n)) >= n
<1>1. PICK l \in Nat : l = Len(execution_results)
  BY SMTT(30)
<1>2. PICK k \in Nat : 1 .. n - l = 1 .. k /\ k >= n - l
  <2>1. CASE n > l
    <3>1. n - l \in Nat /\ n - l >= n - l
      BY <2>1, SMTT(30)
    <3> QED
      BY <3>1
  <2>2. CASE n <= l
    <3>1. 1 .. n - l = {} /\ 1 .. 0 = {}
      BY <2>2, SMTT(30)
    <3> QED
      BY <2>2, <3>1, SMTT(30)
  <2> QED
    BY <2>1, <2>2, SMTT(30)
<1>3. PICK more : more = [i \in 1 .. n - l |-> NoResult]
  OBVIOUS
<1>4. more \in [1 .. k -> Result]
  BY <1>2, <1>3, SMTT(30) DEF NoResult, Result
<1>5. more \in Seq(Result)
  BY <1>4, FunctionIsSeq
<1>6. Len(more) = k
  BY <1>4, <1>5, SeqIsFunction, SMTT(30)
<1>7. Extended(n) = execution_results \o more
  BY <1>1, <1>3 DEF Extended
<1>8. Extended(n) \in Seq(Result) /\ Len(Extended(n)) = l + k
  BY <1>1, <1>5, <1>6, <1>7, ConcatSeq
<1> QED
  BY <1>2, <1>8, SMTT(30)

-----------------------------------------------------------------------------
\* A new block finds as many slots as it needs and none of them is its own.
LEMMA BeginIInv == ASSUME IInv, Begin PROVE IInv'
<1>1. PICK b \in Blocks(number + 1) :
        /\ DOMAIN b.txs # {} /\ txs' = b.txs
        /\ execution_results' = Extended(Cardinality(DOMAIN b.txs))
  BY DEF Begin
<1>2. PICK n \in Nat : n = Cardinality(DOMAIN b.txs) /\ DOMAIN b.txs = 0 .. n - 1
  <2>1. number \in Nat /\ number < MaxBlocks /\ MaxBlocks \in Nat
    BY BlocksAssumption DEF Begin, Callable, IInv, SlotsType
  <2>2. number + 1 \in 1 .. MaxBlocks
    BY <2>1, SMTT(30)
  <2> QED
    BY <2>2, BlocksAssumption
<1>3. block_size' = n /\ DOMAIN txs' = 0 .. n - 1
  BY <1>1, <1>2 DEF block_size
<1>4. number \in Nat /\ number' = number + 1 /\ next' = 0 /\ outcome' = Running
  BY DEF Begin, IInv, SlotsType
<1>5. execution_results' \in Seq(Result) /\ Len(execution_results') >= n
  BY <1>1, <1>2, ExtendedSlots DEF IInv, SlotsType
<1>6. BlockInv'
  BY <1>3, <1>4, <1>5, SMTT(20) DEF BlockInv
<1>7. SlotsType'
  BY <1>4, <1>5, SMTT(30) DEF SlotsType
<1>8. SlotsInv'
  BY <1>4, SMTT(30) DEF SlotsInv
<1>9. ResultsOfBlock'
  BY <1>4, Kinds DEF ResultsOfBlock
<1> QED
  BY <1>6, <1>7, <1>8, <1>9 DEF IInv

\* A transaction that finishes fills its own slot, whatever was in it.
LEMMA FinishIInv ==
  ASSUME IInv, Working, NEW ws, Finish(next, ws) PROVE IInv'
<1>1. /\ txs' = txs /\ number' = number /\ next' = next + 1
      /\ abort_reason' = abort_reason /\ outcome' = outcome
      /\ execution_results' = [execution_results EXCEPT ![next + 1] = Slot(next)]
  BY DEF Finish, Store
<1>2. /\ outcome = Running /\ abort_reason = NoReason /\ next < block_size
      /\ block_size \in Nat /\ next \in Nat /\ number \in Nat /\ number > 0
      /\ Len(execution_results) >= block_size
      /\ execution_results \in Seq(Result) /\ Len(execution_results) \in Nat
  BY SMTT(30) DEF Working, IInv, BlockInv, SlotsType, SlotsInv
<1>3. block_size' = block_size /\ DOMAIN txs' = DOMAIN txs
  BY <1>1 DEF block_size
<1>4. Slot(next) \in Result /\ next + 1 \in 1 .. Len(execution_results)
  BY <1>2, SMTT(30) DEF Slot, Result
<1>5. /\ execution_results' \in Seq(Result)
      /\ Len(execution_results') = Len(execution_results)
      /\ \A j \in 1 .. Len(execution_results) : execution_results'[j] =
           IF j = next + 1 THEN Slot(next) ELSE execution_results[j]
  BY <1>1, <1>2, <1>4, ReplaceInSeq, SMTT(20)
<1>6. BlockInv'
  BY <1>1, <1>2, <1>3, <1>5, SMTT(20) DEF IInv, BlockInv
<1>7. SlotsType'
  BY <1>1, <1>2, <1>5 DEF SlotsType
<1>8. SlotsInv'
  <2>1. \A i : Slot(i)' = Slot(i)
    BY <1>1 DEF Slot
  <2>2. \A i \in 1 .. next' : execution_results'[i] = Slot(i - 1)
    <3> SUFFICES ASSUME NEW i \in 1 .. next + 1 PROVE execution_results'[i] = Slot(i - 1)
      BY <1>1
    <3>1. i \in 1 .. Len(execution_results)
      BY <1>2, SMTT(30)
    <3>2. CASE i = next + 1
      <4>1. i - 1 = next
        BY <1>2, <3>2, SMTT(30)
      <4> QED
        BY <1>5, <3>1, <3>2, <4>1
    <3>3. CASE i # next + 1
      <4>1. i \in 1 .. next
        BY <1>2, <3>3, SMTT(30)
      <4> QED
        BY <1>2, <1>5, <3>1, <3>3, <4>1 DEF IInv, SlotsInv
    <3> QED
      BY <3>2, <3>3
  <2> QED
    BY <1>1, <1>2, <2>1, <2>2 DEF SlotsInv
<1>9. ResultsOfBlock'
  BY <1>1, <1>2, Kinds DEF ResultsOfBlock
<1> QED
  BY <1>6, <1>7, <1>8, <1>9 DEF IInv

\* An abort may fill slots of other transactions; the block returns no results then.
LEMMA AbortIInv ==
  ASSUME IInv, Working, NEW reason \in {"FallbackToSequential", "ExecutionError"}, NEW t,
         AbortWith(reason, t)
  PROVE  IInv'
<1>1. /\ txs' = txs /\ number' = number /\ next' = next /\ outcome' = outcome
      /\ abort_reason' # NoReason
  BY DEF AbortWith, NoReason
<1>2. /\ outcome = Running /\ block_size \in Nat /\ number \in Nat /\ number > 0
      /\ execution_results \in Seq(Result) /\ Len(execution_results) \in Nat
      /\ Len(execution_results) >= block_size /\ next \in 0 .. block_size
  BY SMTT(30) DEF Working, IInv, BlockInv, SlotsType, SlotsInv
<1>3. block_size' = block_size /\ DOMAIN txs' = DOMAIN txs
  BY <1>1 DEF block_size
<1>4. execution_results' \in Seq(Result) /\ Len(execution_results') = Len(execution_results)
  <2>1. PICK filled \in SUBSET (next .. block_size - 1 \ {t}) :
          execution_results' = [i \in DOMAIN execution_results |->
            IF i - 1 \in filled THEN Slot(i - 1) ELSE execution_results[i]]
    BY DEF AbortWith
  <2>2. DOMAIN execution_results = 1 .. Len(execution_results)
        /\ \A i \in 1 .. Len(execution_results) : execution_results[i] \in Result
    BY <1>2, SMTT(30)
  <2>3. \A i \in 1 .. Len(execution_results) : Slot(i - 1) \in Result
    BY <1>2, SMTT(30) DEF Slot, Result
  <2>4. execution_results' \in [1 .. Len(execution_results) -> Result]
    BY <2>1, <2>2, <2>3
  <2>5. execution_results' \in Seq(Result)
    BY <1>2, <2>4, FunctionIsSeq
  <2>6. 1 .. Len(execution_results') = 1 .. Len(execution_results)
    BY <2>4, <2>5, SeqIsFunction
  <2>7. Len(execution_results') \in Nat
    BY <2>5, SeqIsFunction
  <2> QED
    BY <1>2, <2>5, <2>6, <2>7, SMTT(20)
<1>5. BlockInv' /\ SlotsType'
  BY <1>1, <1>2, <1>3, <1>4 DEF IInv, BlockInv, SlotsType
<1>6. SlotsInv'
  BY <1>1, <1>2 DEF SlotsInv
<1>7. ResultsOfBlock'
  BY <1>1, <1>2, Kinds DEF ResultsOfBlock
<1> QED
  BY <1>5, <1>6, <1>7 DEF IInv

\* Steps that end the block without results, or are no part of it.
LEMMA EndIInv ==
  ASSUME IInv, txs' = txs, next' = next, execution_results' = execution_results,
         number' = number \/ number' = number + 1,
         outcome' \in {Idle, Err, Sequential, Stuck}
  PROVE  IInv'
<1>1. SlotsType'
  BY SMTT(30) DEF IInv, SlotsType
<1>2. outcome' # Running /\ outcome'.kind # "Ok"
  BY Kinds
<1>3. BlockInv' /\ SlotsInv'
  BY <1>2 DEF BlockInv, SlotsInv
<1>4. outcome' # Panicked
  BY Kinds
<1>5. ResultsOfBlock'
  BY <1>2, <1>4 DEF ResultsOfBlock
<1> QED
  BY <1>1, <1>3, <1>5 DEF IInv

\* The slots that are taken at the end are those the block filled; none is empty.
LEMMA CollectIInv == ASSUME IInv, Collect PROVE IInv'
<1>1. /\ txs' = txs /\ number' = number /\ next' = next /\ next = block_size
      /\ outcome = Running /\ abort_reason = NoReason
      /\ execution_results' = [i \in DOMAIN execution_results |->
           IF i <= block_size THEN NoResult ELSE execution_results[i]]
  BY DEF Collect
<1>2. /\ block_size \in Nat /\ number \in Nat /\ number > 0
      /\ execution_results \in Seq(Result) /\ Len(execution_results) \in Nat
      /\ Len(execution_results) >= block_size
      /\ \A i \in 1 .. block_size : execution_results[i] = Slot(i - 1)
  BY <1>1, SMTT(30) DEF IInv, BlockInv, SlotsType, SlotsInv
<1>3. block_size' = block_size /\ DOMAIN txs' = DOMAIN txs
  BY <1>1 DEF block_size
<1>4. execution_results' \in Seq(Result) /\ Len(execution_results') = Len(execution_results)
  <2>1. DOMAIN execution_results = 1 .. Len(execution_results)
        /\ \A i \in 1 .. Len(execution_results) : execution_results[i] \in Result
    BY <1>2, SMTT(30)
  <2>2. NoResult \in Result
    BY SMTT(30) DEF NoResult, Result
  <2>3. execution_results' \in [1 .. Len(execution_results) -> Result]
    BY <1>1, <2>1, <2>2
  <2>4. execution_results' \in Seq(Result)
    BY <1>2, <2>3, FunctionIsSeq
  <2>5. 1 .. Len(execution_results') = 1 .. Len(execution_results)
        /\ Len(execution_results') \in Nat
    BY <2>3, <2>4, SeqIsFunction
  <2> QED
    BY <1>2, <2>4, <2>5, SMTT(20)
<1>5. SlotsType'
  BY <1>1, <1>2, <1>4 DEF SlotsType
<1>6. \A i \in 1 .. block_size : execution_results[i] # NoResult
  <2>1. \A i : Slot(i).number = number /\ NoResult.number = 0
    BY DEF Slot, NoResult
  <2> QED
    BY <1>2, <2>1, SMTT(30)
<1>7. \/ outcome' = Err
      \/ outcome' = Ok(SubSeq(execution_results, 1, block_size), States)
  BY <1>6 DEF Collect
<1>8. BlockInv' /\ SlotsInv'
  BY <1>7, Kinds DEF BlockInv, SlotsInv
<1>9. SubSeq(execution_results, 1, block_size) = [i \in 1 .. block_size |-> Slot(i - 1)]
  <2>1. \A i \in 1 .. block_size : execution_results[i] \in Result
    BY <1>2, SMTT(30)
  <2>2. PICK r : r = SubSeq(execution_results, 1, block_size)
    OBVIOUS
  <2>3. /\ r \in Seq(Result) /\ Len(r) = block_size
        /\ \A i \in 1 .. block_size : r[i] = execution_results[i]
    BY <1>2, <2>1, <2>2, FirstOfSeq, SMTT(30)
  <2>4. r \in [1 .. block_size -> Result]
    BY <2>3, SeqIsFunction
  <2>5. r = [i \in 1 .. block_size |-> Slot(i - 1)]
    BY <1>2, <2>3, <2>4
  <2> QED
    BY <2>2, <2>5
<1>10. ResultsOfBlock'
  <2>1. \A i : Slot(i)' = Slot(i)
    BY <1>1 DEF Slot
  <2>2. CASE outcome' = Err
    BY <2>2, Kinds DEF ResultsOfBlock
  <2>3. CASE outcome' = Ok(SubSeq(execution_results, 1, block_size), States)
    <3>1. outcome' # Panicked
      BY <2>3, Kinds
    <3>2. outcome'.results = [i \in 1 .. block_size |-> Slot(i - 1)]
      BY <1>9, <2>3, Kinds
    <3>3. [i \in 1 .. block_size |-> Slot(i - 1)]' = [i \in 1 .. block_size |-> Slot(i - 1)]
      BY <1>3, <2>1
    <3> QED
      BY <3>1, <3>2, <3>3 DEF ResultsOfBlock
  <2> QED
    BY <1>7, <2>2, <2>3
<1> QED
  BY <1>5, <1>8, <1>10 DEF IInv

\* The dropper empties the block; the slots stay.
LEMMA ReturnIInv == ASSUME IInv, Return PROVE IInv'
<1>1. /\ outcome' = Idle /\ txs' = << >> /\ next' = 0
      /\ number' = number /\ execution_results' = execution_results
  BY DEF Return
<1>2. SlotsType'
  BY <1>1 DEF IInv, SlotsType
<1>3. BlockInv' /\ SlotsInv' /\ ResultsOfBlock'
  BY <1>1, Kinds DEF BlockInv, SlotsInv, ResultsOfBlock
<1> QED
  BY <1>2, <1>3 DEF IInv

-----------------------------------------------------------------------------
\* Every step keeps the invariant.
LEMMA StepIInv == ASSUME IInv, [Next]_vars PROVE IInv'
<1>1. CASE ExecuteEmpty
  BY <1>1, EndIInv DEF ExecuteEmpty, Callable
<1>2. CASE Begin
  BY <1>2, BeginIInv
<1>3. CASE ExecuteLazy \/ ExecuteStrict
  BY <1>3, FinishIInv DEF ExecuteLazy, ExecuteStrict
<1>4. CASE Fallback \/ RejectType \/ RejectStrict
  BY <1>4, AbortIInv DEF Fallback, RejectType, RejectStrict, Unacceptable
<1>5. CASE RetryForever
  BY <1>5, EndIInv DEF RetryForever
<1>6. CASE JoinAborted
  <2>1. outcome' \in {Err, Sequential}
    BY <1>6 DEF JoinAborted
  <2> QED
    BY <1>6, <2>1, EndIInv DEF JoinAborted
<1>7. CASE Collect
  BY <1>7, CollectIInv
<1>8. CASE Return
  BY <1>8, ReturnIInv
<1>9. CASE UNCHANGED vars
  BY <1>9 DEF IInv, BlockInv, SlotsType, SlotsInv, ResultsOfBlock, block_size, Slot, vars
<1> QED
  BY <1>1, <1>2, <1>3, <1>4, <1>5, <1>6, <1>7, <1>8, <1>9
     DEF Next, Done

(***************************************************************************)
(* A block returns the results of its own transactions, in their order,    *)
(* whatever blocks the executor ran before and however they ended; the end *)
(* of execute never finds an empty slot.                                   *)
(***************************************************************************)
THEOREM OwnResults == Spec => []ResultsOfBlock
<1>1. IInv => ResultsOfBlock
  BY DEF IInv
<1> QED
  BY <1>1, InitIInv, StepIInv, PTL DEF Spec
=============================================================================
