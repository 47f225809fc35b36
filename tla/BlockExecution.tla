---------------------------- MODULE BlockExecution ----------------------------
(***************************************************************************)
(* What executing a block promises: the result of execute_sequential       *)
(* (crates/pe/src/executor.rs).  The transactions run one after the other  *)
(* on the state the previous ones left; the first that cannot pay fails    *)
(* the block.                                                              *)
(*                                                                         *)
(* The EVM (revm) is external.  A transaction is a program: the locations  *)
(* it reads, in order, the least amount it must find there, and what it    *)
(* writes, which depends on whether it read anything but zero.  A write is *)
(* an absolute value (an addition to the amounts read), a lazy addition to *)
(* the location itself, as the rewards of apply_rewards are, or the        *)
(* self-destruction of an account, which leaves 0.                         *)
(***************************************************************************)
EXTENDS Block, Locations, Sequences, FiniteSetsExt, Functions

VARIABLES
  txs,      \* [transaction -> program], fixed by the block
  outcome   \* what execute returned

Write(kind, n) == [kind |-> kind, amount |-> n]

Total(seen) == FoldFunction(LAMBDA n, acc : acc + n, 0, seen)

Affordable(p, seen) == Total(seen) >= p.need

\* The write set of a finished execution that read the amounts in seen.
WriteSet(p, seen) ==
  LET writes == IF Total(seen) = 0 THEN p.onZero ELSE p.otherwise
  IN  [l \in DOMAIN writes |->
         IF writes[l].kind = "Absolute"
         THEN Write("Absolute", Total(seen) + writes[l].amount) ELSE writes[l]]

-----------------------------------------------------------------------------
\* One iteration of execute_sequential on the block state st.
SeqStep(st, p) ==
  LET seen == [i \in DOMAIN p.reads |-> st.state[p.reads[i]]]
      ws   == WriteSet(p, seen)
  IN  IF st.ok /\ Affordable(p, seen)
      THEN [ok |-> TRUE,
            results |-> Append(st.results, seen),
            state |-> [l \in Loc |->
                         IF l \notin DOMAIN ws THEN st.state[l]
                         ELSE IF ws[l].kind = "Lazy" THEN st.state[l] + ws[l].amount
                         ELSE ws[l].amount]]
      ELSE [st EXCEPT !.ok = FALSE]

Serial ==
  MapThenFoldSet(LAMBDA p, st : SeqStep(st, p),
                 [ok |-> TRUE, results |-> <<>>, state |-> storage],
                 LAMBDA t : txs[t], Max, Tx)

Running == [kind |-> "Running"]
Err == [kind |-> "Err"]
Ok(results, state) == [kind |-> "Ok", results |-> results, state |-> state]

SerialOutcome == IF Serial.ok THEN Ok(Serial.results, Serial.state) ELSE Err

-----------------------------------------------------------------------------
\* The block is executed: in one step, with the outcome of the serial execution.
BlockInit == outcome = Running

ExecuteBlock ==
  /\ outcome = Running
  /\ outcome' = SerialOutcome
  /\ UNCHANGED txs

BlockSpec == BlockInit /\ [][ExecuteBlock]_<<txs, outcome>>
=============================================================================
