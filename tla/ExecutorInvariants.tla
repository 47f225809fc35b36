-------------------------- MODULE ExecutorInvariants --------------------------
(***************************************************************************)
(* The predicates the proofs about ParallelExecutor.tla rest on: what the  *)
(* workers do inside their tasks, what the memory holds meanwhile, and     *)
(* who is going to validate a read set that is not valid any more.         *)
(***************************************************************************)
EXTENDS ParallelExecutor, BlockSets

-----------------------------------------------------------------------------
(***************************************************************************)
(* What the workers do inside their tasks.                                 *)
(***************************************************************************)
ExecuteStages == {"record", "recorded", "blocking", "retry", "fallback", "error"}

\* The stages belong to the labels at which the worker has a task.
Staged(th) ==
  /\ DOMAIN work[th] = {"stage", "seen", "reads", "todo", "wrote", "on"}
  /\ work[th].stage \in ExecuteStages \cup {"idle", "check", "convert", "converted"}
  /\ work[th].stage \in ExecuteStages => pc[th] = "execute"
  /\ work[th].stage = "check" => pc[th] = "validate"
  /\ work[th].stage \in {"convert", "converted"} => pc[th] = "estimate"
  /\ work[th].stage = "blocking" => work[th].on \in Tx /\ work[th].on < ver[th].tx_idx
  /\ work[th].wrote \in BOOLEAN
  /\ \E S : work[th].seen \in Seq(S)

\* The worker holds the mutex of the locations of its transaction.
Locks(th) == work[th].stage \in {"record", "check", "convert"}

LocksExclusive ==
  \A th, o \in Threads : th # o /\ Locks(th) /\ Locks(o) => ver[th].tx_idx # ver[o].tx_idx

\* convert_writes_to_estimates marks locations of the write set only.
ConvertsWritten ==
  \A th \in Threads : work[th].stage = "convert" =>
    work[th].todo \subseteq locations[ver[th].tx_idx].write

WorkInv ==
  /\ DOMAIN work = Threads
  /\ \A th \in Threads : Staged(th)
  /\ LocksExclusive
  /\ ConvertsWritten

MemInv ==
  /\ txs \in Blocks
  /\ DOMAIN data = Loc
  /\ \A l \in Loc : DOMAIN data[l] \subseteq Tx
  /\ DOMAIN locations = Tx
  /\ \A k \in Tx : DOMAIN locations[k] = {"read", "write"}
  /\ EntriesOwned

\* The other workers do nothing.
WorkersSame(th) ==
  \A o \in Threads \ {th} : work'[o] = work[o] /\ pc'[o] = pc[o] /\ ver'[o] = ver[o]

-----------------------------------------------------------------------------
(***************************************************************************)
(* Read sets and write sets.                                               *)
(***************************************************************************)
\* What the workers read and record are locations, with lists of origins.
Listed(f) == DOMAIN f \subseteq Loc /\ \A l \in DOMAIN f : \E n \in Nat : DOMAIN f[l] = 1 .. n

RecordedSet(th) == DOMAIN WriteSet(txs[ver[th].tx_idx], work[th].seen)

LocInv ==
  /\ \A t \in Tx : Listed(locations[t].read) /\ locations[t].write \subseteq Loc
  /\ \A th \in Threads : /\ Listed(work[th].reads)
                         /\ work[th].stage = "record" => work[th].todo \subseteq RecordedSet(th)

Marked(l, k) == k \in DOMAIN data[l] /\ data[l][k] = Estimate

Finished == {"Executed", "Validated"}

\* A worker changes, or is about to finish changing, what k has in the memory.
Touches(th, k) ==
  /\ ver[th].tx_idx = k
  /\ \/ pc[th] = "estimate" \/ pc[th] \in HoldsStatus
     \/ work[th].stage \in {"record", "recorded"}

\* The last execution of k was aborted and the next one has not recorded.
Fresh(k) == tx_status[k].status \notin Finished /\ \A th \in Threads : ~Touches(th, k)

\* The current execution of k has recorded everything.
Publishes(th, k) ==
  ver[th].tx_idx = k /\ (pc[th] \in HoldsStatus \/ work[th].stage = "recorded")

Published(k) == tx_status[k].status \in Finished \/ \E th \in Threads : Publishes(th, k)

\* What is done of a record or of a conversion.
StageEntries(th) ==
  LET k    == ver[th].tx_idx
      done == RecordedSet(th) \ work[th].todo
  IN  /\ work[th].stage = "convert" =>
           \A l \in locations[k].write \ work[th].todo : Marked(l, k)
      /\ work[th].stage = "converted" => \A l \in locations[k].write : Marked(l, k)
      /\ work[th].stage = "record" =>
           /\ done \subseteq locations[k].write
           /\ \A l \in locations[k].write \ done : Marked(l, k)
           /\ \A l \in done : ~Marked(l, k)

\* All entries of an aborted transaction are ESTIMATEs, those of a finished one are not.
EntryInv ==
  /\ \A k \in Tx : Fresh(k) => \A l \in locations[k].write : Marked(l, k)
  /\ \A k \in Tx : Published(k) => \A l \in Loc : ~Marked(l, k)
  /\ \A th \in Threads : StageEntries(th)

\* The worker validates location l of the read set of t, or has found it invalid.
Revalidates(th, t, l) ==
  /\ ver[th].tx_idx = t
  /\ \/ pc[th] \in {"peek_val", "ret_val", "try_abort"}
     \/ pc[th] = "validate" /\ (work[th].stage = "check" => l \in work[th].todo)

\* The worker will lower validation_idx to t or below.
Lowers(th, t) ==
  /\ ver[th].tx_idx < t
  /\ \/ pc[th] \in {"estimate", "lower_abort"}
     \/ work[th].stage \in {"record", "recorded"} /\ work[th].wrote
     \/ /\ pc[th] \in {"drain", "drain_idx", "load_val_idx", "lower_next"}
        /\ contains(flags[th], WroteNewLocation)

DueBy(th, t, l) == validation_idx <= t \/ Revalidates(th, t, l) \/ Lowers(th, t)

\* The execution of t is over; finish_execution leaves its validation to others.
Settled(t) ==
  \/ tx_status[t].status \in Finished
  \/ \E th \in Threads : pc[th] = "set_none" /\ ver[th].tx_idx = t

\* A read set that is not valid any more is still to be validated.
StaleReadsDue ==
  abort_reason = "none" =>
    \A t \in Tx : Settled(t) =>
      \A l \in DOMAIN locations[t].read :
        \/ OriginsValid(l, t, locations[t].read[l])
        \/ \E th \in Threads : DueBy(th, t, l)

\* The bound of the fetch_min on validation_idx in finish_execution.
LowerBound ==
  \A th \in Threads :
    /\ pc[th] # "lower_min"
    /\ pc[th] \in {"load_val_idx", "lower_next"} => idx[th] = ver[th].tx_idx + 1

ReadInv == LocInv /\ EntryInv /\ StaleReadsDue /\ LowerBound

-----------------------------------------------------------------------------
(***************************************************************************)
(* Steps.                                                                  *)
(***************************************************************************)
\* A step of a thread leaves the registers of the others alone.
ThreadsSame(th) ==
  \A o \in Threads \ {th} :
    pc'[o] = pc[o] /\ ver'[o] = ver[o] /\ idx'[o] = idx[o] /\ flags'[o] = flags[o]

FinishedSame(k) == tx_status'[k].status \in Finished <=> tx_status[k].status \in Finished

\* A transaction finishes at the end of finish_execution, and a finished one is
\* aborted by the thread that goes on to convert its writes.
StatusMoved(th) ==
  LET k == ver[th].tx_idx
  IN  /\ \A j \in Tx \ {k} : FinishedSame(j)
      /\ \/ FinishedSame(k)
         \/ pc[th] \in HoldsStatus /\ tx_status'[k].status \in Finished
         \/ pc'[th] = "estimate" /\ tx_status'[k].status \notin Finished
      /\ pc[th] \in HoldsStatus =>
           pc'[th] \in HoldsStatus \/ tx_status'[k].status \in Finished
      /\ pc'[th] \in HoldsStatus => pc[th] \in HoldsStatus
      /\ pc'[th] \in HoldsStatus \cup {"estimate"} => ver'[th] = ver[th]
=============================================================================
