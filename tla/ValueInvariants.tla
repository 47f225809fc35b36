---------------------------- MODULE ValueInvariants ----------------------------
(***************************************************************************)
(* The predicates that tie the amounts the executions read to the versions *)
(* they name as origins.  An incarnation writes a location at most once,   *)
(* so a version stands for one value, also when the entry has become an    *)
(* ESTIMATE or is gone: hist is the value of every version, past entries   *)
(* included.                                                               *)
(***************************************************************************)
EXTENDS ExecutorInvariants

Versions == [tx_idx : Tx, tx_incarnation : Nat]

Values == [kind : {"Absolute", "Lazy", "SelfDestructed"}, amount : Int]

History(hist) ==
  /\ hist \in [Loc -> [Versions -> Values]]
  /\ \A l \in CodeLoc : \A v \in Versions : hist[l][v].kind # "Lazy"

\* Incarnation v.tx_incarnation has yet to write l.
Unwritten(l, v) ==
  \/ v.tx_incarnation > tx_status[v.tx_idx].incarnation
  \/ v.tx_incarnation = tx_status[v.tx_idx].incarnation /\ Fresh(v.tx_idx)
  \/ \E th \in Threads : /\ work[th].stage = "record"
                         /\ ver[th] = v
                         /\ l \notin RecordedSet(th) \ work[th].todo

\* The read set f has the origin v at l.
Names(f, l, v) == l \in DOMAIN f /\ \E n \in DOMAIN f[l] : f[l][n] = v

HoldsVersion(l, v) ==
  /\ v.tx_idx \in DOMAIN data[l] /\ data[l][v.tx_idx] # Estimate
  /\ data[l][v.tx_idx].incarnation = v.tx_incarnation

\* Nobody knows a version that has yet to be written.
OriginsWritten ==
  \A l \in Loc : \A v \in Versions : Unwritten(l, v) =>
    /\ ~HoldsVersion(l, v)
    /\ \A th \in Threads : ~Names(work[th].reads, l, v)
    /\ \A t \in Tx : ~Names(locations[t].read, l, v)

-----------------------------------------------------------------------------
\* The entries hold the values of their versions.
EntriesAre(hist) ==
  \A l \in Loc : \A k \in DOMAIN data[l] : data[l][k] # Estimate =>
    \E i \in Nat : data[l][k] = Data(i, hist[l][Version(k, i)])

(***************************************************************************)
(* The amount a read with these origins found: the lazy additions down to  *)
(* an absolute value or to the storage.                                    *)
(***************************************************************************)
FromStorage(o) == o[Len(o)] = StorageOrigin

Amount(hist, l, o) ==
  FoldFunction(LAMBDA n, acc : acc + n, IF FromStorage(o) THEN storage[l] ELSE 0,
               [i \in 1 .. (IF FromStorage(o) THEN Len(o) - 1 ELSE Len(o)) |->
                  hist[l][o[i]].amount])

\* What transaction t read at l: lazy updates down to one that is not.
OriginsOf(hist, t, l, o) ==
  /\ o \in Seq(Versions \cup {StorageOrigin}) /\ o # <<>>
  /\ \A i \in DOMAIN o : o[i].tx_idx < t
  /\ \A i \in 1 .. Len(o) - 1 : o[i] # StorageOrigin /\ hist[l][o[i]].kind = "Lazy"
  /\ FromStorage(o) \/ hist[l][o[Len(o)]].kind # "Lazy"

\* The amounts in seen are those of the first reads of transaction t, program p.
SeenFrom(hist, t, p, seen, reads) ==
  /\ seen \in Seq(Int) /\ Len(seen) <= Len(p.reads)
  /\ \A l \in DOMAIN reads : OriginsOf(hist, t, l, reads[l])
  /\ \A n \in 1 .. Len(seen) :
       /\ p.reads[n] \in DOMAIN reads
       /\ seen[n] = Amount(hist, p.reads[n], reads[p.reads[n]])

Blank(th) == work[th].seen = <<>> /\ work[th].reads = <<>>

\* A worker has read something only while it executes.
BlankUnlessExecuting ==
  \A th \in Threads :
    \/ pc[th] = "execute" /\ work[th].stage \in {"idle", "record", "recorded"}
    \/ Blank(th)

WorkersSaw(hist) ==
  \A th \in Threads :
    LET t == ver[th].tx_idx
    IN  Blank(th) \/ SeenFrom(hist, t, txs[t], work[th].seen, work[th].reads)

-----------------------------------------------------------------------------
\* Program p has read everything, and it is enough.
Executes(p, seen) == Len(seen) = Len(p.reads) /\ Affordable(p, seen)

\* The entry of t at l is what the execution that saw these amounts writes.
EntryOf(l, t, seen) ==
  /\ t \in DOMAIN data[l] /\ data[l][t] # Estimate
  /\ data[l][t].value = WriteSet(txs[t], seen)[l]

Wrote(t, seen) ==
  /\ locations[t].write = DOMAIN WriteSet(txs[t], seen)
  /\ \A l \in locations[t].write : EntryOf(l, t, seen)

RecordSeen(th) ==
  LET t == ver[th].tx_idx
      w == work[th]
  IN  /\ w.stage \in {"record", "recorded"} =>
           Executes(txs[t], w.seen) /\ locations[t].read = w.reads
      /\ w.stage = "record" =>
           \A l \in RecordedSet(th) \ w.todo : EntryOf(l, t, w.seen)
      /\ w.stage = "recorded" => Wrote(t, w.seen)

RecordsSeen == \A th \in Threads : RecordSeen(th)

\* The result of t is in execution_results.
Concluded(t) ==
  \/ tx_status[t].status \in Finished
  \/ \E th \in Threads : pc[th] \in HoldsStatus /\ ver[th].tx_idx = t

ResultsWritten ==
  \A t \in Tx : Concluded(t) =>
    Executes(txs[t], execution_results[t]) /\ Wrote(t, execution_results[t])

ResultsSaw(hist) ==
  \A t \in Tx : Concluded(t) =>
    SeenFrom(hist, t, txs[t], execution_results[t], locations[t].read)

\* ExecutionError is the verdict of the first transaction on the storage.
FirstFails ==
  ~Affordable(txs[0], [i \in DOMAIN txs[0].reads |-> storage[txs[0].reads[i]]])

ErrorsJustified ==
  /\ abort_reason = "ExecutionError" => FirstFails
  /\ \A th \in Threads :
       pc[th] = "ExecutionError" \/ work[th].stage = "error" => FirstFails

-----------------------------------------------------------------------------
SeenInv(hist) ==
  /\ History(hist)
  /\ EntriesAre(hist)
  /\ WorkersSaw(hist)
  /\ ResultsSaw(hist)

AccountInv ==
  /\ DOMAIN execution_results = Tx
  /\ OriginsWritten
  /\ BlankUnlessExecuting
  /\ RecordsSeen
  /\ ResultsWritten
  /\ \E hist : SeenInv(hist)

ValueInv == AccountInv /\ ErrorsJustified

-----------------------------------------------------------------------------
(***************************************************************************)
(* What the steps of the executor use of the theory of folds; they take it *)
(* as a hypothesis, and SerialProofs.tla proves it.                        *)
(***************************************************************************)
\* What a read that succeeds returns: the origins and their amount.
Gives(hist, l, t, o, a) ==
  /\ OriginsOf(hist, t, l, o) /\ a = Amount(hist, l, o)
  /\ \A i \in DOMAIN o : o[i] \in Versions => HoldsVersion(l, o[i])

\* What a read of transaction t returns when it succeeds.
ReadGives(hist, l, t, prior, r) ==
  /\ Gives(hist, l, t, r.origins, r.amount)
  /\ prior # <<>> /\ OriginsOf(hist, t, l, prior) => r.origins = prior

ReadsFolded(hist) ==
  \A l \in Loc : \A t \in Tx : \A prior, r :
    r = Read(l, t, prior) /\ r.result = "Ok" => ReadGives(hist, l, t, prior, r)

AmountsFolded(hist) ==
  \A l \in Loc :
    /\ Amount(hist, l, <<StorageOrigin>>) = storage[l]
    /\ \A t, o : OriginsOf(hist, t, l, o) => Amount(hist, l, o) \in Int

WritesFolded ==
  \A t \in Tx : \A seen \in Seq(Int) : \A l \in DOMAIN WriteSet(txs[t], seen) :
    /\ WriteSet(txs[t], seen)[l] \in Values
    /\ l \in CodeLoc => WriteSet(txs[t], seen)[l].kind # "Lazy"

Folded ==
  /\ WritesFolded
  /\ \A hist : SeenInv(hist) => ReadsFolded(hist) /\ AmountsFolded(hist)
=============================================================================
