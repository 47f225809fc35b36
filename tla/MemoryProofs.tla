---------------------------- MODULE MemoryProofs ----------------------------
(***************************************************************************)
(* The workers of ParallelExecutor.tla take only steps that Scheduler.tla  *)
(* allows, and keep their stages in order; an abort finds every entry it   *)
(* has to mark (PInv).  They keep LocInv and EntryInv: the entries of the  *)
(* memory are those the statuses and the stages of the workers promise.    *)
(* They keep ReadInv: a read set that is not valid any more will be        *)
(* validated.                                                              *)
(***************************************************************************)
EXTENDS StepProofs

\* The default prover of this module; a leaf with arithmetic names SMT.
USE ZenonT(40)

-----------------------------------------------------------------------------
(***************************************************************************)
(* Reads.  A blocked read names a lower transaction of the block.          *)
(***************************************************************************)
\* The walk through the entries below t is blocked by a lower one.
LEMMA BlockedLower ==
  ASSUME Ordered, NEW l, NEW t \in Tx, DOMAIN data[l] \subseteq Tx, Blocked(l, t)
  PROVE  Stop(l, t) \in Tx /\ Stop(l, t) < t
<1> DEFINE stops == {k \in Entries(l, t) : ~IsLazy(data[l][k])}
<1>1. stops # {} /\ Stop(l, t) = Max(stops)
  BY SMTT(30) DEF Blocked, Stop
<1>2. stops \in SUBSET Tx
  BY DEF Entries
<1>3. Max(stops) \in stops
  <2> HIDE DEF stops
  <2> QED
    BY <1>1, <1>2 DEF Ordered, Max
<1> QED
  BY <1>1, <1>3 DEF Entries

\* A read that blocks is one of VmDB::basic or VmDB::storage.
LEMMA ReadLower ==
  ASSUME Ordered, NEW l, NEW t \in Tx, NEW prior, DOMAIN data[l] \subseteq Tx,
         Read(l, t, prior).result = "Blocking"
  PROVE  Read(l, t, prior).on \in Tx /\ Read(l, t, prior).on < t
<1>1. Read(l, t, prior) = ReadValue(l, t, prior)
  BY DEF Read, ReadCodeHash
<1>2. Blocked(l, t) /\ ReadValue(l, t, prior).on = Stop(l, t)
  BY <1>1, SMTT(30) DEF ReadValue
<1> QED
  BY <1>1, <1>2, BlockedLower

-----------------------------------------------------------------------------
(***************************************************************************)
(* The inductive invariant: the types of the scheduler, what the workers   *)
(* do inside their tasks, and the memory.                                  *)
(***************************************************************************)
PInv == TypeOK /\ WorkInv /\ MemInv

\* No worker has a task and no transaction has recorded in the initial states.
LEMMA InitPInv ==
  ASSUME PInit, TypeOK
  PROVE  PInv
<1>1. DOMAIN work = Threads /\ \A th \in Threads : work[th] = Idle
  BY DEF PInit
<1>2. <<>> \in Seq({})
  BY SMTT(30)
<1>3. ASSUME NEW th \in Threads PROVE Staged(th)
  <2>1. work[th] = Idle /\ Idle.seen = <<>>
    BY <1>1 DEF Idle
  <2>2. \E S : work[th].seen \in Seq(S)
    BY <1>2, <2>1
  <2> QED
    BY <2>1, <2>2, SMTT(30) DEF Staged, Idle, ExecuteStages
<1>4. WorkInv
  BY <1>1, <1>3, SMTT(30) DEF WorkInv, LocksExclusive, ConvertsWritten, Locks, Idle
<1>5. MemInv
  BY DEF PInit, MvInit, MemInv, EntriesOwned
<1> QED
  BY <1>4, <1>5 DEF PInv

\* Every step of a worker is a step of the scheduler or leaves it alone.
LEMMA WorkerSimulates ==
  ASSUME MaxIncarnation = NoBound, PInv, NEW th \in Threads, Worker(th)
  PROVE  [Next]_vars
<1>0. Staged(th)
  BY DEF PInv, WorkInv
<1>1. CASE \/ ReadLocation(th) \/ LackOfFund(th) \/ BeginRecord(th) \/ RecordRemove(th)
           \/ RecordInsert(th) \/ BeginValidate(th) \/ BeginConvert(th) \/ ConvertWrite(th)
  <2>1. UNCHANGED vars
    BY <1>1 DEF ReadLocation, LackOfFund, BeginRecord, RecordRemove, RecordInsert, BeginValidate,
       BeginConvert, ConvertWrite
  <2> QED
    BY <2>1
<1>2. CASE SchedulerOnly(th) \/ ConvertDone(th)
  BY <1>2 DEF SchedulerOnly, ConvertDone, Next, SchedulerStep
<1>3. CASE RecordDone(th)
  <2>1. PICK wrote \in BOOLEAN : FinishExecution(th, ExecFlags(ver[th].tx_idx, FALSE, wrote))
    BY <1>0, <1>3 DEF RecordDone, Staged
  <2>2. Succeed(th)
    BY <2>1 DEF Succeed
  <2> QED
    BY <2>2 DEF Next
<1>4. CASE HandleBlocking(th)
  <2>1. PICK b \in Tx : b < ver[th].tx_idx /\ (LockBlocking(th, b) \/ AddDependencyLate(th, b))
    BY <1>0, <1>4 DEF HandleBlocking, Staged
  <2>2. Setback(th)
    BY <2>1 DEF Setback, MayFail
  <2> QED
    BY <2>2 DEF Next
<1>5. CASE HandleRetry(th) \/ HandleAbort(th)
  <2>1. Setback(th)
    BY <1>5 DEF HandleRetry, HandleAbort, Setback, AbortReason
  <2> QED
    BY <2>1 DEF Next
<1>6. CASE CheckLocation(th) \/ ValidateDone(th)
  <2>1. UNCHANGED vars \/ Setback(th) \/ Succeed(th)
    BY <1>6 DEF CheckLocation, ValidateDone, Setback, Succeed, MayFail
  <2> QED
    BY <2>1 DEF Next
<1> QED
  BY <1>1, <1>2, <1>3, <1>4, <1>5, <1>6 DEF Worker

-----------------------------------------------------------------------------
(***************************************************************************)
(* The memory.                                                             *)
(***************************************************************************)
\* record removes an entry together with its place in the write set.
LEMMA RemoveOwned ==
  ASSUME MemInv, NEW t \in Tx, NEW l, RemoveWrite(t, l), UNCHANGED txs
  PROVE  MemInv'
<1>1. /\ DOMAIN locations' = Tx
      /\ \A k \in Tx : DOMAIN locations'[k] = {"read", "write"}
      /\ \A k \in Tx \ {t} : locations'[k] = locations[k]
      /\ locations'[t].write = locations[t].write \ {l}
  BY DEF MemInv, RemoveWrite
<1>2. DOMAIN data' = Loc /\ \A m \in Loc \ {l} : data'[m] = data[m]
  BY DEF MemInv, RemoveWrite
<1>3. l \in Loc => /\ DOMAIN data'[l] = DOMAIN data[l] \ {t}
                   /\ \A k \in DOMAIN data[l] \ {t} : data'[l][k] = data[l][k]
  BY DEF MemInv, RemoveWrite, Restrict
<1>4. \A m \in Loc : /\ DOMAIN data'[m] \subseteq DOMAIN data[m]
                     /\ \A k \in DOMAIN data'[m] : data'[m][k] = data[m][k]
  BY <1>2, <1>3
<1>5. EntriesOwned'
  <2> SUFFICES ASSUME NEW m \in Loc, NEW k \in DOMAIN data'[m], m \notin locations'[k].write
               PROVE  m = beneficiary /\ data'[m][k] = Estimate
    BY DEF EntriesOwned
  <2>1. k \in Tx /\ k \in DOMAIN data[m] /\ (m = l => k # t)
    BY <1>2, <1>3, <1>4 DEF MemInv
  <2>2. m \notin locations[k].write
    BY <1>1, <2>1
  <2> QED
    BY <1>4, <2>1, <2>2, SMTT(30) DEF MemInv, EntriesOwned
<1> QED
  BY <1>1, <1>2, <1>4, <1>5 DEF MemInv

\* What Put leaves in the memory.
LEMMA PutData ==
  ASSUME MemInv, NEW t \in Tx, NEW l, NEW e, data' = Put(l, t, e)
  PROVE  /\ DOMAIN data' = Loc
         /\ \A m \in Loc : DOMAIN data'[m] \subseteq Tx
         /\ \A m \in Loc : \A k \in DOMAIN data'[m] :
              (k \in DOMAIN data[m] /\ data'[m][k] = data[m][k]) \/ (m = l /\ k = t)
<1>1. DOMAIN data' = Loc /\ \A m \in Loc \ {l} : data'[m] = data[m]
  BY DEF MemInv, Put
<1>2. l \in Loc => /\ DOMAIN data'[l] = DOMAIN data[l] \cup {t}
                   /\ \A k \in DOMAIN data[l] \ {t} : data'[l][k] = data[l][k]
  BY DEF MemInv, Put
<1> QED
  BY <1>1, <1>2 DEF MemInv

\* record adds the location of an entry to the write set.
LEMMA InsertOwned ==
  ASSUME MemInv, NEW t \in Tx, NEW i, NEW l, NEW v, InsertWrite(t, i, l, v), UNCHANGED txs
  PROVE  MemInv'
<1>1. /\ DOMAIN locations' = Tx
      /\ \A k \in Tx : DOMAIN locations'[k] = {"read", "write"}
      /\ \A k \in Tx : locations[k].write \subseteq locations'[k].write
      /\ l \in locations'[t].write
  BY DEF MemInv, InsertWrite
<1>2. PICK e : data' = Put(l, t, e)
  BY DEF InsertWrite
<1>3. /\ DOMAIN data' = Loc
      /\ \A m \in Loc : DOMAIN data'[m] \subseteq Tx
      /\ \A m \in Loc : \A k \in DOMAIN data'[m] :
           (k \in DOMAIN data[m] /\ data'[m][k] = data[m][k]) \/ (m = l /\ k = t)
  BY <1>2, PutData
<1>4. EntriesOwned'
  BY <1>1, <1>3, SMTT(30) DEF MemInv, EntriesOwned
<1> QED
  BY <1>1, <1>3, <1>4 DEF MemInv

\* An abort marks locations of the write set.
LEMMA MarkOwned ==
  ASSUME MemInv, NEW t \in Tx, NEW l, l \in locations[t].write, MarkEstimate(t, l), UNCHANGED txs
  PROVE  MemInv'
<1>1. locations' = locations /\ data' = Put(l, t, Estimate)
  BY DEF MarkEstimate
<1>2. /\ DOMAIN data' = Loc
      /\ \A m \in Loc : DOMAIN data'[m] \subseteq Tx
      /\ \A m \in Loc : \A k \in DOMAIN data'[m] :
           (k \in DOMAIN data[m] /\ data'[m][k] = data[m][k]) \/ (m = l /\ k = t)
  BY <1>1, PutData
<1>3. EntriesOwned'
  BY <1>1, <1>2, SMTT(30) DEF MemInv, EntriesOwned
<1> QED
  BY <1>1, <1>2, <1>3 DEF MemInv

\* Every step of a worker keeps the memory's invariant.
LEMMA MemStep ==
  ASSUME PInv, NEW th \in Threads, Worker(th)
  PROVE  MemInv'
<1>0. MemInv /\ ver[th].tx_idx \in Tx /\ ConvertsWritten
  BY DEF PInv, TypeOK, WorkInv
<1>1. CASE UNCHANGED <<data, locations, txs>>
  BY <1>0, <1>1 DEF MemInv, EntriesOwned
<1>2. CASE BeginRecord(th)
  <2>1. /\ data' = data /\ txs' = txs /\ DOMAIN locations' = Tx
        /\ \A k \in Tx : /\ DOMAIN locations'[k] = {"read", "write"}
                         /\ locations'[k].write = locations[k].write
    BY <1>0, <1>2 DEF BeginRecord, SetReadSet, MemInv
  <2> QED
    BY <1>0, <2>1, SMTT(30) DEF MemInv, EntriesOwned
<1>3. CASE RecordRemove(th)
  BY <1>0, <1>3, RemoveOwned DEF RecordRemove
<1>4. CASE RecordInsert(th)
  BY <1>0, <1>4, InsertOwned DEF RecordInsert
<1>5. CASE ConvertWrite(th)
  <2>1. PICK l \in work[th].todo : MarkEstimate(ver[th].tx_idx, l)
    BY <1>5 DEF ConvertWrite
  <2>2. l \in locations[ver[th].tx_idx].write /\ txs' = txs
    BY <1>0, <1>5, <2>1 DEF ConvertWrite, ConvertsWritten
  <2> QED
    BY <1>0, <2>1, <2>2, MarkOwned
<1> QED
  BY <1>1, <1>2, <1>3, <1>4, <1>5 DEF Worker, mvVars, SchedulerOnly, ReadLocation, LackOfFund,
     RecordDone, HandleBlocking, HandleRetry, HandleAbort, BeginValidate, CheckLocation,
     ValidateDone, BeginConvert, ConvertDone

-----------------------------------------------------------------------------
(***************************************************************************)
(* The stages of the workers.                                              *)
(***************************************************************************)
\* What is left to show of WorkInv when worker th moves.
LEMMA WorkKept ==
  ASSUME WorkInv, NEW th \in Threads, DOMAIN work' = Threads, WorkersSame(th), Staged(th)',
         Locks(th)' => \A o \in Threads \ {th} : Locks(o) => ver[o].tx_idx # ver'[th].tx_idx,
         \A o \in Threads \ {th} : work[o].stage = "convert" =>
           locations[ver[o].tx_idx].write \subseteq locations'[ver[o].tx_idx].write,
         work'[th].stage = "convert" =>
           work'[th].todo \subseteq locations'[ver'[th].tx_idx].write
  PROVE  WorkInv'
<1>1. \A o \in Threads \ {th} : Staged(o)' /\ (Locks(o)' <=> Locks(o))
  BY SMTT(30) DEF WorkInv, WorkersSame, Staged, Locks
<1>2. \A o \in Threads : Staged(o)'
  BY <1>1
<1>3. LocksExclusive'
  BY <1>1, SMTT(30) DEF WorkInv, LocksExclusive, WorkersSame
<1>4. ConvertsWritten'
  BY DEF WorkInv, ConvertsWritten, WorkersSame
<1> QED
  BY <1>2, <1>3, <1>4 DEF WorkInv

\* A worker that is done with its locations.
LEMMA WorkIdle ==
  ASSUME WorkInv, NEW th \in Threads, Set(th, Idle), UNCHANGED locations,
         \A o \in Threads \ {th} : pc'[o] = pc[o] /\ ver'[o] = ver[o]
  PROVE  WorkInv'
<1>1. DOMAIN work' = Threads /\ WorkersSame(th) /\ work'[th] = Idle
  BY DEF WorkInv, Set, WorkersSame
<1>2. <<>> \in Seq({}) /\ Idle.seen = <<>>
  BY SMTT(30) DEF Idle
<1>3. \E S : work'[th].seen \in Seq(S)
  BY <1>1, <1>2
<1>4. Staged(th)' /\ ~Locks(th)' /\ work'[th].stage # "convert"
  BY <1>1, <1>3, SMTT(30) DEF Staged, Idle, ExecuteStages, Locks
<1> QED
  BY <1>1, <1>4, WorkKept

\* A worker that moves on inside its task, the locations left alone.
LEMMA WorkMoved ==
  ASSUME WorkInv, NEW th \in Threads, NEW w, Set(th, w), UNCHANGED <<pc, ver>>,
         Staged(th)', 
         w.stage \in {"record", "check", "convert"} =>
           Locks(th) \/ ~LocationsLocked(ver[th].tx_idx),
         \A k \in Tx : locations[k].write \subseteq locations'[k].write,
         \A o \in Threads : ver[o].tx_idx \in Tx,
         w.stage = "convert" => w.todo \subseteq locations'[ver[th].tx_idx].write
  PROVE  WorkInv'
<1>1. DOMAIN work' = Threads /\ WorkersSame(th) /\ work'[th] = w
  BY DEF WorkInv, Set, WorkersSame
<1>2. Locks(th)' => \A o \in Threads \ {th} : Locks(o) => ver[o].tx_idx # ver'[th].tx_idx
  BY <1>1 DEF WorkInv, LocksExclusive, LocationsLocked, Locks
<1> QED
  BY <1>1, <1>2, WorkKept

\* A worker whose execution has stopped short of its writes.
LEMMA StoppedStaged ==
  ASSUME NEW th \in Threads, pc'[th] = "execute", DOMAIN work'[th] = DOMAIN Idle,
         work'[th].stage \in {"blocking", "retry", "fallback", "error"},
         work'[th].stage = "blocking" => work'[th].on \in Tx /\ work'[th].on < ver'[th].tx_idx,
         work'[th].wrote = FALSE, work'[th].seen = <<>>
  PROVE  Staged(th)'
<1>1. <<>> \in Seq({})
  BY SMTT(30)
<1>2. \E S : work'[th].seen \in Seq(S)
  BY <1>1
<1> QED
  BY <1>2 DEF Staged, Idle, ExecuteStages

\* Reads: a read that blocks waits for a lower transaction.
LEMMA ReadStep ==
  ASSUME Ordered, PInv, NEW th \in Threads, ReadLocation(th)
  PROVE  WorkInv'
<1> DEFINE t == ver[th].tx_idx
           p == txs[t]
           l == p.reads[Len(work[th].seen) + 1]
           r == Read(l, t, Prior(work[th], l))
<1>0. WorkInv /\ MemInv /\ t \in Tx /\ (\A o \in Threads : ver[o].tx_idx \in Tx) /\ Staged(th)
  BY DEF PInv, TypeOK, WorkInv
<1>1. /\ pc[th] = "execute" /\ work[th].stage = "idle" /\ Len(work[th].seen) < Len(p.reads)
      /\ UNCHANGED <<pc, ver, locations>>
  BY DEF ReadLocation, Executing, vars, mvVars
<1>2. l \in Loc
  <2>1. p.reads \in Seq(Loc)
    BY <1>0, BlocksAssumption DEF MemInv
  <2>2. Len(work[th].seen) \in Nat
    <3>1. PICK S : work[th].seen \in Seq(S)
      BY <1>0 DEF Staged
    <3> QED
      BY <3>1, SMTT(30)
  <2> QED
    BY <1>1, <2>1, <2>2, SMTT(30), ZenonT(40)
<1>3. r.result = "Blocking" => r.on \in Tx /\ r.on < t
  <2>1. DOMAIN data[l] \subseteq Tx
    BY <1>0, <1>2 DEF MemInv
  <2> HIDE DEF l, t
  <2> QED
    BY <1>0, <2>1, ReadLower
<1>4. ASSUME NEW w, Set(th, w), Staged(th)', w.stage \notin {"record", "check", "convert"}
      PROVE  WorkInv'
  BY <1>0, <1>1, <1>4, WorkMoved
<1>5. \A w : Set(th, w) => work'[th] = w
  BY <1>0 DEF WorkInv, Set
<1>6. CASE r.result = "Ok"
  <2>1. PICK a, reads : Set(th, [work[th] EXCEPT !.seen = Append(@, a), !.reads = reads])
    BY <1>6 DEF ReadLocation
  <2> DEFINE w == [work[th] EXCEPT !.seen = Append(@, a), !.reads = reads]
  <2>2. /\ DOMAIN w = DOMAIN work[th] /\ w.stage = "idle" /\ w.wrote = work[th].wrote
        /\ w.seen = Append(work[th].seen, a)
    BY <1>0, <1>1 DEF Staged
  <2>3. PICK S : work[th].seen \in Seq(S)
    BY <1>0 DEF Staged
  <2>4. Append(work[th].seen, a) \in Seq(S \cup {a})
    BY <2>3, SMTT(30)
  <2>5. work'[th] = w
    BY <1>5, <2>1
  <2> HIDE DEF w
  <2>6. \E T : work'[th].seen \in Seq(T)
    BY <2>2, <2>4, <2>5
  <2>7. Staged(th)'
    BY <1>0, <2>2, <2>5, <2>6 DEF Staged, ExecuteStages
  <2> QED
    BY <1>4, <2>1, <2>2, <2>7 DEF w
<1>7. CASE r.result = "Blocking"
  <2> DEFINE w == [Idle EXCEPT !.stage = "blocking", !.on = r.on]
  <2>1. Set(th, w)
    BY <1>7 DEF ReadLocation
  <2>2. /\ DOMAIN w = DOMAIN Idle /\ w.stage = "blocking" /\ w.on = r.on /\ w.wrote = FALSE
        /\ w.seen = <<>>
    BY DEF Idle
  <2>3. work'[th] = w
    BY <1>5, <2>1
  <2> HIDE DEF w, r
  <2>4. Staged(th)'
    BY <1>1, <1>3, <1>7, <2>2, <2>3, StoppedStaged
  <2> QED
    BY <1>4, <2>1, <2>2, <2>4
<1>8. CASE r.result \in {"InconsistentRead", "SelfDestructed"}
  <2>1. PICK s \in {"retry", "fallback"} : Set(th, [Idle EXCEPT !.stage = s])
    BY <1>8 DEF ReadLocation
  <2> DEFINE w == [Idle EXCEPT !.stage = s]
  <2>2. DOMAIN w = DOMAIN Idle /\ w.stage = s /\ w.wrote = FALSE /\ w.seen = <<>>
    BY DEF Idle
  <2>3. work'[th] = w
    BY <1>5, <2>1
  <2> HIDE DEF w
  <2>4. Staged(th)'
    BY <1>1, <2>2, <2>3, StoppedStaged
  <2> QED
    BY <1>4, <2>1, <2>2, <2>4 DEF w
<1> QED
  BY <1>6, <1>7, <1>8 DEF ReadLocation

\* A transaction that cannot pay waits for the preceding one.
LEMMA FundStep ==
  ASSUME PInv, NEW th \in Threads, LackOfFund(th)
  PROVE  WorkInv'
<1> DEFINE t == ver[th].tx_idx
           w == IF t > 0 THEN [Idle EXCEPT !.stage = "blocking", !.on = t - 1]
                ELSE [Idle EXCEPT !.stage = "error"]
<1>0. WorkInv /\ t \in Tx /\ (\A o \in Threads : ver[o].tx_idx \in Tx)
  BY DEF PInv, TypeOK, WorkInv
<1>1. pc[th] = "execute" /\ UNCHANGED <<pc, ver, locations>> /\ Set(th, w)
  BY DEF LackOfFund, ReadsDone, Executing, vars, mvVars
<1>2. t > 0 => t - 1 \in Tx /\ t - 1 < t
  BY <1>0, BlockSizeAssumption, SMTT(30) DEF Tx
<1>3. /\ DOMAIN w = DOMAIN Idle /\ w.stage \in {"blocking", "error"} /\ w.wrote = FALSE
      /\ w.seen = <<>> /\ (w.stage = "blocking" => w.on \in Tx /\ w.on < t)
  BY <1>2 DEF Idle
<1>4. work'[th] = w
  BY <1>0, <1>1 DEF WorkInv, Set
<1> HIDE DEF w
<1>5. Staged(th)'
  BY <1>1, <1>3, <1>4, StoppedStaged
<1> QED
  BY <1>0, <1>1, <1>3, <1>5, WorkMoved

\* The steps of record, which holds the mutex of the locations.
LEMMA RecordStep ==
  ASSUME PInv, NEW th \in Threads, BeginRecord(th) \/ RecordRemove(th) \/ RecordInsert(th)
  PROVE  WorkInv'
<1> DEFINE t == ver[th].tx_idx
<1>0. /\ WorkInv /\ MemInv /\ t \in Tx /\ (\A o \in Threads : ver[o].tx_idx \in Tx)
      /\ Staged(th) /\ LocksExclusive
  BY DEF PInv, TypeOK, WorkInv
<1>1. UNCHANGED <<pc, ver>>
  BY DEF BeginRecord, RecordRemove, RecordInsert, vars
<1>2. CASE BeginRecord(th)
  <2>1. PICK todo : Set(th, [work[th] EXCEPT !.stage = "record", !.todo = todo])
    BY <1>2 DEF BeginRecord
  <2> DEFINE w == [work[th] EXCEPT !.stage = "record", !.todo = todo]
  <2>2. /\ DOMAIN w = DOMAIN work[th] /\ w.stage = "record" /\ w.wrote = work[th].wrote
        /\ w.seen = work[th].seen
    BY <1>0 DEF Staged
  <2>3. work'[th] = w /\ Set(th, w)
    BY <1>0, <2>1 DEF WorkInv, Set
  <2> HIDE DEF w
  <2>4. pc[th] = "execute" /\ ~LocationsLocked(t)
    BY <1>2 DEF BeginRecord, ReadsDone, Executing
  <2>5. Staged(th)'
    BY <1>0, <1>1, <2>2, <2>3, <2>4 DEF Staged, ExecuteStages
  <2>6. \A k \in Tx : locations[k].write \subseteq locations'[k].write
    BY <1>0, <1>2 DEF BeginRecord, SetReadSet, MemInv
  <2> QED
    BY <1>0, <1>1, <2>2, <2>3, <2>4, <2>5, <2>6, WorkMoved
<1>3. CASE RecordRemove(th)
  <2>1. work' = work /\ work[th].stage = "record" /\ \E l : RemoveWrite(t, l)
    BY <1>3 DEF RecordRemove
  <2>2. \A k \in Tx \ {t} : locations'[k] = locations[k]
    BY <1>0, <2>1 DEF MemInv, RemoveWrite
  <2>3. \A o \in Threads \ {th} : Locks(o) => ver[o].tx_idx # t
    BY <1>0, <2>1 DEF LocksExclusive, Locks
  <2>4. /\ DOMAIN work' = Threads /\ WorkersSame(th) /\ Staged(th)'
        /\ work'[th].stage = "record"
    BY <1>0, <1>1, <2>1 DEF WorkInv, WorkersSame, Staged
  <2>5. \A o \in Threads \ {th} : work[o].stage = "convert" =>
          locations[ver[o].tx_idx].write \subseteq locations'[ver[o].tx_idx].write
    BY <1>0, <2>2, <2>3 DEF Locks
  <2> QED
    BY <1>0, <1>1, <2>3, <2>4, <2>5, WorkKept
<1>4. CASE RecordInsert(th)
  <2> DEFINE W(l) == [work[th] EXCEPT !.stage = IF work[th].todo = {l} THEN "recorded" ELSE @,
                                      !.todo = @ \ {l},
                                      !.wrote = @ \/ l \notin locations[t].write]
  <2>1. PICK l \in work[th].todo :
          /\ InsertWrite(t, ver[th].tx_incarnation, l, WriteSet(txs[t], work[th].seen)[l])
          /\ Set(th, W(l))
    BY <1>4 DEF RecordInsert
  <2> DEFINE w == W(l)
  <2>2. /\ DOMAIN w = DOMAIN work[th] /\ w.stage \in {"record", "recorded"}
        /\ w.wrote \in BOOLEAN /\ w.seen = work[th].seen
    BY <1>0, <1>4 DEF Staged, RecordInsert
  <2>3. work'[th] = w /\ Set(th, w)
    BY <1>0, <2>1 DEF WorkInv, Set
  <2> HIDE DEF w
  <2>4. pc[th] = "execute" /\ Locks(th)
    BY <1>0, <1>4 DEF RecordInsert, Staged, ExecuteStages, Locks
  <2>5. Staged(th)'
    BY <1>0, <1>1, <2>2, <2>3, <2>4 DEF Staged, ExecuteStages
  <2>6. \A k \in Tx : locations[k].write \subseteq locations'[k].write
    BY <1>0, <2>1 DEF InsertWrite, MemInv
  <2> QED
    BY <1>0, <1>1, <2>2, <2>3, <2>4, <2>5, <2>6, WorkMoved
<1> QED
  BY <1>2, <1>3, <1>4

\* The steps of validate_read_locations and convert_writes_to_estimates.
LEMMA CheckStep ==
  ASSUME PInv, NEW th \in Threads, UNCHANGED vars,
         BeginValidate(th) \/ CheckLocation(th) \/ BeginConvert(th) \/ ConvertWrite(th)
  PROVE  WorkInv'
<1> DEFINE t == ver[th].tx_idx
<1>0. /\ WorkInv /\ t \in Tx /\ (\A o \in Threads : ver[o].tx_idx \in Tx)
      /\ Staged(th) /\ ConvertsWritten
  BY DEF PInv, TypeOK, WorkInv
<1>1. UNCHANGED <<pc, ver, locations>>
  BY DEF vars, mvVars, BeginValidate, CheckLocation, BeginConvert, ConvertWrite, MarkEstimate
<1>2. <<>> \in Seq({}) /\ Idle.seen = <<>>
  BY SMTT(30) DEF Idle
<1>3. ASSUME NEW s \in {"check", "convert"}, NEW todo, ~LocationsLocked(t),
             Set(th, [Idle EXCEPT !.stage = s, !.todo = todo]),
             s = "check" => pc[th] = "validate",
             s = "convert" => pc[th] = "estimate" /\ todo = locations[t].write
      PROVE  WorkInv'
  <2> DEFINE w == [Idle EXCEPT !.stage = s, !.todo = todo]
  <2>2. /\ DOMAIN w = DOMAIN Idle /\ w.stage = s /\ w.wrote = FALSE /\ w.seen = <<>>
        /\ w.todo = todo
    BY DEF Idle
  <2>3. work'[th] = w /\ Set(th, w)
    BY <1>0, <1>3 DEF WorkInv, Set
  <2> HIDE DEF w
  <2>4. \E S : work'[th].seen \in Seq(S)
    BY <1>2, <2>2, <2>3
  <2>5. Staged(th)'
    BY <1>1, <1>3, <2>2, <2>3, <2>4 DEF Staged, ExecuteStages, Idle
  <2> QED
    BY <1>0, <1>1, <1>3, <2>2, <2>3, <2>5, WorkMoved
<1>4. CASE BeginValidate(th)
  <2>1. /\ Set(th, [Idle EXCEPT !.stage = "check", !.todo = DOMAIN locations[t].read])
        /\ pc[th] = "validate" /\ ~LocationsLocked(t)
    BY <1>4 DEF BeginValidate
  <2> QED
    BY <1>3, <2>1
<1>5. CASE BeginConvert(th)
  <2>1. /\ Set(th, [Idle EXCEPT !.stage = "convert", !.todo = locations[t].write])
        /\ pc[th] = "estimate" /\ ~LocationsLocked(t)
    BY <1>5 DEF BeginConvert
  <2> QED
    BY <1>3, <2>1
<1>6. CASE CheckLocation(th) /\ ~Set(th, Idle)
  <2>1. PICK l : Set(th, [work[th] EXCEPT !.todo = @ \ {l}])
    BY <1>6 DEF CheckLocation
  <2> DEFINE w == [work[th] EXCEPT !.todo = @ \ {l}]
  <2>2. /\ DOMAIN w = DOMAIN work[th] /\ w.stage = "check" /\ w.wrote = work[th].wrote
        /\ w.seen = work[th].seen
    BY <1>0, <1>6 DEF Staged, CheckLocation
  <2>3. work'[th] = w /\ Set(th, w)
    BY <1>0, <2>1 DEF WorkInv, Set
  <2> HIDE DEF w
  <2>4. Locks(th) /\ pc[th] = "validate"
    BY <1>0, <1>6 DEF CheckLocation, Locks, Staged
  <2>5. Staged(th)'
    BY <1>0, <1>1, <2>2, <2>3, <2>4 DEF Staged, ExecuteStages
  <2> QED
    BY <1>0, <1>1, <2>2, <2>3, <2>4, <2>5, WorkMoved
<1>7. CASE Set(th, Idle)
  BY <1>0, <1>1, <1>7, WorkIdle
<1>8. CASE ConvertWrite(th)
  <2>1. /\ work[th].stage = "convert" /\ pc[th] = "estimate"
        /\ work[th].todo \subseteq locations[t].write
    BY <1>0, <1>8 DEF ConvertWrite, Staged, ConvertsWritten
  <2>2. CASE Set(th, [Idle EXCEPT !.stage = "converted"])
    <3> DEFINE w == [Idle EXCEPT !.stage = "converted"]
    <3>1. DOMAIN w = DOMAIN Idle /\ w.stage = "converted" /\ w.wrote = FALSE /\ w.seen = <<>>
      BY DEF Idle
    <3>2. work'[th] = w /\ Set(th, w)
      BY <1>0, <2>2 DEF WorkInv, Set
    <3> HIDE DEF w
    <3>3. \E S : work'[th].seen \in Seq(S)
      BY <1>2, <3>1, <3>2
    <3>4. Staged(th)'
      BY <1>1, <2>1, <3>1, <3>2, <3>3 DEF Staged, ExecuteStages, Idle
    <3> QED
      BY <1>0, <1>1, <3>1, <3>2, <3>4, WorkMoved
  <2>3. CASE \E l : Set(th, [work[th] EXCEPT !.todo = @ \ {l}])
    <3>1. PICK l : Set(th, [work[th] EXCEPT !.todo = @ \ {l}])
      BY <2>3
    <3> DEFINE w == [work[th] EXCEPT !.todo = @ \ {l}]
    <3>2. /\ DOMAIN w = DOMAIN work[th] /\ w.stage = "convert" /\ w.wrote = work[th].wrote
          /\ w.seen = work[th].seen /\ w.todo \subseteq work[th].todo
      BY <1>0, <2>1 DEF Staged
    <3>3. work'[th] = w /\ Set(th, w)
      BY <1>0, <3>1 DEF WorkInv, Set
    <3> HIDE DEF w
    <3>4. Staged(th)'
      BY <1>0, <1>1, <2>1, <3>2, <3>3 DEF Staged, ExecuteStages
    <3>5. Locks(th) /\ w.todo \subseteq locations'[t].write
      BY <1>1, <2>1, <3>2 DEF Locks
    <3> QED
      BY <1>0, <1>1, <3>2, <3>3, <3>4, <3>5, WorkMoved
  <2> QED
    BY <1>8, <2>2, <2>3 DEF ConvertWrite
<1> QED
  BY <1>6, <1>7, <1>8, <1>4, <1>5

\* Every step of a worker keeps the stages in order.
LEMMA WorkStep ==
  ASSUME Ordered, PInv, NEW th \in Threads, Worker(th)
  PROVE  WorkInv'
<1>0. TypeOK /\ WorkInv /\ Staged(th)
  BY DEF PInv, WorkInv
<1>1. CASE SchedulerOnly(th)
  <2>1. /\ \A o \in Threads \ {th} : pc'[o] = pc[o] /\ ver'[o] = ver[o]
        /\ pc[th] \notin {"execute", "validate", "estimate"}
    BY <1>0, <1>1, SchedulerThreads, SchedulerIdle DEF SchedulerOnly, ThreadsSame
  <2>2. work' = work /\ locations' = locations
    BY <1>1 DEF SchedulerOnly, mvVars
  <2>3. work[th].stage = "idle"
    BY <1>0, <2>1 DEF Staged
  <2>4. DOMAIN work' = Threads /\ WorkersSame(th) /\ Staged(th)' /\ ~Locks(th)'
    BY <1>0, <2>1, <2>2, <2>3 DEF WorkInv, WorkersSame, Staged, ExecuteStages, Locks
  <2> QED
    BY <1>0, <2>2, <2>3, <2>4, WorkKept
<1>2. CASE \/ RecordDone(th) \/ HandleBlocking(th) \/ HandleRetry(th) \/ HandleAbort(th)
           \/ ValidateDone(th) \/ ConvertDone(th) \/ (CheckLocation(th) /\ ReadSetChecked(th, FALSE))
  <2>1. \A o \in Threads \ {th} : pc'[o] = pc[o] /\ ver'[o] = ver[o]
    <3>1. Outcome(th)
      BY <1>2 DEF RecordDone, HandleBlocking, HandleRetry, HandleAbort, ValidateDone, ConvertDone,
         Outcome, AbortReason
    <3> QED
      BY <1>0, <3>1, OutcomeThreads DEF ThreadsSame
  <2>2. locations' = locations
    BY <1>2 DEF RecordDone, HandleBlocking, HandleRetry, HandleAbort, ValidateDone, ConvertDone,
       CheckLocation, mvVars
  <2>3. CASE Set(th, Idle)
    BY <1>0, <2>1, <2>2, <2>3, WorkIdle
  <2>4. CASE ~Set(th, Idle)
    <3>1. CheckLocation(th) /\ UNCHANGED vars
      BY <1>2, <2>4 DEF RecordDone, HandleBlocking, HandleRetry, HandleAbort, ValidateDone,
         ConvertDone, CheckLocation
    <3> QED
      BY <3>1, CheckStep
  <2> QED
    BY <2>3, <2>4
<1>3. CASE CheckLocation(th) /\ ~ReadSetChecked(th, FALSE)
  <2>1. UNCHANGED vars
    BY <1>3 DEF CheckLocation
  <2> QED
    BY <1>3, <2>1, CheckStep
<1>4. CASE BeginValidate(th) \/ BeginConvert(th) \/ ConvertWrite(th)
  <2>1. UNCHANGED vars
    BY <1>4 DEF BeginValidate, BeginConvert, ConvertWrite
  <2> QED
    BY <1>4, <2>1, CheckStep
<1> QED
  BY <1>1, <1>2, <1>3, <1>4, ReadStep, FundStep, RecordStep DEF Worker

-----------------------------------------------------------------------------
\* Collecting the results, and the time after, leave the scheduler and the memory alone.
LEMMA CollectStep ==
  ASSUME PInv, Collect \/ UNCHANGED peVars
  PROVE  PInv' /\ UNCHANGED vars
<1>1. UNCHANGED <<vars, data, locations, txs, work>>
  BY DEF Collect, peVars, mvVars
<1>2. UNCHANGED vars
  BY <1>1
<1>3. TypeOK'
  <2>1. UNCHANGED <<tx_status, tx_dependency, execution_idx, validation_idx, min_validation_idx>>
    BY <1>2 DEF vars, txVars, indices
  <2>2. UNCHANGED <<num_validated, aborted, abort_reason, pc, ver, idx, flags>>
    BY <1>2 DEF vars, txVars, indices, abortVars
  <2> QED
    BY <2>1, <2>2 DEF PInv, TypeOK
<1>4. WorkInv'
  BY <1>1, SMTT(30) DEF PInv, WorkInv, Staged, LocksExclusive, ConvertsWritten, Locks, vars
<1>5. MemInv'
  BY <1>1 DEF PInv, MemInv, EntriesOwned
<1> QED
  BY <1>2, <1>3, <1>4, <1>5 DEF PInv

\* Every step keeps the invariant and is a step of the scheduler.
LEMMA PStep ==
  ASSUME Ordered, MaxIncarnation = NoBound, PInv, [Next]_vars => TypeOK', [PNext]_peVars
  PROVE  PInv' /\ [Next]_vars
<1>1. ASSUME NEW th \in Threads, Worker(th) PROVE PInv' /\ [Next]_vars
  <2>1. [Next]_vars
    BY <1>1, WorkerSimulates
  <2>2. TypeOK'
    BY <2>1
  <2> QED
    BY <1>1, <2>1, <2>2, WorkStep, MemStep DEF PInv
<1>2. CASE Collect \/ UNCHANGED peVars
  BY <1>2, CollectStep
<1> QED
  BY <1>1, <1>2 DEF PNext, Returned

-----------------------------------------------------------------------------
(***************************************************************************)
(* LocInv.                                                                 *)
(***************************************************************************)
\* A location has finitely many entries.
LEMMA EntriesFinite ==
  ASSUME Counted, NEW l, NEW t, DOMAIN data[l] \subseteq Tx
  PROVE  /\ Entries(l, t) \subseteq Int /\ Entries(l, t) \subseteq Tx
         /\ \A S \in SUBSET Entries(l, t) : Cardinality(S) \in Nat
<1>1. Entries(l, t) \subseteq Tx
  BY DEF Entries
<1>2. Tx \subseteq Int
  BY BlockSizeAssumption, SMTT(30) DEF Tx
<1> QED
  BY <1>1, <1>2 DEF Counted

\* A read reports a list of origins.
LEMMA ReadListed ==
  ASSUME Counted, NEW l, NEW t \in Tx, NEW prior, DOMAIN data[l] \subseteq Tx,
         Read(l, t, prior).result = "Ok"
  PROVE  \E n \in Nat : DOMAIN Read(l, t, prior).origins = 1 .. n
<1>1. CASE l \in CodeLoc
  <2>1. PICK x : Read(l, t, prior).origins = <<x>>
    BY <1>1 DEF Read, ReadCodeHash
  <2>2. DOMAIN <<x>> = 1 .. 1
    BY SMTT(30)
  <2> QED
    BY <2>1, <2>2
<1>2. CASE l \notin CodeLoc
  <2> DEFINE w == WalkOrigins(l, t)
             n == Cardinality(Taken(l, t))
  <2>1. n \in Nat
    BY EntriesFinite DEF Taken
  <2>2. DOMAIN w = 1 .. n
    BY DEF WalkOrigins
  <2>3. Read(l, t, prior).origins = w \/ Read(l, t, prior).origins = Append(w, StorageOrigin)
    BY <1>2 DEF Read, ReadValue
  <2> HIDE DEF n, w
  <2>4. Len(w) = n
    BY <2>1, <2>2, SMTT(30)
  <2>5. DOMAIN Append(w, StorageOrigin) = 1 .. (n + 1)
    BY <2>4, SMTT(30)
  <2> QED
    BY <2>1, <2>2, <2>3, <2>5, SMTT(30)
<1> QED
  BY <1>1, <1>2

\* What is left to show of LocInv when worker th moves.
LEMMA LocKept ==
  ASSUME LocInv, NEW th \in Threads, Frame(th),
         \A t \in Tx : Listed(locations'[t].read) /\ locations'[t].write \subseteq Loc,
         Listed(work'[th].reads),
         work'[th].stage = "record" => work'[th].todo \subseteq RecordedSet(th)'
  PROVE  LocInv'
<1>1. ASSUME NEW o \in Threads \ {th}
      PROVE  /\ Listed(work'[o].reads)
             /\ work'[o].stage = "record" => work'[o].todo \subseteq RecordedSet(o)'
  <2>1. work'[o] = work[o] /\ ver'[o] = ver[o] /\ txs' = txs
    BY DEF Frame, ThreadsSame
  <2>2. RecordedSet(o)' = RecordedSet(o)
    BY <2>1 DEF RecordedSet
  <2>3. Listed(work[o].reads) /\ (work[o].stage = "record" => work[o].todo \subseteq RecordedSet(o))
    BY DEF LocInv
  <2> QED
    BY <2>1, <2>2, <2>3
<1> QED
  BY <1>1 DEF LocInv

\* The worker is not in the middle of a record and has not recorded.
LEMMA LocSame ==
  ASSUME LocInv, NEW th \in Threads, Frame(th), locations' = locations,
         work'[th].stage # "record", work'[th].reads \in {<<>>, work[th].reads}
  PROVE  LocInv'
<1>1. Listed(<<>>) /\ Listed(work[th].reads)
  BY SMTT(30) DEF Listed, LocInv
<1>2. \A t \in Tx : Listed(locations'[t].read) /\ locations'[t].write \subseteq Loc
  BY DEF LocInv
<1>3. Listed(work'[th].reads)
  BY <1>1
<1> QED
  BY <1>2, <1>3, LocKept

LEMMA LocStep ==
  ASSUME Known, LocInv, NEW th \in Threads, Worker(th)
  PROVE  LocInv'
<1> DEFINE t == ver[th].tx_idx
<1>0. /\ Frame(th) /\ t \in Tx /\ MemInv /\ Staged(th) /\ DOMAIN work = Threads
      /\ Listed(work[th].reads) /\ Counted
  BY WorkerFrame, IndexTypes DEF Known, WorkInv, LocInv
<1>1. \A k \in Tx : Listed(locations[k].read) /\ locations[k].write \subseteq Loc
  BY DEF LocInv
<1>2. ASSUME NEW w, Set(th, w), locations' = locations, w.stage # "record",
             w.reads \in {<<>>, work[th].reads}
      PROVE  LocInv'
  BY <1>0, <1>2, LocSame DEF Set
<1>3. CASE SchedulerOnly(th)
  <2>1. work' = work /\ locations' = locations /\ SchedulerStep(th)
    BY <1>3 DEF SchedulerOnly, mvVars
  <2>2. work[th].stage # "record"
    BY <1>0, <2>1, SchedulerIdle DEF Staged, ExecuteStages
  <2> QED
    BY <1>0, <2>1, <2>2, LocSame
<1>4. CASE ReadLocation(th)
  <2> DEFINE l == txs[t].reads[Len(work[th].seen) + 1]
             r == Read(l, t, Prior(work[th], l))
             reads == [m \in DOMAIN work[th].reads \cup {l} |->
                         IF m = l THEN r.origins ELSE work[th].reads[m]]
  <2>1. locations' = locations /\ work[th].stage = "idle" /\ Len(work[th].seen) < Len(txs[t].reads)
    BY <1>4 DEF ReadLocation, mvVars, Executing
  <2>2. \/ r.result = "Ok" /\ Set(th, [work[th] EXCEPT !.seen = Append(@, r.amount), !.reads = reads])
        \/ Set(th, [Idle EXCEPT !.stage = "blocking", !.on = r.on])
        \/ Set(th, [Idle EXCEPT !.stage = "retry"])
        \/ Set(th, [Idle EXCEPT !.stage = "fallback"])
    BY <1>4 DEF ReadLocation
  <2>3. l \in Loc
    <3>1. txs[t].reads \in Seq(Loc)
      BY <1>0, BlocksAssumption DEF MemInv
    <3>2. PICK S : work[th].seen \in Seq(S)
      BY <1>0 DEF Staged
    <3>3. Len(work[th].seen) \in Nat
      BY <3>2, SMTT(30)
    <3> QED
      BY <2>1, <3>1, <3>3, SMTT(30), ZenonT(40)
  <2>4. DOMAIN data[l] \subseteq Tx
    BY <1>0, <2>3 DEF MemInv
  <2> HIDE DEF l
  <2>5. r.result = "Ok" => \E n \in Nat : DOMAIN r.origins = 1 .. n
    <3> HIDE DEF t
    <3> QED
      BY <1>0, <2>4, ReadListed, Zenon
  <2> HIDE DEF r
  <2>6. r.result = "Ok" => Listed(reads)
    BY <1>0, <2>3, <2>5 DEF Listed
  <2> HIDE DEF reads
  <2>7. ASSUME r.result = "Ok", Set(th, [work[th] EXCEPT !.seen = Append(@, r.amount), !.reads = reads])
        PROVE  LocInv'
    <3>1. work'[th].reads = reads /\ work'[th].stage # "record"
      BY <1>0, <2>1, <2>7 DEF Set, Staged
    <3>2. \A k \in Tx : Listed(locations'[k].read) /\ locations'[k].write \subseteq Loc
      BY <1>1, <2>1
    <3> QED
      BY <1>0, <2>6, <2>7, <3>1, <3>2, LocKept
  <2>8. /\ [Idle EXCEPT !.stage = "blocking", !.on = r.on].reads = <<>>
        /\ [Idle EXCEPT !.stage = "blocking", !.on = r.on].stage # "record"
    BY DEF Idle
  <2>9. \A st \in {"retry", "fallback"} : /\ [Idle EXCEPT !.stage = st].reads = <<>>
                                         /\ [Idle EXCEPT !.stage = st].stage = st
    BY DEF Idle
  <2> QED
    BY <1>2, <2>1, <2>2, <2>7, <2>8, <2>9
<1>5. CASE LackOfFund(th)
  <2>1. PICK w \in {[Idle EXCEPT !.stage = "blocking", !.on = t - 1], [Idle EXCEPT !.stage = "error"]} :
          Set(th, w)
    BY <1>5 DEF LackOfFund
  <2>2. w.reads = <<>> /\ w.stage # "record"
    BY <2>1 DEF Idle
  <2>3. locations' = locations
    BY <1>5 DEF LackOfFund, mvVars
  <2> QED
    BY <1>2, <2>1, <2>2, <2>3
<1>6. CASE BeginRecord(th)
  <2> DEFINE todo == DOMAIN WriteSet(txs[t], work[th].seen)
             w == [work[th] EXCEPT !.stage = "record", !.todo = todo]
  <2>1. Set(th, w) /\ SetReadSet(t, work[th].reads) /\ ver' = ver
    BY <1>6 DEF BeginRecord, vars
  <2>2. w.reads = work[th].reads /\ w.todo = todo /\ w.seen = work[th].seen
    BY <1>0 DEF Staged
  <2>3. work'[th] = w
    BY <1>0, <2>1 DEF Set
  <2> HIDE DEF w
  <2>4. work'[th].todo = RecordedSet(th)'
    BY <1>0, <2>1, <2>2, <2>3 DEF RecordedSet, Frame
  <2>5. \A k \in Tx : /\ locations'[k].write = locations[k].write
                     /\ locations'[k].read = IF k = t THEN work[th].reads ELSE locations[k].read
    BY <1>0, <2>1 DEF SetReadSet, MemInv
  <2>6. \A k \in Tx : Listed(locations'[k].read) /\ locations'[k].write \subseteq Loc
    BY <1>0, <1>1, <2>5
  <2> QED
    BY <1>0, <2>2, <2>3, <2>4, <2>6, LocKept
<1>7. CASE RecordRemove(th)
  <2>1. work' = work /\ work[th].stage = "record" /\ ver' = ver
    BY <1>7 DEF RecordRemove, vars
  <2>2. PICK l : RemoveWrite(t, l)
    BY <1>7 DEF RecordRemove
  <2>3. \A k \in Tx : /\ locations'[k].write \subseteq locations[k].write
                     /\ locations'[k].read = locations[k].read
    BY <1>0, <2>2, SMTT(30) DEF RemoveWrite, MemInv
  <2>4. RecordedSet(th)' = RecordedSet(th)
    BY <1>0, <2>1 DEF RecordedSet, Frame
  <2>5. work[th].todo \subseteq RecordedSet(th)
    BY <2>1 DEF LocInv
  <2>6. \A k \in Tx : Listed(locations'[k].read) /\ locations'[k].write \subseteq Loc
    BY <1>1, <2>3
  <2> QED
    BY <1>0, <2>1, <2>4, <2>5, <2>6, LocKept
<1>8. CASE RecordInsert(th)
  <2> DEFINE W(l) == [work[th] EXCEPT !.stage = IF work[th].todo = {l} THEN "recorded" ELSE @,
                                      !.todo = @ \ {l},
                                      !.wrote = @ \/ l \notin locations[t].write]
  <2>1. PICK l \in work[th].todo :
          /\ InsertWrite(t, ver[th].tx_incarnation, l, WriteSet(txs[t], work[th].seen)[l])
          /\ Set(th, W(l))
    BY <1>8 DEF RecordInsert
  <2> DEFINE w == W(l)
  <2>2. w.todo = work[th].todo \ {l} /\ w.reads = work[th].reads /\ w.seen = work[th].seen
    BY <1>0 DEF Staged
  <2>3. work'[th] = w
    BY <1>0, <2>1 DEF Set
  <2> HIDE DEF w, W
  <2>4. work[th].stage = "record" /\ ver' = ver
    BY <1>8 DEF RecordInsert, vars
  <2>5. work[th].todo \subseteq RecordedSet(th)
    BY <2>4 DEF LocInv
  <2>6. RecordedSet(th) \subseteq Loc
    BY <1>0, WriteSetLoc DEF RecordedSet
  <2>7. RecordedSet(th)' = RecordedSet(th)
    BY <1>0, <2>2, <2>3, <2>4 DEF RecordedSet, Frame
  <2>8. \A k \in Tx : /\ locations'[k].write \subseteq locations[k].write \cup {l}
                     /\ locations'[k].read = locations[k].read
    BY <1>0, <2>1 DEF InsertWrite, MemInv
  <2>9. \A k \in Tx : Listed(locations'[k].read) /\ locations'[k].write \subseteq Loc
    BY <1>1, <2>1, <2>5, <2>6, <2>8
  <2> QED
    BY <1>0, <2>2, <2>3, <2>5, <2>7, <2>9, LocKept
<1>9. CASE \/ RecordDone(th) \/ HandleBlocking(th) \/ HandleRetry(th) \/ HandleAbort(th)
           \/ ValidateDone(th) \/ ConvertDone(th)
  <2>1. locations' = locations /\ Set(th, Idle)
    BY <1>9 DEF RecordDone, HandleBlocking, HandleRetry, HandleAbort, ValidateDone,
       ConvertDone, mvVars
  <2>2. Idle.reads = <<>> /\ Idle.stage # "record"
    BY DEF Idle
  <2> QED
    BY <1>2, <2>1, <2>2
<1>10. CASE BeginValidate(th) \/ BeginConvert(th)
  <2>1. PICK st \in {"check", "convert"}, todo \in {DOMAIN locations[t].read, locations[t].write} :
          Set(th, [Idle EXCEPT !.stage = st, !.todo = todo])
    BY <1>10 DEF BeginValidate, BeginConvert
  <2>2. /\ [Idle EXCEPT !.stage = st, !.todo = todo].reads = <<>>
        /\ [Idle EXCEPT !.stage = st, !.todo = todo].stage # "record"
    BY DEF Idle
  <2>3. locations' = locations
    BY <1>10 DEF BeginValidate, BeginConvert, mvVars
  <2> QED
    BY <1>2, <2>1, <2>2, <2>3
<1>11. CASE CheckLocation(th)
  <2>1. locations' = locations /\ work[th].stage = "check"
    BY <1>11 DEF CheckLocation, mvVars
  <2>2. PICK l : Set(th, Idle) \/ Set(th, [work[th] EXCEPT !.todo = @ \ {l}])
    BY <1>11 DEF CheckLocation
  <2>3. /\ [work[th] EXCEPT !.todo = @ \ {l}].reads = work[th].reads
        /\ [work[th] EXCEPT !.todo = @ \ {l}].stage # "record"
    BY <1>0, <2>1 DEF Staged
  <2>4. Idle.reads = <<>> /\ Idle.stage # "record"
    BY DEF Idle
  <2> QED
    BY <1>2, <2>1, <2>2, <2>3, <2>4
<1>12. CASE ConvertWrite(th)
  <2>1. locations' = locations /\ work[th].stage = "convert"
    BY <1>12 DEF ConvertWrite, MarkEstimate
  <2>2. PICK l : \/ Set(th, [Idle EXCEPT !.stage = "converted"])
                 \/ Set(th, [work[th] EXCEPT !.todo = @ \ {l}])
    BY <1>12 DEF ConvertWrite
  <2>3. /\ [work[th] EXCEPT !.todo = @ \ {l}].reads = work[th].reads
        /\ [work[th] EXCEPT !.todo = @ \ {l}].stage # "record"
    BY <1>0, <2>1 DEF Staged
  <2>4. /\ [Idle EXCEPT !.stage = "converted"].reads = <<>>
        /\ [Idle EXCEPT !.stage = "converted"].stage # "record"
    BY DEF Idle
  <2> QED
    BY <1>2, <2>1, <2>2, <2>3, <2>4
<1> QED
  BY <1>3, <1>4, <1>5, <1>6, <1>7, <1>8, <1>9, <1>10, <1>11, <1>12 DEF Worker

-----------------------------------------------------------------------------
(***************************************************************************)
(* EntryInv.                                                               *)
(***************************************************************************)
\* Nothing happens to the entries of k.
EntriesKept(k) ==
  /\ locations'[k].write = locations[k].write
  /\ \A l \in Loc : Marked(l, k)' <=> Marked(l, k)

\* A worker changes the transaction it works on only.
OneTransaction(th) ==
  /\ \A j \in Tx \ {ver[th].tx_idx} : FinishedSame(j) /\ EntriesKept(j)
  /\ \/ pc'[th] \in HoldsStatus \cup {"estimate"}
     \/ work'[th].stage \in {"record", "recorded"}
     => ver'[th].tx_idx = ver[th].tx_idx

\* What is left to show of EntryInv when worker th moves.
LEMMA EntryKept ==
  ASSUME EntryInv, LocInv, TypeOK, NEW th \in Threads, Frame(th), OneTransaction(th),
         NEW k \in Tx, k = ver[th].tx_idx,
         Fresh(k)' => \A l \in locations'[k].write : Marked(l, k)',
         Published(k)' => \A l \in Loc : ~Marked(l, k)',
         StageEntries(th)',
         EntriesKept(k) \/ \A o \in Threads \ {th} :
           work[o].stage \in {"convert", "converted", "record"} => ver[o].tx_idx # k
  PROVE  EntryInv'
<1>0. \A o \in Threads \ {th} : /\ pc'[o] = pc[o] /\ ver'[o] = ver[o] /\ work'[o] = work[o]
                               /\ txs' = txs /\ ver[o].tx_idx \in Tx
  BY IndexTypes DEF Frame, ThreadsSame
<1>1. ASSUME NEW j \in Tx \ {k}
      PROVE  /\ Fresh(j)' => \A l \in locations'[j].write : Marked(l, j)'
             /\ Published(j)' => \A l \in Loc : ~Marked(l, j)'
  <2>1. \A o \in Threads : (Touches(o, j)' <=> Touches(o, j)) /\ (Publishes(o, j)' <=> Publishes(o, j))
    <3> SUFFICES ASSUME NEW o \in Threads
                 PROVE  (Touches(o, j)' <=> Touches(o, j)) /\ (Publishes(o, j)' <=> Publishes(o, j))
      OBVIOUS
    <3>1. CASE o = th
      BY <3>1 DEF Touches, Publishes, OneTransaction
    <3>2. CASE o # th
      BY <1>0, <3>2 DEF Touches, Publishes
    <3> QED
      BY <3>1, <3>2
  <2>2. (Fresh(j)' <=> Fresh(j)) /\ (Published(j)' <=> Published(j))
    BY <2>1 DEF Fresh, Published, OneTransaction, FinishedSame
  <2>3. locations[j].write \subseteq Loc /\ EntriesKept(j)
    BY DEF LocInv, OneTransaction
  <2>4. /\ Fresh(j) => \A l \in locations[j].write : Marked(l, j)
        /\ Published(j) => \A l \in Loc : ~Marked(l, j)
    BY DEF EntryInv
  <2> QED
    BY <2>2, <2>3, <2>4 DEF EntriesKept
<1>2. ASSUME NEW o \in Threads \ {th} PROVE StageEntries(o)'
  <2>0. PICK j \in Tx : j = ver[o].tx_idx
    BY <1>0
  <2>1. RecordedSet(o)' = RecordedSet(o) /\ work'[o] = work[o] /\ ver'[o] = ver[o]
    BY <1>0 DEF RecordedSet
  <2>2. StageEntries(o) /\ locations[j].write \subseteq Loc
    BY DEF EntryInv, LocInv
  <2>3. CASE EntriesKept(j)
    <3>1. /\ ver'[o].tx_idx = j /\ locations'[j].write = locations[j].write
          /\ \A l \in locations[j].write : Marked(l, j)' <=> Marked(l, j)
      BY <2>0, <2>1, <2>2, <2>3 DEF EntriesKept
    <3>2. /\ work[o].stage = "convert" =>
              \A l \in locations[j].write \ work[o].todo : Marked(l, j)'
          /\ work[o].stage = "converted" => \A l \in locations[j].write : Marked(l, j)'
      BY <2>0, <2>2, <3>1 DEF StageEntries
    <3>3. work[o].stage = "record" =>
            /\ RecordedSet(o) \ work[o].todo \subseteq locations[j].write
            /\ \A l \in locations[j].write \ (RecordedSet(o) \ work[o].todo) : Marked(l, j)'
            /\ \A l \in RecordedSet(o) \ work[o].todo : ~Marked(l, j)'
      BY <2>0, <2>2, <3>1 DEF StageEntries
    <3>4. CASE work[o].stage = "convert"
      BY <2>1, <3>1, <3>2, <3>4 DEF StageEntries
    <3>5. CASE work[o].stage = "converted"
      BY <2>1, <3>1, <3>2, <3>5 DEF StageEntries
    <3>6. CASE work[o].stage = "record"
      BY <2>1, <3>1, <3>3, <3>6 DEF StageEntries
    <3>7. CASE work[o].stage \notin {"convert", "converted", "record"}
      BY <2>1, <3>7 DEF StageEntries
    <3> QED
      BY <3>4, <3>5, <3>6, <3>7
  <2>4. CASE work[o].stage \notin {"convert", "converted", "record"}
    BY <1>0, <2>4 DEF StageEntries
  <2> QED
    BY <2>0, <2>3, <2>4 DEF OneTransaction
<1> QED
  BY <1>1, <1>2 DEF EntryInv

\* The same when the memory does not change.
LEMMA EntrySame ==
  ASSUME EntryInv, LocInv, TypeOK, NEW th \in Threads, Frame(th),
         data' = data, \A j \in Tx : locations'[j].write = locations[j].write,
         \A j \in Tx \ {ver[th].tx_idx} : FinishedSame(j),
         \/ pc'[th] \in HoldsStatus \cup {"estimate"}
         \/ work'[th].stage \in {"record", "recorded"}
         => ver'[th].tx_idx = ver[th].tx_idx,
         StageEntries(th)', NEW k \in Tx, k = ver[th].tx_idx,
         Fresh(k)' => Fresh(k) \/ \A l \in locations[k].write : Marked(l, k),
         Published(k)' => Published(k)
  PROVE  EntryInv'
<1>1. \A j \in Tx : EntriesKept(j)
  BY DEF EntriesKept, Marked
<1>2. OneTransaction(th)
  BY <1>1 DEF OneTransaction
<1>3. Fresh(k)' => \A l \in locations'[k].write : Marked(l, k)'
  BY <1>1 DEF EntriesKept, EntryInv, LocInv
<1>4. Published(k)' => \A l \in Loc : ~Marked(l, k)'
  BY <1>1 DEF EntriesKept, EntryInv
<1> QED
  BY <1>1, <1>2, <1>3, <1>4, EntryKept

\* The same when the worker neither records nor converts, before and after the step.
LEMMA EntryCalm ==
  ASSUME EntryInv, LocInv, TypeOK, NEW th \in Threads, Frame(th),
         data' = data, locations' = locations, tx_status' = tx_status, StageEntries(th)',
         pc[th] \notin HoldsStatus \/ UNCHANGED vars, pc'[th] \notin HoldsStatus \/ UNCHANGED vars,
         pc[th] # "estimate" \/ UNCHANGED vars, pc'[th] # "estimate" \/ UNCHANGED vars,
         work[th].stage \notin {"record", "recorded"}, work'[th].stage \notin {"record", "recorded"}
  PROVE  EntryInv'
<1>1. PICK k \in Tx : k = ver[th].tx_idx
  BY IndexTypes
<1>2. ASSUME NEW o \in Threads
      PROVE  (Touches(o, k)' <=> Touches(o, k)) /\ (Publishes(o, k)' <=> Publishes(o, k))
  <2>1. CASE o = th
    BY <2>1 DEF Touches, Publishes, vars
  <2>2. CASE o # th
    BY <2>2 DEF Touches, Publishes, Frame, ThreadsSame
  <2> QED
    BY <2>1, <2>2
<1>3. (Fresh(k)' <=> Fresh(k)) /\ (Published(k)' <=> Published(k))
  BY <1>2 DEF Fresh, Published
<1>4. pc'[th] \in HoldsStatus \cup {"estimate"} => ver'[th].tx_idx = ver[th].tx_idx
  BY DEF vars
<1>5. \A j \in Tx : FinishedSame(j)
  BY DEF FinishedSame
<1> QED
  BY <1>1, <1>3, <1>4, <1>5, EntrySame

\* Until it has recorded everything, an execution has published nothing.
LEMMA Unpublished ==
  ASSUME Known, NEW th \in Threads, pc[th] \in {"execute", "estimate"}, NEW k, k = ver[th].tx_idx,
         Frame(th), tx_status'[k].status \notin Finished,
         pc'[th] \notin HoldsStatus, work'[th].stage # "recorded"
  PROVE  ~Published(k)'
<1>1. ASSUME NEW o \in Threads \ {th}, ver[o].tx_idx = k
      PROVE  pc[o] \notin ExecutionLabels \cup {"estimate"} /\ work[o].stage # "recorded"
  BY <1>1, Alone
<1>2. \A o \in Threads \ {th} : ~Publishes(o, k)'
  BY <1>1, SMTT(30) DEF Publishes, Frame, ThreadsSame, ExecutionLabels
<1>3. ~Publishes(th, k)'
  BY DEF Publishes
<1> QED
  BY <1>2, <1>3 DEF Published

LEMMA EntryBeginRecord ==
  ASSUME Known, LocInv, EntryInv, NEW th \in Threads, BeginRecord(th)
  PROVE  EntryInv'
<1>0. TypeOK /\ Frame(th)
  BY WorkerFrame DEF Known, Worker
<1>1. PICK k \in Tx : k = ver[th].tx_idx
  BY <1>0, IndexTypes
<1>2. /\ UNCHANGED vars /\ data' = data
      /\ pc[th] = "execute" /\ work[th].stage = "idle"
      /\ \A j \in Tx : locations'[j].write = locations[j].write
      /\ work'[th].stage = "record" /\ work'[th].todo = RecordedSet(th)'
  BY <1>1, BeginRecordEffect
<1>3. tx_status' = tx_status /\ pc' = pc /\ ver' = ver
  BY <1>2 DEF vars, txVars
<1>4. tx_status[k].status \notin Finished
  BY <1>1, <1>2, Alone
<1>5. ~Published(k)'
  BY <1>0, <1>1, <1>2, <1>3, <1>4, Unpublished, SMTT(30), ZenonT(40) DEF HoldsStatus
<1>6. ~Fresh(k)'
  BY <1>1, <1>2, <1>3 DEF Fresh, Touches
<1>7. Fresh(k)
  <2>1. ASSUME NEW o \in Threads PROVE ~Touches(o, k)
    <3>1. CASE o = th
      BY <1>2, <3>1 DEF Touches, HoldsStatus
    <3>2. CASE o # th
      BY <1>1, <1>2, <3>2, Alone, SMTT(30), ZenonT(40) DEF Touches, ExecutionLabels
    <3> QED
      BY <3>1, <3>2
  <2> QED
    BY <1>4, <2>1 DEF Fresh
<1>8. \A l \in locations'[k].write : Marked(l, k)'
  BY <1>2, <1>7 DEF EntryInv, Marked
<1>9. StageEntries(th)'
  BY <1>1, <1>2, <1>3, <1>8 DEF StageEntries
<1>10. \A j \in Tx : FinishedSame(j)
  BY <1>3 DEF FinishedSame
<1> QED
  BY <1>0, <1>1, <1>2, <1>3, <1>5, <1>6, <1>9, <1>10, EntrySame

\* The entries of the other transactions, and of the other locations.
LEMMA OthersKept ==
  ASSUME NEW k \in Tx, NEW l \in Loc, \A m \in Loc \ {l} : data'[m] = data[m],
         DOMAIN data'[l] \cup {k} = DOMAIN data[l] \cup {k},
         \A j \in DOMAIN data[l] \ {k} : data'[l][j] = data[l][j],
         \A j \in Tx \ {k} : locations'[j].write = locations[j].write
  PROVE  /\ \A j \in Tx \ {k} : EntriesKept(j)
         /\ \A m \in Loc \ {l} : Marked(m, k)' <=> Marked(m, k)
<1>1. \A m \in Loc \ {l} : \A j \in Tx : Marked(m, j)' <=> Marked(m, j)
  BY DEF Marked
<1>2. \A j \in Tx \ {k} : Marked(l, j)' <=> Marked(l, j)
  BY DEF Marked
<1> QED
  BY <1>1, <1>2 DEF EntriesKept

LEMMA EntryRemove ==
  ASSUME Known, LocInv, EntryInv, NEW th \in Threads, RecordRemove(th)
  PROVE  EntryInv'
<1>0. TypeOK /\ Frame(th) /\ StageEntries(th)
  BY WorkerFrame DEF Known, Worker, EntryInv
<1>1. PICK k \in Tx : k = ver[th].tx_idx
  BY <1>0, IndexTypes
<1>2. /\ UNCHANGED vars /\ work' = work
      /\ pc[th] = "execute" /\ work[th].stage = "record"
      /\ RecordedSet(th)' = RecordedSet(th)
      /\ \A j \in Tx \ {k} : locations'[j].write = locations[j].write
  BY <1>1, RecordRemoveEffect
<1>3. PICK l \in Loc : /\ l \in locations[k].write /\ l \notin RecordedSet(th)
                       /\ locations'[k].write = locations[k].write \ {l}
                       /\ Removes(l, k)
  BY <1>1, RecordRemoveEffect
<1>4. tx_status' = tx_status /\ pc' = pc /\ ver' = ver
  BY <1>2 DEF vars, txVars
<1>5. /\ tx_status[k].status \notin Finished
      /\ \A o \in Threads \ {th} :
           work[o].stage \in {"convert", "converted", "record"} => ver[o].tx_idx # k
  BY <1>1, <1>2, Alone, SMTT(30)
<1>6. ~Published(k)'
  BY <1>0, <1>1, <1>2, <1>4, <1>5, Unpublished DEF HoldsStatus
<1>7. ~Fresh(k)'
  BY <1>1, <1>2, <1>4 DEF Fresh, Touches
<1>8. /\ \A j \in Tx \ {k} : EntriesKept(j)
      /\ \A m \in Loc \ {l} : Marked(m, k)' <=> Marked(m, k)
  BY <1>2, <1>3, OthersKept DEF Removes
<1>9. locations[k].write \subseteq Loc
  BY DEF LocInv
<1>10. StageEntries(th)'
  <2> DEFINE done == RecordedSet(th) \ work[th].todo
  <2>1. /\ done \subseteq locations[k].write
        /\ \A m \in locations[k].write \ done : Marked(m, k)
        /\ \A m \in done : ~Marked(m, k)
    BY <1>0, <1>1, <1>2 DEF StageEntries
  <2>2. l \notin done
    BY <1>3
  <2> HIDE DEF done
  <2>3. /\ done \subseteq locations'[k].write
        /\ \A m \in locations'[k].write \ done : Marked(m, k)'
        /\ \A m \in done : ~Marked(m, k)'
    BY <1>3, <1>8, <1>9, <2>1, <2>2
  <2>4. /\ ver'[th].tx_idx = k /\ work'[th].stage = "record"
        /\ done = RecordedSet(th)' \ work'[th].todo
    BY <1>1, <1>2, <1>4 DEF done
  <2> QED
    BY <2>3, <2>4 DEF StageEntries
<1>11. OneTransaction(th)
  BY <1>1, <1>4, <1>8 DEF OneTransaction, FinishedSame
<1> QED
  BY <1>0, <1>1, <1>5, <1>6, <1>7, <1>10, <1>11, EntryKept, SMTT(30), ZenonT(40)

LEMMA EntryInsert ==
  ASSUME Known, LocInv, EntryInv, NEW th \in Threads, RecordInsert(th)
  PROVE  EntryInv'
<1>0. TypeOK /\ Frame(th) /\ StageEntries(th) /\ MemInv
  BY WorkerFrame DEF Known, Worker, EntryInv
<1>1. PICK k \in Tx : k = ver[th].tx_idx
  BY <1>0, IndexTypes
<1>2. /\ UNCHANGED vars
      /\ pc[th] = "execute" /\ work[th].stage = "record"
      /\ RecordedSet(th)' = RecordedSet(th)
      /\ RecordedSet(th) \subseteq Loc /\ beneficiary \in RecordedSet(th)
      /\ locations[k].write \subseteq RecordedSet(th)
      /\ \A j \in Tx \ {k} : locations'[j].write = locations[j].write
  BY <1>1, RecordInsertEffect, SMTT(30)
<1>3. PICK l \in work[th].todo :
        /\ l \in RecordedSet(th)
        /\ locations'[k].write = locations[k].write \cup {l}
        /\ Puts(l, k) /\ data'[l][k] # Estimate
        /\ work'[th].stage = (IF work[th].todo = {l} THEN "recorded" ELSE "record")
        /\ work'[th].todo = work[th].todo \ {l}
        /\ work'[th].wrote = (work[th].wrote \/ l \notin locations[k].write)
  BY <1>1, RecordInsertEffect, Zenon
<1>4. tx_status' = tx_status /\ pc' = pc /\ ver' = ver
  BY <1>2 DEF vars, txVars
<1>5. /\ tx_status[k].status \notin Finished
      /\ \A o \in Threads \ {th} :
           work[o].stage \in {"convert", "converted", "record"} => ver[o].tx_idx # k
  BY <1>1, <1>2, Alone, SMTT(30)
<1>6. ~Fresh(k)'
  BY <1>1, <1>3, <1>4 DEF Fresh, Touches
<1>7. /\ \A j \in Tx \ {k} : EntriesKept(j)
      /\ \A m \in Loc \ {l} : Marked(m, k)' <=> Marked(m, k)
  BY <1>1, <1>2, <1>3, OthersKept DEF Puts
<1>8. ~Marked(l, k)'
  BY <1>3 DEF Marked
<1> DEFINE done == RecordedSet(th) \ work[th].todo
<1>9. /\ done \subseteq locations[k].write
      /\ \A m \in locations[k].write \ done : Marked(m, k)
      /\ \A m \in done : ~Marked(m, k)
  BY <1>0, <1>1, <1>2 DEF StageEntries
<1>10. RecordedSet(th)' \ work'[th].todo = done \cup {l} /\ done \subseteq RecordedSet(th)
  BY <1>2, <1>3
<1>11. work'[th].stage = "recorded" => RecordedSet(th) = done \cup {l}
  BY <1>3
<1> HIDE DEF done
<1>12. StageEntries(th)'
  <2>1. /\ done \cup {l} \subseteq locations'[k].write
        /\ \A m \in locations'[k].write \ (done \cup {l}) : Marked(m, k)'
        /\ \A m \in done \cup {l} : ~Marked(m, k)'
    BY <1>2, <1>3, <1>7, <1>8, <1>9, <1>10
  <2>2. ver'[th].tx_idx = k /\ work'[th].stage \in {"record", "recorded"}
    BY <1>1, <1>3, <1>4
  <2> QED
    BY <1>10, <2>1, <2>2 DEF StageEntries
<1>13. Published(k)' => \A m \in Loc : ~Marked(m, k)'
  <2>1. CASE work'[th].stage = "record"
    BY <1>0, <1>1, <1>2, <1>4, <1>5, <2>1, Unpublished DEF HoldsStatus
  <2>2. CASE work'[th].stage = "recorded"
    <3>1. ASSUME NEW m \in Loc, m \notin RecordedSet(th) PROVE ~Marked(m, k)
      BY <1>0, <1>2, <3>1 DEF MemInv, EntriesOwned, Marked
    <3> QED
      BY <1>7, <1>8, <1>9, <1>11, <2>2, <3>1
  <2> QED
    BY <1>3, <2>1, <2>2
<1>14. OneTransaction(th)
  BY <1>1, <1>4, <1>7 DEF OneTransaction, FinishedSame
<1> QED
  BY <1>0, <1>1, <1>5, <1>6, <1>12, <1>13, <1>14, EntryKept, SMTT(30), ZenonT(40)

LEMMA EntryConvert ==
  ASSUME Known, LocInv, EntryInv, NEW th \in Threads, ConvertWrite(th)
  PROVE  EntryInv'
<1>0. TypeOK /\ Frame(th) /\ StageEntries(th)
  BY WorkerFrame DEF Known, Worker, EntryInv
<1>1. PICK k \in Tx : k = ver[th].tx_idx
  BY <1>0, IndexTypes
<1>2. /\ UNCHANGED vars /\ locations' = locations
      /\ pc[th] = "estimate" /\ work[th].stage = "convert"
  BY <1>1, ConvertWriteEffect
<1>3. PICK l \in work[th].todo :
        /\ l \in locations[k].write /\ l \in Loc
        /\ Puts(l, k) /\ data'[l][k] = Estimate
        /\ \/ work[th].todo = {l} /\ work'[th].stage = "converted"
           \/ work'[th].stage = "convert" /\ work'[th].todo = work[th].todo \ {l}
  BY <1>1, ConvertWriteEffect
<1>4. tx_status' = tx_status /\ pc' = pc /\ ver' = ver
  BY <1>2 DEF vars, txVars
<1>5. /\ tx_status[k].status \notin Finished
      /\ \A o \in Threads \ {th} :
           work[o].stage \in {"convert", "converted", "record"} => ver[o].tx_idx # k
  BY <1>1, <1>2, Alone
<1>6. ~Published(k)'
  BY <1>0, <1>1, <1>2, <1>3, <1>4, <1>5, Unpublished DEF HoldsStatus
<1>7. ~Fresh(k)'
  BY <1>1, <1>2, <1>4 DEF Fresh, Touches
<1>8. /\ \A j \in Tx \ {k} : EntriesKept(j)
      /\ \A m \in Loc \ {l} : Marked(m, k)' <=> Marked(m, k)
  BY <1>1, <1>2, <1>3, OthersKept DEF Puts
<1>9. Marked(l, k)' /\ locations[k].write \subseteq Loc
  BY <1>3 DEF Marked, Puts, LocInv
<1>10. \A m \in locations[k].write \ (work[th].todo \ {l}) : Marked(m, k)'
  <2>1. \A m \in locations[k].write \ work[th].todo : Marked(m, k)
    BY <1>0, <1>1, <1>2 DEF StageEntries
  <2> QED
    BY <1>8, <1>9, <2>1
<1>11. StageEntries(th)'
  <2>1. ver'[th].tx_idx = k /\ locations'[k].write = locations[k].write
    BY <1>1, <1>2, <1>4
  <2>2. CASE work[th].todo = {l} /\ work'[th].stage = "converted"
    <3>1. \A m \in locations[k].write : Marked(m, k)'
      BY <1>10, <2>2
    <3> QED
      BY <2>1, <2>2, <3>1 DEF StageEntries
  <2>3. CASE work'[th].stage = "convert" /\ work'[th].todo = work[th].todo \ {l}
    BY <1>10, <2>1, <2>3 DEF StageEntries
  <2> QED
    BY <1>3, <2>2, <2>3
<1>12. OneTransaction(th)
  BY <1>1, <1>4, <1>8 DEF OneTransaction, FinishedSame
<1> QED
  BY <1>0, <1>1, <1>5, <1>6, <1>7, <1>11, <1>12, EntryKept

LEMMA EntryScheduler ==
  ASSUME Known, LocInv, EntryInv, NEW th \in Threads, SchedulerOnly(th)
  PROVE  EntryInv'
<1>0. TypeOK /\ Frame(th) /\ StageEntries(th) /\ Staged(th)
  BY WorkerFrame DEF Known, Worker, EntryInv, WorkInv
<1>1. PICK k \in Tx : k = ver[th].tx_idx
  BY <1>0, IndexTypes
<1>2. /\ data' = data /\ locations' = locations /\ work' = work
      /\ SchedulerStep(th) /\ pc[th] # "estimate"
  BY DEF SchedulerOnly, mvVars
<1>3. work[th].stage = "idle"
  BY <1>0, <1>2, SchedulerIdle DEF Staged, ExecuteStages
<1>4. StatusMoved(th)
  BY <1>2, SchedulerStatus DEF Known
<1>5. StageEntries(th)'
  BY <1>2, <1>3 DEF StageEntries
<1>6. Fresh(k)' => Fresh(k)
  <2> SUFFICES ASSUME Fresh(k)' PROVE Fresh(k)
    OBVIOUS
  <2>1. tx_status'[k].status \notin Finished /\ ~Touches(th, k)'
    BY DEF Fresh
  <2>2. \A o \in Threads \ {th} : ~Touches(o, k)
    BY <1>0, SMTT(30) DEF Fresh, Touches, Frame, ThreadsSame
  <2>3. ~Touches(th, k)
    BY <1>1, <1>2, <1>3, <1>4, <2>1 DEF Touches, StatusMoved
  <2>4. tx_status[k].status \notin Finished
    BY <1>1, <1>4, <2>1 DEF Touches, StatusMoved, FinishedSame
  <2> QED
    BY <2>2, <2>3, <2>4 DEF Fresh
<1>7. Published(k)' => Published(k)
  <2>1. ASSUME NEW o \in Threads, Publishes(o, k)' PROVE Publishes(o, k)
    <3>1. CASE o = th
      BY <1>1, <1>2, <1>3, <1>4, <2>1, <3>1 DEF Publishes, StatusMoved
    <3>2. CASE o # th
      BY <1>0, <2>1, <3>2 DEF Publishes, Frame, ThreadsSame
    <3> QED
      BY <3>1, <3>2
  <2>2. tx_status'[k].status \in Finished => tx_status[k].status \in Finished \/ Publishes(th, k)
    BY <1>1, <1>4 DEF StatusMoved, FinishedSame, Publishes
  <2> QED
    BY <2>1, <2>2 DEF Published
<1>8. /\ \A j \in Tx \ {k} : FinishedSame(j)
      /\ pc'[th] \in HoldsStatus \cup {"estimate"} => ver'[th].tx_idx = ver[th].tx_idx
  BY <1>1, <1>4 DEF StatusMoved
<1> QED
  BY <1>0, <1>1, <1>2, <1>3, <1>5, <1>6, <1>7, <1>8, EntrySame

\* The steps that have nothing to do with recording or converting.
LEMMA EntryOther ==
  ASSUME Known, LocInv, EntryInv, NEW th \in Threads,
         \/ ReadLocation(th) \/ LackOfFund(th) \/ HandleBlocking(th) \/ HandleRetry(th)
         \/ HandleAbort(th) \/ BeginValidate(th) \/ CheckLocation(th) \/ ValidateDone(th)
         \/ BeginConvert(th)
  PROVE  EntryInv'
<1>0. TypeOK /\ Frame(th) /\ Staged(th) /\ DOMAIN work = Threads
      /\ DOMAIN pc = Threads /\ DOMAIN ver = Threads
  BY WorkerFrame DEF Known, Worker, WorkInv, TypeOK
<1>1. PICK k \in Tx : k = ver[th].tx_idx
  BY <1>0, IndexTypes
<1>2. Idle.stage = "idle" /\ \A st : [Idle EXCEPT !.stage = st].stage = st
  BY DEF Idle
<1>3. CASE ReadLocation(th)
  <2>1. UNCHANGED vars /\ data' = data /\ locations' = locations /\ work[th].stage = "idle"
    BY <1>3 DEF ReadLocation, Executing, mvVars
  <2> DEFINE l == txs[k].reads[Len(work[th].seen) + 1]
             r == Read(l, k, Prior(work[th], l))
             reads == [m \in DOMAIN work[th].reads \cup {l} |->
                         IF m = l THEN r.origins ELSE work[th].reads[m]]
             seen == Append(work[th].seen, r.amount)
  <2>2. \/ Set(th, [work[th] EXCEPT !.seen = seen, !.reads = reads])
        \/ Set(th, [Idle EXCEPT !.stage = "blocking", !.on = r.on])
        \/ Set(th, [Idle EXCEPT !.stage = "retry"])
        \/ Set(th, [Idle EXCEPT !.stage = "fallback"])
    BY <1>1, <1>3 DEF ReadLocation
  <2> HIDE DEF l, r, reads, seen
  <2>3. /\ [work[th] EXCEPT !.seen = seen, !.reads = reads].stage = "idle"
        /\ [Idle EXCEPT !.stage = "blocking", !.on = r.on].stage = "blocking"
    BY <1>0, <2>1 DEF Idle, Staged
  <2>4. work'[th].stage \in {"blocking", "retry", "fallback", "idle"}
    BY <1>0, <1>2, <2>2, <2>3 DEF Set
  <2>5. StageEntries(th)' /\ tx_status' = tx_status
    BY <2>1, <2>4 DEF StageEntries, vars, txVars
  <2> QED
    BY <1>0, <2>1, <2>4, <2>5, EntryCalm
<1>4. CASE LackOfFund(th)
  <2>1. UNCHANGED vars /\ data' = data /\ locations' = locations /\ work[th].stage = "idle"
    BY <1>4 DEF LackOfFund, ReadsDone, Executing, mvVars
  <2>2. PICK w \in {[Idle EXCEPT !.stage = "blocking", !.on = k - 1], [Idle EXCEPT !.stage = "error"]} :
          Set(th, w)
    BY <1>1, <1>4 DEF LackOfFund
  <2>3. work'[th].stage \in {"blocking", "error"}
    BY <1>0, <2>2 DEF Set, Idle
  <2>4. StageEntries(th)' /\ tx_status' = tx_status
    BY <2>1, <2>3 DEF StageEntries, vars, txVars
  <2> QED
    BY <1>0, <2>1, <2>3, <2>4, EntryCalm
<1>5. CASE HandleBlocking(th) \/ HandleRetry(th) \/ HandleAbort(th) \/ ValidateDone(th)
  <2>1. /\ Set(th, Idle) /\ data' = data /\ locations' = locations
        /\ work[th].stage \in {"blocking", "retry", "fallback", "error", "check"}
    BY <1>5 DEF HandleBlocking, HandleRetry, HandleAbort, ValidateDone, mvVars
  <2>2. tx_status' = tx_status
    BY <1>5 DEF HandleBlocking, HandleRetry, HandleAbort, ValidateDone, LockBlocking,
       AddDependencyLate, ExecuteAgain, AbortScheduler, ReadSetChecked, txVars
  <2>3. /\ pc[th] \in {"execute", "validate"}
        /\ pc'[th] \in {"execute", "add_dep", "ret_none", "confirm"} \cup AbortReason
    BY <1>0, <1>5 DEF HandleBlocking, HandleRetry, HandleAbort, ValidateDone, LockBlocking,
       AddDependencyLate, ExecuteAgain, AbortScheduler, ReadSetChecked, Goto, AbortReason
  <2>4. work'[th].stage = "idle"
    BY <1>0, <1>2, <2>1 DEF Set
  <2>5. StageEntries(th)'
    BY <2>4 DEF StageEntries
  <2> QED
    BY <1>0, <2>1, <2>2, <2>3, <2>4, <2>5, EntryCalm DEF HoldsStatus, AbortReason
<1>6. CASE BeginValidate(th)
  <2>1. /\ UNCHANGED vars /\ data' = data /\ locations' = locations /\ work[th].stage = "idle"
        /\ Set(th, [Idle EXCEPT !.stage = "check", !.todo = DOMAIN locations[k].read])
    BY <1>1, <1>6 DEF BeginValidate, mvVars
  <2>2. work'[th].stage = "check"
    BY <1>0, <2>1 DEF Set, Idle
  <2>3. StageEntries(th)' /\ tx_status' = tx_status
    BY <2>1, <2>2 DEF StageEntries, vars, txVars
  <2> QED
    BY <1>0, <2>1, <2>2, <2>3, EntryCalm
<1>7. CASE CheckLocation(th)
  <2>1. data' = data /\ locations' = locations /\ work[th].stage = "check" /\ pc[th] = "validate"
    BY <1>0, <1>7 DEF CheckLocation, mvVars, Staged
  <2>2. PICK l : \/ Set(th, [work[th] EXCEPT !.todo = @ \ {l}]) /\ UNCHANGED vars
                 \/ Set(th, Idle) /\ ReadSetChecked(th, FALSE)
    BY <1>7 DEF CheckLocation
  <2>3. [work[th] EXCEPT !.todo = @ \ {l}].stage = "check"
    BY <1>0, <2>1 DEF Staged
  <2>4. work'[th].stage \in {"check", "idle"}
    BY <1>0, <1>2, <2>2, <2>3 DEF Set
  <2>5. StageEntries(th)'
    BY <2>4 DEF StageEntries
  <2>6. tx_status' = tx_status /\ pc'[th] \in {"validate", "try_abort"}
    BY <1>0, <2>1, <2>2 DEF ReadSetChecked, Goto, vars, txVars
  <2> QED
    BY <1>0, <2>1, <2>4, <2>5, <2>6, EntryCalm DEF HoldsStatus
<1>8. CASE BeginConvert(th)
  <2>1. /\ UNCHANGED vars /\ data' = data /\ locations' = locations /\ work[th].stage = "idle"
        /\ Set(th, [Idle EXCEPT !.stage = "convert", !.todo = locations[k].write])
    BY <1>1, <1>8 DEF BeginConvert, mvVars
  <2>2. work'[th].stage = "convert" /\ work'[th].todo = locations[k].write
    BY <1>0, <2>1 DEF Set, Idle
  <2>3. tx_status' = tx_status /\ ver' = ver
    BY <2>1 DEF vars, txVars
  <2>4. StageEntries(th)'
    BY <1>1, <2>1, <2>2, <2>3 DEF StageEntries
  <2> QED
    BY <1>0, <2>1, <2>2, <2>3, <2>4, EntryCalm
<1> QED
  BY <1>3, <1>4, <1>5, <1>6, <1>7, <1>8

\* What a worker leaves in the memory agrees with the statuses, whatever its step.
LEMMA EntryStep ==
  ASSUME Known, LocInv, EntryInv, NEW th \in Threads, Worker(th)
  PROVE  EntryInv'
<1>0. TypeOK /\ Frame(th) /\ Staged(th) /\ StageEntries(th) /\ DOMAIN work = Threads
      /\ DOMAIN pc = Threads /\ DOMAIN tx_status = Tx
  BY WorkerFrame DEF Known, WorkInv, EntryInv, TypeOK
<1>1. PICK k \in Tx : k = ver[th].tx_idx
  BY <1>0, IndexTypes
<1>2. ASSUME Set(th, Idle) PROVE work'[th].stage = "idle" /\ StageEntries(th)'
  BY <1>0, <1>2 DEF Set, Idle, StageEntries
<1>3. CASE RecordDone(th)
  <2>1. /\ Set(th, Idle) /\ data' = data /\ locations' = locations /\ work[th].stage = "recorded"
        /\ tx_status' = tx_status /\ ver' = ver /\ pc'[th] = "drain"
    BY <1>0, <1>3 DEF RecordDone, FinishExecution, Goto, mvVars, txVars
  <2>2. ~Fresh(k)' /\ Published(k)
    BY <1>1, <2>1 DEF Fresh, Touches, Published, Publishes, HoldsStatus
  <2>3. \A j \in Tx : FinishedSame(j)
    BY <2>1 DEF FinishedSame
  <2> QED
    BY <1>0, <1>1, <1>2, <2>1, <2>2, <2>3, EntrySame
<1>4. CASE ConvertDone(th)
  <2>1. /\ Set(th, Idle) /\ data' = data /\ locations' = locations /\ work[th].stage = "converted"
        /\ pc[th] = "estimate" /\ ver' = ver /\ pc'[th] = "lower_abort"
        /\ SetReadyStatus(k)
    BY <1>0, <1>1, <1>4 DEF ConvertDone, RescheduleAborted, Goto, mvVars
  <2>2. /\ tx_status'[k].status = "ReadyToExecute"
        /\ \A j \in Tx \ {k} : FinishedSame(j)
    BY <1>0, <2>1 DEF SetReadyStatus, FinishedSame
  <2>3. ~Published(k)'
    BY <1>0, <1>1, <1>2, <2>1, <2>2, Unpublished DEF HoldsStatus, Finished
  <2>4. \A l \in locations[k].write : Marked(l, k)
    BY <1>0, <1>1, <2>1 DEF StageEntries
  <2> QED
    BY <1>0, <1>1, <1>2, <2>1, <2>2, <2>3, <2>4, EntrySame, SMTT(30), ZenonT(40)
<1> QED
  BY <1>3, <1>4, EntryScheduler, EntryOther, EntryBeginRecord, EntryRemove, EntryInsert,
     EntryConvert
     DEF Worker

-----------------------------------------------------------------------------
(***************************************************************************)
(* The iterator of validate_read_locations.                                *)
(***************************************************************************)
\* Walking from the end, higher entries come first.
LEMMA PlaceOrder ==
  ASSUME Counted, NEW l, NEW t, DOMAIN data[l] \subseteq Tx,
         NEW j \in Entries(l, t), NEW k \in Entries(l, t)
  PROVE  /\ Place(l, t, k) \in Nat \ {0}
         /\ Place(l, t, k) <= Cardinality(Entries(l, t))
         /\ j < k => Place(l, t, k) < Place(l, t, j)
<1> DEFINE E == Entries(l, t)
           From(x) == {y \in E : y >= x}
<1>1. /\ E \subseteq Int /\ E \subseteq Tx
      /\ \A S \in SUBSET E : Cardinality(S) \in Nat
  BY EntriesFinite
<1>2. \A S, T \in SUBSET E : S \subseteq T => Cardinality(S) <= Cardinality(T)
  BY <1>1 DEF Counted
<1>3. \A S, T \in SUBSET E : S \subseteq T /\ S # T => Cardinality(S) < Cardinality(T)
  BY <1>1 DEF Counted
<1>4. From(k) \in SUBSET E /\ From(j) \in SUBSET E /\ E \in SUBSET E
  OBVIOUS
<1>5. j < k => From(k) \subseteq From(j) /\ From(k) # From(j)
  BY <1>1, SMTT(30)
<1>6. Cardinality({}) < Cardinality(From(k)) /\ Cardinality({}) \in Nat
  <2>1. {} \in SUBSET E /\ {} \subseteq From(k) /\ {} # From(k)
    BY <1>1, SMTT(30)
  <2> HIDE DEF From, E
  <2> QED
    BY <1>1, <1>3, <1>4, <2>1, SMTT(30), ZenonT(40)
<1>7. Place(l, t, k) = Cardinality(From(k)) /\ Place(l, t, j) = Cardinality(From(j))
  BY DEF Place
<1> HIDE DEF From, E
<1> QED
  BY <1>1, <1>2, <1>3, <1>4, <1>5, <1>7, <1>6, SMTT(30), ZenonT(40) DEF E

\* Entries at and above t take no part in the validation of t.
LEMMA HigherEntries ==
  ASSUME NEW l, NEW t, NEW o, Entries(l, t)' = Entries(l, t),
         \A j \in Entries(l, t) : data'[l][j] = data[l][j], OriginsValid(l, t, o)
  PROVE  OriginsValid(l, t, o)'
  BY SMTT(30) DEF OriginsValid, Place, Entries

\* Nor do the entries of other locations.
LEMMA OtherLocations ==
  ASSUME NEW l, NEW t, NEW o, data'[l] = data[l], OriginsValid(l, t, o)
  PROVE  OriginsValid(l, t, o)'
  BY HigherEntries DEF Entries

\* A valid read has not met an ESTIMATE, so what replaces one does not matter to it.
LEMMA EstimateReplaced ==
  ASSUME NEW l, NEW t, NEW o, NEW k, data[l][k] = Estimate, Entries(l, t)' = Entries(l, t),
         \A j \in Entries(l, t) \ {k} : data'[l][j] = data[l][j], OriginsValid(l, t, o)
  PROVE  OriginsValid(l, t, o)'
  BY SMTT(30) DEF OriginsValid, Place, Entries

\* Nor does it matter to it that one is removed.
LEMMA EstimateRemoved ==
  ASSUME Counted, NEW l, NEW t, NEW o, NEW k, NEW n \in Nat, DOMAIN o = 1 .. n,
         DOMAIN data[l] \subseteq Tx, k \in DOMAIN data[l], data[l][k] = Estimate,
         DOMAIN data'[l] = DOMAIN data[l] \ {k},
         \A j \in DOMAIN data[l] \ {k} : data'[l][j] = data[l][j], OriginsValid(l, t, o)
  PROVE  OriginsValid(l, t, o)'
<1>1. CASE k \notin Entries(l, t)
  <2>1. Entries(l, t)' = Entries(l, t)
    BY <1>1 DEF Entries
  <2>2. \A j \in Entries(l, t) : data'[l][j] = data[l][j]
    BY <1>1 DEF Entries
  <2> QED
    BY <2>1, <2>2, HigherEntries
<1>2. CASE k \in Entries(l, t)
  <2> DEFINE E == Entries(l, t)
  <2>1. E \subseteq Int /\ Cardinality(E) \in Nat
    BY EntriesFinite
  <2>2. \A i, j \in E : /\ Place(l, t, j) \in Nat \ {0}
                        /\ Place(l, t, j) <= Cardinality(E)
                        /\ i < j => Place(l, t, j) < Place(l, t, i)
    BY PlaceOrder
  <2>3. Place(l, t, k) \notin DOMAIN o
    <3> SUFFICES ASSUME Place(l, t, k) \in DOMAIN o PROVE FALSE
      OBVIOUS
    <3>1. o[Place(l, t, k)] # StorageOrigin
      BY <1>2, <2>1, <2>2, SMTT(30) DEF OriginsValid
    <3>2. PICK j \in E : Place(l, t, j) = Place(l, t, k) /\ data[l][j] # Estimate
      BY <3>1 DEF OriginsValid
    <3> HIDE DEF E
    <3>3. j < k \/ k < j
      BY <1>2, <2>1, <3>2, SMTT(30), ZenonT(40) DEF E
    <3> QED
      BY <1>2, <2>2, <3>2, <3>3, SMTT(30) DEF E
  <2>4. \A i \in DOMAIN o : i < Place(l, t, k)
    <3> HIDE DEF E
    <3> QED
      BY <1>2, <2>2, <2>3, SMTT(30), ZenonT(40) DEF E
  <2>5. \A i \in DOMAIN o : o[i] # StorageOrigin
    BY <1>2, <2>1, <2>2, <2>4, SMTT(30), ZenonT(40) DEF OriginsValid
  <2>6. Entries(l, t)' = E \ {k}
    BY DEF Entries
  <2>7. ASSUME NEW j \in E, Place(l, t, j) < Place(l, t, k)
        PROVE  j \in Entries(l, t)' /\ Place(l, t, j)' = Place(l, t, j)
    <3>1. k < j
      BY <1>2, <2>1, <2>2, <2>7, SMTT(30), ZenonT(40)
    <3>2. {x \in E \ {k} : x >= j} = {x \in E : x >= j}
      BY <1>2, <2>1, <3>1, SMTT(30)
    <3>3. Place(l, t, j)' = Cardinality({x \in Entries(l, t)' : x >= j})
      BY DEF Place
    <3>4. j # k
      BY <1>2, <2>1, <3>1, SMTT(30)
    <3>5. {x \in Entries(l, t)' : x >= j} = {x \in E : x >= j}
      BY <2>6, <3>2
    <3>6. Place(l, t, j)' = Place(l, t, j)
      BY <3>3, <3>5 DEF Place
    <3> QED
      BY <2>6, <3>4, <3>6
  <2> SUFFICES ASSUME NEW i \in DOMAIN o
               PROVE  \E j \in Entries(l, t)' : /\ Place(l, t, j)' = i
                                                /\ data'[l][j] # Estimate
                                                /\ o[i] = Version(j, data'[l][j].incarnation)
    BY <2>5 DEF OriginsValid
  <2>8. PICK j \in E : /\ Place(l, t, j) = i
                       /\ data[l][j] # Estimate
                       /\ o[i] = Version(j, data[l][j].incarnation)
    BY <2>5 DEF OriginsValid
  <2>9. j \in DOMAIN data[l] \ {k}
    BY <2>8 DEF Entries
  <2> QED
    BY <2>4, <2>7, <2>8, <2>9
<1> QED
  BY <1>1, <1>2

-----------------------------------------------------------------------------
(***************************************************************************)
(* The scheduler and the validations that are due.                         *)
(***************************************************************************)
\* Every flag set asks for the validation: min_validation_idx falls to the
\* transaction or below, and the bound in hand is the one above it.
LEMMA MinLowered ==
  ASSUME TypeOK, NEW th \in Threads, LowerMinValidationIdx(th)
  PROVE  pc'[th] = "load_val_idx" /\ idx'[th] = ver[th].tx_idx + 1 /\ ver' = ver
<1> DEFINE v == ver[th].tx_idx
           m == Min2(min_validation_idx, v)
<1>1. contains(flags[th], NeedValidation)
  BY DEF contains, NeedValidation
<1>2. /\ pc' = [pc EXCEPT ![th] = IF m >= block_size THEN "set_none"
                                  ELSE IF v >= m THEN "load_val_idx"
                                  ELSE IF contains(flags[th], WroteNewLocation) THEN "lower_min"
                                  ELSE "set_none"]
      /\ idx' = [idx EXCEPT ![th] = IF v < m THEN m ELSE v + 1]
      /\ ver' = ver
  BY <1>1 DEF LowerMinValidationIdx, Goto
<1>3. /\ v \in Nat /\ v < block_size /\ min_validation_idx \in Nat /\ block_size \in Nat
      /\ DOMAIN pc = Threads /\ DOMAIN idx = Threads
  BY IndexTypes DEF TypeOK
<1>4. ~(m >= block_size) /\ v >= m /\ ~(v < m)
  <2> HIDE DEF v
  <2> QED
    BY <1>3, SMTT(30) DEF Min2
<1> HIDE DEF v, m
<1>5. pc'[th] = "load_val_idx" /\ idx'[th] = v + 1
  BY <1>2, <1>3, <1>4
<1> QED
  BY <1>2, <1>5 DEF v

\* They carry the validations that are due along.
LEMMA SchedulerDue ==
  ASSUME TypeOK, ExclusiveExecution, DependentsWait, LowerBound, NEW th \in Threads,
         pc[th] # "estimate", SchedulerStep(th), work[th].stage = "idle", work' = work,
         abort_reason' = "none", NEW t \in Tx, NEW l, Settled(t)', ~Settled(t) \/ DueBy(th, t, l)
  PROVE  DueBy(th, t, l)'
<1>0. /\ pc \in [Threads -> Label] /\ ver \in [Threads -> [tx_idx : Tx, tx_incarnation : Nat]]
      /\ tx_status \in [Tx -> TxStatus]
      /\ block_size \in Nat /\ validation_idx \in Nat /\ min_validation_idx \in Nat
      /\ t \in Nat /\ t < block_size /\ ver[th].tx_idx \in Nat /\ ver[th].tx_idx < block_size
  BY IndexTypes DEF TypeOK
<1> USE DEF DueBy, Revalidates, Lowers, Goto, Hold, Release, SetStatus
<1>1. ThreadsSame(th) /\ StatusMoved(th)
  BY SchedulerThreads, SchedulerStatus
<1>2. ASSUME pc'[th] # "set_none", FinishedSame(t) PROVE DueBy(th, t, l)
  BY <1>1, <1>2 DEF Settled, FinishedSame, ThreadsSame
<1>3. ASSUME pc'[th] # "set_none", FinishedSame(t), validation_idx' = validation_idx,
             pc[th] \notin {"peek_val", "ret_val", "try_abort", "validate", "lower_abort", "drain",
                           "drain_idx", "load_val_idx", "lower_next"}
      PROVE  DueBy(th, t, l)'
  BY <1>2, <1>3
<1>4. CASE \/ CheckAborted(th) \/ LoadExecutionIdx(th) \/ LoadValidationIdx(th)
           \/ LoadNumValidated(th) \/ LoadMinValidationIdx(th) \/ TakeExecutionIdx(th)
  <2>1. /\ pc[th] \in {"next", "load_exec", "load_val", "load_num", "load_min", "take_exec"}
        /\ validation_idx' = validation_idx /\ tx_status' = tx_status
    BY <1>4 DEF CheckAborted, LoadExecutionIdx, LoadValidationIdx, LoadNumValidated,
       LoadMinValidationIdx, TakeExecutionIdx, indices, txVars
  <2>2. CASE CheckAborted(th) \/ LoadExecutionIdx(th) \/ LoadValidationIdx(th)
    <3>1. pc'[th] # "set_none"
      BY <1>0, <2>2 DEF CheckAborted, LoadExecutionIdx, LoadValidationIdx
    <3> QED
      BY <1>3, <2>1, <3>1 DEF FinishedSame
  <2>3. CASE LoadNumValidated(th) \/ LoadMinValidationIdx(th) \/ TakeExecutionIdx(th)
    <3>1. pc'[th] # "set_none"
      BY <1>0, <2>3 DEF LoadNumValidated, LoadMinValidationIdx, TakeExecutionIdx
    <3> QED
      BY <1>3, <2>1, <3>1 DEF FinishedSame
  <2> QED
    BY <1>4, <2>2, <2>3
<1>5. CASE TakeValidationIdx(th)
  <2>1. FinishedSame(t) /\ pc[th] = "take_val" /\ pc'[th] \in {"peek_val", "take_exec"}
    BY <1>0, <1>5 DEF TakeValidationIdx, txVars, FinishedSame
  <2>2. validation_idx <= t
    BY <1>2, <2>1
  <2>3. CASE validation_idx = t
    <3>1. ver' = [ver EXCEPT ![th] = [tx_idx |-> t, tx_incarnation |-> 0]]
          /\ pc' = [pc EXCEPT ![th] = "peek_val"]
      BY <1>0, <1>5, <2>3 DEF TakeValidationIdx
    <3>2. ver'[th].tx_idx = t /\ pc'[th] = "peek_val"
      BY <1>0, <3>1
    <3> QED
      BY <3>2
  <2>4. CASE validation_idx # t
    <3>1. validation_idx' = FetchAdd(validation_idx)
      BY <1>5 DEF TakeValidationIdx
    <3> HIDE DEF DueBy, Revalidates, Lowers
    <3>2. validation_idx' <= t
      BY <1>0, <2>2, <2>4, <3>1, SMTT(30) DEF FetchAdd
    <3> QED
      BY <3>2 DEF DueBy
  <2> QED
    BY <2>3, <2>4
<1>6. CASE PeekStatus(th)
  <2>1. FinishedSame(t) /\ pc'[th] # "set_none" /\ validation_idx' = validation_idx
    BY <1>0, <1>6, SMTT(30) DEF PeekStatus, FinishedSame, Finished, indices, TxStatus
  <2>2. DueBy(th, t, l)
    BY <1>2, <2>1
  <2>3. CASE ver[th].tx_idx = t
    <3>1. tx_status[t].status \in Finished
      BY <1>1, <1>6, <2>1, <2>3, SMTT(30), ZenonT(40)
         DEF Settled, PeekStatus, StatusLocked, HoldsStatus,
         FinishedSame,
         ThreadsSame
    <3> QED
      BY <1>0, <1>6, <2>3, <3>1, SMTT(30), ZenonT(40) DEF PeekStatus, Finished
  <2>4. CASE ver[th].tx_idx # t
    <3>1. pc[th] = "peek_val"
      BY <1>6 DEF PeekStatus
    <3>2. validation_idx <= t
      BY <2>2, <2>4, <3>1
    <3> QED
      BY <2>1, <3>2
  <2> QED
    BY <2>3, <2>4
<1>7. CASE TryExecute(th)
  BY <1>0, <1>3, <1>7, SMTT(30), ZenonT(40)
     DEF TryExecute, FinishedSame, Finished, indices, TxStatus
<1>8. CASE ResumeDependent(th) \/ LowerExecutionIdx(th)
  <2>1. /\ pc[th] \in {"drain", "drain_idx"} /\ pc'[th] \in {"drain", "drain_idx"}
        /\ validation_idx' = validation_idx /\ ver' = ver /\ flags' = flags
    BY <1>0, <1>8 DEF ResumeDependent, LowerExecutionIdx, indices
  <2>2. FinishedSame(t)
    <3>1. CASE ResumeDependent(th)
      <4>1. PICK j \in tx_dependency[ver[th].tx_idx] : SetReadyStatus(j)
        BY <3>1 DEF ResumeDependent
      <4>2. ver[th].tx_idx \in Tx
        BY <1>0
      <4>3. tx_status[j].status = "Aborted"
        BY <4>1, <4>2 DEF DependentsWait
      <4>4. CASE t = j
        <5>1. tx_status'[t].status = "ReadyToExecute"
          BY <1>0, <4>1, <4>4 DEF SetReadyStatus
        <5> QED
          BY <4>3, <4>4, <5>1 DEF FinishedSame, Finished
      <4>5. CASE t # j
        <5>1. tx_status'[t] = tx_status[t]
          BY <1>0, <4>1, <4>5 DEF SetReadyStatus
        <5> QED
          BY <5>1 DEF FinishedSame
      <4> QED
        BY <4>4, <4>5
    <3>2. CASE LowerExecutionIdx(th)
      BY <3>2 DEF LowerExecutionIdx, txVars, FinishedSame
    <3> QED
      BY <1>8, <3>1, <3>2
  <2>3. DueBy(th, t, l)
    BY <1>2, <2>1, <2>2
  <2> QED
    BY <2>1, <2>3
<1>9. CASE LowerMinValidationIdx(th)
  <2>1. pc'[th] = "load_val_idx"
    BY <1>9, MinLowered
  <2>2. FinishedSame(t) /\ flags' = flags /\ ver' = ver /\ validation_idx' = validation_idx
    BY <1>9 DEF LowerMinValidationIdx, txVars, FinishedSame
  <2>3. DueBy(th, t, l) /\ pc[th] = "drain"
    BY <1>2, <1>9, <2>1, <2>2 DEF LowerMinValidationIdx
  <2> QED
    BY <2>1, <2>2, <2>3
<1>10. CASE CompareValidationIdx(th)
  <2>1. validation_idx' = validation_idx /\ ver' = ver /\ flags' = flags /\ FinishedSame(t)
    BY <1>10 DEF CompareValidationIdx, indices, txVars, FinishedSame
  <2>2. CASE pc'[th] = "set_none"
    <3>1. validation_idx <= ver[th].tx_idx
      BY <1>0, <1>10, <2>2 DEF CompareValidationIdx
    <3>2. CASE ver[th].tx_idx <= t
      BY <1>0, <2>1, <3>1, <3>2, SMTT(30), ZenonT(40)
    <3>3. CASE ~(ver[th].tx_idx <= t)
      <4>1. Settled(t)
        <5>1. ver'[th].tx_idx # t
          <6>1. t <= t
            BY <1>0, SMTT(30)
          <6> QED
            BY <2>1, <3>3, <6>1
        <5>2. CASE tx_status'[t].status \in Finished
          BY <2>1, <5>2 DEF Settled, FinishedSame
        <5>3. CASE tx_status'[t].status \notin Finished
          <6>1. PICK o \in Threads : pc'[o] = "set_none" /\ ver'[o].tx_idx = t
            BY <5>3 DEF Settled
          <6>2. o # th
            BY <5>1, <6>1
          <6>3. pc[o] = "set_none" /\ ver[o].tx_idx = t
            BY <1>1, <6>1, <6>2 DEF ThreadsSame
          <6> QED
            BY <6>3 DEF Settled
        <5> QED
          BY <5>2, <5>3
      <4> QED
        BY <1>0, <1>10, <2>1, <3>3, <4>1, SMTT(30), ZenonT(40) DEF CompareValidationIdx
    <3> QED
      BY <3>2, <3>3
  <2>3. CASE pc'[th] # "set_none"
    BY <1>0, <1>2, <1>10, <2>1, <2>3 DEF CompareValidationIdx
  <2> QED
    BY <2>2, <2>3
<1>11. CASE LowerValidationIdx(th)
  <2>1. pc[th] = "lower_next" /\ idx[th] = ver[th].tx_idx + 1 /\ pc'[th] = "set_ret"
    BY <1>0, <1>11 DEF LowerValidationIdx, LowerBound
  <2>2. DueBy(th, t, l)
    BY <1>2, <1>11, <2>1 DEF LowerValidationIdx, txVars, FinishedSame
  <2> QED
    <3>1. validation_idx' = Min2(validation_idx, ver[th].tx_idx + 1)
      BY <1>11, <2>1 DEF LowerValidationIdx
    <3>2. validation_idx <= t \/ ver[th].tx_idx < t
      BY <2>1, <2>2
    <3> HIDE DEF DueBy
    <3>3. validation_idx' <= t
      BY <1>0, <3>1, <3>2, SMTT(30) DEF Min2
    <3> QED
      BY <3>3 DEF DueBy
<1>12. CASE SetExecutedStatus(th)
  <2>1. /\ validation_idx' = validation_idx /\ pc'[th] \in {"ret_val", "ret_none"}
        /\ pc[th] = "set_ret" => pc'[th] = "ret_val" /\ ver' = ver
    BY <1>0, <1>12 DEF SetExecutedStatus, contains, NeedValidation
  <2>2. CASE t = ver[th].tx_idx /\ pc[th] = "set_ret"
    BY <2>1, <2>2, <1>0
  <2>3. CASE ~(t = ver[th].tx_idx /\ pc[th] = "set_ret")
    <3>1. Settled(t)
      BY <1>1, <1>12, <2>1, <2>3, SMTT(30), ZenonT(40)
         DEF Settled, FinishedSame, ThreadsSame, StatusMoved,
         SetExecutedStatus
    <3> QED
      BY <1>12, <2>1, <3>1 DEF SetExecutedStatus
  <2> QED
    BY <2>2, <2>3
<1>13. CASE AddDependency(th)
  <2>1. tx_status[ver[th].tx_idx].status = "Executing"
    BY <1>13, ExecutionStatus DEF AddDependency, ExecutionLabels
  <2>2. FinishedSame(t)
    BY <1>0, <1>13, <2>1 DEF AddDependency, FinishedSame, Finished, TxStatus
  <2> QED
    BY <1>0, <1>3, <1>13, <2>2, SMTT(30), ZenonT(40) DEF AddDependency, indices
<1>14. CASE InitAbortReason(th)
  BY <1>14 DEF InitAbortReason, AbortReason
<1>15. CASE TryValidationAbort(th)
  <2>1. validation_idx' = validation_idx /\ pc'[th] # "set_none" /\ pc[th] = "try_abort"
    BY <1>0, <1>15 DEF TryValidationAbort
  <2>2. t # ver[th].tx_idx
    <3> SUFFICES ASSUME t = ver[th].tx_idx PROVE FALSE
      OBVIOUS
    <3>1. tx_status'[t].status \notin Finished
      BY <1>0, <1>15, SMTT(30) DEF TryValidationAbort, Finished, TxStatus
    <3> QED
      BY <1>1, <1>15, <2>1, <3>1 DEF Settled, TryValidationAbort, StatusLocked, HoldsStatus,
         ThreadsSame
  <2>3. FinishedSame(t)
    BY <1>1, <2>2 DEF StatusMoved
  <2> QED
    BY <1>2, <2>1, <2>2, <2>3
<1>16. CASE LowerValidationIdxAborted(th)
  <2>1. DueBy(th, t, l)
    BY <1>0, <1>2, <1>16 DEF LowerValidationIdxAborted, txVars, FinishedSame
  <2> QED
    <3>1. /\ validation_idx' = Min2(validation_idx, ver[th].tx_idx + 1)
          /\ validation_idx <= t \/ ver[th].tx_idx < t
      BY <1>16, <2>1 DEF LowerValidationIdxAborted
    <3> HIDE DEF DueBy
    <3>2. validation_idx' <= t
      BY <1>0, <3>1, SMTT(30) DEF Min2
    <3> QED
      BY <3>2 DEF DueBy
<1>17. CASE CheckExecutionIdx(th)
  BY <1>0, <1>3, <1>17 DEF CheckExecutionIdx, indices, txVars, FinishedSame
<1>18. CASE ConfirmValidated(th)
  BY <1>0, <1>3, <1>18, SMTT(30), ZenonT(40)
     DEF ConfirmValidated, indices, FinishedSame, Finished, TxStatus
<1>19. CASE WorkerLoop(th)
  BY <1>0, <1>2, <1>19 DEF WorkerLoop, ReturnLabels, indices, txVars, abortVars, FinishedSame
<1> QED
  BY <1>4, <1>5, <1>6, <1>7, <1>8, <1>9, <1>10, <1>11, <1>12, <1>13, <1>14, <1>15, <1>16, <1>17,
     <1>18, <1>19, Zenon DEF SchedulerStep, RescheduleAborted

\* The bound in hand is that of finish_execution.
LEMMA SchedulerBound ==
  ASSUME TypeOK, LowerBound, NEW th \in Threads, SchedulerStep(th)
  PROVE  LowerBound'
<1>0. /\ DOMAIN pc = Threads /\ DOMAIN idx = Threads /\ DOMAIN ver = Threads
      /\ ver[th].tx_idx \in Nat /\ ver[th].tx_idx < block_size
      /\ block_size \in Nat /\ min_validation_idx \in Nat
  BY IndexTypes DEF TypeOK
<1>1. ThreadsSame(th)
  BY SchedulerThreads
<1>2. SUFFICES /\ pc'[th] # "lower_min"
               /\ pc'[th] \in {"load_val_idx", "lower_next"} => idx'[th] = ver'[th].tx_idx + 1
  BY <1>1 DEF LowerBound, ThreadsSame
<1> USE DEF Goto
<1>3. CASE \/ CheckAborted(th) \/ LoadExecutionIdx(th) \/ LoadValidationIdx(th)
           \/ LoadNumValidated(th) \/ LoadMinValidationIdx(th) \/ TakeExecutionIdx(th)
           \/ TakeValidationIdx(th) \/ PeekStatus(th) \/ TryExecute(th)
  BY <1>0, <1>3 DEF CheckAborted, LoadExecutionIdx, LoadValidationIdx, LoadNumValidated,
     LoadMinValidationIdx, TakeExecutionIdx, TakeValidationIdx, PeekStatus, TryExecute
<1>4. CASE ResumeDependent(th) \/ LowerExecutionIdx(th) \/ LowerValidationIdx(th)
  BY <1>0, <1>4 DEF ResumeDependent, LowerExecutionIdx, LowerValidationIdx
<1>5. CASE LowerMinValidationIdx(th)
  BY <1>5, MinLowered
<1>6. CASE CompareValidationIdx(th)
  BY <1>0, <1>6 DEF CompareValidationIdx, LowerBound
<1>7. CASE SetExecutedStatus(th) \/ AddDependency(th) \/ TryValidationAbort(th)
  BY <1>0, <1>7 DEF SetExecutedStatus, AddDependency, TryValidationAbort
<1>8. CASE InitAbortReason(th) \/ RescheduleAborted(th) \/ LowerValidationIdxAborted(th)
  BY <1>0, <1>8 DEF InitAbortReason, RescheduleAborted, LowerValidationIdxAborted
<1>9. CASE CheckExecutionIdx(th) \/ ConfirmValidated(th) \/ WorkerLoop(th)
  BY <1>0, <1>9 DEF CheckExecutionIdx, ConfirmValidated, WorkerLoop, ReturnLabels
<1> QED
  BY <1>3, <1>4, <1>5, <1>6, <1>7, <1>8, <1>9 DEF SchedulerStep

-----------------------------------------------------------------------------
\* Nothing is read, recorded or validated in the initial states.
LEMMA InitReadInv == PInit => ReadInv
<1> SUFFICES ASSUME PInit PROVE ReadInv
  OBVIOUS
<1>1. /\ \A th \in Threads : work[th] = Idle /\ pc[th] = "next"
      /\ \A t \in Tx : /\ locations[t].read = <<>> /\ locations[t].write = {}
                       /\ tx_status[t].status = "ReadyToExecute"
  BY DEF PInit, Init, MvInit
<1>2. LocInv
  BY <1>1, SMTT(30), ZenonT(40) DEF LocInv, Listed, Idle
<1>3. EntryInv
  <2>1. \A th \in Threads : work[th].stage = "idle" /\ pc[th] \notin HoldsStatus
    <3>1. "next" \notin HoldsStatus /\ Idle.stage = "idle"
      BY SMTT(30) DEF Idle, HoldsStatus
    <3> QED
      BY <1>1, <3>1
  <2>2. \A k \in Tx : ~Published(k)
    <3>1. \A k \in Tx : tx_status[k].status \notin Finished
      BY <1>1, SMTT(30) DEF Finished
    <3>2. \A th \in Threads, k \in Tx : ~Publishes(th, k)
      BY <2>1 DEF Publishes
    <3> QED
      BY <3>1, <3>2 DEF Published
  <2>3. \A th \in Threads : StageEntries(th)
    BY <2>1 DEF StageEntries
  <2> QED
    BY <1>1, <2>2, <2>3 DEF EntryInv
<1>4. StaleReadsDue
  BY <1>1 DEF StaleReadsDue, Settled, Finished
<1>5. LowerBound
  BY <1>1 DEF LowerBound
<1> QED
  BY <1>2, <1>3, <1>4, <1>5 DEF ReadInv

-----------------------------------------------------------------------------
(***************************************************************************)
(* StaleReadsDue.                                                          *)
(***************************************************************************)
\* Once set, the abort reason stays.
LEMMA ReasonStays ==
  ASSUME NEW th \in Threads, SchedulerStep(th), abort_reason' = "none"
  PROVE  abort_reason = "none"
<1>1. CASE InitAbortReason(th)
  BY <1>1 DEF InitAbortReason, AbortReason
<1>2. CASE \/ CheckAborted(th) \/ LoadExecutionIdx(th) \/ LoadValidationIdx(th)
           \/ LoadNumValidated(th) \/ LoadMinValidationIdx(th) \/ TakeExecutionIdx(th)
           \/ TakeValidationIdx(th) \/ PeekStatus(th) \/ TryExecute(th)
  BY <1>2 DEF CheckAborted, LoadExecutionIdx, LoadValidationIdx, LoadNumValidated,
     LoadMinValidationIdx, TakeExecutionIdx, TakeValidationIdx, PeekStatus, TryExecute, abortVars
<1>3. CASE \/ ResumeDependent(th) \/ LowerExecutionIdx(th) \/ LowerMinValidationIdx(th)
           \/ CompareValidationIdx(th) \/ LowerValidationIdx(th) \/ SetExecutedStatus(th)
           \/ AddDependency(th)
  BY <1>3 DEF ResumeDependent, LowerExecutionIdx, LowerMinValidationIdx, CompareValidationIdx,
     LowerValidationIdx, SetExecutedStatus, AddDependency, abortVars
<1>4. CASE \/ TryValidationAbort(th) \/ RescheduleAborted(th) \/ LowerValidationIdxAborted(th)
           \/ CheckExecutionIdx(th) \/ ConfirmValidated(th) \/ WorkerLoop(th)
  BY <1>4 DEF TryValidationAbort, RescheduleAborted, LowerValidationIdxAborted, CheckExecutionIdx,
     ConfirmValidated, WorkerLoop, abortVars
<1> QED
  BY <1>1, <1>2, <1>3, <1>4, SMTT(30), ZenonT(40) DEF SchedulerStep

\* The dues of the other workers stay, unless they rest on validation_idx.
LEMMA OthersDue ==
  ASSUME NEW th \in Threads, Frame(th), NEW o \in Threads \ {th}, NEW t, NEW l,
         DueBy(o, t, l), validation_idx' = validation_idx \/ ~DueBy(th, t, l)
  PROVE  DueBy(o, t, l)'
<1>1. pc'[o] = pc[o] /\ ver'[o] = ver[o] /\ flags'[o] = flags[o] /\ work'[o] = work[o]
  BY DEF Frame, ThreadsSame
<1>2. (Revalidates(o, t, l) => Revalidates(o, t, l)') /\ (Lowers(o, t) => Lowers(o, t)')
  BY <1>1 DEF Revalidates, Lowers
<1> QED
  BY <1>2 DEF DueBy

LEMMA DueScheduler ==
  ASSUME Known, StaleReadsDue, LowerBound, NEW th \in Threads, SchedulerOnly(th)
  PROVE  StaleReadsDue'
<1>0. /\ Frame(th) /\ TypeOK /\ ExclusiveExecution /\ DependentsWait /\ Staged(th)
  BY WorkerFrame DEF Known, Worker, WorkInv
<1>1. /\ data' = data /\ locations' = locations /\ work' = work
      /\ SchedulerStep(th) /\ pc[th] # "estimate"
  BY DEF SchedulerOnly, mvVars
<1>2. work[th].stage = "idle"
  BY <1>0, <1>1, SchedulerIdle DEF Staged, ExecuteStages
<1> SUFFICES ASSUME abort_reason' = "none", NEW t \in Tx, Settled(t)',
                    NEW l \in DOMAIN locations'[t].read
             PROVE  \/ OriginsValid(l, t, locations[t].read[l])'
                    \/ \E o \in Threads : DueBy(o, t, l)'
  BY DEF StaleReadsDue
<1>3. abort_reason = "none"
  BY <1>1, ReasonStays
<1>4. ~Settled(t) \/ DueBy(th, t, l) => DueBy(th, t, l)'
  BY <1>0, <1>1, <1>2, SchedulerDue
<1>5. CASE Settled(t) /\ ~DueBy(th, t, l)
  <2>1. OriginsValid(l, t, locations[t].read[l]) \/ \E o \in Threads \ {th} : DueBy(o, t, l)
    BY <1>1, <1>3, <1>5 DEF StaleReadsDue
  <2>2. ASSUME OriginsValid(l, t, locations[t].read[l])
        PROVE  OriginsValid(l, t, locations[t].read[l])'
    BY <1>1, <2>2 DEF OriginsValid, Place, Entries
  <2> QED
    BY <1>0, <1>5, <2>1, <2>2, OthersDue
<1> QED
  BY <1>4, <1>5

\* What is left to show of StaleReadsDue when worker th moves outside the scheduler.
LEMMA DueKept ==
  ASSUME StaleReadsDue, NEW th \in Threads, Frame(th),
         abort_reason' = abort_reason, validation_idx' = validation_idx,
         \A t \in Tx : Settled(t)' =>
           /\ Settled(t) /\ locations'[t].read = locations[t].read
           /\ \A l \in DOMAIN locations[t].read :
                \/ OriginsValid(l, t, locations[t].read[l])
                \/ Revalidates(th, t, l) \/ Lowers(th, t)
                => \/ OriginsValid(l, t, locations[t].read[l])'
                   \/ Revalidates(th, t, l)' \/ Lowers(th, t)'
  PROVE  StaleReadsDue'
<1> SUFFICES ASSUME abort_reason' = "none", NEW t \in Tx, Settled(t)',
                    NEW l \in DOMAIN locations'[t].read
             PROVE  \/ OriginsValid(l, t, locations[t].read[l])'
                    \/ \E o \in Threads : DueBy(o, t, l)'
  BY DEF StaleReadsDue
<1>1. \/ OriginsValid(l, t, locations[t].read[l])
      \/ \E o \in Threads : DueBy(o, t, l)
  BY DEF StaleReadsDue
<1>2. OriginsValid(l, t, locations[t].read[l]) \/ DueBy(th, t, l)
      => OriginsValid(l, t, locations[t].read[l])' \/ DueBy(th, t, l)'
  BY DEF DueBy
<1>3. \A o \in Threads \ {th} : DueBy(o, t, l) => DueBy(o, t, l)'
  BY OthersDue
<1> QED
  BY <1>1, <1>2, <1>3

\* The same when the memory does not change either.
LEMMA DueCalm ==
  ASSUME StaleReadsDue, NEW th \in Threads, Frame(th), data' = data, locations' = locations,
         abort_reason' = abort_reason, validation_idx' = validation_idx,
         \A t \in Tx : Settled(t)' => Settled(t),
         \A t \in Tx : \A l \in DOMAIN locations[t].read :
           Revalidates(th, t, l) \/ Lowers(th, t) =>
             \/ OriginsValid(l, t, locations[t].read[l])
             \/ Revalidates(th, t, l)' \/ Lowers(th, t)'
  PROVE  StaleReadsDue'
<1>1. ASSUME NEW t \in Tx, NEW l, OriginsValid(l, t, locations[t].read[l])
      PROVE  OriginsValid(l, t, locations[t].read[l])'
  BY <1>1 DEF OriginsValid, Place, Entries
<1> QED
  BY <1>1, DueKept

\* No execution settles outside the scheduler.
LEMMA SettledStays ==
  ASSUME NEW th \in Threads, Frame(th), NEW t, Settled(t)', FinishedSame(t),
         pc'[th] = "set_none" => pc[th] = "set_none" /\ ver'[th] = ver[th]
  PROVE  Settled(t)
<1>1. CASE tx_status'[t].status \in Finished
  BY <1>1 DEF Settled, FinishedSame
<1>2. CASE tx_status'[t].status \notin Finished
  <2>1. PICK o \in Threads : pc'[o] = "set_none" /\ ver'[o].tx_idx = t
    BY <1>2 DEF Settled
  <2>2. pc[o] = "set_none" /\ ver[o].tx_idx = t
    BY <2>1 DEF Frame, ThreadsSame
  <2> QED
    BY <2>2 DEF Settled
<1> QED
  BY <1>1, <1>2

\* The steps of an execution before record, and those after it, and of a validation.
LEMMA DueOther ==
  ASSUME Known, StaleReadsDue, NEW th \in Threads,
         \/ ReadLocation(th) \/ LackOfFund(th) \/ HandleBlocking(th) \/ HandleRetry(th)
         \/ HandleAbort(th) \/ RecordDone(th) \/ BeginValidate(th) \/ CheckLocation(th)
         \/ ValidateDone(th) \/ BeginConvert(th) \/ ConvertDone(th)
  PROVE  StaleReadsDue'
<1>0. /\ TypeOK /\ Frame(th) /\ Staged(th) /\ DOMAIN work = Threads
      /\ DOMAIN pc = Threads /\ DOMAIN ver = Threads /\ DOMAIN flags = Threads
      /\ DOMAIN tx_status = Tx
  BY WorkerFrame DEF Known, Worker, WorkInv, TypeOK
<1>1. PICK k \in Tx : k = ver[th].tx_idx
  BY <1>0, IndexTypes
<1>2. /\ data' = data /\ locations' = locations
      /\ abort_reason' = abort_reason /\ validation_idx' = validation_idx
  <2>1. data' = data /\ locations' = locations
    BY DEF ReadLocation, LackOfFund, HandleBlocking, HandleRetry, HandleAbort, RecordDone,
       BeginValidate, CheckLocation, ValidateDone, BeginConvert, ConvertDone, mvVars
  <2>2. UNCHANGED vars \/ Outcome(th)
    BY DEF ReadLocation, LackOfFund, HandleBlocking, HandleRetry, HandleAbort, RecordDone,
       BeginValidate, CheckLocation, ValidateDone, BeginConvert, ConvertDone, Outcome, AbortReason
  <2>3. abort_reason' = abort_reason /\ validation_idx' = validation_idx
    BY <2>2 DEF Outcome, FinishExecution, LockBlocking, AddDependencyLate, ExecuteAgain,
       AbortScheduler, ReadSetChecked, RescheduleAborted, vars, indices, abortVars
  <2> QED
    BY <2>1, <2>3
<1>3. ASSUME tx_status' = tx_status, pc'[th] # "set_none" \/ UNCHANGED vars
      PROVE  \A t \in Tx : Settled(t)' => Settled(t)
  BY <1>0, <1>3, SettledStays DEF FinishedSame, vars
<1>4. ASSUME Set(th, Idle) PROVE work'[th].stage = "idle"
  BY <1>0, <1>4 DEF Set, Idle
<1>5. CASE ReadLocation(th) \/ LackOfFund(th)
  <2>1. UNCHANGED vars /\ work[th].stage = "idle" /\ pc[th] = "execute" /\ tx_status' = tx_status
    BY <1>5 DEF ReadLocation, LackOfFund, ReadsDone, Executing, vars, txVars
  <2>2. \A t, l : ~Revalidates(th, t, l) /\ ~Lowers(th, t)
    BY <2>1 DEF Revalidates, Lowers
  <2> QED
    BY <1>0, <1>2, <1>3, <2>1, <2>2, DueCalm, ZenonT(30)
<1>6. CASE HandleBlocking(th) \/ HandleRetry(th) \/ HandleAbort(th)
  <2>1. work[th].stage \in {"blocking", "retry", "fallback", "error"} /\ pc[th] = "execute"
    BY <1>0, <1>6 DEF HandleBlocking, HandleRetry, HandleAbort, Staged, ExecuteStages
  <2>2. /\ tx_status' = tx_status
        /\ pc'[th] \in {"execute", "add_dep", "ret_none"} \cup AbortReason
    <3>1. ASSUME NEW b, LockBlocking(th, b)
          PROVE  tx_status' = tx_status /\ pc'[th] = "add_dep"
      BY <1>0, <3>1 DEF LockBlocking, Goto, txVars
    <3>2. ASSUME ExecuteAgain(th)
          PROVE  tx_status' = tx_status /\ (pc'[th] = pc[th] \/ pc'[th] = "ret_none")
      BY <1>0, <3>2 DEF ExecuteAgain, Goto, txVars
    <3>3. ASSUME NEW r, AbortScheduler(th, r)
          PROVE  tx_status' = tx_status /\ pc'[th] = r
      BY <1>0, <3>3 DEF AbortScheduler, Goto, txVars
    <3>4. CASE HandleBlocking(th)
      BY <2>1, <3>1, <3>2, <3>4 DEF HandleBlocking, AddDependencyLate
    <3>5. CASE HandleRetry(th)
      BY <2>1, <3>2, <3>5 DEF HandleRetry
    <3>6. CASE HandleAbort(th)
      BY <3>3, <3>6 DEF HandleAbort, AbortReason
    <3> QED
      BY <1>6, <3>4, <3>5, <3>6
  <2>3. \A t, l : ~Revalidates(th, t, l) /\ ~Lowers(th, t)
    BY <2>1 DEF Revalidates, Lowers
  <2>4. pc'[th] # "set_none"
    BY <2>2 DEF AbortReason
  <2> QED
    BY <1>0, <1>2, <1>3, <2>2, <2>3, <2>4, DueCalm, ZenonT(30)
<1>7. CASE RecordDone(th)
  <2>1. /\ work[th].stage = "recorded" /\ pc[th] = "execute" /\ pc'[th] = "drain"
        /\ tx_status' = tx_status /\ ver' = ver
        /\ flags'[th] = ExecFlags(ver[th].tx_idx, FALSE, work[th].wrote)
    BY <1>0, <1>7 DEF RecordDone, FinishExecution, Goto, txVars
  <2>2. work[th].wrote => contains(flags'[th], WroteNewLocation)
    BY <2>1 DEF ExecFlags, contains
  <2>3. \A t, l : ~Revalidates(th, t, l) /\ (Lowers(th, t) => Lowers(th, t)')
    BY <2>1, <2>2 DEF Revalidates, Lowers
  <2> QED
    BY <1>0, <1>2, <1>3, <2>1, <2>3, DueCalm, ZenonT(30)
<1>8. CASE BeginValidate(th)
  <2>1. /\ UNCHANGED vars /\ work[th].stage = "idle" /\ pc[th] = "validate"
        /\ Set(th, [Idle EXCEPT !.stage = "check", !.todo = DOMAIN locations[k].read])
    BY <1>1, <1>8, SMTT(30) DEF BeginValidate
  <2>2. work'[th].todo = DOMAIN locations[k].read
    BY <1>0, <2>1 DEF Set, Idle
  <2>3. tx_status' = tx_status /\ ver' = ver /\ pc' = pc
    BY <2>1 DEF vars, txVars
  <2>4. \A t \in Tx : \A l \in DOMAIN locations[t].read :
          ~Lowers(th, t) /\ (Revalidates(th, t, l) => Revalidates(th, t, l)')
    BY <1>1, <2>1, <2>2, <2>3, SMTT(30), ZenonT(40) DEF Revalidates, Lowers
  <2> QED
    BY <1>0, <1>2, <1>3, <2>1, <2>3, <2>4, DueCalm, ZenonT(30)
<1>9. CASE CheckLocation(th)
  <2>1. work[th].stage = "check" /\ pc[th] = "validate"
    BY <1>0, <1>9 DEF CheckLocation, Staged
  <2>2. PICK m \in work[th].todo :
          \/ /\ OriginsValid(m, k, locations[k].read[m])
             /\ Set(th, [work[th] EXCEPT !.todo = @ \ {m}]) /\ UNCHANGED vars
          \/ Set(th, Idle) /\ ReadSetChecked(th, FALSE)
    BY <1>1, <1>9 DEF CheckLocation
  <2>3. ASSUME OriginsValid(m, k, locations[k].read[m]),
               Set(th, [work[th] EXCEPT !.todo = @ \ {m}]), UNCHANGED vars
        PROVE  StaleReadsDue'
    <3>1. work'[th].todo = work[th].todo \ {m}
      BY <1>0, <2>3 DEF Set, Staged
    <3>2. tx_status' = tx_status /\ ver' = ver /\ pc' = pc
      BY <2>3 DEF vars, txVars
    <3>3. \A t \in Tx : \A l \in DOMAIN locations[t].read :
            /\ ~Lowers(th, t)
            /\ Revalidates(th, t, l) => \/ Revalidates(th, t, l)'
                                        \/ t = k /\ l = m
      BY <1>1, <2>1, <3>1, <3>2, ZenonT(30) DEF Revalidates, Lowers
    <3> QED
      BY <1>0, <1>2, <1>3, <2>3, <3>2, <3>3, DueCalm, ZenonT(30)
  <2>4. ASSUME Set(th, Idle), ReadSetChecked(th, FALSE)
        PROVE  StaleReadsDue'
    <3>1. tx_status' = tx_status /\ ver' = ver /\ pc'[th] = "try_abort"
      BY <1>0, <2>4 DEF ReadSetChecked, Goto, txVars
    <3>2. \A t, l : ~Lowers(th, t) /\ (Revalidates(th, t, l) => Revalidates(th, t, l)')
      BY <2>1, <3>1 DEF Revalidates, Lowers
    <3> QED
      BY <1>0, <1>2, <1>3, <3>1, <3>2, DueCalm, ZenonT(30)
  <2> QED
    BY <2>2, <2>3, <2>4
<1>10. CASE ValidateDone(th)
  <2>1. work[th].stage = "check" /\ work[th].todo = {} /\ pc[th] = "validate"
    BY <1>0, <1>10 DEF ValidateDone, Staged
  <2>2. tx_status' = tx_status /\ pc'[th] = "confirm"
    BY <1>0, <1>10 DEF ValidateDone, ReadSetChecked, Goto, txVars
  <2>3. \A t, l : ~Revalidates(th, t, l) /\ ~Lowers(th, t)
    BY <2>1 DEF Revalidates, Lowers
  <2> QED
    BY <1>0, <1>2, <1>3, <2>2, <2>3, DueCalm, ZenonT(30)
<1>11. CASE BeginConvert(th)
  <2>1. UNCHANGED vars /\ work[th].stage = "idle" /\ pc[th] = "estimate"
    BY <1>11 DEF BeginConvert
  <2>2. tx_status' = tx_status /\ ver' = ver /\ pc' = pc
    BY <2>1 DEF vars, txVars
  <2>3. \A t, l : ~Revalidates(th, t, l) /\ (Lowers(th, t) => Lowers(th, t)')
    BY <2>1, <2>2 DEF Revalidates, Lowers
  <2> QED
    BY <1>0, <1>2, <1>3, <2>1, <2>2, <2>3, DueCalm, ZenonT(30)
<1>12. CASE ConvertDone(th)
  <2>1. /\ pc[th] = "estimate" /\ pc'[th] = "lower_abort" /\ ver' = ver
        /\ work[th].stage = "converted" /\ SetReadyStatus(k)
    BY <1>0, <1>1, <1>12 DEF ConvertDone, RescheduleAborted, Goto
  <2>2. \A t, l : ~Revalidates(th, t, l) /\ (Lowers(th, t) => Lowers(th, t)')
    BY <2>1 DEF Revalidates, Lowers
  <2>3. tx_status[k].status \notin Finished
    BY <1>1, <2>1, Alone
  <2>4. \A t \in Tx : FinishedSame(t)
    BY <1>0, <2>1, <2>3 DEF SetReadyStatus, FinishedSame, Finished
  <2>5. \A t \in Tx : Settled(t)' => Settled(t)
    BY <1>0, <2>1, <2>4, SettledStays
  <2> QED
    BY <1>0, <1>2, <2>2, <2>5, DueCalm
<1> QED
  BY <1>5, <1>6, <1>7, <1>8, <1>9, <1>10, <1>11, <1>12

\* The read set of the transaction that is recorded is not in use.
LEMMA DueBeginRecord ==
  ASSUME Known, LocInv, StaleReadsDue, NEW th \in Threads, BeginRecord(th)
  PROVE  StaleReadsDue'
<1>0. TypeOK /\ Frame(th)
  BY WorkerFrame DEF Known, Worker
<1>1. PICK k \in Tx : k = ver[th].tx_idx
  BY <1>0, IndexTypes
<1>2. /\ UNCHANGED vars /\ data' = data
      /\ pc[th] = "execute" /\ work[th].stage = "idle"
      /\ \A j \in Tx \ {k} : locations'[j].read = locations[j].read
  BY <1>1, BeginRecordEffect
<1>3. /\ tx_status' = tx_status /\ pc' = pc /\ ver' = ver
      /\ abort_reason' = abort_reason /\ validation_idx' = validation_idx
  BY <1>2 DEF vars, txVars, abortVars, indices
<1>4. ~Settled(k) /\ \A t \in Tx : Settled(t)' => Settled(t)
  BY <1>1, <1>2, <1>3, Alone DEF Settled, ExecutionLabels, HoldsStatus
<1>5. \A t, l : ~Revalidates(th, t, l) /\ ~Lowers(th, t)
  BY <1>2 DEF Revalidates, Lowers
<1>6. ASSUME NEW t \in Tx, NEW l, OriginsValid(l, t, locations[t].read[l]), t # k
      PROVE  OriginsValid(l, t, locations[t].read[l])'
  BY <1>2, <1>6, OtherLocations
<1> QED
  BY <1>0, <1>2, <1>3, <1>4, <1>5, <1>6, DueKept, ZenonT(30)

\* What other transactions read from an ESTIMATE was not valid before either.
LEMMA DueRemove ==
  ASSUME Known, LocInv, EntryInv, StaleReadsDue, NEW th \in Threads, RecordRemove(th)
  PROVE  StaleReadsDue'
<1>0. TypeOK /\ Frame(th) /\ MemInv /\ StageEntries(th) /\ Counted
  BY WorkerFrame DEF Known, Worker, EntryInv
<1>1. PICK k \in Tx : k = ver[th].tx_idx
  BY <1>0, IndexTypes
<1>2. /\ UNCHANGED vars /\ work' = work /\ work[th].stage = "record"
      /\ \A j \in Tx : locations'[j].read = locations[j].read
  BY <1>1, RecordRemoveEffect
<1>3. PICK m \in Loc : /\ m \in locations[k].write /\ m \notin RecordedSet(th)
                       /\ Removes(m, k)
  BY <1>1, RecordRemoveEffect
<1>4. /\ tx_status' = tx_status /\ pc' = pc /\ ver' = ver /\ flags' = flags
      /\ abort_reason' = abort_reason /\ validation_idx' = validation_idx
  BY <1>2 DEF vars, txVars, abortVars, indices
<1>5. \A t \in Tx : Settled(t)' => Settled(t)
  BY <1>4 DEF Settled
<1>6. \A t, l : /\ Revalidates(th, t, l) => Revalidates(th, t, l)'
                /\ Lowers(th, t) => Lowers(th, t)'
  BY <1>2, <1>4 DEF Revalidates, Lowers
<1>7. m \in Loc /\ k \in DOMAIN data[m] /\ data[m][k] = Estimate
  BY <1>0, <1>1, <1>2, <1>3 DEF StageEntries, Marked
<1>8. ASSUME NEW t \in Tx, NEW l \in DOMAIN locations[t].read,
             OriginsValid(l, t, locations[t].read[l])
      PROVE  OriginsValid(l, t, locations[t].read[l])'
  <2>1. l \in Loc /\ \E n \in Nat : DOMAIN locations[t].read[l] = 1 .. n
    BY DEF LocInv, Listed
  <2>2. CASE l = m
    <3>1. DOMAIN data[l] \subseteq Tx /\ DOMAIN data'[l] = DOMAIN data[l] \ {k}
          /\ \A j \in DOMAIN data[l] \ {k} : data'[l][j] = data[l][j]
      BY <1>0, <1>3, <1>7, <2>2 DEF MemInv, Removes
    <3> QED
      BY <1>0, <1>2, <1>7, <1>8, <2>1, <2>2, <3>1, EstimateRemoved, SMTT(30), ZenonT(40)
  <2>3. CASE l # m
    <3>1. data'[l] = data[l]
      BY <1>3, <2>1, <2>3 DEF Removes
    <3> QED
      BY <1>2, <1>8, <3>1, OtherLocations
  <2> QED
    BY <2>2, <2>3
<1> QED
  BY <1>0, <1>2, <1>4, <1>5, <1>6, <1>8, DueKept

\* A new location is reported to the scheduler; at an old one there was an ESTIMATE.
LEMMA DueInsert ==
  ASSUME Known, LocInv, EntryInv, StaleReadsDue, NEW th \in Threads, RecordInsert(th)
  PROVE  StaleReadsDue'
<1>0. TypeOK /\ Frame(th) /\ MemInv /\ StageEntries(th)
  BY WorkerFrame DEF Known, Worker, EntryInv
<1>1. PICK k \in Tx : k = ver[th].tx_idx
  BY <1>0, IndexTypes
<1>2. /\ UNCHANGED vars /\ work[th].stage = "record" /\ pc[th] = "execute"
      /\ RecordedSet(th) \subseteq Loc
      /\ \A j \in Tx : locations'[j].read = locations[j].read
  BY <1>1, RecordInsertEffect
<1>3. PICK m \in work[th].todo :
        /\ m \in RecordedSet(th)
        /\ locations'[k].write = locations[k].write \cup {m}
        /\ Puts(m, k) /\ data'[m][k] # Estimate
        /\ work'[th].stage = (IF work[th].todo = {m} THEN "recorded" ELSE "record")
        /\ work'[th].todo = work[th].todo \ {m}
        /\ work'[th].wrote = (work[th].wrote \/ m \notin locations[k].write)
  BY <1>1, RecordInsertEffect
<1>4. /\ tx_status' = tx_status /\ pc' = pc /\ ver' = ver /\ flags' = flags
      /\ abort_reason' = abort_reason /\ validation_idx' = validation_idx
  BY <1>2 DEF vars, txVars, abortVars, indices
<1>5. \A t \in Tx : Settled(t)' => Settled(t)
  BY <1>4 DEF Settled
<1>6. work'[th].stage \in {"record", "recorded"}
  BY <1>3
<1>7. (work[th].wrote \/ m \notin locations[k].write) => work'[th].wrote
  BY <1>3
<1>8. \A t, l : ~Revalidates(th, t, l) /\ (Lowers(th, t) => Lowers(th, t)')
  BY <1>2, <1>4, <1>6, <1>7 DEF Revalidates, Lowers
<1>9. m \notin locations[k].write => \A t : k < t => Lowers(th, t)'
  BY <1>1, <1>4, <1>6, <1>7 DEF Lowers
<1>10. m \in Loc /\ (m \in locations[k].write => k \in DOMAIN data[m] /\ data[m][k] = Estimate)
  BY <1>0, <1>1, <1>2, <1>3 DEF StageEntries, Marked
<1>11. ASSUME NEW t \in Tx, NEW l \in DOMAIN locations[t].read,
              OriginsValid(l, t, locations[t].read[l])
       PROVE  OriginsValid(l, t, locations[t].read[l])' \/ Lowers(th, t)'
  <2>1. l \in Loc
    BY DEF LocInv, Listed
  <2>2. CASE l # m
    <3>1. data'[l] = data[l]
      BY <1>3, <2>1, <2>2 DEF Puts
    <3> QED
      BY <1>2, <1>11, <3>1, OtherLocations
  <2>3. CASE l = m /\ m \in locations[k].write
    <3>1. Entries(l, t)' = Entries(l, t) /\ data[l][k] = Estimate
          /\ \A j \in Entries(l, t) \ {k} : data'[l][j] = data[l][j]
      BY <1>3, <1>10, <2>3 DEF Puts, Entries
    <3> QED
      BY <1>2, <1>11, <3>1, EstimateReplaced
  <2>4. CASE l = m /\ ~(k < t)
    <3>1. Entries(l, t)' = Entries(l, t)
          /\ \A j \in Entries(l, t) : data'[l][j] = data[l][j]
      BY <1>3, <2>4 DEF Puts, Entries
    <3> QED
      BY <1>2, <1>11, <3>1, HigherEntries
  <2> QED
    BY <1>9, <2>2, <2>3, <2>4, ZenonT(30)
<1> QED
  BY <1>0, <1>2, <1>4, <1>5, <1>8, <1>11, DueKept, ZenonT(30)

\* An abort is followed by a fetch_min on validation_idx.
LEMMA DueConvert ==
  ASSUME Known, LocInv, StaleReadsDue, NEW th \in Threads, ConvertWrite(th)
  PROVE  StaleReadsDue'
<1>0. TypeOK /\ Frame(th)
  BY WorkerFrame DEF Known, Worker
<1>1. PICK k \in Tx : k = ver[th].tx_idx
  BY <1>0, IndexTypes
<1>2. /\ UNCHANGED vars /\ locations' = locations
      /\ pc[th] = "estimate" /\ work[th].stage = "convert"
  BY <1>1, ConvertWriteEffect
<1>3. PICK m \in Loc : Puts(m, k)
  BY <1>1, ConvertWriteEffect, SMTT(30)
<1>4. /\ tx_status' = tx_status /\ pc' = pc /\ ver' = ver
      /\ abort_reason' = abort_reason /\ validation_idx' = validation_idx
  BY <1>2 DEF vars, txVars, abortVars, indices
<1>5. \A t \in Tx : Settled(t)' => Settled(t)
  BY <1>4 DEF Settled
<1>6. \A t : k < t => Lowers(th, t)'
  BY <1>1, <1>2, <1>4 DEF Lowers
<1>7. \A t, l : ~Revalidates(th, t, l) /\ (Lowers(th, t) => Lowers(th, t)')
  BY <1>2, <1>4 DEF Revalidates, Lowers
<1>8. ASSUME NEW t \in Tx, NEW l \in DOMAIN locations[t].read,
             OriginsValid(l, t, locations[t].read[l])
      PROVE  OriginsValid(l, t, locations[t].read[l])' \/ Lowers(th, t)'
  <2>1. l \in Loc
    BY DEF LocInv, Listed
  <2>2. CASE l # m
    <3>1. data'[l] = data[l]
      BY <1>3, <2>1, <2>2 DEF Puts
    <3> QED
      BY <1>2, <1>8, <3>1, OtherLocations
  <2>3. CASE l = m /\ ~(k < t)
    <3>1. Entries(l, t)' = Entries(l, t)
          /\ \A j \in Entries(l, t) : data'[l][j] = data[l][j]
      BY <1>3, <2>3 DEF Puts, Entries
    <3> QED
      BY <1>2, <1>8, <3>1, HigherEntries
  <2> QED
    BY <1>6, <2>2, <2>3
<1> QED
  BY <1>0, <1>2, <1>4, <1>5, <1>7, <1>8, DueKept, Zenon

LEMMA DueStep ==
  ASSUME Known, ReadInv, NEW th \in Threads, Worker(th)
  PROVE  StaleReadsDue'
  BY DueScheduler, DueOther, DueBeginRecord, DueRemove, DueInsert, DueConvert, SMTT(30), ZenonT(40)
     DEF Worker,
     ReadInv

-----------------------------------------------------------------------------
\* The outcomes of executions and validations do not reach the fetch_min.
LEMMA BoundStep ==
  ASSUME Known, LowerBound, NEW th \in Threads, Worker(th)
  PROVE  LowerBound'
<1>0. Frame(th) /\ TypeOK /\ DOMAIN pc = Threads
  BY WorkerFrame DEF Known, TypeOK
<1>1. CASE SchedulerOnly(th)
  BY <1>0, <1>1, SchedulerBound DEF SchedulerOnly
<1>2. CASE ~SchedulerOnly(th)
  <2>1. UNCHANGED vars \/ Outcome(th)
    BY <1>2 DEF Worker, ReadLocation, LackOfFund, BeginRecord, RecordRemove, RecordInsert,
       RecordDone, HandleBlocking, HandleRetry, HandleAbort, BeginValidate, CheckLocation,
       ValidateDone, BeginConvert, ConvertWrite, ConvertDone, Outcome, AbortReason
  <2>2. CASE UNCHANGED vars
    BY <2>2 DEF vars, LowerBound
  <2>3. CASE Outcome(th)
    <3>1. pc'[th] \notin {"lower_min", "load_val_idx", "lower_next"}
      <4>1. CASE (\E fl : FinishExecution(th, fl)) \/ RescheduleAborted(th)
        BY <1>0, <4>1 DEF FinishExecution, RescheduleAborted, Goto
      <4>2. CASE (\E b : LockBlocking(th, b)) \/ \E valid \in BOOLEAN : ReadSetChecked(th, valid)
        BY <1>0, <4>2 DEF LockBlocking, ReadSetChecked, Goto
      <4>3. CASE (\E b : AddDependencyLate(th, b)) \/ ExecuteAgain(th)
        BY <1>0, <4>3 DEF AddDependencyLate, ExecuteAgain, Goto
      <4>4. CASE \E reason \in AbortReason : AbortScheduler(th, reason)
        BY <1>0, <4>4 DEF AbortScheduler, AbortReason, Goto
      <4> QED
        BY <2>3, <4>1, <4>2, <4>3, <4>4 DEF Outcome
    <3> QED
      BY <1>0, <3>1, SMTT(30) DEF LowerBound, Frame, ThreadsSame
  <2> QED
    BY <2>1, <2>2, <2>3
<1> QED
  BY <1>1, <1>2

-----------------------------------------------------------------------------
\* ReadInv is inductive, given what is known of the scheduler and the workers.
LEMMA ReadInvStep ==
  ASSUME Known, ReadInv, [PNext]_peVars
  PROVE  ReadInv'
<1>1. ASSUME NEW th \in Threads, Worker(th) PROVE ReadInv'
  BY <1>1, LocStep, EntryStep, DueStep, BoundStep DEF ReadInv
<1>2. CASE UNCHANGED <<vars, mvVars, txs, work>>
  <2>1. /\ UNCHANGED <<tx_status, pc, ver, idx, flags, validation_idx, abort_reason>>
        /\ UNCHANGED <<data, locations, txs, work>>
    BY <1>2 DEF vars, mvVars, txVars, indices, abortVars
  <2>2. LocInv'
    BY <2>1 DEF ReadInv, LocInv, Listed, RecordedSet, WriteSet
  <2>3. EntryInv'
    <3>1. \A k \in Tx : (Fresh(k)' <=> Fresh(k)) /\ (Published(k)' <=> Published(k))
      BY <2>1 DEF Fresh, Touches, Published, Publishes
    <3>2. \A k, l : Marked(l, k)' <=> Marked(l, k)
      BY <2>1 DEF Marked
    <3>3. \A th \in Threads : RecordedSet(th)' = RecordedSet(th)
      BY <2>1 DEF RecordedSet, WriteSet
    <3>4. \A th \in Threads : StageEntries(th)' <=> StageEntries(th)
      BY <2>1, <3>2, <3>3 DEF StageEntries
    <3> QED
      BY <2>1, <3>1, <3>2, <3>4 DEF ReadInv, EntryInv
  <2>4. StaleReadsDue'
    <3>1. \A t, l, o : OriginsValid(l, t, o) => OriginsValid(l, t, o)'
      BY <2>1, OtherLocations
    <3>2. \A t : Settled(t)' <=> Settled(t)
      BY <2>1 DEF Settled
    <3>3. \A th \in Threads : \A t, l : DueBy(th, t, l)' <=> DueBy(th, t, l)
      BY <2>1, SMTT(30) DEF DueBy, Revalidates, Lowers
    <3> QED
      BY <2>1, <3>1, <3>2, <3>3 DEF ReadInv, StaleReadsDue
  <2>5. LowerBound'
    BY <2>1 DEF ReadInv, LowerBound
  <2> QED
    BY <2>2, <2>3, <2>4, <2>5 DEF ReadInv
<1> QED
  BY <1>1, <1>2 DEF PNext, Collect, Returned, peVars
=============================================================================
