----------------------------- MODULE ValueProofs ------------------------------
(***************************************************************************)
(* Steps of ParallelExecutor.tla keep ValueInv: what an execution has read *)
(* are the amounts of the versions it names, and what it wrote follows     *)
(* from them.                                                              *)
(***************************************************************************)
EXTENDS StepProofs, ValueInvariants

\* The default prover of this module; a leaf with arithmetic names SMT.
USE ZenonT(40)

-----------------------------------------------------------------------------
(***************************************************************************)
(* A version is written once.                                              *)
(***************************************************************************)
\* Incarnations are never taken back.
Grows ==
  \A k \in Tx : /\ tx_status'[k].incarnation \in Nat
               /\ tx_status'[k].incarnation >= tx_status[k].incarnation

LEMMA StatusGrows ==
  ASSUME TypeOK,
         \/ tx_status' = tx_status
         \/ \E t \in Tx : \E s : SetStatus(t, s)
         \/ \E t \in Tx : SetReadyStatus(t)
  PROVE  Grows
<1>1. /\ DOMAIN tx_status = Tx
      /\ \A k \in Tx : /\ tx_status[k].incarnation \in Nat
                       /\ DOMAIN tx_status[k] = {"incarnation", "status"}
  BY SMTT(30) DEF TypeOK, TxStatus
<1>2. \A k \in Tx : /\ tx_status[k].incarnation >= tx_status[k].incarnation
                    /\ tx_status[k].incarnation + 1 >= tx_status[k].incarnation
                    /\ tx_status[k].incarnation + 1 \in Nat
  BY <1>1, SMTT(30)
<1>3. CASE tx_status' = tx_status
  BY <1>1, <1>2, <1>3 DEF Grows
<1>4. ASSUME NEW t \in Tx, NEW s, SetStatus(t, s) PROVE Grows
  <2>1. \A k \in Tx : tx_status'[k].incarnation = tx_status[k].incarnation
    BY <1>1, <1>4 DEF SetStatus
  <2> QED
    BY <1>1, <1>2, <2>1 DEF Grows
<1>5. ASSUME NEW t \in Tx, SetReadyStatus(t) PROVE Grows
  <2>1. \A k \in Tx \ {t} : tx_status'[k] = tx_status[k]
    BY <1>1, <1>5 DEF SetReadyStatus
  <2>2. tx_status'[t].incarnation = tx_status[t].incarnation + 1
    BY <1>1, <1>5 DEF SetReadyStatus
  <2> QED
    BY <1>1, <1>2, <2>1, <2>2 DEF Grows
<1> QED
  BY <1>3, <1>4, <1>5

LEMMA SchedulerGrows ==
  ASSUME TypeOK, NEW th \in Threads, SchedulerStep(th)
  PROVE  Grows
<1>0. ver[th].tx_idx \in Tx /\ tx_dependency[ver[th].tx_idx] \subseteq Tx
  BY DEF TypeOK
<1>1. CASE CheckAborted(th) \/ LoadExecutionIdx(th) \/ LoadValidationIdx(th)
  BY <1>1, StatusGrows DEF CheckAborted, LoadExecutionIdx, LoadValidationIdx, txVars
<1>2. CASE LoadNumValidated(th) \/ LoadMinValidationIdx(th) \/ TakeValidationIdx(th)
  BY <1>2, StatusGrows DEF LoadNumValidated, LoadMinValidationIdx, TakeValidationIdx, txVars
<1>3. CASE PeekStatus(th)
  BY <1>0, <1>3, StatusGrows DEF PeekStatus
<1>4. CASE TakeExecutionIdx(th) \/ LowerExecutionIdx(th) \/ LowerMinValidationIdx(th)
  BY <1>4, StatusGrows DEF TakeExecutionIdx, LowerExecutionIdx, LowerMinValidationIdx, txVars
<1>5. CASE TryExecute(th)
  BY <1>0, <1>5, StatusGrows DEF TryExecute
<1>6. CASE ResumeDependent(th)
  BY <1>0, <1>6, StatusGrows DEF ResumeDependent
<1>7. CASE CompareValidationIdx(th) \/ LowerValidationIdx(th) \/ InitAbortReason(th)
  BY <1>7, StatusGrows DEF CompareValidationIdx, LowerValidationIdx, InitAbortReason, txVars
<1>8. CASE SetExecutedStatus(th)
  BY <1>0, <1>8, StatusGrows DEF SetExecutedStatus
<1>9. CASE AddDependency(th)
  BY <1>0, <1>9, StatusGrows DEF AddDependency
<1>10. CASE TryValidationAbort(th)
  BY <1>0, <1>10, StatusGrows DEF TryValidationAbort
<1>11. CASE RescheduleAborted(th)
  BY <1>0, <1>11, StatusGrows DEF RescheduleAborted
<1>12. CASE LowerValidationIdxAborted(th) \/ CheckExecutionIdx(th) \/ WorkerLoop(th)
  BY <1>12, StatusGrows DEF LowerValidationIdxAborted, CheckExecutionIdx, WorkerLoop, txVars
<1>13. CASE ConfirmValidated(th)
  BY <1>0, <1>13, StatusGrows DEF ConfirmValidated
<1> QED
  BY <1>1, <1>2, <1>3, <1>4, <1>5, <1>6, <1>7, <1>8, <1>9, <1>10, <1>11, <1>12, <1>13
     DEF SchedulerStep

-----------------------------------------------------------------------------
(***************************************************************************)
(* The kinds of steps.                                                     *)
(***************************************************************************)
Records == {"record", "recorded"}

\* A step that neither reads nor writes the memory.
Calm(th) ==
  /\ data' = data /\ locations' = locations /\ txs' = txs
  /\ execution_results' = execution_results
  /\ Blank(th)' /\ work[th].stage \notin Records /\ work'[th].stage \notin Records

\* What it does to the statuses: the scheduler's own steps, none at all, those
\* that end a task, and the one that reschedules an aborted transaction.
StatusEffect(th) ==
  \/ SchedulerStep(th) /\ pc[th] # "estimate"
  \/ UNCHANGED vars
  \/ /\ tx_status' = tx_status /\ abort_reason' = abort_reason
     /\ pc[th] \in {"execute", "validate"} /\ pc'[th] \notin HoldsStatus \cup {"estimate"}
  \/ RescheduleAborted(th)

\* A read that found its value.
ReadsOk(th) ==
  LET t == ver[th].tx_idx
      w == work[th]
      l == txs[t].reads[Len(w.seen) + 1]
      r == Read(l, t, Prior(w, l))
  IN  /\ Executing(th) /\ Len(w.seen) < Len(txs[t].reads)
      /\ r.result = "Ok"
      /\ work'[th].seen = Append(w.seen, r.amount)
      /\ work'[th].reads = [m \in DOMAIN w.reads \cup {l} |->
                              IF m = l THEN r.origins ELSE w.reads[m]]
      /\ work'[th].stage = "idle"
      /\ UNCHANGED <<vars, mvVars, txs, execution_results>>

\* The ends of tasks leave the statuses alone.
LEMMA OutcomeStatus ==
  ASSUME TypeOK, NEW th \in Threads,
         \/ \E b : LockBlocking(th, b) \/ AddDependencyLate(th, b)
         \/ ExecuteAgain(th)
         \/ \E reason \in AbortReason : AbortScheduler(th, reason)
         \/ \E valid \in BOOLEAN : ReadSetChecked(th, valid)
  PROVE  StatusEffect(th)
<1> USE DEF Goto, Release, HoldsStatus, txVars, abortVars
<1>0. DOMAIN pc = Threads
  BY DEF TypeOK
<1>1. CASE \E b : LockBlocking(th, b)
  BY <1>0, <1>1 DEF LockBlocking, StatusEffect
<1>2. CASE ExecuteAgain(th)
  BY <1>0, <1>2 DEF ExecuteAgain, StatusEffect
<1>3. CASE \E reason \in AbortReason : AbortScheduler(th, reason)
  BY <1>0, <1>3 DEF AbortScheduler, AbortReason, StatusEffect
<1>4. CASE \E valid \in BOOLEAN : ReadSetChecked(th, valid)
  BY <1>0, <1>4 DEF ReadSetChecked, StatusEffect
<1> QED
  BY <1>1, <1>2, <1>3, <1>4 DEF AddDependencyLate

\* A worker that stops an execution, or validates, forgets what it has read.
LEMMA SetBlank ==
  ASSUME Known, NEW th \in Threads, NEW w, Set(th, w),
         w.seen = <<>>, w.reads = <<>>, w.stage \notin Records,
         work[th].stage \notin Records, UNCHANGED <<mvVars, txs, execution_results>>
  PROVE  Calm(th)
<1>1. work'[th] = w
  BY DEF Set, Known, WorkInv
<1> QED
  BY <1>1 DEF Calm, Blank, mvVars

CalmAction(th) ==
  \/ SchedulerOnly(th) \/ LackOfFund(th) \/ HandleBlocking(th) \/ HandleRetry(th)
  \/ HandleAbort(th) \/ BeginValidate(th) \/ CheckLocation(th) \/ ValidateDone(th)
  \/ BeginConvert(th) \/ ConvertDone(th)

LEMMA CalmActions ==
  ASSUME Known, BlankUnlessExecuting, NEW th \in Threads, CalmAction(th)
  PROVE  Calm(th) /\ StatusEffect(th)
<1>0. TypeOK /\ Staged(th) /\ DOMAIN work = Threads
  BY DEF Known, WorkInv
<1>1. Idle.seen = <<>> /\ Idle.reads = <<>> /\ Idle.stage \notin Records
  BY DEF Idle, Records
<1>2. \A st : st \notin Records =>
        /\ [Idle EXCEPT !.stage = st].seen = <<>> /\ [Idle EXCEPT !.stage = st].reads = <<>>
        /\ [Idle EXCEPT !.stage = st].stage \notin Records
  BY DEF Idle
<1>3. \A x : \A st \in {"check", "convert"} :
        /\ [Idle EXCEPT !.stage = st, !.todo = x].seen = <<>>
        /\ [Idle EXCEPT !.stage = st, !.todo = x].reads = <<>>
        /\ [Idle EXCEPT !.stage = st, !.todo = x].stage \notin Records
  BY DEF Idle, Records
<1>4. \A x : /\ [Idle EXCEPT !.stage = "blocking", !.on = x].seen = <<>>
             /\ [Idle EXCEPT !.stage = "blocking", !.on = x].reads = <<>>
             /\ [Idle EXCEPT !.stage = "blocking", !.on = x].stage \notin Records
  BY DEF Idle, Records
<1>5. CASE SchedulerOnly(th)
  <2>1. /\ pc[th] # "estimate" /\ SchedulerStep(th)
        /\ UNCHANGED <<mvVars, txs, work, execution_results>>
    BY <1>5 DEF SchedulerOnly
  <2>2. pc[th] # "execute"
    BY <2>1, SchedulerIdle
  <2>3. Blank(th) /\ work[th].stage \notin Records
    BY <1>0, <2>2 DEF BlankUnlessExecuting, Staged, ExecuteStages, Records
  <2> QED
    BY <2>1, <2>3 DEF Calm, Blank, mvVars, StatusEffect
<1>6. CASE LackOfFund(th)
  <2>1. work[th].stage \notin Records /\ UNCHANGED <<vars, mvVars, txs, execution_results>>
    BY <1>6 DEF LackOfFund, ReadsDone, Executing, Records
  <2>2. PICK x : \/ Set(th, [Idle EXCEPT !.stage = "blocking", !.on = x])
                 \/ Set(th, [Idle EXCEPT !.stage = "error"])
    BY <1>6 DEF LackOfFund
  <2>3. "error" \notin Records
    BY DEF Records
  <2>4. Calm(th)
    BY <1>2, <1>4, <2>1, <2>2, <2>3, SetBlank
  <2> QED
    BY <2>1, <2>4 DEF StatusEffect
<1>7. CASE HandleBlocking(th) \/ HandleRetry(th) \/ HandleAbort(th)
  <2>1. work[th].stage \notin Records /\ UNCHANGED <<mvVars, txs, execution_results>> /\ Set(th, Idle)
    BY <1>7 DEF HandleBlocking, HandleRetry, HandleAbort, Records
  <2>2. StatusEffect(th)
    BY <1>0, <1>7, OutcomeStatus DEF HandleBlocking, HandleRetry, HandleAbort, AbortReason
  <2> QED
    BY <1>1, <2>1, <2>2, SetBlank
<1>8. CASE BeginValidate(th) \/ BeginConvert(th)
  <2>1. work[th].stage \notin Records /\ UNCHANGED <<vars, mvVars, txs, execution_results>>
    BY <1>8 DEF BeginValidate, BeginConvert, Records
  <2>2. PICK st \in {"check", "convert"}, x \in {DOMAIN locations[ver[th].tx_idx].read,
                                               locations[ver[th].tx_idx].write} :
          Set(th, [Idle EXCEPT !.stage = st, !.todo = x])
    BY <1>8 DEF BeginValidate, BeginConvert
  <2> DEFINE w == [Idle EXCEPT !.stage = st, !.todo = x]
  <2>3. w.seen = <<>> /\ w.reads = <<>> /\ w.stage \notin Records /\ Set(th, w)
    BY <1>3, <2>2
  <2> HIDE DEF w
  <2>4. Calm(th)
    BY <2>1, <2>3, SetBlank
  <2> QED
    BY <2>1, <2>4 DEF StatusEffect
<1>9. CASE CheckLocation(th)
  <2>1. work[th].stage = "check" /\ UNCHANGED <<mvVars, txs, execution_results>>
    BY <1>9 DEF CheckLocation
  <2>2. PICK l : \/ Set(th, [work[th] EXCEPT !.todo = @ \ {l}]) /\ UNCHANGED vars
                 \/ Set(th, Idle) /\ ReadSetChecked(th, FALSE)
    BY <1>9 DEF CheckLocation
  <2>3. Blank(th)
    BY <2>1 DEF BlankUnlessExecuting
  <2> DEFINE w == [work[th] EXCEPT !.todo = @ \ {l}]
  <2>4. w.seen = <<>> /\ w.reads = <<>> /\ w.stage \notin Records /\ work[th].stage \notin Records
    BY <1>0, <2>1, <2>3 DEF Blank, Staged, Records
  <2>5. CASE Set(th, w) /\ UNCHANGED vars
    <3> HIDE DEF w
    <3> QED
      BY <2>1, <2>4, <2>5, SetBlank DEF StatusEffect
  <2>6. CASE Set(th, Idle) /\ ReadSetChecked(th, FALSE)
    BY <1>0, <1>1, <2>1, <2>4, <2>6, SetBlank, OutcomeStatus
  <2> QED
    BY <2>2, <2>5, <2>6
<1>10. CASE ValidateDone(th)
  <2>1. /\ work[th].stage \notin Records /\ UNCHANGED <<mvVars, txs, execution_results>>
        /\ Set(th, Idle) /\ ReadSetChecked(th, TRUE)
    BY <1>10 DEF ValidateDone, Records
  <2> QED
    BY <1>0, <1>1, <2>1, SetBlank, OutcomeStatus
<1>11. CASE ConvertDone(th)
  <2>1. /\ work[th].stage \notin Records /\ UNCHANGED <<mvVars, txs, execution_results>>
        /\ Set(th, Idle) /\ RescheduleAborted(th)
    BY <1>11 DEF ConvertDone, Records
  <2> QED
    BY <1>1, <2>1, SetBlank DEF StatusEffect
<1> QED
  BY <1>5, <1>6, <1>7, <1>8, <1>9, <1>10, <1>11 DEF CalmAction

LEMMA ReadActions ==
  ASSUME Known, BlankUnlessExecuting, NEW th \in Threads, ReadLocation(th)
  PROVE  (Calm(th) /\ UNCHANGED vars /\ work'[th].stage # "error") \/ ReadsOk(th)
<1> DEFINE t == ver[th].tx_idx
           l == txs[t].reads[Len(work[th].seen) + 1]
           r == Read(l, t, Prior(work[th], l))
           reads == [m \in DOMAIN work[th].reads \cup {l} |->
                       IF m = l THEN r.origins ELSE work[th].reads[m]]
           w == [work[th] EXCEPT !.seen = Append(@, r.amount), !.reads = reads]
<1>0. Staged(th) /\ DOMAIN work = Threads
  BY DEF Known, WorkInv
<1>1. /\ Executing(th) /\ Len(work[th].seen) < Len(txs[t].reads)
      /\ UNCHANGED <<vars, mvVars, txs, execution_results>>
  BY DEF ReadLocation
<1>2. work[th].stage = "idle" /\ work[th].stage \notin Records
  BY <1>1 DEF Executing, Records
<1>3. \/ r.result = "Ok" /\ Set(th, w)
      \/ \E x : Set(th, [Idle EXCEPT !.stage = "blocking", !.on = x])
      \/ \E st \in {"retry", "fallback"} : Set(th, [Idle EXCEPT !.stage = st])
  BY DEF ReadLocation
<1>4. CASE r.result = "Ok" /\ Set(th, w)
  <2>1. w.seen = Append(work[th].seen, r.amount) /\ w.reads = reads /\ w.stage = "idle"
    BY <1>0, <1>2 DEF Staged
  <2>2. work'[th] = w
    BY <1>0, <1>4 DEF Set
  <2> HIDE DEF w
  <2> QED
    BY <1>1, <1>4, <2>1, <2>2 DEF ReadsOk
<1>5. ASSUME NEW x, Set(th, [Idle EXCEPT !.stage = "blocking", !.on = x])
      PROVE  Calm(th) /\ work'[th].stage # "error"
  <2> DEFINE b == [Idle EXCEPT !.stage = "blocking", !.on = x]
  <2>1. b.seen = <<>> /\ b.reads = <<>> /\ b.stage \notin Records /\ b.stage = "blocking"
    BY DEF Idle, Records
  <2>2. Set(th, b)
    BY <1>5
  <2> HIDE DEF b
  <2>3. work'[th] = b
    BY <1>0, <2>2 DEF Set
  <2> QED
    BY <1>1, <1>2, <2>1, <2>2, <2>3, SetBlank
<1>6. ASSUME NEW st \in {"retry", "fallback"}, Set(th, [Idle EXCEPT !.stage = st])
      PROVE  Calm(th) /\ work'[th].stage # "error"
  <2> DEFINE b == [Idle EXCEPT !.stage = st]
  <2>1. b.seen = <<>> /\ b.reads = <<>> /\ b.stage \notin Records /\ b.stage = st
    BY DEF Idle, Records
  <2>2. Set(th, b)
    BY <1>6
  <2> HIDE DEF b
  <2>3. work'[th] = b
    BY <1>0, <2>2 DEF Set
  <2> QED
    BY <1>1, <1>2, <2>1, <2>2, <2>3, SetBlank
<1> HIDE DEF w, r
<1> QED
  BY <1>1, <1>3, <1>4, <1>5, <1>6

-----------------------------------------------------------------------------
(***************************************************************************)
(* Fresh transactions and unwritten versions.                              *)
(***************************************************************************)
LEMMA StatusStepGrows ==
  ASSUME TypeOK, NEW th \in Threads, StatusEffect(th) \/ tx_status' = tx_status
  PROVE  Grows
<1>1. SchedulerStep(th) => Grows
  BY SchedulerGrows
<1>2. tx_status' = tx_status => Grows
  BY StatusGrows
<1>3. RescheduleAborted(th) => SchedulerStep(th)
  BY DEF SchedulerStep
<1>4. UNCHANGED vars => tx_status' = tx_status
  BY DEF vars, txVars
<1> QED
  BY <1>1, <1>2, <1>3, <1>4 DEF StatusEffect

\* A transaction becomes fresh when it gets its next incarnation.
LEMMA FreshCalm ==
  ASSUME Known, NEW th \in Threads, Frame(th), StatusEffect(th),
         work[th].stage \notin Records, work'[th].stage \notin Records,
         NEW k \in Tx, Fresh(k)', tx_status'[k].incarnation = tx_status[k].incarnation
  PROVE  Fresh(k)
<1>0. /\ TypeOK /\ ver[th].tx_idx \in Tx
      /\ DOMAIN tx_status = Tx /\ tx_status[k].incarnation \in Nat
  BY SMTT(30) DEF Known, TypeOK, TxStatus
<1>1. \A o \in Threads \ {th} : ~Touches(o, k)
  BY DEF Fresh, Touches, Frame, ThreadsSame
<1>2. tx_status'[k].status \notin Finished /\ ~Touches(th, k)'
  BY DEF Fresh
<1>3. CASE SchedulerStep(th) /\ pc[th] # "estimate"
  <2>1. StatusMoved(th)
    BY <1>3, SchedulerStatus DEF Known
  <2>2. tx_status[k].status \notin Finished
    <3>1. CASE k # ver[th].tx_idx
      BY <1>2, <2>1, <3>1 DEF StatusMoved, FinishedSame
    <3>2. CASE k = ver[th].tx_idx
      BY <1>2, <2>1, <3>2 DEF StatusMoved, FinishedSame, Touches
    <3> QED
      BY <3>1, <3>2
  <2>3. ~Touches(th, k)
    <3>1. ASSUME pc[th] \in HoldsStatus, ver[th].tx_idx = k PROVE FALSE
      BY <1>2, <2>1, <3>1 DEF StatusMoved, Touches
    <3> QED
      BY <1>3, <3>1 DEF Touches, Records
  <2> QED
    BY <1>1, <2>2, <2>3 DEF Fresh
<1>4. CASE UNCHANGED vars
  BY <1>1, <1>2, <1>4 DEF vars, txVars, Fresh, Touches, Records
<1>5. CASE tx_status' = tx_status /\ pc[th] \in {"execute", "validate"}
  BY <1>1, <1>2, <1>5 DEF Fresh, Touches, Records, HoldsStatus
<1>6. CASE RescheduleAborted(th)
  <2>1. SetReadyStatus(ver[th].tx_idx)
    BY <1>6 DEF RescheduleAborted
  <2>2. k # ver[th].tx_idx
    <3>1. SUFFICES ASSUME k = ver[th].tx_idx PROVE FALSE
      OBVIOUS
    <3>2. tx_status'[k].incarnation = tx_status[k].incarnation + 1
      BY <1>0, <2>1, <3>1 DEF SetReadyStatus
    <3> QED
      BY <1>0, <3>2, SMTT(30)
  <2>3. tx_status'[k] = tx_status[k]
    BY <1>0, <2>1, <2>2 DEF SetReadyStatus
  <2> QED
    BY <1>1, <1>2, <2>2, <2>3 DEF Fresh, Touches
<1> QED
  BY <1>3, <1>4, <1>5, <1>6 DEF StatusEffect

\* What worker th has yet to record.
Ahead(th, l, v) ==
  work[th].stage = "record" /\ ver[th] = v /\ l \notin RecordedSet(th) \ work[th].todo

\* What is left to show that a version was not written before.
LEMMA UnwrittenKept ==
  ASSUME TypeOK, NEW th \in Threads, Frame(th), Grows, NEW l, NEW v \in Versions, Unwritten(l, v)',
         Fresh(v.tx_idx)' /\ tx_status'[v.tx_idx].incarnation = tx_status[v.tx_idx].incarnation
           => Fresh(v.tx_idx),
         Ahead(th, l, v)' => Unwritten(l, v)
  PROVE  Unwritten(l, v)
<1> DEFINE k == v.tx_idx
           i == tx_status[k].incarnation
           j == tx_status'[k].incarnation
<1>1. k \in Tx /\ v.tx_incarnation \in Nat
  BY SMTT(30) DEF Versions
<1>2. i \in Nat /\ j \in Nat /\ j >= i
  <2>1. tx_status[k] \in TxStatus
    BY <1>1 DEF TypeOK
  <2>2. i \in Nat
    BY <2>1, SMTT(30) DEF TxStatus
  <2> QED
    BY <1>1, <2>2 DEF Grows
<1>3. CASE v.tx_incarnation > j \/ (v.tx_incarnation = j /\ Fresh(k)')
  <2> HIDE DEF i, j, k
  <2>1. v.tx_incarnation > i \/ (v.tx_incarnation = i /\ i = j /\ Fresh(k)')
    <3>1. v.tx_incarnation > i \/ (v.tx_incarnation = i /\ i = j)
      <4>1. v.tx_incarnation >= j
        BY <1>1, <1>2, <1>3, SMTT(30)
      <4> QED
        BY <1>1, <1>2, <4>1, SMTT(30)
    <3>2. (v.tx_incarnation > j /\ i = j) => v.tx_incarnation > i
      OBVIOUS
    <3> QED
      BY <1>3, <3>1, <3>2
  <2> QED
    BY <2>1 DEF Unwritten, i, j, k
<1>4. ASSUME NEW o \in Threads, Ahead(o, l, v)' PROVE Unwritten(l, v)
  <2>1. CASE o = th
    BY <1>4, <2>1
  <2>2. CASE o # th
    <3>1. work'[o] = work[o] /\ ver'[o] = ver[o] /\ txs' = txs
      BY <2>2 DEF Frame, ThreadsSame
    <3>2. Ahead(o, l, v)
      BY <1>4, <3>1 DEF Ahead, RecordedSet
    <3> QED
      BY <3>2 DEF Ahead, Unwritten
  <2> QED
    BY <2>1, <2>2
<1>5. \/ v.tx_incarnation > j \/ (v.tx_incarnation = j /\ Fresh(k)')
      \/ \E o \in Threads : Ahead(o, l, v)'
  BY DEF Unwritten, Ahead
<1> QED
  BY <1>3, <1>4, <1>5

-----------------------------------------------------------------------------
(***************************************************************************)
(* What the steps of record and convert do to the memory.                  *)
(***************************************************************************)
\* Nothing happens to transaction j.
TxKept(j) ==
  /\ locations'[j].read = locations[j].read /\ locations'[j].write = locations[j].write
  /\ \A l \in Loc : /\ j \in DOMAIN data'[l] <=> j \in DOMAIN data[l]
                    /\ j \in DOMAIN data[l] => data'[l][j] = data[l][j]

\* A worker writes for its own transaction k.
Writes(th, k) ==
  /\ UNCHANGED vars /\ execution_results' = execution_results /\ Frame(th)
  /\ k \in Tx /\ ver[th].tx_idx = k /\ pc[th] \in {"execute", "estimate"}
  /\ \A j \in Tx \ {k} : TxKept(j)

\* It goes on with its record.
Recording(th) ==
  /\ work[th].stage = "record" /\ work'[th].seen = work[th].seen
  /\ work'[th].reads = work[th].reads /\ RecordedSet(th)' = RecordedSet(th)
  /\ work[th].todo \subseteq RecordedSet(th)
  /\ locations'[ver[th].tx_idx].read = locations[ver[th].tx_idx].read

Begins(th, k) ==
  /\ Writes(th, k) /\ data' = data
  /\ pc[th] = "execute" /\ work[th].stage = "idle" /\ work'[th].stage = "record"
  /\ work'[th].seen = work[th].seen /\ work'[th].reads = work[th].reads
  /\ work'[th].todo = RecordedSet(th)' /\ Executes(txs[k], work[th].seen)
  /\ locations'[k].read = work[th].reads /\ locations'[k].write = locations[k].write

RemovesOne(th, k, l) ==
  /\ Writes(th, k) /\ Recording(th) /\ work' = work
  /\ l \in Loc /\ l \notin RecordedSet(th) /\ Removes(l, k)

InsertsOne(th, k, l) ==
  /\ Writes(th, k) /\ Recording(th)
  /\ l \in Loc /\ l \in work[th].todo /\ l \in RecordedSet(th) /\ Puts(l, k)
  /\ data'[l][k] = Data(ver[th].tx_incarnation, WriteSet(txs[k], work[th].seen)[l])
  /\ locations[k].write \subseteq RecordedSet(th)
  /\ locations'[k].write = locations[k].write \cup {l}
  /\ work'[th].stage = (IF work[th].todo = {l} THEN "recorded" ELSE "record")
  /\ work'[th].todo = work[th].todo \ {l}

Converts(th, k, l) ==
  /\ Writes(th, k) /\ pc[th] = "estimate"
  /\ work[th].stage = "convert" /\ work'[th].stage \in {"convert", "converted"}
  /\ locations' = locations /\ l \in Loc /\ Puts(l, k) /\ data'[l][k] = Estimate /\ Blank(th)'

\* The other transactions do not notice.
LEMMA OthersUntouched ==
  ASSUME NEW k \in Tx, NEW l \in Loc, \A m \in Loc \ {l} : data'[m] = data[m],
         DOMAIN data'[l] \cup {k} = DOMAIN data[l] \cup {k},
         \A j \in DOMAIN data[l] \ {k} : data'[l][j] = data[l][j],
         \A j \in Tx \ {k} : /\ locations'[j].read = locations[j].read
                             /\ locations'[j].write = locations[j].write
  PROVE  \A j \in Tx \ {k} : TxKept(j)
<1> SUFFICES ASSUME NEW j \in Tx \ {k} PROVE TxKept(j)
  OBVIOUS
<1>1. \A m \in Loc : /\ j \in DOMAIN data'[m] <=> j \in DOMAIN data[m]
                     /\ j \in DOMAIN data[m] => data'[m][j] = data[m][j]
  OBVIOUS
<1> QED
  BY <1>1 DEF TxKept

LEMMA BeginsEffect ==
  ASSUME Known, LocInv, NEW th \in Threads, BeginRecord(th)
  PROVE  Begins(th, ver[th].tx_idx)
<1>0. MemInv /\ Staged(th) /\ DOMAIN work = Threads /\ ver[th].tx_idx \in Tx /\ Frame(th)
  BY WorkerFrame, IndexTypes DEF Known, WorkInv, Worker
<1>1. PICK k \in Tx : k = ver[th].tx_idx
  BY <1>0
<1> DEFINE todo == DOMAIN WriteSet(txs[k], work[th].seen)
           w == [work[th] EXCEPT !.stage = "record", !.todo = todo]
<1>2. /\ UNCHANGED vars /\ data' = data
      /\ pc[th] = "execute" /\ work[th].stage = "idle"
      /\ \A j \in Tx : locations'[j].write = locations[j].write
      /\ \A j \in Tx \ {k} : locations'[j].read = locations[j].read
      /\ work'[th].stage = "record" /\ work'[th].todo = RecordedSet(th)'
  BY <1>1, BeginRecordEffect
<1>3. /\ Set(th, w) /\ SetReadSet(k, work[th].reads)
      /\ ReadsDone(th) /\ Affordable(txs[k], work[th].seen)
      /\ execution_results' = execution_results
  BY <1>1 DEF BeginRecord
<1>4. w.seen = work[th].seen /\ w.reads = work[th].reads
  BY <1>0 DEF Staged
<1>5. work'[th] = w
  BY <1>0, <1>3 DEF Set
<1> HIDE DEF w
<1>6. locations'[k].read = work[th].reads
  BY <1>0, <1>3 DEF SetReadSet, MemInv
<1>7. Executes(txs[k], work[th].seen)
  BY <1>1, <1>3 DEF ReadsDone, Executes
<1>8. \A j \in Tx \ {k} : TxKept(j)
  BY <1>2 DEF TxKept
<1>9. Writes(th, k)
  BY <1>0, <1>1, <1>2, <1>3, <1>8 DEF Writes
<1> QED
  BY <1>1, <1>2, <1>4, <1>5, <1>6, <1>7, <1>9 DEF Begins

LEMMA RemovesEffect ==
  ASSUME Known, LocInv, NEW th \in Threads, RecordRemove(th)
  PROVE  \E l : RemovesOne(th, ver[th].tx_idx, l)
<1>0. ver[th].tx_idx \in Tx /\ Frame(th)
  BY WorkerFrame, IndexTypes DEF Known, Worker
<1>1. PICK k \in Tx : k = ver[th].tx_idx
  BY <1>0
<1>2. /\ UNCHANGED vars /\ work' = work
      /\ pc[th] = "execute" /\ work[th].stage = "record"
      /\ RecordedSet(th)' = RecordedSet(th)
      /\ \A j \in Tx : locations'[j].read = locations[j].read
      /\ \A j \in Tx \ {k} : locations'[j].write = locations[j].write
      /\ \E l \in Loc : l \notin RecordedSet(th) /\ Removes(l, k)
  BY <1>1, RecordRemoveEffect
<1>3. execution_results' = execution_results
  BY DEF RecordRemove
<1>4. PICK l \in Loc : l \notin RecordedSet(th) /\ Removes(l, k)
  BY <1>2
<1>5. \A j \in Tx \ {k} : TxKept(j)
  <2>1. /\ \A m \in Loc \ {l} : data'[m] = data[m]
        /\ DOMAIN data'[l] \cup {k} = DOMAIN data[l] \cup {k}
        /\ \A j \in DOMAIN data[l] \ {k} : data'[l][j] = data[l][j]
    BY <1>4 DEF Removes
  <2> QED
    BY <1>2, <2>1, OthersUntouched
<1>6. Writes(th, k)
  BY <1>0, <1>1, <1>2, <1>3, <1>5 DEF Writes
<1>7. Recording(th)
  BY <1>1, <1>2 DEF Recording, LocInv
<1> QED
  BY <1>1, <1>2, <1>4, <1>6, <1>7 DEF RemovesOne

LEMMA InsertsEffect ==
  ASSUME Known, LocInv, NEW th \in Threads, RecordInsert(th)
  PROVE  \E l : InsertsOne(th, ver[th].tx_idx, l)
<1>0. MemInv /\ Staged(th) /\ DOMAIN work = Threads /\ ver[th].tx_idx \in Tx /\ Frame(th)
  BY WorkerFrame, IndexTypes DEF Known, WorkInv, Worker
<1>1. PICK k \in Tx : k = ver[th].tx_idx
  BY <1>0
<1> DEFINE W(l) == [work[th] EXCEPT !.stage = IF work[th].todo = {l} THEN "recorded" ELSE @,
                                    !.todo = @ \ {l},
                                    !.wrote = @ \/ l \notin locations[k].write]
           e(l) == Data(ver[th].tx_incarnation, WriteSet(txs[k], work[th].seen)[l])
<1>2. /\ UNCHANGED vars
      /\ pc[th] = "execute" /\ work[th].stage = "record"
      /\ RecordedSet(th)' = RecordedSet(th) /\ RecordedSet(th) \subseteq Loc
      /\ locations[k].write \subseteq RecordedSet(th)
      /\ \A j \in Tx : locations'[j].read = locations[j].read
      /\ \A j \in Tx \ {k} : locations'[j].write = locations[j].write
  BY <1>1, RecordInsertEffect
<1>3. PICK l \in work[th].todo :
        /\ data' = Put(l, k, e(l))
        /\ locations' = [locations EXCEPT ![k].write = @ \cup {l}]
        /\ Set(th, W(l))
  BY <1>1 DEF RecordInsert, InsertWrite
<1>4. /\ W(l).stage = (IF work[th].todo = {l} THEN "recorded" ELSE "record")
      /\ W(l).todo = work[th].todo \ {l} /\ W(l).seen = work[th].seen
      /\ W(l).reads = work[th].reads
  BY <1>0, <1>2 DEF Staged
<1>5. work'[th] = W(l)
  BY <1>0, <1>3 DEF Set
<1> HIDE DEF W, e
<1>6. work[th].todo \subseteq RecordedSet(th)
  BY <1>2 DEF LocInv
<1>7. l \in Loc
  BY <1>2, <1>6
<1>8. Puts(l, k) /\ data'[l][k] = e(l)
  BY <1>0, <1>3, <1>7, PutPuts
<1>9. locations'[k].write = locations[k].write \cup {l}
  BY <1>0, <1>3 DEF MemInv
<1>10. execution_results' = execution_results
  BY DEF RecordInsert
<1>11. \A j \in Tx \ {k} : TxKept(j)
  <2>1. /\ \A m \in Loc \ {l} : data'[m] = data[m]
        /\ DOMAIN data'[l] \cup {k} = DOMAIN data[l] \cup {k}
        /\ \A j \in DOMAIN data[l] \ {k} : data'[l][j] = data[l][j]
    BY <1>8 DEF Puts
  <2> QED
    BY <1>2, <1>7, <2>1, OthersUntouched
<1>12. Writes(th, k)
  BY <1>0, <1>1, <1>2, <1>10, <1>11 DEF Writes
<1>13. Recording(th)
  BY <1>1, <1>2, <1>4, <1>5, <1>6 DEF Recording
<1> QED
  BY <1>1, <1>2, <1>4, <1>5, <1>6, <1>7, <1>8, <1>9, <1>12, <1>13 DEF InsertsOne, e

LEMMA ConvertsEffect ==
  ASSUME Known, LocInv, BlankUnlessExecuting, NEW th \in Threads, ConvertWrite(th)
  PROVE  \E l : Converts(th, ver[th].tx_idx, l)
<1>0. Staged(th) /\ DOMAIN work = Threads /\ ver[th].tx_idx \in Tx /\ Frame(th)
  BY WorkerFrame, IndexTypes DEF Known, WorkInv, Worker
<1>1. PICK k \in Tx : k = ver[th].tx_idx
  BY <1>0
<1>2. /\ UNCHANGED vars /\ locations' = locations
      /\ pc[th] = "estimate" /\ work[th].stage = "convert"
      /\ \E l \in Loc : Puts(l, k) /\ data'[l][k] = Estimate
      /\ work'[th].stage \in {"convert", "converted"}
  <2>1. /\ UNCHANGED vars /\ locations' = locations
        /\ pc[th] = "estimate" /\ work[th].stage = "convert"
        /\ \E l \in work[th].todo :
             /\ l \in locations[k].write /\ l \in Loc
             /\ Puts(l, k) /\ data'[l][k] = Estimate
             /\ \/ work[th].todo = {l} /\ work'[th].stage = "converted"
                \/ work'[th].stage = "convert" /\ work'[th].todo = work[th].todo \ {l}
    BY <1>1, ConvertWriteEffect
  <2> QED
    BY <2>1
<1>3. execution_results' = execution_results
  BY DEF ConvertWrite
<1>4. PICK l \in Loc : Puts(l, k) /\ data'[l][k] = Estimate
  BY <1>2
<1>5. Blank(th)'
  <2>1. Blank(th)
    BY <1>2 DEF BlankUnlessExecuting
  <2>2. PICK m : \/ Set(th, [Idle EXCEPT !.stage = "converted"])
                 \/ Set(th, [work[th] EXCEPT !.todo = @ \ {m}])
    BY DEF ConvertWrite
  <2>3. /\ [Idle EXCEPT !.stage = "converted"].seen = <<>>
        /\ [Idle EXCEPT !.stage = "converted"].reads = <<>>
        /\ [work[th] EXCEPT !.todo = @ \ {m}].seen = <<>>
        /\ [work[th] EXCEPT !.todo = @ \ {m}].reads = <<>>
    BY <1>0, <2>1 DEF Idle, Staged, Blank
  <2> QED
    BY <1>0, <2>2, <2>3 DEF Set, Blank
<1>6. \A j \in Tx \ {k} : TxKept(j)
  <2>1. /\ \A m \in Loc \ {l} : data'[m] = data[m]
        /\ DOMAIN data'[l] \cup {k} = DOMAIN data[l] \cup {k}
        /\ \A j \in DOMAIN data[l] \ {k} : data'[l][j] = data[l][j]
    BY <1>4 DEF Puts
  <2> QED
    BY <1>2, <2>1, OthersUntouched
<1>7. Writes(th, k)
  BY <1>0, <1>1, <1>2, <1>3, <1>6 DEF Writes
<1> QED
  BY <1>1, <1>2, <1>4, <1>5, <1>7 DEF Converts

\* record is over: the result is stored, and finish_execution begins.
Concludes(th, k) ==
  /\ Frame(th) /\ k \in Tx /\ ver[th].tx_idx = k /\ pc[th] = "execute"
  /\ work[th].stage = "recorded" /\ work'[th].stage = "idle" /\ Blank(th)'
  /\ execution_results'[k] = work[th].seen
  /\ DOMAIN execution_results' = DOMAIN execution_results
  /\ \A j \in Tx \ {k} : execution_results'[j] = execution_results[j]
  /\ pc'[th] = "drain" /\ ver' = ver /\ tx_status' = tx_status
  /\ abort_reason' = abort_reason /\ data' = data /\ locations' = locations

LEMMA ConcludesEffect ==
  ASSUME Known, DOMAIN execution_results = Tx, NEW th \in Threads, RecordDone(th)
  PROVE  Concludes(th, ver[th].tx_idx)
<1>0. /\ Staged(th) /\ DOMAIN work = Threads /\ ver[th].tx_idx \in Tx /\ Frame(th)
      /\ DOMAIN pc = Threads
  BY WorkerFrame, IndexTypes DEF Known, WorkInv, Worker, TypeOK
<1>1. /\ work[th].stage = "recorded" /\ data' = data /\ locations' = locations
      /\ execution_results' = [execution_results EXCEPT ![ver[th].tx_idx] = work[th].seen]
      /\ \E fl : FinishExecution(th, fl)
      /\ Set(th, Idle)
  BY DEF RecordDone, mvVars
<1>2. work'[th].stage = "idle" /\ Blank(th)'
  BY <1>0, <1>1 DEF Set, Idle, Blank
<1>3. /\ pc[th] = "execute" /\ pc'[th] = "drain" /\ ver' = ver
      /\ tx_status' = tx_status /\ abort_reason' = abort_reason
  BY <1>0, <1>1 DEF FinishExecution, Goto, txVars, abortVars
<1> QED
  BY <1>0, <1>1, <1>2, <1>3 DEF Concludes

-----------------------------------------------------------------------------
(***************************************************************************)
(* A version that is unwritten was unwritten before.                       *)
(***************************************************************************)
LEMMA UnwrittenCalm ==
  ASSUME Known, NEW th \in Threads, Frame(th), StatusEffect(th),
         work[th].stage \notin Records, work'[th].stage \notin Records,
         NEW l, NEW v \in Versions, Unwritten(l, v)'
  PROVE  Unwritten(l, v)
<1>0. TypeOK /\ v.tx_idx \in Tx
  BY SMTT(30) DEF Known, Versions
<1>1. Grows
  BY <1>0, StatusStepGrows
<1>2. Fresh(v.tx_idx)' /\ tx_status'[v.tx_idx].incarnation = tx_status[v.tx_idx].incarnation
        => Fresh(v.tx_idx)
  BY <1>0, FreshCalm
<1>3. ~Ahead(th, l, v)'
  BY DEF Ahead, Records
<1> QED
  BY <1>0, <1>1, <1>2, <1>3, UnwrittenKept

\* So it is when the statuses stay and what worker th touches does, too.
LEMMA UnwrittenSame ==
  ASSUME Known, NEW th \in Threads, Frame(th), tx_status' = tx_status,
         \A k \in Tx : Touches(th, k) => Touches(th, k)',
         NEW l, NEW v \in Versions, Unwritten(l, v)',
         Ahead(th, l, v)' => Unwritten(l, v)
  PROVE  Unwritten(l, v)
<1>0. TypeOK /\ v.tx_idx \in Tx
  BY SMTT(30) DEF Known, Versions
<1>1. Grows
  BY <1>0, StatusStepGrows
<1>2. Fresh(v.tx_idx)' => Fresh(v.tx_idx)
  <2> SUFFICES ASSUME Fresh(v.tx_idx)' PROVE Fresh(v.tx_idx)
    OBVIOUS
  <2>1. \A o \in Threads \ {th} : ~Touches(o, v.tx_idx)
    BY DEF Fresh, Touches, Frame, ThreadsSame
  <2>2. ~Touches(th, v.tx_idx)
    BY <1>0 DEF Fresh
  <2> QED
    BY <2>1, <2>2 DEF Fresh
<1> QED
  BY <1>0, <1>1, <1>2, UnwrittenKept

LEMMA UnwrittenBegins ==
  ASSUME Known, NEW th \in Threads, NEW k, Begins(th, k),
         NEW l, NEW v \in Versions, Unwritten(l, v)'
  PROVE  Unwritten(l, v)
<1>0. /\ Frame(th) /\ UNCHANGED vars /\ k \in Tx /\ ver[th].tx_idx = k
      /\ pc[th] = "execute" /\ work[th].stage = "idle"
  BY DEF Begins, Writes
<1>1. tx_status' = tx_status /\ ver' = ver /\ pc' = pc
  BY <1>0 DEF vars, txVars
<1>2. \A j \in Tx : ~Touches(th, j)
  BY <1>0 DEF Touches, HoldsStatus
<1>3. Fresh(k)
  <2>1. /\ tx_status[k].status \notin Finished
        /\ \A o \in Threads \ {th} : ver[o].tx_idx = k =>
             /\ pc[o] \notin ExecutionLabels \cup {"estimate"}
             /\ work[o].stage \notin {"convert", "converted", "record", "recorded"}
    BY <1>0, Alone
  <2>2. \A o \in Threads \ {th} : ~Touches(o, k)
    BY <2>1 DEF Touches, ExecutionLabels
  <2> QED
    BY <1>0, <1>2, <2>1, <2>2 DEF Fresh
<1>4. tx_status[k].incarnation = ver[th].tx_incarnation
  <2>1. ExclusiveExecution /\ pc[th] \in ExecutionLabels
    BY <1>0 DEF Known, ExecutionLabels
  <2>2. tx_status[k] = [incarnation |-> ver[th].tx_incarnation, status |-> "Executing"]
    BY <1>0, <2>1 DEF ExclusiveExecution
  <2> QED
    BY <2>2, SMTT(30)
<1>5. Ahead(th, l, v)' => Unwritten(l, v)
  BY <1>0, <1>1, <1>3, <1>4 DEF Ahead, Unwritten
<1> QED
  BY <1>0, <1>1, <1>2, <1>5, UnwrittenSame

LEMMA UnwrittenRecord ==
  ASSUME Known, NEW th \in Threads, NEW k, NEW m,
         RemovesOne(th, k, m) \/ InsertsOne(th, k, m) \/ Converts(th, k, m),
         NEW l, NEW v \in Versions, Unwritten(l, v)'
  PROVE  Unwritten(l, v)
<1>0. Frame(th) /\ UNCHANGED vars
  BY DEF RemovesOne, InsertsOne, Converts, Writes
<1>1. tx_status' = tx_status /\ ver' = ver /\ pc' = pc
  BY <1>0 DEF vars, txVars
<1>2. CASE RemovesOne(th, k, m)
  <2>1. work' = work /\ RecordedSet(th)' = RecordedSet(th)
    BY <1>2 DEF RemovesOne, Recording
  <2>2. Ahead(th, l, v)' => Unwritten(l, v)
    BY <1>1, <2>1 DEF Ahead, Unwritten
  <2>3. \A j \in Tx : Touches(th, j) => Touches(th, j)'
    BY <1>1, <2>1 DEF Touches
  <2> QED
    BY <1>0, <1>1, <2>2, <2>3, UnwrittenSame
<1>3. CASE InsertsOne(th, k, m)
  <2>1. /\ RecordedSet(th)' = RecordedSet(th) /\ work[th].stage = "record"
        /\ work'[th].todo = work[th].todo \ {m} /\ work'[th].stage \in {"record", "recorded"}
    BY <1>3 DEF InsertsOne, Recording
  <2>2. Ahead(th, l, v)' => Unwritten(l, v)
    BY <1>1, <2>1 DEF Ahead, Unwritten
  <2>3. \A j \in Tx : Touches(th, j) => Touches(th, j)'
    BY <1>1, <2>1 DEF Touches
  <2> QED
    BY <1>0, <1>1, <2>2, <2>3, UnwrittenSame
<1>4. CASE Converts(th, k, m)
  <2>1. pc[th] = "estimate" /\ work'[th].stage \in {"convert", "converted"}
    BY <1>4 DEF Converts
  <2>2. ~Ahead(th, l, v)'
    BY <2>1 DEF Ahead
  <2>3. \A j \in Tx : Touches(th, j) => Touches(th, j)'
    BY <1>1, <2>1 DEF Touches
  <2> QED
    BY <1>0, <1>1, <2>2, <2>3, UnwrittenSame
<1> QED
  BY <1>2, <1>3, <1>4

LEMMA UnwrittenConcludes ==
  ASSUME Known, NEW th \in Threads, NEW k, Concludes(th, k),
         NEW l, NEW v \in Versions, Unwritten(l, v)'
  PROVE  Unwritten(l, v)
<1>1. Frame(th) /\ tx_status' = tx_status /\ ver' = ver /\ pc'[th] = "drain" /\ work'[th].stage = "idle"
  BY DEF Concludes
<1>2. ~Ahead(th, l, v)'
  BY <1>1 DEF Ahead
<1>3. \A j \in Tx : Touches(th, j) => Touches(th, j)'
  BY <1>1 DEF Touches, HoldsStatus
<1> QED
  BY <1>1, <1>2, <1>3, UnwrittenSame

-----------------------------------------------------------------------------
(***************************************************************************)
(* OriginsWritten.                                                         *)
(***************************************************************************)
\* No entry and no read set names an unwritten version for the first time.
NothingNew(th, l, v) ==
  /\ Unwritten(l, v)
  /\ HoldsVersion(l, v)' => HoldsVersion(l, v)
  /\ Names(work'[th].reads, l, v) => Names(work[th].reads, l, v) \/ HoldsVersion(l, v)
  /\ \A t \in Tx : Names(locations'[t].read, l, v) =>
                     Names(locations[t].read, l, v) \/ Names(work[th].reads, l, v)

LEMMA OriginsKept ==
  ASSUME OriginsWritten, NEW th \in Threads, Frame(th),
         \A l \in Loc : \A v \in Versions : Unwritten(l, v)' => NothingNew(th, l, v)
  PROVE  OriginsWritten'
<1> SUFFICES ASSUME NEW l \in Loc, NEW v \in Versions, Unwritten(l, v)'
             PROVE  /\ ~HoldsVersion(l, v)'
                    /\ \A o \in Threads : ~Names(work'[o].reads, l, v)
                    /\ \A t \in Tx : ~Names(locations'[t].read, l, v)
  BY DEF OriginsWritten
<1>1. NothingNew(th, l, v)
  OBVIOUS
<1>2. /\ ~HoldsVersion(l, v)
      /\ \A o \in Threads : ~Names(work[o].reads, l, v)
      /\ \A t \in Tx : ~Names(locations[t].read, l, v)
  BY <1>1 DEF OriginsWritten, NothingNew
<1>3. \A o \in Threads : ~Names(work'[o].reads, l, v)
  <2>1. \A o \in Threads \ {th} : work'[o] = work[o]
    BY DEF Frame
  <2>2. ~Names(work'[th].reads, l, v)
    BY <1>1, <1>2 DEF NothingNew
  <2> QED
    BY <1>2, <2>1, <2>2
<1> QED
  BY <1>1, <1>2, <1>3 DEF NothingNew

LEMMA NamesNothing ==
  ASSUME NEW l, NEW v
  PROVE  ~Names(<<>>, l, v)
  BY SMTT(30) DEF Names

LEMMA OriginsCalm ==
  ASSUME Known, OriginsWritten, NEW th \in Threads, Frame(th), Calm(th), StatusEffect(th)
  PROVE  OriginsWritten'
<1>1. /\ data' = data /\ locations' = locations /\ work'[th].reads = <<>>
      /\ work[th].stage \notin Records /\ work'[th].stage \notin Records
  BY DEF Calm, Blank
<1>2. ASSUME NEW l \in Loc, NEW v \in Versions, Unwritten(l, v)'
      PROVE  NothingNew(th, l, v)
  <2>1. Unwritten(l, v)
    BY <1>1, <1>2, UnwrittenCalm
  <2>2. HoldsVersion(l, v)' => HoldsVersion(l, v)
    BY <1>1 DEF HoldsVersion
  <2>3. ~Names(work'[th].reads, l, v)
    BY <1>1, NamesNothing
  <2> QED
    BY <1>1, <2>1, <2>2, <2>3 DEF NothingNew
<1> QED
  BY <1>2, OriginsKept

LEMMA OriginsConcludes ==
  ASSUME Known, OriginsWritten, NEW th \in Threads, NEW k, Concludes(th, k)
  PROVE  OriginsWritten'
<1>1. data' = data /\ locations' = locations /\ work'[th].reads = <<>> /\ Frame(th)
  BY DEF Concludes, Blank
<1>2. ASSUME NEW l \in Loc, NEW v \in Versions, Unwritten(l, v)'
      PROVE  NothingNew(th, l, v)
  <2>1. Unwritten(l, v)
    BY <1>2, UnwrittenConcludes
  <2>2. HoldsVersion(l, v)' => HoldsVersion(l, v)
    BY <1>1 DEF HoldsVersion
  <2>3. ~Names(work'[th].reads, l, v)
    BY <1>1, NamesNothing
  <2> QED
    BY <1>1, <2>1, <2>2, <2>3 DEF NothingNew
<1> QED
  BY <1>1, <1>2, OriginsKept

LEMMA OriginsBegins ==
  ASSUME Known, OriginsWritten, NEW th \in Threads, NEW k, Begins(th, k)
  PROVE  OriginsWritten'
<1>1. /\ Frame(th) /\ data' = data /\ work'[th].reads = work[th].reads
      /\ locations'[k].read = work[th].reads
      /\ \A j \in Tx \ {k} : locations'[j].read = locations[j].read
  BY DEF Begins, Writes, TxKept
<1>2. ASSUME NEW l \in Loc, NEW v \in Versions, Unwritten(l, v)'
      PROVE  NothingNew(th, l, v)
  <2>1. Unwritten(l, v)
    BY <1>2, UnwrittenBegins
  <2>2. HoldsVersion(l, v)' => HoldsVersion(l, v)
    BY <1>1 DEF HoldsVersion
  <2>3. ASSUME NEW t \in Tx, Names(locations'[t].read, l, v)
        PROVE  Names(locations[t].read, l, v) \/ Names(work[th].reads, l, v)
    BY <1>1, <2>3
  <2> QED
    BY <1>1, <2>1, <2>2, <2>3 DEF NothingNew
<1> QED
  BY <1>1, <1>2, OriginsKept

\* The version an execution writes is not unwritten any more.
LEMMA InsertWrites ==
  ASSUME Known, NEW th \in Threads, NEW k, NEW m, InsertsOne(th, k, m),
         NEW v \in Versions, v.tx_idx = k, v.tx_incarnation = ver[th].tx_incarnation
  PROVE  ~Unwritten(m, v)'
<1>0. /\ UNCHANGED vars /\ Frame(th) /\ k \in Tx /\ ver[th].tx_idx = k
      /\ work[th].stage = "record"
  BY DEF InsertsOne, Writes, Recording
<1>1. tx_status' = tx_status /\ ver' = ver /\ pc' = pc
  BY <1>0 DEF vars, txVars
<1>2. pc[th] = "execute"
  BY <1>0 DEF Known, WorkInv, Staged, ExecuteStages
<1>3. tx_status[k].incarnation = ver[th].tx_incarnation /\ v.tx_incarnation \in Nat
  <2>1. ExclusiveExecution /\ pc[th] \in ExecutionLabels
    BY <1>2 DEF Known, ExecutionLabels
  <2>2. tx_status[k] = [incarnation |-> ver[th].tx_incarnation, status |-> "Executing"]
    BY <1>0, <2>1 DEF ExclusiveExecution
  <2>3. v.tx_incarnation \in Nat
    BY SMTT(30) DEF Versions
  <2> QED
    BY <2>2, <2>3, SMTT(30)
<1>4. ~(v.tx_incarnation > tx_status'[k].incarnation)
  <2>1. v.tx_incarnation = tx_status'[k].incarnation
    BY <1>1, <1>3
  <2>2. ~(v.tx_incarnation > v.tx_incarnation)
    BY <1>3, SMTT(30)
  <2> QED
    BY <2>1, <2>2
<1>5. ~Fresh(k)'
  <2>1. work'[th].stage \in {"record", "recorded"}
    BY DEF InsertsOne
  <2>2. Touches(th, k)'
    BY <1>0, <1>1, <2>1 DEF Touches
  <2> QED
    BY <2>2 DEF Fresh
<1>6. ASSUME NEW o \in Threads, Ahead(o, m, v)' PROVE FALSE
  <2>1. CASE o = th
    <3>1. RecordedSet(th)' = RecordedSet(th) /\ m \in RecordedSet(th) /\ work'[th].todo = work[th].todo \ {m}
      BY DEF InsertsOne, Recording
    <3> QED
      BY <1>6, <2>1, <3>1 DEF Ahead
  <2>2. CASE o # th
    <3>1. work[o].stage = "record" /\ ver[o].tx_idx = k
      BY <1>0, <1>1, <1>6, <2>2 DEF Ahead, Frame
    <3> QED
      BY <1>0, <1>2, <2>2, <3>1, Alone
  <2> QED
    BY <2>1, <2>2
<1> QED
  BY <1>4, <1>5, <1>6 DEF Unwritten, Ahead

LEMMA OriginsInserts ==
  ASSUME Known, OriginsWritten, NEW th \in Threads, NEW k, NEW m, InsertsOne(th, k, m)
  PROVE  OriginsWritten'
<1>1. /\ Frame(th) /\ k \in Tx /\ ver[th].tx_idx = k /\ work'[th].reads = work[th].reads
      /\ locations'[k].read = locations[k].read /\ m \in Loc /\ Puts(m, k)
      /\ data'[m][k] = Data(ver[th].tx_incarnation, WriteSet(txs[k], work[th].seen)[m])
      /\ \A j \in Tx \ {k} : locations'[j].read = locations[j].read
  BY DEF InsertsOne, Writes, TxKept, Recording
<1>2. data'[m][k].incarnation = ver[th].tx_incarnation
  BY <1>1, SMTT(30) DEF Data
<1>3. ASSUME NEW l \in Loc, NEW v \in Versions, Unwritten(l, v)'
      PROVE  NothingNew(th, l, v)
  <2>1. Unwritten(l, v)
    BY <1>3, UnwrittenRecord
  <2>2. ASSUME HoldsVersion(l, v)' PROVE HoldsVersion(l, v)
    <3>1. CASE l = m /\ v.tx_idx = k
      <4>1. v.tx_incarnation = ver[th].tx_incarnation
        BY <1>2, <2>2, <3>1 DEF HoldsVersion
      <4> QED
        BY <1>3, <3>1, <4>1, InsertWrites
    <3>2. CASE l # m
      BY <1>1, <2>2, <3>2 DEF HoldsVersion, Puts
    <3>3. CASE v.tx_idx # k /\ l = m
      BY <1>1, <2>2, <3>3 DEF HoldsVersion, Puts
    <3> QED
      BY <3>1, <3>2, <3>3
  <2>3. \A t \in Tx : locations'[t].read = locations[t].read
    BY <1>1
  <2> QED
    BY <1>1, <2>1, <2>2, <2>3 DEF NothingNew
<1> QED
  BY <1>1, <1>3, OriginsKept

LEMMA OriginsRemoves ==
  ASSUME Known, OriginsWritten, NEW th \in Threads, NEW k, NEW m,
         RemovesOne(th, k, m) \/ Converts(th, k, m)
  PROVE  OriginsWritten'
<1>1. /\ Frame(th) /\ k \in Tx /\ m \in Loc
      /\ Removes(m, k) \/ (Puts(m, k) /\ data'[m][k] = Estimate)
      /\ work'[th].reads = work[th].reads \/ work'[th].reads = <<>>
      /\ \A t \in Tx : locations'[t].read = locations[t].read
  BY DEF RemovesOne, Converts, Writes, TxKept, Recording, Blank
<1>2. ASSUME NEW l \in Loc, NEW v \in Versions, Unwritten(l, v)'
      PROVE  NothingNew(th, l, v)
  <2>1. Unwritten(l, v)
    BY <1>2, UnwrittenRecord
  <2>2. ASSUME HoldsVersion(l, v)' PROVE HoldsVersion(l, v)
    BY <1>1, <2>2 DEF HoldsVersion, Removes, Puts
  <2>3. Names(work'[th].reads, l, v) => Names(work[th].reads, l, v)
    BY <1>1, NamesNothing
  <2> QED
    BY <1>1, <2>1, <2>2, <2>3 DEF NothingNew
<1> QED
  BY <1>1, <1>2, OriginsKept

-----------------------------------------------------------------------------
(***************************************************************************)
(* Reads.                                                                  *)
(***************************************************************************)
\* The program of a transaction.
LEMMA ProgramReads ==
  ASSUME txs \in Blocks, NEW t \in Tx
  PROVE  /\ txs[t].reads \in Seq(Loc) /\ Len(txs[t].reads) \in Nat
         /\ \A i \in 1 .. Len(txs[t].reads) : txs[t].reads[i] \in Loc
<1>1. txs[t].reads \in Seq(Loc)
  BY BlocksAssumption
<1> QED
  BY <1>1, SMTT(30)

\* Nothing read, nothing seen.
LEMMA BlankSaw ==
  ASSUME txs \in Blocks, NEW t \in Tx, NEW hist
  PROVE  SeenFrom(hist, t, txs[t], <<>>, <<>>)
<1>1. <<>> \in Seq(Int) /\ Len(<<>>) = 0 /\ DOMAIN <<>> = {} /\ 1 .. 0 = {}
  BY SMTT(30)
<1>2. 0 <= Len(txs[t].reads)
  <2>1. Len(txs[t].reads) \in Nat
    BY ProgramReads
  <2> QED
    BY <2>1, SMTT(30)
<1> QED
  BY <1>1, <1>2 DEF SeenFrom

LEMMA WorkerSaw ==
  ASSUME Known, NEW hist, WorkersSaw(hist), NEW th \in Threads, NEW t, t = ver[th].tx_idx
  PROVE  SeenFrom(hist, t, txs[t], work[th].seen, work[th].reads)
<1>1. t \in Tx /\ txs \in Blocks
  BY IndexTypes DEF Known, MemInv
<1>2. CASE Blank(th)
  BY <1>1, <1>2, BlankSaw DEF Blank
<1>3. CASE ~Blank(th)
  BY <1>3 DEF WorkersSaw
<1> QED
  BY <1>2, <1>3

\* The worker reads l, with origins o and amount a.
ReadsNext(hist, th, t, l, o, a) ==
  /\ t = ver[th].tx_idx /\ t \in Tx /\ l \in Loc /\ Executing(th)
  /\ Len(work[th].seen) < Len(txs[t].reads) /\ l = txs[t].reads[Len(work[th].seen) + 1]
  /\ Gives(hist, l, t, o, a)
  /\ l \in DOMAIN work[th].reads => o = work[th].reads[l]
  /\ work'[th].seen = Append(work[th].seen, a)
  /\ work'[th].reads = [m \in DOMAIN work[th].reads \cup {l} |->
                          IF m = l THEN o ELSE work[th].reads[m]]
  /\ work'[th].stage = "idle"
  /\ UNCHANGED vars /\ UNCHANGED mvVars /\ execution_results' = execution_results

LEMMA ReadsEffect ==
  ASSUME Known, Folded, NEW hist, SeenInv(hist), NEW th \in Threads, ReadsOk(th)
  PROVE  \E t, l, o, a : ReadsNext(hist, th, t, l, o, a)
<1>1. Counted /\ MemInv /\ History(hist) /\ EntriesAre(hist) /\ WorkersSaw(hist)
  BY DEF Known, SeenInv
<1>2. PICK t \in Tx : t = ver[th].tx_idx
  BY IndexTypes DEF Known
<1>3. PICK l : l = txs[t].reads[Len(work[th].seen) + 1]
  OBVIOUS
<1>4. PICK prior : prior = Prior(work[th], l)
  OBVIOUS
<1>5. PICK r : r = Read(l, t, prior)
  OBVIOUS
<1>6. /\ Executing(th) /\ Len(work[th].seen) < Len(txs[t].reads)
      /\ r.result = "Ok"
      /\ work'[th].seen = Append(work[th].seen, r.amount)
      /\ work'[th].reads = [m \in DOMAIN work[th].reads \cup {l} |->
                              IF m = l THEN r.origins ELSE work[th].reads[m]]
      /\ work'[th].stage = "idle"
      /\ UNCHANGED vars /\ UNCHANGED mvVars /\ execution_results' = execution_results
  BY <1>2, <1>3, <1>4, <1>5 DEF ReadsOk
<1>7. SeenFrom(hist, t, txs[t], work[th].seen, work[th].reads)
  BY <1>1, <1>2, WorkerSaw
<1>8. l \in Loc
  <2>1. Len(work[th].seen) \in Nat
    BY <1>7, SMTT(30) DEF SeenFrom
  <2>2. Len(txs[t].reads) \in Nat /\ \A i \in 1 .. Len(txs[t].reads) : txs[t].reads[i] \in Loc
    BY <1>1, ProgramReads DEF MemInv
  <2>3. Len(work[th].seen) + 1 \in 1 .. Len(txs[t].reads)
    BY <1>6, <2>1, <2>2, SMTT(30), ZenonT(40)
  <2> QED
    BY <1>3, <2>2, <2>3
<1>9. ReadGives(hist, l, t, prior, r)
  BY <1>2, <1>5, <1>6, <1>8 DEF Folded, ReadsFolded
<1>10. l \in DOMAIN work[th].reads => r.origins = work[th].reads[l]
  <2> SUFFICES ASSUME l \in DOMAIN work[th].reads PROVE r.origins = work[th].reads[l]
    OBVIOUS
  <2>1. prior = work[th].reads[l]
    BY <1>4 DEF Prior
  <2>2. OriginsOf(hist, t, l, prior)
    BY <1>7, <2>1 DEF SeenFrom
  <2>3. prior # <<>>
    BY <2>2 DEF OriginsOf
  <2> QED
    BY <1>9, <2>1, <2>2, <2>3 DEF ReadGives
<1>11. ReadsNext(hist, th, t, l, r.origins, r.amount)
  BY <1>2, <1>3, <1>6, <1>8, <1>9, <1>10 DEF ReadsNext, ReadGives
<1> QED
  BY <1>11

LEMMA OriginsRead ==
  ASSUME Known, OriginsWritten, NEW th \in Threads, Frame(th),
         NEW hist, NEW t, NEW l, NEW o, NEW a, ReadsNext(hist, th, t, l, o, a)
  PROVE  OriginsWritten'
<1>1. /\ UNCHANGED vars /\ data' = data /\ locations' = locations
      /\ work[th].stage \notin Records /\ work'[th].stage \notin Records
  BY DEF ReadsNext, mvVars, Executing, Records
<1>2. ASSUME NEW m \in Loc, NEW v \in Versions, Unwritten(m, v)'
      PROVE  NothingNew(th, m, v)
  <2>1. Unwritten(m, v)
    BY <1>1, <1>2, UnwrittenCalm DEF StatusEffect
  <2>2. HoldsVersion(m, v)' => HoldsVersion(m, v)
    BY <1>1 DEF HoldsVersion
  <2>3. ASSUME Names(work'[th].reads, m, v)
        PROVE  Names(work[th].reads, m, v) \/ HoldsVersion(m, v)
    <3>1. CASE m \in DOMAIN work[th].reads
      <4>1. work'[th].reads[m] = work[th].reads[m]
        BY <3>1 DEF ReadsNext
      <4> QED
        BY <2>3, <3>1, <4>1 DEF Names
    <3>2. CASE m \notin DOMAIN work[th].reads
      <4>1. m = l /\ work'[th].reads[m] = o
        BY <2>3, <3>2 DEF ReadsNext, Names
      <4>2. \A i \in DOMAIN o : o[i] \in Versions => HoldsVersion(l, o[i])
        BY DEF ReadsNext, Gives
      <4> QED
        BY <2>3, <4>1, <4>2 DEF Names
    <3> QED
      BY <3>1, <3>2
  <2> QED
    BY <1>1, <2>1, <2>2, <2>3 DEF NothingNew
<1> QED
  BY <1>2, OriginsKept

\* What it has seen then are the amounts of the origins it has then.
LEMMA SeenNext ==
  ASSUME Known, Folded, NEW hist, SeenInv(hist), NEW th \in Threads, Frame(th),
         NEW t, NEW l, NEW o, NEW a, ReadsNext(hist, th, t, l, o, a)
  PROVE  SeenFrom(hist, t, txs[t], work'[th].seen, work'[th].reads)
<1> DEFINE R == work[th].reads
           R1 == work'[th].reads
           p == txs[t]
<1>1. PICK s : s = work[th].seen
  OBVIOUS
<1>2. PICK s1 : s1 = work'[th].seen
  OBVIOUS
<1>3. /\ SeenFrom(hist, t, p, s, R) /\ History(hist) /\ txs \in Blocks /\ t \in Tx /\ l \in Loc
      /\ Len(s) < Len(p.reads) /\ l = p.reads[Len(s) + 1] /\ s1 = Append(s, a)
      /\ OriginsOf(hist, t, l, o) /\ a = Amount(hist, l, o)
      /\ l \in DOMAIN R => o = R[l]
      /\ R1 = [m \in DOMAIN R \cup {l} |-> IF m = l THEN o ELSE R[m]]
  BY <1>1, <1>2, WorkerSaw DEF ReadsNext, Gives, SeenInv, Known, MemInv
<1>4. a \in Int
  BY <1>3 DEF Folded, AmountsFolded
<1>5. s \in Seq(Int) /\ Len(p.reads) \in Nat
  BY <1>3, ProgramReads DEF SeenFrom
<1>6. PICK n \in Nat : n = Len(s)
  BY <1>5, SMTT(30), ZenonT(40)
<1>7. s1 \in Seq(Int) /\ Len(s1) = n + 1 /\ s1[n + 1] = a /\ \A i \in 1 .. n : s1[i] = s[i]
  <2>1. s1 = Append(s, a)
    BY <1>3
  <2> HIDE DEF p, R, R1
  <2> QED
    BY <1>4, <1>5, <1>6, <2>1, SMTT(30), ZenonT(40)
<1>8. n + 1 <= Len(p.reads)
  <2>1. PICK z \in Nat : z = Len(p.reads)
    BY <1>5
  <2>2. n < z
    BY <1>3, <1>6, <2>1
  <2>3. n + 1 <= z
    BY <2>2, SMTT(30)
  <2> QED
    BY <2>1, <2>3
<1>9. \A m \in DOMAIN R1 : OriginsOf(hist, t, m, R1[m])
  BY <1>3 DEF SeenFrom
<1>10. l \in DOMAIN R1 /\ R1[l] = o /\ \A m \in DOMAIN R : m \in DOMAIN R1 /\ R1[m] = R[m]
  BY <1>3
<1>11. ASSUME NEW i \in 1 .. n + 1
       PROVE  p.reads[i] \in DOMAIN R1 /\ s1[i] = Amount(hist, p.reads[i], R1[p.reads[i]])
  <2>1. CASE i = n + 1
    BY <1>3, <1>6, <1>7, <1>10, <2>1
  <2>2. CASE i # n + 1
    <3>1. i \in 1 .. n
      BY <2>2, SMTT(30)
    <3>2. p.reads[i] \in DOMAIN R /\ s[i] = Amount(hist, p.reads[i], R[p.reads[i]])
      BY <1>3, <1>6, <3>1 DEF SeenFrom
    <3> QED
      BY <1>7, <1>10, <3>1, <3>2
  <2> QED
    BY <2>1, <2>2
<1> QED
  BY <1>2, <1>7, <1>8, <1>9, <1>11 DEF SeenFrom

-----------------------------------------------------------------------------
(***************************************************************************)
(* What the parts of ValueInv need to be kept.                             *)
(***************************************************************************)
LEMMA BlankKept ==
  ASSUME BlankUnlessExecuting, NEW th \in Threads, Frame(th),
         \/ pc'[th] = "execute" /\ work'[th].stage \in {"idle", "record", "recorded"}
         \/ Blank(th)'
  PROVE  BlankUnlessExecuting'
  BY DEF BlankUnlessExecuting, Blank, Frame, ThreadsSame

\* An entry of a transaction that is not touched.
LEMMA EntryOfKept ==
  ASSUME NEW j \in Tx, TxKept(j), txs' = txs, NEW l \in Loc, NEW seen, EntryOf(l, j, seen)
  PROVE  EntryOf(l, j, seen)'
  BY DEF EntryOf, TxKept

LEMMA WroteKept ==
  ASSUME LocInv, NEW j \in Tx, TxKept(j), txs' = txs, NEW seen, Wrote(j, seen)
  PROVE  Wrote(j, seen)'
<1>1. locations'[j].write = locations[j].write /\ locations[j].write \subseteq Loc
  BY DEF TxKept, LocInv
<1>2. \A l \in locations[j].write : EntryOf(l, j, seen)'
  BY <1>1, EntryOfKept DEF Wrote
<1> QED
  BY <1>1, <1>2 DEF Wrote

LEMMA RecordsKept ==
  ASSUME Known, LocInv, RecordsSeen, NEW th \in Threads, Frame(th),
         \A o \in Threads \ {th} : work[o].stage \in Records => TxKept(ver[o].tx_idx),
         RecordSeen(th)'
  PROVE  RecordsSeen'
<1> SUFFICES ASSUME NEW o \in Threads \ {th} PROVE RecordSeen(o)'
  BY DEF RecordsSeen
<1>1. PICK t \in Tx : t = ver[o].tx_idx
  BY IndexTypes DEF Known
<1>2. PICK w : w = work[o]
  OBVIOUS
<1>3. work'[o] = w /\ ver'[o].tx_idx = t /\ txs' = txs
  BY <1>1, <1>2 DEF Frame, ThreadsSame
<1>4. CASE w.stage \notin Records
  BY <1>3, <1>4 DEF RecordSeen, Records
<1>5. CASE w.stage \in Records
  <2>1. TxKept(t)
    BY <1>1, <1>2, <1>5
  <2>2. RecordSeen(o)
    BY DEF RecordsSeen
  <2>3. Executes(txs[t], w.seen) /\ locations'[t].read = w.reads
    BY <1>1, <1>2, <1>5, <2>1, <2>2 DEF RecordSeen, Records, TxKept
  <2>4. RecordedSet(o)' = RecordedSet(o) /\ RecordedSet(o) \subseteq Loc
    <3>1. MemInv
      BY DEF Known
    <3> QED
      BY <1>1, <1>2, <1>3, <3>1, WriteSetLoc DEF RecordedSet
  <2>5. ASSUME w.stage = "record", NEW l \in RecordedSet(o) \ w.todo PROVE EntryOf(l, t, w.seen)'
    <3>1. EntryOf(l, t, w.seen)
      BY <1>1, <1>2, <2>2, <2>5 DEF RecordSeen
    <3> QED
      BY <1>3, <2>1, <2>4, <3>1, EntryOfKept
  <2>6. ASSUME w.stage = "recorded" PROVE Wrote(t, w.seen)'
    <3>1. Wrote(t, w.seen)
      BY <1>1, <1>2, <2>2, <2>6 DEF RecordSeen
    <3> QED
      BY <1>3, <2>1, <3>1, WroteKept
  <2>7. /\ Executes(txs[t], w.seen)' /\ (locations[t].read = w.reads)'
    BY <1>3, <2>3
  <2> QED
    BY <1>3, <2>4, <2>5, <2>6, <2>7 DEF RecordSeen
<1> QED
  BY <1>4, <1>5

\* The result of j is in execution_results, with what it wrote.
ResultOf(j) == Executes(txs[j], execution_results[j]) /\ Wrote(j, execution_results[j])

LEMMA ResultsKept ==
  ASSUME LocInv, ResultsWritten, txs' = txs,
         \A j \in Tx : Concluded(j)' =>
           \/ Concluded(j) /\ TxKept(j) /\ execution_results'[j] = execution_results[j]
           \/ ResultOf(j)'
  PROVE  ResultsWritten'
<1> SUFFICES ASSUME NEW j \in Tx, Concluded(j)' PROVE ResultOf(j)'
  BY DEF ResultsWritten, ResultOf
<1>1. CASE Concluded(j) /\ TxKept(j) /\ execution_results'[j] = execution_results[j]
  <2>1. PICK x : x = execution_results[j]
    OBVIOUS
  <2>2. Executes(txs[j], x) /\ Wrote(j, x)
    BY <1>1, <2>1 DEF ResultsWritten
  <2>3. Wrote(j, x)'
    BY <1>1, <2>2, WroteKept
  <2> QED
    BY <1>1, <2>1, <2>2, <2>3 DEF ResultOf
<1> QED
  BY <1>1

\* What j read is what its result comes from.
ResultSaw(hist, j) == SeenFrom(hist, j, txs[j], execution_results[j], locations[j].read)

LEMMA SawKept ==
  ASSUME NEW hist, ResultsSaw(hist), txs' = txs,
         \A j \in Tx : Concluded(j)' =>
           \/ Concluded(j) /\ TxKept(j) /\ execution_results'[j] = execution_results[j]
           \/ ResultSaw(hist, j)'
  PROVE  ResultsSaw(hist)'
<1> SUFFICES ASSUME NEW j \in Tx, Concluded(j)' PROVE ResultSaw(hist, j)'
  BY DEF ResultsSaw, ResultSaw
<1>1. CASE Concluded(j) /\ TxKept(j) /\ execution_results'[j] = execution_results[j]
  <2>1. SeenFrom(hist, j, txs[j], execution_results[j], locations[j].read)
    BY <1>1 DEF ResultsSaw
  <2>2. execution_results'[j] = execution_results[j] /\ locations'[j].read = locations[j].read
    BY <1>1 DEF TxKept
  <2> QED
    BY <2>1, <2>2 DEF ResultSaw
<1> QED
  BY <1>1

LEMMA WorkersKept ==
  ASSUME NEW hist, WorkersSaw(hist), NEW th \in Threads, Frame(th),
         \/ Blank(th)'
         \/ \E t : /\ t = ver'[th].tx_idx
                   /\ SeenFrom(hist, t, txs[t], work'[th].seen, work'[th].reads)
  PROVE  WorkersSaw(hist)'
<1> SUFFICES ASSUME NEW o \in Threads
             PROVE  \/ Blank(o)'
                    \/ SeenFrom(hist, ver'[o].tx_idx, txs'[ver'[o].tx_idx], work'[o].seen, work'[o].reads)
  BY DEF WorkersSaw
<1>1. CASE o = th
  BY <1>1 DEF Frame
<1>2. CASE o # th
  <2>1. work'[o] = work[o] /\ ver'[o] = ver[o] /\ txs' = txs
    BY <1>2 DEF Frame, ThreadsSame
  <2>2. Blank(o) \/ SeenFrom(hist, ver[o].tx_idx, txs[ver[o].tx_idx], work[o].seen, work[o].reads)
    BY DEF WorkersSaw
  <2> QED
    BY <2>1, <2>2 DEF Blank
<1> QED
  BY <1>1, <1>2

\* Another value for a version nobody has seen changes nothing.
SameAt(hist, g, l, o) == \A i \in DOMAIN o : o[i] \in Versions => g[l][o[i]] = hist[l][o[i]]

SameRead(hist, g, t, l, o) == OriginsOf(g, t, l, o) /\ Amount(g, l, o) = Amount(hist, l, o)

LEMMA OriginsSame ==
  ASSUME NEW hist, NEW g, NEW t, NEW l, NEW o, OriginsOf(hist, t, l, o), SameAt(hist, g, l, o)
  PROVE  SameRead(hist, g, t, l, o)
<1>0. PICK n : n = Len(o)
  OBVIOUS
<1> DEFINE m == IF FromStorage(o) THEN n - 1 ELSE n
<1>1. /\ n \in Nat /\ n >= 1 /\ DOMAIN o = 1 .. n
      /\ \A i \in 1 .. n : o[i] \in Versions \cup {StorageOrigin}
  BY <1>0, SMTT(30) DEF OriginsOf
<1>2. n \in 1 .. n /\ \A i \in 1 .. n - 1 : i \in 1 .. n
  BY <1>1, SMTT(30)
<1>3. \A i \in 1 .. n : i \in 1 .. n - 1 \/ i = n
  BY <1>1, SMTT(30)
<1>4. \A i \in 1 .. n : o[i] # StorageOrigin => g[l][o[i]] = hist[l][o[i]]
  BY <1>1 DEF SameAt
<1>5. ASSUME NEW i \in 1 .. m PROVE o[i] # StorageOrigin /\ i \in 1 .. n
  <2>1. CASE FromStorage(o)
    <3>1. i \in 1 .. n - 1
      BY <2>1
    <3> QED
      BY <1>0, <1>2, <3>1 DEF OriginsOf
  <2>2. CASE ~FromStorage(o)
    <3>1. i \in 1 .. n
      BY <2>2
    <3> QED
      BY <1>0, <1>3, <2>2, <3>1 DEF OriginsOf, FromStorage
  <2> QED
    BY <2>1, <2>2
<1>6. [i \in 1 .. m |-> g[l][o[i]].amount] = [i \in 1 .. m |-> hist[l][o[i]].amount]
  BY <1>4, <1>5
<1>7. Amount(g, l, o) = Amount(hist, l, o)
  BY <1>0, <1>6 DEF Amount
<1>8. \A i \in 1 .. n - 1 : o[i] # StorageOrigin /\ g[l][o[i]].kind = "Lazy"
  BY <1>0, <1>2, <1>4 DEF OriginsOf
<1>9. FromStorage(o) \/ g[l][o[n]].kind # "Lazy"
  BY <1>0, <1>2, <1>4 DEF OriginsOf, FromStorage
<1> QED
  BY <1>0, <1>7, <1>8, <1>9 DEF OriginsOf, SameRead

SameFor(hist, g, reads) ==
  /\ DOMAIN reads \subseteq Loc
  /\ \A l \in Loc : \A v \in Versions : Names(reads, l, v) => g[l][v] = hist[l][v]

LEMMA SeenSame ==
  ASSUME NEW hist, NEW g, NEW t, NEW p, NEW seen, NEW reads,
         SeenFrom(hist, t, p, seen, reads), SameFor(hist, g, reads)
  PROVE  SeenFrom(g, t, p, seen, reads)
<1>1. ASSUME NEW l \in DOMAIN reads
      PROVE  OriginsOf(g, t, l, reads[l]) /\ Amount(g, l, reads[l]) = Amount(hist, l, reads[l])
  <2>1. PICK o : o = reads[l]
    OBVIOUS
  <2>2. OriginsOf(hist, t, l, o)
    BY <2>1 DEF SeenFrom
  <2>3. SameAt(hist, g, l, o)
    BY <2>1 DEF Names, SameFor, SameAt
  <2>4. SameRead(hist, g, t, l, o)
    BY <2>2, <2>3, OriginsSame
  <2> QED
    BY <2>1, <2>4 DEF SameRead
<1>2. \A n \in 1 .. Len(seen) :
        /\ p.reads[n] \in DOMAIN reads
        /\ seen[n] = Amount(g, p.reads[n], reads[p.reads[n]])
  BY <1>1 DEF SeenFrom
<1> QED
  BY <1>1, <1>2 DEF SeenFrom

LEMMA HistoryMoves ==
  ASSUME LocInv, OriginsWritten, NEW hist, SeenInv(hist), NEW g, History(g),
         \A l \in Loc : \A v \in Versions : g[l][v] = hist[l][v] \/ Unwritten(l, v)
  PROVE  WorkersSaw(g) /\ ResultsSaw(g)
<1>1. ASSUME NEW th \in Threads, ~Blank(th), NEW t, t = ver[th].tx_idx
      PROVE  SeenFrom(g, t, txs[t], work[th].seen, work[th].reads)
  <2>1. SeenFrom(hist, t, txs[t], work[th].seen, work[th].reads)
    BY <1>1 DEF SeenInv, WorkersSaw
  <2>2. SameFor(hist, g, work[th].reads)
    BY DEF LocInv, Listed, OriginsWritten, SameFor
  <2> QED
    BY <2>1, <2>2, SeenSame
<1>2. ASSUME NEW t \in Tx, Concluded(t)
      PROVE  SeenFrom(g, t, txs[t], execution_results[t], locations[t].read)
  <2>1. SeenFrom(hist, t, txs[t], execution_results[t], locations[t].read)
    BY <1>2 DEF SeenInv, ResultsSaw
  <2>2. SameFor(hist, g, locations[t].read)
    BY DEF LocInv, Listed, OriginsWritten, SameFor
  <2> QED
    BY <2>1, <2>2, SeenSame
<1> QED
  BY <1>1, <1>2 DEF WorkersSaw, ResultsSaw

-----------------------------------------------------------------------------
(***************************************************************************)
(* AccountInv, for each kind of step.                                      *)
(***************************************************************************)
LEMMA ConcludedCalm ==
  ASSUME Known, NEW th \in Threads, Frame(th), StatusEffect(th), NEW j \in Tx, Concluded(j)'
  PROVE  Concluded(j)
<1>0. ver[th].tx_idx \in Tx /\ DOMAIN tx_status = Tx
  BY IndexTypes DEF Known, TypeOK
<1>1. ASSUME NEW o \in Threads \ {th}, pc'[o] \in HoldsStatus, ver'[o].tx_idx = j
      PROVE  Concluded(j)
  BY <1>1 DEF Frame, ThreadsSame, Concluded
<1>2. SUFFICES ASSUME \/ tx_status'[j].status \in Finished
                      \/ pc'[th] \in HoldsStatus /\ ver'[th].tx_idx = j
               PROVE  Concluded(j)
  BY <1>1 DEF Concluded
<1>3. CASE SchedulerStep(th) /\ pc[th] # "estimate"
  <2>1. StatusMoved(th)
    BY <1>3, SchedulerStatus DEF Known
  <2>2. CASE pc'[th] \in HoldsStatus /\ ver'[th].tx_idx = j
    BY <2>1, <2>2 DEF StatusMoved, Concluded
  <2>3. CASE tx_status'[j].status \in Finished
    <3>1. CASE j # ver[th].tx_idx
      BY <2>1, <2>3, <3>1 DEF StatusMoved, FinishedSame, Concluded
    <3>2. CASE j = ver[th].tx_idx
      BY <2>1, <2>3, <3>2 DEF StatusMoved, FinishedSame, Concluded
    <3> QED
      BY <3>1, <3>2
  <2> QED
    BY <1>2, <2>2, <2>3
<1>4. CASE UNCHANGED vars
  BY <1>2, <1>4 DEF vars, txVars, Concluded
<1>5. CASE tx_status' = tx_status /\ pc'[th] \notin HoldsStatus \cup {"estimate"}
  BY <1>2, <1>5 DEF Concluded
<1>6. CASE RescheduleAborted(th)
  <2>1. SetReadyStatus(ver[th].tx_idx) /\ pc'[th] \notin HoldsStatus
    BY <1>6 DEF RescheduleAborted, Goto, HoldsStatus, Known, TypeOK
  <2>2. CASE j = ver[th].tx_idx
    <3>1. tx_status'[j].status = "ReadyToExecute"
      BY <1>0, <2>1, <2>2, SMTT(30) DEF SetReadyStatus
    <3> QED
      BY <1>2, <2>1, <3>1 DEF Finished
  <2>3. CASE j # ver[th].tx_idx
    <3>1. tx_status'[j] = tx_status[j]
      BY <1>0, <2>1, <2>3 DEF SetReadyStatus
    <3> QED
      BY <1>2, <2>1, <3>1 DEF Concluded
  <2> QED
    BY <2>2, <2>3
<1> QED
  BY <1>3, <1>4, <1>5, <1>6 DEF StatusEffect

LEMMA AccountCalm ==
  ASSUME Known, LocInv, AccountInv, NEW th \in Threads, Frame(th), Calm(th), StatusEffect(th)
  PROVE  AccountInv'
<1>1. /\ data' = data /\ locations' = locations /\ txs' = txs
      /\ execution_results' = execution_results /\ Blank(th)' /\ work'[th].stage \notin Records
  BY DEF Calm
<1>2. \A j \in Tx : TxKept(j)
  BY <1>1 DEF TxKept
<1>3. \A j \in Tx : Concluded(j)' =>
        Concluded(j) /\ TxKept(j) /\ execution_results'[j] = execution_results[j]
  BY <1>1, <1>2, ConcludedCalm
<1>4. OriginsWritten'
  BY OriginsCalm DEF AccountInv
<1>5. BlankUnlessExecuting'
  BY <1>1, BlankKept DEF AccountInv
<1>6. RecordsSeen'
  <2>1. RecordSeen(th)'
    BY <1>1 DEF RecordSeen, Records
  <2>2. \A o \in Threads \ {th} : work[o].stage \in Records => TxKept(ver[o].tx_idx)
    BY <1>2, IndexTypes DEF Known
  <2> QED
    BY <2>1, <2>2, RecordsKept DEF AccountInv
<1>7. ResultsWritten'
  BY <1>1, <1>3, ResultsKept DEF AccountInv
<1>8. ASSUME NEW hist, SeenInv(hist) PROVE SeenInv(hist)'
  <2>1. WorkersSaw(hist)'
    BY <1>1, <1>8, WorkersKept DEF SeenInv
  <2>2. ResultsSaw(hist)'
    BY <1>1, <1>3, <1>8, SawKept DEF SeenInv
  <2>3. EntriesAre(hist)'
    BY <1>1, <1>8 DEF EntriesAre, SeenInv
  <2> QED
    BY <1>8, <2>1, <2>2, <2>3 DEF SeenInv, History
<1> QED
  BY <1>1, <1>4, <1>5, <1>6, <1>7, <1>8 DEF AccountInv

LEMMA AccountRead ==
  ASSUME Known, Folded, LocInv, AccountInv, NEW th \in Threads, Frame(th), ReadsOk(th)
  PROVE  AccountInv'
<1>1. PICK hist : SeenInv(hist)
  BY DEF AccountInv
<1>2. PICK t, l, o, a : ReadsNext(hist, th, t, l, o, a)
  BY <1>1, ReadsEffect
<1>3. /\ UNCHANGED vars /\ data' = data /\ locations' = locations /\ txs' = txs
      /\ execution_results' = execution_results /\ work'[th].stage = "idle"
      /\ pc[th] = "execute" /\ t = ver[th].tx_idx
  BY <1>2 DEF ReadsNext, mvVars, Frame, Executing
<1>4. \A j \in Tx : TxKept(j)
  BY <1>3 DEF TxKept
<1>5. \A j \in Tx : Concluded(j)' =>
        Concluded(j) /\ TxKept(j) /\ execution_results'[j] = execution_results[j]
  BY <1>3, <1>4, ConcludedCalm DEF StatusEffect
<1>6. pc' = pc /\ ver' = ver
  BY <1>3 DEF vars
<1>7. OriginsWritten'
  BY <1>2, OriginsRead DEF AccountInv
<1>8. BlankUnlessExecuting'
  BY <1>3, <1>6, BlankKept DEF AccountInv
<1>9. RecordsSeen'
  <2>1. RecordSeen(th)'
    BY <1>3 DEF RecordSeen
  <2>2. \A x \in Threads \ {th} : work[x].stage \in Records => TxKept(ver[x].tx_idx)
    BY <1>4, IndexTypes DEF Known
  <2> QED
    BY <2>1, <2>2, RecordsKept DEF AccountInv
<1>10. ResultsWritten'
  BY <1>3, <1>5, ResultsKept DEF AccountInv
<1>11. SeenInv(hist)'
  <2>1. WorkersSaw(hist)'
    <3>1. SeenFrom(hist, t, txs[t], work'[th].seen, work'[th].reads)
      BY <1>1, <1>2, SeenNext
    <3>2. t = ver'[th].tx_idx
      BY <1>3, <1>6
    <3> QED
      BY <1>1, <3>1, <3>2, WorkersKept DEF SeenInv
  <2>2. ResultsSaw(hist)'
    BY <1>1, <1>3, <1>5, SawKept DEF SeenInv
  <2>3. EntriesAre(hist)'
    BY <1>1, <1>3 DEF EntriesAre, SeenInv
  <2> QED
    BY <1>1, <2>1, <2>2, <2>3 DEF SeenInv, History
<1> QED
  BY <1>3, <1>7, <1>8, <1>9, <1>10, <1>11 DEF AccountInv

\* What is concluded, and what the other workers record, is not touched.
Aside(th) ==
  /\ \A j \in Tx : Concluded(j)' =>
       Concluded(j) /\ TxKept(j) /\ execution_results'[j] = execution_results[j]
  /\ \A o \in Threads \ {th} : work[o].stage \in Records => TxKept(ver[o].tx_idx)

LEMMA WritesAside ==
  ASSUME Known, NEW th \in Threads, NEW k, Writes(th, k)
  PROVE  Aside(th)
<1>1. /\ UNCHANGED vars /\ execution_results' = execution_results
      /\ k = ver[th].tx_idx /\ pc[th] \in {"execute", "estimate"}
      /\ \A j \in Tx \ {k} : TxKept(j)
  BY DEF Writes
<1>2. /\ tx_status[k].status \notin Finished
      /\ \A o \in Threads \ {th} : ver[o].tx_idx = k =>
           /\ pc[o] \notin ExecutionLabels \cup {"estimate"}
           /\ work[o].stage \notin {"convert", "converted", "record", "recorded"}
  BY <1>1, Alone
<1>3. ~Concluded(k)
  <2>1. HoldsStatus \subseteq ExecutionLabels /\ pc[th] \notin HoldsStatus
    BY <1>1 DEF HoldsStatus, ExecutionLabels
  <2> QED
    BY <1>2, <2>1 DEF Concluded
<1>4. \A j \in Tx : Concluded(j)' => Concluded(j)
  BY <1>1 DEF vars, txVars, Concluded
<1>5. ASSUME NEW o \in Threads \ {th}, work[o].stage \in Records PROVE TxKept(ver[o].tx_idx)
  <2>1. ver[o].tx_idx \in Tx /\ ver[o].tx_idx # k
    BY <1>2, <1>5, IndexTypes DEF Known, Records
  <2> QED
    BY <1>1, <2>1
<1> QED
  BY <1>1, <1>3, <1>4, <1>5 DEF Aside

LEMMA AsideKept ==
  ASSUME Known, LocInv, AccountInv, NEW th \in Threads, Frame(th), Aside(th), RecordSeen(th)'
  PROVE  /\ RecordsSeen' /\ ResultsWritten'
         /\ \A hist : ResultsSaw(hist) => ResultsSaw(hist)'
<1>1. txs' = txs
  BY DEF Frame
<1>2. \A j \in Tx : Concluded(j)' =>
        Concluded(j) /\ TxKept(j) /\ execution_results'[j] = execution_results[j]
  BY DEF Aside
<1>3. RecordsSeen'
  BY RecordsKept DEF AccountInv, Aside
<1>4. ResultsWritten'
  BY <1>1, <1>2, ResultsKept DEF AccountInv
<1>5. ASSUME NEW hist, ResultsSaw(hist) PROVE ResultsSaw(hist)'
  BY <1>1, <1>2, <1>5, SawKept
<1> QED
  BY <1>3, <1>4, <1>5

LEMMA AccountBegins ==
  ASSUME Known, LocInv, AccountInv, NEW th \in Threads, NEW k, Begins(th, k)
  PROVE  AccountInv'
<1>1. /\ Writes(th, k) /\ Frame(th) /\ data' = data /\ UNCHANGED vars
      /\ execution_results' = execution_results /\ k = ver[th].tx_idx
      /\ pc[th] = "execute" /\ work'[th].stage = "record"
      /\ work'[th].seen = work[th].seen /\ work'[th].reads = work[th].reads
      /\ work'[th].todo = RecordedSet(th)' /\ Executes(txs[k], work[th].seen)
      /\ locations'[k].read = work[th].reads
  BY DEF Begins, Writes
<1>2. pc' = pc /\ ver' = ver /\ txs' = txs
  BY <1>1 DEF vars, Frame
<1>3. RecordSeen(th)'
  <2>1. Executes(txs[k], work[th].seen)'
    BY <1>1, <1>2
  <2>2. RecordedSet(th)' \ work'[th].todo = {}
    BY <1>1
  <2> QED
    BY <1>1, <1>2, <2>1, <2>2 DEF RecordSeen
<1>4. Aside(th)
  BY <1>1, WritesAside
<1>5. /\ RecordsSeen' /\ ResultsWritten'
      /\ \A hist : ResultsSaw(hist) => ResultsSaw(hist)'
  BY <1>1, <1>3, <1>4, AsideKept
<1>6. OriginsWritten'
  BY OriginsBegins DEF AccountInv
<1>7. BlankUnlessExecuting'
  BY <1>1, <1>2, BlankKept DEF AccountInv
<1>8. ASSUME NEW hist, SeenInv(hist) PROVE SeenInv(hist)'
  <2>1. WorkersSaw(hist)'
    <3>1. SeenFrom(hist, k, txs[k], work[th].seen, work[th].reads)
      BY <1>1, <1>8, WorkerSaw DEF SeenInv
    <3>2. SeenFrom(hist, k, txs[k], work'[th].seen, work'[th].reads) /\ k = ver'[th].tx_idx
      BY <1>1, <1>2, <3>1
    <3> QED
      BY <1>1, <1>8, <3>2, WorkersKept DEF SeenInv
  <2>2. EntriesAre(hist)'
    BY <1>1, <1>8 DEF EntriesAre, SeenInv
  <2> QED
    BY <1>5, <1>8, <2>1, <2>2 DEF SeenInv, History
<1> QED
  BY <1>1, <1>5, <1>6, <1>7, <1>8 DEF AccountInv

\* A removed entry, or one that becomes an ESTIMATE.
LEMMA AccountRemoves ==
  ASSUME Known, LocInv, AccountInv, NEW th \in Threads, NEW k, NEW m,
         RemovesOne(th, k, m) \/ Converts(th, k, m)
  PROVE  AccountInv'
<1>1. /\ Writes(th, k) /\ Frame(th) /\ UNCHANGED vars
      /\ execution_results' = execution_results /\ k = ver[th].tx_idx /\ k \in Tx
      /\ m \in Loc /\ (Removes(m, k) \/ (Puts(m, k) /\ data'[m][k] = Estimate))
  BY DEF RemovesOne, Converts, Writes
<1>2. pc' = pc /\ ver' = ver /\ txs' = txs
  BY <1>1 DEF vars, Frame
<1>3. \A l \in Loc \ {m} : data'[l] = data[l]
  BY <1>1 DEF Removes, Puts
<1>4. RecordSeen(th)'
  <2>1. CASE Converts(th, k, m)
    BY <2>1 DEF Converts, RecordSeen
  <2>2. CASE RemovesOne(th, k, m)
    <3>1. /\ work' = work /\ work[th].stage = "record" /\ m \notin RecordedSet(th)
          /\ RecordedSet(th)' = RecordedSet(th) /\ locations'[k].read = locations[k].read
      BY <1>1, <2>2 DEF RemovesOne, Recording
    <3>2. PICK x : x = work[th].seen
      OBVIOUS
    <3>3. /\ Executes(txs[k], x) /\ locations[k].read = work[th].reads
          /\ \A l \in RecordedSet(th) \ work[th].todo : EntryOf(l, k, x)
      BY <1>1, <3>1, <3>2 DEF AccountInv, RecordsSeen, RecordSeen
    <3>4. RecordedSet(th) \subseteq Loc
      BY <1>1, WriteSetLoc DEF Known, MemInv, RecordedSet
    <3>5. ASSUME NEW l \in RecordedSet(th) \ work[th].todo PROVE EntryOf(l, k, x)'
      <4>1. data'[l] = data[l] /\ EntryOf(l, k, x)
        BY <1>3, <3>1, <3>3, <3>4, <3>5
      <4> QED
        BY <1>2, <4>1 DEF EntryOf
    <3>6. Executes(txs[k], x)'
      BY <1>2, <3>3
    <3> QED
      BY <1>1, <1>2, <3>1, <3>2, <3>3, <3>5, <3>6 DEF RecordSeen
  <2> QED
    BY <2>1, <2>2
<1>5. Aside(th)
  BY <1>1, WritesAside
<1>6. /\ RecordsSeen' /\ ResultsWritten'
      /\ \A hist : ResultsSaw(hist) => ResultsSaw(hist)'
  BY <1>1, <1>4, <1>5, AsideKept
<1>7. OriginsWritten'
  BY OriginsRemoves DEF AccountInv
<1>8. work' = work \/ Blank(th)'
  BY DEF RemovesOne, Converts
<1>9. BlankUnlessExecuting'
  <2>1. CASE Blank(th)'
    BY <1>1, <2>1, BlankKept DEF AccountInv
  <2>2. CASE work' = work
    BY <1>2, <2>2 DEF AccountInv, BlankUnlessExecuting, Blank
  <2> QED
    BY <1>8, <2>1, <2>2
<1>10. ASSUME NEW hist, SeenInv(hist) PROVE SeenInv(hist)'
  <2>1. WorkersSaw(hist)'
    <3>1. CASE Blank(th)'
      BY <1>1, <1>10, <3>1, WorkersKept DEF SeenInv
    <3>2. CASE work' = work
      BY <1>2, <1>10, <3>2 DEF SeenInv, WorkersSaw, Blank
    <3> QED
      BY <1>8, <3>1, <3>2
  <2>2. EntriesAre(hist)'
    <3> SUFFICES ASSUME NEW l \in Loc, NEW j \in DOMAIN data'[l], data'[l][j] # Estimate
                 PROVE  \E i \in Nat : data'[l][j] = Data(i, hist[l][Version(j, i)])
      BY DEF EntriesAre
    <3>1. j \in DOMAIN data[l] /\ data'[l][j] = data[l][j]
      BY <1>1, <1>3 DEF Removes, Puts
    <3> QED
      BY <1>10, <3>1 DEF SeenInv, EntriesAre
  <2> QED
    BY <1>6, <1>10, <2>1, <2>2 DEF SeenInv, History
<1> QED
  BY <1>1, <1>6, <1>7, <1>9, <1>10 DEF AccountInv

\* The version m is written: the history takes its value.
Extends(hist, g, m, u, x) ==
  /\ History(g) /\ g[m][u] = x
  /\ \A l \in Loc : \A v \in Versions : (l = m /\ v = u) \/ g[l][v] = hist[l][v]

LEMMA HistoryExtends ==
  ASSUME NEW hist, History(hist), NEW m \in Loc, NEW u \in Versions, NEW x \in Values,
         m \in CodeLoc => x.kind # "Lazy"
  PROVE  \E g : Extends(hist, g, m, u, x)
<1> DEFINE g == [l \in Loc |-> [v \in Versions |-> IF l = m /\ v = u THEN x ELSE hist[l][v]]]
<1>1. \A l \in Loc : \A v \in Versions : g[l][v] = IF l = m /\ v = u THEN x ELSE hist[l][v]
  OBVIOUS
<1>2. \A l \in Loc : \A v \in Versions : hist[l][v] \in Values
  BY DEF History
<1>3. g \in [Loc -> [Versions -> Values]]
  BY <1>2
<1>4. g[m][u] = x /\ \A l \in Loc : \A v \in Versions : (l = m /\ v = u) \/ g[l][v] = hist[l][v]
  BY <1>1
<1> HIDE DEF g
<1>5. \A l \in CodeLoc : \A v \in Versions : g[l][v].kind # "Lazy"
  <2> SUFFICES ASSUME NEW l \in CodeLoc, NEW v \in Versions PROVE g[l][v].kind # "Lazy"
    OBVIOUS
  <2>1. l \in Loc
    BY LocationAssumption
  <2> QED
    BY <1>4, <2>1 DEF History
<1>6. Extends(hist, g, m, u, x)
  BY <1>3, <1>4, <1>5 DEF Extends, History
<1> QED
  BY <1>6

LEMMA RecordInserted ==
  ASSUME Known, LocInv, EntryInv, AccountInv, NEW th \in Threads, NEW k, NEW m,
         InsertsOne(th, k, m)
  PROVE  RecordSeen(th)'
<1>1. /\ Writes(th, k) /\ Recording(th) /\ UNCHANGED vars /\ txs' = txs
      /\ k = ver[th].tx_idx /\ k \in Tx
      /\ m \in Loc /\ m \in RecordedSet(th) /\ Puts(m, k)
      /\ data'[m][k] = Data(ver[th].tx_incarnation, WriteSet(txs[k], work[th].seen)[m])
      /\ locations[k].write \subseteq RecordedSet(th)
      /\ locations'[k].write = locations[k].write \cup {m}
      /\ work'[th].stage = (IF work[th].todo = {m} THEN "recorded" ELSE "record")
      /\ work'[th].todo = work[th].todo \ {m}
  BY DEF InsertsOne, Writes, Frame
<1>2. PICK x : x = work[th].seen
  OBVIOUS
<1>3. PICK R : R = RecordedSet(th)
  OBVIOUS
<1>4. /\ ver' = ver /\ work[th].stage = "record" /\ work'[th].seen = x
      /\ work'[th].reads = work[th].reads /\ RecordedSet(th)' = R
      /\ locations'[k].read = locations[k].read
  BY <1>1, <1>2, <1>3 DEF Recording, vars
<1>5. R = DOMAIN WriteSet(txs[k], x) /\ R \subseteq Loc
  <2>1. R = DOMAIN WriteSet(txs[k], x)
    BY <1>1, <1>2, <1>3 DEF RecordedSet
  <2> QED
    BY <1>1, <2>1, WriteSetLoc DEF Known, MemInv
<1>6. /\ Executes(txs[k], x) /\ locations[k].read = work[th].reads
      /\ \A l \in R \ work[th].todo : EntryOf(l, k, x)
  BY <1>1, <1>2, <1>3, <1>4 DEF AccountInv, RecordsSeen, RecordSeen
<1>7. EntryOf(m, k, x)'
  <2>1. PICK e : e = Data(ver[th].tx_incarnation, WriteSet(txs[k], x)[m])
    OBVIOUS
  <2>2. e # Estimate /\ e.value = WriteSet(txs[k], x)[m]
    BY <2>1, SMTT(30) DEF Data, Estimate
  <2>3. k \in DOMAIN data'[m] /\ data'[m][k] = e
    BY <1>1, <1>2, <2>1 DEF Puts
  <2> QED
    BY <1>1, <2>2, <2>3 DEF EntryOf
<1>8. ASSUME NEW l \in R \ work'[th].todo PROVE EntryOf(l, k, x)'
  <2>1. CASE l = m
    BY <1>7, <2>1
  <2>2. CASE l # m
    <3>1. EntryOf(l, k, x) /\ data'[l] = data[l]
      BY <1>1, <1>5, <1>6, <1>8, <2>2 DEF Puts
    <3> QED
      BY <1>1, <3>1 DEF EntryOf
  <2> QED
    BY <2>1, <2>2
<1>9. ASSUME work'[th].stage = "recorded" PROVE Wrote(k, x)'
  <2>1. work[th].todo = {m}
    BY <1>1, <1>9
  <2>2. R \ work[th].todo \subseteq locations[k].write
    BY <1>1, <1>3, <1>4 DEF EntryInv, StageEntries
  <2>3. locations'[k].write = R
    BY <1>1, <1>3, <2>1, <2>2
  <2>4. \A l \in R : EntryOf(l, k, x)'
    BY <1>1, <1>8, <2>1
  <2>5. locations'[k].write = DOMAIN WriteSet(txs'[k], x)
    BY <1>1, <1>5, <2>3
  <2> QED
    BY <2>3, <2>4, <2>5 DEF Wrote
<1>10. Executes(txs[k], x)'
  BY <1>1, <1>6
<1>11. ver'[th].tx_idx = k /\ locations'[k].read = work'[th].reads
  BY <1>1, <1>4, <1>6
<1> QED
  BY <1>4, <1>8, <1>9, <1>10, <1>11 DEF RecordSeen

LEMMA AccountInserts ==
  ASSUME Known, Folded, LocInv, EntryInv, AccountInv, NEW th \in Threads, NEW k, NEW m,
         InsertsOne(th, k, m)
  PROVE  AccountInv'
<1>1. /\ Writes(th, k) /\ Recording(th) /\ Frame(th) /\ UNCHANGED vars /\ txs' = txs
      /\ execution_results' = execution_results
      /\ k = ver[th].tx_idx /\ k \in Tx
      /\ m \in Loc /\ m \in work[th].todo /\ m \in RecordedSet(th) /\ Puts(m, k)
      /\ data'[m][k] = Data(ver[th].tx_incarnation, WriteSet(txs[k], work[th].seen)[m])
      /\ work'[th].stage \in Records
  BY DEF InsertsOne, Writes, Frame, Records
<1>2. /\ pc' = pc /\ ver' = ver /\ work[th].stage = "record" /\ work'[th].seen = work[th].seen
      /\ work'[th].reads = work[th].reads
  BY <1>1 DEF Recording, vars
<1>3. pc[th] = "execute"
  BY <1>2 DEF Known, WorkInv, Staged, ExecuteStages
<1>4. RecordSeen(th)'
  BY RecordInserted
<1>5. Aside(th)
  BY <1>1, WritesAside
<1>6. /\ RecordsSeen' /\ ResultsWritten'
      /\ \A hist : ResultsSaw(hist) => ResultsSaw(hist)'
  BY <1>1, <1>4, <1>5, AsideKept
<1>7. OriginsWritten'
  BY OriginsInserts DEF AccountInv
<1>8. BlankUnlessExecuting'
  BY <1>1, <1>2, <1>3, BlankKept DEF AccountInv, Records
<1>9. PICK hist : SeenInv(hist)
  BY DEF AccountInv
<1>10. PICK u \in Versions : u = ver[th]
  BY DEF Known, TypeOK, Versions
<1>11. PICK x : x = WriteSet(txs[k], work[th].seen)[m]
  OBVIOUS
<1>12. x \in Values /\ (m \in CodeLoc => x.kind # "Lazy")
  <2>1. SeenFrom(hist, k, txs[k], work[th].seen, work[th].reads)
    BY <1>1, <1>9, WorkerSaw DEF SeenInv
  <2>2. work[th].seen \in Seq(Int)
    BY <2>1 DEF SeenFrom
  <2>3. m \in DOMAIN WriteSet(txs[k], work[th].seen)
    BY <1>1 DEF RecordedSet
  <2> QED
    BY <1>1, <1>11, <2>2, <2>3 DEF Folded, WritesFolded
<1>13. PICK g : /\ History(g) /\ g[m][u] = x
                /\ \A l \in Loc : \A v \in Versions : (l = m /\ v = u) \/ g[l][v] = hist[l][v]
  <2>1. History(hist)
    BY <1>9 DEF SeenInv
  <2>2. PICK g : Extends(hist, g, m, u, x)
    BY <1>1, <1>10, <1>12, <2>1, HistoryExtends
  <2> QED
    BY <2>2 DEF Extends
<1>14. Unwritten(m, u)
  BY <1>1, <1>2, <1>10 DEF Unwritten
<1>15. WorkersSaw(g) /\ ResultsSaw(g)
  <2>1. \A l \in Loc : \A v \in Versions : g[l][v] = hist[l][v] \/ Unwritten(l, v)
    BY <1>13, <1>14
  <2> QED
    BY <1>9, <1>13, <2>1, HistoryMoves DEF AccountInv
<1>16. WorkersSaw(g)'
  <2>1. SeenFrom(g, k, txs[k], work[th].seen, work[th].reads)
    BY <1>1, <1>15, WorkerSaw
  <2>2. SeenFrom(g, k, txs[k], work'[th].seen, work'[th].reads) /\ k = ver'[th].tx_idx
    BY <1>1, <1>2, <2>1
  <2> QED
    BY <1>1, <1>15, <2>2, WorkersKept
<1>17. EntriesAre(g)'
  <2> SUFFICES ASSUME NEW l \in Loc, NEW j \in DOMAIN data'[l], data'[l][j] # Estimate
               PROVE  \E i \in Nat : data'[l][j] = Data(i, g[l][Version(j, i)])
    BY DEF EntriesAre
  <2>1. CASE l = m /\ j = k
    <3>1. u.tx_incarnation \in Nat /\ Version(k, u.tx_incarnation) = u
      BY <1>1, <1>10, SMTT(30) DEF Versions, Version
    <3>2. data'[m][k] = Data(u.tx_incarnation, x)
      BY <1>1, <1>10, <1>11
    <3> QED
      BY <1>13, <2>1, <3>1, <3>2
  <2>2. CASE ~(l = m /\ j = k)
    <3>1. j \in DOMAIN data[l] /\ data'[l][j] = data[l][j]
      BY <1>1, <2>2 DEF Puts
    <3>2. PICK i \in Nat : data[l][j] = Data(i, hist[l][Version(j, i)])
      BY <1>9, <3>1 DEF SeenInv, EntriesAre
    <3>3. j \in Tx
      BY <3>1 DEF Known, MemInv
    <3>4. PICK v : v = Version(j, i)
      OBVIOUS
    <3>5. v \in Versions /\ v.tx_idx = j /\ v.tx_incarnation = i
      BY <3>2, <3>3, <3>4, SMTT(30), ZenonT(40) DEF Versions, Version
    <3>6. data[l][j].incarnation = i
      BY <3>2, SMTT(30) DEF Data
    <3>7. HoldsVersion(l, v)
      BY <3>1, <3>5, <3>6 DEF HoldsVersion
    <3>8. ~Unwritten(l, v)
      BY <3>5, <3>7 DEF AccountInv, OriginsWritten
    <3>9. g[l][v] = hist[l][v]
      BY <1>13, <1>14, <3>5, <3>8
    <3> QED
      BY <3>1, <3>2, <3>4, <3>9
  <2> QED
    BY <2>1, <2>2
<1>18. SeenInv(g)'
  BY <1>6, <1>13, <1>15, <1>16, <1>17 DEF SeenInv, History
<1> QED
  BY <1>1, <1>6, <1>7, <1>8, <1>18 DEF AccountInv

LEMMA AccountConcludes ==
  ASSUME Known, LocInv, AccountInv, NEW th \in Threads, NEW k, Concludes(th, k)
  PROVE  AccountInv'
<1>1. /\ Frame(th) /\ txs' = txs /\ k \in Tx /\ ver[th].tx_idx = k
      /\ work[th].stage = "recorded" /\ work'[th].stage = "idle" /\ Blank(th)'
      /\ execution_results'[k] = work[th].seen
      /\ DOMAIN execution_results' = DOMAIN execution_results
      /\ \A j \in Tx \ {k} : execution_results'[j] = execution_results[j]
      /\ ver' = ver /\ tx_status' = tx_status /\ data' = data /\ locations' = locations
  BY DEF Concludes, Frame
<1>2. \A j \in Tx : TxKept(j)
  BY <1>1 DEF TxKept
<1>3. PICK x : x = work[th].seen
  OBVIOUS
<1>4. Executes(txs[k], x) /\ locations[k].read = work[th].reads /\ Wrote(k, x)
  BY <1>1, <1>3 DEF AccountInv, RecordsSeen, RecordSeen
<1>5. ResultOf(k)'
  <2>1. Wrote(k, x)'
    BY <1>1, <1>2, <1>4, WroteKept
  <2> QED
    BY <1>1, <1>3, <1>4, <2>1 DEF ResultOf
<1>6. \A j \in Tx : Concluded(j)' =>
        \/ Concluded(j) /\ TxKept(j) /\ execution_results'[j] = execution_results[j]
        \/ j = k
  BY <1>1, <1>2 DEF Concluded, Frame, ThreadsSame
<1>7. RecordsSeen'
  <2>1. RecordSeen(th)'
    BY <1>1 DEF RecordSeen
  <2>2. \A o \in Threads \ {th} : work[o].stage \in Records => TxKept(ver[o].tx_idx)
    BY <1>2, IndexTypes DEF Known
  <2> QED
    BY <1>1, <2>1, <2>2, RecordsKept DEF AccountInv
<1>8. ResultsWritten'
  <2>1. \A j \in Tx : Concluded(j)' =>
          \/ Concluded(j) /\ TxKept(j) /\ execution_results'[j] = execution_results[j]
          \/ ResultOf(j)'
    BY <1>5, <1>6
  <2> QED
    BY <1>1, <2>1, ResultsKept DEF AccountInv
<1>9. OriginsWritten'
  BY OriginsConcludes DEF AccountInv
<1>10. BlankUnlessExecuting'
  BY <1>1, BlankKept DEF AccountInv
<1>11. ASSUME NEW hist, SeenInv(hist) PROVE SeenInv(hist)'
  <2>1. WorkersSaw(hist)'
    BY <1>1, <1>11, WorkersKept DEF SeenInv
  <2>2. ResultSaw(hist, k)'
    <3>1. SeenFrom(hist, k, txs[k], work[th].seen, work[th].reads)
      BY <1>1, <1>11, WorkerSaw DEF SeenInv
    <3> QED
      BY <1>1, <1>4, <3>1 DEF ResultSaw
  <2>3. ResultsSaw(hist)'
    <3>1. \A j \in Tx : Concluded(j)' =>
            \/ Concluded(j) /\ TxKept(j) /\ execution_results'[j] = execution_results[j]
            \/ ResultSaw(hist, j)'
      BY <1>6, <2>2
    <3> QED
      BY <1>1, <1>11, <3>1, SawKept DEF SeenInv
  <2>4. EntriesAre(hist)'
    BY <1>1, <1>11 DEF EntriesAre, SeenInv
  <2> QED
    BY <1>11, <2>1, <2>3, <2>4 DEF SeenInv, History
<1> QED
  BY <1>1, <1>7, <1>8, <1>9, <1>10, <1>11 DEF AccountInv

-----------------------------------------------------------------------------
(***************************************************************************)
(* An execution error is the first transaction's.                          *)
(***************************************************************************)
\* There is nothing below the first transaction but the storage.
LEMMA FirstOrigin ==
  ASSUME NEW hist, NEW l, NEW o, OriginsOf(hist, 0, l, o)
  PROVE  o = <<StorageOrigin>>
<1>1. o \in Seq(Versions \cup {StorageOrigin}) /\ o # <<>>
  BY DEF OriginsOf
<1>2. PICK n \in Nat : n = Len(o)
  BY <1>1, SMTT(30)
<1>3. /\ n # 0 /\ DOMAIN o = 1 .. n /\ 1 \in 1 .. n
      /\ \A i \in 1 .. n : o[i] \in Versions \cup {StorageOrigin}
  BY <1>1, <1>2, SMTT(30)
<1>4. \A i \in 1 .. n : o[i] = StorageOrigin
  <2>1. \A i \in 1 .. n : o[i].tx_idx < 0
    BY <1>3 DEF OriginsOf
  <2>2. \A v \in Versions : ~(v.tx_idx < 0)
    BY BlockSizeAssumption, SMTT(30) DEF Versions, Tx
  <2> QED
    BY <1>3, <2>1, <2>2
<1>5. n = 1
  <2> SUFFICES ASSUME n # 1 PROVE FALSE
    OBVIOUS
  <2>1. 1 \in 1 .. n - 1
    BY <1>3, SMTT(30)
  <2>2. o[1] # StorageOrigin
    BY <1>2, <2>1 DEF OriginsOf
  <2> QED
    BY <1>3, <1>4, <2>2
<1>6. Len(o) = 1 /\ o[1] = StorageOrigin
  BY <1>2, <1>3, <1>4, <1>5
<1> QED
  BY <1>1, <1>6, SMTT(30)

LEMMA FirstSaw ==
  ASSUME Known, Folded, NEW hist, SeenInv(hist), NEW th \in Threads,
         ReadsDone(th), ver[th].tx_idx = 0, ~Affordable(txs[0], work[th].seen)
  PROVE  FirstFails
<1>0. 0 \in Tx /\ txs \in Blocks
  BY BlockSizeAssumption, IndexTypes DEF Known, MemInv
<1>1. PICK x : x = work[th].seen
  OBVIOUS
<1>2. PICK p : p = txs[0]
  OBVIOUS
<1>3. SeenFrom(hist, 0, p, x, work[th].reads)
  BY <1>1, <1>2, WorkerSaw DEF SeenInv
<1>4. PICK n \in Nat : n = Len(x)
  BY <1>3, SMTT(30) DEF SeenFrom
<1>5. Len(p.reads) = n
  BY <1>1, <1>2, <1>4 DEF ReadsDone
<1>6. DOMAIN p.reads = 1 .. n /\ \A i \in 1 .. n : p.reads[i] \in Loc
  <2>1. p.reads \in Seq(Loc)
    BY <1>0, <1>2, ProgramReads
  <2> QED
    BY <1>5, <2>1, SMTT(30)
<1>7. ASSUME NEW i \in 1 .. n PROVE x[i] = storage[p.reads[i]]
  <2>1. PICK l \in Loc : l = p.reads[i]
    BY <1>6
  <2>2. l \in DOMAIN work[th].reads /\ x[i] = Amount(hist, l, work[th].reads[l])
    BY <1>3, <1>4, <2>1 DEF SeenFrom
  <2>3. OriginsOf(hist, 0, l, work[th].reads[l])
    BY <1>3, <2>2 DEF SeenFrom
  <2>4. work[th].reads[l] = <<StorageOrigin>>
    BY <2>3, FirstOrigin
  <2>5. Amount(hist, l, <<StorageOrigin>>) = storage[l]
    BY DEF Folded, AmountsFolded
  <2> QED
    BY <2>1, <2>2, <2>4, <2>5
<1>8. x = [i \in 1 .. n |-> x[i]]
  BY <1>3, <1>4, SMTT(30) DEF SeenFrom
<1>9. x = [i \in DOMAIN p.reads |-> storage[p.reads[i]]]
  <2>1. [i \in 1 .. n |-> x[i]] = [i \in 1 .. n |-> storage[p.reads[i]]]
    BY <1>7
  <2> QED
    BY <1>6, <1>8, <2>1
<1> QED
  BY <1>1, <1>2, <1>9 DEF FirstFails

\* A step takes an error over, and finds one only where there is one.
Justified(th) ==
  /\ abort_reason' = "ExecutionError" =>
       abort_reason = "ExecutionError" \/ pc[th] = "ExecutionError"
  /\ pc'[th] = "ExecutionError" => pc[th] = "ExecutionError" \/ work[th].stage = "error"
  /\ work'[th].stage = "error" => work[th].stage = "error" \/ FirstFails

LEMMA ErrorsKept ==
  ASSUME ErrorsJustified, NEW th \in Threads, Frame(th), Justified(th)
  PROVE  ErrorsJustified'
<1>1. FirstFails' <=> FirstFails
  BY DEF Frame, FirstFails
<1>2. ASSUME NEW o \in Threads, pc'[o] = "ExecutionError" \/ work'[o].stage = "error"
      PROVE  FirstFails
  <2>1. CASE o = th
    BY <1>2, <2>1 DEF Justified, ErrorsJustified
  <2>2. CASE o # th
    BY <1>2, <2>2 DEF Frame, ThreadsSame, ErrorsJustified
  <2> QED
    BY <2>1, <2>2
<1>3. abort_reason' = "ExecutionError" => FirstFails
  BY DEF Justified, ErrorsJustified
<1> QED
  BY <1>1, <1>2, <1>3 DEF ErrorsJustified

\* The scheduler's steps do not raise errors.
LEMMA SchedulerJustified ==
  ASSUME TypeOK, NEW th \in Threads, SchedulerStep(th)
  PROVE  /\ pc'[th] # "ExecutionError"
         /\ abort_reason' = "ExecutionError" =>
              abort_reason = "ExecutionError" \/ pc[th] = "ExecutionError"
<1> USE DEF Goto, Hold, Release, abortVars
<1>0. DOMAIN pc = Threads
  BY DEF TypeOK
<1>1. CASE CheckAborted(th) \/ LoadExecutionIdx(th) \/ LoadValidationIdx(th)
  BY <1>0, <1>1 DEF CheckAborted, LoadExecutionIdx, LoadValidationIdx
<1>2. CASE LoadNumValidated(th) \/ LoadMinValidationIdx(th) \/ TakeValidationIdx(th)
  BY <1>0, <1>2 DEF LoadNumValidated, LoadMinValidationIdx, TakeValidationIdx
<1>3. CASE PeekStatus(th)
  BY <1>0, <1>3 DEF PeekStatus
<1>4. CASE TakeExecutionIdx(th) \/ LowerExecutionIdx(th) \/ LowerMinValidationIdx(th)
  BY <1>0, <1>4 DEF TakeExecutionIdx, LowerExecutionIdx, LowerMinValidationIdx
<1>5. CASE TryExecute(th)
  BY <1>0, <1>5 DEF TryExecute
<1>6. CASE ResumeDependent(th)
  BY <1>0, <1>6 DEF ResumeDependent
<1>7. CASE CompareValidationIdx(th) \/ LowerValidationIdx(th)
  BY <1>0, <1>7 DEF CompareValidationIdx, LowerValidationIdx
<1>8. CASE InitAbortReason(th)
  BY <1>0, <1>8 DEF InitAbortReason
<1>9. CASE SetExecutedStatus(th) \/ AddDependency(th)
  BY <1>0, <1>9 DEF SetExecutedStatus, AddDependency
<1>10. CASE TryValidationAbort(th) \/ RescheduleAborted(th)
  BY <1>0, <1>10 DEF TryValidationAbort, RescheduleAborted
<1>11. CASE LowerValidationIdxAborted(th) \/ CheckExecutionIdx(th) \/ ConfirmValidated(th)
  BY <1>0, <1>11 DEF LowerValidationIdxAborted, CheckExecutionIdx, ConfirmValidated
<1>12. CASE WorkerLoop(th)
  BY <1>0, <1>12 DEF WorkerLoop, ReturnLabels
<1> QED
  BY <1>1, <1>2, <1>3, <1>4, <1>5, <1>6, <1>7, <1>8, <1>9, <1>10, <1>11, <1>12
     DEF SchedulerStep

LEMMA WorkerJustified ==
  ASSUME Known, Folded, LocInv, AccountInv, NEW th \in Threads, Worker(th)
  PROVE  Justified(th)
<1>0. TypeOK /\ DOMAIN work = Threads /\ DOMAIN pc = Threads /\ Staged(th)
  BY DEF Known, WorkInv, TypeOK
<1>1. ASSUME UNCHANGED vars, work'[th].stage # "error" \/ FirstFails PROVE Justified(th)
  BY <1>1 DEF vars, abortVars, Justified
<1>2. Idle.stage = "idle"
  BY DEF Idle
<1>3. CASE SchedulerOnly(th)
  <2>1. SchedulerStep(th) /\ work' = work
    BY <1>3 DEF SchedulerOnly
  <2> QED
    BY <1>0, <2>1, SchedulerJustified DEF Justified
<1>4. CASE ReadLocation(th)
  <2>1. (Calm(th) /\ UNCHANGED vars /\ work'[th].stage # "error") \/ ReadsOk(th)
    BY <1>4, ReadActions DEF AccountInv
  <2>2. UNCHANGED vars /\ work'[th].stage # "error"
    BY <2>1 DEF ReadsOk
  <2> QED
    BY <1>1, <2>2
<1>5. CASE LackOfFund(th)
  <2>1. PICK t \in Tx : t = ver[th].tx_idx
    BY IndexTypes DEF Known
  <2>2. /\ ReadsDone(th) /\ ~Affordable(txs[t], work[th].seen) /\ UNCHANGED vars
        /\ t > 0 => Set(th, [Idle EXCEPT !.stage = "blocking", !.on = t - 1])
    BY <1>5, <2>1 DEF LackOfFund
  <2>3. CASE t > 0
    <3>1. [Idle EXCEPT !.stage = "blocking", !.on = t - 1].stage = "blocking"
      BY DEF Idle
    <3>2. work'[th].stage = "blocking"
      BY <1>0, <2>2, <2>3, <3>1 DEF Set
    <3> QED
      BY <1>1, <2>2, <3>2
  <2>4. CASE ~(t > 0)
    <3>1. t = 0
      BY <2>4, BlockSizeAssumption, SMTT(30) DEF Tx
    <3>2. PICK hist : SeenInv(hist)
      BY DEF AccountInv
    <3>3. FirstFails
      BY <2>1, <2>2, <3>1, <3>2, FirstSaw
    <3> QED
      BY <1>1, <2>2, <3>3
  <2> QED
    BY <2>3, <2>4
<1>6. CASE BeginRecord(th)
  <2>1. Begins(th, ver[th].tx_idx)
    BY <1>6, BeginsEffect
  <2> QED
    BY <1>1, <2>1 DEF Begins, Writes
<1>7. CASE RecordRemove(th)
  <2>1. UNCHANGED vars /\ work' = work /\ work[th].stage = "record"
    BY <1>7 DEF RecordRemove
  <2> QED
    BY <1>1, <2>1
<1>8. CASE RecordInsert(th)
  <2>1. PICK m : InsertsOne(th, ver[th].tx_idx, m)
    BY <1>8, InsertsEffect
  <2> QED
    BY <1>1, <2>1 DEF InsertsOne, Writes
<1>9. CASE RecordDone(th)
  <2>1. Concludes(th, ver[th].tx_idx)
    BY <1>9, ConcludesEffect DEF AccountInv
  <2> QED
    BY <2>1 DEF Concludes, Justified
<1>10. CASE HandleBlocking(th) \/ HandleRetry(th)
  <2>1. work'[th].stage = "idle"
    BY <1>0, <1>2, <1>10 DEF HandleBlocking, HandleRetry, Set
  <2>2. abort_reason' = abort_reason /\ pc'[th] # "ExecutionError"
    BY <1>0, <1>10 DEF HandleBlocking, HandleRetry, LockBlocking, AddDependencyLate, ExecuteAgain,
       abortVars, Goto
  <2> QED
    BY <2>1, <2>2 DEF Justified
<1>11. CASE HandleAbort(th)
  <2>1. work'[th].stage = "idle"
    BY <1>0, <1>2, <1>11 DEF HandleAbort, Set
  <2>2. abort_reason' = abort_reason /\ (pc'[th] # "ExecutionError" \/ work[th].stage = "error")
    BY <1>0, <1>11 DEF HandleAbort, AbortScheduler, Goto
  <2> QED
    BY <2>1, <2>2 DEF Justified
<1>12. CASE BeginValidate(th) \/ BeginConvert(th)
  <2>1. PICK x \in {DOMAIN locations[ver[th].tx_idx].read, locations[ver[th].tx_idx].write} :
          \/ Set(th, [Idle EXCEPT !.stage = "check", !.todo = x])
          \/ Set(th, [Idle EXCEPT !.stage = "convert", !.todo = x])
    BY <1>12 DEF BeginValidate, BeginConvert
  <2>2. /\ [Idle EXCEPT !.stage = "check", !.todo = x].stage = "check"
        /\ [Idle EXCEPT !.stage = "convert", !.todo = x].stage = "convert"
    BY DEF Idle
  <2>3. work'[th].stage \in {"check", "convert"}
    BY <1>0, <2>1, <2>2 DEF Set
  <2>4. UNCHANGED vars
    BY <1>12 DEF BeginValidate, BeginConvert
  <2> QED
    BY <1>1, <2>3, <2>4
<1>13. CASE CheckLocation(th) \/ ValidateDone(th)
  <2>1. PICK l : \/ Set(th, [work[th] EXCEPT !.todo = @ \ {l}]) /\ UNCHANGED vars
                 \/ Set(th, Idle) /\ \E valid \in BOOLEAN : ReadSetChecked(th, valid)
    BY <1>13 DEF CheckLocation, ValidateDone
  <2>2. work[th].stage = "check"
    BY <1>13 DEF CheckLocation, ValidateDone
  <2>3. CASE Set(th, [work[th] EXCEPT !.todo = @ \ {l}]) /\ UNCHANGED vars
    <3>1. [work[th] EXCEPT !.todo = @ \ {l}].stage = "check"
      BY <1>0, <2>2 DEF Staged
    <3>2. work'[th].stage = "check"
      BY <1>0, <2>3, <3>1 DEF Set
    <3> QED
      BY <1>1, <2>3, <3>2
  <2>4. CASE Set(th, Idle) /\ \E valid \in BOOLEAN : ReadSetChecked(th, valid)
    <3>1. work'[th].stage = "idle"
      BY <1>0, <1>2, <2>4 DEF Set
    <3>2. abort_reason' = abort_reason /\ pc'[th] # "ExecutionError"
      BY <1>0, <2>4 DEF ReadSetChecked, Goto, abortVars
    <3> QED
      BY <3>1, <3>2 DEF Justified
  <2> QED
    BY <2>1, <2>3, <2>4
<1>14. CASE ConvertWrite(th)
  <2>1. PICK m : Converts(th, ver[th].tx_idx, m)
    BY <1>14, ConvertsEffect DEF AccountInv
  <2> QED
    BY <1>1, <2>1 DEF Converts, Writes
<1>15. CASE ConvertDone(th)
  <2>1. work'[th].stage = "idle" /\ SchedulerStep(th)
    BY <1>0, <1>2, <1>15 DEF ConvertDone, Set, SchedulerStep
  <2> QED
    BY <1>0, <2>1, SchedulerJustified DEF Justified
<1> QED
  BY <1>3, <1>4, <1>5, <1>6, <1>7, <1>8, <1>9, <1>10, <1>11, <1>12, <1>13, <1>14, <1>15
     DEF Worker

-----------------------------------------------------------------------------
(***************************************************************************)
(* ValueInv is inductive.                                                  *)
(***************************************************************************)
LEMMA AccountStep ==
  ASSUME Known, Folded, LocInv, EntryInv, AccountInv, NEW th \in Threads, Worker(th)
  PROVE  AccountInv'
<1>0. Frame(th) /\ BlankUnlessExecuting /\ DOMAIN execution_results = Tx
  BY WorkerFrame DEF AccountInv
<1>1. CASE CalmAction(th)
  <2>1. Calm(th) /\ StatusEffect(th)
    BY <1>0, <1>1, CalmActions
  <2> QED
    BY <1>0, <2>1, AccountCalm
<1>2. CASE ReadLocation(th)
  <2>1. (Calm(th) /\ UNCHANGED vars /\ work'[th].stage # "error") \/ ReadsOk(th)
    BY <1>0, <1>2, ReadActions
  <2>2. CASE ReadsOk(th)
    BY <1>0, <2>2, AccountRead
  <2>3. CASE Calm(th) /\ UNCHANGED vars
    <3>1. StatusEffect(th)
      BY <2>3 DEF StatusEffect
    <3> QED
      BY <1>0, <2>3, <3>1, AccountCalm
  <2> QED
    BY <2>1, <2>2, <2>3
<1>3. CASE BeginRecord(th)
  BY <1>3, BeginsEffect, AccountBegins
<1>4. CASE RecordRemove(th)
  BY <1>4, RemovesEffect, AccountRemoves
<1>5. CASE RecordInsert(th)
  BY <1>5, InsertsEffect, AccountInserts
<1>6. CASE RecordDone(th)
  BY <1>0, <1>6, ConcludesEffect, AccountConcludes
<1>7. CASE ConvertWrite(th)
  BY <1>0, <1>7, ConvertsEffect, AccountRemoves
<1> QED
  BY <1>1, <1>2, <1>3, <1>4, <1>5, <1>6, <1>7 DEF Worker, CalmAction

\* Nothing happens to what ValueInv is about.
LEMMA ValueSame ==
  ASSUME ValueInv,
         UNCHANGED <<vars, mvVars, txs, work, execution_results>>
  PROVE  ValueInv'
<1>1. /\ pc' = pc /\ ver' = ver /\ tx_status' = tx_status /\ abort_reason' = abort_reason
      /\ data' = data /\ locations' = locations /\ txs' = txs /\ work' = work
      /\ execution_results' = execution_results
  BY DEF vars, mvVars, txVars, abortVars
<1>2. \A th \in Threads : RecordedSet(th)' = RecordedSet(th)
  BY <1>1 DEF RecordedSet
<1>3. \A l, v : Unwritten(l, v)' <=> Unwritten(l, v)
  BY <1>1, <1>2 DEF Unwritten, Fresh, Touches
<1>4. OriginsWritten'
  BY <1>1, <1>3 DEF ValueInv, AccountInv, OriginsWritten, HoldsVersion
<1>5. BlankUnlessExecuting'
  BY <1>1 DEF ValueInv, AccountInv, BlankUnlessExecuting, Blank
<1>6. \A l, t, x : EntryOf(l, t, x)' <=> EntryOf(l, t, x)
  BY <1>1 DEF EntryOf
<1>7. \A t, x : Wrote(t, x)' <=> Wrote(t, x)
  BY <1>1, <1>6 DEF Wrote
<1>8. RecordsSeen'
  BY <1>1, <1>2, <1>6, <1>7 DEF ValueInv, AccountInv, RecordsSeen, RecordSeen
<1>9. \A t : Concluded(t)' <=> Concluded(t)
  BY <1>1 DEF Concluded
<1>10. ResultsWritten'
  BY <1>1, <1>7, <1>9 DEF ValueInv, AccountInv, ResultsWritten
<1>11. ErrorsJustified'
  BY <1>1 DEF ValueInv, ErrorsJustified, FirstFails
<1>12. ASSUME NEW hist, SeenInv(hist) PROVE SeenInv(hist)'
  <2>1. EntriesAre(hist)'
    BY <1>1, <1>12 DEF SeenInv, EntriesAre
  <2>2. WorkersSaw(hist)'
    BY <1>1, <1>12 DEF SeenInv, WorkersSaw, Blank
  <2>3. ResultsSaw(hist)'
    BY <1>1, <1>9, <1>12 DEF SeenInv, ResultsSaw
  <2> QED
    BY <1>12, <2>1, <2>2, <2>3 DEF SeenInv, History
<1> QED
  BY <1>1, <1>4, <1>5, <1>8, <1>10, <1>11, <1>12 DEF ValueInv, AccountInv

LEMMA ValueStep ==
  ASSUME Known, Folded, ReadInv, ValueInv, [PNext]_peVars
  PROVE  ValueInv'
<1>1. ASSUME NEW th \in Threads, Worker(th) PROVE ValueInv'
  <2>1. LocInv /\ EntryInv /\ AccountInv /\ ErrorsJustified
    BY DEF ReadInv, ValueInv
  <2>2. AccountInv'
    BY <1>1, <2>1, AccountStep
  <2>3. Frame(th) /\ Justified(th)
    BY <1>1, <2>1, WorkerFrame, WorkerJustified
  <2>4. ErrorsJustified'
    BY <2>1, <2>3, ErrorsKept
  <2> QED
    BY <2>2, <2>4 DEF ValueInv
<1>2. CASE UNCHANGED <<vars, mvVars, txs, work, execution_results>>
  BY <1>2, ValueSame
<1> QED
  BY <1>1, <1>2 DEF PNext, Collect, Returned, peVars

LEMMA InitValueInv ==
  ASSUME PInit
  PROVE  ValueInv
<1>0. /\ \A th \in Threads : work[th] = Idle
      /\ DOMAIN execution_results = Tx
      /\ \A l \in Loc : \A k \in DOMAIN data[l] : data[l][k] = Estimate
      /\ \A t \in Tx : locations[t].read = <<>>
  BY DEF PInit, MvInit
<1>1. Idle.seen = <<>> /\ Idle.reads = <<>> /\ Idle.stage = "idle"
  BY DEF Idle
<1>2. \A th \in Threads : Blank(th) /\ work[th].stage = "idle"
  BY <1>0, <1>1 DEF Blank
<1>3. /\ \A th \in Threads : pc[th] \notin HoldsStatus /\ pc[th] # "ExecutionError"
      /\ \A t \in Tx : tx_status[t].status \notin Finished
      /\ abort_reason = "none"
  BY DEF PInit, Init, HoldsStatus, Finished
<1>4. \A t \in Tx : ~Concluded(t)
  BY <1>3 DEF Concluded
<1>5. OriginsWritten
  <2>1. \A l, v : ~Names(<<>>, l, v)
    BY NamesNothing
  <2> QED
    BY <1>0, <1>1, <2>1 DEF OriginsWritten, HoldsVersion
<1>6. PICK hist : History(hist)
  <2>1. PICK x : x = [kind |-> "Absolute", amount |-> 0]
    OBVIOUS
  <2>2. x \in Values /\ x.kind # "Lazy"
    BY <2>1, SMTT(30) DEF Values
  <2> DEFINE h == [l \in Loc |-> [v \in Versions |-> x]]
  <2>3. h \in [Loc -> [Versions -> Values]] /\ \A l \in CodeLoc : \A v \in Versions : h[l][v].kind # "Lazy"
    BY <2>2, LocationAssumption
  <2> HIDE DEF h
  <2> QED
    BY <2>3 DEF History
<1>7. SeenInv(hist)
  BY <1>0, <1>2, <1>4, <1>6 DEF SeenInv, EntriesAre, WorkersSaw, ResultsSaw
<1>8. AccountInv
  BY <1>0, <1>2, <1>4, <1>5, <1>7 DEF AccountInv, BlankUnlessExecuting, RecordsSeen, RecordSeen,
     ResultsWritten
<1>9. ErrorsJustified
  BY <1>2, <1>3 DEF ErrorsJustified
<1> QED
  BY <1>8, <1>9 DEF ValueInv
=============================================================================
