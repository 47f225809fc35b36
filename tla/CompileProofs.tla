---------------------------- MODULE CompileProofs -----------------------------
(***************************************************************************)
(* Proofs about the compile worker, for every number of callers, contracts *)
(* and tasks, and every size of the pool and the cache.  The mutex of the  *)
(* compiler is held by exactly the task that compiles (MutexInv); with     *)
(* that, what the tasks share on disk is changed by one of them at a time. *)
(***************************************************************************)
EXTENDS CompileWorker, FiniteSetTheorems, TLAPS

\* The default prover of this module; a leaf with arithmetic names SMT.
USE ZenonT(40)

\* The compiler's mutex is held by exactly the task between lock and return.
MutexInv == \A t \in Task : tasks[t].pc \in Compiling <=> compiler = t

Holding == {t \in Task : tasks[t].pc \in Compiling \cup {"permit"}}

IsLinking(c) == \E t \in Task : tasks[t].pc = "linking" /\ tasks[t].code = c

Orphans == {c \in Code : store[c].so = "partial" /\ ~IsLinking(c)}

OrphansInv == IsFiniteSet(Orphans) /\ Cardinality(Orphans) <= crashes

IInv == TypeOK /\ MutexInv /\ PermitsBalanced /\ ObjectKept /\ OrphansInv

TaskPc == {"none", "acquire", "permit", "translate", "jit", "write",
           "link", "linking", "remove", "done"}

\* Tasks are finitely many, whatever the bound.
LEMMA TaskFinite == IsFiniteSet(Task) /\ 0 \notin Task /\ \A S \in SUBSET Task : IsFiniteSet(S)
<1>1. IsFiniteSet(Task)
  BY PoolAssumption, FS_Interval, SMTT(30) DEF Task
<1>2. 0 \notin Task
  BY PoolAssumption, SMTT(30) DEF Task
<1> QED
  BY <1>1, <1>2, FS_Subset

\* The initial states satisfy the invariant.
LEMMA InitIInv == Init => IInv
<1> SUFFICES ASSUME Init PROVE IInv
  OBVIOUS
<1>1. TypeOK
  BY PoolAssumption, FS_EmptySet, SMTT(30) DEF Init, TypeOK, Dormant, NoTask
<1>2. MutexInv
  BY TaskFinite DEF Init, MutexInv, Dormant, Compiling, NoTask
<1>3. PermitsBalanced
  <2>1. {t \in Task : tasks[t].pc \in Compiling \cup {"permit"}} = {}
    BY DEF Init, Dormant, Compiling
  <2>2. Cardinality({}) = 0 /\ permits = pool_size /\ pool_size \in Nat
    BY FS_EmptySet, PoolAssumption DEF Init
  <2>3. permits + 0 = pool_size
    BY <2>2, SMTT(30)
  <2> QED
    BY <2>1, <2>2, <2>3 DEF PermitsBalanced
<1>4. ObjectKept
  BY DEF Init, ObjectKept, Dormant
<1>5. OrphansInv
  <2>1. Orphans = {}
    BY DEF Init, Orphans
  <2> QED
    BY <2>1, FS_EmptySet, SMTT(30) DEF OrphansInv, Init
<1> QED
  BY <1>1, <1>2, <1>3, <1>4, <1>5 DEF IInv

-----------------------------------------------------------------------------
(***************************************************************************)
(* What a step does to the tasks: a call at most spawns one; a task moves  *)
(* from one place to another.                                              *)
(***************************************************************************)
Spawns == \A u \in Task : \/ tasks'[u] = tasks[u]
                          \/ tasks[u].pc = "none" /\ tasks'[u].pc = "acquire"

Moves(t, from, to) ==
  /\ tasks[t].pc = from /\ tasks'[t].pc = to /\ tasks'[t].code = tasks[t].code
  /\ \A u \in Task \ {t} : tasks'[u] = tasks[u]

\* Calls leave the permits, the mutex and the store alone.
LEMMA CallFrame ==
  ASSUME TypeOK, NEW p \in Caller,
         CallerNext(p) \/ \E c \in Code : FrameCall(p, c) \/ Block(p, c)
  PROVE  Spawns /\ UNCHANGED <<permits, compiler, store, crashes>>
<1>1. CASE CallerNext(p)
  BY <1>1, SMTT(30) DEF TypeOK, CallerNext, Join, CacheGet, TryExists, Load, CacheInsert, NotFound,
              Spawn, Spawns, Goto
<1>2. CASE \E c \in Code : FrameCall(p, c) \/ Block(p, c)
  BY <1>2, SMTT(30) DEF TypeOK, FrameCall, Block, Spawn, Spawns, Goto
<1> QED
  BY <1>1, <1>2

\* A task's step as a move.
LEMMA StepMoves ==
  ASSUME TypeOK, NEW t \in Task, NEW from, NEW to, Step(t, from, to)
  PROVE  Moves(t, from, to)
BY SMTT(30) DEF TypeOK, Step, Moves

-----------------------------------------------------------------------------
\* Who holds a permit after a call, and after a task moved.
LEMMA HoldingSpawns == ASSUME TypeOK, Spawns PROVE Holding' = Holding
BY DEF TypeOK, Spawns, Holding, Compiling

LEMMA HoldingMoves ==
  ASSUME TypeOK, NEW t \in Task, NEW from, NEW to, Moves(t, from, to)
  PROVE  /\ to \in Compiling \cup {"permit"} => Holding' = Holding \cup {t}
         /\ to \notin Compiling \cup {"permit"} => Holding' = Holding \ {t}
         /\ t \in Holding <=> from \in Compiling \cup {"permit"}
BY SMTT(30) DEF TypeOK, Moves, Holding

LEMMA BalancedHolding == PermitsBalanced <=> permits + Cardinality(Holding) = pool_size
BY DEF PermitsBalanced, Holding

LEMMA BalancedHoldingNext ==
  PermitsBalanced' <=> permits' + Cardinality(Holding') = pool_size
BY DEF PermitsBalanced, Holding

\* A permit is taken and given back with the task that holds it.
LEMMA BalancedStep ==
  ASSUME TypeOK, PermitsBalanced, NEW t \in Task, NEW from, NEW to, Moves(t, from, to),
         \/ /\ permits' = permits
            /\ from \in Compiling \cup {"permit"} <=> to \in Compiling \cup {"permit"}
         \/ /\ permits' = permits - 1
            /\ from \notin Compiling \cup {"permit"} /\ to \in Compiling \cup {"permit"}
         \/ /\ permits' = permits + 1
            /\ from \in Compiling \cup {"permit"} /\ to \notin Compiling \cup {"permit"}
  PROVE  PermitsBalanced'
<1>1. IsFiniteSet(Holding) /\ Cardinality(Holding) \in Nat
  BY TaskFinite, FS_CardinalityType DEF Holding
<1>2. permits \in Int /\ pool_size \in Int /\ permits + Cardinality(Holding) = pool_size
  BY PoolAssumption, BalancedHolding, SMTT(30) DEF TypeOK
<1>3. CASE to \in Compiling \cup {"permit"}
  <2>1. /\ Holding' = Holding \cup {t} 
        /\ t \in Holding <=> from \in Compiling \cup {"permit"}
    BY <1>3, HoldingMoves
  <2>2. Cardinality(Holding') = IF t \in Holding THEN Cardinality(Holding)
                                ELSE Cardinality(Holding) + 1
    BY <1>1, <2>1, FS_AddElement
  <2> QED
    BY <1>1, <1>2, <1>3, <2>1, <2>2, BalancedHoldingNext, SMTT(30)
<1>4. CASE to \notin Compiling \cup {"permit"}
  <2>1. /\ Holding' = Holding \ {t}
        /\ t \in Holding <=> from \in Compiling \cup {"permit"}
    BY <1>4, HoldingMoves
  <2>2. Cardinality(Holding') = IF t \in Holding THEN Cardinality(Holding) - 1
                                ELSE Cardinality(Holding)
    BY <1>1, <2>1, FS_RemoveElement
  <2> QED
    BY <1>1, <1>2, <1>4, <2>1, <2>2, BalancedHoldingNext, SMTT(30)
<1> QED
  BY <1>3, <1>4

-----------------------------------------------------------------------------
\* Fewer orphans are still bounded.
LEMMA OrphansFewer ==
  ASSUME OrphansInv, Orphans' \subseteq Orphans, crashes' = crashes, crashes \in Nat
  PROVE  OrphansInv'
<1>1. IsFiniteSet(Orphans') /\ Cardinality(Orphans') <= Cardinality(Orphans)
  BY FS_Subset DEF OrphansInv
<1>2. Cardinality(Orphans) \in Nat /\ Cardinality(Orphans') \in Nat
  BY <1>1, FS_CardinalityType DEF OrphansInv
<1> QED
  BY <1>1, <1>2, SMTT(30) DEF OrphansInv

\* A step that touches the store of the linking task's contract only.
LEMMA OrphansMoves ==
  ASSUME TypeOK, OrphansInv, crashes' = crashes, NEW t \in Task, NEW from, NEW to,
         Moves(t, from, to),
         \A c \in Code : store'[c].so = "partial" =>
           \/ c = tasks[t].code /\ to = "linking"
           \/ store[c].so = "partial" /\ (c = tasks[t].code => from # "linking")
  PROVE  OrphansInv'
<1>1. ASSUME NEW c \in Orphans' PROVE c \in Orphans
  <2>1. c \in Code /\ store'[c].so = "partial"
        /\ ~\E u \in Task : tasks'[u].pc = "linking" /\ tasks'[u].code = c
    BY <1>1 DEF Orphans, IsLinking
  <2>2. store[c].so = "partial" /\ (c = tasks[t].code => from # "linking")
    BY <2>1 DEF Moves
  <2>3. \A u \in Task : ~(tasks[u].pc = "linking" /\ tasks[u].code = c)
    BY <2>1, <2>2 DEF Moves
  <2> QED
    BY <2>1, <2>2, <2>3 DEF Orphans, IsLinking
<1> QED
  BY <1>1, OrphansFewer, SMTT(30) DEF TypeOK

-----------------------------------------------------------------------------
\* The mutex is taken free by a task that starts compiling and dropped when it returns.
LEMMA MutexMoves ==
  ASSUME TypeOK, MutexInv, NEW t \in Task, NEW from, NEW to, Moves(t, from, to),
         \/ compiler' = compiler /\ (from \in Compiling <=> to \in Compiling)
         \/ compiler = NoTask /\ compiler' = t /\ to \in Compiling
         \/ compiler' = (IF compiler = t THEN NoTask ELSE compiler) /\ to \notin Compiling
  PROVE  MutexInv'
BY TaskFinite DEF MutexInv, Moves, NoTask

\* Only the holder of the mutex deletes an object, so no other task loses its own.
LEMMA ObjectMoves ==
  ASSUME TypeOK, MutexInv, ObjectKept, NEW t \in Task, NEW from, NEW to,
         Moves(t, from, to),
         \A c \in Code : store[c].obj => store'[c].obj \/ from = "remove",
         to \in {"link", "linking", "remove"} => store'[tasks[t].code].obj
  PROVE  ObjectKept'
<1> SUFFICES ASSUME NEW u \in Task, tasks'[u].pc \in {"link", "linking", "remove"}
             PROVE  store'[tasks'[u].code].obj
  BY DEF ObjectKept
<1>1. CASE u = t
  BY <1>1 DEF Moves
<1>2. CASE u # t
  <2>1. tasks'[u] = tasks[u] /\ tasks[u].code \in Code /\ store[tasks[u].code].obj
    BY <1>2 DEF Moves, ObjectKept, TypeOK
  <2>2. from # "remove"
    BY <1>2, <2>1 DEF Moves, MutexInv, Compiling
  <2> QED
    BY <2>1, <2>2
<1> QED
  BY <1>1, <1>2

-----------------------------------------------------------------------------
Untyped == MutexInv /\ PermitsBalanced /\ ObjectKept /\ OrphansInv

\* Steps that only spawn, or change nothing these invariants read.
LEMMA SpawnsUntyped ==
  ASSUME IInv, Spawns, UNCHANGED <<permits, compiler, store, crashes>>
  PROVE  Untyped'
<1> USE DEF IInv
<1>1. MutexInv'
  BY DEF TypeOK, MutexInv, Spawns, Compiling
<1>2. PermitsBalanced'
  BY HoldingSpawns, BalancedHolding, BalancedHoldingNext
<1>3. ObjectKept'
  BY DEF TypeOK, ObjectKept, Spawns
<1>4. Orphans' \subseteq Orphans
  BY SMTT(30) DEF TypeOK, Orphans, IsLinking, Spawns
<1>5. OrphansInv'
  BY <1>4, OrphansFewer, SMTT(30) DEF TypeOK
<1> QED
  BY <1>1, <1>2, <1>3, <1>5 DEF Untyped

\* Acquire, Lock and Translate leave the store alone.
LEMMA EnterUntyped ==
  ASSUME IInv, NEW t \in Task, Acquire(t) \/ Lock(t) \/ Translate(t)
  PROVE  Untyped'
<1> USE DEF IInv
<1> PICK from, to :
      /\ Moves(t, from, to)
      /\ \/ from = "acquire" /\ to = "permit" /\ permits' = permits - 1 /\ compiler' = compiler
         \/ /\ from = "permit" /\ to \in {"translate", "jit"} /\ permits' = permits
            /\ compiler = NoTask /\ compiler' = t
         \/ from = "translate" /\ to = "write" /\ permits' = permits /\ compiler' = compiler
      /\ UNCHANGED <<store, crashes>>
  <2>1. CASE Acquire(t)
    BY <2>1, StepMoves DEF Acquire
  <2>2. CASE Lock(t)
    <3>1. Moves(t, "permit", IF is_aot THEN "translate" ELSE "jit")
      BY <2>2, StepMoves DEF Lock
    <3> QED
      BY <2>2, <3>1 DEF Lock
  <2>3. CASE Translate(t)
    BY <2>3, StepMoves DEF Translate
  <2> QED
    BY <2>1, <2>2, <2>3
<1>1. MutexInv'
  BY MutexMoves DEF Compiling
<1>2. PermitsBalanced'
  BY BalancedStep DEF Compiling
<1>3. ObjectKept'
  BY ObjectMoves
<1>4. OrphansInv'
  BY OrphansMoves
<1> QED
  BY <1>1, <1>2, <1>3, <1>4 DEF Untyped

\* WriteObject, Link and Linked change the store, not the permits or the mutex.
LEMMA LinkUntyped ==
  ASSUME IInv, NEW t \in Task, WriteObject(t) \/ Link(t) \/ Linked(t)
  PROVE  Untyped'
<1> USE DEF IInv
<1>c. tasks[t].code \in Code
  BY DEF TypeOK
<1> PICK from, to, so :
      /\ Moves(t, from, to)
      /\ store' = [store EXCEPT ![tasks[t].code] = [obj |-> TRUE, so |-> so]]
      /\ \/ from = "write" /\ to = "link" /\ so = store[tasks[t].code].so
         \/ from = "link" /\ to = "linking" /\ so = "partial"
         \/ from = "linking" /\ to = "remove" /\ so = "complete"
      /\ UNCHANGED <<permits, compiler, crashes>>
  <2>1. CASE WriteObject(t)
    BY <2>1, StepMoves DEF WriteObject, SetStore
  <2>2. CASE Link(t)
    <3>1. store[tasks[t].code].obj = TRUE
      BY <1>c, <2>2 DEF Link, Step, ObjectKept, TypeOK
    <3> QED
      BY <2>2, <3>1, StepMoves DEF Link, SetStore
  <2>3. CASE Linked(t)
    BY <2>3, StepMoves DEF Linked, SetStore
  <2> QED
    BY <2>1, <2>2, <2>3
<1>s. \A c \in Code : store'[c] = IF c = tasks[t].code THEN [obj |-> TRUE, so |-> so]
                                  ELSE store[c]
  BY DEF TypeOK
<1>1. MutexInv'
  BY MutexMoves DEF Compiling
<1>2. PermitsBalanced'
  BY BalancedStep DEF Compiling
<1>3. ObjectKept'
  <2>1. \A c \in Code : store[c].obj => store'[c].obj \/ from = "remove"
    BY <1>s, SMTT(30)
  <2>2. store'[tasks[t].code].obj
    BY <1>c, <1>s, SMTT(30)
  <2> QED
    BY <2>1, <2>2, ObjectMoves
<1>4. OrphansInv'
  <2>1. \A c \in Code : store'[c].so = "partial" =>
           \/ c = tasks[t].code /\ to = "linking"
           \/ store[c].so = "partial" /\ (c = tasks[t].code => from # "linking")
    BY <1>s, SMTT(30)
  <2> QED
    BY <2>1, OrphansMoves, SMTT(30)
<1> QED
  BY <1>1, <1>2, <1>3, <1>4 DEF Untyped

\* However a task returns, with or without the mutex.
LEMMA FinishUntyped ==
  ASSUME IInv, NEW t \in Task,
         \/ SkipZero(t) \/ JitCompile(t) \/ Fail(t) \/ LinkFails(t) \/ RemoveObject(t)
  PROVE  Untyped'
<1> USE DEF IInv
<1>c. tasks[t].code \in Code
  BY DEF TypeOK
<1> PICK from :
      /\ Finish(t, from)
      /\ \/ from \in {"permit", "jit", "translate", "write"} /\ store' = store
         \/ /\ from = "linking"
            /\ SetStore(tasks[t].code, store[tasks[t].code].obj, "absent")
         \/ /\ from = "remove"
            /\ SetStore(tasks[t].code, FALSE, store[tasks[t].code].so)
      /\ crashes' = crashes
  <2>1. CASE SkipZero(t)
    BY <2>1 DEF SkipZero
  <2>2. CASE JitCompile(t)
    BY <2>2 DEF JitCompile
  <2>3. CASE Fail(t)
    BY <2>3 DEF Fail
  <2>4. CASE LinkFails(t)
    BY <2>4 DEF LinkFails, LinkerLeaves
  <2>5. CASE RemoveObject(t)
    BY <2>5 DEF RemoveObject
  <2> QED
    BY <2>1, <2>2, <2>3, <2>4, <2>5
<1>m. /\ Moves(t, from, "done")
      /\ permits' = permits + 1
      /\ compiler' = IF compiler = t THEN NoTask ELSE compiler
  BY StepMoves DEF Finish
<1>o. \A c \in Code : store[c].obj => store'[c].obj \/ from = "remove"
  BY SMTT(30) DEF TypeOK, SetStore
<1>p. \A c \in Code : store'[c].so = "partial" =>
        store[c].so = "partial" /\ (c = tasks[t].code => from # "linking")
  BY SMTT(30) DEF TypeOK, SetStore
<1>1. MutexInv'
  BY <1>m, MutexMoves DEF Compiling
<1>2. PermitsBalanced'
  BY <1>m, BalancedStep DEF Compiling
<1>3. ObjectKept'
  BY <1>m, <1>o, ObjectMoves
<1>4. OrphansInv'
  BY <1>m, <1>p, OrphansMoves, SMTT(30)
<1> QED
  BY <1>1, <1>2, <1>3, <1>4 DEF Untyped

\* A crash makes at most one more orphan: the library of the task that was linking.
LEMMA CrashUntyped == ASSUME IInv, Crash PROVE Untyped'
<1> USE DEF IInv
<1>0. \A t \in Task : tasks'[t].pc = "none"
  BY DEF Crash, Dormant
<1>1. MutexInv'
  BY <1>0, TaskFinite DEF Crash, MutexInv, Compiling, NoTask
<1>2. PermitsBalanced'
  <2>1. Holding' = {}
    BY <1>0 DEF Holding, Compiling
  <2> QED
    BY <2>1, FS_EmptySet, PoolAssumption, BalancedHoldingNext, SMTT(30) DEF Crash
<1>3. ObjectKept'
  BY <1>0 DEF ObjectKept
<1>4. OrphansInv'
  <2>1. PICK c : Orphans' \subseteq Orphans \cup {c}
    <3>1. \A t, u \in Task : tasks[t].pc = "linking" /\ tasks[u].pc = "linking" => t = u
      BY DEF MutexInv, Compiling
    <3>2. \A d \in Orphans' : d \in Orphans \/ IsLinking(d)
      BY DEF Orphans, Crash
    <3>3. CASE \E t \in Task : tasks[t].pc = "linking"
      <4>1. PICK t \in Task : tasks[t].pc = "linking"
        BY <3>3
      <4>2. \A d \in Orphans' : d \in Orphans \cup {tasks[t].code}
        BY <3>1, <3>2, <4>1 DEF IsLinking
      <4> QED
        BY <4>2
    <3>4. CASE ~\E t \in Task : tasks[t].pc = "linking"
      BY <3>2, <3>4 DEF IsLinking
    <3> QED
      BY <3>3, <3>4
  <2>2. /\ IsFiniteSet(Orphans \cup {c}) /\ Cardinality(Orphans) \in Nat
        /\ Cardinality(Orphans \cup {c}) <= Cardinality(Orphans) + 1
    <3>1. IsFiniteSet(Orphans) /\ Cardinality(Orphans) \in Nat
      BY FS_CardinalityType DEF OrphansInv
    <3>2. /\ IsFiniteSet(Orphans \cup {c})
          /\ \/ Cardinality(Orphans \cup {c}) = Cardinality(Orphans)
             \/ Cardinality(Orphans \cup {c}) = Cardinality(Orphans) + 1
      BY <3>1, FS_AddElement
    <3> QED
      BY <3>1, <3>2, SMTT(30)
  <2>3. /\ IsFiniteSet(Orphans') /\ Cardinality(Orphans') <= Cardinality(Orphans \cup {c})
    BY <2>1, <2>2, FS_Subset
  <2>4. Cardinality(Orphans') \in Nat /\ Cardinality(Orphans \cup {c}) \in Nat
    BY <2>2, <2>3, FS_CardinalityType
  <2>5. crashes' = crashes + 1 /\ crashes \in Nat /\ Cardinality(Orphans) <= crashes
    BY PoolAssumption, SMTT(30) DEF Crash, TypeOK, OrphansInv
  <2> QED
    BY <2>2, <2>3, <2>4, <2>5, SMTT(30) DEF OrphansInv
<1> QED
  BY <1>1, <1>2, <1>3, <1>4 DEF Untyped

-----------------------------------------------------------------------------
\* The parts of the type that a task's step or a spawn may change.
TasksType == tasks \in [Task -> [pc : TaskPc, code : Code]]
StoreType == store \in [Code -> [obj : BOOLEAN, so : {"absent", "partial", "complete"}]]
CacheType == cache \subseteq Code /\ Cardinality(cache) <= cache_size

LEMMA SpawnType ==
  ASSUME TasksType, NEW t \in Task, NEW c \in Code, Spawn(c, t) PROVE TasksType'
BY DEF TasksType, TaskPc, Spawn

LEMMA StepType ==
  ASSUME TasksType, NEW t \in Task, NEW from, NEW to \in TaskPc, Step(t, from, to)
  PROVE  TasksType'
BY DEF TasksType, Step

LEMMA SetStoreType ==
  ASSUME StoreType, NEW c \in Code, NEW obj \in BOOLEAN,
         NEW so \in {"absent", "partial", "complete"}, SetStore(c, obj, so)
  PROVE  StoreType'
BY DEF StoreType, SetStore

LEMMA InsertType == ASSUME CacheType, NEW c \in Code, Insert(c) PROVE CacheType'
BY DEF CacheType, Insert

LEMMA Types == TypeOK => TasksType /\ StoreType /\ CacheType
BY DEF TypeOK, TasksType, StoreType, CacheType, TaskPc

\* The types after a task's step, given that the permits stay balanced.
LEMMA TaskTypeStep ==
  ASSUME TypeOK, NEW t \in Task, TaskNext(t), PermitsBalanced' PROVE TypeOK'
<1>0. /\ tasks[t].code \in Code
      /\ store[tasks[t].code].obj \in BOOLEAN
      /\ store[tasks[t].code].so \in {"absent", "partial", "complete"}
  BY DEF TypeOK
<1>p. /\ "permit" \in TaskPc /\ "done" \in TaskPc /\ "write" \in TaskPc
      /\ "link" \in TaskPc /\ "linking" \in TaskPc /\ "remove" \in TaskPc
      /\ (IF is_aot THEN "translate" ELSE "jit") \in TaskPc
  BY DEF TaskPc
<1>f. ASSUME NEW from, Finish(t, from)
      PROVE  TasksType' /\ permits' = permits + 1 /\ compiler' \in Task \cup {NoTask}
  <2>1. Step(t, from, "done") /\ permits' = permits + 1
        /\ compiler' \in Task \cup {NoTask}
    BY <1>f DEF Finish, TypeOK
  <2> QED
    BY <1>p, <2>1, StepType, Types
<1>n. permits \in Nat /\ permits + 1 \in Nat
  BY PoolAssumption, SMTT(30) DEF TypeOK
<1>1. TasksType' /\ compiler' \in Task \cup {NoTask} /\ permits' \in Nat
  <2>1. CASE Acquire(t)
    <3>1. /\ Step(t, "acquire", "permit")
          /\ permits' \in Nat
          /\ compiler' \in Task \cup {NoTask}
      BY <1>n, <2>1, SMTT(30) DEF Acquire, TypeOK
    <3>2. TasksType'
      BY <1>p, <3>1, StepType, Types
    <3> QED
      BY <3>1, <3>2
  <2>2. CASE Lock(t)
    <3>1. /\ Step(t, "permit", IF is_aot THEN "translate" ELSE "jit")
          /\ permits' \in Nat
          /\ compiler' \in Task \cup {NoTask}
      BY <1>n, <2>2 DEF Lock, TypeOK
    <3>2. TasksType'
      BY <1>p, <3>1, StepType, Types
    <3> QED
      BY <3>1, <3>2
  <2>3. CASE Translate(t)
    <3>1. /\ Step(t, "translate", "write")
          /\ permits' \in Nat
          /\ compiler' \in Task \cup {NoTask}
      BY <1>n, <2>3 DEF Translate, TypeOK
    <3>2. TasksType'
      BY <1>p, <3>1, StepType, Types
    <3> QED
      BY <3>1, <3>2
  <2>4. CASE WriteObject(t)
    <3>1. /\ Step(t, "write", "link")
          /\ permits' \in Nat
          /\ compiler' \in Task \cup {NoTask}
      BY <1>n, <2>4 DEF WriteObject, TypeOK
    <3>2. TasksType'
      BY <1>p, <3>1, StepType, Types
    <3> QED
      BY <3>1, <3>2
  <2>5. CASE Link(t)
    <3>1. /\ Step(t, "link", "linking")
          /\ permits' \in Nat
          /\ compiler' \in Task \cup {NoTask}
      BY <1>n, <2>5 DEF Link, TypeOK
    <3>2. TasksType'
      BY <1>p, <3>1, StepType, Types
    <3> QED
      BY <3>1, <3>2
  <2>6. CASE Linked(t)
    <3>1. /\ Step(t, "linking", "remove")
          /\ permits' \in Nat
          /\ compiler' \in Task \cup {NoTask}
      BY <1>n, <2>6 DEF Linked, TypeOK
    <3>2. TasksType'
      BY <1>p, <3>1, StepType, Types
    <3> QED
      BY <3>1, <3>2
  <2>7. CASE SkipZero(t) \/ JitCompile(t) \/ Fail(t) \/ LinkFails(t) \/ RemoveObject(t)
    BY <1>f, <1>n, <2>7 DEF SkipZero, JitCompile, Fail, LinkFails, RemoveObject
  <2> QED
    BY <2>1, <2>2, <2>3, <2>4, <2>5, <2>6, <2>7 DEF TaskNext
<1>2. StoreType'
  <2>1. store' = store \/ \E obj \in BOOLEAN, so \in {"absent", "partial", "complete"} :
                            SetStore(tasks[t].code, obj, so)
    BY <1>0 DEF TaskNext, Acquire, SkipZero, Lock, JitCompile, Translate, WriteObject, Link,
                Linked, LinkFails, LinkerLeaves, RemoveObject, Fail
  <2> QED
    BY <1>0, <2>1, SetStoreType, Types DEF StoreType
<1>3. CacheType'
  <2>1. cache' = cache \/ Insert(tasks[t].code)
    BY DEF TaskNext, Acquire, SkipZero, Lock, JitCompile, Translate, WriteObject, Link,
           Linked, LinkFails, RemoveObject, Fail
  <2> QED
    BY <1>0, <2>1, InsertType, Types DEF CacheType
<1>4. UNCHANGED <<pc, call, is_aot, crashes>>
  BY DEF TaskNext, Acquire, SkipZero, Lock, JitCompile, Translate, WriteObject, Link,
         Linked, LinkFails, RemoveObject, Fail
<1>5. permits' \in 0 .. pool_size
  <2>1. Cardinality(Holding') \in Nat
    BY TaskFinite, FS_CardinalityType DEF Holding
  <2> QED
    BY <1>1, <2>1, BalancedHoldingNext, PoolAssumption, SMTT(30)
<1> QED
  BY <1>1, <1>2, <1>3, <1>4, <1>5 DEF TypeOK, TasksType, StoreType, CacheType, TaskPc

\* The types, given that the permits stay balanced.
LEMMA TypeStep == ASSUME TypeOK, Next, PermitsBalanced' PROVE TypeOK'
<1>1. ASSUME NEW p \in Caller, NEW c \in Code, FrameCall(p, c) PROVE TypeOK'
  BY <1>1 DEF TypeOK, FrameCall, Goto
<1>2. ASSUME NEW p \in Caller, NEW c \in Code, Block(p, c) PROVE TypeOK'
  <2>1. TasksType'
    BY <1>2, SpawnType, Types DEF Block
  <2>2. /\ pc' \in [Caller -> {"idle", "join", "get", "exists", "load", "insert", "notfound"}]
        /\ call' \in [Caller -> [code : Code, task : Task \cup {NoTask}]]
    BY <1>2, SMTT(30) DEF TypeOK, Block, Goto
  <2>3. UNCHANGED <<permits, compiler, cache, store, is_aot, crashes>>
    BY <1>2 DEF Block
  <2> QED
    BY <2>1, <2>2, <2>3 DEF TypeOK, TasksType, TaskPc
<1>3. ASSUME NEW p \in Caller, CallerNext(p) PROVE TypeOK'
  <2>0. call[p].code \in Code
    BY <1>3 DEF TypeOK
  <2>1. CASE Join(p) \/ CacheGet(p) \/ TryExists(p) \/ Load(p)
    BY <2>1 DEF TypeOK, Join, CacheGet, TryExists, Load, Goto
  <2>2. CASE CacheInsert(p)
    BY <2>0, <2>2, SMTT(30) DEF TypeOK, CacheInsert, Goto, Insert
  <2>3. CASE NotFound(p)
    <3>1. TasksType'
      <4>1. tasks' = tasks \/ \E t \in Task : Spawn(call[p].code, t)
        BY <2>3 DEF NotFound
      <4> QED
        BY <2>0, <4>1, SpawnType, Types DEF TasksType
    <3>2. pc' \in [Caller -> {"idle", "join", "get", "exists", "load", "insert", "notfound"}]
      BY <2>3 DEF TypeOK, NotFound, Goto
    <3>3. UNCHANGED <<call, permits, compiler, cache, store, is_aot, crashes>>
      BY <2>3 DEF NotFound
    <3> QED
      BY <3>1, <3>2, <3>3 DEF TypeOK, TasksType, TaskPc
  <2> QED
    BY <1>3, <2>1, <2>2, <2>3 DEF CallerNext
<1>4. ASSUME NEW t \in Task, TaskNext(t) PROVE TypeOK'
  BY <1>4, TaskTypeStep
<1>5. CASE Crash
  BY <1>5, FS_EmptySet, PoolAssumption, SMTT(30) DEF TypeOK, Crash, Dormant, NoTask
<1> QED
  BY <1>1, <1>2, <1>3, <1>4, <1>5 DEF Next

\* Every step keeps the invariant.
LEMMA StepIInv == ASSUME IInv, [Next]_vars PROVE IInv'
<1>1. ASSUME NEW p \in Caller, NEW c \in Code, FrameCall(p, c) \/ Block(p, c)
      PROVE  Untyped'
  BY <1>1, CallFrame, SpawnsUntyped DEF IInv
<1>2. ASSUME NEW p \in Caller, CallerNext(p) PROVE Untyped'
  BY <1>2, CallFrame, SpawnsUntyped DEF IInv
<1>3. ASSUME NEW t \in Task, TaskNext(t) PROVE Untyped'
  BY <1>3, EnterUntyped, LinkUntyped, FinishUntyped DEF TaskNext
<1>4. CASE Next
  <2>1. Untyped'
    BY <1>1, <1>2, <1>3, <1>4, CrashUntyped DEF Next
  <2>2. TypeOK'
    BY <1>4, <2>1, TypeStep DEF IInv, Untyped
  <2> QED
    BY <2>1, <2>2 DEF IInv, Untyped
<1>5. CASE UNCHANGED vars
  <2>1. Untyped'
    BY <1>5, SpawnsUntyped DEF vars, Spawns
  <2>2. TypeOK'
    BY <1>5 DEF IInv, TypeOK, vars
  <2> QED
    BY <2>1, <2>2 DEF IInv, Untyped
<1> QED
  BY <1>4, <1>5

\* The invariant holds in every state of every behaviour.
THEOREM Invariance == Spec => []IInv
BY InitIInv, StepIInv, PTL DEF Spec

(***************************************************************************)
(* The types of the compile worker.                                        *)
(***************************************************************************)
THEOREM TypeCorrect == Spec => []TypeOK
BY Invariance, PTL DEF IInv

(***************************************************************************)
(* The permits of the pool are those its tasks do not hold: no error path  *)
(* of a task loses a permit or returns one twice.                          *)
(***************************************************************************)
THEOREM PoolBalanced == Spec => []PermitsBalanced
BY Invariance, PTL DEF IInv

(***************************************************************************)
(* A task that links or deletes an object still finds it, however many     *)
(* tasks compile the same contract.                                        *)
(***************************************************************************)
THEOREM ObjectsKept == Spec => []ObjectKept
BY Invariance, PTL DEF IInv

(***************************************************************************)
(* Incomplete libraries that nobody is linking come from crashes only, and *)
(* a crash leaves at most one.                                             *)
(***************************************************************************)
THEOREM OrphansFromCrashes == Spec => []OrphansBounded
<1>1. IInv => OrphansBounded
  BY DEF IInv, OrphansInv, Orphans, IsLinking, OrphansBounded
<1> QED
  BY <1>1, Invariance, PTL
=============================================================================
