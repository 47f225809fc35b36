---------------------------- MODULE CompileWorker -----------------------------
(***************************************************************************)
(* The compile worker (crates/vm/src/compiler.rs, crates/vm/src/pool.rs):  *)
(* callers look a contract's native code up, in the memory cache and, in   *)
(* AOT mode, in the library store on disk; a miss spawns a compile task on *)
(* the runtime.  Tasks take a permit of the pool's semaphore, then the     *)
(* mutex of the compiler, and write <hash>/a.o, link <hash>/a.so and       *)
(* delete <hash>/a.o again.  The store outlives a crash of the process.    *)
(*                                                                         *)
(* The linker and the loader are outside the source: linking makes a.so    *)
(* appear before it is complete, a link that fails leaves no a.so, and     *)
(* only a complete a.so can be loaded.  The pool's threshold has no        *)
(* counterpart: nothing reads it.                                          *)
(***************************************************************************)
EXTENDS Integers, FiniteSets

CONSTANTS
  Caller,       \* threads that run frame_call or block
  Code,         \* the code hashes
  ZeroHash,     \* the hash that is never compiled
  pool_size,    \* max_concurrent_tasks
  cache_size,
  MaxTasks,     \* bound on the tasks one process spawns
  MaxCrashes    \* bound on the crashes

ASSUME PoolAssumption ==
  /\ pool_size \in Nat \ {0} /\ cache_size \in Nat /\ MaxTasks \in Nat /\ MaxCrashes \in Nat
  /\ ZeroHash \in Code

Task == 1 .. MaxTasks
NoTask == 0

VARIABLES
  pc,         \* [Caller -> where it is]
  call,       \* [Caller -> [code, task]]: task is what block waits for
  tasks,      \* [Task -> [pc, code]]
  permits,    \* free permits of the semaphore
  compiler,   \* the task that holds the compiler's mutex, or NoTask
  cache,      \* the code hashes in the memory cache
  store,      \* [Code -> [obj, so]]: a.o exists; a.so is absent, partial, complete
  is_aot,     \* the mode of the worker, chosen when it is built
  crashes

vars == <<pc, call, tasks, permits, compiler, cache, store, is_aot, crashes>>

Dormant == [pc |-> "none", code |-> ZeroHash]

Init ==
  /\ pc = [p \in Caller |-> "idle"]
  /\ call = [p \in Caller |-> [code |-> ZeroHash, task |-> NoTask]]
  /\ tasks = [t \in Task |-> Dormant]
  /\ permits = pool_size
  /\ compiler = NoTask
  /\ cache = {}
  /\ store = [c \in Code |-> [obj |-> FALSE, so |-> "absent"]]
  /\ is_aot \in BOOLEAN
  /\ crashes = 0

-----------------------------------------------------------------------------
Goto(p, from, to) == pc[p] = from /\ pc' = [pc EXCEPT ![p] = to]

\* moka decides what it keeps.
Insert(c) == \E kept \in SUBSET (cache \cup {c}) :
  Cardinality(kept) <= cache_size /\ cache' = kept

\* CompilePool::spawn: a task on the runtime, in the order of the calls.
Spawn(c, t) ==
  /\ tasks[t].pc = "none" /\ \A u \in 1 .. t - 1 : tasks[u].pc # "none"
  /\ tasks' = [tasks EXCEPT ![t] = [pc |-> "acquire", code |-> c]]

\* frame_call of a contract with the code hash c.
FrameCall(p, c) ==
  /\ Goto(p, "idle", "get")
  /\ call' = [call EXCEPT ![p] = [code |-> c, task |-> NoTask]]
  /\ UNCHANGED <<tasks, permits, compiler, cache, store, is_aot, crashes>>

\* ExtCompileWorker::block: spawn, wait for the task, look up.
Block(p, c) ==
  /\ Goto(p, "idle", "join")
  /\ \E t \in Task : /\ Spawn(c, t)
                     /\ call' = [call EXCEPT ![p] = [code |-> c, task |-> t]]
  /\ UNCHANGED <<permits, compiler, cache, store, is_aot, crashes>>

Join(p) ==
  /\ Goto(p, "join", "get")
  /\ tasks[call[p].task].pc = "done"
  /\ UNCHANGED <<call, tasks, permits, compiler, cache, store, is_aot, crashes>>

\* get_function: the memory cache; only AOT looks further.
CacheGet(p) ==
  LET c == call[p].code
  IN  /\ Goto(p, "get", CASE c = ZeroHash -> "notfound"
                          [] c # ZeroHash /\ c \in cache -> "idle"
                          [] OTHER -> IF is_aot THEN "exists" ELSE "notfound")
      /\ UNCHANGED <<call, tasks, permits, compiler, cache, store, is_aot, crashes>>

TryExists(p) ==
  /\ Goto(p, "exists", IF store[call[p].code].so = "absent" THEN "notfound" ELSE "load")
  /\ UNCHANGED <<call, tasks, permits, compiler, cache, store, is_aot, crashes>>

\* Library::new and the lookup of the symbol; an error falls back to the interpreter.
Load(p) ==
  /\ Goto(p, "load", IF store[call[p].code].so = "complete" THEN "insert" ELSE "idle")
  /\ UNCHANGED <<call, tasks, permits, compiler, cache, store, is_aot, crashes>>

CacheInsert(p) ==
  /\ Goto(p, "insert", "idle")
  /\ Insert(call[p].code)
  /\ UNCHANGED <<call, tasks, permits, compiler, store, is_aot, crashes>>

\* Variant: a miss does not spawn.
NotFoundDropped(p) ==
  /\ Goto(p, "notfound", "idle")
  /\ UNCHANGED <<call, tasks, permits, compiler, cache, store, is_aot, crashes>>

(***************************************************************************)
(* NotFound: frame_call spawns a task, does not wait for it and runs the   *)
(* interpreter; block returns.                                             *)
(***************************************************************************)
NotFound(p) ==
  /\ Goto(p, "notfound", "idle")
  /\ IF call[p].task = NoTask
     THEN \E t \in Task : Spawn(call[p].code, t)
     ELSE UNCHANGED tasks
  /\ UNCHANGED <<call, permits, compiler, cache, store, is_aot, crashes>>

-----------------------------------------------------------------------------
Step(t, from, to) == tasks[t].pc = from /\ tasks' = [tasks EXCEPT ![t].pc = to]

SetStore(c, obj, so) == store' = [store EXCEPT ![c] = [obj |-> obj, so |-> so]]

\* The task returns, Ok or Err: it drops the guard, if it has it, and the permit.
Finish(t, from) ==
  /\ Step(t, from, "done")
  /\ permits' = permits + 1
  /\ compiler' = IF compiler = t THEN NoTask ELSE compiler

\* Variant: no permit is awaited.
AcquireUnchecked(t) ==
  /\ Step(t, "acquire", "permit")
  /\ permits' = permits - 1
  /\ UNCHANGED <<pc, call, compiler, cache, store, is_aot, crashes>>

Acquire(t) ==
  /\ permits > 0
  /\ Step(t, "acquire", "permit")
  /\ permits' = permits - 1
  /\ UNCHANGED <<pc, call, compiler, cache, store, is_aot, crashes>>

SkipZero(t) ==
  /\ tasks[t].code = ZeroHash
  /\ Finish(t, "permit")
  /\ UNCHANGED <<pc, call, cache, store, is_aot, crashes>>

\* Variant: a compiler per task instead of the mutex.
LockShared(t) ==
  /\ tasks[t].code # ZeroHash
  /\ Step(t, "permit", IF is_aot THEN "translate" ELSE "jit")
  /\ compiler' = t
  /\ UNCHANGED <<pc, call, permits, cache, store, is_aot, crashes>>

\* Variant: a mutex per contract.
LockPerCode(t) ==
  /\ tasks[t].code # ZeroHash
  /\ ~\E u \in Task : /\ tasks[u].pc \in {"translate", "write", "link", "linking", "remove", "jit"}
                     /\ tasks[u].code = tasks[t].code
  /\ Step(t, "permit", IF is_aot THEN "translate" ELSE "jit")
  /\ compiler' = t
  /\ UNCHANGED <<pc, call, permits, cache, store, is_aot, crashes>>

Lock(t) ==
  /\ tasks[t].code # ZeroHash
  /\ compiler = NoTask
  /\ Step(t, "permit", IF is_aot THEN "translate" ELSE "jit")
  /\ compiler' = t
  /\ UNCHANGED <<pc, call, permits, cache, store, is_aot, crashes>>

JitCompile(t) ==
  /\ Finish(t, "jit")
  /\ Insert(tasks[t].code) \/ UNCHANGED cache
  /\ UNCHANGED <<pc, call, store, is_aot, crashes>>

\* Variant: an early return keeps the permit.
FailLeak(t) ==
  /\ \E from \in {"translate", "write"} : Step(t, from, "done")
  /\ compiler' = NoTask
  /\ UNCHANGED <<pc, call, permits, cache, store, is_aot, crashes>>

\* aot_compile: translation, the directory or the object file fails.
Fail(t) ==
  /\ \E from \in {"translate", "write"} : Finish(t, from)
  /\ UNCHANGED <<pc, call, cache, store, is_aot, crashes>>

Translate(t) ==
  /\ Step(t, "translate", "write")
  /\ UNCHANGED <<pc, call, permits, compiler, cache, store, is_aot, crashes>>

WriteObject(t) ==
  LET c == tasks[t].code
  IN  /\ Step(t, "write", "link")
      /\ SetStore(c, TRUE, store[c].so)
      /\ UNCHANGED <<pc, call, permits, compiler, cache, is_aot, crashes>>

Link(t) ==
  LET c == tasks[t].code
  IN  /\ Step(t, "link", "linking")
      /\ SetStore(c, store[c].obj, "partial")
      /\ UNCHANGED <<pc, call, permits, compiler, cache, is_aot, crashes>>

Linked(t) ==
  LET c == tasks[t].code
  IN  /\ store[c].obj
      /\ Step(t, "linking", "remove")
      /\ SetStore(c, TRUE, "complete")
      /\ UNCHANGED <<pc, call, permits, compiler, cache, is_aot, crashes>>

\* External: what the linker makes of its output when it fails.  ld unlinks it.
LinkerLeaves == "absent"

\* The `?' on the link returns before remove_file, and leaves a.so as the linker did.
LinkFails(t) ==
  LET c == tasks[t].code
  IN  /\ Finish(t, "linking")
      /\ SetStore(c, store[c].obj, LinkerLeaves)
      /\ UNCHANGED <<pc, call, cache, is_aot, crashes>>

RemoveObject(t) ==
  LET c == tasks[t].code
  IN  /\ Finish(t, "remove")
      /\ SetStore(c, FALSE, store[c].so)
      /\ UNCHANGED <<pc, call, cache, is_aot, crashes>>

-----------------------------------------------------------------------------
\* The process dies and starts again: only the store is left.
Crash ==
  /\ crashes < MaxCrashes
  /\ crashes' = crashes + 1
  /\ pc' = [p \in Caller |-> "idle"]
  /\ call' = [p \in Caller |-> [code |-> ZeroHash, task |-> NoTask]]
  /\ tasks' = [t \in Task |-> Dormant]
  /\ permits' = pool_size
  /\ compiler' = NoTask
  /\ cache' = {}
  /\ UNCHANGED <<store, is_aot>>

CallerNext(p) == \/ Join(p) \/ CacheGet(p) \/ TryExists(p)
                 \/ Load(p) \/ CacheInsert(p) \/ NotFound(p)

TaskNext(t) == \/ Acquire(t) \/ SkipZero(t) \/ Lock(t) \/ JitCompile(t)
               \/ Translate(t) \/ WriteObject(t) \/ Link(t) \/ Linked(t)
               \/ LinkFails(t) \/ RemoveObject(t) \/ Fail(t)

\* The bound: a call may need a task that has not been spawned yet.
Pending == Cardinality({p \in Caller : pc[p] # "idle" /\ call[p].task = NoTask})
Spare == Cardinality({t \in Task : tasks[t].pc = "none"}) > Pending

Next ==
  \/ \E p \in Caller, c \in Code : Spare /\ (FrameCall(p, c) \/ Block(p, c))
  \/ \E p \in Caller : CallerNext(p)
  \/ \E t \in Task : TaskNext(t)
  \/ Crash

Spec == Init /\ [][Next]_vars

\* Threads and tasks of the runtime keep running; nobody has to call or to crash.
FairSpec ==
  /\ Spec
  /\ \A p \in Caller : WF_vars(CallerNext(p))
  /\ \A t \in Task : WF_vars(TaskNext(t))

-----------------------------------------------------------------------------
(***************************************************************************)
(* The types.                                                              *)
(***************************************************************************)
TypeOK ==
  /\ pc \in [Caller -> {"idle", "join", "get", "exists", "load", "insert", "notfound"}]
  /\ call \in [Caller -> [code : Code, task : Task \cup {NoTask}]]
  /\ tasks \in [Task -> [pc : {"none", "acquire", "permit", "translate", "jit", "write",
                               "link", "linking", "remove", "done"}, code : Code]]
  /\ permits \in 0 .. pool_size
  /\ compiler \in Task \cup {NoTask}
  /\ cache \subseteq Code /\ Cardinality(cache) <= cache_size
  /\ store \in [Code -> [obj : BOOLEAN, so : {"absent", "partial", "complete"}]]
  /\ is_aot \in BOOLEAN
  /\ crashes \in 0 .. MaxCrashes

Compiling == {"translate", "jit", "write", "link", "linking", "remove"}

(***************************************************************************)
(* However a task ends, it gives back exactly what it took: the permits in *)
(* use are those of the tasks between acquire and return.                  *)
(***************************************************************************)
PermitsBalanced ==
  permits + Cardinality({t \in Task : tasks[t].pc \in Compiling \cup {"permit"}})
    = pool_size

(***************************************************************************)
(* Tasks for the same contract share <hash>/a.o: the object a task wrote   *)
(* is still there when it links it and when it deletes it, so a duplicate  *)
(* task never makes link or remove_file fail.                              *)
(***************************************************************************)
ObjectKept ==
  \A t \in Task : tasks[t].pc \in {"link", "linking", "remove"} => store[tasks[t].code].obj

(***************************************************************************)
(* An incomplete a.so that no task is linking makes every later            *)
(* get_function of its contract fail, and nobody compiles it again.  If    *)
(* the linker removes what it could not complete (LinkerLeaves), no error  *)
(* path leaves one behind, and a crash at most one: one task at a time is  *)
(* linking, because it holds the compiler's mutex.                         *)
(***************************************************************************)
OrphansBounded ==
  Cardinality({c \in Code : /\ store[c].so = "partial"
                            /\ ~\E t \in Task : tasks[t].pc = "linking" /\ tasks[t].code = c})
    <= crashes

(***************************************************************************)
(* A contract that is looked up is compiled, or its compilation failed,    *)
(* unless the process crashes: no permit, mutex or spawn is lost.          *)
(***************************************************************************)
CalledIsCompiled ==
  \A c \in Code \ {ZeroHash} :
    (\E p \in Caller : pc[p] # "idle" /\ call[p].code = c) ~>
      \/ store[c].so = "complete"
      \/ crashes > 0
      \/ \E t \in Task : tasks[t].pc = "done" /\ tasks[t].code = c
=============================================================================
