------------------------------ MODULE StateTests ------------------------------
(***************************************************************************)
(* metis-ethertest and metis-eelstest (crates/tools/bins).  Both run the   *)
(* test files one after the other; the parts of one file are jobs of a     *)
(* thread pool: a hard fork of a suite in ethertest, whose cases run in    *)
(* order, and a case in eelstest, which inserts blocks and executes them.  *)
(* A failed check is a panic in ethertest, and an error or a panic in      *)
(* eelstest.                                                               *)
(*                                                                         *)
(* A panic or an error of one job may keep the pool from starting others,  *)
(* so the order of the jobs decides which checks are made.  What a case    *)
(* would come to when it is checked is part of its description.            *)
(***************************************************************************)
EXTENDS Integers, Sequences

CONSTANTS
  EtherRuns,  \* runs of ethertest: sequences of files [skip, parses, jobs], with
              \* a job [suite, spec_name, cases] and a case [typed, expect_exception,
              \* result, logs_root, accounts, state_root]
  EelsRuns    \* runs of eelstest: sequences of files [parses, jobs], with a job
              \* [network, skip, blocks, executes, post]

VARIABLES
  tests_of,     \* the files of the run
  at,           \* the file that is executed, or the one after the last
  jobs,         \* the jobs of that file: [pc, next]; empty between two files
  cache_state,  \* of each suite: how many transactions were committed to it
  total_errors, \* whether a file was an error
  exit          \* "running", "ok", "failed" (exit code 1) or "panicked"

stateTestVars == <<tests_of, at, jobs, cache_state, total_errors, exit>>

StateTestsInit(runs) ==
  /\ tests_of \in runs
  /\ at = 1 /\ jobs = <<>> /\ cache_state = <<>>
  /\ total_errors = FALSE /\ exit = "running"

file == tests_of[at]
Between == exit = "running" /\ jobs = <<>>
Job(pc, next) == [pc |-> pc, next |-> next]
SetJob(j, pc, next) == jobs' = [jobs EXCEPT ![j] = Job(pc, next)]

\* execute_test returns to the loop of main.
NextFile(failed) ==
  /\ at' = at + 1 /\ jobs' = <<>> /\ cache_state' = <<>>
  /\ total_errors' = (total_errors \/ failed)
  /\ UNCHANGED <<tests_of, exit>>

StartJobs(suites) ==
  /\ jobs' = [j \in DOMAIN file.jobs |-> Job("pending", 1)]
  /\ cache_state' = [s \in suites |-> 0]
  /\ UNCHANGED <<tests_of, at, total_errors, exit>>

MainResult == IF total_errors THEN "failed" ELSE "ok"

MainEnds ==
  /\ Between /\ at > Len(tests_of)
  /\ exit' = MainResult
  /\ UNCHANGED <<tests_of, at, jobs, cache_state, total_errors>>

Panicked == \E j \in DOMAIN jobs : jobs[j].pc = "panicked"
Failed == \E j \in DOMAIN jobs : jobs[j].pc = "failed"

\* rayon: after a panic or an error a job that has not started may be dropped.
DropJob(j) ==
  /\ jobs[j].pc = "pending" /\ (Panicked \/ Failed)
  /\ SetJob(j, "dropped", 1)
  /\ UNCHANGED <<tests_of, at, cache_state, total_errors, exit>>

\* for_each and try_for_each end when every job has; join().unwrap() in main.
JoinJobs ==
  /\ jobs # <<>>
  /\ \A j \in DOMAIN jobs : jobs[j].pc \in {"done", "failed", "panicked", "dropped"}
  /\ IF Panicked
     THEN /\ exit' = "panicked" /\ jobs' = <<>>
          /\ UNCHANGED <<tests_of, at, cache_state, total_errors>>
     ELSE NextFile(Failed)

-----------------------------------------------------------------------------
\* ethertest: should_skip, a file that does not parse, or the jobs of the file.
OpenEther ==
  /\ Between /\ at <= Len(tests_of)
  /\ \/ (file.skip \/ ~file.parses \/ file.jobs = <<>>) /\ NextFile(~file.skip /\ ~file.parses)
     \/ /\ ~file.skip /\ file.parses /\ file.jobs # <<>>
        /\ StartJobs({file.jobs[j].suite : j \in DOMAIN file.jobs})

\* The names for which to_spec_id panics.
NoSpecId == {"ByzantiumToConstantinopleAt5", "Constantinople", "Unknown"}

StartSpec(j) ==
  LET spec_name == file.jobs[j].spec_name
  IN  /\ jobs[j].pc = "pending"
      /\ SetJob(j, IF spec_name = "Constantinople" THEN "done"
                   ELSE IF spec_name \in NoSpecId THEN "panicked" ELSE "cases", 1)
      /\ UNCHANGED <<tests_of, at, cache_state, total_errors, exit>>

(***************************************************************************)
(* One case on a state: on to the next case, return from the hard fork, or *)
(* panic.  On a state that has the transaction already it is an error (its *)
(* nonce).                                                                 *)
(***************************************************************************)
CheckCase(case, state) ==
  LET result == IF state = 0 THEN case.result ELSE "error"
      passes == IF result = "error" THEN case.expect_exception
                ELSE /\ ~(case.expect_exception /\ result = "success")
                     /\ case.logs_root /\ case.accounts # "differ" /\ case.state_root
  IN  IF ~case.typed THEN (IF case.expect_exception THEN "return" ELSE "panic")
      ELSE IF passes THEN "next" ELSE "panic"

\* Variant: the cases of a suite share its state.
ShareState(state, committed) == state + committed

\* Every case runs on a clone of cache_state.
CloneState(state, committed) == state

RunCase(j) ==
  LET job     == file.jobs[j]
      i       == jobs[j].next
      verdict == CheckCase(job.cases[i], cache_state[job.suite])
  IN  /\ jobs[j].pc = "cases" /\ i <= Len(job.cases)
      /\ SetJob(j, CASE verdict = "next" -> "cases"
                     [] verdict = "return" -> "done"
                     [] verdict = "panic" -> "panicked", i + 1)
      /\ cache_state' = [cache_state EXCEPT ![job.suite] =
                           CloneState(@, IF verdict = "next" THEN 1 ELSE 0)]
      /\ UNCHANGED <<tests_of, at, total_errors, exit>>

EndSpec(j) ==
  /\ jobs[j].pc = "cases" /\ jobs[j].next > Len(file.jobs[j].cases)
  /\ SetJob(j, "done", jobs[j].next)
  /\ UNCHANGED <<tests_of, at, cache_state, total_errors, exit>>

EtherNext ==
  \/ OpenEther \/ JoinJobs \/ MainEnds
  \/ \E j \in DOMAIN jobs : StartSpec(j) \/ RunCase(j) \/ EndSpec(j) \/ DropJob(j)

-----------------------------------------------------------------------------
\* The forks whose cases are left out, and those without a ChainSpec.
FilteredForks ==
  {"ByzantiumToConstantinopleAt5", "Frontier", "Homestead", "Byzantium", "Istanbul", "Berlin",
   "London", "Constantinople", "ConstantinopleFix", "MergeEOF", "MergeMeterInitCode",
   "MergePush0", "Shanghai", "Unknown"}

NoChainSpec == {"ByzantiumToConstantinopleAt5", "Constantinople", "Unknown"}

\* eelstest: a file that does not parse, or its cases but those filtered out.
OpenEels ==
  /\ Between /\ at <= Len(tests_of)
  /\ \/ (~file.parses \/ file.jobs = <<>>) /\ NextFile(~file.parses)
     \/ /\ file.parses /\ file.jobs # <<>>
        /\ jobs' = [j \in DOMAIN file.jobs |->
                      Job(IF file.jobs[j].network \in FilteredForks THEN "done" ELSE "pending", 1)]
        /\ UNCHANGED <<tests_of, at, cache_state, total_errors, exit>>

\* A provider of its own with the genesis block and the accounts of the case.
StartCase(j) ==
  /\ jobs[j].pc = "pending"
  /\ SetJob(j, IF file.jobs[j].skip THEN "done"
               ELSE IF file.jobs[j].network \in NoChainSpec THEN "panicked" ELSE "blocks", 1)
  /\ UNCHANGED <<tests_of, at, cache_state, total_errors, exit>>

\* Decoding fails with an error, recovering the senders with a panic.
InsertBlock(j) ==
  LET i     == jobs[j].next
      block == file.jobs[j].blocks[i]
  IN  /\ jobs[j].pc = "blocks" /\ i <= Len(file.jobs[j].blocks)
      /\ SetJob(j, CASE block = "valid" -> "blocks"
                     [] block = "undecodable" -> "failed"
                     [] block = "unrecoverable" -> "panicked", i + 1)
      /\ UNCHANGED <<tests_of, at, cache_state, total_errors, exit>>

ExecuteStage(j) ==
  /\ jobs[j].pc = "blocks" /\ jobs[j].next > Len(file.jobs[j].blocks)
  /\ SetJob(j, IF file.jobs[j].executes THEN "validate" ELSE "failed", 1)
  /\ UNCHANGED <<tests_of, at, cache_state, total_errors, exit>>

\* assert_db: an account that differs is a panic, one that is absent an error.  A
\* hash of the state is not compared; neither accounts nor hash is an error.
ValidatePost(j) ==
  /\ jobs[j].pc = "validate"
  /\ SetJob(j, CASE file.jobs[j].post \in {"match", "hash"} -> "done"
                 [] file.jobs[j].post \in {"absent", "none"} -> "failed"
                 [] file.jobs[j].post = "differ" -> "panicked", 1)
  /\ UNCHANGED <<tests_of, at, cache_state, total_errors, exit>>

EelsNext ==
  \/ OpenEels \/ JoinJobs \/ MainEnds
  \/ \E j \in DOMAIN jobs :
       StartCase(j) \/ InsertBlock(j) \/ ExecuteStage(j) \/ ValidatePost(j) \/ DropJob(j)

-----------------------------------------------------------------------------
\* The cases of job j of ethertest's file f that are executed when nothing fails:
\* up to one with an invalid transaction type, if that was expected.
Reached(f, j) ==
  {i \in DOMAIN f.jobs[j].cases :
     \A k \in 1 .. i - 1 : CheckCase(f.jobs[j].cases[k], 0) # "return"}

EtherClean(f) ==
  \/ f.skip
  \/ /\ f.parses
     /\ \A j \in DOMAIN f.jobs : f.jobs[j].spec_name # "Constantinople" =>
          /\ f.jobs[j].spec_name \notin NoSpecId
          /\ \A i \in Reached(f, j) : CheckCase(f.jobs[j].cases[i], 0) # "panic"

EelsClean(f) ==
  /\ f.parses
  /\ \A j \in DOMAIN f.jobs : f.jobs[j].network \notin FilteredForks /\ ~f.jobs[j].skip =>
       /\ \A i \in DOMAIN f.jobs[j].blocks : f.jobs[j].blocks[i] = "valid"
       /\ f.jobs[j].executes
       /\ f.jobs[j].post \in {"match", "hash"}

(***************************************************************************)
(* The exit status does not depend on how the pool schedules the jobs: the *)
(* run ends well exactly when every file is clean, each case taken by      *)
(* itself on the state of its suite.  clean is EtherClean or EelsClean.    *)
(***************************************************************************)
ExitIs(clean(_)) ==
  exit # "running" => (exit = "ok") = \A f \in {tests_of[i] : i \in DOMAIN tests_of} : clean(f)
=============================================================================
