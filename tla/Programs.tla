------------------------------- MODULE Programs --------------------------------
(***************************************************************************)
(* The programs around the parallel executor: the node, which executes a   *)
(* block (ParallelBlockExecutor.tla), and the command line tools of        *)
(* crates/tools: blockfetch and blocktest (BlockFixtures.tla), ethertest   *)
(* and eelstest (StateTests.tla).                                          *)
(***************************************************************************)
EXTENDS ParallelBlockExecutor, BlockFixtures, StateTests

VARIABLE program

vars == <<program, blockVars, fixtureVars, stateTestVars>>

Init ==
  /\ program \in {"node", "blocks", "ethertest", "eelstest"}
  /\ BlockExecutorInit
  /\ program # "node" => block = CHOOSE b \in BlockInputs : TRUE
  /\ FixturesInit
  /\ StateTestsInit(CASE program = "ethertest" -> EtherRuns
                      [] program = "eelstest" -> EelsRuns
                      [] OTHER -> {<<>>})

\* Every run of the tools has ended.
Exited ==
  /\ \/ /\ program = "blocks"
        /\ fetch = NoFetch /\ fetches = MaxFetches
        /\ test.phase \in {"ok", "panicked"} /\ tests = MaxTests
     \/ exit # "running"
  /\ UNCHANGED vars

Next ==
  \/ /\ program = "node" /\ BlockExecutorNext
     /\ UNCHANGED <<program, fixtureVars, stateTestVars>>
  \/ /\ program = "blocks" /\ FixturesNext
     /\ UNCHANGED <<program, blockVars, stateTestVars>>
  \/ /\ \/ program = "ethertest" /\ EtherNext
        \/ program = "eelstest" /\ EelsNext
     /\ UNCHANGED <<program, blockVars, fixtureVars>>
  \/ Exited

Spec == Init /\ [][Next]_vars

(***************************************************************************)
(* Whether ethertest or eelstest ends well depends on the files and not on *)
(* how the thread pool schedules the jobs of a file: it does exactly when  *)
(* every case that is neither skipped nor behind an early return passes on *)
(* the untouched state of its suite.                                       *)
(***************************************************************************)
ExitVerdict ==
  /\ program = "ethertest" => ExitIs(EtherClean)
  /\ program = "eelstest" => ExitIs(EelsClean)
=============================================================================
