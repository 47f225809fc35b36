-------------------------- MODULE MCParallelExecutor --------------------------
(***************************************************************************)
(* Instances of ParallelExecutor.tla for TLC: two accounts or slots a and  *)
(* b, a contract's code hash code, and the beneficiary ben.  Every         *)
(* transaction pays the beneficiary, as apply_rewards makes it.            *)
(***************************************************************************)
EXTENDS ParallelExecutor, TLC

CONSTANTS a, b, code, ben

MCLoc == {a, b, code, ben}
MCCodeLoc == {code}
MCStorage == [l \in MCLoc |-> 0]

Reward == ben :> Write("Lazy", 1)

Program(reads, need, onZero, otherwise) ==
  [reads |-> reads, need |-> need,
   onZero |-> onZero @@ Reward, otherwise |-> otherwise @@ Reward]

Simple(reads, writes) == Program(reads, 0, writes, writes)

To(l) == l :> Write("Absolute", 1)

Increment == Simple(<<a>>, To(a))
Copy      == Simple(<<a>>, To(b))
Branch    == Program(<<a>>, 0, To(b), To(a))
Twice     == Simple(<<a, a>>, To(b))
Spend     == Program(<<b>>, 1, To(b), To(b))
Balance   == Simple(<<ben>>, To(a))
Deploy    == Simple(<<>>, To(code))
Destroy   == Simple(<<>>, code :> Write("SelfDestructed", 0))
CallCode  == Simple(<<code, b>>, To(a))

MCBlock(p0, p1, p2) == (0 :> p0) @@ (1 :> p1) @@ (2 :> p2)

\* Conflicting reads and writes, and write sets that move between incarnations.
ConflictBlocks == {MCBlock(Increment, Branch, Twice), MCBlock(Balance, Increment, Balance)}

\* A transaction that is affordable only after a lower one, and one that never is.
FundBlocks == {MCBlock(Increment, Copy, Spend), MCBlock(Spend, Increment, Copy)}

\* Code hashes: deployment, and self-destruction that forces the fallback.
CodeBlocks == {MCBlock(Deploy, CallCode, Balance), MCBlock(Deploy, Destroy, CallCode)}

\* A third transaction whose sender can never pay, after two that do not help.
UnaffordableBlocks == {MCBlock(Increment, Copy, Program(<<b>>, 9, To(b), To(b)))}

\* Blocks for the liveness run: blocking, retry, a late fund and the fallback.
LiveBlocks == {MCBlock(Increment, Copy, Spend), MCBlock(Deploy, Destroy, CallCode)}

MCBlocks == ConflictBlocks \cup FundBlocks \cup CodeBlocks

ThreadSymmetry == Permutations(Threads)
=============================================================================
