---------------------------- MODULE MCOpExecutor ------------------------------
(***************************************************************************)
(* Two threads and all blocks of up to two transactions.                   *)
(***************************************************************************)
EXTENDS OpExecutor

MCTx == [kind : {"plain", "deposit"}, check : {"ok", "low", "wait"},
         contract : {"none", "destroys", "calls"}]

MCBlocks == UNION {[0 .. n - 1 -> MCTx] : n \in 0 .. 2}
=============================================================================
