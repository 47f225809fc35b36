-------------------------------- MODULE Block --------------------------------
(***************************************************************************)
(* The transactions of a block, by their index (TxIdx of                   *)
(* crates/pe/src/types.rs).  `execute' returns at once on an empty block.  *)
(***************************************************************************)
EXTENDS Integers

CONSTANT block_size   \* the number of transactions of the block

ASSUME BlockSizeAssumption == block_size \in Nat \ {0}

Tx == 0 .. block_size - 1
=============================================================================
