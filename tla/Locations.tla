------------------------------- MODULE Locations ------------------------------
(***************************************************************************)
(* The memory locations a block touches (LocationHash of                   *)
(* crates/pe/src/types.rs) and the chain state below it, the DatabaseRef   *)
(* that `execute' is given.  Amounts stand for balances, storage words and *)
(* code hashes.                                                            *)
(***************************************************************************)
EXTENDS Integers

CONSTANTS
  Loc,       \* the location hashes of the block
  CodeLoc,   \* those of code hashes
  storage    \* [Loc -> Int]: the chain state before the block

ASSUME LocationAssumption == CodeLoc \subseteq Loc /\ storage \in [Loc -> Int]
=============================================================================
