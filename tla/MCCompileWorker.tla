--------------------------- MODULE MCCompileWorker ----------------------------
(***************************************************************************)
(* Instances of CompileWorker.tla for TLC.                                 *)
(***************************************************************************)
EXTENDS CompileWorker

CONSTANTS zero, c1, c2

MCCode == {zero, c1, c2}
=============================================================================
