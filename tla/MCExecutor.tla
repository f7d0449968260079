------------------------------ MODULE MCExecutor ------------------------------
(***************************************************************************)
(* Executor over two plans.                                                *)
(***************************************************************************)
EXTENDS Executor

CONSTANTS k1, k2

MCKeys == {k1, k2}
=============================================================================
