---------------------------- MODULE MCTxQueueFile ----------------------------
(* TxQueueFile on small instances: TLC's constants only. *)
EXTENDS TxQueueFile, TLC

\* Inodes are interchangeable in the safety runs.
Symmetry == Permutations(Inodes)
=============================================================================
