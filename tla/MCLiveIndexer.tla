---------------------------- MODULE MCLiveIndexer ----------------------------
(* TLC's instances of LiveIndexer. *)
EXTENDS LiveIndexer, TLC
=============================================================================
