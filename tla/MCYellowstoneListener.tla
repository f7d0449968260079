------------------------ MODULE MCYellowstoneListener ------------------------
(* TLC's instances of YellowstoneListener. *)
EXTENDS YellowstoneListener, TLC
=============================================================================
