----------------------------- MODULE MCBroadcast -----------------------------
(* TLC's instances of Broadcast. *)
EXTENDS Broadcast, TLC
=============================================================================
