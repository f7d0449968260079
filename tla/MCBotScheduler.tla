---------------------------- MODULE MCBotScheduler ----------------------------
(* BotScheduler on small instances: TLC's constants only. *)
EXTENDS BotScheduler
=============================================================================
