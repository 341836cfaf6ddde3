------------------------------ MODULE MCCfgMgr ------------------------------
(* Bounds for the configuration manager: an alarm and a channel with two   *)
(* settings each, both threads that update, one client, and revisions up   *)
(* to 2, so that an update follows one whose save failed or was undone.    *)
EXTENDS CfgMgr

MCItems    == {"alarm", "channel"}
MCSettings == {"low", "high"}
MCThreads  == {"web", "main"}
=============================================================================
