-------------------------- MODULE MCPluginLifecycle --------------------------
(***************************************************************************)
(* PluginLifecycle for TLC: one configured and one dynamic room, and a     *)
(* second start so that what the first left behind would show.             *)
(***************************************************************************)
EXTENDS PluginLifecycle
=============================================================================
