--------------------------- MODULE MCPluginRuntime ---------------------------
(* A small instance of PluginRuntime for TLC.                              *)
EXTENDS PluginRuntime

(* Every command, a change of the folder by hand and a restart.            *)
AllCommands == {"activate", "deactivate", "install", "remove", "rescan", "drop", "restart"}

=============================================================================
