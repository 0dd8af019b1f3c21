---------------------------- MODULE MCPluginHost ----------------------------
(* The plugin host with two sessions over a process plugin, a session plugin *)
(* and two run plugins.                                                      *)
EXTENDS PluginHost

CONSTANTS p, s, r1, r2

MCPlan  == <<p, s, r1, r2>>
MCScope == (p :> "process") @@ (s :> "session") @@ (r1 :> "run") @@ (r2 :> "run")

=============================================================================
