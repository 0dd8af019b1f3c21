---------------------------- MODULE MCInjections ----------------------------
(* Injections on a small instance: ids and contents are model values.       *)
EXTENDS Injections
=============================================================================
