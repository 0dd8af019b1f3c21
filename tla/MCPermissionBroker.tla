------------------------- MODULE MCPermissionBroker -------------------------
(* PermissionBroker with two requests, of which one offers no lasting grant. *)
EXTENDS PermissionBroker
=============================================================================
