----------------------------- MODULE MCRunHandle -----------------------------
(* RunHandle on a small instance: see the bounds in MCRunHandle.cfg.         *)
EXTENDS RunHandle
=============================================================================
