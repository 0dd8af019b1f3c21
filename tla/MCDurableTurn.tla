--------------------------- MODULE MCDurableTurn ----------------------------
(***************************************************************************)
(* DurableTurn for TLC.                                                    *)
(***************************************************************************)
EXTENDS DurableTurn

Symmetry == Permutations(Calls)
=============================================================================
