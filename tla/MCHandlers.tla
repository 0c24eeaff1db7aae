----------------------------- MODULE MCHandlers -----------------------------
(***************************************************************************)
(* Instances of Handlers for TLC.                                          *)
(***************************************************************************)
EXTENDS Handlers, TLC

Symmetry == Permutations(Workers)
=============================================================================
