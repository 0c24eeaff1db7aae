------------------------------ MODULE MCServing ------------------------------
(***************************************************************************)
(* An instance of Serving for TLC: certificates and counts are numbers, so *)
(* the configuration gives every constant its value.                       *)
(***************************************************************************)
EXTENDS Serving
=============================================================================
