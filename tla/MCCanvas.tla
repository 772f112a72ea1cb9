------------------------------ MODULE MCCanvas ------------------------------
(***************************************************************************)
(* The canvas for TLC, with the mutants of its definitions.                *)
(***************************************************************************)
EXTENDS Canvas
=============================================================================
