----------------------------- MODULE MCActions -----------------------------
(***************************************************************************)
(* Actions for model checking: x and y can be carried out, z is refused.   *)
(***************************************************************************)
EXTENDS Actions

CONSTANTS x, y, z
=============================================================================
