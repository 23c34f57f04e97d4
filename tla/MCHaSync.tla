------------------------------ MODULE MCHaSync ------------------------------
(***************************************************************************)
(* HaSync for model checking; the nodes are model values.                  *)
(***************************************************************************)
EXTENDS HaSync

CONSTANTS a, b
=============================================================================
