------------------------------ MODULE MCScreen ------------------------------
(***************************************************************************)
(* The display as it is: the model is finite and has no parameters.        *)
(***************************************************************************)
EXTENDS Screen
=============================================================================
