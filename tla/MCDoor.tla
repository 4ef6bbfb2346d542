------------------------------ MODULE MCDoor ------------------------------
(***************************************************************************)
(* Door for TLC.                                                           *)
(***************************************************************************)
EXTENDS Door
=============================================================================
