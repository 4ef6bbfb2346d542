---------------------------- MODULE MCCardReader ----------------------------
(***************************************************************************)
(* Three cards, two threads.                                               *)
(***************************************************************************)
EXTENDS CardReader
=============================================================================
