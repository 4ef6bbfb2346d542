---------------------------- MODULE MCSoftTimer ----------------------------
(***************************************************************************)
(* Two operations; the tick is a number below W.                           *)
(***************************************************************************)
EXTENDS SoftTimer
=============================================================================
