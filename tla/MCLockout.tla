----------------------------- MODULE MCLockout -----------------------------
(***************************************************************************)
(* Lockout for TLC.  The operations are the program's; runs take some.     *)
(***************************************************************************)
EXTENDS Lockout

RegisterDelete == {"register", "delete"}
DeleteOnly == {"delete"}
=============================================================================
