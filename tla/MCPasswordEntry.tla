-------------------------- MODULE MCPasswordEntry --------------------------
(***************************************************************************)
(* PasswordEntry for TLC: two digits, passwords of up to three.            *)
(***************************************************************************)
EXTENDS PasswordEntry

TwoDigits == {"1", "2"}
=============================================================================
