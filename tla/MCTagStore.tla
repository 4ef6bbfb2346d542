----------------------------- MODULE MCTagStore -----------------------------
(***************************************************************************)
(* TagStore for TLC: a few slots.  The tags share bytes with each other    *)
(* and with the cleared slot, so that half-written slots can look like     *)
(* other tags.                                                             *)
(***************************************************************************)
EXTENDS TagStore

MkTag(a, b, c, d) == [n \in TagByte |-> <<a, b, c, d>>[n + 1]]

TwoCards == {MkTag(0, 0, 0, 0), MkTag(0, 1, 0, 1)}
ThreeCards == TwoCards \cup {MkTag(1, 1, 0, 0)}
=============================================================================
