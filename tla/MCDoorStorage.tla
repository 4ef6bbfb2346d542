--------------------------- MODULE MCDoorStorage ---------------------------
(***************************************************************************)
(* DoorStorage for TLC.  The two passwords differ in two bytes, so a half  *)
(* written one is neither; the flag value is not a byte of any tag.        *)
(***************************************************************************)
EXTENDS DoorStorage

MkTag(a, b, c, d) == [m \in TagByte |-> <<a, b, c, d>>[m + 1]]

OneCard == {MkTag(0, 1, 0, 1)}
TwoCards == OneCard \cup {MkTag(1, 1, 0, 2)}
ThreeCards == TwoCards \cup {MkTag(2, 0, 1, 0)}

TwoPasswords ==
  {[b \in PswByteNo |-> 3],
   [b \in PswByteNo |-> IF b \in {0, 3} THEN 4 ELSE 3]}
OnePassword == {[b \in PswByteNo |-> 3]}
=============================================================================
