-------------------------- MODULE MCShellStorage --------------------------
(***************************************************************************)
(* ShellStorage for TLC.                                                   *)
(***************************************************************************)
EXTENDS ShellStorage

MkTag(a, c, d, e) == [n \in TagByte |-> <<a, c, d, e>>[n + 1]]

OneTag == {MkTag(0, 1, 0, 1)}
TwoTags == OneTag \cup {MkTag(1, 1, 0, 2)}
=============================================================================
