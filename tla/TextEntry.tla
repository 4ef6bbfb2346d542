----------------------------- MODULE TextEntry -----------------------------
(***************************************************************************)
(* What the password dialogs promise: a text of at most Size digits that   *)
(* keys extend and shorten, one key too many empties, and OK either makes  *)
(* the secret or compares with it.  About texts of less than Size digits   *)
(* the comparison promises nothing.                                        *)
(***************************************************************************)
EXTENDS Naturals, Sequences

CONSTANTS Digits, Size

VARIABLES
  dialog,    \* "none", "set" or "match"
  text,      \* what was typed
  secret,    \* the text last set, <<>> before
  verdict    \* what the last comparison said: 1 equal, 2 not, 0 none

tvars == <<dialog, text, secret, verdict>>

Init == dialog = "none" /\ text = <<>> /\ secret = <<>> /\ verdict = 0

Open(d) ==
  /\ dialog = "none"
  /\ dialog' = d /\ verdict' = 0
  /\ UNCHANGED <<text, secret>>

Type(c) ==
  /\ dialog # "none"
  /\ text' = IF Len(text) = Size THEN <<>> ELSE Append(text, c)
  /\ UNCHANGED <<dialog, secret, verdict>>

Erase ==
  /\ dialog # "none" /\ text # <<>>
  /\ text' = SubSeq(text, 1, Len(text) - 1)
  /\ UNCHANGED <<dialog, secret, verdict>>

Leave ==
  /\ dialog # "none" /\ text = <<>>
  /\ dialog' = "none"
  /\ UNCHANGED <<text, secret, verdict>>

Set ==
  /\ dialog = "set" /\ text # <<>>
  /\ dialog' = "none" /\ text' = <<>>
  /\ secret' = text
  /\ UNCHANGED verdict

Compare ==
  /\ dialog = "match" /\ text # <<>>
  /\ dialog' = "none" /\ text' = <<>>
  /\ verdict' \in {1, 2}
  /\ Len(text) = Size /\ Len(secret) = Size => (verdict' = 1 <=> text = secret)
  /\ UNCHANGED secret

Next ==
  \/ \E d \in {"set", "match"} : Open(d)
  \/ \E c \in Digits : Type(c)
  \/ Erase \/ Leave \/ Set \/ Compare

Spec == Init /\ [][Next]_tvars
=============================================================================
