--------------------------- MODULE PasswordEntry ---------------------------
(***************************************************************************)
(* Typing passwords (bsp/password.c: Get_User_Input_psw and its callers    *)
(* password_setting and Match_psw): a buffer on the stack, an index, three *)
(* kinds of keys.  The callers do not initialise the buffer.  The one of   *)
(* password_setting has Size bytes, the one of Match_psw one more; the     *)
(* dialog writes Size + 1 into either.  In the build, the byte behind the  *)
(* shorter buffer is padding of its eight-byte stack slot.                 *)
(***************************************************************************)
EXTENDS Integers, Sequences

CONSTANTS
  Digits,    \* the characters '0' to '9'
  Size,      \* 6
  Blank,     \* ' '
  Nul,       \* '\0'
  Erased     \* 0xFF, what the chip holds before a password is set

Char == Digits \cup {Blank, Nul, Erased}

ASSUME EntryAssumption ==
  /\ Size \in Nat \ {0}
  /\ Blank \notin Digits /\ Nul \notin Digits /\ Erased \notin Digits
  /\ Blank # Nul /\ Erased # Nul

VARIABLES
  mode,      \* "none", "set" (password_setting) or "match" (Match_psw)
  buf,       \* psw or user_psw, and the byte behind psw
  i,         \* index of the next digit
  stored,    \* the bytes at PSW_ADD_BASE
  result,    \* what the last Match_psw that got a text returned, or 0
  secret     \* history: the digits typed for the password last set

evars == <<mode, buf, i, stored, result, secret>>

BufIdx == 0 .. Size
PswIdx == 0 .. Size - 1
Typed == [k \in 1 .. i |-> buf[k - 1]]

EInit ==
  /\ mode = "none" /\ buf = [k \in BufIdx |-> Blank] /\ i = 0
  /\ stored = [k \in PswIdx |-> Erased]
  /\ result = 0 /\ secret = <<>>

-----------------------------------------------------------------------------
(***************************************************************************)
(* A dialog begins; its buffer holds whatever the stack held.              *)
(***************************************************************************)
Begin(m) ==
  /\ mode = "none"
  /\ mode' = m /\ i' = 0 /\ result' = 0
  /\ buf' \in [BufIdx -> Char]
  /\ UNCHANGED <<stored, secret>>

(***************************************************************************)
(* A digit.  One too many empties the buffer: "more than six digits, enter *)
(* it again".                                                              *)
(***************************************************************************)
DigitLate(c) ==                         \* slip: the test before i++
  /\ mode # "none"
  /\ IF i > Size
     THEN i' = 0 /\ buf' = [k \in BufIdx |-> Blank]
     ELSE i' = i + 1 /\ buf' = [buf EXCEPT ![i] = c]
  /\ UNCHANGED <<mode, stored, result, secret>>

Digit(c) ==
  /\ mode # "none"
  /\ IF i + 1 > Size
     THEN i' = 0 /\ buf' = [k \in BufIdx |-> Blank]
     ELSE i' = i + 1 /\ buf' = [buf EXCEPT ![i] = c]
  /\ UNCHANGED <<mode, stored, result, secret>>

(***************************************************************************)
(* B/D takes the last digit back; with nothing typed it leaves the dialog. *)
(***************************************************************************)
BackDelete ==
  /\ mode # "none" /\ i > 0
  /\ i' = i - 1
  /\ buf' = [buf EXCEPT ![i - 1] = Blank]
  /\ UNCHANGED <<mode, stored, result, secret>>

BackLeave ==
  /\ mode # "none" /\ i = 0
  /\ mode' = "none"
  /\ UNCHANGED <<buf, i, stored, result, secret>>

(***************************************************************************)
(* OK.  password_setting writes the first Size bytes of its buffer to the  *)
(* chip, typed or not.  Match_psw ends both arrays with '\0' and compares  *)
(* them as strings.  (With nothing typed OK does nothing.)                 *)
(***************************************************************************)
OkSet ==
  /\ mode = "set" /\ i > 0
  /\ mode' = "none" /\ i' = 0
  /\ stored' = [k \in PswIdx |-> buf[k]]
  /\ secret' = Typed
  /\ UNCHANGED <<buf, result>>

CharAtShort(s, k) == IF k < Size - 1 THEN s[k] ELSE Nul   \* slip: psw[5] = '\0'
CharAt(s, k) == IF k < Size THEN s[k] ELSE Nul

rt_strcmp(s, t) ==                      \* TRUE where the C function returns 0
  \E n \in BufIdx :
    /\ CharAt(s, n) = Nul /\ CharAt(t, n) = Nul
    /\ \A k \in 0 .. n - 1 : s[k] = t[k]

OkMatch ==
  /\ mode = "match" /\ i > 0
  /\ mode' = "none" /\ i' = 0
  /\ result' = IF rt_strcmp(stored, buf) THEN 1 ELSE 2
  /\ UNCHANGED <<buf, stored, secret>>

ENext ==
  \/ \E m \in {"set", "match"} : Begin(m)
  \/ \E c \in Digits : Digit(c)
  \/ BackDelete \/ BackLeave \/ OkSet \/ OkMatch

ESpec == EInit /\ [][ENext]_evars
-----------------------------------------------------------------------------
(***************************************************************************)
(* Properties                                                              *)
(***************************************************************************)

(***************************************************************************)
(* The types of the variables; the index never leaves the buffer, and the  *)
(* bytes below it were typed.                                              *)
(***************************************************************************)
ETypeOK ==
  /\ mode \in {"none", "set", "match"}
  /\ buf \in [BufIdx -> Char]
  /\ i \in BufIdx
  /\ \A k \in 0 .. i - 1 : buf[k] \in Digits
  /\ stored \in [PswIdx -> Char]
  /\ result \in {0, 1, 2}
  /\ secret \in Seq(Digits) /\ Len(secret) <= Size

(***************************************************************************)
(* Whatever keys are pressed in whatever order, and whatever the stack     *)
(* held before, the dialogs are a text entry, and full passwords match     *)
(* exactly when they are the same.                                         *)
(***************************************************************************)
Entry == INSTANCE TextEntry
           WITH dialog <- mode, text <- Typed, verdict <- result
ImplementsTextEntry == Entry!Spec
=============================================================================
