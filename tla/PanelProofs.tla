----------------------------- MODULE PanelProofs ----------------------------
(***************************************************************************)
(* What touch_thread does at the touch panel, proved of two models.        *)
(* PasswordEntry: for any digits, any length of a password and whatever    *)
(* the stack holds, the password dialogs are a text entry.  Lockout: for   *)
(* every set of operations and every length of the lock-out, the lock is   *)
(* held and the text of the countdown is not early, but for two races with *)
(* the timer thread, which the statements name.                            *)
(***************************************************************************)
EXTENDS PasswordEntry, Lockout, TLAPS

(***************************************************************************)
(* A full password stands on the chip as it was typed, and no dialog       *)
(* leaves digits to the next one.                                          *)
(***************************************************************************)
StoredInv ==
  /\ mode = "none" => i = 0
  /\ Len(secret) = Size => \A k \in PswIdx : stored[k] = secret[k + 1]

EInv == ETypeOK /\ StoredInv
-----------------------------------------------------------------------------
(***************************************************************************)
(* What has been typed is a text of i digits.                              *)
(***************************************************************************)
IsText ==
  /\ Typed \in Seq(Digits) /\ Len(Typed) = i
  /\ \A k \in 1 .. i : Typed[k] = buf[k - 1]
  /\ Typed = <<>> <=> i = 0

\* What has been typed is such a text (the buffer of Get_User_Input_psw).
LEMMA TypedText == ETypeOK => IsText
<1> SUFFICES ASSUME ETypeOK PROVE IsText
  OBVIOUS
<1>1. i \in Nat /\ i <= Size
  BY EntryAssumption DEF ETypeOK, BufIdx
<1>2. \A k \in 1 .. i : buf[k - 1] \in Digits
  BY <1>1 DEF ETypeOK
<1>3. Typed \in [1 .. i -> Digits]
  BY <1>2 DEF Typed
<1> QED BY <1>1, <1>3 DEF IsText, Typed

\* The same of the next state.
LEMMA TypedTextNext == ETypeOK' => IsText'
BY TypedText, PTL

(***************************************************************************)
(* Before the first key nothing is typed and nothing is stored.            *)
(***************************************************************************)
LEMMA InitEInv == EInit => EInv
BY EntryAssumption
   DEF EInit, EInv, ETypeOK, StoredInv, BufIdx, PswIdx, Char

(***************************************************************************)
(* A digit goes behind the digits typed, never out of the buffer.          *)
(***************************************************************************)
LEMMA DigitKeeps ==
  ASSUME EInv, NEW c \in Digits, Digit(c)
  PROVE  EInv'
<1>1. i \in Nat /\ Size \in Nat /\ i <= Size
  BY EntryAssumption DEF EInv, ETypeOK, BufIdx
<1>2. CASE i + 1 > Size
  BY <1>1, <1>2 DEF Digit, EInv, ETypeOK, StoredInv, BufIdx, Char
<1>3. CASE i + 1 <= Size
  <2>1. i' = i + 1 /\ i' \in BufIdx /\ buf' = [buf EXCEPT ![i] = c]
    BY <1>1, <1>3 DEF Digit, BufIdx
  <2>2. buf' \in [BufIdx -> Char]
    BY <1>1, <2>1 DEF EInv, ETypeOK, Char
  <2>3. \A k \in 0 .. i' - 1 : buf'[k] \in Digits
    BY <1>1, <2>1 DEF EInv, ETypeOK, BufIdx
  <2> QED BY <2>1, <2>2, <2>3 DEF Digit, EInv, ETypeOK, StoredInv
<1> QED BY <1>1, <1>2, <1>3

\* B/D takes the last digit back.
LEMMA BackDeleteKeeps ==
  ASSUME EInv, BackDelete
  PROVE  EInv'
<1>1. i \in Nat /\ Size \in Nat /\ i <= Size /\ i > 0
  BY EntryAssumption DEF EInv, ETypeOK, BufIdx, BackDelete
<1>2. i' \in BufIdx /\ i' = i - 1 /\ buf' \in [BufIdx -> Char]
  BY <1>1 DEF BackDelete, EInv, ETypeOK, BufIdx, Char
<1>3. \A k \in 0 .. i' - 1 : buf'[k] \in Digits
  BY <1>1, <1>2 DEF BackDelete, EInv, ETypeOK, BufIdx
<1> QED BY <1>2, <1>3 DEF BackDelete, EInv, ETypeOK, StoredInv

(***************************************************************************)
(* password_setting writes what was typed; a full text fills the chip.     *)
(***************************************************************************)
LEMMA OkSetKeeps ==
  ASSUME EInv, OkSet
  PROVE  EInv'
<1>1. i \in Nat /\ Size \in Nat /\ i <= Size
  BY EntryAssumption DEF EInv, ETypeOK, BufIdx
<1>2. Typed \in Seq(Digits) /\ Len(Typed) = i /\ \A k \in 1 .. i : Typed[k] = buf[k - 1]
  BY TypedText DEF EInv, IsText
<1>3. stored' \in [PswIdx -> Char]
  BY <1>1 DEF OkSet, EInv, ETypeOK, PswIdx, BufIdx
<1>4. ETypeOK'
  BY <1>1, <1>2, <1>3 DEF OkSet, EInv, ETypeOK, BufIdx
<1>5. StoredInv'
  BY <1>1, <1>2 DEF OkSet, StoredInv, PswIdx
<1> QED BY <1>4, <1>5 DEF EInv

(***************************************************************************)
(* Every key keeps the invariant.                                          *)
(***************************************************************************)
LEMMA NextEInv == EInv /\ [ENext]_evars => EInv'
<1> SUFFICES ASSUME EInv, [ENext]_evars PROVE EInv'
  OBVIOUS
<1>1. CASE \E m \in {"set", "match"} : Begin(m)
  BY <1>1, EntryAssumption DEF Begin, EInv, ETypeOK, StoredInv, BufIdx
<1>2. CASE \E c \in Digits : Digit(c)
  BY <1>2, DigitKeeps
<1>3. CASE BackDelete
  BY <1>3, BackDeleteKeeps
<1>4. CASE BackLeave
  BY <1>4 DEF BackLeave, EInv, ETypeOK, StoredInv
<1>5. CASE OkSet
  BY <1>5, OkSetKeeps
<1>6. CASE OkMatch
  BY <1>6, EntryAssumption DEF OkMatch, EInv, ETypeOK, StoredInv, BufIdx
<1>7. CASE UNCHANGED evars
  BY <1>7 DEF evars, EInv, ETypeOK, StoredInv
<1> QED BY <1>1, <1>2, <1>3, <1>4, <1>5, <1>6, <1>7 DEF ENext
-----------------------------------------------------------------------------
(***************************************************************************)
(* A digit is appended, or empties a full text.                            *)
(***************************************************************************)
LEMMA DigitTypes ==
  ASSUME EInv, NEW c \in Digits, Digit(c)
  PROVE  Entry!Type(c)
<1>1. i \in Nat /\ Size \in Nat /\ i <= Size
  BY EntryAssumption DEF EInv, ETypeOK, BufIdx
<1>2. Typed \in Seq(Digits) /\ Len(Typed) = i /\ \A k \in 1 .. i : Typed[k] = buf[k - 1]
  BY TypedText DEF EInv, IsText
<1>3. ETypeOK'
  BY DigitKeeps DEF EInv
<1>4. Typed' \in Seq(Digits) /\ Len(Typed') = i' /\ (\A k \in 1 .. i' : Typed'[k] = buf'[k - 1])
      /\ (Typed' = <<>> <=> i' = 0)
  BY <1>3, TypedTextNext DEF IsText
<1>5. Typed' = IF Len(Typed) = Size THEN <<>> ELSE Append(Typed, c)
  <2>1. CASE i = Size
    BY <2>1, <1>1, <1>2, <1>4 DEF Digit
  <2>2. CASE i # Size
    <3>1. i' = i + 1 /\ buf' = [buf EXCEPT ![i] = c]
      BY <2>2, <1>1 DEF Digit
    <3>2. \A k \in 1 .. i + 1 : Typed'[k] = Append(Typed, c)[k]
      BY <3>1, <1>1, <1>2, <1>4 DEF EInv, ETypeOK, BufIdx
    <3>3. Append(Typed, c) \in Seq(Digits) /\ Len(Append(Typed, c)) = i + 1
      BY <1>1, <1>2
    <3> QED BY <2>2, <3>1, <3>2, <3>3, <1>1, <1>2, <1>4
  <2> QED BY <2>1, <2>2
<1> QED BY <1>5 DEF Digit, Entry!Type

\* B/D shortens the text.
LEMMA BackDeleteErases ==
  ASSUME EInv, BackDelete
  PROVE  Entry!Erase
<1>1. i \in Nat /\ Size \in Nat /\ i <= Size /\ i > 0
  BY EntryAssumption DEF EInv, ETypeOK, BufIdx, BackDelete
<1>2. Typed \in Seq(Digits) /\ Len(Typed) = i /\ (\A k \in 1 .. i : Typed[k] = buf[k - 1])
      /\ Typed # <<>>
  BY <1>1, TypedText DEF EInv, IsText
<1>3. i' = i - 1 /\ \A k \in 0 .. i - 2 : buf'[k] = buf[k]
  BY <1>1 DEF BackDelete, EInv, ETypeOK, BufIdx
<1>4. Typed' = SubSeq(Typed, 1, Len(Typed) - 1)
  BY <1>1, <1>2, <1>3 DEF Typed
<1> QED BY <1>2, <1>4 DEF BackDelete, Entry!Erase

(***************************************************************************)
(* Two full texts of digits are equal as C strings exactly when they are   *)
(* the same: the first '\0' is the one behind them.                        *)
(***************************************************************************)
LEMMA CompareFull ==
  ASSUME EInv, i = Size, Len(secret) = Size
  PROVE  rt_strcmp(stored, buf) <=> Typed = secret
<1>1. Size \in Nat \ {0} /\ Nul \notin Digits
  BY EntryAssumption
<1>2. Typed \in Seq(Digits) /\ Len(Typed) = Size
      /\ \A k \in 1 .. Size : Typed[k] = buf[k - 1]
  BY TypedText DEF EInv, IsText
<1>3. secret \in Seq(Digits)
  BY DEF EInv, ETypeOK
<1>4. \A k \in 0 .. Size - 1 : stored[k] = secret[k + 1] /\ secret[k + 1] \in Digits
  BY <1>1, <1>3 DEF EInv, StoredInv, PswIdx
<1>5. \A n \in BufIdx : CharAt(stored, n) = Nul <=> n = Size
  BY <1>1, <1>4 DEF CharAt, BufIdx
<1>6. CharAt(buf, Size) = Nul /\ Size \in BufIdx
  BY <1>1 DEF CharAt, BufIdx
<1>7. rt_strcmp(stored, buf) <=> \A k \in 0 .. Size - 1 : stored[k] = buf[k]
  BY <1>5, <1>6 DEF rt_strcmp
<1>8. (\A k \in 0 .. Size - 1 : stored[k] = buf[k]) <=> \A k \in 1 .. Size : secret[k] = Typed[k]
  <2>1. \A k \in 1 .. Size : k - 1 \in 0 .. Size - 1 /\ (k - 1) + 1 = k
    BY <1>1
  <2>2. \A k \in 0 .. Size - 1 : k + 1 \in 1 .. Size /\ (k + 1) - 1 = k
    BY <1>1
  <2> QED BY <2>1, <2>2, <1>2, <1>4
<1>9. (\A k \in 1 .. Size : secret[k] = Typed[k]) <=> secret = Typed
  BY <1>1, <1>2, <1>3
<1> QED BY <1>7, <1>8, <1>9

(***************************************************************************)
(* OK in Match_psw compares the texts.                                     *)
(***************************************************************************)
LEMMA OkMatchCompares ==
  ASSUME EInv, OkMatch
  PROVE  Entry!Compare
<1>1. i \in Nat /\ Size \in Nat
  BY EntryAssumption DEF EInv, ETypeOK, BufIdx
<1>2. Len(Typed) = i /\ Typed # <<>>
  BY <1>1, TypedText DEF EInv, IsText, OkMatch
<1>3. Typed' = <<>>
  BY DEF OkMatch, Typed
<1>4. Len(Typed) = Size /\ Len(secret) = Size => (result' = 1 <=> Typed = secret)
  BY <1>2, CompareFull DEF OkMatch
<1>5. result' \in {1, 2}
  BY DEF OkMatch
<1> QED BY <1>2, <1>3, <1>4, <1>5 DEF OkMatch, Entry!Compare

(***************************************************************************)
(* Every key does to the text what the abstract dialog does.               *)
(***************************************************************************)
LEMMA NextEntry == EInv /\ [ENext]_evars => [Entry!Next]_(Entry!tvars)
<1> SUFFICES ASSUME EInv, [ENext]_evars PROVE [Entry!Next]_(Entry!tvars)
  OBVIOUS
<1>0. Typed = <<>> <=> i = 0
  BY TypedText DEF EInv, IsText
<1>1. CASE \E m \in {"set", "match"} : Begin(m)
  <2>1. PICK m \in {"set", "match"} : Begin(m)
    BY <1>1
  <2>2. Typed = <<>> /\ Typed' = <<>>
    BY <2>1, <1>0 DEF Begin, EInv, StoredInv, Typed
  <2> QED BY <2>1, <2>2 DEF Begin, Entry!Open, Entry!Next
<1>2. CASE \E c \in Digits : Digit(c)
  BY <1>2, DigitTypes DEF Entry!Next
<1>3. CASE BackDelete
  BY <1>3, BackDeleteErases DEF Entry!Next
<1>4. CASE BackLeave
  BY <1>4, <1>0 DEF BackLeave, Typed, Entry!Leave, Entry!Next
<1>5. CASE OkSet
  <2>1. Typed' = <<>>
    BY <1>5 DEF OkSet, Typed
  <2>2. i \in Nat
    BY EntryAssumption DEF EInv, ETypeOK, BufIdx
  <2>3. Typed # <<>>
    BY <1>5, <1>0, <2>2 DEF OkSet
  <2> QED BY <1>5, <2>1, <2>3 DEF OkSet, Entry!Set, Entry!Next
<1>6. CASE OkMatch
  BY <1>6, OkMatchCompares DEF Entry!Next
<1>7. CASE UNCHANGED evars
  BY <1>7 DEF evars, Typed, Entry!tvars
<1> QED BY <1>1, <1>2, <1>3, <1>4, <1>5, <1>6, <1>7 DEF ENext

(***************************************************************************)
(* The types of the dialogs: the index never leaves the buffer, although   *)
(* it is tested after the write (Get_User_Input_psw, password.c:184).      *)
(***************************************************************************)
THEOREM EntryTypes == ESpec => []ETypeOK
<1>1. EInv => ETypeOK
  BY DEF EInv
<1> QED BY InitEInv, NextEInv, <1>1, PTL DEF ESpec

(***************************************************************************)
(* The dialogs are a text entry (password_setting, Match_psw,              *)
(* password.c:200, 235).                                                   *)
(***************************************************************************)
THEOREM DialogIsTextEntry == ESpec => ImplementsTextEntry
<1>1. EInit => Entry!Init
  BY DEF EInit, Entry!Init, Typed
<1> QED BY InitEInv, NextEInv, NextEntry, <1>1, PTL DEF ESpec, ImplementsTextEntry, Entry!Spec
-----------------------------------------------------------------------------
(***************************************************************************)
(* While an operation is locked, the ticks since it was locked and the     *)
(* ticks until its timer expires make up the lock-out, or more: the timer  *)
(* may have been started again after the lock-out began.  When its         *)
(* function is about to be called, the lock-out is over, or it began while *)
(* the function was about to be called.                                    *)
(***************************************************************************)
ClockTypes ==
  /\ lock \in [Ops -> {0, 1}]
  /\ armed \in [Ops -> BOOLEAN]
  /\ left \in [Ops -> 0 .. LockTicks]
  /\ calling \in [Ops -> {"no", "taken", "called"}]
  /\ since \in [Ops -> 0 .. LockTicks]

ClocksAgree ==
  \A o \in Ops : lock[o] = 0 =>
    /\ left[o] + since[o] >= LockTicks
    /\ calling[o] = "taken" /\ o \notin raced => since[o] = LockTicks

ClockInv == ClockTypes /\ ClocksAgree

\* No step but the end of a lock-out, or the race, unlocks.
Held == \A o \in Ops :
          lock[o] = 0 /\ lock'[o] = 1 => since[o] = LockTicks \/ o \in raced

(***************************************************************************)
(* Nothing is locked at first.                                             *)
(***************************************************************************)
LEMMA ClockInvInit == LInit => ClockInv
BY LockoutAssumption DEF LInit, ClockInv, ClockTypes, ClocksAgree

(***************************************************************************)
(* The steps of the touch thread but one leave the clocks alone.           *)
(***************************************************************************)
LEMMA QuietTouchStep ==
  ASSUME TouchStep
  PROVE  Wrong \/ UNCHANGED <<lock, timerVars, history>>
BY DEF TouchStep, Poll, Admit, Key, NextKey, Cancelled, Correct, Serve,
       Message, Done, Show, Touched, TouchOnly

(***************************************************************************)
(* A wrong password either counts or starts both clocks together, and then *)
(* writes down where the timer thread was.                                 *)
(***************************************************************************)
LEMMA WrongClocks ==
  ASSUME ClockInv, Wrong
  PROVE  ClockInv' /\ Held
<1> USE LockoutAssumption
<1>1. CASE TooMany(sel)
  <2>1. /\ lock' = [lock EXCEPT ![sel] = 0]
        /\ since' = [since EXCEPT ![sel] = 0]
        /\ armed' = [armed EXCEPT ![sel] = TRUE]
        /\ left' = [left EXCEPT ![sel] = LockTicks]
        /\ raced' = IF calling[sel] = "taken" THEN raced \cup {sel} ELSE raced
        /\ calling' = calling
    BY <1>1 DEF Wrong, LockOut, Locked, rt_timer_start
  <2>2. ClockTypes'
    <3> DEFINE Ticks == 0 .. LockTicks
    <3>1. 0 \in Ticks /\ LockTicks \in Ticks
      OBVIOUS
    <3>2. left \in [Ops -> Ticks] /\ since \in [Ops -> Ticks]
      BY DEF ClockInv, ClockTypes
    <3> HIDE DEF Ticks
    <3>3. left' \in [Ops -> Ticks] /\ since' \in [Ops -> Ticks]
      BY <2>1, <3>1, <3>2, Zenon
    <3>4. armed' \in [Ops -> BOOLEAN]
      BY <2>1, Zenon DEF ClockInv, ClockTypes
    <3>5. lock' \in [Ops -> {0, 1}]
      BY <2>1 DEF ClockInv, ClockTypes
    <3>6. calling' \in [Ops -> {"no", "taken", "called"}]
      BY <2>1 DEF ClockInv, ClockTypes
    <3> QED
      BY <3>3, <3>4, <3>5, <3>6 DEF ClockTypes, Ticks
  <2>3. ClocksAgree'
    BY <2>1 DEF ClockInv, ClockTypes, ClocksAgree
  <2>4. Held
    BY <2>1 DEF ClockInv, ClockTypes, Held
  <2> QED
    BY <2>2, <2>3, <2>4 DEF ClockInv
<1>2. CASE ~ TooMany(sel)
  <2>1. UNCHANGED <<lock, armed, left, calling, since, raced>>
    BY <1>2 DEF Wrong, history
  <2> QED
    BY <2>1 DEF ClockInv, ClockTypes, ClocksAgree, Held
<1> QED
  BY <1>1, <1>2

(***************************************************************************)
(* An expired timer is taken off the list: the lock-out is over.           *)
(***************************************************************************)
LEMMA ExpireClocks ==
  ASSUME ClockInv, NEW o \in Ops, Expire(o)
  PROVE  ClockInv' /\ Held
<1> USE LockoutAssumption
<1>1. /\ left[o] = 0
      /\ armed' = [armed EXCEPT ![o] = FALSE]
      /\ calling' = [calling EXCEPT ![o] = "taken"]
      /\ UNCHANGED <<lock, left, since, raced>>
  BY DEF Expire, Due, history
<1>2. ClockTypes'
  BY <1>1 DEF ClockInv, ClockTypes
<1>3. ClocksAgree'
  BY <1>1 DEF ClockInv, ClockTypes, ClocksAgree
<1> QED
  BY <1>1, <1>2, <1>3 DEF ClockInv, ClockTypes, Held

(***************************************************************************)
(* The timeout function unlocks, at the end of the lock-out or raced.      *)
(***************************************************************************)
LEMMA TimeoutClocks ==
  ASSUME ClockInv, NEW o \in Ops, Timeout(o)
  PROVE  ClockInv' /\ Held
<1> USE LockoutAssumption
<1>1. /\ calling[o] = "taken"
      /\ lock' = [lock EXCEPT ![o] = 1]
      /\ calling' = [calling EXCEPT ![o] = "called"]
      /\ since' = [since EXCEPT ![o] = LockTicks]
      /\ raced' = raced \ {o}
      /\ UNCHANGED <<armed, left>>
  BY DEF Timeout
<1>2. ClockTypes'
  BY <1>1 DEF ClockInv, ClockTypes
<1>3. ClocksAgree'
  BY <1>1 DEF ClockInv, ClockTypes, ClocksAgree
<1>4. Held
  BY <1>1 DEF ClockInv, ClockTypes, ClocksAgree, Held
<1> QED
  BY <1>2, <1>3, <1>4 DEF ClockInv

(***************************************************************************)
(* The timer thread starts the timer again, which makes no lock-out        *)
(* shorter.                                                                *)
(***************************************************************************)
LEMMA RestartClocks ==
  ASSUME ClockInv, NEW o \in Ops, Restart(o)
  PROVE  ClockInv' /\ Held
<1> USE LockoutAssumption
<1>1. /\ calling' = [calling EXCEPT ![o] = "no"]
      /\ armed' = [armed EXCEPT ![o] = TRUE]
      /\ left' = [left EXCEPT ![o] = LockTicks]
      /\ UNCHANGED <<lock, since, raced>>
  BY DEF Restart, rt_timer_start, history
<1>2. ClockTypes'
  BY <1>1 DEF ClockInv, ClockTypes
<1>3. ClocksAgree'
  BY <1>1 DEF ClockInv, ClockTypes, ClocksAgree
<1> QED
  BY <1>1, <1>2, <1>3 DEF ClockInv, ClockTypes, Held

(***************************************************************************)
(* A tick advances both clocks.                                            *)
(***************************************************************************)
LEMMA PassesClocks ==
  ASSUME ClockInv, Passes
  PROVE  ClockInv' /\ Held
<1> USE LockoutAssumption
<1>1. /\ left' = [o \in Ops |-> IF left[o] > 0 THEN left[o] - 1 ELSE 0]
      /\ since' = [o \in Ops |-> IF since[o] < LockTicks THEN since[o] + 1 ELSE since[o]]
      /\ UNCHANGED <<lock, armed, calling, raced>>
  BY DEF Passes
<1>2. ClockTypes'
  BY <1>1 DEF ClockInv, ClockTypes
<1>3. ClocksAgree'
  BY <1>1 DEF ClockInv, ClockTypes, ClocksAgree
<1> QED
  BY <1>1, <1>2, <1>3 DEF ClockInv, ClockTypes, Held

(***************************************************************************)
(* Every step keeps the invariant and unlocks only as it says.             *)
(***************************************************************************)
LEMMA ClockStep ==
  ASSUME ClockInv, [LNext]_lvars
  PROVE  ClockInv' /\ Held
<1>1. ASSUME UNCHANGED <<lock, timerVars, history>>
      PROVE  ClockInv' /\ Held
  BY <1>1 DEF timerVars, history, ClockInv, ClockTypes, ClocksAgree, Held
<1>2. CASE TouchStep
  BY <1>1, <1>2, QuietTouchStep, WrongClocks
<1>3. ASSUME NEW o \in Ops, TimerThread(o)
      PROVE  ClockInv' /\ Held
  BY <1>3, ExpireClocks, TimeoutClocks, RestartClocks DEF TimerThread
<1>4. ASSUME NEW o \in Ops, Take(o) \/ Count(o)
      PROVE  ClockInv' /\ Held
  BY <1>1, <1>4 DEF Take, Count
<1>5. CASE Tick \/ TickPreempts
  BY <1>5, PassesClocks DEF Tick, TickPreempts
<1>6. CASE UNCHANGED lvars
  BY <1>1, <1>6 DEF lvars
<1> QED
  BY <1>2, <1>3, <1>4, <1>5, <1>6 DEF LNext

(***************************************************************************)
(* An operation stays locked for LockTicks ticks, whatever passwords are   *)
(* entered for this and the other operations, whatever phase its periodic  *)
(* timer had, and however long dialogs delay the timer thread; unless it   *)
(* was locked between the end of the critical section (timer.c:603) and    *)
(* the call of its function for an expiry before.                          *)
(***************************************************************************)
THEOREM LockIsHeld == LSpec => LockHeld
<1>1. ClockInv /\ [LNext]_lvars => ClockInv'
  BY ClockStep
<1>2. ClockInv /\ [LNext]_lvars
        => [\A o \in Ops :
              lock[o] = 0 /\ lock'[o] = 1 => since[o] = LockTicks \/ o \in raced]_lvars
  BY ClockStep DEF Held
<1> QED
  BY ClockInvInit, <1>1, <1>2, PTL DEF LSpec, LockHeld

-----------------------------------------------------------------------------
(***************************************************************************)
(* The countdown threads: the text that is shown while an operation is     *)
(* locked never promises too early an end, for any operations and          *)
(* priorities and any lock-out longer than the drawing of its message.     *)
(***************************************************************************)

\* Five minutes against some milliseconds.
LongLockOut == LockTicks > DrawTicks

(***************************************************************************)
(* Where the touch thread and the countdown threads can be together.  A    *)
(* semaphore is up only while the touch thread draws the message and       *)
(* sleeps after it, and nothing counts for it then.  Whoever counts while  *)
(* the touch thread runs is due to count again.  An operation whose        *)
(* password is asked for is not locked.                                    *)
(***************************************************************************)
PlaceInv ==
  /\ touch \in {"wrong", "dialog"} => ~ asleep
  /\ touch \in {"dialog", "key"} => lock[sel] = 1
  /\ touch = "key" /\ cd[sel] = "count" => asleep /\ woken[sel] /\ ~ slept
  /\ \A o \in Ops :
       /\ sem[o] > 0 => touch \in {"wrong", "sleep"} /\ sel = o /\ cd[o] # "count"
       /\ touch = "sleep" /\ ~ asleep => sem[o] = 0
       /\ woken[o] => cd[o] = "count"
       /\ cd[o] = "count" => (asleep \/ woken[o]) /\ tick[o] >= 1

PInv == LTypeOK /\ PlaceInv

(***************************************************************************)
(* What the tick is ahead of the timer, of the three ticks in which the    *)
(* message was drawn before the countdown began: the tick that ends the    *)
(* sleep of the touch thread may take one, if the timer thread is still to *)
(* deal with the expiry and the countdown thread waits for it.             *)
(***************************************************************************)
Kept(o) == IF left[o] = 0 /\ ~ slept THEN 2 ELSE 3

(***************************************************************************)
(* A countdown that does not run stands at LockTicks; one that runs is     *)
(* Kept behind the timer.  Once it has counted, what is shown is what it   *)
(* stands at.  Nothing of this holds of an operation that was once locked  *)
(* between the call of its function and the restart of its timer.          *)
(***************************************************************************)
TextInv ==
  \A o \in Ops \ outrun :
    /\ cd[o] # "count" => tick[o] = LockTicks
    /\ cd[o] = "count" => tick[o] >= 2
    /\ lock[o] = 0 =>
         /\ left[o] + since[o] = LockTicks /\ calling[o] # "called"
         /\ armed[o] \/ calling[o] = "taken"
         /\ sem[o] > 0 => since[o] >= IF touch = "wrong" THEN drawn ELSE 3
         /\ sem[o] = 0 => cd[o] = "count"
         /\ cd[o] = "count" => tick[o] >= left[o] + Kept(o) + IF woken[o] THEN 1 ELSE 0
         /\ sem[o] = 0 /\ shown[o] # tick[o] => touch = "sleep" \/ (asleep /\ woken[o] /\ ~ slept)

\* A step keeps the first invariant; and the second, if the lock-out is long.
Keeps == PInv' /\ (LongLockOut /\ TextInv => TextInv')

\* The part of LTypeOK that is about the touch thread.
PlaceTypes ==
  /\ touch \in {"poll", "button", "dialog", "key", "serve", "wrong", "sleep", "show"}
  /\ sel \in Ops \cup {NoOp} /\ (touch # "poll" => sel \in Ops)
  /\ asleep \in BOOLEAN /\ slept \in BOOLEAN /\ (slept => asleep)
  /\ drawn \in 0 .. DrawTicks
-----------------------------------------------------------------------------
(***************************************************************************)
(* Nobody counts at first.                                                 *)
(***************************************************************************)
LEMMA PInvInit == LInit => PInv /\ TextInv
<1> SUFFICES ASSUME LInit PROVE LTypeOK /\ PlaceInv /\ TextInv
  BY DEF PInv
<1> USE LockoutAssumption DEF LInit
<1>1. LTypeOK
  <2>1. drawn \in 0 .. DrawTicks /\ sel \in Ops \cup {NoOp} /\ touch = "poll"
    OBVIOUS
  <2>2. asleep \in BOOLEAN /\ slept \in BOOLEAN /\ (slept => asleep)
    OBVIOUS
  <2>3. shown \in [Ops -> {NoText} \cup 0 .. LockTicks - 1]
    OBVIOUS
  <2> QED BY <2>1, <2>2, <2>3 DEF LTypeOK
<1>2. PlaceInv
  BY DEF PlaceInv
<1>3. TextInv
  BY DEF TextInv
<1> QED BY <1>1, <1>2, <1>3

(***************************************************************************)
(* Steps of the touch thread in which nobody is locked.                    *)
(***************************************************************************)
LEMMA MoveKeeps ==
  ASSUME PInv, TouchStep, ~ Wrong
  PROVE  Keeps
<1> USE LockoutAssumption
<1>1. /\ UNCHANGED <<lock, armed, left, calling, sem, cd, woken, tick, shown, since, raced, outrun>>
      /\ drawn' = 0 /\ slept' = FALSE
  BY DEF TouchStep, Poll, Admit, Key, NextKey, Cancelled, Correct, Serve, Message, Done,
         Show, Touched, TouchOnly, Goto, timerVars, cdVars, history
<1>2. err' \in [Ops -> 0 .. MaxErr]
  <2>1. err' = err \/ err' = [err EXCEPT ![sel] = 0]
    BY DEF TouchStep, Poll, Admit, Key, NextKey, Cancelled, Correct, Serve, Message, Done,
           Show, Touched, TouchOnly
  <2>2. err \in [Ops -> 0 .. MaxErr] /\ 0 \in 0 .. MaxErr
    BY DEF PInv, LTypeOK
  <2> QED BY <2>1, <2>2, Zenon
<1>3. ~ asleep /\ ~ slept
  BY DEF TouchStep, Wrong, Poll, Admit, Key, NextKey, Cancelled, Correct, Serve, Message,
         Done, Show, Touched, Running, PInv, LTypeOK
<1>4. \/ touch = "dialog" /\ touch' = "key" /\ asleep' = TRUE /\ sel' = sel
      \/ touch = "button" /\ touch' = "dialog" /\ asleep' = FALSE /\ sel' = sel /\ lock[sel] = 1
      \/ touch = "key" /\ touch' = "dialog" /\ asleep' = FALSE /\ sel' = sel
      \/ touch = "wrong" /\ touch' = "sleep" /\ asleep' = TRUE /\ sel' = sel /\ drawn = DrawTicks
      \/ touch = "poll" /\ touch' = "button" /\ asleep' = TRUE /\ sel' \in Ops
      \/ touch = "key" /\ touch' = "serve" /\ asleep' = FALSE /\ sel' = sel
      \/ touch \notin {"poll", "wrong"} /\ touch' \in {"serve", "show"} /\ asleep' = TRUE /\ sel' = sel
      \/ touch # "wrong" /\ touch' = "poll" /\ asleep' = TRUE /\ sel' = NoOp
  BY DEF TouchStep, Wrong, Poll, Admit, Key, NextKey, Cancelled, Correct, Serve, Message,
         Done, Show, Touched, Running, Goto, PInv, LTypeOK
<1>5. LTypeOK'
  <2>1. PlaceTypes'
    <3>1. touch' \in {"poll", "button", "dialog", "key", "serve", "wrong", "sleep", "show"}
      BY <1>4
    <3>2. sel' \in Ops \cup {NoOp} /\ (touch' # "poll" => sel' \in Ops)
      BY <1>4 DEF PInv, LTypeOK
    <3>3. asleep' \in BOOLEAN
      BY <1>4
    <3>4. drawn' \in 0 .. DrawTicks
      BY <1>1
    <3> QED BY <1>1, <3>1, <3>2, <3>3, <3>4 DEF PlaceTypes
  <2> QED BY <1>1, <1>2, <2>1 DEF PInv, LTypeOK, PlaceTypes
<1>6. PlaceInv'
  BY <1>1, <1>3, <1>4 DEF PInv, LTypeOK, PlaceInv
<1>7. LongLockOut /\ TextInv => TextInv'
  BY <1>1, <1>3, <1>4 DEF PInv, LTypeOK, PlaceInv, TextInv, Kept
<1> QED BY <1>5, <1>6, <1>7 DEF Keeps, PInv

(***************************************************************************)
(* A wrong password: the semaphore goes up for a thread that does not      *)
(* count.                                                                  *)
(***************************************************************************)
LEMMA WrongKeeps ==
  ASSUME PInv, Wrong
  PROVE  Keeps
<1> USE LockoutAssumption
<1>1. /\ sel \in Ops /\ touch = "key" /\ ~ asleep /\ ~ slept /\ cd[sel] # "count"
      /\ \A o \in Ops : sem[o] = 0
  BY DEF Wrong, Running, PInv, LTypeOK, PlaceInv
<1>2. /\ touch' = "wrong" /\ asleep' = FALSE /\ slept' = FALSE /\ sel' = sel /\ drawn' = 0
      /\ UNCHANGED <<calling, cd, woken, tick>>
  BY DEF Wrong, Goto
<1>3. PlaceTypes'
  <2>1. drawn' \in 0 .. DrawTicks
    BY <1>2
  <2>2. asleep' \in BOOLEAN /\ slept' \in BOOLEAN
    BY <1>2
  <2> QED BY <1>1, <1>2, <2>1, <2>2 DEF PlaceTypes
<1>4. CASE TooMany(sel)
  <2>1. /\ err' = [err EXCEPT ![sel] = 0]
        /\ lock' = [lock EXCEPT ![sel] = 0] /\ since' = [since EXCEPT ![sel] = 0]
        /\ sem' = [sem EXCEPT ![sel] = 1] /\ shown' = [shown EXCEPT ![sel] = NoText]
        /\ armed' = [armed EXCEPT ![sel] = TRUE] /\ left' = [left EXCEPT ![sel] = LockTicks]
        /\ raced' = IF calling[sel] = "taken" THEN raced \cup {sel} ELSE raced
        /\ outrun' = IF calling[sel] = "called" THEN outrun \cup {sel} ELSE outrun
    BY <1>1, <1>4 DEF Wrong, LockOut, Locked, rt_timer_start, PInv, LTypeOK
  <2>2. LTypeOK'
    <3> DEFINE Ticks == 0 .. LockTicks
               Errors == 0 .. MaxErr
               Texts == {NoText} \cup 0 .. LockTicks - 1
    <3>1. 0 \in Ticks /\ LockTicks \in Ticks /\ 0 \in Errors /\ NoText \in Texts
          /\ 0 \in {0, 1} /\ 1 \in {0, 1}
      OBVIOUS
    <3>2. /\ left \in [Ops -> Ticks] /\ since \in [Ops -> Ticks] /\ err \in [Ops -> Errors]
          /\ shown \in [Ops -> Texts] /\ armed \in [Ops -> BOOLEAN]
          /\ lock \in [Ops -> {0, 1}] /\ sem \in [Ops -> {0, 1}]
      BY DEF PInv, LTypeOK
    <3> HIDE DEF Ticks, Errors, Texts
    <3>3. /\ left' \in [Ops -> Ticks] /\ since' \in [Ops -> Ticks] /\ err' \in [Ops -> Errors]
          /\ shown' \in [Ops -> Texts] /\ armed' \in [Ops -> BOOLEAN]
          /\ lock' \in [Ops -> {0, 1}] /\ sem' \in [Ops -> {0, 1}]
      BY <2>1, <3>1, <3>2, Zenon
    <3>4. raced' \subseteq Ops /\ outrun' \subseteq Ops
      BY <1>1, <2>1 DEF PInv, LTypeOK
    <3> QED BY <1>2, <1>3, <3>3, <3>4 DEF PInv, LTypeOK, PlaceTypes, Ticks, Errors, Texts
  <2>3. PlaceInv'
    BY <1>1, <1>2, <2>1 DEF PInv, LTypeOK, PlaceInv
  <2>4. LongLockOut /\ TextInv => TextInv'
    BY <1>1, <1>2, <2>1 DEF PInv, LTypeOK, PlaceInv, TextInv, Kept
  <2> QED BY <2>2, <2>3, <2>4 DEF Keeps, PInv
<1>5. CASE ~ TooMany(sel)
  <2>1. UNCHANGED <<lock, sem, shown, armed, left, since, raced, outrun>>
    BY <1>5 DEF Wrong, history
  <2>2. err' \in [Ops -> 0 .. MaxErr]
    BY <1>1, <1>5 DEF Wrong, TooMany, PInv, LTypeOK
  <2>3. LTypeOK'
    BY <1>2, <1>3, <2>1, <2>2 DEF PInv, LTypeOK, PlaceTypes
  <2>4. PlaceInv'
    BY <1>1, <1>2, <2>1 DEF PInv, LTypeOK, PlaceInv
  <2>5. TextInv => TextInv'
    BY <1>1, <1>2, <2>1 DEF PInv, LTypeOK, PlaceInv, TextInv, Kept
  <2> QED BY <2>3, <2>4, <2>5 DEF Keeps, PInv
<1> QED BY <1>4, <1>5

(***************************************************************************)
(* The timer thread unlocks an operation whose password nobody is asked    *)
(* for; taking the timer off and starting it again is nothing to the text. *)
(***************************************************************************)
LEMMA ExpireKeeps ==
  ASSUME PInv, NEW o \in Ops, Expire(o)
  PROVE  Keeps
<1> USE LockoutAssumption
<1>1. /\ calling' = [calling EXCEPT ![o] = "taken"] /\ armed' = [armed EXCEPT ![o] = FALSE]
      /\ UNCHANGED <<touch, sel, asleep, slept, drawn, lock, err, left, sem, cd, woken, tick, shown,
                     since, raced, outrun>>
  BY DEF Expire, touchVars, cdVars, history
<1>2. LTypeOK'
  BY <1>1 DEF PInv, LTypeOK
<1>3. PlaceInv'
  BY <1>1 DEF PInv, LTypeOK, PlaceInv
<1>4. TextInv => TextInv'
  BY <1>1 DEF PInv, LTypeOK, TextInv, Kept
<1> QED BY <1>2, <1>3, <1>4 DEF Keeps, PInv

\* The function of the timer.
LEMMA TimeoutKeeps ==
  ASSUME PInv, NEW o \in Ops, Timeout(o)
  PROVE  Keeps
<1> USE LockoutAssumption
<1>1. /\ calling' = [calling EXCEPT ![o] = "called"] /\ lock' = [lock EXCEPT ![o] = 1]
      /\ since' = [since EXCEPT ![o] = LockTicks] /\ raced' = raced \ {o}
      /\ UNCHANGED <<touch, sel, asleep, slept, drawn, err, armed, left, sem, cd, woken, tick, shown,
                     outrun>>
  BY DEF Timeout, touchVars, cdVars
<1>2. LTypeOK'
  BY <1>1 DEF PInv, LTypeOK
<1>3. PlaceInv'
  BY <1>1 DEF PInv, LTypeOK, PlaceInv
<1>4. TextInv => TextInv'
  BY <1>1 DEF PInv, LTypeOK, TextInv, Kept
<1> QED BY <1>2, <1>3, <1>4 DEF Keeps, PInv

\* The restart of the timer.
LEMMA RestartKeeps ==
  ASSUME PInv, NEW o \in Ops, Restart(o)
  PROVE  Keeps
<1> USE LockoutAssumption
<1>1. /\ calling[o] = "called"
      /\ calling' = [calling EXCEPT ![o] = "no"]
      /\ armed' = [armed EXCEPT ![o] = TRUE] /\ left' = [left EXCEPT ![o] = LockTicks]
      /\ UNCHANGED <<touch, sel, asleep, slept, drawn, lock, err, sem, cd, woken, tick, shown,
                     since, raced, outrun>>
  BY DEF Restart, rt_timer_start, touchVars, cdVars, history
<1>2. LTypeOK'
  BY <1>1 DEF PInv, LTypeOK
<1>3. PlaceInv'
  BY <1>1 DEF PInv, LTypeOK, PlaceInv
<1>4. TextInv => TextInv'
  BY <1>1 DEF PInv, LTypeOK, TextInv, Kept
<1> QED BY <1>2, <1>3, <1>4 DEF Keeps, PInv

(***************************************************************************)
(* A countdown thread begins: at least three ticks after the timer.        *)
(***************************************************************************)
LEMMA TakeKeeps ==
  ASSUME PInv, NEW o \in Ops, Take(o)
  PROVE  Keeps
<1> USE LockoutAssumption
<1>1. /\ asleep /\ cd[o] = "take" /\ sem[o] = 1 /\ touch = "sleep" /\ sel = o /\ ~ woken[o]
      /\ tick[o] \in 0 .. LockTicks
  BY DEF Take, MayCount, PInv, LTypeOK, PlaceInv
<1>2. /\ sem' = [sem EXCEPT ![o] = 0]
      /\ UNCHANGED <<touch, sel, asleep, slept, drawn, lock, err, armed, left, calling, woken, shown,
                     since, raced, outrun>>
  BY <1>1 DEF Take, touchVars, timerVars, history, PInv, LTypeOK
<1>3. \/ /\ tick' = [tick EXCEPT ![o] = 0] /\ cd' = [cd EXCEPT ![o] = "rest"]
         /\ tick[o] = 0
      \/ /\ tick' = [tick EXCEPT ![o] = LockTicks] /\ cd' = [cd EXCEPT ![o] = "rest"]
         /\ tick[o] # 0 /\ lock[o] = 1
      \/ /\ tick' = tick /\ cd' = [cd EXCEPT ![o] = "count"]
         /\ tick[o] # 0 /\ lock[o] # 1
  BY <1>1 DEF Take, LoopTest, PInv, LTypeOK
<1>4. LTypeOK'
  BY <1>2, <1>3 DEF PInv, LTypeOK
<1>5. PlaceInv'
  BY <1>1, <1>2, <1>3 DEF PInv, LTypeOK, PlaceInv
<1>6. ASSUME LongLockOut, TextInv PROVE TextInv'
  <2>1. ASSUME o \notin outrun PROVE tick[o] = LockTicks /\ (lock[o] = 0 => tick[o] >= left[o] + 3)
    BY <1>1, <1>6, <2>1 DEF PInv, LTypeOK, TextInv
  <2> QED BY <1>1, <1>2, <1>3, <1>6, <2>1 DEF PInv, LTypeOK, PlaceInv, TextInv, LongLockOut, Kept
<1> QED BY <1>4, <1>5, <1>6 DEF Keeps, PInv

(***************************************************************************)
(* It counts one tick, and stays behind the timer; or it sees the lock     *)
(* open and goes back to the start.                                        *)
(***************************************************************************)
LEMMA CountKeeps ==
  ASSUME PInv, NEW o \in Ops, Count(o)
  PROVE  Keeps
<1> USE LockoutAssumption
<1>1. asleep /\ cd[o] = "count" /\ woken[o] /\ sem[o] = 0 /\ tick[o] \in 1 .. LockTicks
  BY DEF Count, MayCount, PInv, LTypeOK, PlaceInv
<1>2. /\ woken' = [woken EXCEPT ![o] = FALSE]
      /\ shown' = [shown EXCEPT ![o] = IF lock[o] = 0 THEN tick[o] - 1 ELSE NoText]
      /\ UNCHANGED <<touch, sel, asleep, slept, drawn, lock, err, armed, left, calling, sem,
                     since, raced, outrun>>
  BY DEF Count, touchVars, timerVars, history
<1>3. \/ /\ tick' = [tick EXCEPT ![o] = 0] /\ cd' = [cd EXCEPT ![o] = "rest"]
         /\ tick[o] = 1
      \/ /\ tick' = [tick EXCEPT ![o] = LockTicks] /\ cd' = [cd EXCEPT ![o] = "rest"]
         /\ tick[o] # 1 /\ lock[o] = 1
      \/ /\ tick' = [tick EXCEPT ![o] = tick[o] - 1] /\ cd' = cd
         /\ tick[o] # 1 /\ lock[o] # 1
  BY <1>1 DEF Count, LoopTest, PInv, LTypeOK
<1>4. LTypeOK'
  <2>1. shown' \in [Ops -> {NoText} \cup 0 .. LockTicks - 1]
    BY <1>1, <1>2 DEF PInv, LTypeOK, NoText
  <2>2. tick' \in [Ops -> 0 .. LockTicks] /\ cd' \in [Ops -> {"take", "count", "rest"}]
    BY <1>1, <1>3 DEF PInv, LTypeOK
  <2> QED BY <1>2, <2>1, <2>2 DEF PInv, LTypeOK
<1>5. PlaceInv'
  BY <1>1, <1>2, <1>3 DEF PInv, LTypeOK, PlaceInv
<1>6. ASSUME LongLockOut, TextInv PROVE TextInv'
  <2>1. ASSUME o \notin outrun
        PROVE  tick[o] # 1 /\ (lock[o] = 0 => tick[o] - 1 >= left[o] + Kept(o))
    BY <1>1, <1>6, <2>1 DEF PInv, LTypeOK, TextInv, Kept
  <2> QED BY <1>1, <1>2, <1>3, <1>6, <2>1 DEF PInv, LTypeOK, PlaceInv, TextInv, Kept
<1> QED BY <1>4, <1>5, <1>6 DEF Keeps, PInv

(***************************************************************************)
(* What a tick does to the variables of the operations.                    *)
(***************************************************************************)
LEMMA PassesTypes ==
  ASSUME PInv, Passes
  PROVE  /\ left' \in [Ops -> 0 .. LockTicks] /\ since' \in [Ops -> 0 .. LockTicks]
         /\ woken' \in [Ops -> BOOLEAN] /\ cd' \in [Ops -> {"take", "count", "rest"}]
         /\ \A o \in Ops :
              /\ left'[o] = IF left[o] > 0 THEN left[o] - 1 ELSE 0
              /\ since'[o] = IF since[o] < LockTicks THEN since[o] + 1 ELSE since[o]
              /\ woken'[o] <=> cd[o] = "count"
              /\ cd'[o] = "count" <=> cd[o] = "count"
         /\ UNCHANGED <<touch, sel, lock, err, armed, calling, sem, tick, shown, raced, outrun>>
<1> USE LockoutAssumption
<1>1. /\ left' = [o \in Ops |-> IF left[o] > 0 THEN left[o] - 1 ELSE 0]
      /\ since' = [o \in Ops |-> IF since[o] < LockTicks THEN since[o] + 1 ELSE since[o]]
      /\ woken' = [o \in Ops |-> cd[o] = "count"]
      /\ UNCHANGED <<touch, sel, lock, err, armed, calling, sem, tick, shown, raced, outrun>>
  BY DEF Passes
<1>2. PICK R \in SUBSET {o \in Ops : cd[o] = "rest"} :
        cd' = [o \in Ops |-> IF o \in R THEN "take" ELSE cd[o]]
  BY DEF Passes
<1>3. left' \in [Ops -> 0 .. LockTicks] /\ since' \in [Ops -> 0 .. LockTicks]
  BY <1>1 DEF PInv, LTypeOK
<1>4. woken' \in [Ops -> BOOLEAN]
  BY <1>1
<1>5. \A o \in Ops : cd'[o] \in {"take", "count", "rest"} /\ (cd'[o] = "count" <=> cd[o] = "count")
  BY <1>2 DEF PInv, LTypeOK
<1> QED BY <1>1, <1>2, <1>3, <1>4, <1>5

(***************************************************************************)
(* A tick: who counts is woken, and whoever sleeps has nothing to do.      *)
(***************************************************************************)
LEMMA TickKeeps ==
  ASSUME PInv, Tick
  PROVE  Keeps
<1> USE LockoutAssumption
<1>1. Passes
  BY DEF Tick
<1>2. /\ asleep' \in BOOLEAN /\ slept' = asleep' /\ (~ asleep => ~ asleep')
      /\ asleep /\ ~ asleep' /\ touch = "sleep" => \A o \in Ops : sem[o] = 0
  BY DEF Tick, MayWake, PInv, LTypeOK
<1>3. drawn' \in 0 .. DrawTicks /\ (touch = "wrong" /\ ~ asleep => drawn' = drawn + 1)
  BY DEF Tick, WaitsForUser, PInv, LTypeOK
<1>4. asleep => \A o \in Ops :
        /\ ~ Due(o) /\ calling[o] = "no"
        /\ ~ (cd[o] = "count" /\ woken[o])
  BY DEF Tick, LowerReady, TimerBusy
<1>5. LTypeOK'
  BY <1>1, <1>2, <1>3, PassesTypes DEF PInv, LTypeOK
<1>6. PlaceInv'
  BY <1>1, <1>2, <1>4, PassesTypes DEF PInv, LTypeOK, PlaceInv
<1>7. ASSUME LongLockOut, TextInv, NEW o \in Ops, o \notin outrun, lock[o] = 0
      PROVE  /\ left'[o] + since'[o] = LockTicks
             /\ sem[o] > 0 => since'[o] >= IF touch = "wrong" THEN drawn' ELSE 3
             /\ cd[o] = "count" => tick[o] >= left'[o] + Kept(o)' + 1
             /\ sem[o] = 0 /\ shown[o] # tick[o] => touch = "sleep"
  <2>1. left'[o] + since'[o] = LockTicks
    BY <1>1, <1>7, PassesTypes DEF PInv, LTypeOK, TextInv
  <2>2. sem[o] > 0 => since'[o] >= IF touch = "wrong" THEN drawn' ELSE 3
    BY <1>1, <1>3, <1>7, PassesTypes DEF PInv, LTypeOK, PlaceInv, TextInv, LongLockOut
  <2>3. ASSUME cd[o] = "count" PROVE tick[o] >= left'[o] + Kept(o)' + 1
    <3>1. CASE asleep
      <4>1. left[o] > 0 /\ tick[o] >= left[o] + 3
        BY <1>4, <1>7, <2>3, <3>1 DEF PInv, LTypeOK, TextInv, Kept, Due
      <4> QED BY <1>1, <4>1, PassesTypes DEF Kept, PInv, LTypeOK
    <3>2. CASE ~ asleep
      <4>1. woken[o] /\ tick[o] >= left[o] + Kept(o) + 1
        BY <1>7, <2>3, <3>2 DEF PInv, LTypeOK, PlaceInv, TextInv
      <4> QED BY <1>1, <1>2, <3>2, <4>1, PassesTypes DEF Kept, PInv, LTypeOK
    <3> QED BY <3>1, <3>2
  <2>4. sem[o] = 0 /\ shown[o] # tick[o] => touch = "sleep"
    BY <1>4, <1>7 DEF PInv, LTypeOK, TextInv
  <2> QED BY <2>1, <2>2, <2>3, <2>4
<1>8. LongLockOut /\ TextInv => TextInv'
  BY <1>1, <1>7, PassesTypes DEF TextInv
<1> QED BY <1>5, <1>6, <1>8 DEF Keeps, PInv

(***************************************************************************)
(* The tick that finds the timer thread busy and ends the sleep: it may    *)
(* have kept a countdown thread from counting, for this one tick.          *)
(***************************************************************************)
LEMMA PreemptKeeps ==
  ASSUME PInv, TickPreempts
  PROVE  Keeps
<1> USE LockoutAssumption
<1>1. Passes /\ slept /\ asleep /\ asleep' = FALSE /\ slept' = FALSE /\ drawn' = 0
  BY DEF TickPreempts, PInv, LTypeOK
<1>2. \A o \in Ops : sem[o] = 0
  BY <1>1 DEF TickPreempts, MayWake, PInv, LTypeOK, PlaceInv
<1>3. LTypeOK'
  <2>1. drawn' \in 0 .. DrawTicks
    BY <1>1
  <2>2. asleep' \in BOOLEAN /\ slept' \in BOOLEAN /\ ~ slept'
    BY <1>1
  <2> QED BY <1>1, <2>1, <2>2, PassesTypes DEF PInv, LTypeOK
<1>4. PlaceInv'
  BY <1>1, <1>2, PassesTypes DEF PInv, LTypeOK, PlaceInv
<1>5. ASSUME TextInv, NEW o \in Ops, o \notin outrun, lock[o] = 0
      PROVE  /\ left'[o] + since'[o] = LockTicks
             /\ cd[o] = "count" => tick[o] >= left'[o] + Kept(o)' + 1
             /\ shown[o] # tick[o] => touch = "sleep"
  <2>1. left'[o] + since'[o] = LockTicks
    BY <1>1, <1>5, PassesTypes DEF PInv, LTypeOK, TextInv
  <2>2. ASSUME cd[o] = "count" PROVE tick[o] >= left'[o] + Kept(o)' + 1
    <3>1. tick[o] >= left[o] + 3
      BY <1>1, <1>5, <2>2 DEF PInv, LTypeOK, TextInv, Kept
    <3> QED BY <1>1, <3>1, PassesTypes DEF Kept, PInv, LTypeOK
  <2>3. shown[o] # tick[o] => touch = "sleep"
    BY <1>1, <1>2, <1>5 DEF TextInv
  <2> QED BY <2>1, <2>2, <2>3
<1>6. TextInv => TextInv'
  BY <1>1, <1>2, <1>5, PassesTypes DEF TextInv
<1> QED BY <1>3, <1>4, <1>6 DEF Keeps, PInv

(***************************************************************************)
(* Every step keeps the invariants.                                        *)
(***************************************************************************)
LEMMA PInvNext ==
  ASSUME PInv, [LNext]_lvars
  PROVE  Keeps
<1>1. CASE TouchStep
  BY <1>1, MoveKeeps, WrongKeeps
<1>2. ASSUME NEW o \in Ops, TimerThread(o) \/ Take(o) \/ Count(o)
      PROVE  Keeps
  BY <1>2, ExpireKeeps, TimeoutKeeps, RestartKeeps, TakeKeeps, CountKeeps DEF TimerThread
<1>3. CASE Tick \/ TickPreempts
  BY <1>3, TickKeeps, PreemptKeeps
<1>4. CASE UNCHANGED lvars
  BY <1>4 DEF lvars, touchVars, timerVars, cdVars, history, Keeps, PInv, LTypeOK, PlaceInv, TextInv,
              Kept
<1> QED BY <1>1, <1>2, <1>3, <1>4 DEF LNext

(***************************************************************************)
(* The types, and with them: no semaphore of a countdown thread counts     *)
(* above one, so that no lock-out leaves a second countdown behind         *)
(* (touch_thread, main.c:310).                                             *)
(***************************************************************************)
THEOREM LockoutTypes == LSpec => []LTypeOK
<1>1. LInit => PInv
  BY PInvInit
<1>2. PInv /\ [LNext]_lvars => PInv'
  BY PInvNext DEF Keeps
<1>3. PInv => LTypeOK
  BY DEF PInv
<1> QED BY <1>1, <1>2, <1>3, PTL DEF LSpec

(***************************************************************************)
(* The time down_count shows is that of this lock-out, and no earlier than *)
(* the timer's, whatever dialogs and priorities delay (down_count,         *)
(* main.c:65; err_reg_thread, err_del_thread, err_psd_thread); unless the  *)
(* operation was once locked between the call of its function and the      *)
(* restart of its timer.                                                   *)
(***************************************************************************)
THEOREM TextNotEarly == ASSUME LongLockOut PROVE LSpec => []CountdownNotEarly
<1>1. LInit => PInv /\ TextInv
  BY PInvInit
<1>2. PInv /\ TextInv /\ [LNext]_lvars => PInv' /\ TextInv'
  BY PInvNext DEF Keeps
<1>3. PInv /\ TextInv => CountdownNotEarly
  <2> SUFFICES ASSUME PInv, TextInv, touch = "show", ~ asleep, lock[sel] = 0, sel \notin outrun
               PROVE  shown[sel] >= left[sel]
    BY DEF CountdownNotEarly, Running
  <2>1. sel \in Ops /\ sem[sel] = 0
    BY DEF PInv, LTypeOK, PlaceInv
  <2>2. shown[sel] = tick[sel] /\ tick[sel] >= left[sel] + 2
    BY <2>1 DEF PInv, LTypeOK, TextInv, Kept
  <2> QED BY <2>1, <2>2 DEF PInv, LTypeOK
<1> QED BY <1>1, <1>2, <1>3, PTL DEF LSpec
=============================================================================
