---------------------------- MODULE ShellStorage ----------------------------
(***************************************************************************)
(* DEL_ALL_TAG typed on the serial console (thread tshell, priority 20),   *)
(* and the tag operations of the touch thread (priority 3).  Nothing keeps *)
(* them apart.  A tag operation runs to its end before the shell goes on,  *)
(* but it may begin at any point of the shell's: between two transactions  *)
(* on the I2C bus, in the middle of one, or while the chip is still busy   *)
(* writing a byte and answers nobody.                                      *)
(*                                                                         *)
(* A transaction that is broken into has no effect, and nobody notices:    *)
(* the driver ignores missing acknowledgements.  A read that breaks in, or *)
(* is broken into, may return anything.                                    *)
(***************************************************************************)
EXTENDS TagStore

CONSTANTS
  PswSet,     \* the password flag
  PswByte     \* each byte of the password

ASSUME ShellAssumption == PswSet \in Byte /\ PswByte \in Byte

VARIABLES
  sh,         \* where the shell is in DEL_ALL_TAG
  scnt,       \* its local cnt
  j,          \* its local j, 0 when it writes the count
  b,          \* its local i
  bus,        \* the shell's transaction: "free", "open", "lost", or "busy"
  fresh,      \* history: the tags presented for registering since the last
              \* command began
  disturbed   \* history: a tag operation began during a transaction, or
              \* while the chip was busy

shellVars == <<sh, scnt, j, b>>
shVars == <<vars, shellVars, bus, fresh, disturbed>>

(***************************************************************************)
(* The program has run: a password was set.                                *)
(***************************************************************************)
WithPassword(m) ==
  [a \in Addr |-> IF a = PSW_FLAG THEN PswSet
                  ELSE IF a \in PSW_ADD_BASE .. PSW_ADD_BASE + 5 THEN PswByte
                  ELSE m[a]]

ShInit ==
  /\ ee = WithPassword(Formatted(Erased))
  /\ op = "idle" /\ tag = NoTag
  /\ cnt = 0 /\ k = 0 /\ z = 0 /\ x = 0 /\ i = 0
  /\ sh = "prompt" /\ scnt = 0 /\ j = 0 /\ b = 0
  /\ bus = "free" /\ fresh = {} /\ disturbed = FALSE

-----------------------------------------------------------------------------
(***************************************************************************)
(* DEL_ALL_TAG.  Each byte is read or written in a transaction with a      *)
(* beginning and an end; after a write comes Delay_ms(10).                 *)
(***************************************************************************)
ShellRuns == op = "idle" /\ UNCHANGED <<op, tag, cnt, k, z, x, i>>

ShellBegin ==
  /\ ShellRuns
  /\ sh = "prompt"
  /\ sh' = "read" /\ bus' = "open" /\ fresh' = {}
  /\ UNCHANGED <<ee, scnt, j, b, disturbed>>

CountRead ==
  IF bus = "open" THEN {StoredCnt(ee)} ELSE 0 .. CntMod - 1

ShellCount ==
  /\ ShellRuns
  /\ sh = "read"
  /\ scnt' \in CountRead
  /\ IF scnt' = 0 THEN sh' = "prompt" /\ j' = 0 ELSE sh' = "clear" /\ j' = 1
  /\ b' = 0 /\ bus' = "free"
  /\ UNCHANGED <<ee, fresh, disturbed>>

ShellWrite ==
  /\ ShellRuns
  /\ sh = "clear"
  /\ sh' = "write" /\ bus' = "open"
  /\ UNCHANGED <<ee, scnt, j, b, fresh, disturbed>>

ShellWritten ==
  /\ ShellRuns
  /\ sh = "write"
  /\ sh' = "delay"
  /\ \/ /\ bus = "open" /\ bus' = "busy"
        /\ ee' = IF j = 0
                 THEN WriteByte(ee, Mod_Cnt_Tag_Add, CountByte(0))
                 ELSE WriteByte(ee, SlotAddr(j, b), 0)
     \/ /\ bus = "lost" /\ bus' = "free"
        /\ UNCHANGED ee
  /\ UNCHANGED <<scnt, j, b, fresh, disturbed>>

ShellNextPast ==                           \* slip: one slot too many
  \/ /\ b < 3
     /\ sh' = "clear" /\ b' = b + 1
     /\ UNCHANGED <<scnt, j>>
  \/ /\ b = 3 /\ j \in 1 .. scnt
     /\ sh' = "clear" /\ b' = 0 /\ j' = j + 1
     /\ UNCHANGED scnt
  \/ /\ b = 3 /\ j = scnt + 1
     /\ sh' = "clear" /\ j' = 0
     /\ UNCHANGED <<scnt, b>>
  \/ /\ b = 3 /\ j = 0
     /\ sh' = "prompt" /\ scnt' = 0 /\ b' = 0
     /\ UNCHANGED j

ShellNext ==
  \/ /\ b < 3
     /\ sh' = "clear" /\ b' = b + 1
     /\ UNCHANGED <<scnt, j>>
  \/ /\ b = 3 /\ j \in 1 .. scnt - 1
     /\ sh' = "clear" /\ b' = 0 /\ j' = j + 1
     /\ UNCHANGED scnt
  \/ /\ b = 3 /\ j = scnt
     /\ sh' = "clear" /\ j' = 0
     /\ UNCHANGED <<scnt, b>>
  \/ /\ b = 3 /\ j = 0
     /\ sh' = "prompt" /\ scnt' = 0 /\ b' = 0
     /\ UNCHANGED j

ShellDelay ==
  /\ ShellRuns
  /\ sh = "delay"
  /\ ShellNext
  /\ bus' = "free"
  /\ UNCHANGED <<ee, fresh, disturbed>>

-----------------------------------------------------------------------------
(***************************************************************************)
(* A tag operation begins.  When it breaks in, tag_match sees wrong bytes  *)
(* and may miss a registered tag, and delete_registered_tag may take every *)
(* slot the count can express for a registered one.  (regist_tag's own     *)
(* read of the count comes many milliseconds after tag_match's.)           *)
(*                                                                         *)
(* Room and OneDisturbance are bounds: what a full store does to the flag  *)
(* needs no shell, and no tag operation follows one that broke in.         *)
(***************************************************************************)
Disturbing == bus \in {"open", "busy"}
Room == StoredCnt(ee) + 1 < MaxTags
OneDisturbance == ~ disturbed

BeginOp ==
  /\ OneDisturbance
  /\ disturbed' = Disturbing
  /\ bus' = IF bus \in {"open", "lost"} THEN "lost" ELSE "free"
  /\ UNCHANGED shellVars

TouchRegister(t) ==
  /\ BeginOp
  /\ Room
  /\ RegistCount(t) \/ (Disturbing /\ RegistWrite(t))
  /\ fresh' = fresh \cup {t}

TouchDelete(t) ==
  /\ BeginOp
  /\ \/ DeleteFirst(t)
     \/ Disturbing /\ DeleteScan(CountOf(ErasedByte), t)
  /\ UNCHANGED fresh

TouchWrite ==
  /\ Step
  /\ UNCHANGED <<shellVars, bus, fresh, disturbed>>

ShNext ==
  \/ ShellBegin \/ ShellCount \/ ShellWrite \/ ShellWritten \/ ShellDelay
  \/ \E t \in Cards : TouchRegister(t) \/ TouchDelete(t)
  \/ TouchWrite

ShSpec == ShInit /\ [][ShNext]_shVars

-----------------------------------------------------------------------------
(***************************************************************************)
(* Properties                                                              *)
(***************************************************************************)

(***************************************************************************)
(* The types of the variables.                                             *)
(***************************************************************************)
ShTypeOK ==
  /\ TypeOK
  /\ sh \in {"prompt", "read", "clear", "write", "delay"}
  /\ scnt \in 0 .. CntMod - 1 /\ j \in 0 .. CntMod - 1 /\ b \in TagByte
  /\ bus \in {"free", "open", "lost", "busy"}
  /\ fresh \subseteq Cards /\ disturbed \in BOOLEAN

PasswordIntact(m) ==
  /\ m[PSW_FLAG] = PswSet
  /\ \A a \in PSW_ADD_BASE .. PSW_ADD_BASE + 5 : m[a] = PswByte

(***************************************************************************)
(* When DEL_ALL_TAG has run and no tag operation began in the middle of a  *)
(* transaction, the tags it found registered do not come back: any number  *)
(* of operations may have come between its transactions, registering tags  *)
(* behind the slots it clears, deleting and shifting half cleared ones,    *)
(* and more operations and commands may follow.                            *)
(***************************************************************************)
DeletedTagsStayDeleted ==
  sh = "prompt" /\ op = "idle" /\ ~ disturbed =>
    \A t \in Cards : tag_match(ee, t) => t \in fresh

(***************************************************************************)
(* As long as no tag operation began in the middle of a transaction, the   *)
(* password and its flag stay what they were: neither clearing with a      *)
(* count that is out of date, nor shifting slots that were cleared in the  *)
(* meantime, reaches them.                                                 *)
(***************************************************************************)
UndisturbedKeepsPassword == ~ disturbed => PasswordIntact(ee)
=============================================================================
