---------------------------- MODULE DoorStorage ----------------------------
(***************************************************************************)
(* Everything the touch thread and the boot code keep in the EEPROM, over  *)
(* restarts: the tag operations of TagStore, the password and its flag     *)
(* (bsp/password.c: psw_check, password_setting, Match_psw), the dispatch  *)
(* of user/main.c that asks for the password first, and loss of power      *)
(* between any two bytes written.                                          *)
(***************************************************************************)
EXTENDS TagStore

CONSTANTS
  Passwords,    \* what users type and confirm with OK: six digits
  PswSet,       \* the value 0xaa of the flag: a password has been set
  MaxCrashes    \* bound: how often the power fails

PswByteNo == 0 .. 5
Psw == [PswByteNo -> Byte]
NoPsw == [b \in PswByteNo |-> ErasedByte]

ASSUME PasswordAssumption ==
  /\ Passwords \subseteq Psw \ {NoPsw}
  /\ PswSet \in Byte \ {0, ErasedByte}
  /\ MaxCrashes \in Nat

VARIABLES
  phase,     \* "setup": psw_check asks for a password, "flag": it is about
             \* to write the flag, "run": the threads run
  session,   \* what the user, whose password matched, is doing
  newpsw,    \* password_setting's psw[6]
  n,         \* its loop counter: bytes of newpsw written
  crashes,   \* power failures so far
  lastSet,   \* history: the password last set, NoPsw before a set-up ended
  torn,      \* history: power failed while a password was being written
  before,    \* history: the tags, without the one being changed, matched
             \* when the last tag operation began
  copies     \* history: how many slots held the tag it deletes

pswVars == <<phase, session, newpsw, n, lastSet, torn>>
history == <<before, copies>>
allVars == <<vars, pswVars, crashes, history>>

StoredPsw(m) == [b \in PswByteNo |-> m[PSW_ADD_BASE + b]]
Matched(m) == {t \in Cards : tag_match(m, t)}

(***************************************************************************)
(* rt_hw_board_init formats the chip if need be, then main calls psw_check.*)
(***************************************************************************)
BootPhase(m) == IF m[PSW_FLAG] = PswSet THEN "run" ELSE "setup"

SInit ==
  /\ Init
  /\ phase = BootPhase(ee)
  /\ session = "none" /\ newpsw = NoPsw /\ n = 0
  /\ crashes = 0
  /\ lastSet = NoPsw /\ torn = FALSE /\ before = {} /\ copies = 0

-----------------------------------------------------------------------------
(***************************************************************************)
(* Passwords.  password_setting is called by psw_check at boot and by the  *)
(* touch thread when Match_psw returned 1; only psw_check writes the flag. *)
(***************************************************************************)
Writing == session = "setpsw"

EnterNewPsw(p) ==
  /\ phase = "setup" \/ (phase = "run" /\ session = "verified")
  /\ session \in {"none", "verified"}
  /\ session' = "setpsw" /\ newpsw' = p /\ n' = 0
  /\ UNCHANGED <<vars, phase, crashes, lastSet, torn, history>>

CancelSetup ==
  /\ phase = "setup" /\ session = "none"
  /\ phase' = "run"
  /\ UNCHANGED <<vars, session, newpsw, n, crashes, lastSet, torn, history>>

WritePswByteShort ==                                 \* slip: i < 5 in the loop
  /\ Writing
  /\ ee' = WriteByte(ee, PSW_ADD_BASE + n, newpsw[n])
  /\ IF n < 4
     THEN n' = n + 1 /\ UNCHANGED <<phase, session, newpsw, lastSet, torn>>
     ELSE /\ session' = "none" /\ n' = 0 /\ torn' = FALSE
          /\ phase' = IF phase = "setup" THEN "flag" ELSE "run"
          /\ newpsw' = IF phase = "setup" THEN newpsw ELSE NoPsw
          /\ lastSet' = IF lastSet = NoPsw THEN NoPsw ELSE newpsw
  /\ UNCHANGED <<op, tag, cnt, k, z, x, i, crashes, history>>

WritePswByte ==
  /\ Writing
  /\ ee' = WriteByte(ee, PSW_ADD_BASE + n, newpsw[n])
  /\ IF n < 5
     THEN n' = n + 1 /\ UNCHANGED <<phase, session, newpsw, lastSet, torn>>
     ELSE /\ session' = "none" /\ n' = 0
          /\ IF phase = "setup"
             THEN phase' = "flag" /\ UNCHANGED <<newpsw, lastSet, torn>>
             ELSE /\ newpsw' = NoPsw /\ torn' = FALSE
                  /\ lastSet' = IF lastSet = NoPsw THEN NoPsw ELSE newpsw
                  /\ UNCHANGED phase
  /\ UNCHANGED <<op, tag, cnt, k, z, x, i, crashes, history>>

WriteFlagBase ==                            \* slip: the flag at PSW_ADD_BASE - 2
  /\ phase = "flag"
  /\ ee' = WriteByte(ee, PSW_ADD_BASE - 2, PswSet)
  /\ phase' = "run" /\ newpsw' = NoPsw
  /\ lastSet' = newpsw /\ torn' = FALSE
  /\ UNCHANGED <<op, tag, cnt, k, z, x, i, session, n, crashes, history>>

WriteFlag ==
  /\ phase = "flag"
  /\ ee' = WriteByte(ee, PSW_FLAG, PswSet)
  /\ phase' = "run" /\ newpsw' = NoPsw
  /\ lastSet' = newpsw /\ torn' = FALSE
  /\ UNCHANGED <<op, tag, cnt, k, z, x, i, session, n, crashes, history>>

(***************************************************************************)
(* A button was touched, Match_psw compared what the user typed with the   *)
(* stored bytes, and the branch for "matched" goes on to one of the three  *)
(* operations.                                                             *)
(***************************************************************************)
Match_psw(p) ==
  /\ phase = "run" /\ session = "none"
  /\ p = StoredPsw(ee)
  /\ session' \in {"register", "delete", "verified"}
  /\ UNCHANGED <<vars, phase, newpsw, n, crashes, lastSet, torn, history>>

(***************************************************************************)
(* Back leaves Register_New_Tag and Delete_registered_Tag; the password    *)
(* dialog is left with B/D.                                                *)
(***************************************************************************)
Back ==
  /\ session \in {"register", "delete", "verified"} /\ op = "idle"
  /\ session' = "none"
  /\ UNCHANGED <<vars, phase, newpsw, n, crashes, lastSet, torn, history>>

-----------------------------------------------------------------------------
(***************************************************************************)
(* Tag operations, any number of them after one password.                  *)
(***************************************************************************)
BeginTagOp(t) ==
  /\ \/ session = "register" /\ RegistCount(t)
     \/ session = "delete" /\ DeleteFirst(t)
  /\ copies' = Cardinality(Matches(ee, StoredCnt(ee), t))
  /\ before' = Matched(ee) \ {t}
  /\ UNCHANGED <<pswVars, crashes>>

TagStep ==
  /\ Step
  /\ UNCHANGED <<pswVars, crashes, history>>

(***************************************************************************)
(* The power fails and comes back: RAM is lost, the board boots.           *)
(***************************************************************************)
PowerFail ==
  /\ crashes < MaxCrashes
  /\ crashes' = crashes + 1
  /\ ee' = Formatted(ee)
  /\ Idle
  /\ phase' = BootPhase(ee)
  /\ session' = "none" /\ newpsw' = NoPsw /\ n' = 0
  /\ torn' = (torn \/ Writing)
  /\ UNCHANGED <<lastSet, history>>

SNext ==
  \/ \E p \in Passwords : EnterNewPsw(p) \/ Match_psw(p)
  \/ CancelSetup \/ WritePswByte \/ WriteFlag \/ Back
  \/ \E t \in Cards : BeginTagOp(t)
  \/ TagStep
  \/ PowerFail

SSpec == SInit /\ [][SNext]_allVars

-----------------------------------------------------------------------------
(***************************************************************************)
(* Properties                                                              *)
(***************************************************************************)

(***************************************************************************)
(* The types of the variables.  A power failure costs at most one slot: a  *)
(* half registered tag or a second copy of a tag that was being moved      *)
(* (regist_tag, rc522_function.c:776; delete_registered_tag, 852).         *)
(***************************************************************************)
STypeOK ==
  /\ TypeOK
  /\ phase \in {"setup", "flag", "run"}
  /\ session \in {"none", "setpsw", "register", "delete", "verified"}
  /\ newpsw \in Passwords \cup {NoPsw}
  /\ n \in PswByteNo
  /\ crashes \in 0 .. MaxCrashes
  /\ lastSet \in Passwords \cup {NoPsw}
  /\ torn \in BOOLEAN
  /\ before \in SUBSET Cards
  /\ copies \in 0 .. CntMod
  /\ op = "idle" => StoredCnt(ee) <= Cardinality(Cards) + crashes

(***************************************************************************)
(* Once a password was set up, no boot offers to set one without asking    *)
(* for the old one (psw_check), whatever tags were registered and deleted  *)
(* and wherever the power failed: the flag is next to the tag slots.       *)
(***************************************************************************)
SetupOnlyOnce == phase = "setup" => lastSet = NoPsw

(***************************************************************************)
(* The password that was last set is the one stored, unless the power      *)
(* failed while password_setting was writing another one.                  *)
(***************************************************************************)
PasswordKept ==
  lastSet # NoPsw /\ ~ torn /\ ~ Writing => StoredPsw(ee) = lastSet

(***************************************************************************)
(* The order of the writes of regist_tag and delete_registered_tag keeps   *)
(* every other tag: what tag_match would find after a power failure at any *)
(* byte includes the tags it found before the operation, except the one    *)
(* operated on -- as long as the tag being deleted was in one slot only.   *)
(***************************************************************************)
OthersSurvive == copies <= 1 => before \subseteq Matched(ee)

(***************************************************************************)
(* delete_registered_tag counts the copies of the tag it clears ("record   *)
(* how many IDs are deleted") and so means to delete all of them and       *)
(* nothing else.                                                           *)
(***************************************************************************)
DeleteKeepsOthers == before \subseteq Matched(ee)
=============================================================================
