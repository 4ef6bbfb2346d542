------------------------------- MODULE Eeprom -------------------------------
(***************************************************************************)
(* The 24C02 chip behind bsp/24cxx.c and the layout the application gives  *)
(* it: one byte with a "formatted" mark and the number of registered tags, *)
(* MaxTags slots of four bytes, the password flag and the password.        *)
(*                                                                         *)
(* The layout is kept in proportion and its sizes are parameters: in the   *)
(* program MaxTags = 56, CntMod = 64 and the chip has 4 * 64 bytes.  As in *)
(* the program, the slots are numbered from 1 and the LAST byte of slot    *)
(* MaxTags is the password flag.                                           *)
(***************************************************************************)
EXTENDS Integers, FiniteSets

CONSTANTS
  MaxTags,   \* the limit regist_tag tests the count against
  CntMod     \* Get_Tag_Cnt + 1: values the count field of a byte can have

(***************************************************************************)
(* The count field can hold the limit, and the chip has room for the       *)
(* slots, the flag and the password: 56 + 2 <= 64.                         *)
(***************************************************************************)
ASSUME LayoutAssumption ==
  /\ MaxTags \in Nat \ {0}
  /\ CntMod \in Nat
  /\ MaxTags + 2 <= CntMod

EESIZE == 4 * CntMod
Addr == 0 .. EESIZE - 1
Byte == 0 .. 4 * CntMod - 1
ErasedByte == 4 * CntMod - 1          \* 0xFF

Mod_Cnt_Tag_Add == 0
Base_Add == 1
Tag_Stored_Base_Add0(c) == (c * 4) + Base_Add        \* slip: slots from 0
Tag_Stored_Base_Add(c) == (c * 4) - 4 + Base_Add
PSW_FLAG == 4 * MaxTags
PSW_ADD_BASE == 4 * MaxTags + 1

(***************************************************************************)
(* The two fields of a byte: the low bits (mask Get_Tag_Cnt) are a count,  *)
(* the two high bits (mask If_Modified) are 10 when the chip is formatted. *)
(***************************************************************************)
CountOf(b) == b % CntMod
IsModified(b) == b \div CntMod = 2
Modified == 2 * CntMod
CountByteWide(c) == c + 2 * Modified             \* slip: the mark one bit too high
CountByte(c) == c + Modified

(***************************************************************************)
(* Writing outside the chip selects a device address nothing answers: the  *)
(* byte is lost.  Reading there ends in a current-address read of the real *)
(* chip, whose address counter is wherever the last access left it.        *)
(***************************************************************************)
WriteByte(m, a, b) == IF a \in Addr THEN [m EXCEPT ![a] = b] ELSE m
ReadsOf(m, a) == IF a \in Addr THEN {m[a]} ELSE Byte

TagByte == 0 .. 3
TagId == [TagByte -> Byte]
SlotAddr(j, i) == Tag_Stored_Base_Add(j) + i
SlotId(m, j) == [i \in TagByte |-> m[SlotAddr(j, i)]]

(***************************************************************************)
(* AT24CXX_Init: a chip whose mark is not 10 gets an empty count.          *)
(***************************************************************************)
Formatted(m) ==
  IF IsModified(m[Mod_Cnt_Tag_Add])
  THEN m
  ELSE WriteByte(m, Mod_Cnt_Tag_Add, Modified)

Erased == [a \in Addr |-> ErasedByte]

(***************************************************************************)
(* The bytes no tag operation has any business with.                       *)
(***************************************************************************)
PasswordArea == {a \in Addr : a >= PSW_FLAG}
=============================================================================
