------------------------------ MODULE TagStore ------------------------------
(***************************************************************************)
(* Registering and deleting tags as the touch thread does it, one action   *)
(* per byte it writes to the EEPROM (bsp/rc522_function.c: tag_match,      *)
(* regist_tag, delete_registered_tag and their two callers).  The reads    *)
(* between two writes belong to the action of the write they precede: the  *)
(* touch thread has the highest application priority and does not yield    *)
(* inside these functions.                                                 *)
(***************************************************************************)
EXTENDS Eeprom

CONSTANT Cards      \* the tags that are ever presented to the reader

ASSUME CardsAssumption == Cards \subseteq TagId

VARIABLES
  ee,     \* the contents of the chip
  op,     \* where the touch thread is in a tag operation
  tag,    \* tag_id, the argument of the operation
  cnt,    \* local cnt of regist_tag and delete_registered_tag
  k,      \* local k of delete_registered_tag: the count after it
  z,      \* local z: the slot being cleared, then the last one cleared
  x,      \* local x: slots moved so far
  i       \* byte within the slot (i of regist_tag, i and y of delete)

vars == <<ee, op, tag, cnt, k, z, x, i>>

NoTag == [b \in TagByte |-> 0]

(***************************************************************************)
(* tag_match and the scan of delete_registered_tag compare the tag with    *)
(* the slots 1 .. c in this order.                                         *)
(***************************************************************************)
Matches(m, c, t) == {j \in 1 .. c : SlotId(m, j) = t}
StoredCnt(m) == CountOf(m[Mod_Cnt_Tag_Add])
tag_matchShort(m, t) == Matches(m, StoredCnt(m) - 1, t) # {}   \* slip: j < cnt
tag_match(m, t) == Matches(m, StoredCnt(m), t) # {}

Init ==
  /\ ee = Formatted(Erased)
  /\ op = "idle" /\ tag = NoTag
  /\ cnt = 0 /\ k = 0 /\ z = 0 /\ x = 0 /\ i = 0

Idle ==
  /\ op' = "idle" /\ tag' = NoTag
  /\ cnt' = 0 /\ k' = 0 /\ z' = 0 /\ x' = 0 /\ i' = 0

-----------------------------------------------------------------------------
(***************************************************************************)
(* Register_New_Tag: a tag that tag_match does not find goes to            *)
(* regist_tag, which writes the new count before the tag's four bytes.     *)
(***************************************************************************)
NewCntSame(c) == c                                      \* slip: no cnt += 1
NewCnt(c) == IF c + 1 > MaxTags THEN 0 ELSE c + 1

RegistWrite(t) ==
  /\ op = "idle"
  /\ op' = "regist" /\ tag' = t /\ i' = 0
  /\ cnt' = NewCnt(StoredCnt(ee))
  /\ ee' = WriteByte(ee, Mod_Cnt_Tag_Add, CountByte(cnt'))
  /\ UNCHANGED <<k, z, x>>

RegistCount(t) == ~ tag_match(ee, t) /\ RegistWrite(t)

RegistByteShort ==                                      \* slip: i < 3 in the loop
  /\ op = "regist"
  /\ ee' = WriteByte(ee, SlotAddr(cnt, i), tag[i])
  /\ IF i < 2
     THEN i' = i + 1 /\ UNCHANGED <<op, tag, cnt, k, z, x>>
     ELSE Idle

RegistByte ==
  /\ op = "regist"
  /\ ee' = WriteByte(ee, SlotAddr(cnt, i), tag[i])
  /\ IF i < 3
     THEN i' = i + 1 /\ UNCHANGED <<op, tag, cnt, k, z, x>>
     ELSE Idle

-----------------------------------------------------------------------------
(***************************************************************************)
(* delete_registered_tag: every slot that holds the tag is cleared, then   *)
(* the slots after the LAST of them move down by one, then the count is    *)
(* written.  c is the count it read at its beginning.                      *)
(***************************************************************************)
IsFirst(j, S) == j \in S /\ \A l \in S : j <= l

DeleteScan(c, t) ==
  /\ op = "idle"
  /\ \E j \in 1 .. c :
       /\ IsFirst(j, Matches(ee, c, t))
       /\ op' = "zero" /\ tag' = t /\ i' = 0 /\ x' = 0
       /\ cnt' = c /\ k' = c - 1 /\ z' = j
  /\ UNCHANGED ee

DeleteFirst(t) == DeleteScan(StoredCnt(ee), t)

DeleteZero ==
  /\ op = "zero"
  /\ ee' = WriteByte(ee, SlotAddr(z, i), 0)
  /\ LET rest == {j \in Matches(ee, cnt, tag) : j > z} IN
       \/ /\ i < 3
          /\ i' = i + 1
          /\ UNCHANGED <<op, tag, cnt, k, z, x>>
       \/ /\ i = 3
          /\ i' = 0
          /\ \E j \in 1 .. cnt :
               /\ IsFirst(j, rest)
               /\ z' = j /\ k' = k - 1
          /\ UNCHANGED <<op, tag, cnt, x>>
       \/ /\ i = 3 /\ rest = {}
          /\ i' = 0
          /\ op' = "shift"
          /\ UNCHANGED <<tag, cnt, k, z, x>>

DeleteShiftShort ==                                     \* slip: y < 3 in the loop
  /\ op = "shift"
  /\ \E b \in ReadsOf(ee, SlotAddr(z + x + 1, i)) :
       ee' = WriteByte(ee, SlotAddr(z + x, i), b)
  /\ i' = (i + 1) % 3
  /\ x' = IF i = 2 THEN x + 1 ELSE x
  /\ op' = IF i = 2 /\ x = cnt - z THEN "count" ELSE "shift"
  /\ UNCHANGED <<tag, cnt, k, z>>

DeleteShift ==
  /\ op = "shift"
  /\ \E b \in ReadsOf(ee, SlotAddr(z + x + 1, i)) :
       ee' = WriteByte(ee, SlotAddr(z + x, i), b)
  /\ \/ /\ i < 3
        /\ i' = i + 1
        /\ UNCHANGED <<op, x>>
     \/ /\ i = 3 /\ x < cnt - z
        /\ i' = 0 /\ x' = x + 1
        /\ UNCHANGED op
     \/ /\ i = 3 /\ x = cnt - z
        /\ i' = 0 /\ x' = x + 1
        /\ op' = "count"
  /\ UNCHANGED <<tag, cnt, k, z>>

DeleteCountKept ==                                      \* slip: no cnt = k
  /\ op = "count"
  /\ ee' = WriteByte(ee, Mod_Cnt_Tag_Add, CountByte(cnt))
  /\ Idle

DeleteCount ==
  /\ op = "count"
  /\ ee' = WriteByte(ee, Mod_Cnt_Tag_Add, CountByte(k))
  /\ Idle

-----------------------------------------------------------------------------
Step == RegistByte \/ DeleteZero \/ DeleteShift \/ DeleteCount

Next ==
  \/ \E t \in Cards : RegistCount(t) \/ DeleteFirst(t)
  \/ Step

Spec == Init /\ [][Next]_vars
-----------------------------------------------------------------------------
(***************************************************************************)
(* Properties                                                              *)
(***************************************************************************)

(***************************************************************************)
(* The variables hold what the C variables can hold.                       *)
(***************************************************************************)
TypeOK ==
  /\ ee \in [Addr -> Byte]
  /\ op \in {"idle", "regist", "zero", "shift", "count"}
  /\ tag \in TagId
  /\ cnt \in 0 .. CntMod - 1
  /\ k \in 0 .. CntMod - 1
  /\ z \in 0 .. CntMod - 1
  /\ x \in 0 .. CntMod
  /\ i \in TagByte

(***************************************************************************)
(* The slots that hold registered tags at each point of an operation.      *)
(* While a tag is being registered its slot does not count yet although    *)
(* the stored count already includes it; while one is being deleted the    *)
(* cleared slot, and then the slot being overwritten, does not count.      *)
(***************************************************************************)
LiveSlots ==
  CASE op = "idle"   -> 1 .. StoredCnt(ee)
    [] op = "regist" -> 1 .. cnt - 1
    [] op = "zero"   -> (1 .. cnt) \ {z}
    [] op = "shift"  -> (1 .. cnt) \ {z + x}
    [] op = "count"  -> 1 .. cnt - 1

Registered == {SlotId(ee, j) : j \in LiveSlots}

(***************************************************************************)
(* Shifting copies a slot byte by byte over the one before it: a hazard is *)
(* that some tag is in neither while the copy is half done, or that one    *)
(* tag ends up in two slots.  No two live slots hold the same tag, the tag *)
(* being registered or deleted is in none of them, and all hold tags that  *)
(* were really presented.                                                  *)
(***************************************************************************)
LiveSlotsDistinct ==
  /\ \A j, l \in LiveSlots : SlotId(ee, j) = SlotId(ee, l) => j = l
  /\ \A j \in LiveSlots : SlotId(ee, j) \in Cards
  /\ op # "idle" => \A j \in LiveSlots : SlotId(ee, j) # tag

(***************************************************************************)
(* What makes LiveSlotsDistinct inductive.  During an operation the count  *)
(* read at its beginning is still the stored one and its locals point at   *)
(* counted slots; the slot being written agrees, up to the byte reached,   *)
(* with where its bytes come from; and the store never gets full.          *)
(***************************************************************************)
CountInv ==
  /\ StoredCnt(ee) < MaxTags
  /\ op # "idle" => tag \in Cards /\ cnt = StoredCnt(ee) /\ cnt > 0
  /\ op \in {"zero", "shift", "count"} => k = cnt - 1
  /\ op \in {"zero", "shift"} => z \in 1 .. cnt
  /\ op = "zero" => x = 0
  /\ op = "shift" => x \in 0 .. cnt - z

WrittenInv ==
  /\ op = "regist" => \A b \in TagByte : b < i => ee[SlotAddr(cnt, b)] = tag[b]
  /\ op = "shift" /\ z + x < cnt =>
       \A b \in TagByte : b < i =>
         ee[SlotAddr(z + x, b)] = ee[SlotAddr(z + x + 1, b)]

IInv == TypeOK /\ CountInv /\ WrittenInv /\ LiveSlotsDistinct

(***************************************************************************)
(* No tag operation, at any of its writes, changes the password flag or    *)
(* the password behind the slots (regist_tag writes past the last slot it  *)
(* counted, delete_registered_tag shifts the slot after the last one).     *)
(***************************************************************************)
PasswordUntouched ==
  [][\A a \in PasswordArea : ee'[a] = ee[a]]_vars

(***************************************************************************)
(* The store is a set of tags: each run of regist_tag and                  *)
(* delete_registered_tag, byte by byte, does to the registered tags what   *)
(* one job of the abstract registry does: the tag presented comes or goes, *)
(* every other tag stays where the next tag_match finds it.                *)
(***************************************************************************)
Job ==
  CASE op = "idle"   -> "none"
    [] op = "regist" -> "register"
    [] OTHER         -> "delete"

Registry == INSTANCE TagRegistry
              WITH registered <- Registered, job <- Job, card <- tag,
                   NoCard <- NoTag
ImplementsRegistry == Registry!Spec
=============================================================================
