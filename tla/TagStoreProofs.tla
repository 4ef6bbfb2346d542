--------------------------- MODULE TagStoreProofs ---------------------------
(***************************************************************************)
(* Proofs about TagStore, for every number of slots and every set of tags. *)
(***************************************************************************)
EXTENDS TagStore, FiniteSetTheorems, FunctionTheorems, TLAPS

-----------------------------------------------------------------------------
(***************************************************************************)
(* The fields of a byte.                                                   *)
(***************************************************************************)

(***************************************************************************)
(* The count field of any byte is a count.                                 *)
(***************************************************************************)
LEMMA CountOfType == \A b \in Byte : CountOf(b) \in 0 .. CntMod - 1
BY LayoutAssumption DEF Byte, CountOf

(***************************************************************************)
(* A count written by the tag operations is read back by the next one.     *)
(***************************************************************************)
LEMMA CountByteRoundTrip ==
  \A c \in 0 .. CntMod - 1 : CountByte(c) \in Byte /\ CountOf(CountByte(c)) = c
BY LayoutAssumption DEF CountByte, CountOf, Modified, Byte

(***************************************************************************)
(* Writing a byte leaves a memory a memory.                                *)
(***************************************************************************)
LEMMA WriteByteType ==
  ASSUME NEW m \in [Addr -> Byte], NEW a, NEW b \in Byte
  PROVE  WriteByte(m, a, b) \in [Addr -> Byte]
BY DEF WriteByte

(***************************************************************************)
(* Reading one yields a byte, wherever the address points.                 *)
(***************************************************************************)
LEMMA ReadsOfType ==
  ASSUME NEW m \in [Addr -> Byte], NEW a
  PROVE  ReadsOf(m, a) \subseteq Byte
BY DEF ReadsOf

(***************************************************************************)
(* The count of a memory is a count.                                       *)
(***************************************************************************)
LEMMA StoredCntType ==
  ASSUME NEW m \in [Addr -> Byte]
  PROVE  StoredCnt(m) \in 0 .. CntMod - 1
<1>1. Mod_Cnt_Tag_Add \in Addr
  BY LayoutAssumption DEF Mod_Cnt_Tag_Add, Addr, EESIZE
<1>2. m[Mod_Cnt_Tag_Add] \in Byte
  BY <1>1
<1> QED
  BY <1>2, CountOfType DEF StoredCnt

(***************************************************************************)
(* The constants of the initial state have their types.                    *)
(***************************************************************************)
LEMMA InitMemory ==
  /\ Formatted(Erased) \in [Addr -> Byte]
  /\ NoTag \in TagId
<1>1. Modified \in Byte /\ 0 \in Byte /\ ErasedByte \in Byte
  BY LayoutAssumption DEF Modified, Byte, ErasedByte
<1>2. Erased \in [Addr -> Byte]
  BY <1>1 DEF Erased
<1>3. Formatted(Erased) \in [Addr -> Byte]
  BY <1>1, <1>2, WriteByteType DEF Formatted
<1>4. NoTag \in TagId
  BY <1>1 DEF NoTag, TagId
<1> QED
  BY <1>3, <1>4

-----------------------------------------------------------------------------
(***************************************************************************)
(* Type correctness.  The count that delete_registered_tag decreases once  *)
(* for every copy it clears stays above what is left of the scan, so it    *)
(* never wraps below zero.                                                 *)
(***************************************************************************)
ScanInv == op = "zero" => z \in 1 .. cnt /\ k >= cnt - z

TypeInv == TypeOK /\ ScanInv

(***************************************************************************)
(* The initial state satisfies the type invariant.                         *)
(***************************************************************************)
LEMMA TypeInvInit == Init => TypeInv
BY InitMemory, LayoutAssumption
   DEF Init, TypeInv, TypeOK, ScanInv, TagByte

(***************************************************************************)
(* The beginning of an operation keeps it, whatever count it works with    *)
(* and whether or not the tag is registered.                               *)
(***************************************************************************)
LEMMA RegistWriteTypes ==
  ASSUME TypeInv, NEW t \in Cards, RegistWrite(t)
  PROVE  TypeInv'
<1> USE LayoutAssumption DEF TypeInv, TypeOK, ScanInv
<1>1. cnt' \in 0 .. CntMod - 1
  BY StoredCntType DEF RegistWrite, NewCnt
<1>2. ee' \in [Addr -> Byte]
  BY <1>1, CountByteRoundTrip, WriteByteType DEF RegistWrite
<1>3. t \in TagId /\ 0 \in TagByte
  BY CardsAssumption DEF TagByte
<1> QED
  BY <1>1, <1>2, <1>3 DEF RegistWrite

\* delete_registered_tag.
LEMMA DeleteScanTypes ==
  ASSUME TypeInv, NEW c \in 0 .. CntMod - 1, NEW t \in Cards, DeleteScan(c, t)
  PROVE  TypeInv'
<1> USE LayoutAssumption DEF TypeInv, TypeOK, ScanInv
<1>1. PICK j \in 1 .. c :
        /\ op' = "zero" /\ tag' = t /\ i' = 0 /\ x' = 0
        /\ cnt' = c /\ k' = c - 1 /\ z' = j
  BY DEF DeleteScan
<1>2. ee' = ee /\ t \in TagId /\ 0 \in TagByte
  BY CardsAssumption DEF DeleteScan, TagByte
<1> QED
  BY <1>1, <1>2

(***************************************************************************)
(* Every action keeps it: no local of regist_tag or delete_registered_tag  *)
(* leaves its range, whatever the chip holds.                              *)
(***************************************************************************)
LEMMA TypeInvStep ==
  ASSUME TypeInv, Step
  PROVE  TypeInv'
<1> USE LayoutAssumption DEF TypeInv, TypeOK, ScanInv
<1>0. 0 \in TagByte /\ \A b \in TagByte : b < 3 => b + 1 \in TagByte
  BY DEF TagByte
<1>1. CASE RegistByte
  <2>1. tag[i] \in Byte
    BY DEF TagId
  <2>2. ee' \in [Addr -> Byte]
    BY <1>1, <2>1, WriteByteType DEF RegistByte
  <2> QED
    BY <1>0, <1>1, <2>2, InitMemory DEF RegistByte, Idle
<1>2. CASE DeleteZero
  <2>1. 0 \in Byte
    BY DEF Byte
  <2>2. ee' \in [Addr -> Byte]
    BY <1>2, <2>1, WriteByteType DEF DeleteZero
  <2>3. CASE i < 3 /\ i' = i + 1 /\ UNCHANGED <<op, tag, cnt, k, z, x>>
    BY <1>0, <2>2, <2>3
  <2>4. ASSUME NEW j \in 1 .. cnt, j > z, z' = j, k' = k - 1, i' = 0,
               UNCHANGED <<op, tag, cnt, x>>
        PROVE  TypeInv'
    BY <1>0, <1>2, <2>2, <2>4 DEF DeleteZero
  <2>5. CASE i' = 0 /\ op' = "shift" /\ UNCHANGED <<tag, cnt, k, z, x>>
    BY <1>0, <2>2, <2>5
  <2> QED
    BY <1>2, <2>3, <2>4, <2>5 DEF DeleteZero, IsFirst
<1>3. CASE DeleteShift
  <2>1. ee' \in [Addr -> Byte]
    BY <1>3, ReadsOfType, WriteByteType DEF DeleteShift
  <2>2. i' \in TagByte
    BY <1>0, <1>3 DEF DeleteShift
  <2>3. x' \in 0 .. CntMod
    BY <1>3 DEF DeleteShift
  <2>4. op' \in {"shift", "count"} /\ UNCHANGED <<tag, cnt, k, z>>
    BY <1>3 DEF DeleteShift
  <2> QED
    BY <2>1, <2>2, <2>3, <2>4
<1>4. CASE DeleteCount
  <2>1. ee' \in [Addr -> Byte]
    BY <1>4, CountByteRoundTrip, WriteByteType DEF DeleteCount
  <2> QED
    BY <1>0, <1>4, <2>1, InitMemory DEF DeleteCount, Idle
<1> QED
  BY <1>1, <1>2, <1>3, <1>4 DEF Step

\* So does every step of the specification.
LEMMA TypeInvNext == TypeInv /\ [Next]_vars => TypeInv'
<1> SUFFICES ASSUME TypeInv, [Next]_vars
             PROVE  TypeInv'
  OBVIOUS
<1>1. ASSUME NEW t \in Cards, RegistCount(t)
      PROVE  TypeInv'
  BY <1>1, RegistWriteTypes DEF RegistCount
<1>2. ASSUME NEW t \in Cards, DeleteFirst(t)
      PROVE  TypeInv'
  <2>1. StoredCnt(ee) \in 0 .. CntMod - 1
    BY StoredCntType DEF TypeInv, TypeOK
  <2> QED
    BY <1>2, <2>1, DeleteScanTypes DEF DeleteFirst
<1>3. CASE UNCHANGED vars
  BY <1>3 DEF vars, TypeInv, TypeOK, ScanInv
<1> QED
  BY <1>1, <1>2, <1>3, TypeInvStep DEF Next

(***************************************************************************)
(* The variables of the tag operations keep the ranges of the C variables  *)
(* for every layout and every set of tags, a full store included.          *)
(***************************************************************************)
THEOREM TypeCorrect == Spec => []TypeOK
<1>1. Spec => []TypeInv
  BY TypeInvInit, TypeInvNext, PTL DEF Spec
<1>2. TypeInv => TypeOK
  BY DEF TypeInv
<1> QED
  BY <1>1, <1>2, PTL

-----------------------------------------------------------------------------
(***************************************************************************)
(* Slots.  The slots up to the limit lie between the count byte and the    *)
(* last byte of the limit slot, and do not overlap.                        *)
(***************************************************************************)

(***************************************************************************)
(* The address of a byte of a slot identifies the slot and the byte.       *)
(***************************************************************************)
LEMMA SlotAddrFacts ==
  ASSUME NEW j \in 1 .. MaxTags, NEW b \in TagByte
  PROVE  /\ SlotAddr(j, b) \in Addr
         /\ SlotAddr(j, b) # Mod_Cnt_Tag_Add
         /\ j < MaxTags => SlotAddr(j, b) < PSW_FLAG
         /\ \A l \in 1 .. MaxTags, c \in TagByte :
              SlotAddr(l, c) = SlotAddr(j, b) => l = j /\ c = b
BY LayoutAssumption
   DEF SlotAddr, Tag_Stored_Base_Add, Base_Add, Mod_Cnt_Tag_Add, PSW_FLAG,
       Addr, EESIZE, TagByte

(***************************************************************************)
(* Writing a byte of a slot changes that byte and nothing else.            *)
(***************************************************************************)
LEMMA SlotWrite ==
  ASSUME NEW m \in [Addr -> Byte], NEW j \in 1 .. MaxTags,
         NEW b \in TagByte, NEW v \in Byte
  PROVE  LET w == WriteByte(m, SlotAddr(j, b), v) IN
         /\ w[SlotAddr(j, b)] = v
         /\ \A c \in TagByte \ {b} : w[SlotAddr(j, c)] = m[SlotAddr(j, c)]
         /\ \A l \in (1 .. MaxTags) \ {j} : \A c \in TagByte :
              w[SlotAddr(l, c)] = m[SlotAddr(l, c)]
         /\ \A l \in (1 .. MaxTags) \ {j} : SlotId(w, l) = SlotId(m, l)
         /\ StoredCnt(w) = StoredCnt(m)
<1> DEFINE w == WriteByte(m, SlotAddr(j, b), v)
<1>1. \A a \in Addr : w[a] = IF a = SlotAddr(j, b) THEN v ELSE m[a]
  BY SlotAddrFacts DEF WriteByte
<1>2. w[SlotAddr(j, b)] = v
  BY <1>1, SlotAddrFacts
<1>3. \A c \in TagByte \ {b} : w[SlotAddr(j, c)] = m[SlotAddr(j, c)]
  BY <1>1, SlotAddrFacts
<1>4. \A l \in (1 .. MaxTags) \ {j} : \A c \in TagByte :
        w[SlotAddr(l, c)] = m[SlotAddr(l, c)]
  BY <1>1, SlotAddrFacts
<1>5. \A l \in (1 .. MaxTags) \ {j} : SlotId(w, l) = SlotId(m, l)
  BY <1>4 DEF SlotId
<1>6. StoredCnt(w) = StoredCnt(m)
  <2>1. Mod_Cnt_Tag_Add \in Addr
    BY LayoutAssumption DEF Mod_Cnt_Tag_Add, Addr, EESIZE
  <2> QED
    BY <1>1, <2>1, SlotAddrFacts DEF StoredCnt
<1> HIDE DEF w
<1>7. /\ w[SlotAddr(j, b)] = v
      /\ \A c \in TagByte \ {b} : w[SlotAddr(j, c)] = m[SlotAddr(j, c)]
      /\ \A l \in (1 .. MaxTags) \ {j} : \A c \in TagByte :
           w[SlotAddr(l, c)] = m[SlotAddr(l, c)]
      /\ \A l \in (1 .. MaxTags) \ {j} : SlotId(w, l) = SlotId(m, l)
      /\ StoredCnt(w) = StoredCnt(m)
  BY <1>2, <1>3, <1>4, <1>5, <1>6
<1> QED
  BY <1>7 DEF w

(***************************************************************************)
(* Writing the count changes the count and no slot.                        *)
(***************************************************************************)
LEMMA CountWrite ==
  ASSUME NEW m \in [Addr -> Byte], NEW c \in 0 .. CntMod - 1
  PROVE  LET w == WriteByte(m, Mod_Cnt_Tag_Add, CountByte(c)) IN
         /\ StoredCnt(w) = c
         /\ \A l \in 1 .. MaxTags : SlotId(w, l) = SlotId(m, l)
<1> DEFINE w == WriteByte(m, Mod_Cnt_Tag_Add, CountByte(c))
<1>1. Mod_Cnt_Tag_Add \in Addr
  BY LayoutAssumption DEF Mod_Cnt_Tag_Add, Addr, EESIZE
<1>2. \A a \in Addr :
        w[a] = IF a = Mod_Cnt_Tag_Add THEN CountByte(c) ELSE m[a]
  BY <1>1 DEF WriteByte
<1>3. StoredCnt(w) = c
  BY <1>1, <1>2, CountByteRoundTrip DEF StoredCnt
<1>4. \A l \in 1 .. MaxTags : \A b \in TagByte :
        w[SlotAddr(l, b)] = m[SlotAddr(l, b)]
  BY <1>2, SlotAddrFacts
<1>5. \A l \in 1 .. MaxTags : SlotId(w, l) = SlotId(m, l)
  BY <1>4 DEF SlotId
<1> HIDE DEF w
<1>6. /\ StoredCnt(w) = c
      /\ \A l \in 1 .. MaxTags : SlotId(w, l) = SlotId(m, l)
  BY <1>3, <1>5
<1> QED
  BY <1>6 DEF w

-----------------------------------------------------------------------------
(***************************************************************************)
(* A weak invariant, which needs no different tags: while one slot is      *)
(* free, an operation works on counted slots and leaves no higher count.   *)
(***************************************************************************)
BoundInv ==
  /\ StoredCnt(ee) < MaxTags
  /\ op # "idle" => cnt = StoredCnt(ee) /\ cnt > 0
  /\ op \in {"zero", "shift", "count"} => k \in 0 .. cnt - 1
  /\ op \in {"zero", "shift"} => z \in 1 .. cnt
  /\ op = "zero" => x = 0
  /\ op = "shift" => x \in 0 .. cnt - z

\* It follows from the inductive invariant of TagStore.
LEMMA IsBounded == IInv => BoundInv
BY DEF IInv, TypeOK, CountInv, BoundInv

(***************************************************************************)
(* It is kept while registering leaves a slot free.                        *)
(***************************************************************************)
LEMMA BoundInvStep ==
  ASSUME TypeInv, BoundInv,
         \/ Step
         \/ \E t \in Cards : DeleteFirst(t)
         \/ StoredCnt(ee) + 1 < MaxTags /\ \E t \in Cards : RegistCount(t)
  PROVE  BoundInv'
<1> USE LayoutAssumption
<1>0. /\ ee \in [Addr -> Byte] /\ i \in TagByte /\ tag \in TagId
      /\ StoredCnt(ee) \in 0 .. CntMod - 1 /\ MaxTags - 1 \in 0 .. CntMod - 1
  BY StoredCntType DEF TypeInv, TypeOK
<1>1. CASE RegistByte
  <2>1. cnt \in 1 .. MaxTags /\ tag[i] \in Byte /\ op = "regist" /\ op' \in {"regist", "idle"}
    BY <1>0, <1>1 DEF BoundInv, RegistByte, Idle, TypeInv, TypeOK, TagId
  <2>2. StoredCnt(ee') = StoredCnt(ee)
    BY <1>0, <1>1, <2>1, SlotWrite DEF RegistByte
  <2> QED
    BY <1>1, <2>1, <2>2 DEF BoundInv, RegistByte, Idle
<1>2. CASE DeleteZero
  <2>1. cnt \in 1 .. MaxTags /\ z \in 1 .. MaxTags /\ 0 \in Byte /\ op = "zero"
    BY <1>2 DEF BoundInv, DeleteZero, TypeInv, TypeOK, Byte
  <2>2. StoredCnt(ee') = StoredCnt(ee)
    BY <1>0, <1>2, <2>1, SlotWrite DEF DeleteZero
  <2>3. CASE UNCHANGED <<op, tag, cnt, k, z, x>>
    BY <2>1, <2>2, <2>3 DEF BoundInv
  <2>4. ASSUME NEW j \in 1 .. cnt, j > z, z' = j, k' = k - 1, UNCHANGED <<op, cnt, x>>
        PROVE  BoundInv'
    BY <2>1, <2>2, <2>4 DEF BoundInv, TypeInv, ScanInv
  <2>5. CASE op' = "shift" /\ UNCHANGED <<cnt, k, z, x>>
    BY <2>1, <2>2, <2>5 DEF BoundInv
  <2> QED
    BY <1>2, <2>3, <2>4, <2>5 DEF DeleteZero, IsFirst, TypeInv, ScanInv
<1>3. CASE DeleteShift
  <2>1. cnt \in 1 .. MaxTags /\ z + x \in 1 .. MaxTags /\ op = "shift"
    BY <1>3 DEF BoundInv, DeleteShift, TypeInv, TypeOK
  <2>2. PICK v \in ReadsOf(ee, SlotAddr(z + x + 1, i)) :
          ee' = WriteByte(ee, SlotAddr(z + x, i), v)
    BY <1>3 DEF DeleteShift
  <2>3. v \in Byte
    BY <1>0, ReadsOfType
  <2>4. StoredCnt(ee') = StoredCnt(ee)
    BY <1>0, <2>1, <2>2, <2>3, SlotWrite
  <2> QED
    BY <1>3, <2>1, <2>4 DEF BoundInv, DeleteShift, TypeInv, TypeOK
<1>4. CASE DeleteCount
  <2>1. k \in 0 .. CntMod - 1 /\ k < MaxTags /\ op' = "idle"
    BY <1>0, <1>4 DEF BoundInv, DeleteCount, Idle
  <2>2. StoredCnt(ee') = k
    BY <1>0, <1>4, <2>1, CountWrite DEF DeleteCount
  <2> QED
    BY <2>1, <2>2 DEF BoundInv
<1>5. ASSUME NEW t \in Cards, DeleteFirst(t)
      PROVE  BoundInv'
  BY <1>0, <1>5 DEF BoundInv, DeleteFirst, DeleteScan
<1>6. ASSUME NEW t \in Cards, RegistCount(t), StoredCnt(ee) + 1 < MaxTags
      PROVE  BoundInv'
  <2>1. op' = "regist" /\ cnt' = StoredCnt(ee) + 1 /\ cnt' \in 0 .. CntMod - 1
    BY <1>0, <1>6 DEF RegistCount, RegistWrite, NewCnt
  <2>2. StoredCnt(ee') = cnt'
    BY <1>0, <1>6, <2>1, CountWrite DEF RegistCount, RegistWrite
  <2> QED
    BY <1>0, <1>6, <2>1, <2>2 DEF BoundInv
<1> QED
  BY <1>1, <1>2, <1>3, <1>4, <1>5, <1>6 DEF Step

-----------------------------------------------------------------------------
(***************************************************************************)
(* What each write does to the slots, from the bounds and WrittenInv only: *)
(* these hold also when two slots hold the same tag or one holds garbage.  *)
(***************************************************************************)

(***************************************************************************)
(* The new count, written before the tag, makes no slot live.              *)
(***************************************************************************)
LEMMA RegistCountEffect ==
  ASSUME TypeOK, NEW t \in Cards, RegistCount(t), StoredCnt(ee) < MaxTags
  PROVE  LET c == StoredCnt(ee) IN
         /\ c \in 0 .. CntMod - 1
         /\ op = "idle" /\ op' = "regist" /\ tag' = t /\ cnt' = c + 1
         /\ StoredCnt(ee') = c + 1
         /\ LiveSlots = 1 .. c /\ LiveSlots' = 1 .. c
         /\ \A l \in 1 .. c : SlotId(ee', l) = SlotId(ee, l) /\ SlotId(ee, l) # t
         /\ WrittenInv'
<1> USE LayoutAssumption
<1> DEFINE c == StoredCnt(ee)
<1>1. ee \in [Addr -> Byte] /\ c \in 0 .. CntMod - 1
  BY StoredCntType DEF TypeOK
<1>2. /\ op = "idle" /\ op' = "regist" /\ tag' = t /\ i' = 0 /\ cnt' = c + 1
      /\ ee' = WriteByte(ee, Mod_Cnt_Tag_Add, CountByte(c + 1))
  BY <1>1 DEF RegistCount, RegistWrite, NewCnt
<1>3. /\ StoredCnt(ee') = c + 1
      /\ \A l \in 1 .. MaxTags : SlotId(ee', l) = SlotId(ee, l)
  BY <1>1, <1>2, CountWrite
<1>4. LiveSlots = 1 .. c /\ LiveSlots' = 1 .. c
  BY <1>1, <1>2 DEF LiveSlots
<1>5. \A l \in 1 .. c : SlotId(ee', l) = SlotId(ee, l) /\ SlotId(ee, l) # t
  BY <1>1, <1>3 DEF RegistCount, tag_match, Matches
<1>6. WrittenInv'
  BY <1>2 DEF WrittenInv, TagByte
<1> QED
  BY <1>1, <1>2, <1>3, <1>4, <1>5, <1>6

(***************************************************************************)
(* A byte of the tag touches no live slot; the last one completes the new  *)
(* slot.                                                                   *)
(***************************************************************************)
LEMMA RegistByteEffect ==
  ASSUME TypeOK, BoundInv, WrittenInv, RegistByte
  PROVE  /\ op = "regist" /\ LiveSlots = 1 .. cnt - 1
         /\ cnt \in 1 .. MaxTags /\ StoredCnt(ee') = cnt
         /\ \A l \in 1 .. cnt - 1 : SlotId(ee', l) = SlotId(ee, l)
         /\ \/ LiveSlots' = 1 .. cnt - 1 /\ UNCHANGED <<op, tag, cnt>>
            \/ LiveSlots' = 1 .. cnt /\ SlotId(ee', cnt) = tag /\ Idle
         /\ WrittenInv'
<1> USE LayoutAssumption
<1>1. /\ op = "regist" /\ LiveSlots = 1 .. cnt - 1 /\ ee \in [Addr -> Byte]
      /\ i \in TagByte /\ tag \in TagId /\ tag[i] \in Byte
  BY DEF RegistByte, LiveSlots, TypeOK, TagId
<1>2. cnt = StoredCnt(ee) /\ cnt < MaxTags /\ cnt \in 1 .. MaxTags
  BY <1>1 DEF BoundInv, TypeOK
<1>3. /\ ee'[SlotAddr(cnt, i)] = tag[i]
      /\ \A b \in TagByte \ {i} : ee'[SlotAddr(cnt, b)] = ee[SlotAddr(cnt, b)]
      /\ \A l \in (1 .. MaxTags) \ {cnt} : SlotId(ee', l) = SlotId(ee, l)
      /\ StoredCnt(ee') = cnt
  BY <1>1, <1>2, SlotWrite DEF RegistByte
<1>4. \A l \in 1 .. cnt - 1 : SlotId(ee', l) = SlotId(ee, l)
  BY <1>2, <1>3
<1>5. \A b \in TagByte : b <= i => ee'[SlotAddr(cnt, b)] = tag[b]
  BY <1>1, <1>3 DEF WrittenInv, TagByte
<1>6. CASE i < 3 /\ i' = i + 1 /\ UNCHANGED <<op, tag, cnt, k, z, x>>
  <2>1. LiveSlots' = 1 .. cnt - 1
    BY <1>1, <1>6 DEF LiveSlots
  <2>2. WrittenInv'
    BY <1>1, <1>5, <1>6 DEF WrittenInv, TagByte
  <2> QED
    BY <1>1, <1>2, <1>3, <1>4, <1>6, <2>1, <2>2
<1>7. CASE ~ (i < 3) /\ Idle
  <2>1. \A b \in TagByte : ee'[SlotAddr(cnt, b)] = tag[b]
    BY <1>1, <1>5, <1>7 DEF TagByte
  <2>2. SlotId(ee', cnt) = [b \in TagByte |-> tag[b]]
    BY <2>1 DEF SlotId
  <2>3. SlotId(ee', cnt) = tag
    BY <1>1, <2>2 DEF TagId
  <2>4. LiveSlots' = 1 .. cnt /\ WrittenInv'
    BY <1>3, <1>7 DEF Idle, LiveSlots, WrittenInv
  <2> QED
    BY <1>1, <1>2, <1>3, <1>4, <1>7, <2>3, <2>4
<1> QED
  BY <1>1, <1>6, <1>7 DEF RegistByte

(***************************************************************************)
(* Finding the tag to delete takes its first slot out of the live ones.    *)
(***************************************************************************)
LEMMA DeleteFirstEffect ==
  ASSUME TypeOK, NEW t \in Cards, DeleteFirst(t)
  PROVE  LET c == StoredCnt(ee) IN
         /\ op = "idle" /\ op' = "zero" /\ tag' = t /\ cnt' = c /\ k' = c - 1
         /\ ee' = ee /\ LiveSlots = 1 .. c
         /\ z' \in 1 .. c /\ SlotId(ee, z') = t
         /\ LiveSlots' = (1 .. c) \ {z'}
         /\ WrittenInv'
<1> DEFINE c == StoredCnt(ee)
<1>1. op = "idle" /\ LiveSlots = 1 .. c /\ ee' = ee
  BY DEF DeleteFirst, DeleteScan, LiveSlots
<1>2. /\ z' \in 1 .. c /\ SlotId(ee, z') = t
      /\ op' = "zero" /\ tag' = t /\ cnt' = c /\ k' = c - 1
  BY DEF DeleteFirst, DeleteScan, IsFirst, Matches
<1>3. LiveSlots' = (1 .. c) \ {z'}
  BY <1>2 DEF LiveSlots
<1>4. WrittenInv'
  BY <1>2 DEF WrittenInv
<1> QED
  BY <1>1, <1>2, <1>3, <1>4

(***************************************************************************)
(* Clearing that slot touches no live one; with the next copy of the tag   *)
(* the cleared slot counts again and the slot of the copy does not.        *)
(***************************************************************************)
LEMMA DeleteZeroEffect ==
  ASSUME TypeOK, BoundInv, DeleteZero
  PROVE  /\ op = "zero" /\ cnt \in 1 .. MaxTags - 1 /\ z \in 1 .. cnt
         /\ LiveSlots = (1 .. cnt) \ {z}
         /\ StoredCnt(ee') = cnt /\ UNCHANGED <<tag, cnt>>
         /\ \A l \in (1 .. cnt) \ {z} : SlotId(ee', l) = SlotId(ee, l)
         /\ \/ LiveSlots' = (1 .. cnt) \ {z} /\ op' \in {"zero", "shift"} /\ UNCHANGED <<k, z>>
            \/ /\ z' \in (1 .. cnt) \ {z} /\ SlotId(ee, z') = tag /\ op' = "zero"
               /\ LiveSlots' = (1 .. cnt) \ {z'}
         /\ WrittenInv'
<1> USE LayoutAssumption
<1>1. /\ op = "zero" /\ LiveSlots = (1 .. cnt) \ {z} /\ ee \in [Addr -> Byte]
      /\ i \in TagByte /\ UNCHANGED <<tag, cnt, x>>
  BY DEF DeleteZero, LiveSlots, TypeOK
<1>2. /\ cnt = StoredCnt(ee) /\ cnt \in 1 .. MaxTags - 1
      /\ z \in 1 .. cnt /\ z \in 1 .. MaxTags /\ x = 0
  BY <1>1 DEF BoundInv, TypeOK
<1>3. /\ \A l \in (1 .. MaxTags) \ {z} : SlotId(ee', l) = SlotId(ee, l)
      /\ StoredCnt(ee') = cnt
  BY <1>1, <1>2, SlotWrite DEF DeleteZero, Byte
<1>4. \A l \in (1 .. cnt) \ {z} : SlotId(ee', l) = SlotId(ee, l)
  BY <1>2, <1>3
<1>5. CASE UNCHANGED <<op, k, z>> \/ (op' = "shift" /\ i' = 0 /\ UNCHANGED <<k, z>>)
  <2>1. LiveSlots' = (1 .. cnt) \ {z} /\ WrittenInv'
    BY <1>1, <1>2, <1>5 DEF LiveSlots, WrittenInv, TagByte
  <2> QED
    BY <1>1, <1>2, <1>3, <1>4, <1>5, <2>1
<1>6. CASE /\ op' = op /\ z' \in 1 .. cnt
           /\ z' \in {j \in Matches(ee, cnt, tag) : j > z}
  <2>1. z' \in (1 .. cnt) \ {z} /\ SlotId(ee, z') = tag
    BY <1>2, <1>6 DEF Matches
  <2>2. LiveSlots' = (1 .. cnt) \ {z'} /\ WrittenInv'
    BY <1>1, <1>6 DEF LiveSlots, WrittenInv
  <2> QED
    BY <1>1, <1>2, <1>3, <1>4, <1>6, <2>1, <2>2
<1> QED
  BY <1>5, <1>6 DEF DeleteZero, IsFirst

(***************************************************************************)
(* Moving the slots down, byte by byte, keeps every live slot whole: the   *)
(* slot being overwritten is the one that is not live.                     *)
(***************************************************************************)
LEMMA DeleteShiftEffect ==
  ASSUME TypeOK, BoundInv, WrittenInv, DeleteShift
  PROVE  LET s == z + x IN
         /\ op = "shift" /\ cnt \in 1 .. MaxTags - 1 /\ s \in 1 .. cnt
         /\ LiveSlots = (1 .. cnt) \ {s}
         /\ StoredCnt(ee') = cnt /\ UNCHANGED <<tag, cnt, k>>
         /\ op' \in {"shift", "count"}
         /\ \A l \in (1 .. cnt) \ {s} : SlotId(ee', l) = SlotId(ee, l)
         /\ \/ LiveSlots' = (1 .. cnt) \ {s}
            \/ /\ s + 1 \in (1 .. cnt) \ {s} /\ LiveSlots' = (1 .. cnt) \ {s + 1}
               /\ SlotId(ee', s) = SlotId(ee, s + 1)
         /\ WrittenInv'
<1> USE LayoutAssumption
<1> DEFINE s == z + x
<1>1. /\ op = "shift" /\ LiveSlots = (1 .. cnt) \ {s} /\ ee \in [Addr -> Byte]
      /\ i \in TagByte /\ UNCHANGED <<tag, cnt, k, z>>
  BY DEF DeleteShift, LiveSlots, TypeOK
<1>2. /\ cnt = StoredCnt(ee) /\ cnt \in 1 .. MaxTags - 1
      /\ z \in 1 .. cnt /\ x \in 0 .. cnt - z
  BY <1>1 DEF BoundInv, TypeOK
<1>3. s \in 1 .. cnt /\ s \in 1 .. MaxTags /\ s + 1 \in 1 .. MaxTags
  BY <1>2
<1>4. PICK v \in ReadsOf(ee, SlotAddr(s + 1, i)) :
        ee' = WriteByte(ee, SlotAddr(s, i), v)
  BY DEF DeleteShift
<1>5. v = ee[SlotAddr(s + 1, i)] /\ v \in Byte
  BY <1>1, <1>3, <1>4, SlotAddrFacts DEF ReadsOf
<1>6. /\ ee'[SlotAddr(s, i)] = ee[SlotAddr(s + 1, i)]
      /\ \A b \in TagByte \ {i} : ee'[SlotAddr(s, b)] = ee[SlotAddr(s, b)]
      /\ \A l \in (1 .. MaxTags) \ {s} : \A b \in TagByte :
           ee'[SlotAddr(l, b)] = ee[SlotAddr(l, b)]
      /\ \A l \in (1 .. MaxTags) \ {s} : SlotId(ee', l) = SlotId(ee, l)
      /\ StoredCnt(ee') = cnt
  BY <1>1, <1>2, <1>3, <1>4, <1>5, SlotWrite
<1>7. \A l \in (1 .. cnt) \ {s} : SlotId(ee', l) = SlotId(ee, l)
  BY <1>2, <1>6
<1>8. s < cnt => \A b \in TagByte : b <= i =>
                   ee'[SlotAddr(s, b)] = ee'[SlotAddr(s + 1, b)]
  <2> SUFFICES ASSUME s < cnt, NEW b \in TagByte, b <= i
               PROVE  ee'[SlotAddr(s, b)] = ee'[SlotAddr(s + 1, b)]
    OBVIOUS
  <2>1. s + 1 \in (1 .. MaxTags) \ {s}
    BY <1>3
  <2>2. ee'[SlotAddr(s + 1, b)] = ee[SlotAddr(s + 1, b)]
    BY <1>6, <2>1
  <2>3. CASE b = i
    BY <1>6, <2>2, <2>3
  <2>4. CASE b # i
    <3>1. b < i
      BY <1>1, <2>4 DEF TagByte
    <3>2. ee[SlotAddr(s, b)] = ee[SlotAddr(s + 1, b)]
      BY <1>1, <3>1 DEF WrittenInv
    <3> QED
      BY <1>6, <2>2, <2>4, <3>2
  <2> QED
    BY <2>3, <2>4
<1>9. CASE i < 3 /\ i' = i + 1 /\ UNCHANGED <<op, x>>
  <2>1. LiveSlots' = (1 .. cnt) \ {s}
    BY <1>1, <1>9 DEF LiveSlots
  <2>2. \A b \in TagByte : b < i + 1 => b <= i
    BY <1>1 DEF TagByte
  <2>3. WrittenInv'
    BY <1>1, <1>8, <1>9, <2>2 DEF WrittenInv
  <2> QED
    BY <1>1, <1>2, <1>3, <1>6, <1>7, <1>9, <2>1, <2>3
<1>10. CASE i = 3 /\ x < cnt - z /\ i' = 0 /\ x' = x + 1 /\ op' = op
  <2>1. s < cnt /\ s + 1 \in (1 .. cnt) \ {s}
    BY <1>2, <1>10
  <2>2. LiveSlots' = (1 .. cnt) \ {s + 1}
    <3>1. z + (x + 1) = s + 1
      BY <1>2
    <3> QED
      BY <1>1, <1>10, <3>1 DEF LiveSlots
  <2>3. SlotId(ee', s) = SlotId(ee, s + 1)
    <3>1. \A b \in TagByte : ee'[SlotAddr(s, b)] = ee'[SlotAddr(s + 1, b)]
      BY <1>8, <1>10, <2>1 DEF TagByte
    <3>2. SlotId(ee', s) = SlotId(ee', s + 1)
      BY <3>1 DEF SlotId
    <3> QED
      BY <1>7, <2>1, <3>2
  <2>4. WrittenInv'
    BY <1>1, <1>10 DEF WrittenInv, TagByte
  <2> QED
    BY <1>1, <1>2, <1>3, <1>6, <1>7, <1>10, <2>1, <2>2, <2>3, <2>4
<1>11. CASE i = 3 /\ x = cnt - z /\ op' = "count"
  <2>1. s = cnt
    BY <1>2, <1>11
  <2>2. LiveSlots' = 1 .. cnt - 1 /\ 1 .. cnt - 1 = (1 .. cnt) \ {s}
    BY <1>1, <1>2, <1>11, <2>1 DEF LiveSlots
  <2>3. WrittenInv'
    BY <1>11 DEF WrittenInv
  <2> QED
    BY <1>1, <1>2, <1>3, <1>6, <1>7, <1>11, <2>2, <2>3
<1> QED
  BY <1>9, <1>10, <1>11 DEF DeleteShift

(***************************************************************************)
(* The new count is that of the live slots, or a lower one if several      *)
(* copies were cleared.                                                    *)
(***************************************************************************)
LEMMA DeleteCountEffect ==
  ASSUME TypeOK, BoundInv, DeleteCount
  PROVE  /\ op = "count" /\ Idle
         /\ cnt \in 1 .. MaxTags - 1 /\ k \in 0 .. cnt - 1
         /\ LiveSlots = 1 .. cnt - 1 /\ LiveSlots' = 1 .. k /\ StoredCnt(ee') = k
         /\ \A l \in 1 .. cnt - 1 : SlotId(ee', l) = SlotId(ee, l)
         /\ WrittenInv'
<1> USE LayoutAssumption
<1>1. op = "count" /\ LiveSlots = 1 .. cnt - 1 /\ ee \in [Addr -> Byte] /\ Idle
  BY DEF DeleteCount, LiveSlots, TypeOK
<1>2. /\ cnt \in 1 .. MaxTags - 1
      /\ k \in 0 .. cnt - 1 /\ k \in 0 .. CntMod - 1
  BY <1>1 DEF BoundInv, TypeOK
<1>3. StoredCnt(ee') = k /\ \A l \in 1 .. MaxTags : SlotId(ee', l) = SlotId(ee, l)
  BY <1>1, <1>2, CountWrite DEF DeleteCount
<1>4. LiveSlots' = 1 .. k /\ WrittenInv'
  BY <1>1, <1>3 DEF Idle, LiveSlots, WrittenInv
<1>5. \A l \in 1 .. cnt - 1 : SlotId(ee', l) = SlotId(ee, l)
  BY <1>2, <1>3
<1> QED
  BY <1>1, <1>2, <1>3, <1>4, <1>5

-----------------------------------------------------------------------------
(***************************************************************************)
(* The invariant, for a set of tags that leaves one slot free.             *)
(***************************************************************************)
FewCards == IsFiniteSet(Cards) /\ Cardinality(Cards) < MaxTags

(***************************************************************************)
(* If all counted slots hold different tags, none of them t, there is room *)
(* for t and one more.                                                     *)
(***************************************************************************)
LEMMA RoomLeft ==
  ASSUME FewCards, NEW m, NEW c \in 0 .. CntMod - 1, NEW t \in Cards,
         \A j \in 1 .. c : SlotId(m, j) \in Cards \ {t},
         \A j, l \in 1 .. c : SlotId(m, j) = SlotId(m, l) => j = l
  PROVE  c + 1 < MaxTags
<1> DEFINE f == [j \in 1 .. c |-> SlotId(m, j)]
<1>1. f \in [1 .. c -> Cards \ {t}] /\ \A j, l \in 1 .. c : f[j] = f[l] => j = l
  OBVIOUS
<1>2. f \in Injection(1 .. c, Cards \ {t})
  BY <1>1, Fun_IsInj
<1>3. /\ IsFiniteSet(Cards \ {t})
      /\ Cardinality(Cards \ {t}) = Cardinality(Cards) - 1
  BY FS_RemoveElement DEF FewCards
<1>4. Cardinality(1 .. c) <= Cardinality(Cards \ {t})
  BY <1>2, <1>3, FS_Injection
<1>5. Cardinality(1 .. c) = c
  BY LayoutAssumption, FS_Interval
<1>6. Cardinality(Cards) \in Nat
  BY FS_CardinalityType DEF FewCards
<1> QED
  BY <1>3, <1>4, <1>5, <1>6, LayoutAssumption DEF FewCards

(***************************************************************************)
(* A store with no counted slot satisfies the inductive invariant.         *)
(***************************************************************************)
LEMMA EmptyStore == TypeOK /\ op = "idle" /\ StoredCnt(ee) = 0 => IInv
<1> SUFFICES ASSUME TypeOK, op = "idle", StoredCnt(ee) = 0
             PROVE  IInv
  OBVIOUS
<1>1. LiveSlots = {}
  BY DEF LiveSlots
<1> QED
  BY <1>1, LayoutAssumption DEF IInv, CountInv, WrittenInv, LiveSlotsDistinct

(***************************************************************************)
(* AT24CXX_Init leaves an empty store on an erased chip.                   *)
(***************************************************************************)
LEMMA EmptyChip == StoredCnt(Formatted(Erased)) = 0
<1> USE LayoutAssumption
<1>1. Erased \in [Addr -> Byte]
  BY DEF Erased, ErasedByte, Byte
<1>2. Mod_Cnt_Tag_Add \in Addr
  BY DEF Mod_Cnt_Tag_Add, Addr, EESIZE
<1>3. ~ IsModified(Erased[Mod_Cnt_Tag_Add])
  <2>1. Erased[Mod_Cnt_Tag_Add] = 4 * CntMod - 1
    BY <1>2 DEF Erased, ErasedByte
  <2>2. (4 * CntMod - 1) \div CntMod = 3
    OBVIOUS
  <2> QED
    BY <2>1, <2>2 DEF IsModified
<1>4. CountByte(0) = Modified /\ 0 \in 0 .. CntMod - 1
  BY DEF CountByte, Modified
<1>5. Formatted(Erased) = WriteByte(Erased, Mod_Cnt_Tag_Add, CountByte(0))
  BY <1>3, <1>4 DEF Formatted
<1> QED
  BY <1>1, <1>4, <1>5, CountWrite

(***************************************************************************)
(* A formatted, empty chip satisfies the inductive invariant.              *)
(***************************************************************************)
LEMMA IInvInit == Init => IInv
<1>1. Init => TypeOK /\ StoredCnt(ee) = 0
  BY TypeInvInit, EmptyChip DEF TypeInv, Init
<1> QED
  BY <1>1, EmptyStore DEF Init

(***************************************************************************)
(* Writing the new count before the tag keeps it: the new slot is not live *)
(* yet.                                                                    *)
(***************************************************************************)
LEMMA RegistCountKeeps ==
  ASSUME IInv, TypeInv, NEW t \in Cards, RegistCount(t), StoredCnt(ee) + 1 < MaxTags
  PROVE  IInv'
<1> DEFINE c == StoredCnt(ee)
<1>1. TypeOK /\ BoundInv /\ LiveSlotsDistinct
  BY IsBounded DEF IInv
<1>2. TypeOK' /\ BoundInv'
  BY <1>1, TypeInvNext, BoundInvStep DEF Next, TypeInv
<1>3. /\ op = "idle" /\ op' = "regist" /\ tag' = t
      /\ LiveSlots = 1 .. c /\ LiveSlots' = 1 .. c
      /\ \A l \in 1 .. c : SlotId(ee', l) = SlotId(ee, l) /\ SlotId(ee, l) # t
      /\ WrittenInv'
  BY <1>1, RegistCountEffect DEF BoundInv
<1>4. LiveSlotsDistinct' /\ CountInv'
  BY <1>1, <1>2, <1>3 DEF LiveSlotsDistinct, BoundInv, CountInv
<1> QED
  BY <1>2, <1>3, <1>4 DEF IInv

\* With few cards there is a free slot.
LEMMA RegistCountInv ==
  ASSUME FewCards, IInv, TypeInv, NEW t \in Cards, RegistCount(t)
  PROVE  IInv'
<1> DEFINE c == StoredCnt(ee)
<1>1. op = "idle" /\ LiveSlots = 1 .. c /\ c \in 0 .. CntMod - 1
  BY StoredCntType DEF RegistCount, RegistWrite, LiveSlots, IInv, TypeOK
<1>2. \A j \in 1 .. c : SlotId(ee, j) \in Cards \ {t}
  BY <1>1 DEF RegistCount, tag_match, Matches, IInv, LiveSlotsDistinct
<1>3. \A j, l \in 1 .. c : SlotId(ee, j) = SlotId(ee, l) => j = l
  BY <1>1 DEF IInv, LiveSlotsDistinct
<1>4. c + 1 < MaxTags
  BY <1>1, <1>2, <1>3, RoomLeft
<1> QED
  BY <1>4, RegistCountKeeps

(***************************************************************************)
(* So does each byte of the tag; the last one makes the slot live.         *)
(***************************************************************************)
LEMMA RegistByteInv ==
  ASSUME IInv, TypeInv, RegistByte
  PROVE  IInv'
<1>1. TypeOK /\ BoundInv /\ WrittenInv /\ CountInv /\ LiveSlotsDistinct
  BY IsBounded DEF IInv
<1>2. TypeOK' /\ BoundInv'
  BY <1>1, TypeInvNext, BoundInvStep DEF Next, Step, TypeInv
<1>3. /\ op = "regist" /\ LiveSlots = 1 .. cnt - 1 /\ cnt \in 1 .. MaxTags
      /\ \A l \in 1 .. cnt - 1 : SlotId(ee', l) = SlotId(ee, l)
      /\ \/ LiveSlots' = 1 .. cnt - 1 /\ UNCHANGED <<op, tag, cnt>>
         \/ LiveSlots' = 1 .. cnt /\ SlotId(ee', cnt) = tag /\ op' = "idle"
      /\ WrittenInv'
  BY <1>1, RegistByteEffect DEF Idle
<1>4. \A l \in 1 .. cnt : l = cnt \/ l \in 1 .. cnt - 1
  BY <1>3, LayoutAssumption
<1>5. LiveSlotsDistinct' /\ CountInv'
  BY <1>1, <1>2, <1>3, <1>4 DEF LiveSlotsDistinct, BoundInv, CountInv
<1> QED
  BY <1>2, <1>3, <1>5 DEF IInv

(***************************************************************************)
(* Finding the tag to delete takes its only slot out of the live ones.     *)
(***************************************************************************)
LEMMA DeleteFirstInv ==
  ASSUME IInv, TypeInv, NEW t \in Cards, DeleteFirst(t)
  PROVE  IInv'
<1> DEFINE c == StoredCnt(ee)
<1>1. TypeOK /\ BoundInv /\ LiveSlotsDistinct
  BY IsBounded DEF IInv
<1>2. TypeOK' /\ BoundInv'
  BY <1>1, TypeInvNext, BoundInvStep DEF Next, TypeInv
<1>3. /\ op' = "zero" /\ tag' = t /\ cnt' = c /\ k' = c - 1
      /\ ee' = ee /\ LiveSlots = 1 .. c /\ LiveSlots' = (1 .. c) \ {z'}
      /\ z' \in 1 .. c /\ SlotId(ee, z') = t
      /\ WrittenInv'
  BY <1>1, DeleteFirstEffect
<1>4. LiveSlotsDistinct' /\ CountInv'
  BY <1>1, <1>2, <1>3 DEF LiveSlotsDistinct, BoundInv, CountInv
<1> QED
  BY <1>2, <1>3, <1>4 DEF IInv

(***************************************************************************)
(* Clearing that slot touches no live one.                                 *)
(***************************************************************************)
LEMMA DeleteZeroInv ==
  ASSUME IInv, TypeInv, DeleteZero
  PROVE  IInv'
<1>1. TypeOK /\ BoundInv /\ CountInv /\ LiveSlotsDistinct
  BY IsBounded DEF IInv
<1>2. TypeOK' /\ BoundInv'
  BY <1>1, TypeInvNext, BoundInvStep DEF Next, Step, TypeInv
<1>3. /\ op = "zero" /\ LiveSlots = (1 .. cnt) \ {z} /\ UNCHANGED <<tag, cnt>>
      /\ \A l \in (1 .. cnt) \ {z} : SlotId(ee', l) = SlotId(ee, l)
      /\ \/ LiveSlots' = (1 .. cnt) \ {z} /\ op' \in {"zero", "shift"} /\ UNCHANGED <<k, z>>
         \/ z' \in (1 .. cnt) \ {z} /\ SlotId(ee, z') = tag
      /\ WrittenInv'
  BY <1>1, DeleteZeroEffect
<1>4. LiveSlotsDistinct' /\ CountInv'
  BY <1>1, <1>2, <1>3 DEF LiveSlotsDistinct, BoundInv, CountInv
<1> QED
  BY <1>2, <1>3, <1>4 DEF IInv

(***************************************************************************)
(* Moving the slots down, byte by byte, keeps every live slot whole: the   *)
(* slot being overwritten is the one that is not live.                     *)
(***************************************************************************)
LEMMA DeleteShiftInv ==
  ASSUME IInv, TypeInv, DeleteShift
  PROVE  IInv'
<1> USE LayoutAssumption
<1> DEFINE s == z + x
<1>1. TypeOK /\ BoundInv /\ WrittenInv /\ CountInv /\ LiveSlotsDistinct
  BY IsBounded DEF IInv
<1>2. TypeOK' /\ BoundInv'
  BY <1>1, TypeInvNext, BoundInvStep DEF Next, Step, TypeInv
<1>3. /\ op = "shift" /\ s \in 1 .. cnt /\ LiveSlots = (1 .. cnt) \ {s}
      /\ UNCHANGED <<tag, cnt, k>> /\ op' \in {"shift", "count"}
      /\ \A l \in (1 .. cnt) \ {s} : SlotId(ee', l) = SlotId(ee, l)
      /\ \/ LiveSlots' = (1 .. cnt) \ {s}
         \/ /\ s + 1 \in (1 .. cnt) \ {s} /\ LiveSlots' = (1 .. cnt) \ {s + 1}
            /\ SlotId(ee', s) = SlotId(ee, s + 1)
      /\ WrittenInv'
  BY <1>1, DeleteShiftEffect
<1>4. CountInv'
  BY <1>1, <1>2, <1>3 DEF BoundInv, CountInv
<1>5. CASE LiveSlots' = (1 .. cnt) \ {s}
  <2>1. LiveSlotsDistinct'
    BY <1>1, <1>3, <1>5 DEF LiveSlotsDistinct
  <2> QED
    BY <1>2, <1>3, <1>4, <2>1 DEF IInv
<1>6. CASE /\ s + 1 \in (1 .. cnt) \ {s} /\ LiveSlots' = (1 .. cnt) \ {s + 1}
           /\ SlotId(ee', s) = SlotId(ee, s + 1)
  <2> DEFINE src(l) == IF l = s THEN s + 1 ELSE l
  <2>1. \A l \in (1 .. cnt) \ {s + 1} :
          src(l) \in (1 .. cnt) \ {s} /\ SlotId(ee', l) = SlotId(ee, src(l))
    BY <1>3, <1>6
  <2>2. \A l, m \in (1 .. cnt) \ {s + 1} : src(l) = src(m) => l = m
    BY <1>6
  <2> HIDE DEF src
  <2>3. LiveSlotsDistinct'
    BY <1>1, <1>3, <1>6, <2>1, <2>2 DEF LiveSlotsDistinct
  <2> QED
    BY <1>2, <1>3, <1>4, <2>3 DEF IInv
<1> QED
  BY <1>3, <1>5, <1>6

(***************************************************************************)
(* The new count ends the deletion.                                        *)
(***************************************************************************)
LEMMA DeleteCountInv ==
  ASSUME IInv, TypeInv, DeleteCount
  PROVE  IInv'
<1> USE LayoutAssumption
<1>1. TypeOK /\ BoundInv /\ CountInv /\ LiveSlotsDistinct
  BY IsBounded DEF IInv
<1>2. TypeOK' /\ BoundInv'
  BY <1>1, TypeInvNext, BoundInvStep DEF Next, Step, TypeInv
<1>3. /\ op' = "idle" /\ cnt \in 1 .. MaxTags - 1 /\ k \in 0 .. cnt - 1
      /\ LiveSlots = 1 .. cnt - 1 /\ LiveSlots' = 1 .. k
      /\ \A l \in 1 .. cnt - 1 : SlotId(ee', l) = SlotId(ee, l)
      /\ WrittenInv'
  BY <1>1, DeleteCountEffect DEF Idle
<1>4. \A l \in 1 .. k : l \in 1 .. cnt - 1
  BY <1>3
<1>5. LiveSlotsDistinct' /\ CountInv'
  BY <1>1, <1>2, <1>3, <1>4 DEF LiveSlotsDistinct, BoundInv, CountInv
<1> QED
  BY <1>2, <1>3, <1>5 DEF IInv

\* It says nothing but of the variables of the tag store.
LEMMA IInvStutter ==
  ASSUME IInv, UNCHANGED vars
  PROVE  IInv'
<1>1. StoredCnt(ee)' = StoredCnt(ee) /\ LiveSlots' = LiveSlots
  BY DEF vars, StoredCnt, LiveSlots
<1> QED
  BY <1>1 DEF vars, IInv, TypeOK, CountInv, WrittenInv, LiveSlotsDistinct

(***************************************************************************)
(* The invariant is inductive.                                             *)
(***************************************************************************)
LEMMA IInvNext == FewCards /\ IInv /\ TypeInv /\ [Next]_vars => IInv'
<1> SUFFICES ASSUME FewCards, IInv, TypeInv, [Next]_vars
             PROVE  IInv'
  OBVIOUS
<1>1. ASSUME NEW t \in Cards, RegistCount(t)
      PROVE  IInv'
  BY <1>1, RegistCountInv
<1>2. CASE RegistByte
  BY <1>2, RegistByteInv
<1>3. ASSUME NEW t \in Cards, DeleteFirst(t)
      PROVE  IInv'
  BY <1>3, DeleteFirstInv
<1>4. CASE DeleteZero
  BY <1>4, DeleteZeroInv
<1>5. CASE DeleteShift
  BY <1>5, DeleteShiftInv
<1>6. CASE DeleteCount
  BY <1>6, DeleteCountInv
<1>7. CASE UNCHANGED vars
  BY <1>7, IInvStutter
<1> QED
  BY <1>1, <1>2, <1>3, <1>4, <1>5, <1>6, <1>7 DEF Next, Step

(***************************************************************************)
(* The live slots hold different tags, at every byte written, as long as   *)
(* the tags in use leave one slot free.                                    *)
(***************************************************************************)
THEOREM SlotsDistinct == FewCards => (Spec => []LiveSlotsDistinct)
<1> SUFFICES ASSUME FewCards
             PROVE  Spec => []LiveSlotsDistinct
  OBVIOUS
<1>1. Init => TypeInv /\ IInv
  BY TypeInvInit, IInvInit
<1>2. TypeInv /\ IInv /\ [Next]_vars => TypeInv' /\ IInv'
  BY TypeInvNext, IInvNext
<1>3. IInv => LiveSlotsDistinct
  BY DEF IInv
<1> QED
  BY <1>1, <1>2, <1>3, PTL DEF Spec

-----------------------------------------------------------------------------
(***************************************************************************)
(* The password behind the slots.                                          *)
(***************************************************************************)
LEMMA OtherAddress ==
  ASSUME NEW m \in [Addr -> Byte], NEW d, d < PSW_FLAG, d \in Int,
         NEW v, NEW a \in PasswordArea
  PROVE  WriteByte(m, d, v)[a] = m[a]
BY LayoutAssumption DEF WriteByte, PasswordArea, PSW_FLAG, Addr, EESIZE

(***************************************************************************)
(* Every address a tag operation writes is below the password flag.        *)
(***************************************************************************)
LEMMA StepKeepsPassword ==
  TypeOK /\ BoundInv /\ [Next]_vars => \A a \in PasswordArea : ee'[a] = ee[a]
<1> SUFFICES ASSUME TypeOK, BoundInv, [Next]_vars, NEW a \in PasswordArea
             PROVE  ee'[a] = ee[a]
  OBVIOUS
<1> USE LayoutAssumption
<1>1. ee \in [Addr -> Byte] /\ i \in TagByte /\ cnt \in Int /\ z \in Int /\ x \in Int
  BY DEF TypeOK
<1>2. Mod_Cnt_Tag_Add < PSW_FLAG /\ Mod_Cnt_Tag_Add \in Int
  BY DEF Mod_Cnt_Tag_Add, PSW_FLAG
<1>3. ASSUME NEW j \in 1 .. MaxTags - 1
      PROVE  SlotAddr(j, i) < PSW_FLAG /\ SlotAddr(j, i) \in Int
  BY <1>1
     DEF SlotAddr, Tag_Stored_Base_Add, Base_Add, PSW_FLAG, TagByte
<1>4. op # "idle" => cnt \in 1 .. MaxTags - 1
  BY <1>1 DEF BoundInv
<1>5. ASSUME NEW t \in Cards, RegistCount(t)
      PROVE  ee'[a] = ee[a]
  BY <1>1, <1>2, <1>5, OtherAddress DEF RegistCount, RegistWrite
<1>6. CASE RegistByte
  BY <1>1, <1>3, <1>4, <1>6, OtherAddress DEF RegistByte
<1>7. ASSUME NEW t \in Cards, DeleteFirst(t)
      PROVE  ee'[a] = ee[a]
  BY <1>7 DEF DeleteFirst, DeleteScan
<1>8. CASE DeleteZero
  <2>1. z \in 1 .. MaxTags - 1
    BY <1>1, <1>4, <1>8 DEF DeleteZero, BoundInv
  <2> QED
    BY <1>1, <1>3, <1>8, <2>1, OtherAddress DEF DeleteZero
<1>9. CASE DeleteShift
  <2>1. z + x \in 1 .. MaxTags - 1
    BY <1>1, <1>4, <1>9 DEF DeleteShift, BoundInv
  <2>2. SlotAddr(z + x, i) < PSW_FLAG /\ SlotAddr(z + x, i) \in Int
    BY <1>3, <2>1
  <2> QED
    BY <1>1, <1>9, <2>2, OtherAddress DEF DeleteShift
<1>10. CASE DeleteCount
  BY <1>1, <1>2, <1>10, OtherAddress DEF DeleteCount
<1>11. CASE UNCHANGED vars
  BY <1>11 DEF vars
<1> QED
  BY <1>5, <1>6, <1>7, <1>8, <1>9, <1>10, <1>11 DEF Next, Step

(***************************************************************************)
(* No tag operation changes the password flag or the password, as long as  *)
(* the tags in use leave one slot free.                                    *)
(***************************************************************************)
THEOREM PasswordSafe == FewCards => (Spec => PasswordUntouched)
<1> SUFFICES ASSUME FewCards
             PROVE  Spec => PasswordUntouched
  OBVIOUS
<1>1. Init => TypeInv /\ IInv
  BY TypeInvInit, IInvInit
<1>2. TypeInv /\ IInv /\ [Next]_vars => TypeInv' /\ IInv'
  BY TypeInvNext, IInvNext
<1>3. IInv /\ [Next]_vars => [\A a \in PasswordArea : ee'[a] = ee[a]]_vars
  BY IsBounded, StepKeepsPassword DEF IInv
<1> QED
  BY <1>1, <1>2, <1>3, PTL DEF Spec, PasswordUntouched

-----------------------------------------------------------------------------
(***************************************************************************)
(* TagStore implements TagRegistry: what each action does to the set of    *)
(* registered tags.                                                        *)
(***************************************************************************)

(***************************************************************************)
(* The two memories hold the same tags in the same live slots.             *)
(***************************************************************************)
LEMMA SameSlotsSameTags ==
  ASSUME LiveSlots' = LiveSlots,
         \A l \in LiveSlots : SlotId(ee', l) = SlotId(ee, l)
  PROVE  Registered' = Registered
BY DEF Registered

(***************************************************************************)
(* The write of the new count begins the abstract job.                     *)
(***************************************************************************)
LEMMA RegistCountStep ==
  ASSUME IInv, NEW t \in Cards, RegistCount(t)
  PROVE  Registry!BeginRegister(t)
<1> DEFINE c == StoredCnt(ee)
<1>1. /\ op = "idle" /\ op' = "regist" /\ tag' = t
      /\ LiveSlots = 1 .. c /\ LiveSlots' = 1 .. c
      /\ \A l \in 1 .. c : SlotId(ee', l) = SlotId(ee, l) /\ SlotId(ee, l) # t
  BY RegistCountEffect DEF IInv, CountInv
<1>2. Registered' = Registered /\ t \notin Registered
  BY <1>1, SameSlotsSameTags DEF Registered
<1> QED
  BY <1>1, <1>2 DEF Registry!BeginRegister, Job

(***************************************************************************)
(* The bytes of the tag leave the registered tags alone until the last one *)
(* ends the abstract job.                                                  *)
(***************************************************************************)
LEMMA RegistStep ==
  ASSUME IInv, RegistByte
  PROVE  Registry!EndRegister \/ UNCHANGED Registry!rvars
<1> USE LayoutAssumption
<1>1. /\ op = "regist" /\ LiveSlots = 1 .. cnt - 1 /\ cnt \in 1 .. MaxTags
      /\ \A l \in 1 .. cnt - 1 : SlotId(ee', l) = SlotId(ee, l)
      /\ \/ LiveSlots' = 1 .. cnt - 1 /\ UNCHANGED <<op, tag, cnt>>
         \/ LiveSlots' = 1 .. cnt /\ SlotId(ee', cnt) = tag /\ Idle
  BY IsBounded, RegistByteEffect DEF IInv
<1>2. CASE LiveSlots' = 1 .. cnt - 1 /\ UNCHANGED <<op, tag, cnt>>
  <2>1. Registered' = Registered
    BY <1>1, <1>2, SameSlotsSameTags
  <2> QED
    BY <1>2, <2>1 DEF Registry!rvars, Job
<1>3. CASE LiveSlots' = 1 .. cnt /\ SlotId(ee', cnt) = tag /\ Idle
  <2>1. 1 .. cnt = (1 .. cnt - 1) \cup {cnt}
    BY <1>1
  <2>2. Registered' = Registered \cup {tag}
    BY <1>1, <1>3, <2>1 DEF Registered
  <2> QED
    BY <1>1, <1>3, <2>2 DEF Registry!EndRegister, Job, Idle
<1> QED
  BY <1>1, <1>2, <1>3

(***************************************************************************)
(* Finding the tag begins the abstract deletion.                           *)
(***************************************************************************)
LEMMA DeleteFirstStep ==
  ASSUME IInv, NEW t \in Cards, DeleteFirst(t)
  PROVE  Registry!BeginDelete(t)
<1> DEFINE c == StoredCnt(ee)
<1>1. /\ op = "idle" /\ op' = "zero" /\ tag' = t /\ ee' = ee
      /\ LiveSlots = 1 .. c /\ LiveSlots' = (1 .. c) \ {z'}
      /\ z' \in 1 .. c /\ SlotId(ee, z') = t
  BY DeleteFirstEffect DEF IInv
<1>2. \A l \in 1 .. c : SlotId(ee, l) = t <=> l = z'
  BY <1>1 DEF IInv, LiveSlotsDistinct
<1>3. t \in Registered /\ Registered' = Registered \ {t}
  BY <1>1, <1>2 DEF Registered
<1> QED
  BY <1>1, <1>3 DEF Registry!BeginDelete, Job

(***************************************************************************)
(* Clearing a slot, unless there is another copy of the tag, and moving    *)
(* the slots down leave the registered tags alone: no tag is lost while    *)
(* the slots move, whatever they hold.                                     *)
(***************************************************************************)
LEMMA ClearMoves ==
  ASSUME TypeOK, BoundInv, DeleteZero,
         \A l \in (1 .. cnt) \ {z} : SlotId(ee, l) # tag
  PROVE  Registered' = Registered
<1>1. /\ LiveSlots = (1 .. cnt) \ {z} /\ LiveSlots' = LiveSlots
      /\ \A l \in (1 .. cnt) \ {z} : SlotId(ee', l) = SlotId(ee, l)
  BY DeleteZeroEffect
<1> QED
  BY <1>1, SameSlotsSameTags

\* The copy over the slot that is not live.
LEMMA ShiftMoves ==
  ASSUME TypeOK, BoundInv, WrittenInv, DeleteShift
  PROVE  Registered' = Registered
<1> DEFINE s == z + x
<1>1. /\ s \in 1 .. cnt /\ LiveSlots = (1 .. cnt) \ {s}
      /\ \A l \in (1 .. cnt) \ {s} : SlotId(ee', l) = SlotId(ee, l)
      /\ \/ LiveSlots' = (1 .. cnt) \ {s}
         \/ /\ s + 1 \in (1 .. cnt) \ {s} /\ LiveSlots' = (1 .. cnt) \ {s + 1}
            /\ SlotId(ee', s) = SlotId(ee, s + 1)
  BY DeleteShiftEffect
<1>2. CASE LiveSlots' = (1 .. cnt) \ {s}
  BY <1>1, <1>2, SameSlotsSameTags
<1>3. CASE /\ s + 1 \in (1 .. cnt) \ {s} /\ LiveSlots' = (1 .. cnt) \ {s + 1}
           /\ SlotId(ee', s) = SlotId(ee, s + 1)
  <2> DEFINE src(l) == IF l = s THEN s + 1 ELSE l
  <2>1. \A l \in (1 .. cnt) \ {s + 1} :
          src(l) \in (1 .. cnt) \ {s} /\ SlotId(ee', l) = SlotId(ee, src(l))
    BY <1>1, <1>3
  <2>2. \A l \in (1 .. cnt) \ {s} : \E m \in (1 .. cnt) \ {s + 1} : l = src(m)
    BY <1>1, <1>3
  <2> HIDE DEF src
  <2> QED
    BY <1>1, <1>3, <2>1, <2>2 DEF Registered
<1> QED
  BY <1>1, <1>2, <1>3

\* The new count, unless several copies were cleared.
LEMMA CountMoves ==
  ASSUME TypeOK, BoundInv, DeleteCount, k = cnt - 1
  PROVE  Registered' = Registered
<1>1. /\ LiveSlots = 1 .. cnt - 1 /\ LiveSlots' = 1 .. cnt - 1
      /\ \A l \in 1 .. cnt - 1 : SlotId(ee', l) = SlotId(ee, l)
  BY DeleteCountEffect
<1> QED
  BY <1>1, SameSlotsSameTags

(***************************************************************************)
(* So no later write of delete_registered_tag changes a registry without   *)
(* duplicates.                                                             *)
(***************************************************************************)
LEMMA DeleteStep ==
  ASSUME IInv, DeleteZero \/ DeleteShift \/ DeleteCount
  PROVE  Registered' = Registered
<1>1. TypeOK /\ BoundInv /\ WrittenInv
  BY IsBounded DEF IInv
<1>2. CASE DeleteZero
  <2>1. \A l \in (1 .. cnt) \ {z} : SlotId(ee, l) # tag
    BY <1>2 DEF IInv, LiveSlotsDistinct, LiveSlots, DeleteZero
  <2> QED
    BY <1>1, <1>2, <2>1, ClearMoves
<1>3. CASE DeleteCount
  <2>1. k = cnt - 1
    BY <1>3 DEF IInv, CountInv, DeleteCount
  <2> QED
    BY <1>1, <1>3, <2>1, CountMoves
<1> QED
  BY <1>1, <1>2, <1>3, ShiftMoves

(***************************************************************************)
(* The job goes on until the new count is written.                         *)
(***************************************************************************)
LEMMA DeleteJob ==
  ASSUME DeleteZero \/ DeleteShift \/ DeleteCount
  PROVE  /\ Job = "delete"
         /\ \/ Job' = "none" /\ tag' = NoTag
            \/ Job' = "delete" /\ tag' = tag
<1>1. CASE DeleteZero
  BY <1>1 DEF DeleteZero, Job
<1>2. CASE DeleteShift
  BY <1>2 DEF DeleteShift, Job
<1>3. CASE DeleteCount
  BY <1>3 DEF DeleteCount, Idle, Job
<1> QED
  BY <1>1, <1>2, <1>3

(***************************************************************************)
(* Byte by byte, the tag operations implement the abstract registry: a tag *)
(* becomes registered with the last byte of regist_tag, it stops being so  *)
(* when delete_registered_tag finds it, and every other write leaves the   *)
(* set of registered tags alone.                                           *)
(***************************************************************************)
THEOREM Refinement == FewCards => (Spec => ImplementsRegistry)
<1> SUFFICES ASSUME FewCards
             PROVE  Spec => ImplementsRegistry
  OBVIOUS
<1>1. Init => TypeInv /\ IInv
  BY TypeInvInit, IInvInit
<1>2. TypeInv /\ IInv /\ [Next]_vars => TypeInv' /\ IInv'
  BY TypeInvNext, IInvNext
<1>3. Init /\ IInv => Registry!Init
  <2>1. Init /\ IInv => op = "idle"
    BY DEF Init
  <2>2. Init => StoredCnt(ee) = 0
    BY EmptyChip DEF Init
  <2>3. Init => LiveSlots = {}
    BY <2>2 DEF Init, LiveSlots
  <2> QED
    BY <2>3 DEF Init, Registered, Job, Registry!Init
<1>4. IInv /\ [Next]_vars => [Registry!Next]_(Registry!rvars)
  <2> SUFFICES ASSUME IInv, [Next]_vars
               PROVE  Registry!Next \/ UNCHANGED Registry!rvars
    OBVIOUS
  <2>1. ASSUME NEW t \in Cards, RegistCount(t)
        PROVE  Registry!Next
    BY <2>1, RegistCountStep DEF Registry!Next
  <2>2. CASE RegistByte
    BY <2>2, RegistStep DEF Registry!Next
  <2>3. ASSUME NEW t \in Cards, DeleteFirst(t)
        PROVE  Registry!Next
    BY <2>3, DeleteFirstStep DEF Registry!Next
  <2>4. CASE DeleteZero \/ DeleteShift \/ DeleteCount
    <3>1. Registered' = Registered
      BY <2>4, DeleteStep
    <3>2. Registry!EndDelete \/ UNCHANGED Registry!rvars
      BY <2>4, <3>1, DeleteJob DEF Registry!EndDelete, Registry!rvars
    <3> QED
      BY <3>2 DEF Registry!Next
  <2>5. CASE UNCHANGED vars
    <3>1. LiveSlots' = LiveSlots /\ ee' = ee /\ Job' = Job /\ tag' = tag
      BY <2>5 DEF vars, LiveSlots, StoredCnt, Job
    <3>2. Registered' = Registered
      BY <3>1, SameSlotsSameTags
    <3> QED
      BY <3>1, <3>2 DEF Registry!rvars
  <2> QED
    BY <2>1, <2>2, <2>3, <2>4, <2>5 DEF Next, Step
<1> QED
  BY <1>1, <1>2, <1>3, <1>4, PTL DEF Spec, ImplementsRegistry, Registry!Spec
=============================================================================
