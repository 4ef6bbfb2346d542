------------------------- MODULE DoorStorageProofs -------------------------
(***************************************************************************)
(* What the EEPROM keeps over restarts, for any number of slots, any tags  *)
(* and passwords, and any number of power failures the slots have room     *)
(* for: every failure may cost one of them.                                *)
(***************************************************************************)
EXTENDS DoorStorage, TagStoreProofs

\* One slot stays free when every tag is registered and every failure cost one.
FewTags == IsFiniteSet(Cards) /\ Cardinality(Cards) + MaxCrashes < MaxTags
-----------------------------------------------------------------------------
(***************************************************************************)
(* The slots of L hold different ids of Ids, all but at most f of them,    *)
(* about which nothing is known.                                           *)
(***************************************************************************)
AllBut(m, L, f, Ids) ==
  \E W \in SUBSET L :
    /\ IsFiniteSet(W) /\ Cardinality(W) <= f
    /\ \A j \in L \ W : SlotId(m, j) \in Ids
    /\ \A j, l \in L \ W : SlotId(m, j) = SlotId(m, l) => j = l

(***************************************************************************)
(* While a tag is registered or deleted the other slots hold other tags.   *)
(***************************************************************************)
Held == IF op = "idle" THEN Cards ELSE Cards \ {tag}

WasteInv == AllBut(ee, LiveSlots, crashes, Held)

(***************************************************************************)
(* Unless the tag being deleted had a second copy, the live slots hold     *)
(* every other tag, there is none to come back to, and the new count is    *)
(* one less than the old one.                                              *)
(***************************************************************************)
KeepInv ==
  copies <= 1 =>
    /\ before \subseteq Registered
    /\ op = "zero" => \A l \in (1 .. cnt) \ {z} : SlotId(ee, l) # tag
    /\ op \in {"zero", "shift", "count"} => k = cnt - 1

(***************************************************************************)
(* The tag store between restarts: the chip stays formatted.               *)
(***************************************************************************)
StoreInv ==
  /\ TypeInv /\ BoundInv /\ WrittenInv
  /\ op # "idle" => tag \in Cards
  /\ IsModified(ee[Mod_Cnt_Tag_Add])
  /\ crashes \in 0 .. MaxCrashes
  /\ before \in SUBSET Cards
  /\ copies \in 0 .. CntMod
  /\ WasteInv /\ KeepInv

(***************************************************************************)
(* The password: the flag is set with the first one and stays; no password *)
(* is set up after that; the bytes written are those of the new password,  *)
(* and the flag is written after all six.                                  *)
(***************************************************************************)
PswTypes ==
  /\ phase \in {"setup", "flag", "run"}
  /\ session \in {"none", "setpsw", "register", "delete", "verified"}
  /\ newpsw \in Passwords \cup {NoPsw}
  /\ n \in PswByteNo
  /\ lastSet \in Passwords \cup {NoPsw}
  /\ torn \in BOOLEAN

FlagInv ==
  /\ lastSet # NoPsw => ee[PSW_FLAG] = PswSet
  /\ phase \in {"setup", "flag"} => lastSet = NoPsw

NewPswInv ==
  /\ phase = "flag" =>
       session = "none" /\ newpsw \in Passwords /\ StoredPsw(ee) = newpsw
  /\ Writing =>
       /\ newpsw \in Passwords
       /\ \A b \in PswByteNo : b < n => ee[PSW_ADD_BASE + b] = newpsw[b]

PswInv == PswTypes /\ FlagInv /\ NewPswInv /\ PasswordKept

SInv == StoreInv /\ PswInv
-----------------------------------------------------------------------------
(***************************************************************************)
(* Lemmas about AllBut.                                                    *)
(***************************************************************************)

(***************************************************************************)
(* A set with one element replaced, or gone, is no larger.                 *)
(***************************************************************************)
LEMMA Swap ==
  ASSUME NEW W, IsFiniteSet(W), NEW a \in W, NEW b
  PROVE  /\ IsFiniteSet(W \ {a}) /\ IsFiniteSet((W \ {a}) \cup {b})
         /\ Cardinality(W \ {a}) <= Cardinality(W)
         /\ Cardinality((W \ {a}) \cup {b}) <= Cardinality(W)
<1>1. Cardinality(W) \in Nat
  BY FS_CardinalityType
<1>2. IsFiniteSet(W \ {a}) /\ Cardinality(W \ {a}) = Cardinality(W) - 1
  BY FS_RemoveElement
<1>3. /\ IsFiniteSet((W \ {a}) \cup {b})
      /\ \/ Cardinality((W \ {a}) \cup {b}) = Cardinality(W \ {a})
         \/ Cardinality((W \ {a}) \cup {b}) = Cardinality(W \ {a}) + 1
  BY <1>2, FS_AddElement
<1> QED
  BY <1>1, <1>2, <1>3

(***************************************************************************)
(* It holds of fewer slots with the same ids, and of more ids.             *)
(***************************************************************************)
LEMMA AllButFewer ==
  ASSUME NEW m, NEW w, NEW L, NEW M \in SUBSET L, NEW f \in Nat, NEW Ids, NEW Jds,
         AllBut(m, L, f, Ids), Ids \subseteq Jds,
         \A j \in M : SlotId(w, j) = SlotId(m, j)
  PROVE  AllBut(w, M, f, Jds)
<1>1. PICK W \in SUBSET L :
        /\ IsFiniteSet(W) /\ Cardinality(W) <= f
        /\ \A j \in L \ W : SlotId(m, j) \in Ids
        /\ \A j, l \in L \ W : SlotId(m, j) = SlotId(m, l) => j = l
  BY DEF AllBut
<1> DEFINE V == W \cap M
<1>2. IsFiniteSet(V) /\ Cardinality(V) <= Cardinality(W)
  BY <1>1, FS_Intersection
<1>3. Cardinality(V) <= f
  BY <1>1, <1>2, FS_CardinalityType
<1>4. M \ V \subseteq L \ W
  OBVIOUS
<1>5. /\ \A j \in M \ V : SlotId(w, j) \in Jds
      /\ \A j, l \in M \ V : SlotId(w, j) = SlotId(w, l) => j = l
  BY <1>1, <1>4
<1> QED
  BY <1>2, <1>3, <1>5 DEF AllBut

(***************************************************************************)
(* It holds when slot b takes the place of slot a, if it holds the same id *)
(* or the id of a was none of Ids, so that a was an exception.             *)
(***************************************************************************)
LEMMA AllButMove ==
  ASSUME NEW m, NEW w, NEW L, NEW a \in L, NEW b, b \notin L, NEW f \in Nat, NEW Ids,
         AllBut(m, L, f, Ids),
         \A j \in L \ {a} : SlotId(w, j) = SlotId(m, j),
         SlotId(w, b) = SlotId(m, a) \/ SlotId(m, a) \notin Ids
  PROVE  AllBut(w, (L \ {a}) \cup {b}, f, Ids)
<1> DEFINE M == (L \ {a}) \cup {b}
<1>1. PICK W \in SUBSET L :
        /\ IsFiniteSet(W) /\ Cardinality(W) <= f
        /\ \A j \in L \ W : SlotId(m, j) \in Ids
        /\ \A j, l \in L \ W : SlotId(m, j) = SlotId(m, l) => j = l
  BY DEF AllBut
<1>2. CASE a \in W
  <2> DEFINE V == (W \ {a}) \cup {b}
  <2>1. IsFiniteSet(V) /\ Cardinality(V) <= Cardinality(W)
    BY <1>1, <1>2, Swap
  <2>2. Cardinality(V) <= f
    BY <1>1, <2>1, FS_CardinalityType
  <2>3. V \in SUBSET M /\ M \ V \subseteq (L \ W) \ {a}
    BY <1>2
  <2>4. /\ \A j \in M \ V : SlotId(w, j) \in Ids
        /\ \A j, l \in M \ V : SlotId(w, j) = SlotId(w, l) => j = l
    BY <1>1, <2>3
  <2> QED
    BY <2>1, <2>2, <2>3, <2>4 DEF AllBut
<1>3. CASE a \notin W
  <2>1. SlotId(w, b) = SlotId(m, a)
    BY <1>1, <1>3
  <2> DEFINE src(j) == IF j = b THEN a ELSE j
  <2>2. W \in SUBSET M
    BY <1>3
  <2>3. \A j \in M \ W : src(j) \in L \ W /\ SlotId(w, j) = SlotId(m, src(j))
    BY <1>3, <2>1
  <2>4. \A j, l \in M \ W : src(j) = src(l) => j = l
    OBVIOUS
  <2> HIDE DEF src
  <2>5. /\ \A j \in M \ W : SlotId(w, j) \in Ids
        /\ \A j, l \in M \ W : SlotId(w, j) = SlotId(w, l) => j = l
    BY <1>1, <2>3, <2>4
  <2> QED
    BY <1>1, <2>2, <2>5 DEF AllBut
<1> QED
  BY <1>2, <1>3

(***************************************************************************)
(* Without a slot that holds t it holds of the other ids: if that slot was *)
(* an exception, the one other slot with t can be one in its place.        *)
(***************************************************************************)
LEMMA AllButDrop ==
  ASSUME NEW m, NEW L, NEW a \in L, NEW f \in Nat, NEW Ids, AllBut(m, L, f, Ids)
  PROVE  AllBut(m, L \ {a}, f, Ids \ {SlotId(m, a)})
<1> DEFINE M == L \ {a}
           t == SlotId(m, a)
<1>1. PICK W \in SUBSET L :
        /\ IsFiniteSet(W) /\ Cardinality(W) <= f
        /\ \A j \in L \ W : SlotId(m, j) \in Ids
        /\ \A j, l \in L \ W : SlotId(m, j) = SlotId(m, l) => j = l
  BY DEF AllBut
<1>2. ASSUME NEW V \in SUBSET M, IsFiniteSet(V), Cardinality(V) <= Cardinality(W),
             M \ V \subseteq L \ W, \A j \in M \ V : SlotId(m, j) # t
      PROVE  AllBut(m, M, f, Ids \ {t})
  <2>1. Cardinality(V) <= f
    BY <1>1, <1>2, FS_CardinalityType
  <2>2. /\ \A j \in M \ V : SlotId(m, j) \in Ids \ {t}
        /\ \A j, l \in M \ V : SlotId(m, j) = SlotId(m, l) => j = l
    BY <1>1, <1>2
  <2> QED
    BY <1>2, <2>1, <2>2 DEF AllBut
<1>3. CASE a \notin W
  <2>1. \A j \in M \ W : SlotId(m, j) # t
    BY <1>1, <1>3
  <2>2. W \in SUBSET M /\ Cardinality(W) <= Cardinality(W) /\ M \ W \subseteq L \ W
    BY <1>1, <1>3, FS_CardinalityType
  <2> QED
    BY <1>1, <1>2, <2>1, <2>2
<1>4. CASE a \in W /\ \A j \in L \ W : SlotId(m, j) # t
  <2>1. IsFiniteSet(W \ {a}) /\ Cardinality(W \ {a}) <= Cardinality(W)
    BY <1>1, <1>4, Swap
  <2>2. W \ {a} \in SUBSET M /\ M \ (W \ {a}) \subseteq L \ W
    BY <1>4
  <2> QED
    BY <1>2, <1>4, <2>1, <2>2
<1>5. ASSUME a \in W, NEW g \in L \ W, SlotId(m, g) = t
      PROVE  AllBut(m, M, f, Ids \ {t})
  <2> DEFINE V == (W \ {a}) \cup {g}
  <2>1. IsFiniteSet(V) /\ Cardinality(V) <= Cardinality(W)
    BY <1>1, <1>5, Swap
  <2>2. V \in SUBSET M /\ M \ V \subseteq (L \ W) \ {g}
    BY <1>5
  <2>3. \A j \in M \ V : SlotId(m, j) # t
    BY <1>1, <1>5, <2>2
  <2> QED
    BY <1>2, <2>1, <2>2, <2>3
<1> QED
  BY <1>3, <1>4, <1>5

(***************************************************************************)
(* With one more exception it holds of one more slot.                      *)
(***************************************************************************)
LEMMA AllButSpoil ==
  ASSUME NEW m, NEW L, NEW a, NEW M \in SUBSET (L \cup {a}), NEW f \in Nat, NEW Ids, NEW Jds,
         AllBut(m, L, f, Ids), Ids \subseteq Jds
  PROVE  AllBut(m, M, f + 1, Jds)
<1>1. PICK W \in SUBSET L :
        /\ IsFiniteSet(W) /\ Cardinality(W) <= f
        /\ \A j \in L \ W : SlotId(m, j) \in Ids
        /\ \A j, l \in L \ W : SlotId(m, j) = SlotId(m, l) => j = l
  BY DEF AllBut
<1> DEFINE K == L \cup {a}
           V == W \cup {a}
<1>2. /\ IsFiniteSet(V) /\ Cardinality(W) \in Nat
      /\ Cardinality(V) = Cardinality(W) \/ Cardinality(V) = Cardinality(W) + 1
  BY <1>1, FS_AddElement, FS_CardinalityType
<1>3. Cardinality(V) <= f + 1
  BY <1>1, <1>2
<1>4. /\ V \in SUBSET K
      /\ \A j \in K \ V : SlotId(m, j) \in Ids
      /\ \A j, l \in K \ V : SlotId(m, j) = SlotId(m, l) => j = l
  BY <1>1
<1>5. AllBut(m, K, f + 1, Ids)
  BY <1>2, <1>3, <1>4 DEF AllBut
<1> QED
  BY <1>5, AllButFewer

(***************************************************************************)
(* A slot with a new id is added.                                          *)
(***************************************************************************)
LEMMA AllButAdd ==
  ASSUME NEW m, NEW w, NEW L, NEW b, b \notin L, NEW f \in Nat, NEW Ids,
         AllBut(m, L, f, Ids \ {SlotId(w, b)}), SlotId(w, b) \in Ids,
         \A j \in L : SlotId(w, j) = SlotId(m, j)
  PROVE  AllBut(w, L \cup {b}, f, Ids)
<1> DEFINE M == L \cup {b}
<1>1. PICK W \in SUBSET L :
        /\ IsFiniteSet(W) /\ Cardinality(W) <= f
        /\ \A j \in L \ W : SlotId(m, j) \in Ids \ {SlotId(w, b)}
        /\ \A j, l \in L \ W : SlotId(m, j) = SlotId(m, l) => j = l
  BY DEF AllBut
<1>2. \A j \in M \ W : j = b \/ (j \in L \ W /\ SlotId(w, j) = SlotId(m, j))
  OBVIOUS
<1>3. /\ W \in SUBSET M
      /\ \A j \in M \ W : SlotId(w, j) \in Ids
      /\ \A j, l \in M \ W : SlotId(w, j) = SlotId(w, l) => j = l
  BY <1>1, <1>2
<1> QED
  BY <1>1, <1>3 DEF AllBut

(***************************************************************************)
(* The slots 1 .. c are no more than there are ids and exceptions.         *)
(***************************************************************************)
LEMMA AllButCount ==
  ASSUME NEW m, NEW c \in Nat, NEW f \in Nat, NEW Ids, IsFiniteSet(Ids),
         AllBut(m, 1 .. c, f, Ids)
  PROVE  c <= Cardinality(Ids) + f
<1>1. PICK W \in SUBSET (1 .. c) :
        /\ IsFiniteSet(W) /\ Cardinality(W) <= f
        /\ \A j \in (1 .. c) \ W : SlotId(m, j) \in Ids
        /\ \A j, l \in (1 .. c) \ W : SlotId(m, j) = SlotId(m, l) => j = l
  BY DEF AllBut
<1> DEFINE G == (1 .. c) \ W
           F == [j \in G |-> SlotId(m, j)]
<1>2. F \in [G -> Ids] /\ \A j, l \in G : F[j] = F[l] => j = l
  BY <1>1
<1> HIDE DEF F
<1>3. F \in Injection(G, Ids)
  BY <1>2, Fun_IsInj
<1>4. IsFiniteSet(G) /\ Cardinality(G) <= Cardinality(Ids)
  BY <1>3, FS_Injection
<1>5. G \cup W = 1 .. c /\ G \cap W = {}
  OBVIOUS
<1>6. Cardinality(1 .. c) = c /\ Cardinality({}) = 0
  BY FS_Interval, FS_EmptySet
<1>7. Cardinality(G \cup W) = Cardinality(G) + Cardinality(W) - Cardinality(G \cap W)
  BY <1>1, <1>4, FS_Union
<1>8. Cardinality(G) \in Nat /\ Cardinality(W) \in Nat /\ Cardinality(Ids) \in Nat
  BY <1>1, <1>4, FS_CardinalityType
<1>9. Cardinality(1 .. c) = Cardinality(G) + Cardinality(W) - Cardinality({})
  BY <1>5, <1>7, Zenon
<1> HIDE DEF G
<1> QED
  BY <1>1, <1>4, <1>6, <1>8, <1>9

(***************************************************************************)
(* An id that no slot holds is none of the ids held.                       *)
(***************************************************************************)
LEMMA AllButAbsent ==
  ASSUME NEW m, NEW L, NEW f, NEW Ids, AllBut(m, L, f, Ids),
         NEW t, \A j \in L : SlotId(m, j) # t
  PROVE  AllBut(m, L, f, Ids \ {t})
<1>1. PICK W \in SUBSET L :
        /\ IsFiniteSet(W) /\ Cardinality(W) <= f
        /\ \A j \in L \ W : SlotId(m, j) \in Ids
        /\ \A j, l \in L \ W : SlotId(m, j) = SlotId(m, l) => j = l
  BY DEF AllBut
<1>2. \A j \in L \ W : SlotId(m, j) \in Ids \ {t}
  BY <1>1
<1> QED
  BY <1>1, <1>2 DEF AllBut
-----------------------------------------------------------------------------
(***************************************************************************)
(* The tag store.  Live slots are counted ones, and there is room for the  *)
(* tag that is registered next.                                            *)
(***************************************************************************)
LEMMA LiveAreCounted == TypeOK /\ BoundInv => LiveSlots \subseteq 1 .. StoredCnt(ee)
<1> SUFFICES ASSUME TypeOK, BoundInv
             PROVE  LiveSlots \subseteq 1 .. StoredCnt(ee)
  OBVIOUS
<1>1. CASE op = "idle"
  BY <1>1 DEF LiveSlots
<1>2. CASE op \in {"regist", "count"}
  <2>1. LiveSlots = 1 .. cnt - 1 /\ cnt = StoredCnt(ee) /\ cnt \in Int
    BY <1>2 DEF LiveSlots, BoundInv, TypeOK
  <2> QED
    BY <2>1
<1>3. CASE op \in {"zero", "shift"}
  <2>1. LiveSlots \subseteq 1 .. cnt /\ cnt = StoredCnt(ee)
    BY <1>3 DEF LiveSlots, BoundInv
  <2> QED
    BY <2>1
<1> QED
  BY <1>1, <1>2, <1>3 DEF TypeOK

\* Types of the parts of FewTags.
LEMMA FewTypes == FewTags => Cardinality(Cards) \in Nat /\ MaxCrashes \in Nat
BY FS_CardinalityType, PasswordAssumption DEF FewTags

\* The count between operations.
LEMMA CountBound ==
  ASSUME FewTags, StoreInv, op = "idle"
  PROVE  StoredCnt(ee) <= Cardinality(Cards) + crashes
<1>1. StoredCnt(ee) \in 0 .. CntMod - 1
  BY StoredCntType DEF StoreInv, TypeInv, TypeOK
<1>2. StoredCnt(ee) \in Nat /\ crashes \in Nat
  BY <1>1, FewTypes, LayoutAssumption DEF StoreInv
<1>3. AllBut(ee, 1 .. StoredCnt(ee), crashes, Cards)
  BY DEF StoreInv, WasteInv, LiveSlots, Held
<1> QED
  BY <1>2, <1>3, AllButCount DEF FewTags

\* The count with a tag more.
LEMMA RoomForTag ==
  ASSUME FewTags, StoreInv, NEW t \in Cards, RegistCount(t)
  PROVE  StoredCnt(ee) + 1 < MaxTags
<1> DEFINE c == StoredCnt(ee)
<1>1. c \in 0 .. CntMod - 1 /\ op = "idle" /\ \A j \in 1 .. c : SlotId(ee, j) # t
  BY StoredCntType DEF StoreInv, TypeInv, TypeOK, RegistCount, RegistWrite, tag_match, Matches
<1>2. c \in Nat /\ crashes \in Nat /\ crashes <= MaxCrashes
  BY <1>1, FewTypes, LayoutAssumption DEF StoreInv
<1>3. AllBut(ee, 1 .. c, crashes, Cards \ {t})
  BY <1>1, AllButAbsent DEF StoreInv, WasteInv, LiveSlots, Held
<1>4. /\ IsFiniteSet(Cards \ {t})
      /\ Cardinality(Cards \ {t}) = Cardinality(Cards) - 1
  BY FS_RemoveElement DEF FewTags
<1>5. c <= Cardinality(Cards \ {t}) + crashes
  BY <1>2, <1>3, <1>4, AllButCount
<1> HIDE DEF c
<1>6. c + 1 < MaxTags
  BY <1>2, <1>4, <1>5, FewTypes, LayoutAssumption DEF FewTags
<1> QED
  BY <1>6 DEF c

(***************************************************************************)
(* No write of a tag operation takes the mark off the chip.                *)
(***************************************************************************)
LEMMA CountByteMark == \A c \in 0 .. CntMod - 1 : IsModified(CountByte(c))
BY LayoutAssumption DEF CountByte, IsModified, Modified

\* A byte of a slot is not the one with the mark.
LEMMA SlotMark ==
  ASSUME NEW m \in [Addr -> Byte], NEW l \in 1 .. MaxTags, NEW d \in TagByte, NEW v
  PROVE  WriteByte(m, SlotAddr(l, d), v)[Mod_Cnt_Tag_Add] = m[Mod_Cnt_Tag_Add]
<1>1. SlotAddr(l, d) # Mod_Cnt_Tag_Add
  BY SlotAddrFacts
<1>2. Mod_Cnt_Tag_Add \in Addr
  BY LayoutAssumption DEF Mod_Cnt_Tag_Add, Addr, EESIZE
<1> QED
  BY <1>1, <1>2 DEF WriteByte

\* The count is written with it.
LEMMA CountMark ==
  ASSUME NEW m \in [Addr -> Byte], NEW c \in 0 .. CntMod - 1
  PROVE  IsModified(WriteByte(m, Mod_Cnt_Tag_Add, CountByte(c))[Mod_Cnt_Tag_Add])
<1>1. Mod_Cnt_Tag_Add \in Addr
  BY LayoutAssumption DEF Mod_Cnt_Tag_Add, Addr, EESIZE
<1> QED
  BY <1>1, CountByteMark DEF WriteByte

\* So each action of the tag store keeps it.
LEMMA MarkStays ==
  ASSUME TypeOK, BoundInv, IsModified(ee[Mod_Cnt_Tag_Add]),
         Step \/ \E t \in Cards : RegistCount(t) \/ DeleteFirst(t)
  PROVE  IsModified(ee'[Mod_Cnt_Tag_Add])
<1> USE LayoutAssumption
<1>1. ee \in [Addr -> Byte] /\ i \in TagByte /\ StoredCnt(ee) \in 0 .. CntMod - 1
  BY StoredCntType DEF TypeOK
<1>2. CASE RegistByte
  <2>1. cnt \in 1 .. MaxTags
    BY <1>2 DEF RegistByte, TypeOK, BoundInv
  <2> QED
    BY <1>1, <1>2, <2>1, SlotMark DEF RegistByte
<1>3. CASE DeleteZero
  <2>1. z \in 1 .. MaxTags
    BY <1>3 DEF DeleteZero, TypeOK, BoundInv
  <2> QED
    BY <1>1, <1>3, <2>1, SlotMark DEF DeleteZero
<1>4. CASE DeleteShift
  <2>1. z + x \in 1 .. MaxTags
    BY <1>4 DEF DeleteShift, TypeOK, BoundInv
  <2>2. \E v : ee' = WriteByte(ee, SlotAddr(z + x, i), v)
    BY <1>4 DEF DeleteShift
  <2> QED
    BY <1>1, <2>1, <2>2, SlotMark
<1>5. CASE DeleteCount
  <2>1. k \in 0 .. CntMod - 1
    BY DEF TypeOK
  <2> QED
    BY <1>1, <1>5, <2>1, CountMark DEF DeleteCount
<1>6. ASSUME NEW t \in Cards, RegistCount(t)
      PROVE  IsModified(ee'[Mod_Cnt_Tag_Add])
  <2>1. cnt' \in 0 .. CntMod - 1
    BY <1>1, <1>6 DEF RegistCount, RegistWrite, NewCnt
  <2> QED
    BY <1>1, <1>6, <2>1, CountMark DEF RegistCount, RegistWrite
<1>7. ASSUME NEW t \in Cards, DeleteFirst(t)
      PROVE  IsModified(ee'[Mod_Cnt_Tag_Add])
  BY <1>7 DEF DeleteFirst, DeleteScan
<1> QED
  BY <1>2, <1>3, <1>4, <1>5, <1>6, <1>7 DEF Step
-----------------------------------------------------------------------------
(***************************************************************************)
(* What the steps of a tag operation do to the tags.  The last byte of a   *)
(* tag that is registered adds it.                                         *)
(***************************************************************************)
SlotsInv ==
  /\ op # "idle" => tag \in Cards
  /\ WasteInv /\ KeepInv

LEMMA RegistByteKeeps ==
  ASSUME StoreInv, RegistByte, UNCHANGED <<crashes, history>>
  PROVE  SlotsInv'
<1> USE LayoutAssumption
<1>1. /\ TypeOK /\ BoundInv /\ WrittenInv /\ crashes \in Nat
      /\ crashes' = crashes /\ before' = before /\ copies' = copies
  BY PasswordAssumption DEF StoreInv, TypeInv, history
<1>2. /\ op = "regist" /\ LiveSlots = 1 .. cnt - 1 /\ cnt \in 1 .. MaxTags
      /\ \A l \in 1 .. cnt - 1 : SlotId(ee', l) = SlotId(ee, l)
      /\ \/ LiveSlots' = 1 .. cnt - 1 /\ UNCHANGED <<op, tag, cnt>>
         \/ LiveSlots' = 1 .. cnt /\ SlotId(ee', cnt) = tag /\ Idle
  BY <1>1, RegistByteEffect
<1>3. tag \in Cards /\ AllBut(ee, 1 .. cnt - 1, crashes, Cards \ {tag})
  BY <1>2 DEF StoreInv, WasteInv, Held
<1>4. CASE LiveSlots' = 1 .. cnt - 1 /\ UNCHANGED <<op, tag, cnt>>
  <2>1. AllBut(ee', 1 .. cnt - 1, crashes, Cards \ {tag})
    BY <1>1, <1>2, <1>3, AllButFewer
  <2>2. WasteInv'
    BY <1>1, <1>2, <1>4, <2>1 DEF WasteInv, Held
  <2>3. Registered' = Registered
    BY <1>2, <1>4, SameSlotsSameTags
  <2>4. KeepInv'
    BY <1>1, <1>2, <1>4, <2>3 DEF StoreInv, KeepInv
  <2> QED
    BY <1>3, <1>4, <2>2, <2>4 DEF SlotsInv
<1>5. CASE LiveSlots' = 1 .. cnt /\ SlotId(ee', cnt) = tag /\ Idle
  <2>1. 1 .. cnt = (1 .. cnt - 1) \cup {cnt} /\ cnt \notin 1 .. cnt - 1
    BY <1>2
  <2>2. AllBut(ee', (1 .. cnt - 1) \cup {cnt}, crashes, Cards)
    BY <1>1, <1>2, <1>3, <1>5, <2>1, AllButAdd
  <2>3. op' = "idle"
    BY <1>5 DEF Idle
  <2>4. WasteInv'
    BY <1>1, <1>5, <2>1, <2>2, <2>3 DEF WasteInv, Held
  <2>5. Registered \subseteq Registered'
    BY <1>2, <1>5, <2>1 DEF Registered
  <2>6. KeepInv'
    BY <1>1, <2>3, <2>5 DEF StoreInv, KeepInv
  <2> QED
    BY <2>3, <2>4, <2>6 DEF SlotsInv
<1> QED
  BY <1>2, <1>4, <1>5

(***************************************************************************)
(* Clearing a copy of the tag; the next copy was an exception, and the     *)
(* cleared slot is one.                                                    *)
(***************************************************************************)
LEMMA DeleteZeroKeeps ==
  ASSUME StoreInv, DeleteZero, UNCHANGED <<crashes, history>>
  PROVE  SlotsInv'
<1> USE LayoutAssumption
<1>1. /\ TypeOK /\ BoundInv /\ WrittenInv /\ crashes \in Nat
      /\ crashes' = crashes /\ before' = before /\ copies' = copies
  BY PasswordAssumption DEF StoreInv, TypeInv, history
<1>2. /\ op = "zero" /\ cnt \in 1 .. MaxTags - 1 /\ z \in 1 .. cnt
      /\ LiveSlots = (1 .. cnt) \ {z} /\ UNCHANGED <<tag, cnt>>
      /\ \A l \in (1 .. cnt) \ {z} : SlotId(ee', l) = SlotId(ee, l)
      /\ \/ LiveSlots' = (1 .. cnt) \ {z} /\ op' \in {"zero", "shift"} /\ UNCHANGED <<k, z>>
         \/ /\ z' \in (1 .. cnt) \ {z} /\ SlotId(ee, z') = tag /\ op' = "zero"
            /\ LiveSlots' = (1 .. cnt) \ {z'}
  BY <1>1, DeleteZeroEffect
<1>3. tag \in Cards /\ AllBut(ee, (1 .. cnt) \ {z}, crashes, Cards \ {tag})
  BY <1>2 DEF StoreInv, WasteInv, Held
<1>4. CASE LiveSlots' = (1 .. cnt) \ {z} /\ op' \in {"zero", "shift"} /\ UNCHANGED <<k, z>>
  <2>1. AllBut(ee', (1 .. cnt) \ {z}, crashes, Cards \ {tag})
    BY <1>1, <1>2, <1>3, AllButFewer
  <2>2. WasteInv'
    BY <1>1, <1>2, <1>4, <2>1 DEF WasteInv, Held
  <2>3. Registered' = Registered
    BY <1>2, <1>4, SameSlotsSameTags
  <2>4. KeepInv'
    BY <1>1, <1>2, <1>4, <2>3 DEF StoreInv, KeepInv
  <2> QED
    BY <1>2, <1>3, <2>2, <2>4 DEF SlotsInv
<1>5. CASE /\ z' \in (1 .. cnt) \ {z} /\ SlotId(ee, z') = tag /\ op' = "zero"
           /\ LiveSlots' = (1 .. cnt) \ {z'}
  <2> DEFINE L == (1 .. cnt) \ {z}
  <2>1. z' \in L /\ z \notin L /\ (L \ {z'}) \cup {z} = (1 .. cnt) \ {z'}
    BY <1>2, <1>5
  <2>2. AllBut(ee', (L \ {z'}) \cup {z}, crashes, Cards \ {tag})
    BY <1>1, <1>2, <1>3, <1>5, <2>1, AllButMove
  <2>3. WasteInv'
    BY <1>1, <1>2, <1>5, <2>1, <2>2 DEF WasteInv, Held
  <2>4. ~ (copies <= 1)
    BY <1>2, <1>5 DEF StoreInv, KeepInv
  <2>5. KeepInv'
    BY <1>1, <2>4 DEF KeepInv
  <2> QED
    BY <1>2, <1>3, <2>3, <2>5 DEF SlotsInv
<1> QED
  BY <1>2, <1>4, <1>5

(***************************************************************************)
(* Moving the slots: each takes the place of the one before it.            *)
(***************************************************************************)
LEMMA DeleteShiftKeeps ==
  ASSUME StoreInv, DeleteShift, UNCHANGED <<crashes, history>>
  PROVE  SlotsInv'
<1> USE LayoutAssumption
<1> DEFINE s == z + x
<1>1. /\ TypeOK /\ BoundInv /\ WrittenInv /\ crashes \in Nat
      /\ crashes' = crashes /\ before' = before /\ copies' = copies
  BY PasswordAssumption DEF StoreInv, TypeInv, history
<1>2. /\ op = "shift" /\ s \in 1 .. cnt /\ UNCHANGED <<tag, cnt, k>>
      /\ op' \in {"shift", "count"}
      /\ LiveSlots = (1 .. cnt) \ {s}
      /\ \A l \in (1 .. cnt) \ {s} : SlotId(ee', l) = SlotId(ee, l)
      /\ \/ LiveSlots' = (1 .. cnt) \ {s}
         \/ /\ s + 1 \in (1 .. cnt) \ {s} /\ LiveSlots' = (1 .. cnt) \ {s + 1}
            /\ SlotId(ee', s) = SlotId(ee, s + 1)
  BY <1>1, DeleteShiftEffect
<1> HIDE DEF s
<1>3. tag \in Cards /\ AllBut(ee, (1 .. cnt) \ {s}, crashes, Cards \ {tag})
  BY <1>2 DEF StoreInv, WasteInv, Held
<1>4. Registered' = Registered
  BY <1>1, ShiftMoves
<1>5. KeepInv'
  BY <1>1, <1>2, <1>4 DEF StoreInv, KeepInv
<1>6. AllBut(ee', LiveSlots', crashes, Cards \ {tag})
  <2>1. CASE LiveSlots' = (1 .. cnt) \ {s}
    BY <1>1, <1>2, <1>3, <2>1, AllButFewer
  <2>2. CASE /\ s + 1 \in (1 .. cnt) \ {s} /\ LiveSlots' = (1 .. cnt) \ {s + 1}
             /\ SlotId(ee', s) = SlotId(ee, s + 1)
    <3> DEFINE L == (1 .. cnt) \ {s}
    <3>1. s + 1 \in L /\ s \notin L /\ (L \ {s + 1}) \cup {s} = (1 .. cnt) \ {s + 1}
      BY <1>2, <2>2
    <3>2. AllBut(ee', (L \ {s + 1}) \cup {s}, crashes, Cards \ {tag})
      BY <1>1, <1>2, <1>3, <2>2, <3>1, AllButMove
    <3> QED
      BY <2>2, <3>1, <3>2
  <2> QED
    BY <1>2, <2>1, <2>2
<1>7. WasteInv'
  BY <1>1, <1>2, <1>6 DEF WasteInv, Held
<1> QED
  BY <1>2, <1>3, <1>5, <1>7 DEF SlotsInv

(***************************************************************************)
(* The new count; with several copies cleared the last slots are lost.     *)
(***************************************************************************)
LEMMA DeleteCountKeeps ==
  ASSUME StoreInv, DeleteCount, UNCHANGED <<crashes, history>>
  PROVE  SlotsInv'
<1> USE LayoutAssumption
<1>1. /\ TypeOK /\ BoundInv /\ WrittenInv /\ crashes \in Nat
      /\ crashes' = crashes /\ before' = before /\ copies' = copies
  BY PasswordAssumption DEF StoreInv, TypeInv, history
<1>2. /\ op = "count" /\ op' = "idle" /\ cnt \in 1 .. MaxTags - 1 /\ k \in 0 .. cnt - 1
      /\ LiveSlots = 1 .. cnt - 1 /\ LiveSlots' = 1 .. k
      /\ \A l \in 1 .. cnt - 1 : SlotId(ee', l) = SlotId(ee, l)
  BY <1>1, DeleteCountEffect DEF Idle
<1>3. AllBut(ee, 1 .. cnt - 1, crashes, Cards \ {tag})
  BY <1>2 DEF StoreInv, WasteInv, Held
<1>4. 1 .. k \in SUBSET (1 .. cnt - 1)
  BY <1>2
<1>5. AllBut(ee', 1 .. k, crashes, Cards)
  <2>1. \A l \in 1 .. k : SlotId(ee', l) = SlotId(ee, l)
    BY <1>2, <1>4
  <2> DEFINE L == 1 .. cnt - 1
             M == 1 .. k
             Ids == Cards \ {tag}
  <2>2. AllBut(ee, L, crashes, Ids) /\ M \in SUBSET L /\ Ids \subseteq Cards
    BY <1>3, <1>4
  <2>3. \A l \in M : SlotId(ee', l) = SlotId(ee, l)
    BY <2>1
  <2> HIDE DEF L, M, Ids
  <2>4. AllBut(ee', M, crashes, Cards)
    BY <1>1, <2>2, <2>3, AllButFewer
  <2> QED
    BY <2>4 DEF M
<1>6. WasteInv'
  BY <1>1, <1>2, <1>5 DEF WasteInv, Held
<1>7. KeepInv'
  <2> SUFFICES ASSUME copies <= 1
               PROVE  before' \subseteq Registered'
    BY <1>1, <1>2 DEF KeepInv
  <2>1. before \subseteq Registered /\ k = cnt - 1
    BY <1>2 DEF StoreInv, KeepInv
  <2>2. Registered' = Registered
    BY <1>1, <2>1, CountMoves
  <2> QED
    BY <1>1, <2>1, <2>2
<1> QED
  BY <1>2, <1>6, <1>7 DEF SlotsInv

(***************************************************************************)
(* At most one element: two are the same.                                  *)
(***************************************************************************)
LEMMA AtMostOne ==
  ASSUME NEW S, IsFiniteSet(S), Cardinality(S) <= 1, NEW a \in S, NEW b \in S
  PROVE  a = b
<1>1. CASE Cardinality(S) = 1
  <2>1. PICK c : S = {c}
    BY <1>1, FS_Singleton
  <2> QED
    BY <2>1
<1>2. CASE Cardinality(S) = 0
  BY <1>2, FS_EmptySet
<1> QED
  BY <1>1, <1>2, FS_CardinalityType

(***************************************************************************)
(* The copies of a tag are counted slots.                                  *)
(***************************************************************************)
LEMMA CopiesType ==
  ASSUME NEW m, NEW c \in 0 .. CntMod - 1, NEW t
  PROVE  /\ IsFiniteSet(Matches(m, c, t))
         /\ Cardinality(Matches(m, c, t)) \in 0 .. CntMod
<1>1. Matches(m, c, t) \in SUBSET (1 .. c)
  BY DEF Matches
<1>2. IsFiniteSet(1 .. c) /\ Cardinality(1 .. c) = c
  BY FS_Interval
<1>3. /\ IsFiniteSet(Matches(m, c, t))
      /\ Cardinality(Matches(m, c, t)) <= c
  BY <1>1, <1>2, FS_Subset
<1>4. Cardinality(Matches(m, c, t)) \in Nat
  BY <1>3, FS_CardinalityType
<1> QED
  BY <1>3, <1>4, LayoutAssumption

(***************************************************************************)
(* A tag operation begins.                                                 *)
(***************************************************************************)
LEMMA BeginRegistKeeps ==
  ASSUME StoreInv, NEW t \in Cards, RegistCount(t), crashes' = crashes,
         before' = Matched(ee) \ {t}
  PROVE  SlotsInv'
<1> DEFINE c == StoredCnt(ee)
<1>1. TypeOK /\ BoundInv /\ crashes \in Nat
  BY PasswordAssumption DEF StoreInv, TypeInv
<1>2. /\ op = "idle" /\ op' = "regist" /\ tag' = t
      /\ LiveSlots = 1 .. c /\ LiveSlots' = 1 .. c
      /\ \A l \in 1 .. c : SlotId(ee', l) = SlotId(ee, l) /\ SlotId(ee, l) # t
  BY <1>1, RegistCountEffect DEF BoundInv
<1> HIDE DEF c
<1>3. AllBut(ee, 1 .. c, crashes, Cards \ {t})
  BY <1>2, AllButAbsent DEF StoreInv, WasteInv, Held
<1>4. AllBut(ee', 1 .. c, crashes, Cards \ {t})
  BY <1>1, <1>2, <1>3, AllButFewer
<1>5. WasteInv'
  BY <1>2, <1>4 DEF WasteInv, Held
<1>6. before' \subseteq Registered'
  BY <1>2 DEF Matched, tag_match, Matches, Registered, c
<1>7. KeepInv'
  BY <1>2, <1>6 DEF KeepInv
<1> QED
  BY <1>2, <1>5, <1>7 DEF SlotsInv

\* delete_registered_tag has found the first copy.
LEMMA BeginDeleteKeeps ==
  ASSUME StoreInv, NEW t \in Cards, DeleteFirst(t), crashes' = crashes,
         before' = Matched(ee) \ {t},
         copies' = Cardinality(Matches(ee, StoredCnt(ee), t))
  PROVE  SlotsInv'
<1> DEFINE c == StoredCnt(ee)
<1>1. TypeOK /\ BoundInv /\ crashes \in Nat /\ c \in 0 .. CntMod - 1
  BY PasswordAssumption, StoredCntType DEF StoreInv, TypeInv, TypeOK
<1>2. /\ op = "idle" /\ op' = "zero" /\ tag' = t /\ cnt' = c /\ k' = c - 1
      /\ ee' = ee /\ LiveSlots = 1 .. c /\ LiveSlots' = (1 .. c) \ {z'}
      /\ z' \in 1 .. c /\ SlotId(ee, z') = t
  BY <1>1, DeleteFirstEffect
<1>3. AllBut(ee, 1 .. c, crashes, Cards)
  BY <1>2 DEF StoreInv, WasteInv, Held
<1>4. AllBut(ee, (1 .. c) \ {z'}, crashes, Cards \ {t})
  BY <1>1, <1>2, <1>3, AllButDrop
<1>5. WasteInv'
  BY <1>2, <1>4 DEF WasteInv, Held
<1>6. before' \subseteq Registered'
  BY <1>2 DEF Matched, tag_match, Matches, Registered
<1>7. ASSUME copies' <= 1, NEW l \in (1 .. c) \ {z'}
      PROVE  SlotId(ee, l) # t
  <2>1. IsFiniteSet(Matches(ee, c, t))
    BY <1>1, CopiesType
  <2>2. z' \in Matches(ee, c, t)
    BY <1>2 DEF Matches
  <2>3. SlotId(ee, l) = t => l \in Matches(ee, c, t)
    BY <1>7 DEF Matches
  <2> QED
    BY <1>7, <2>1, <2>2, <2>3, AtMostOne
<1>8. KeepInv'
  BY <1>2, <1>6, <1>7 DEF KeepInv
<1> QED
  BY <1>2, <1>5, <1>8 DEF SlotsInv

(***************************************************************************)
(* A power failure: the slot that was being written counts again, and is   *)
(* one more exception.  No tag of the live slots is lost.                  *)
(***************************************************************************)
LEMMA PowerFailKeeps ==
  ASSUME StoreInv, PowerFail
  PROVE  StoreInv' /\ ee' = ee
<1> USE LayoutAssumption
<1>1. /\ TypeOK /\ BoundInv /\ crashes \in Nat /\ MaxCrashes \in Nat
      /\ crashes < MaxCrashes /\ crashes' = crashes + 1
      /\ op' = "idle" /\ Idle /\ UNCHANGED history
  BY PasswordAssumption DEF StoreInv, TypeInv, PowerFail, Idle
<1>2. ee' = ee
  BY DEF PowerFail, Formatted, StoreInv
<1>3. TypeInv'
  BY <1>1, <1>2, InitMemory DEF TypeInv, TypeOK, ScanInv, Idle, TagByte
<1>4. BoundInv' /\ WrittenInv'
  BY <1>1, <1>2 DEF BoundInv, WrittenInv
<1>5. LiveSlots' = 1 .. StoredCnt(ee)
  BY <1>1, <1>2 DEF LiveSlots
<1>6. LiveSlots \subseteq LiveSlots'
  BY <1>1, <1>5, LiveAreCounted
<1>7. \E g : LiveSlots' \in SUBSET (LiveSlots \cup {g})
  <2>1. CASE op = "idle"
    BY <1>5, <2>1 DEF LiveSlots
  <2>2. CASE op \in {"regist", "count"}
    <3>1. LiveSlots = 1 .. cnt - 1 /\ cnt = StoredCnt(ee) /\ cnt \in Int
      BY <1>1, <2>2 DEF LiveSlots, BoundInv, TypeOK
    <3>2. 1 .. cnt \in SUBSET ((1 .. cnt - 1) \cup {cnt})
      BY <3>1
    <3> QED
      BY <1>5, <3>1, <3>2
  <2>3. CASE op \in {"zero", "shift"}
    <3>1. cnt = StoredCnt(ee) /\ \E g : LiveSlots = (1 .. cnt) \ {g}
      BY <1>1, <2>3 DEF LiveSlots, BoundInv
    <3> QED
      BY <1>5, <3>1
  <2> QED
    BY <1>1, <2>1, <2>2, <2>3 DEF TypeOK
<1>8. Held \subseteq Cards
  BY DEF Held
<1>9. AllBut(ee, LiveSlots', crashes + 1, Cards)
  BY <1>1, <1>7, <1>8, AllButSpoil DEF StoreInv, WasteInv
<1>10. WasteInv'
  BY <1>1, <1>2, <1>9 DEF WasteInv, Held
<1>11. Registered \subseteq Registered'
  BY <1>2, <1>6 DEF Registered
<1>12. KeepInv'
  BY <1>1, <1>11 DEF StoreInv, KeepInv, history
<1>13. crashes' \in 0 .. MaxCrashes /\ before' \in SUBSET Cards /\ copies' \in 0 .. CntMod
  BY <1>1 DEF StoreInv, history
<1>14. IsModified(ee'[Mod_Cnt_Tag_Add])
  BY <1>2 DEF StoreInv
<1> QED
  BY <1>1, <1>2, <1>3, <1>4, <1>10, <1>12, <1>13, <1>14 DEF StoreInv

(***************************************************************************)
(* Bytes of the password area are in no slot an operation works on.        *)
(***************************************************************************)
LEMMA PswWriteKeeps ==
  ASSUME StoreInv, NEW a \in PasswordArea, NEW v \in Byte, ee' = WriteByte(ee, a, v),
         UNCHANGED <<op, tag, cnt, k, z, x, i, crashes, history>>
  PROVE  StoreInv'
<1> USE LayoutAssumption
<1>1. /\ TypeOK /\ ScanInv /\ BoundInv /\ WrittenInv /\ WasteInv /\ KeepInv
      /\ crashes \in Nat /\ ee \in [Addr -> Byte]
      /\ before' = before /\ copies' = copies
  BY PasswordAssumption DEF StoreInv, TypeInv, TypeOK, history
<1>2. /\ ee' \in [Addr -> Byte]
      /\ \A d \in Addr : d < PSW_FLAG => ee'[d] = ee[d]
  BY <1>1, WriteByteType DEF WriteByte, PasswordArea, PSW_FLAG, Addr, EESIZE
<1>3. Mod_Cnt_Tag_Add \in Addr /\ Mod_Cnt_Tag_Add < PSW_FLAG
  BY DEF Mod_Cnt_Tag_Add, Addr, EESIZE, PSW_FLAG
<1>4. ee'[Mod_Cnt_Tag_Add] = ee[Mod_Cnt_Tag_Add] /\ StoredCnt(ee') = StoredCnt(ee)
  BY <1>2, <1>3 DEF StoredCnt
<1>5. \A l \in 1 .. MaxTags - 1 : \A b \in TagByte : ee'[SlotAddr(l, b)] = ee[SlotAddr(l, b)]
  BY <1>2, SlotAddrFacts
<1>6. \A l \in 1 .. MaxTags - 1 : SlotId(ee', l) = SlotId(ee, l)
  BY <1>5 DEF SlotId
<1>7. TypeInv'
  BY <1>1, <1>2 DEF TypeInv, TypeOK, ScanInv
<1>8. BoundInv'
  BY <1>1, <1>4 DEF BoundInv
<1>9. WrittenInv'
  <2>1. op = "regist" => cnt \in 1 .. MaxTags - 1
    BY <1>1 DEF BoundInv, TypeOK
  <2>2. op = "shift" /\ z + x < cnt => z + x \in 1 .. MaxTags - 1 /\ z + x + 1 \in 1 .. MaxTags - 1
    BY <1>1 DEF BoundInv, TypeOK
  <2> QED
    BY <1>1, <1>5, <2>1, <2>2 DEF WrittenInv
<1>10. LiveSlots' = LiveSlots
  BY <1>4 DEF LiveSlots
<1>11. \A l \in LiveSlots : SlotId(ee', l) = SlotId(ee, l)
  <2>1. StoredCnt(ee) \in 0 .. MaxTags - 1
    BY <1>1, StoredCntType DEF BoundInv
  <2> QED
    BY <1>1, <1>6, <2>1, LiveAreCounted
<1>12. WasteInv'
  <2>1. AllBut(ee', LiveSlots, crashes, Held)
    BY <1>1, <1>11, AllButFewer DEF WasteInv
  <2> QED
    BY <1>10, <2>1 DEF WasteInv, Held
<1>13. KeepInv'
  <2>1. Registered' = Registered
    BY <1>10, <1>11, SameSlotsSameTags
  <2>2. op = "zero" => \A l \in (1 .. cnt) \ {z} : SlotId(ee', l) = SlotId(ee, l)
    BY <1>11 DEF LiveSlots
  <2> QED
    BY <1>1, <2>1, <2>2 DEF KeepInv
<1> QED
  BY <1>4, <1>7, <1>8, <1>9, <1>12, <1>13 DEF StoreInv, history

\* Nothing is written.
LEMMA StoreStutter ==
  ASSUME StoreInv, UNCHANGED <<vars, crashes, history>>
  PROVE  StoreInv'
<1>1. LiveSlots' = LiveSlots /\ Registered' = Registered /\ Held' = Held
  BY DEF vars, LiveSlots, StoredCnt, Registered, Held
<1>2. WasteInv' /\ KeepInv'
  BY <1>1 DEF StoreInv, WasteInv, KeepInv, vars, history
<1>3. TypeInv' /\ BoundInv' /\ WrittenInv'
  BY DEF StoreInv, vars, TypeInv, TypeOK, ScanInv, BoundInv, StoredCnt, WrittenInv
<1> QED
  BY <1>2, <1>3 DEF StoreInv, vars, history
-----------------------------------------------------------------------------
(***************************************************************************)
(* The password.  Tag operations leave it alone.                           *)
(***************************************************************************)
LEMMA PswPlaces ==
  /\ PSW_FLAG \in PasswordArea
  /\ \A b \in PswByteNo : PSW_ADD_BASE + b \in PasswordArea
  /\ \A b \in PswByteNo : PSW_ADD_BASE + b # PSW_FLAG
BY LayoutAssumption
   DEF PSW_FLAG, PSW_ADD_BASE, PswByteNo, PasswordArea, Addr, EESIZE

\* A memory with the same password area.
LEMMA SameArea ==
  ASSUME PswInv, \A a \in PasswordArea : ee'[a] = ee[a]
  PROVE  ee'[PSW_FLAG] = ee[PSW_FLAG] /\ StoredPsw(ee') = StoredPsw(ee)
BY PswPlaces DEF StoredPsw

\* As long as nothing else changes.
LEMMA PswStays ==
  ASSUME PswInv, \A a \in PasswordArea : ee'[a] = ee[a], UNCHANGED pswVars
  PROVE  PswInv'
<1>1. ee'[PSW_FLAG] = ee[PSW_FLAG] /\ StoredPsw(ee') = StoredPsw(ee)
  BY SameArea
<1>2. /\ phase' = phase /\ session' = session /\ newpsw' = newpsw /\ n' = n
      /\ lastSet' = lastSet /\ torn' = torn
  BY DEF pswVars
<1>3. PswTypes' /\ FlagInv' /\ PasswordKept'
  BY <1>1, <1>2 DEF PswInv, PswTypes, FlagInv, PasswordKept, Writing
<1>4. \A b \in PswByteNo : ee'[PSW_ADD_BASE + b] = ee[PSW_ADD_BASE + b]
  BY PswPlaces
<1>5. NewPswInv'
  BY <1>1, <1>2, <1>4 DEF PswInv, NewPswInv, Writing
<1> QED
  BY <1>3, <1>5 DEF PswInv

(***************************************************************************)
(* The dialogs that write nothing.                                         *)
(***************************************************************************)
LEMMA DialogKeeps ==
  ASSUME PswInv,
         \/ \E p \in Passwords : EnterNewPsw(p) \/ Match_psw(p)
         \/ CancelSetup \/ Back
  PROVE  PswInv'
<1>0. ee' = ee
  BY DEF EnterNewPsw, Match_psw, CancelSetup, Back, vars
<1>1. ASSUME NEW p \in Passwords, EnterNewPsw(p)
      PROVE  PswInv'
  <2>1. /\ phase \in {"setup", "run"} /\ phase' = phase /\ session' = "setpsw"
        /\ newpsw' = p /\ n' = 0 /\ lastSet' = lastSet /\ torn' = torn
    BY <1>1 DEF EnterNewPsw
  <2>2. PswTypes' /\ FlagInv' /\ PasswordKept'
    BY <1>0, <2>1 DEF PswInv, PswTypes, FlagInv, PasswordKept, Writing, PswByteNo
  <2>3. NewPswInv'
    BY <1>0, <2>1 DEF NewPswInv, PswByteNo
  <2> QED
    BY <2>2, <2>3 DEF PswInv
<1>2. CASE (\E p \in Passwords : Match_psw(p)) \/ CancelSetup \/ Back
  <2>1. /\ session' \in {"none", "register", "delete", "verified"}
        /\ session \in {"none", "register", "delete", "verified"}
        /\ newpsw' = newpsw /\ n' = n /\ lastSet' = lastSet /\ torn' = torn
        /\ phase' = phase \/ (phase = "setup" /\ phase' = "run")
        /\ phase' = "flag" => session' = "none"
    BY <1>2 DEF Match_psw, CancelSetup, Back, PswInv, NewPswInv
  <2>2. PswTypes' /\ FlagInv' /\ PasswordKept'
    BY <1>0, <2>1 DEF PswInv, PswTypes, FlagInv, PasswordKept, Writing
  <2>3. NewPswInv'
    BY <1>0, <2>1 DEF PswInv, NewPswInv, Writing
  <2> QED
    BY <2>2, <2>3 DEF PswInv
<1> QED
  BY <1>1, <1>2

(***************************************************************************)
(* A byte of the password; the last one makes it the stored one.           *)
(***************************************************************************)
LEMMA PswByteKeeps ==
  ASSUME PswInv, ee \in [Addr -> Byte], WritePswByte
  PROVE  PswInv'
<1>1. /\ session = "setpsw" /\ phase \in {"setup", "run"} /\ n \in PswByteNo
      /\ newpsw \in Passwords /\ newpsw \in Psw /\ newpsw # NoPsw
      /\ \A b \in PswByteNo : b < n => ee[PSW_ADD_BASE + b] = newpsw[b]
  BY PasswordAssumption DEF WritePswByte, Writing, PswInv, PswTypes, NewPswInv
<1>2. \A a \in Addr : ee'[a] = IF a = PSW_ADD_BASE + n THEN newpsw[n] ELSE ee[a]
  BY DEF WritePswByte, WriteByte
<1>3. /\ PSW_FLAG \in Addr /\ PSW_FLAG # PSW_ADD_BASE + n
      /\ \A b \in PswByteNo : PSW_ADD_BASE + b \in Addr
      /\ \A b \in PswByteNo : PSW_ADD_BASE + b = PSW_ADD_BASE + n <=> b = n
  BY <1>1, PswPlaces, LayoutAssumption DEF PasswordArea, PSW_ADD_BASE, PswByteNo
<1>4. /\ ee'[PSW_FLAG] = ee[PSW_FLAG]
      /\ \A b \in PswByteNo : b <= n => ee'[PSW_ADD_BASE + b] = newpsw[b]
  <2>1. \A b \in PswByteNo : b <= n => b = n \/ b < n
    BY <1>1 DEF PswByteNo
  <2> QED
    BY <1>1, <1>2, <1>3, <2>1
<1>5. CASE n < 5
  <2>1. n' = n + 1 /\ UNCHANGED <<phase, session, newpsw, lastSet, torn>>
    BY <1>5 DEF WritePswByte
  <2>2. n' \in PswByteNo /\ \A b \in PswByteNo : b < n + 1 => b <= n
    BY <1>1, <1>5, <2>1 DEF PswByteNo
  <2>3. PswTypes' /\ FlagInv' /\ PasswordKept'
    BY <1>1, <1>4, <2>1, <2>2 DEF PswInv, PswTypes, FlagInv, PasswordKept, Writing
  <2>4. NewPswInv'
    BY <1>1, <1>4, <2>1, <2>2 DEF NewPswInv, Writing
  <2> QED
    BY <2>3, <2>4 DEF PswInv
<1>6. CASE ~ (n < 5)
  <2>1. session' = "none" /\ n' = 0 /\ n' \in PswByteNo
    BY <1>6 DEF WritePswByte, PswByteNo
  <2>2. StoredPsw(ee') = newpsw
    <3>1. \A b \in PswByteNo : b <= n
      BY <1>1, <1>6 DEF PswByteNo
    <3>2. StoredPsw(ee') = [b \in PswByteNo |-> newpsw[b]]
      BY <1>4, <3>1 DEF StoredPsw
    <3> QED
      BY <1>1, <3>2 DEF Psw
  <2>3. CASE phase = "setup"
    <3>1. phase' = "flag" /\ UNCHANGED <<newpsw, lastSet, torn>>
      BY <1>6, <2>3 DEF WritePswByte
    <3>2. lastSet = NoPsw
      BY <2>3 DEF PswInv, FlagInv
    <3>3. PswTypes' /\ FlagInv' /\ PasswordKept'
      BY <1>4, <2>1, <3>1, <3>2 DEF PswInv, PswTypes, FlagInv, PasswordKept
    <3>4. NewPswInv'
      BY <1>1, <2>1, <2>2, <3>1 DEF NewPswInv, Writing
    <3> QED
      BY <3>3, <3>4 DEF PswInv
  <2>4. CASE phase = "run"
    <3>1. /\ phase' = "run" /\ newpsw' = NoPsw /\ torn' = FALSE
          /\ lastSet' = IF lastSet = NoPsw THEN NoPsw ELSE newpsw
      BY <1>6, <2>4 DEF WritePswByte
    <3>2. PswTypes' /\ FlagInv' /\ PasswordKept'
      BY <1>1, <1>4, <2>1, <2>2, <3>1 DEF PswInv, PswTypes, FlagInv, PasswordKept
    <3>3. NewPswInv'
      BY <2>1, <3>1 DEF NewPswInv, Writing
    <3> QED
      BY <3>2, <3>3 DEF PswInv
  <2> QED
    BY <1>1, <2>3, <2>4
<1> QED
  BY <1>5, <1>6

(***************************************************************************)
(* The flag, next to the bytes of the password.                            *)
(***************************************************************************)
LEMMA FlagKeeps ==
  ASSUME PswInv, ee \in [Addr -> Byte], WriteFlag
  PROVE  PswInv'
<1>1. /\ phase = "flag" /\ session = "none" /\ session' = "none"
      /\ newpsw \in Passwords /\ StoredPsw(ee) = newpsw
      /\ phase' = "run" /\ newpsw' = NoPsw /\ lastSet' = newpsw /\ torn' = FALSE
      /\ n' = n
  BY DEF WriteFlag, PswInv, NewPswInv
<1>2. /\ ee'[PSW_FLAG] = PswSet
      /\ \A b \in PswByteNo : ee'[PSW_ADD_BASE + b] = ee[PSW_ADD_BASE + b]
  BY PswPlaces DEF WriteFlag, WriteByte, PasswordArea
<1>3. StoredPsw(ee') = newpsw
  BY <1>1, <1>2 DEF StoredPsw
<1>4. PswTypes' /\ FlagInv' /\ PasswordKept'
  BY <1>1, <1>2, <1>3 DEF PswInv, PswTypes, FlagInv, PasswordKept
<1>5. NewPswInv'
  BY <1>1 DEF NewPswInv, Writing
<1> QED
  BY <1>4, <1>5 DEF PswInv

(***************************************************************************)
(* A boot: it asks for a new password only if none has been set up.        *)
(***************************************************************************)
LEMMA BootKeeps ==
  ASSUME PswInv, PowerFail, ee' = ee
  PROVE  PswInv'
<1>1. /\ phase' = IF ee[PSW_FLAG] = PswSet THEN "run" ELSE "setup"
      /\ session' = "none" /\ newpsw' = NoPsw /\ n' = 0
      /\ torn' = (torn \/ Writing) /\ lastSet' = lastSet
  BY DEF PowerFail, BootPhase
<1>2. PswTypes' /\ FlagInv'
  BY <1>1 DEF PswInv, PswTypes, FlagInv, PswByteNo, Writing
<1>3. PasswordKept'
  BY <1>1 DEF PswInv, PasswordKept
<1>4. NewPswInv'
  BY <1>1 DEF NewPswInv, Writing
<1> QED
  BY <1>2, <1>3, <1>4 DEF PswInv
-----------------------------------------------------------------------------
(***************************************************************************)
(* The invariant of the whole.                                             *)
(***************************************************************************)

(***************************************************************************)
(* A formatted chip without tags and password.                             *)
(***************************************************************************)
LEMMA InitSInv == SInit => SInv
<1> SUFFICES ASSUME SInit PROVE SInv
  OBVIOUS
<1> USE LayoutAssumption, PasswordAssumption
<1>1. TypeInv /\ op = "idle" /\ StoredCnt(ee) = 0 /\ Init
  BY TypeInvInit, EmptyChip DEF SInit, Init
<1>2. LiveSlots = {} /\ BoundInv /\ WrittenInv
  BY <1>1 DEF LiveSlots, BoundInv, WrittenInv
<1>3. IsModified(ee[Mod_Cnt_Tag_Add])
  <2>1. Erased \in [Addr -> Byte] /\ 0 \in 0 .. CntMod - 1
    BY DEF Erased, ErasedByte, Byte
  <2>2. Modified = CountByte(0)
    BY DEF Modified, CountByte
  <2> QED
    BY <1>1, <2>1, <2>2, CountMark DEF Init, Formatted
<1>4. crashes = 0 /\ before = {} /\ copies = 0
  BY DEF SInit
<1>5. WasteInv
  BY <1>2, <1>4, FS_EmptySet DEF WasteInv, AllBut
<1>6. KeepInv
  BY <1>1, <1>4 DEF KeepInv
<1>7. StoreInv
  BY <1>1, <1>2, <1>3, <1>4, <1>5, <1>6 DEF StoreInv
<1>8. PswInv
  <2>1. /\ phase \in {"setup", "run"} /\ session = "none" /\ newpsw = NoPsw /\ n = 0
        /\ lastSet = NoPsw /\ torn = FALSE
    BY DEF SInit, BootPhase
  <2>2. PswTypes
    <3>1. torn \in BOOLEAN
      BY ONLY <2>1
    <3>2. 0 \in PswByteNo
      BY DEF PswByteNo
    <3> QED
      BY ONLY <2>1, <3>1, <3>2 DEF PswTypes
  <2>3. FlagInv /\ PasswordKept
    BY <2>1 DEF FlagInv, PasswordKept
  <2>4. NewPswInv
    BY <2>1 DEF NewPswInv, Writing
  <2> QED
    BY <2>2, <2>3, <2>4 DEF PswInv
<1> QED
  BY <1>7, <1>8 DEF SInv

(***************************************************************************)
(* A step of a tag operation, its first one included.                      *)
(***************************************************************************)
LEMMA TagOpKeeps ==
  ASSUME FewTags, SInv, TagStep \/ \E t \in Cards : BeginTagOp(t)
  PROVE  SInv'
<1> USE LayoutAssumption
<1>1. /\ StoreInv /\ TypeInv /\ TypeOK /\ BoundInv /\ WrittenInv /\ PswInv
      /\ IsModified(ee[Mod_Cnt_Tag_Add]) /\ ee \in [Addr -> Byte]
  BY DEF SInv, StoreInv, TypeInv, TypeOK
<1>2. ASSUME Next, BoundInv', WrittenInv', SlotsInv', crashes' = crashes, UNCHANGED pswVars,
             before' \in SUBSET Cards, copies' \in 0 .. CntMod,
             Step \/ \E t \in Cards : RegistCount(t) \/ DeleteFirst(t)
      PROVE  SInv'
  <2>1. TypeInv' /\ IsModified(ee'[Mod_Cnt_Tag_Add])
    BY <1>1, <1>2, TypeInvNext, MarkStays
  <2>2. StoreInv'
    BY <1>1, <1>2, <2>1 DEF StoreInv, SlotsInv
  <2>3. PswInv'
    BY <1>1, <1>2, StepKeepsPassword, PswStays
  <2> QED
    BY <2>2, <2>3 DEF SInv
<1>3. CASE TagStep
  <2>1. Step /\ UNCHANGED <<crashes, history>> /\ UNCHANGED pswVars
    BY <1>3 DEF TagStep
  <2>2. SlotsInv'
    BY <1>1, <2>1, RegistByteKeeps, DeleteZeroKeeps, DeleteShiftKeeps, DeleteCountKeeps DEF Step
  <2>3. WrittenInv'
    BY <1>1, <2>1, RegistByteEffect, DeleteZeroEffect, DeleteShiftEffect, DeleteCountEffect DEF Step
  <2>4. BoundInv'
    BY <1>1, <2>1, BoundInvStep
  <2>5. before' \in SUBSET Cards /\ copies' \in 0 .. CntMod
    BY <1>1, <2>1 DEF StoreInv, history
  <2> QED
    BY <1>2, <2>1, <2>2, <2>3, <2>4, <2>5 DEF Next
<1>4. ASSUME NEW t \in Cards, BeginTagOp(t)
      PROVE  SInv'
  <2>1. /\ crashes' = crashes /\ UNCHANGED pswVars
        /\ before' = Matched(ee) \ {t}
        /\ copies' = Cardinality(Matches(ee, StoredCnt(ee), t))
        /\ RegistCount(t) \/ DeleteFirst(t)
    BY <1>4 DEF BeginTagOp
  <2>2. before' \in SUBSET Cards /\ copies' \in 0 .. CntMod
    BY <1>1, <2>1, StoredCntType, CopiesType DEF Matched
  <2>3. SlotsInv'
    BY <1>1, <2>1, BeginRegistKeeps, BeginDeleteKeeps
  <2>4. WrittenInv'
    BY <1>1, <2>1, RegistCountEffect, DeleteFirstEffect DEF BoundInv
  <2>5. RegistCount(t) => StoredCnt(ee) + 1 < MaxTags
    BY <1>1, RoomForTag
  <2>6. BoundInv'
    BY <1>1, <2>1, <2>5, BoundInvStep
  <2> QED
    BY <1>2, <2>1, <2>2, <2>3, <2>4, <2>6 DEF Next
<1> QED
  BY <1>3, <1>4

(***************************************************************************)
(* Every step keeps the invariant.                                         *)
(***************************************************************************)
LEMMA StepSInv == FewTags /\ SInv /\ [SNext]_allVars => SInv'
<1> SUFFICES ASSUME FewTags, SInv, [SNext]_allVars
             PROVE  SInv'
  OBVIOUS
<1>1. StoreInv /\ PswInv /\ ee \in [Addr -> Byte]
  BY DEF SInv, StoreInv, TypeInv, TypeOK
<1>2. CASE \/ \E p \in Passwords : EnterNewPsw(p) \/ Match_psw(p)
           \/ CancelSetup \/ Back
  <2>1. UNCHANGED <<vars, crashes, history>>
    BY <1>2 DEF EnterNewPsw, Match_psw, CancelSetup, Back
  <2> QED
    BY <1>1, <1>2, <2>1, StoreStutter, DialogKeeps DEF SInv
<1>3. CASE WritePswByte
  <2>1. PSW_ADD_BASE + n \in PasswordArea /\ newpsw[n] \in Byte
    BY <1>1, <1>3, PswPlaces, PasswordAssumption
       DEF WritePswByte, Writing, PswInv, PswTypes, NewPswInv, Psw
  <2>2. StoreInv'
    BY <1>1, <1>3, <2>1, PswWriteKeeps DEF WritePswByte
  <2> QED
    BY <1>1, <1>3, <2>2, PswByteKeeps DEF SInv
<1>4. CASE WriteFlag
  <2>1. StoreInv'
    BY <1>1, <1>4, PswPlaces, PasswordAssumption, PswWriteKeeps DEF WriteFlag
  <2> QED
    BY <1>1, <1>4, <2>1, FlagKeeps DEF SInv
<1>5. CASE PowerFail
  BY <1>1, <1>5, PowerFailKeeps, BootKeeps DEF SInv
<1>6. CASE UNCHANGED allVars
  <2>1. UNCHANGED <<vars, crashes, history>> /\ UNCHANGED pswVars
    BY <1>6 DEF allVars
  <2> QED
    BY <1>1, <2>1, StoreStutter, PswStays DEF SInv, vars
<1> QED
  BY <1>2, <1>3, <1>4, <1>5, <1>6, TagOpKeeps DEF SNext

\* It is an invariant.
LEMMA SSpecInv == FewTags => (SSpec => []SInv)
<1> SUFFICES ASSUME FewTags PROVE SSpec => []SInv
  OBVIOUS
<1> QED
  BY InitSInv, StepSInv, PTL DEF SSpec
-----------------------------------------------------------------------------
(***************************************************************************)
(* The variables keep their types, and a power failure costs at most one   *)
(* slot.                                                                   *)
(***************************************************************************)
THEOREM StorageTypes == FewTags => (SSpec => []STypeOK)
<1> SUFFICES ASSUME FewTags PROVE SSpec => []STypeOK
  OBVIOUS
<1>1. SInv => STypeOK
  BY CountBound DEF SInv, StoreInv, TypeInv, PswInv, PswTypes, STypeOK
<1> QED
  BY SSpecInv, <1>1, PTL

(***************************************************************************)
(* Once a password was set up, no boot offers to set one without asking    *)
(* for the old one, whatever was registered and deleted and wherever the   *)
(* power failed.                                                           *)
(***************************************************************************)
THEOREM PasswordAskedFor == FewTags => (SSpec => []SetupOnlyOnce)
<1> SUFFICES ASSUME FewTags PROVE SSpec => []SetupOnlyOnce
  OBVIOUS
<1>1. SInv => SetupOnlyOnce
  BY DEF SInv, PswInv, FlagInv, SetupOnlyOnce
<1> QED
  BY SSpecInv, <1>1, PTL

(***************************************************************************)
(* The password that was last set is the one stored, unless the power      *)
(* failed while another one was being written.                             *)
(***************************************************************************)
THEOREM PasswordStored == FewTags => (SSpec => []PasswordKept)
<1> SUFFICES ASSUME FewTags PROVE SSpec => []PasswordKept
  OBVIOUS
<1>1. SInv => PasswordKept
  BY DEF SInv, PswInv
<1> QED
  BY SSpecInv, <1>1, PTL

(***************************************************************************)
(* A power failure at any byte of regist_tag and delete_registered_tag     *)
(* leaves every other tag where tag_match finds it, unless the tag being   *)
(* deleted was in two slots.                                               *)
(***************************************************************************)
THEOREM TagsSurvive == FewTags => (SSpec => []OthersSurvive)
<1> SUFFICES ASSUME FewTags PROVE SSpec => []OthersSurvive
  OBVIOUS
<1>1. SInv => OthersSurvive
  <2> SUFFICES ASSUME SInv, copies <= 1, NEW t \in before
               PROVE  t \in Matched(ee)
    BY DEF OthersSurvive
  <2>1. t \in Registered /\ t \in Cards
    BY DEF SInv, StoreInv, KeepInv
  <2>2. PICK l \in LiveSlots : SlotId(ee, l) = t
    BY <2>1 DEF Registered
  <2>3. l \in 1 .. StoredCnt(ee)
    BY LiveAreCounted DEF SInv, StoreInv, TypeInv
  <2> QED
    BY <2>1, <2>2, <2>3 DEF Matched, tag_match, Matches
<1> QED
  BY SSpecInv, <1>1, PTL
=============================================================================
