------------------------- MODULE ShellStorageProofs -------------------------
(***************************************************************************)
(* DEL_ALL_TAG against the touch thread, for any number of slots and any   *)
(* tags: as long as no tag operation begins in the middle of a transaction *)
(* the password stays, and tags that were deleted stay deleted.            *)
(***************************************************************************)
EXTENDS ShellStorage, TagStoreProofs

(***************************************************************************)
(* Undisturbed, the shell clears slots that were counted when it began;    *)
(* the count may be lower by now, or have grown again, but never beyond    *)
(* the slots.  Its transactions are never lost.                            *)
(***************************************************************************)
ShellBounds ==
  /\ BoundInv /\ PasswordIntact(ee)
  /\ scnt < MaxTags
  /\ sh \in {"clear", "write", "delay"} => j <= scnt
  /\ bus # "lost"
  /\ sh \in {"read", "write"} => bus = "open"

(***************************************************************************)
(* Before a command, and from its last byte on, the store is a registry of *)
(* tags presented since the command began: all that was there before is    *)
(* beyond the count.                                                       *)
(***************************************************************************)
Settled == sh = "prompt" \/ (sh = "delay" /\ j = 0)

FreshOnly ==
  /\ IInv
  /\ Registered \subseteq fresh
  /\ op = "regist" => tag \in fresh

ShInv ==
  /\ ShTypeOK /\ ScanInv
  /\ ~ disturbed => ShellBounds
  /\ ~ disturbed /\ Settled => FreshOnly
-----------------------------------------------------------------------------
(***************************************************************************)
(* An empty store has nothing that is not fresh.                           *)
(***************************************************************************)
LEMMA EmptyIsFresh == TypeOK /\ op = "idle" /\ StoredCnt(ee) = 0 => FreshOnly
<1> SUFFICES ASSUME TypeOK, op = "idle", StoredCnt(ee) = 0
             PROVE  FreshOnly
  OBVIOUS
<1>1. LiveSlots = {}
  BY DEF LiveSlots
<1> QED
  BY <1>1, EmptyStore DEF FreshOnly, Registered

\* The same of the next state.
LEMMA EmptyIsFreshNext == (TypeOK /\ op = "idle" /\ StoredCnt(ee) = 0)' => FreshOnly'
BY EmptyIsFresh, PTL

(***************************************************************************)
(* The password lies in the part of the chip no tag operation touches.     *)
(***************************************************************************)
LEMMA PasswordPlace ==
  PSW_FLAG \in PasswordArea /\ PSW_ADD_BASE .. PSW_ADD_BASE + 5 \subseteq PasswordArea
BY LayoutAssumption DEF PSW_FLAG, PSW_ADD_BASE, PasswordArea, Addr, EESIZE

\* So it stays when they leave that part alone.
LEMMA PasswordStays ==
  ASSUME PasswordIntact(ee), \A a \in PasswordArea : ee'[a] = ee[a]
  PROVE  PasswordIntact(ee')
BY PasswordPlace DEF PasswordIntact

(***************************************************************************)
(* A chip on which a password was set.                                     *)
(***************************************************************************)
LEMMA PasswordWritten ==
  ASSUME NEW m \in [Addr -> Byte]
  PROVE  /\ WithPassword(m) \in [Addr -> Byte]
         /\ PasswordIntact(WithPassword(m))
         /\ StoredCnt(WithPassword(m)) = StoredCnt(m)
<1> DEFINE w == WithPassword(m)
<1>1. /\ w \in [Addr -> Byte]
      /\ \A a \in Addr : w[a] = IF a = PSW_FLAG THEN PswSet
                               ELSE IF a \in PSW_ADD_BASE .. PSW_ADD_BASE + 5 THEN PswByte
                               ELSE m[a]
  BY ShellAssumption DEF WithPassword
<1>2. /\ Mod_Cnt_Tag_Add \in Addr /\ Mod_Cnt_Tag_Add # PSW_FLAG
      /\ Mod_Cnt_Tag_Add \notin PSW_ADD_BASE .. PSW_ADD_BASE + 5
      /\ PSW_FLAG \notin PSW_ADD_BASE .. PSW_ADD_BASE + 5
  BY LayoutAssumption DEF Mod_Cnt_Tag_Add, Addr, EESIZE, PSW_FLAG, PSW_ADD_BASE
<1>3. /\ PSW_FLAG \in Addr
      /\ \A a \in PSW_ADD_BASE .. PSW_ADD_BASE + 5 : a \in Addr
  BY PasswordPlace DEF PasswordArea
<1> HIDE DEF w
<1>4. PasswordIntact(w)
  BY <1>1, <1>2, <1>3 DEF PasswordIntact
<1>5. StoredCnt(w) = StoredCnt(m)
  BY <1>1, <1>2 DEF StoredCnt
<1> QED BY <1>1, <1>4, <1>5 DEF w

(***************************************************************************)
(* The initial state: an empty store, and a password.                      *)
(***************************************************************************)
LEMMA InitShInv == ShInit => ShInv
<1> SUFFICES ASSUME ShInit PROVE ShInv
  OBVIOUS
<1> USE LayoutAssumption, ShellAssumption
<1>1. Formatted(Erased) \in [Addr -> Byte] /\ NoTag \in TagId
  BY InitMemory
<1>2. ee \in [Addr -> Byte] /\ PasswordIntact(ee) /\ StoredCnt(ee) = 0
  BY <1>1, EmptyChip, PasswordWritten DEF ShInit
<1>3. TypeOK /\ ScanInv
  BY <1>1, <1>2 DEF ShInit, TypeOK, ScanInv, TagByte
<1>8. FreshOnly
  BY <1>2, <1>3, EmptyIsFresh DEF ShInit
<1>9. ShellBounds
  BY <1>2 DEF ShInit, ShellBounds, BoundInv
<1>10. ShTypeOK
  <2>1. 0 \in 0 .. CntMod - 1 /\ 0 \in TagByte
    BY DEF TagByte
  <2> QED BY <1>3, <2>1 DEF ShInit, ShTypeOK
<1> QED BY <1>3, <1>8, <1>9, <1>10 DEF ShInv
-----------------------------------------------------------------------------
(***************************************************************************)
(* Steps of the shell that write nothing leave the store as it was.        *)
(***************************************************************************)
LEMMA StoreStays ==
  ASSUME ShInv, UNCHANGED vars
  PROVE  /\ TypeOK' /\ ScanInv'
         /\ BoundInv => BoundInv'
         /\ PasswordIntact(ee) => PasswordIntact(ee')
         /\ FreshOnly /\ UNCHANGED fresh => FreshOnly'
<1>1. TypeOK' /\ ScanInv'
  BY DEF ShInv, ShTypeOK, vars, TypeOK, ScanInv
<1>2. BoundInv => BoundInv'
  BY DEF vars, BoundInv, StoredCnt
<1>3. FreshOnly /\ UNCHANGED fresh => FreshOnly'
  <2> SUFFICES ASSUME FreshOnly, UNCHANGED fresh PROVE FreshOnly'
    OBVIOUS
  <2>1. IInv'
    BY IInvStutter DEF FreshOnly
  <2>2. Registered' = Registered
    BY DEF vars, Registered, LiveSlots, StoredCnt
  <2> QED BY <2>1, <2>2 DEF FreshOnly, vars
<1> QED BY <1>1, <1>2, <1>3 DEF vars

\* DEL_ALL_TAG is typed.
LEMMA BeginKeeps ==
  ASSUME ShInv, ShellBegin
  PROVE  ShInv'
<1>1. UNCHANGED vars
  BY DEF ShellBegin, ShellRuns, vars
<1>2. ShTypeOK'
  BY <1>1, StoreStays DEF ShInv, ShTypeOK, ShellBegin
<1>3. ~ Settled'
  BY DEF ShellBegin, Settled
<1> QED BY <1>1, <1>2, <1>3, StoreStays DEF ShInv, ShellBounds, ShellBegin

(***************************************************************************)
(* It reads the count; with nothing to delete it is done.                  *)
(***************************************************************************)
LEMMA CountKeeps ==
  ASSUME ShInv, ShellCount
  PROVE  ShInv'
<1> USE LayoutAssumption
<1>1. UNCHANGED vars
  BY DEF ShellCount, ShellRuns, vars
<1>2. StoredCnt(ee) \in 0 .. CntMod - 1
  BY StoredCntType DEF ShInv, ShTypeOK, TypeOK
<1>3. scnt' \in 0 .. CntMod - 1
  BY <1>2 DEF ShellCount, CountRead
<1>4. ShTypeOK'
  BY <1>1, <1>3, StoreStays DEF ShInv, ShTypeOK, ShellCount, TagByte
<1>5. ASSUME ~ disturbed
      PROVE  /\ scnt' = StoredCnt(ee) /\ scnt' < MaxTags
             /\ ShellBounds'
  <2>1. bus = "open" /\ StoredCnt(ee) < MaxTags
    BY <1>5 DEF ShellCount, ShInv, ShellBounds, BoundInv
  <2>2. scnt' = StoredCnt(ee)
    BY <2>1 DEF ShellCount, CountRead
  <2>3. sh' \in {"clear", "write", "delay"} => j' <= scnt'
    BY <1>3 DEF ShellCount
  <2>4. sh' \notin {"read", "write"} /\ bus' # "lost"
    BY DEF ShellCount
  <2> QED BY <1>1, <1>5, <2>1, <2>2, <2>3, <2>4, StoreStays DEF ShInv, ShellBounds
<1>6. ASSUME ~ disturbed, Settled'
      PROVE  FreshOnly'
  <2>1. scnt' = 0
    BY <1>6 DEF ShellCount, Settled
  <2>2. TypeOK' /\ op' = "idle" /\ StoredCnt(ee') = 0
    BY <1>1, <1>5, <1>6, <2>1, StoreStays DEF ShellCount, ShellRuns, vars
  <2> QED BY <2>2, EmptyIsFreshNext
<1> QED BY <1>1, <1>4, <1>5, <1>6, StoreStays DEF ShInv, ShellCount

\* A byte to write, and a transaction for it.
LEMMA WriteKeeps ==
  ASSUME ShInv, ShellWrite
  PROVE  ShInv'
<1>1. UNCHANGED vars
  BY DEF ShellWrite, ShellRuns, vars
<1>2. ShTypeOK'
  BY <1>1, StoreStays DEF ShInv, ShTypeOK, ShellWrite
<1>3. ~ Settled'
  BY DEF ShellWrite, Settled
<1> QED BY <1>1, <1>2, <1>3, StoreStays DEF ShInv, ShellBounds, ShellWrite

(***************************************************************************)
(* The byte is written, unless it is lost: one of a slot that was counted, *)
(* or at last the count of an empty store.                                 *)
(***************************************************************************)
LEMMA WrittenKeeps ==
  ASSUME ShInv, ShellWritten
  PROVE  ShInv'
<1> USE LayoutAssumption
<1>1. /\ ee \in [Addr -> Byte] /\ 0 \in Byte /\ op = "idle" /\ b \in TagByte
      /\ UNCHANGED <<op, tag, cnt, k, z, x, i>>
      /\ 0 \in 0 .. CntMod - 1 /\ j \in 0 .. CntMod - 1
  BY DEF ShellWritten, ShellRuns, ShInv, ShTypeOK, TypeOK, Byte
<1>2. ee' \in [Addr -> Byte]
  BY <1>1, CountByteRoundTrip, WriteByteType DEF ShellWritten
<1>3. TypeOK' /\ ScanInv'
  BY <1>1, <1>2 DEF ShInv, ShTypeOK, TypeOK, ScanInv
<1>4. ShTypeOK'
  BY <1>3 DEF ShellWritten, ShInv, ShTypeOK
<1>5. ASSUME ~ disturbed
      PROVE  ShellBounds' /\ (j = 0 => StoredCnt(ee') = 0)
  <2>1. bus = "open" /\ j <= scnt /\ scnt < MaxTags /\ sh = "write"
    BY <1>5 DEF ShellWritten, ShInv, ShellBounds
  <2>2. CASE j = 0
    <3>1. ee' = WriteByte(ee, Mod_Cnt_Tag_Add, CountByte(0))
      BY <2>1, <2>2 DEF ShellWritten
    <3>2. StoredCnt(ee') = 0
      BY <1>1, <3>1, CountWrite
    <3>3. Mod_Cnt_Tag_Add < PSW_FLAG /\ Mod_Cnt_Tag_Add \in Int
      BY DEF Mod_Cnt_Tag_Add, PSW_FLAG
    <3>4. \A a \in PasswordArea : ee'[a] = ee[a]
      BY <1>1, <3>1, <3>3, OtherAddress
    <3>5. PasswordIntact(ee')
      BY <1>5, <3>4, PasswordStays DEF ShInv, ShellBounds
    <3> QED BY <1>1, <1>5, <2>1, <3>2, <3>5 DEF ShellBounds, BoundInv, ShellWritten
  <2>3. CASE j # 0
    <3>1. j \in 1 .. MaxTags /\ j < MaxTags
      BY <1>1, <2>1, <2>3 DEF ShInv, ShTypeOK
    <3>2. ee' = WriteByte(ee, SlotAddr(j, b), 0)
      BY <2>1, <2>3 DEF ShellWritten
    <3>3. StoredCnt(ee') = StoredCnt(ee)
      BY <1>1, <3>1, <3>2, SlotWrite
    <3>4. SlotAddr(j, b) < PSW_FLAG /\ SlotAddr(j, b) \in Int
      BY <1>1, <3>1, SlotAddrFacts DEF Addr
    <3>5. \A a \in PasswordArea : ee'[a] = ee[a]
      BY <1>1, <3>2, <3>4, OtherAddress
    <3>6. PasswordIntact(ee')
      BY <1>5, <3>5, PasswordStays DEF ShInv, ShellBounds
    <3> QED BY <1>1, <1>5, <2>1, <2>3, <3>3, <3>6 DEF ShInv, ShellBounds, BoundInv, ShellWritten
  <2> QED BY <2>2, <2>3
<1>6. ASSUME ~ disturbed, Settled'
      PROVE  FreshOnly'
  <2>1. j = 0
    BY <1>6 DEF ShellWritten, Settled
  <2> QED BY <1>1, <1>3, <1>5, <1>6, <2>1, EmptyIsFreshNext
<1> QED BY <1>3, <1>4, <1>5, <1>6 DEF ShInv, ShellWritten

(***************************************************************************)
(* Delay_ms(10), then the next byte, the next slot, the count, or the end. *)
(***************************************************************************)
LEMMA DelayKeeps ==
  ASSUME ShInv, ShellDelay
  PROVE  ShInv'
<1> USE LayoutAssumption
<1>1. UNCHANGED vars /\ UNCHANGED <<fresh, disturbed>> /\ bus' = "free" /\ sh = "delay"
  BY DEF ShellDelay, ShellRuns, vars
<1>2. scnt \in 0 .. CntMod - 1 /\ j \in 0 .. CntMod - 1 /\ b \in TagByte
  BY DEF ShInv, ShTypeOK
<1>3. scnt' \in 0 .. CntMod - 1 /\ j' \in 0 .. CntMod - 1 /\ b' \in TagByte
      /\ sh' \in {"clear", "prompt"}
  BY <1>2 DEF ShellDelay, ShellNext, TagByte
<1>4. ShTypeOK'
  BY <1>1, <1>3, StoreStays DEF ShInv, ShTypeOK
<1>5. ASSUME ~ disturbed
      PROVE  ShellBounds'
  <2>1. j <= scnt /\ scnt < MaxTags
    BY <1>1, <1>5 DEF ShInv, ShellBounds
  <2>2. scnt' < MaxTags /\ (sh' = "clear" => j' <= scnt')
    BY <1>2, <2>1 DEF ShellDelay, ShellNext
  <2> QED BY <1>1, <1>3, <1>5, <2>2, StoreStays DEF ShInv, ShellBounds
<1>6. ASSUME ~ disturbed, Settled'
      PROVE  FreshOnly'
  <2>1. Settled
    BY <1>1, <1>3, <1>6 DEF Settled, ShellDelay, ShellNext
  <2> QED BY <1>1, <1>6, <2>1, StoreStays DEF ShInv
<1> QED BY <1>1, <1>4, <1>5, <1>6, StoreStays DEF ShInv
-----------------------------------------------------------------------------
(***************************************************************************)
(* A tag operation that begins undisturbed is one of TagStore; of one that *)
(* breaks in, only the types are known.                                    *)
(***************************************************************************)
LEMMA RegisterKeeps ==
  ASSUME ShInv, NEW t \in Cards, TouchRegister(t)
  PROVE  ShInv'
<1> USE LayoutAssumption
<1>1. /\ ~ disturbed /\ disturbed' = Disturbing /\ UNCHANGED shellVars
      /\ bus' = IF bus \in {"open", "lost"} THEN "lost" ELSE "free"
      /\ fresh' = fresh \cup {t}
      /\ StoredCnt(ee) + 1 < MaxTags
      /\ RegistWrite(t)
  BY DEF TouchRegister, BeginOp, OneDisturbance, Room, RegistCount
<1>2. TypeInv
  BY DEF TypeInv, ShInv, ShTypeOK
<1>3. TypeInv'
  BY <1>1, <1>2, RegistWriteTypes
<1>4. ShTypeOK' /\ ScanInv'
  BY <1>1, <1>3 DEF TypeInv, ShInv, ShTypeOK, shellVars, Disturbing
<1>5. ASSUME ~ Disturbing
      PROVE  ShellBounds' /\ (Settled' => FreshOnly')
  <2>1. RegistCount(t) /\ ShellBounds
    BY <1>1, <1>5 DEF TouchRegister, ShInv
  <2>2. BoundInv'
    BY <1>1, <1>2, <2>1, BoundInvStep DEF ShellBounds
  <2>3. PasswordIntact(ee')
    BY <1>2, <2>1, StepKeepsPassword, PasswordStays DEF ShellBounds, Next, TypeInv
  <2>4. ShellBounds'
    BY <1>1, <1>5, <2>1, <2>2, <2>3 DEF ShellBounds, shellVars, Disturbing
  <2>5. ASSUME Settled'
        PROVE  FreshOnly'
    <3>1. FreshOnly
      BY <1>1, <2>5 DEF ShInv, Settled, shellVars
    <3>2. IInv'
      BY <1>1, <1>2, <2>1, <3>1, RegistCountKeeps DEF FreshOnly
    <3>3. Registered' = Registered
      BY <2>1, <3>1, RegistCountStep DEF FreshOnly, Registry!BeginRegister
    <3> QED BY <1>1, <3>1, <3>2, <3>3 DEF FreshOnly, RegistWrite
  <2> QED BY <2>4, <2>5
<1> QED BY <1>1, <1>4, <1>5 DEF ShInv

\* delete_registered_tag begins.
LEMMA DeleteKeeps ==
  ASSUME ShInv, NEW t \in Cards, TouchDelete(t)
  PROVE  ShInv'
<1> USE LayoutAssumption
<1>1. /\ ~ disturbed /\ disturbed' = Disturbing /\ UNCHANGED shellVars
      /\ bus' = IF bus \in {"open", "lost"} THEN "lost" ELSE "free"
      /\ fresh' = fresh
      /\ DeleteFirst(t) \/ (Disturbing /\ DeleteScan(CountOf(ErasedByte), t))
  BY DEF TouchDelete, BeginOp, OneDisturbance
<1>2. TypeInv
  BY DEF TypeInv, ShInv, ShTypeOK
<1>3. StoredCnt(ee) \in 0 .. CntMod - 1 /\ CountOf(ErasedByte) \in 0 .. CntMod - 1
  BY <1>2, StoredCntType, CountOfType DEF TypeInv, TypeOK, ErasedByte, Byte
<1>4. TypeInv'
  BY <1>1, <1>2, <1>3, DeleteScanTypes DEF DeleteFirst
<1>5. ShTypeOK' /\ ScanInv'
  BY <1>1, <1>4 DEF TypeInv, ShInv, ShTypeOK, shellVars, Disturbing
<1>6. ASSUME ~ Disturbing
      PROVE  ShellBounds' /\ (Settled' => FreshOnly')
  <2>1. DeleteFirst(t) /\ ShellBounds
    BY <1>1, <1>6 DEF ShInv
  <2>2. BoundInv'
    BY <1>1, <1>2, <2>1, BoundInvStep DEF ShellBounds
  <2>3. PasswordIntact(ee')
    BY <1>2, <2>1, StepKeepsPassword, PasswordStays DEF ShellBounds, Next, TypeInv
  <2>4. ShellBounds'
    BY <1>1, <1>6, <2>1, <2>2, <2>3 DEF ShellBounds, shellVars, Disturbing
  <2>5. ASSUME Settled'
        PROVE  FreshOnly'
    <3>1. FreshOnly
      BY <1>1, <2>5 DEF ShInv, Settled, shellVars
    <3>2. IInv'
      BY <1>2, <2>1, <3>1, DeleteFirstInv DEF FreshOnly
    <3>3. Registered' \subseteq Registered
      BY <2>1, <3>1, DeleteFirstStep DEF FreshOnly, IInv, Registry!BeginDelete
    <3>4. op' = "zero"
      BY <2>1 DEF DeleteFirst, DeleteScan
    <3> QED BY <1>1, <3>1, <3>2, <3>3, <3>4 DEF FreshOnly
  <2> QED BY <2>4, <2>5
<1> QED BY <1>1, <1>5, <1>6 DEF ShInv

(***************************************************************************)
(* Every byte a tag operation writes.                                      *)
(***************************************************************************)
LEMMA TouchKeeps ==
  ASSUME ShInv, TouchWrite
  PROVE  ShInv'
<1>1. Step /\ UNCHANGED <<shellVars, bus, fresh, disturbed>>
  BY DEF TouchWrite
<1>2. TypeInv
  BY DEF TypeInv, ShInv, ShTypeOK
<1>3. TypeInv'
  BY <1>1, <1>2, TypeInvStep
<1>4. ShTypeOK' /\ ScanInv'
  BY <1>1, <1>3 DEF TypeInv, ShInv, ShTypeOK, shellVars
<1>5. ASSUME ~ disturbed
      PROVE  ShellBounds'
  <2>1. BoundInv'
    BY <1>1, <1>2, <1>5, BoundInvStep DEF ShInv, ShellBounds
  <2>2. PasswordIntact(ee')
    BY <1>1, <1>2, <1>5, StepKeepsPassword, PasswordStays DEF ShInv, ShellBounds, Next, TypeInv
  <2> QED BY <1>1, <1>5, <2>1, <2>2 DEF ShInv, ShellBounds, shellVars
<1>6. ASSUME ~ disturbed, Settled'
      PROVE  FreshOnly'
  <2>1. FreshOnly
    BY <1>1, <1>6 DEF ShInv, Settled, shellVars
  <2>2. IInv'
    BY <1>1, <1>2, <2>1, RegistByteInv, DeleteZeroInv, DeleteShiftInv, DeleteCountInv
       DEF FreshOnly, Step
  <2>3. CASE RegistByte
    <3>1. Registered' \subseteq Registered \cup {tag} /\ tag \in fresh
      BY <2>1, <2>3, RegistStep
         DEF FreshOnly, IInv, RegistByte, Registry!EndRegister, Registry!rvars
    <3>2. op' = "regist" => tag' = tag
      BY <2>3 DEF RegistByte, Idle
    <3> QED BY <1>1, <2>1, <2>2, <3>1, <3>2 DEF FreshOnly
  <2>4. CASE DeleteZero \/ DeleteShift \/ DeleteCount
    <3>1. Registered' = Registered
      BY <2>1, <2>4, DeleteStep DEF FreshOnly, IInv
    <3>2. op' # "regist"
      BY <2>4 DEF DeleteZero, DeleteShift, DeleteCount, Idle
    <3> QED BY <1>1, <2>1, <2>2, <3>1, <3>2 DEF FreshOnly
  <2> QED BY <1>1, <2>3, <2>4 DEF Step
<1> QED BY <1>1, <1>4, <1>5, <1>6 DEF ShInv
-----------------------------------------------------------------------------
(***************************************************************************)
(* Every step keeps the invariant.                                         *)
(***************************************************************************)
LEMMA StepShInv == ShInv /\ [ShNext]_shVars => ShInv'
<1> SUFFICES ASSUME ShInv, [ShNext]_shVars PROVE ShInv'
  OBVIOUS
<1>1. CASE UNCHANGED shVars
  <2>1. UNCHANGED vars /\ UNCHANGED <<sh, scnt, j, b, bus, fresh, disturbed>>
    BY <1>1 DEF shVars, shellVars
  <2> QED BY <2>1, StoreStays DEF ShInv, ShTypeOK, ShellBounds, Settled
<1> QED BY <1>1, BeginKeeps, CountKeeps, WriteKeeps, WrittenKeeps, DelayKeeps,
           RegisterKeeps, DeleteKeeps, TouchKeeps DEF ShNext

\* It is an invariant.
LEMMA ShSpecInv == ShSpec => []ShInv
BY InitShInv, StepShInv, PTL DEF ShSpec

(***************************************************************************)
(* No local of DEL_ALL_TAG or of a tag operation leaves its range, however *)
(* they break into each other.                                             *)
(***************************************************************************)
THEOREM ShellTypes == ShSpec => []ShTypeOK
<1>1. ShInv => ShTypeOK
  BY DEF ShInv
<1> QED BY ShSpecInv, <1>1, PTL

(***************************************************************************)
(* Neither clearing slots with a count that is out of date nor shifting    *)
(* half cleared ones reaches the password.                                 *)
(***************************************************************************)
THEOREM ShellKeepsPassword == ShSpec => []UndisturbedKeepsPassword
<1>1. ShInv => UndisturbedKeepsPassword
  BY DEF ShInv, ShellBounds, UndisturbedKeepsPassword
<1> QED BY ShSpecInv, <1>1, PTL

(***************************************************************************)
(* Tags deleted by DEL_ALL_TAG do not come back, whatever was registered   *)
(* and deleted between its transactions.                                   *)
(***************************************************************************)
THEOREM AllTagsDeleted == ShSpec => []DeletedTagsStayDeleted
<1>1. ShInv => DeletedTagsStayDeleted
  <2> SUFFICES ASSUME ShInv, sh = "prompt", op = "idle", ~ disturbed,
                      NEW t \in Cards, tag_match(ee, t)
               PROVE  t \in fresh
    BY DEF DeletedTagsStayDeleted
  <2>1. FreshOnly
    BY DEF ShInv, Settled
  <2>2. \E l \in LiveSlots : SlotId(ee, l) = t
    BY DEF tag_match, Matches, LiveSlots
  <2> QED BY <2>1, <2>2 DEF FreshOnly, Registered
<1> QED BY ShSpecInv, <1>1, PTL
=============================================================================
