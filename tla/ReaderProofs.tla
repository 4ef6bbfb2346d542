---------------------------- MODULE ReaderProofs ----------------------------
(***************************************************************************)
(* The card reader, proved of in two models.  Door: match_thread_lock      *)
(* keeps the two threads that use the reader apart, for every bound on the *)
(* pending openings.  CardReader: for any number of cards and of disturbed *)
(* exchanges, the ID that a thread uses is the one its own Read_ID         *)
(* returned, and that of a card that was there; and a card that lies there *)
(* alone is read by one call.                                              *)
(***************************************************************************)
EXTENDS CardReader, Door, TLAPS, FiniteSetTheorems

(***************************************************************************)
(* Where the lock is: a waiting thread waits for the other one, which      *)
(* holds it; when it is free nobody uses the reader; and when nobody waits *)
(* only one does.                                                          *)
(***************************************************************************)
LockPlace ==
  /\ sem.queue = <<"match">> => match = "read" /\ touch = "serve" /\ sem.value = 0
  /\ sem.queue = <<"touch">> =>
       match # "take" /\ touch = "serve" /\ asleep /\ sem.value = 0
  /\ sem.value = 1 => match = "take" /\ touch # "serve"
  /\ sem.queue = <<>> => match = "take" \/ touch # "serve"
  /\ sem.value = 0 => match # "take" \/ touch = "serve"

\* What keeps the semaphore of the door within its type.
OwedIsPending == owed = doorSem

DInv == DTypeOK /\ LockPlace /\ OwedIsPending

(***************************************************************************)
(* What the three possible queues say.                                     *)
(***************************************************************************)
LEMMA QueueFacts ==
  /\ sem.queue = <<>> => ~ Waits("match") /\ ~ Waits("touch")
  /\ sem.queue = <<"match">> => Waits("match") /\ ~ Waits("touch")
  /\ sem.queue = <<"touch">> => Waits("touch") /\ ~ Waits("match")
BY DEF Waits

(***************************************************************************)
(* The three queues are different.                                         *)
(***************************************************************************)
LEMMA QueuesDiffer ==
  /\ <<>> # <<"match">> /\ <<>> # <<"touch">>
  /\ <<"match">> # <<"touch">>
OBVIOUS

(***************************************************************************)
(* The first state.                                                        *)
(***************************************************************************)
LEMMA DInvInit == DInit => DInv
BY DoorAssumption DEF DInit, DInv, DTypeOK, LockPlace, OwedIsPending

(***************************************************************************)
(* What taking the lock does to it.                                        *)
(***************************************************************************)
LEMMA TakeFacts ==
  ASSUME DTypeOK, NEW t \in {"match", "touch"}, rt_sem_take(t),
         sem.value = 0 => sem.queue = <<>>
  PROVE  /\ sem.value = 1 => sem' = [value |-> 0, queue |-> sem.queue]
         /\ sem.value = 0 => sem' = [value |-> 0, queue |-> <<t>>]
<1>1. CASE sem.value = 1
  BY <1>1 DEF DTypeOK, rt_sem_take
<1>2. CASE sem.value = 0
  <2>1. sem' = [sem EXCEPT !.queue = Append(<<>>, t)]
    BY <1>2 DEF rt_sem_take
  <2>2. Append(<<>>, t) = <<t>>
    OBVIOUS
  <2> QED
    BY <1>2, <2>1, <2>2 DEF DTypeOK
<1> QED
  BY <1>1, <1>2 DEF DTypeOK

(***************************************************************************)
(* What releasing the lock does to it.                                     *)
(***************************************************************************)
LEMMA ReleaseFacts ==
  ASSUME DTypeOK, rt_sem_release, sem.value = 0
  PROVE  /\ sem.queue = <<>> => sem' = [value |-> 1, queue |-> <<>>]
         /\ sem.queue # <<>> => sem' = [value |-> 0, queue |-> <<>>]
<1>1. CASE sem.queue = <<>>
  BY <1>1 DEF DTypeOK, rt_sem_release
<1>2. CASE sem.queue # <<>>
  <2>1. Tail(sem.queue) = <<>>
    <3>1. Tail(<<"match">>) = <<>> /\ Tail(<<"touch">>) = <<>>
      OBVIOUS
    <3> QED
      BY <1>2, <3>1 DEF DTypeOK
  <2> QED
    BY <1>2, <2>1 DEF DTypeOK, rt_sem_release
<1> QED
  BY <1>1, <1>2

(***************************************************************************)
(* A step of the touch thread.                                             *)
(***************************************************************************)
LEMMA TouchInv == DInv /\ TouchStep => DInv'
<1> SUFFICES ASSUME DInv, TouchStep PROVE DInv'
  OBVIOUS
<1> USE QueueFacts, QueuesDiffer DEF DInv, OwedIsPending, TouchRuns, NotTouch
<1>1. CASE TouchPoll \/ TouchSleep \/ TouchWake
  BY <1>1 DEF TouchPoll, TouchSleep, TouchWake, DTypeOK, LockPlace
<1>2. CASE TouchTake
  <2>1. sem.value = 0 => sem.queue = <<>>
    BY <1>2 DEF TouchTake, DTypeOK, LockPlace
  <2>2. /\ sem.value = 1 => sem' = [value |-> 0, queue |-> sem.queue]
        /\ sem.value = 0 => sem' = [value |-> 0, queue |-> <<"touch">>]
    BY <1>2, <2>1, TakeFacts DEF TouchTake
  <2>3. CASE sem.value = 1
    <3>1. sem' = [value |-> 0, queue |-> <<>>] /\ asleep' = FALSE
      BY <1>2, <2>2, <2>3 DEF TouchTake, DTypeOK, LockPlace
    <3> QED
      BY <1>2, <2>3, <3>1 DEF TouchTake, DTypeOK, LockPlace
  <2>4. CASE sem.value = 0
    <3>1. sem' = [value |-> 0, queue |-> <<"touch">>] /\ asleep' = TRUE
      BY <1>2, <2>2, <2>4 DEF TouchTake
    <3> QED
      BY <1>2, <2>1, <2>4, <3>1 DEF TouchTake, DTypeOK, LockPlace
  <2> QED
    BY <2>3, <2>4 DEF DTypeOK
<1>3. CASE TouchDone
  <2>1. sem.value = 0
    BY <1>3 DEF TouchDone, DTypeOK, LockPlace
  <2>2. /\ sem.queue = <<>> => sem' = [value |-> 1, queue |-> <<>>]
        /\ sem.queue # <<>> => sem' = [value |-> 0, queue |-> <<>>]
    BY <1>3, <2>1, ReleaseFacts DEF TouchDone
  <2> QED
    BY <1>3, <2>1, <2>2 DEF TouchDone, DTypeOK, LockPlace
<1> QED
  BY <1>1, <1>2, <1>3 DEF TouchStep

(***************************************************************************)
(* A step of match_thread.                                                 *)
(***************************************************************************)
LEMMA MatchInv == DInv /\ MatchStep => DInv'
<1> SUFFICES ASSUME DInv, MatchStep PROVE DInv'
  OBVIOUS
<1> USE QueueFacts, QueuesDiffer DEF DInv, MatchRuns, NotMatch
<1>1. CASE MatchNoCard \/ MatchNotRegistered \/ MatchSlept
  BY <1>1 DEF MatchNoCard, MatchNotRegistered, MatchSlept, DTypeOK, LockPlace,
              OwedIsPending
<1>2. CASE Matched
  BY <1>2, DoorAssumption DEF Matched, DTypeOK, LockPlace, OwedIsPending
<1>3. CASE MatchTake
  <2>1. sem.value = 0 => sem.queue = <<>>
    BY <1>3 DEF MatchTake, DTypeOK, LockPlace
  <2>2. /\ sem.value = 1 => sem' = [value |-> 0, queue |-> sem.queue]
        /\ sem.value = 0 => sem' = [value |-> 0, queue |-> <<"match">>]
    BY <1>3, <2>1, TakeFacts DEF MatchTake
  <2> QED
    BY <1>3, <2>1, <2>2 DEF MatchTake, DTypeOK, LockPlace, OwedIsPending
<1>4. CASE MatchRelease
  <2>1. sem.value = 0
    BY <1>4 DEF MatchRelease, DTypeOK, LockPlace
  <2>2. /\ sem.queue = <<>> => sem' = [value |-> 1, queue |-> <<>>]
        /\ sem.queue # <<>> => sem' = [value |-> 0, queue |-> <<>>]
    BY <1>4, <2>1, ReleaseFacts DEF MatchRelease
  <2> QED
    BY <1>4, <2>1, <2>2 DEF MatchRelease, DTypeOK, LockPlace, OwedIsPending
<1> QED
  BY <1>1, <1>2, <1>3, <1>4 DEF MatchStep

(***************************************************************************)
(* A step of door_open_thread.                                             *)
(***************************************************************************)
LEMMA DoorInv == DInv /\ DoorStep => DInv'
BY DoorAssumption
   DEF DInv, DoorStep, DoorOpen, DoorPause, DoorClose, DoorStop, NotDoor,
       DTypeOK, LockPlace, OwedIsPending

LEMMA DInvNext == DInv /\ [DNext]_doorVars => DInv'
<1>1. DInv /\ UNCHANGED doorVars => DInv'
  BY DEF DInv, DTypeOK, LockPlace, OwedIsPending, doorVars
<1> QED
  BY <1>1, TouchInv, MatchInv, DoorInv DEF DNext

(***************************************************************************)
(* match_thread_lock keeps match_thread and the touch thread apart, also   *)
(* when it is handed over to a waiting thread.                             *)
(***************************************************************************)
THEOREM OneReader == DSpec => []ReaderExclusive
<1>1. DInv => ReaderExclusive
  BY QueueFacts DEF DInv, DTypeOK, LockPlace, ReaderExclusive, Holds
<1> QED
  BY <1>1, DInvInit, DInvNext, PTL DEF DSpec
-----------------------------------------------------------------------------
(***************************************************************************)
(* CardReader: where the threads are in a call of Read_ID, and after it.   *)
(***************************************************************************)
Calling(u) == pc[u] \in {"request", "again", "anticoll"}
Holding(u) == pc[u] \in {"blink", "store"}

(***************************************************************************)
(* From the request to the first use nothing has been used; until the last *)
(* use ucArray_ID is what was returned; whoever is in the field during the *)
(* call has been seen.                                                     *)
(***************************************************************************)
CallInv ==
  \A u \in Users :
    /\ Calling(u) \/ pc[u] = "blink" => used[u] = None
    /\ Calling(u) => ret[u] = None /\ Present \subseteq seen[u]
    /\ Holding(u) => ret[u] = ucArray_ID

CInv == TypeOK /\ CallInv /\ UsedIsRead /\ ReadIsPresent
-----------------------------------------------------------------------------
(***************************************************************************)
(* A set of one element has one.                                           *)
(***************************************************************************)
LEMMA One ==
  ASSUME NEW S, Cardinality(S) = 1
  PROVE  S # {}
  BY FS_EmptySet

(***************************************************************************)
(* While one thread is at work with the reader the other is not.           *)
(***************************************************************************)
LEMMA Alone ==
  ASSUME TypeOK, NEW u \in Users, NEW v \in Users, u # v, pc[u] # "out"
  PROVE  pc[v] = "out"
  BY DEF TypeOK

(***************************************************************************)
(* Nothing is read or used before the first call.                          *)
(***************************************************************************)
LEMMA InitCInv == Init => CInv
  BY CardReaderAssumption
     DEF Init, CInv, TypeOK, CallInv, UsedIsRead, ReadIsPresent, Users, Ids, Calling, Holding
-----------------------------------------------------------------------------
(***************************************************************************)
(* Cards that come and go change nobody's ID.                              *)
(***************************************************************************)
LEMMA EnterKeeps ==
  ASSUME CInv, NEW c \in Cards, Enter(c)
  PROVE  CInv'
<1>1. TypeOK'
  BY DEF CInv, TypeOK, Enter
<1>2. CallInv'
  BY DEF CInv, TypeOK, CallInv, Enter, Calling, Holding, Present
<1>3. UsedIsRead' /\ ReadIsPresent'
  BY DEF CInv, TypeOK, UsedIsRead, ReadIsPresent, Enter
<1> QED BY <1>1, <1>2, <1>3 DEF CInv

\* As EnterKeeps: a card leaves.
LEMMA LeaveKeeps ==
  ASSUME CInv, NEW c \in Cards, Leave(c)
  PROVE  CInv'
<1>1. TypeOK'
  BY DEF CInv, TypeOK, Leave
<1>2. CallInv'
  BY DEF CInv, TypeOK, CallInv, Leave, Calling, Holding, Present
<1>3. UsedIsRead' /\ ReadIsPresent'
  BY DEF CInv, TypeOK, UsedIsRead, ReadIsPresent, Leave
<1> QED BY <1>1, <1>2, <1>3 DEF CInv

(***************************************************************************)
(* Steps that only move a thread outside the calls.                        *)
(***************************************************************************)
LEMMA MoveKeeps ==
  ASSUME CInv, NEW u \in Users, Take(u) \/ New(u) \/ Back(u) \/ Release(u)
  PROVE  CInv'
<1>1. TypeOK'
  BY CardReaderAssumption DEF CInv, TypeOK, Take, New, Back, Release, Goto, history
<1>2. CallInv'
  BY DEF CInv, TypeOK, CallInv, Take, New, Back, Release, Goto, Calling, Holding, Present, history
<1>3. UsedIsRead' /\ ReadIsPresent'
  BY DEF CInv, UsedIsRead, ReadIsPresent, Take, New, Back, Release, history
<1> QED BY <1>1, <1>2, <1>3 DEF CInv

(***************************************************************************)
(* A call begins: what was returned and used before is forgotten.          *)
(***************************************************************************)
LEMMA CallKeeps ==
  ASSUME CInv, NEW u \in Users, Call(u)
  PROVE  CInv'
<1>1. (CHOOSE c \in Present : TRUE) \in Cards
      \/ Cardinality(Present) # 1
  BY One DEF Present
<1>2. TypeOK'
  BY <1>1 DEF CInv, TypeOK, Call, Goto, Ids, Present
<1>3. CallInv'
  BY DEF CInv, TypeOK, CallInv, Call, Goto, Calling, Holding, Present
<1>4. UsedIsRead' /\ ReadIsPresent'
  BY CardReaderAssumption DEF CInv, TypeOK, UsedIsRead, ReadIsPresent, Call
<1> QED BY <1>2, <1>3, <1>4 DEF CInv

(***************************************************************************)
(* The request: cards may turn ready or idle, none enters or leaves.       *)
(***************************************************************************)
LEMMA WakeUpKeeps ==
  ASSUME TypeOK, field' \in {field, AfterWakeUp}
  PROVE  field' \in [Cards -> {"out", "idle", "ready"}] /\ Present' = Present
  BY DEF TypeOK, AfterWakeUp, Present

\* PcdRequest changes no ID in use.
LEMMA RequestKeeps ==
  ASSUME CInv, NEW u \in Users, PcdRequest(u)
  PROVE  CInv'
<1>1. field' \in {field, AfterWakeUp}
  BY DEF PcdRequest, RequestOk, RequestFails, RequestDisturbed
<1>2. field' \in [Cards -> {"out", "idle", "ready"}] /\ Present' = Present
  BY <1>1, WakeUpKeeps DEF CInv
<1>3. \E to \in {"anticoll", "again", "release", "look"} : pc' = [pc EXCEPT ![u] = to]
  BY DEF PcdRequest, RequestOk, RequestFails, RequestDisturbed, Retry, FailTo, Goto
<1>4. noise' \in 0 .. MaxNoise /\ noise' >= noise /\ calm' \in [Users -> Cards \cup {None}]
      /\ calm' \in {calm, [v \in Users |-> None]}
  BY CardReaderAssumption
     DEF CInv, TypeOK, PcdRequest, RequestOk, RequestFails, RequestDisturbed, Disturbed, history
<1>5. UNCHANGED <<holder, ret, used, seen>> /\ ucArray_ID' \in {ucArray_ID, Mixed}
  BY DEF PcdRequest, RequestOk, RequestFails, RequestDisturbed, Disturbed, history
<1>6. TypeOK'
  <2>1. pc' \in [Users -> {"out", "look", "request", "again", "anticoll", "blink",
                          "store", "menu", "release"}]
    BY <1>3 DEF CInv, TypeOK
  <2>2. pc[u] # "out"
    BY DEF PcdRequest, CInv, TypeOK
  <2>3. \A v \in Users : pc'[v] # "out" => holder' = v
    BY <2>2, <1>3, <1>5 DEF CInv, TypeOK
  <2>4. ucArray_ID' \in Cards \cup {Mixed} /\ UNCHANGED <<holder, ret, used, seen>>
    BY <1>5 DEF CInv, TypeOK
  <2> QED BY <2>1, <2>3, <2>4, <1>2, <1>4 DEF CInv, TypeOK, Ids
<1>7. CallInv'
  <2> SUFFICES ASSUME NEW v \in Users
               PROVE  /\ Calling(v)' \/ pc'[v] = "blink" => used'[v] = None
                      /\ Calling(v)' => ret'[v] = None /\ Present' \subseteq seen'[v]
                      /\ Holding(v)' => ret'[v] = ucArray_ID'
    BY DEF CallInv
  <2>1. CASE v = u
    BY <2>1, <1>2, <1>3, <1>5 DEF CInv, TypeOK, CallInv, PcdRequest, Calling, Holding
  <2>2. CASE v # u
    <3>1. pc'[v] = "out"
      BY <2>2, <1>3, Alone DEF CInv, TypeOK, PcdRequest
    <3> QED BY <3>1 DEF Calling, Holding
  <2> QED BY <2>1, <2>2
<1>8. UsedIsRead' /\ ReadIsPresent'
  BY <1>4, <1>5 DEF CInv, TypeOK, UsedIsRead, ReadIsPresent
<1> QED BY <1>6, <1>7, <1>8 DEF CInv

(***************************************************************************)
(* An ID is returned: one that answers is in the field and has been seen.  *)
(***************************************************************************)
LEMMA ReturnKeeps ==
  ASSUME CInv, NEW u \in Users, NEW id \in Cards \cup {Mixed},
         pc[u] = "anticoll", Returns(u, id),
         UNCHANGED <<field, holder, used, seen>>,
         noise' \in 0 .. MaxNoise, noise' >= noise,
         calm' \in {calm, [v \in Users |-> None]},
         id \in Cards => id \in Present,
         id = Mixed => noise' > 0 /\ calm' = [v \in Users |-> None]
  PROVE  CInv'
<1>1. TypeOK'
  BY DEF CInv, TypeOK, Returns, Goto, Ids
<1>2. CallInv'
  <2> SUFFICES ASSUME NEW v \in Users
               PROVE  /\ Calling(v)' \/ pc'[v] = "blink" => used'[v] = None
                      /\ Calling(v)' => ret'[v] = None /\ Present' \subseteq seen'[v]
                      /\ Holding(v)' => ret'[v] = ucArray_ID'
    BY DEF CallInv
  <2>1. CASE v = u
    BY <2>1 DEF CInv, TypeOK, CallInv, Returns, Goto, Calling, Holding
  <2>2. CASE v # u
    <3>1. pc'[v] = "out"
      BY <2>2, Alone DEF CInv, TypeOK, Returns, Goto
    <3> QED BY <3>1 DEF Calling, Holding
  <2> QED BY <2>1, <2>2
<1>3. UsedIsRead'
  BY CardReaderAssumption DEF CInv, TypeOK, CallInv, UsedIsRead, Returns, Calling
<1>4. ReadIsPresent'
  BY CardReaderAssumption DEF CInv, TypeOK, CallInv, ReadIsPresent, Returns, Calling
<1> QED BY <1>1, <1>2, <1>3, <1>4 DEF CInv

\* PcdAnticoll returns such an ID, or fails.
LEMMA AnticollKeeps ==
  ASSUME CInv, NEW u \in Users, PcdAnticoll(u)
  PROVE  CInv'
<1>1. CASE AnticollOk(u)
  <2>1. PICK c \in Cards : Returns(u, c) /\ field[c] = "ready"
    <3>1. (CHOOSE c \in Cards : field[c] = "ready") \in Those("ready")
      BY <1>1, One DEF AnticollOk, Those
    <3> QED BY <1>1, <3>1 DEF AnticollOk, Those
  <2>2. c \in Present /\ c # Mixed
    BY <2>1, CardReaderAssumption DEF Present
  <2> QED BY <1>1, <2>1, <2>2, ReturnKeeps DEF AnticollOk, PcdAnticoll, CInv, TypeOK
<1>2. CASE AnticollDisturbed(u) /\ Returns(u, Mixed)
  <2>1. Mixed \notin Cards /\ noise' \in 0 .. MaxNoise /\ noise' >= noise /\ noise' > 0
    BY <1>2, CardReaderAssumption DEF AnticollDisturbed, Disturbed, CInv, TypeOK
  <2>2. calm' = [v \in Users |-> None] /\ UNCHANGED <<field, holder, used, seen>>
    BY <1>2 DEF AnticollDisturbed, Disturbed
  <2> QED BY <1>2, <2>1, <2>2, ReturnKeeps DEF PcdAnticoll
<1>3. CASE /\ AnticollFails(u) \/ AnticollDisturbed(u)
           /\ UNCHANGED ret /\ Goto(u, FailTo(u))
  <2>1. UNCHANGED <<field, holder, ret, used, seen>> /\ ucArray_ID' \in {ucArray_ID, Mixed}
        /\ noise' \in 0 .. MaxNoise /\ noise' >= noise
        /\ calm' \in {calm, [v \in Users |-> None]}
    BY <1>3, CardReaderAssumption
       DEF AnticollFails, AnticollDisturbed, Disturbed, history, Returns, Goto, CInv, TypeOK
  <2>2. \E to \in {"release", "look"} : pc' = [pc EXCEPT ![u] = to]
    BY <1>3 DEF FailTo, Goto
  <2>3. TypeOK'
    BY <2>1, <2>2 DEF CInv, TypeOK, PcdAnticoll
  <2>4. CallInv'
    <3> SUFFICES ASSUME NEW v \in Users
                 PROVE  /\ Calling(v)' \/ pc'[v] = "blink" => used'[v] = None
                        /\ Calling(v)' => ret'[v] = None /\ Present' \subseteq seen'[v]
                        /\ Holding(v)' => ret'[v] = ucArray_ID'
      BY DEF CallInv
    <3>1. CASE v = u
      BY <3>1, <2>2 DEF CInv, TypeOK, Calling, Holding
    <3>2. CASE v # u
      <4>1. pc'[v] = "out"
        BY <3>2, <2>2, Alone DEF CInv, TypeOK, PcdAnticoll
      <4> QED BY <4>1 DEF Calling, Holding
    <3> QED BY <3>1, <3>2
  <2>5. UsedIsRead' /\ ReadIsPresent'
    BY <2>1 DEF CInv, TypeOK, UsedIsRead, ReadIsPresent
  <2> QED BY <2>3, <2>4, <2>5 DEF CInv
<1> QED BY <1>1, <1>2, <1>3 DEF PcdAnticoll, AnticollFails, AnticollDisturbed, history

(***************************************************************************)
(* After the blink what is in ucArray_ID is still what was returned.       *)
(***************************************************************************)
LEMMA UseKeeps ==
  ASSUME CInv, NEW u \in Users, Compare(u) \/ Store(u)
  PROVE  CInv'
<1>1. Holding(u) /\ used' = [used EXCEPT ![u] = ucArray_ID]
      /\ UNCHANGED <<field, ucArray_ID, holder, noise, ret, seen, calm>>
      /\ \E to \in {"release", "store", "menu"} :
           pc' = [pc EXCEPT ![u] = to] /\ (to = "store" => pc[u] = "blink")
  BY DEF Compare, Store, Use, Goto, Holding
<1>2. TypeOK'
  BY <1>1 DEF CInv, TypeOK, Ids, Holding
<1>3. CallInv'
  BY <1>1 DEF CInv, TypeOK, CallInv, Calling, Holding, Present
<1>4. UsedIsRead' /\ ReadIsPresent'
  BY <1>1 DEF CInv, TypeOK, CallInv, UsedIsRead, ReadIsPresent
<1> QED BY <1>2, <1>3, <1>4 DEF CInv
-----------------------------------------------------------------------------
(***************************************************************************)
(* Every step keeps the invariant.                                         *)
(***************************************************************************)
LEMMA NextCInv == CInv /\ [Next]_vars => CInv'
<1> SUFFICES ASSUME CInv, [Next]_vars PROVE CInv'
  OBVIOUS
<1>1. CASE \E c \in Cards : Enter(c) \/ Leave(c)
  BY <1>1, EnterKeeps, LeaveKeeps
<1>2. CASE \E u \in Users : Take(u) \/ New(u) \/ Back(u) \/ Release(u)
  BY <1>2, MoveKeeps
<1>3. CASE \E u \in Users : Call(u)
  BY <1>3, CallKeeps
<1>4. CASE \E u \in Users : PcdRequest(u)
  BY <1>4, RequestKeeps
<1>5. CASE \E u \in Users : PcdAnticoll(u)
  BY <1>5, AnticollKeeps
<1>6. CASE \E u \in Users : Compare(u) \/ Store(u)
  BY <1>6, UseKeeps
<1>7. CASE UNCHANGED vars
  BY <1>7 DEF vars, history, CInv, TypeOK, CallInv, UsedIsRead, ReadIsPresent,
              Calling, Holding, Present
<1>8. Match \in Users /\ Touch \in Users
  BY DEF Users
<1> QED BY <1>1, <1>2, <1>3, <1>4, <1>5, <1>6, <1>7, <1>8 DEF Next, MatchReads, TouchReads

(***************************************************************************)
(* What a thread compares, registers or deletes, after it has slept, is    *)
(* what its own Read_ID returned (rc522_function.c:931, 942, 1042;         *)
(* main.c:238), for any number of cards.                                   *)
(***************************************************************************)
THEOREM IdOfOwnRead == Spec => []UsedIsRead
<1>1. CInv => UsedIsRead
  BY DEF CInv
<1> QED BY InitCInv, NextCInv, <1>1, PTL DEF Spec

(***************************************************************************)
(* An ID that Read_ID returns with MI_OK is that of a card in the field    *)
(* during the call, or of a disturbed answer (Read_ID,                     *)
(* rc522_function.c:671), for any number of cards and disturbances.        *)
(***************************************************************************)
THEOREM IdOfPresentCard == Spec => []ReadIsPresent
<1>1. CInv => ReadIsPresent
  BY DEF CInv
<1> QED BY InitCInv, NextCInv, <1>1, PTL DEF Spec
-----------------------------------------------------------------------------
(***************************************************************************)
(* A card alone in the field all through a call: whatever it was before    *)
(* the call, at the second request it is idle, at the anticollision ready. *)
(***************************************************************************)
CalmInv ==
  \A u \in Users :
    Calling(u) /\ calm[u] # None =>
      /\ Present = {calm[u]}
      /\ pc[u] = "again" => field[calm[u]] = "idle"
      /\ pc[u] = "anticoll" => field[calm[u]] = "ready"

ReadInv == CInv /\ CalmInv

\* What CalmIsRead says of a step.
CalmStep(u) ==
  Calling(u) /\ calm'[u] # None
    => pc'[u] # FailTo(u) /\ (pc'[u] = "blink" => ret'[u] = calm[u])

(***************************************************************************)
(* A set that holds one thing has one element.                             *)
(***************************************************************************)
LEMMA OnlyOne ==
  ASSUME NEW S, Cardinality(S) = 1, IsFiniteSet(S)
  PROVE  S = {CHOOSE c \in S : TRUE}
<1>1. PICK c : S = {c}
  BY FS_Singleton
<1> QED BY <1>1

\* Seen by a field in which one card lies.
LEMMA OneCard ==
  ASSUME TypeOK, NEW c \in Cards, Present = {c}
  PROVE  /\ field[c] = "idle" \/ field[c] = "ready"
         /\ field[c] = "idle" => Cardinality(Those("idle")) = 1
         /\ field[c] = "ready" => Those("idle") = {} /\ Cardinality(Those("ready")) = 1
         /\ \A d \in Cards : field[d] = "ready" => d = c
<1>1. field[c] = "idle" \/ field[c] = "ready"
  BY DEF Present, TypeOK
<1>2. field[c] = "idle" => Those("idle") = {c}
  BY DEF Present, Those
<1>3. field[c] = "ready" => Those("ready") = {c} /\ Those("idle") = {}
  BY DEF Present, Those
<1>4. \A d \in Cards : field[d] = "ready" => d = c
  BY DEF Present
<1>5. Cardinality({c}) = 1
  BY FS_Singleton
<1> QED BY <1>1, <1>2, <1>3, <1>4, <1>5
-----------------------------------------------------------------------------
(***************************************************************************)
(* A call begins with one card in the field, or without promise.           *)
(***************************************************************************)
LEMMA CallCalm ==
  ASSUME CInv, NEW u \in Users, Call(u), calm'[u] # None
  PROVE  Present' = {calm'[u]} /\ pc'[u] = "request"
<1>1. Cardinality(Present) = 1 /\ calm'[u] = CHOOSE c \in Present : TRUE
  BY DEF CInv, TypeOK, Call
<1>2. IsFiniteSet(Present)
  BY CardReaderAssumption, FS_Subset DEF Present
<1>3. Present' = Present /\ pc'[u] = "request"
  BY DEF CInv, TypeOK, Call, Goto, Present
<1> QED BY <1>1, <1>2, <1>3, OnlyOne

(***************************************************************************)
(* The card has not answered because it was ready: it is idle now and is   *)
(* asked again.  Or it was idle, has answered and is ready.                *)
(***************************************************************************)
LEMMA RequestCalm ==
  ASSUME CInv, CalmInv, NEW u \in Users, PcdRequest(u), calm'[u] # None
  PROVE  /\ calm[u] \in Cards /\ calm' = calm /\ Present = {calm[u]} /\ Present' = Present
         /\ \/ pc' = [pc EXCEPT ![u] = "again"] /\ field'[calm[u]] = "idle"
            \/ pc' = [pc EXCEPT ![u] = "anticoll"] /\ field'[calm[u]] = "ready"
<1> DEFINE c == calm[u]
<1>1. calm' = calm /\ (RequestOk(u) \/ RequestFails(u))
  BY DEF PcdRequest, RequestOk, RequestFails, RequestDisturbed, Disturbed, history
<1>2. c \in Cards /\ Present = {c} /\ (pc[u] = "again" => field[c] = "idle")
  BY <1>1 DEF CInv, TypeOK, CalmInv, Calling, PcdRequest
<1>3. field' = AfterWakeUp
  BY <1>1 DEF RequestOk, RequestFails
<1>4. Present' = Present
  BY <1>3, WakeUpKeeps DEF CInv
<1>5. CASE RequestOk(u)
  <2>1. field[c] = "idle"
    BY <1>2, <1>5, OneCard DEF CInv, RequestOk
  <2> QED BY <2>1, <1>1, <1>2, <1>3, <1>4, <1>5 DEF RequestOk, Goto, AfterWakeUp
<1>6. CASE RequestFails(u)
  <2>1. field[c] = "ready"
    BY <1>2, <1>6, OneCard DEF CInv, RequestFails
  <2>2. pc[u] = "request"
    BY <2>1, <1>2 DEF PcdRequest
  <2> QED BY <2>1, <2>2, <1>1, <1>2, <1>3, <1>4, <1>6 DEF RequestFails, Retry, Goto, AfterWakeUp
<1> QED BY <1>1, <1>5, <1>6

(***************************************************************************)
(* The ready card answers alone.                                           *)
(***************************************************************************)
LEMMA AnticollCalm ==
  ASSUME CInv, CalmInv, NEW u \in Users, PcdAnticoll(u), calm'[u] # None
  PROVE  pc'[u] = "blink" /\ ret'[u] = calm[u]
<1> DEFINE c == calm[u]
<1>1. calm' = calm /\ (AnticollOk(u) \/ AnticollFails(u))
  BY DEF PcdAnticoll, AnticollOk, AnticollFails, AnticollDisturbed, Disturbed, history
<1>2. c \in Cards /\ Present = {c} /\ field[c] = "ready"
  BY <1>1 DEF CInv, TypeOK, CalmInv, Calling, PcdAnticoll
<1>3. AnticollOk(u)
  BY <1>1, <1>2, OneCard DEF CInv, AnticollFails
<1>4. (CHOOSE d \in Cards : field[d] = "ready") = c
  BY <1>2, OneCard DEF CInv
<1> QED BY <1>3, <1>4 DEF AnticollOk, Returns, Goto, CInv, TypeOK

(***************************************************************************)
(* While a thread is in a call, nobody else takes a step of the reader.    *)
(***************************************************************************)
LEMMA CallerOnly ==
  ASSUME CInv, NEW u \in Users, Calling(u), [Next]_vars, calm'[u] # None
  PROVE  PcdRequest(u) \/ PcdAnticoll(u) \/ UNCHANGED vars
<1>1. pc[u] # "out" /\ holder = u /\ holder # NoUser
  BY CardReaderAssumption DEF CInv, TypeOK, Calling
<1>2. \A v \in Users : v # u => pc[v] = "out"
  BY <1>1, Alone DEF CInv
<1>3. CASE \E v \in Users : Take(v) \/ New(v) \/ Back(v) \/ Release(v) \/ Call(v)
                           \/ PcdRequest(v) \/ PcdAnticoll(v) \/ Compare(v) \/ Store(v)
  BY <1>1, <1>2, <1>3
     DEF Calling, Take, New, Back, Release, Call, PcdRequest, PcdAnticoll, Compare, Store
<1>4. CASE \E c \in Cards : Enter(c) \/ Leave(c)
  BY <1>4 DEF Enter, Leave
<1>5. Match \in Users /\ Touch \in Users
  BY DEF Users
<1> QED BY <1>3, <1>4, <1>5 DEF Next, MatchReads, TouchReads

\* Who calls after a step has called before it, or begins.
LEMMA CallerWas ==
  ASSUME CInv, NEW u \in Users, Calling(u)', [Next]_vars
  PROVE  Calling(u) \/ Call(u)
<1> SUFFICES ASSUME ~Calling(u), ~Call(u)  PROVE FALSE
  OBVIOUS
<1>1. pc' # pc
  BY DEF Calling
<1>2. PICK v \in Users : \/ Take(v) \/ New(v) \/ Back(v) \/ Release(v) \/ Call(v)
                        \/ PcdRequest(v) \/ PcdAnticoll(v) \/ Compare(v) \/ Store(v)
  <2>1. Match \in Users /\ Touch \in Users
    BY DEF Users
  <2> QED BY <2>1, <1>1 DEF Next, MatchReads, TouchReads, Enter, Leave, vars
<1>3. \A w \in Users : w # v => pc'[w] = pc[w]
  <2>1. CASE Take(v) \/ New(v) \/ Back(v) \/ Release(v) \/ Call(v) \/ Compare(v) \/ Store(v)
    BY <2>1 DEF Take, New, Back, Release, Call, Compare, Store, Goto, CInv, TypeOK
  <2>2. CASE PcdRequest(v)
    BY <2>2 DEF PcdRequest, RequestOk, RequestFails, RequestDisturbed, Goto, CInv, TypeOK
  <2>3. CASE PcdAnticoll(v)
    BY <2>3 DEF PcdAnticoll, AnticollOk, AnticollFails, AnticollDisturbed, Returns, Goto,
                CInv, TypeOK
  <2> QED BY <2>1, <2>2, <2>3, <1>2
<1>4. v = u
  BY <1>3 DEF Calling
<1>5. Take(u) \/ New(u) \/ Back(u) \/ Release(u) \/ Compare(u) \/ Store(u)
  BY <1>2, <1>4 DEF Calling, PcdRequest, PcdAnticoll
<1> QED BY <1>5 DEF Calling, CInv, TypeOK, Take, New, Back, Release, Compare, Store, Goto
-----------------------------------------------------------------------------
(***************************************************************************)
(* Every step keeps the invariant.                                         *)
(***************************************************************************)
LEMMA InitReadInv == Init => ReadInv
  BY InitCInv DEF Init, ReadInv, CalmInv, Calling

LEMMA NextReadInv == ReadInv /\ [Next]_vars => ReadInv'
<1> SUFFICES ASSUME CInv, CalmInv, [Next]_vars  PROVE CalmInv'
  BY NextCInv DEF ReadInv
<1> SUFFICES ASSUME NEW u \in Users, Calling(u)', calm'[u] # None
             PROVE  /\ Present' = {calm'[u]}
                    /\ pc'[u] = "again" => field'[calm'[u]] = "idle"
                    /\ pc'[u] = "anticoll" => field'[calm'[u]] = "ready"
  BY DEF CalmInv
<1>1. CASE Call(u)
  BY <1>1, CallCalm
<1>2. CASE Calling(u) /\ PcdRequest(u)
  BY <1>2, RequestCalm DEF CInv, TypeOK
<1>3. CASE Calling(u) /\ PcdAnticoll(u)
  BY <1>3, AnticollCalm DEF Calling
<1>4. CASE Calling(u) /\ UNCHANGED vars
  BY <1>4 DEF CalmInv, Calling, Present, vars, history
<1> QED BY <1>1, <1>2, <1>3, <1>4, CallerWas, CallerOnly

\* And is one that CalmIsRead allows.
LEMMA CalmSteps == ReadInv /\ [Next]_vars => \A u \in Users : CalmStep(u)
<1> SUFFICES ASSUME CInv, CalmInv, [Next]_vars, NEW u \in Users, Calling(u), calm'[u] # None
             PROVE  pc'[u] # FailTo(u) /\ (pc'[u] = "blink" => ret'[u] = calm[u])
  BY DEF CalmStep, ReadInv
<1>1. FailTo(u) \in {"release", "look"}
  BY DEF FailTo
<1>2. CASE PcdRequest(u)
  BY <1>1, <1>2, RequestCalm DEF CInv, TypeOK
<1>3. CASE PcdAnticoll(u)
  BY <1>1, <1>3, AnticollCalm
<1>4. CASE UNCHANGED vars
  BY <1>1, <1>4 DEF Calling, vars
<1> QED BY <1>2, <1>3, <1>4, CallerOnly

(***************************************************************************)
(* A card that is alone in the field all through an undisturbed call is    *)
(* read by it: never selected (rc522_function.c:671-700), it fails every   *)
(* other first request, and the second one finds it idle.  For any number  *)
(* of cards and disturbances.                                              *)
(***************************************************************************)
THEOREM CalmCardRead == Spec => CalmIsRead
<1>1. ReadInv /\ [Next]_vars =>
        [\A u \in Users :
           pc[u] \in {"request", "again", "anticoll"} /\ calm'[u] # None
             => pc'[u] # FailTo(u) /\ (pc'[u] = "blink" => ret'[u] = calm[u])]_vars
  BY CalmSteps DEF CalmStep, Calling
<1> QED BY InitReadInv, NextReadInv, <1>1, PTL DEF Spec, CalmIsRead
=============================================================================
