----------------------------- MODULE CardReader -----------------------------
(***************************************************************************)
(* Reading a card (bsp/rc522_function.c): Read_ID sends a wake-up request, *)
(* sends it once more if that fails, and asks for the card's ID; the ID    *)
(* goes to the global ucArray_ID.  Two threads read cards and use what is  *)
(* in ucArray_ID later, after a blink or a beep in which they sleep:       *)
(* match_thread compares it with the registered tags, touch_thread does so *)
(* and registers or deletes it.  match_thread_lock is held from the        *)
(* request to the last use.                                                *)
(*                                                                         *)
(* Cards come and go at any time.  Each exchange with the field is a step. *)
(***************************************************************************)
EXTENDS Integers, FiniteSets

CONSTANTS
  Cards,
  Match, Touch,    \* match_thread, touch_thread
  NoUser,
  None,            \* nothing read, nothing used
  Mixed,           \* four bytes that are no card's ID
  MaxNoise         \* bound: exchanges that are disturbed

Users == {Match, Touch}

ASSUME CardReaderAssumption ==
  /\ Match # Touch /\ NoUser \notin Users
  /\ None \notin Cards /\ Mixed \notin Cards /\ None # Mixed
  /\ IsFiniteSet(Cards) /\ MaxNoise \in Nat

VARIABLES
  field,      \* what each card is: "out" of the field, "idle", or "ready"
  ucArray_ID,
  holder,     \* who holds match_thread_lock
  pc,         \* where each thread is
  noise,      \* disturbed exchanges so far
  ret,        \* history: the ID with which a thread's Read_ID returned MI_OK
  used,       \* history: the ID it has used since
  seen,       \* history: the cards in the field at some time of the call
  calm        \* history: the card alone in the field all through it, or None

history == <<ret, used, seen, calm>>
vars == <<field, ucArray_ID, holder, pc, noise, history>>

Init ==
  /\ field = [c \in Cards |-> "out"]
  /\ ucArray_ID = Mixed
  /\ holder = NoUser
  /\ pc = [u \in Users |-> "out"]
  /\ noise = 0
  /\ ret = [u \in Users |-> None] /\ used = [u \in Users |-> None]
  /\ seen = [u \in Users |-> {}] /\ calm = [u \in Users |-> None]

Goto(u, place) == pc' = [pc EXCEPT ![u] = place]
Present == {c \in Cards : field[c] # "out"}
Those(state) == {c \in Cards : field[c] = state}
-----------------------------------------------------------------------------
(***************************************************************************)
(* A card that enters the field is idle.  Cards in it are what they are    *)
(* whoever reads, so a call of either thread sees them.                    *)
(***************************************************************************)
Enter(c) ==
  /\ field[c] = "out"
  /\ field' = [field EXCEPT ![c] = "idle"]
  /\ seen' = [u \in Users |-> seen[u] \cup {c}]
  /\ calm' = [u \in Users |-> None]
  /\ UNCHANGED <<ucArray_ID, holder, pc, noise, ret, used>>

Leave(c) ==
  /\ field[c] # "out"
  /\ field' = [field EXCEPT ![c] = "out"]
  /\ calm' = [u \in Users |-> None]
  /\ UNCHANGED <<ucArray_ID, holder, pc, noise, ret, used, seen>>

(***************************************************************************)
(* ISO 14443 A: an idle card answers the wake-up and is ready.  A ready    *)
(* card expects its selection, which Read_ID never sends: the wake-up is   *)
(* an error to it, it does not answer and is idle again.                   *)
(***************************************************************************)
AfterWakeUp ==
  [c \in Cards |-> CASE field[c] = "idle" -> "ready"
                     [] field[c] = "ready" -> "idle"
                     [] OTHER -> "out"]
-----------------------------------------------------------------------------
(***************************************************************************)
(* match_thread takes the lock for one call, touch_thread for a dialog.    *)
(***************************************************************************)
TakeUnlocked(u) ==                  \* slip: the lock is not asked for
  /\ pc[u] = "out"
  /\ holder' = u /\ Goto(u, "look")
  /\ UNCHANGED <<field, ucArray_ID, noise, history>>
Take(u) ==
  /\ pc[u] = "out" /\ holder = NoUser
  /\ holder' = u /\ Goto(u, "look")
  /\ UNCHANGED <<field, ucArray_ID, noise, history>>

Call(u) ==
  /\ pc[u] = "look" /\ Goto(u, "request")
  /\ ret' = [ret EXCEPT ![u] = None] /\ used' = [used EXCEPT ![u] = None]
  /\ seen' = [seen EXCEPT ![u] = Present]
  /\ calm' = [calm EXCEPT ![u] =
       IF Cardinality(Present) = 1 THEN CHOOSE c \in Present : TRUE ELSE None]
  /\ UNCHANGED <<field, ucArray_ID, holder, noise>>

(***************************************************************************)
(* PcdRequest.  No answer is an error.  Several cards answer together:     *)
(* that is an error unless they are of one type.  On success the type of   *)
(* the card goes to the first half of ucArray_ID.                          *)
(***************************************************************************)
RequestOk(u) ==
  /\ Those("idle") # {}
  /\ field' = AfterWakeUp
  /\ ucArray_ID' = Mixed
  /\ Goto(u, "anticoll")
  /\ UNCHANGED <<holder, noise, history>>

(***************************************************************************)
(* The first failure is followed by the second request, that by the end of *)
(* the call: MI_NOTAGERR.                                                  *)
(***************************************************************************)
FailTo(u) == IF u = Match THEN "release" ELSE "look"

RetryOnce(u) == FailTo(u)           \* slip: no second request
Retry(u) == IF pc[u] = "request" THEN "again" ELSE FailTo(u)

RequestFails(u) ==
  /\ Cardinality(Those("idle")) # 1
  /\ field' = AfterWakeUp
  /\ Goto(u, Retry(u))
  /\ UNCHANGED <<ucArray_ID, holder, noise, history>>

(***************************************************************************)
(* A disturbed request, or its answer, may have reached the cards or not.  *)
(***************************************************************************)
Disturbed == noise < MaxNoise /\ noise' = noise + 1 /\ calm' = [u \in Users |-> None]

RequestDisturbed(u) ==
  /\ Disturbed
  /\ field' \in {field, AfterWakeUp}
  /\ Goto(u, Retry(u))
  /\ UNCHANGED <<ucArray_ID, holder, ret, used, seen>>

PcdRequest(u) ==
  /\ pc[u] \in {"request", "again"}
  /\ RequestOk(u) \/ RequestFails(u) \/ RequestDisturbed(u)

(***************************************************************************)
(* PcdAnticoll: every ready card answers with its ID.  Two IDs collide,    *)
(* and a collision is one of the errors PcdComMF522 looks for.             *)
(***************************************************************************)
Returns(u, id) ==
  /\ ucArray_ID' = id /\ ret' = [ret EXCEPT ![u] = id]
  /\ Goto(u, "blink")

AnticollOk(u) ==
  /\ Cardinality(Those("ready")) = 1
  /\ Returns(u, CHOOSE c \in Cards : field[c] = "ready")
  /\ UNCHANGED <<field, holder, noise, used, seen, calm>>

AnticollFailsOk(u) ==               \* slip: the result of PcdAnticoll is not looked at
  /\ Cardinality(Those("ready")) # 1
  /\ Returns(u, ucArray_ID)
  /\ UNCHANGED <<field, holder, noise, used, seen, calm>>
AnticollFails(u) ==
  /\ Cardinality(Those("ready")) # 1
  /\ Goto(u, FailTo(u))
  /\ UNCHANGED <<field, ucArray_ID, holder, noise, history>>

(***************************************************************************)
(* A disturbed answer is an error to the chip, or arrives with a wrong     *)
(* check byte, when four bytes have been copied.  If it is cut short, what *)
(* was on the stack is checked instead, and may pass.                      *)
(***************************************************************************)
AnticollDisturbed(u) ==
  /\ Disturbed
  /\ \/ /\ ucArray_ID' \in {ucArray_ID, Mixed} /\ UNCHANGED ret
        /\ Goto(u, FailTo(u))
     \/ Those("ready") # {} /\ Returns(u, Mixed)
  /\ UNCHANGED <<field, holder, used, seen>>

PcdAnticoll(u) ==
  /\ pc[u] = "anticoll"
  /\ AnticollOk(u) \/ AnticollFails(u) \/ AnticollDisturbed(u)
-----------------------------------------------------------------------------
(***************************************************************************)
(* After the blink and the beep: tag_match(ucArray_ID).  match_thread is   *)
(* done, shows the greeting or beeps, and releases the lock.  touch_thread *)
(* registers an ID that does not match, and deletes one in any case.       *)
(***************************************************************************)
Use(u) == used' = [used EXCEPT ![u] = ucArray_ID]

Compare(u) ==
  /\ pc[u] = "blink" /\ Use(u)
  /\ IF u = Match THEN Goto(u, "release") ELSE Goto(u, "store") \/ Goto(u, "menu")
  /\ UNCHANGED <<field, ucArray_ID, holder, noise, ret, seen, calm>>

Store(u) ==
  /\ pc[u] = "store" /\ Use(u)
  /\ Goto(u, "menu")
  /\ UNCHANGED <<field, ucArray_ID, holder, noise, ret, seen, calm>>

(***************************************************************************)
(* The dialog: New reads another card, Back ends it, when it waits for a   *)
(* card, too.                                                              *)
(***************************************************************************)
New(u) ==
  /\ pc[u] = "menu" /\ Goto(u, "look")
  /\ UNCHANGED <<field, ucArray_ID, holder, noise, history>>

Back(u) ==
  /\ u = Touch /\ pc[u] \in {"look", "menu"} /\ Goto(u, "release")
  /\ UNCHANGED <<field, ucArray_ID, holder, noise, history>>

ReleaseKept(u) ==                   \* slip: released only when a card was read
  /\ pc[u] = "release" /\ Goto(u, "out")
  /\ holder' = IF ret[u] # None THEN NoUser ELSE holder
  /\ UNCHANGED <<field, ucArray_ID, noise, history>>
Release(u) ==
  /\ pc[u] = "release" /\ Goto(u, "out")
  /\ holder' = NoUser
  /\ UNCHANGED <<field, ucArray_ID, noise, history>>

MatchReads == Call(Match) \/ PcdRequest(Match) \/ PcdAnticoll(Match) \/ Compare(Match)
TouchReads ==
  Call(Touch) \/ PcdRequest(Touch) \/ PcdAnticoll(Touch) \/ Compare(Touch) \/ Store(Touch)

Next ==
  \/ \E c \in Cards : Enter(c) \/ Leave(c)
  \/ \E u \in Users : Take(u) \/ Back(u) \/ Release(u)
  \/ New(Touch)
  \/ MatchReads \/ TouchReads

Spec == Init /\ [][Next]_vars

(***************************************************************************)
(* The threads get on; the user does not stay in a dialog for ever.        *)
(***************************************************************************)
FairSpec ==
  /\ Spec
  /\ WF_vars(MatchReads) /\ WF_vars(TouchReads)
  /\ SF_vars(Take(Match)) /\ SF_vars(Back(Touch))
  /\ \A u \in Users : WF_vars(Release(u))
-----------------------------------------------------------------------------
(***************************************************************************)
(* Properties                                                              *)
(***************************************************************************)

(***************************************************************************)
(* The types of the variables.                                             *)
(***************************************************************************)
Ids == Cards \cup {None, Mixed}

TypeOK ==
  /\ field \in [Cards -> {"out", "idle", "ready"}]
  /\ ucArray_ID \in Cards \cup {Mixed}
  /\ holder \in Users \cup {NoUser}
  /\ pc \in [Users -> {"out", "look", "request", "again", "anticoll", "blink",
                       "store", "menu", "release"}]
  /\ \A u \in Users : pc[u] # "out" => holder = u
  /\ noise \in 0 .. MaxNoise
  /\ ret \in [Users -> Ids] /\ used \in [Users -> Ids]
  /\ seen \in [Users -> SUBSET Cards] /\ calm \in [Users -> Cards \cup {None}]

(***************************************************************************)
(* What a thread compares, registers or deletes, after it has slept, is    *)
(* what its own Read_ID has returned, although ucArray_ID is shared.       *)
(***************************************************************************)
UsedIsRead == \A u \in Users : used[u] # None => used[u] = ret[u]

(***************************************************************************)
(* An ID that Read_ID returns with MI_OK is that of a card that was in the *)
(* field during the call, not one left in ucArray_ID by an earlier call,   *)
(* unless the answer was disturbed.                                        *)
(***************************************************************************)
ReadIsPresent ==
  \A u \in Users :
    /\ ret[u] \in Cards => ret[u] \in seen[u]
    /\ ret[u] = Mixed => noise > 0 /\ calm[u] = None

(***************************************************************************)
(* A card that is alone in the field all through an undisturbed call is    *)
(* read, in whatever state earlier calls have left it: as it is never      *)
(* selected, every other first request fails.                              *)
(***************************************************************************)
CalmIsRead ==
  [][\A u \in Users :
       pc[u] \in {"request", "again", "anticoll"} /\ calm'[u] # None
         => pc'[u] # FailTo(u) /\ (pc'[u] = "blink" => ret'[u] = calm[u])]_vars

(***************************************************************************)
(* A card that stays in the field alone is read and used, again and again: *)
(* what was used before its stay does not count.                           *)
(***************************************************************************)
CardServed ==
  \A c \in Cards :
    <>[](Present = {c}) => []<><<\E u \in Users : used[u] # c /\ used'[u] = c>>_vars
=============================================================================
