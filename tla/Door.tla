-------------------------------- MODULE Door --------------------------------
(***************************************************************************)
(* Visiting cards, the door, and the touch thread's claim to the reader    *)
(* (user/main.c: match_thread, door_open_thread, touch_thread), over the   *)
(* kernel's semaphores.                                                    *)
(*                                                                         *)
(*   match_thread_lock   counts 1 at first: whoever has taken it uses the  *)
(*                       card reader and the display;                      *)
(*   door_open_thread_lock   counts the matched cards for which the door   *)
(*                       was not opened yet.                               *)
(*                                                                         *)
(* The touch thread has priority 3, match_thread 22, door_open_thread 23.  *)
(* In a dialog the touch thread does not sleep: the others stand still,    *)
(* and the motor does what it was last told.                               *)
(***************************************************************************)
EXTENDS Integers, Sequences

CONSTANT
  MaxOwed      \* bound: matched cards the door was not opened for yet

ASSUME DoorAssumption == MaxOwed \in Nat \ {0}

VARIABLES
  sem,       \* match_thread_lock: its value, and who waits for it, in order
  doorSem,   \* the value of door_open_thread_lock
  touch,     \* where touch_thread is
  asleep,    \* it is suspended: in rt_thread_mdelay or in rt_sem_take
  match,     \* where match_thread is
  door,      \* where door_open_thread is
  motor,     \* "off", or the way TIM3's duty drives it: "open" or "close"
  owed       \* history: cards matched, less openings of the door begun

doorVars == <<sem, doorSem, touch, asleep, match, door, motor, owed>>

DInit ==
  /\ sem = [value |-> 1, queue |-> <<>>]
  /\ doorSem = 0
  /\ touch = "poll" /\ asleep = TRUE
  /\ match = "take" /\ door = "take"
  /\ motor = "off" /\ owed = 0

-----------------------------------------------------------------------------
(***************************************************************************)
(* match_thread_lock.  A thread that waits gets it from the one who        *)
(* releases it, and the value stays 0.                                     *)
(***************************************************************************)
rt_sem_take(t) ==
  sem' = IF sem.value > 0
         THEN [sem EXCEPT !.value = @ - 1]
         ELSE [sem EXCEPT !.queue = Append(@, t)]

rt_sem_releaseBoth ==                     \* slip: the value goes up as well
  sem' = [value |-> sem.value + 1,
          queue |-> IF sem.queue = <<>> THEN <<>> ELSE Tail(sem.queue)]
rt_sem_releaseLost ==                     \* slip: who waits is not resumed
  sem' = [sem EXCEPT !.value = @ + 1]
rt_sem_release ==
  sem' = IF sem.queue = <<>>
         THEN [sem EXCEPT !.value = @ + 1]
         ELSE [sem EXCEPT !.queue = Tail(@)]

Waits(t) == \E n \in 1 .. Len(sem.queue) : sem.queue[n] = t

-----------------------------------------------------------------------------
(***************************************************************************)
(* The touch thread: it looks for a touch every 5 ms, beeps, waits for the *)
(* reader, and keeps it until the operation is over.                       *)
(***************************************************************************)
TouchRuns(place) == touch = place /\ ~ asleep
NotTouch == UNCHANGED <<doorSem, match, door, motor, owed>>

TouchPoll ==
  /\ TouchRuns("poll")
  /\ touch' \in {"poll", "button"} /\ asleep' = TRUE
  /\ UNCHANGED sem /\ NotTouch

TouchTake ==
  /\ TouchRuns("button")
  /\ rt_sem_take("touch")
  /\ touch' = "serve" /\ asleep' = (sem.value = 0)
  /\ NotTouch

TouchSleep ==
  /\ TouchRuns("serve")
  /\ asleep' = TRUE
  /\ UNCHANGED <<touch, sem>> /\ NotTouch

TouchDone ==
  /\ TouchRuns("serve")
  /\ rt_sem_release
  /\ touch' = "poll" /\ asleep' = TRUE
  /\ NotTouch

TouchWake ==
  /\ asleep /\ ~ Waits("touch")
  /\ asleep' = FALSE
  /\ UNCHANGED <<sem, touch>> /\ NotTouch

-----------------------------------------------------------------------------
(***************************************************************************)
(* match_thread.  Each time it gets the lock it looks for one card; a      *)
(* registered one opens the door and is welcomed for 2.5 seconds.          *)
(***************************************************************************)
MatchRuns(place) == asleep /\ match = place
NotMatch == UNCHANGED <<touch, asleep, door, motor>>

MatchTake ==
  /\ MatchRuns("take")
  /\ rt_sem_take("match")
  /\ match' = "read"
  /\ UNCHANGED <<doorSem, owed>> /\ NotMatch

MatchNoCard ==
  /\ MatchRuns("read") /\ ~ Waits("match")
  /\ match' = "release"
  /\ UNCHANGED <<sem, doorSem, owed>> /\ NotMatch

MatchNotRegistered ==
  /\ MatchRuns("read") /\ ~ Waits("match")
  /\ match' = "beep"
  /\ UNCHANGED <<sem, doorSem, owed>> /\ NotMatch

MatchedOnce ==              \* slip: a release while one is pending is lost
  /\ MatchRuns("read") /\ ~ Waits("match")
  /\ owed < MaxOwed
  /\ doorSem' = 1 /\ owed' = owed + 1
  /\ match' = "welcome"
  /\ UNCHANGED sem /\ NotMatch

Matched ==
  /\ MatchRuns("read") /\ ~ Waits("match")
  /\ owed < MaxOwed
  /\ doorSem' = doorSem + 1 /\ owed' = owed + 1
  /\ match' = "welcome"
  /\ UNCHANGED sem /\ NotMatch

MatchSlept ==
  /\ match \in {"beep", "welcome"} /\ asleep
  /\ match' = "release"
  /\ UNCHANGED <<sem, doorSem, owed>> /\ NotMatch

(***************************************************************************)
(* Handing the lock to the touch thread resumes it: it preempts at once.   *)
(***************************************************************************)
MatchRelease ==
  /\ MatchRuns("release")
  /\ rt_sem_release
  /\ match' = "take"
  /\ asleep' = (asleep /\ ~ Waits("touch"))
  /\ UNCHANGED <<doorSem, touch, door, motor, owed>>

-----------------------------------------------------------------------------
(***************************************************************************)
(* door_open_thread: 3.5 seconds of opening, 2.5 of pause, 4.5 of closing. *)
(***************************************************************************)
NotDoor == UNCHANGED <<sem, touch, asleep, match>>

DoorOpen ==
  /\ asleep /\ door = "take" /\ doorSem > 0
  /\ doorSem' = doorSem - 1 /\ owed' = owed - 1
  /\ door' = "opening" /\ motor' = "open"
  /\ NotDoor

DoorPauseEnds ==                 \* slip: the cycle ends without closing
  /\ asleep /\ door = "opening"
  /\ door' = "take" /\ motor' = "off"
  /\ UNCHANGED <<doorSem, owed>> /\ NotDoor

DoorPause ==
  /\ asleep /\ door = "opening"
  /\ door' = "open" /\ motor' = "off"
  /\ UNCHANGED <<doorSem, owed>> /\ NotDoor

DoorClose ==
  /\ asleep /\ door = "open"
  /\ door' = "closing" /\ motor' = "close"
  /\ UNCHANGED <<doorSem, owed>> /\ NotDoor

DoorStop ==
  /\ asleep /\ door = "closing"
  /\ door' = "take" /\ motor' = "off"
  /\ UNCHANGED <<doorSem, owed>> /\ NotDoor
-----------------------------------------------------------------------------
TouchStep == TouchPoll \/ TouchTake \/ TouchSleep \/ TouchDone \/ TouchWake

MatchStep ==
  \/ MatchTake \/ MatchNoCard \/ MatchNotRegistered \/ Matched
  \/ MatchSlept \/ MatchRelease

DoorStep == DoorOpen \/ DoorPause \/ DoorClose \/ DoorStop

DNext == TouchStep \/ MatchStep \/ DoorStep

DSpec == DInit /\ [][DNext]_doorVars

(***************************************************************************)
(* The touch thread runs when it is ready, and the user leaves a dialog    *)
(* some time.  The others run only while it sleeps: it does so for 5 ms or *)
(* more at a time, again and again, and match_thread sleeps for 5 ms after *)
(* each release, when door_open_thread can run.                            *)
(***************************************************************************)
DFairness ==
  /\ WF_doorVars(TouchStep) /\ SF_doorVars(TouchDone)
  /\ SF_doorVars(MatchStep) /\ SF_doorVars(DoorStep)

DFairSpec == DSpec /\ DFairness
-----------------------------------------------------------------------------
(***************************************************************************)
(* Properties                                                              *)
(***************************************************************************)
Holds(t) ==
  /\ ~ Waits(t)
  /\ \/ t = "touch" /\ touch = "serve"
     \/ t = "match" /\ match # "take"

(***************************************************************************)
(* The types of the variables.                                             *)
(***************************************************************************)
DTypeOK ==
  /\ sem \in [value : {0, 1}, queue : {<<>>, <<"match">>, <<"touch">>}]
  /\ doorSem \in 0 .. MaxOwed
  /\ touch \in {"poll", "button", "serve"} /\ asleep \in BOOLEAN
  /\ match \in {"take", "read", "beep", "welcome", "release"}
  /\ door \in {"take", "opening", "open", "closing"}
  /\ motor \in {"off", "open", "close"}
  /\ owed \in 0 .. MaxOwed

(***************************************************************************)
(* match_thread_lock: the two threads never use the card reader, its       *)
(* buffer ucArray_ID and the display at the same time, although the lock   *)
(* changes hands inside rt_sem_release without ever being free.            *)
(***************************************************************************)
ReaderExclusive == ~ (Holds("touch") /\ Holds("match"))

(***************************************************************************)
(* A touched button gets the reader from a match_thread that never stops   *)
(* asking for it, and the other way round once the user has left.          *)
(***************************************************************************)
Served ==
  /\ touch = "button" ~> Holds("touch")
  /\ Holds("touch") ~> Holds("match")

(***************************************************************************)
(* A door that is opened is closed again, and a matched card opens it,     *)
(* though dialogs stop door_open_thread at any point of its cycle.         *)
(***************************************************************************)
DoorCloses == motor = "open" ~> motor = "close"
DoorOpens == owed > 0 ~> motor = "open"
=============================================================================
