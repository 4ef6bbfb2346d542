------------------------------ MODULE Lockout ------------------------------
(***************************************************************************)
(* The lock-outs of user/main.c.  Registering, deleting and changing the   *)
(* password ask for the password; the third wrong one locks the operation  *)
(* for five minutes.  Four kinds of threads take part:                     *)
(*                                                                         *)
(*   touch_thread   priority 3, asks for the password, locks, starts the   *)
(*                  operation's soft timer and its countdown thread;       *)
(*   the kernel's   priority 4, calls the timeout function that unlocks;   *)
(*   timer thread                                                          *)
(*   err_*_thread   priority 4 (delete), 5 and 6, one per operation, count *)
(*                  the time left for the display;                         *)
(*   the tick       the clock interrupt that ends sleeps.                  *)
(*                                                                         *)
(* The touch thread does not sleep while it waits for a key, so a dialog   *)
(* keeps every other thread from running for as long as the user likes.    *)
(* What the other threads do at a tick is short: they are done with it     *)
(* before the next tick, if the touch thread sleeps.  Only the tick that   *)
(* ends its sleep may find the timer thread still busy with an expiry, at  *)
(* any point where the scheduler is not locked (timer.c:603 to 614).       *)
(***************************************************************************)
EXTENDS Integers

CONSTANTS
  Ops,         \* "register", "delete", "psw"
  TimerPrio,   \* the operations whose countdown thread has the timer
               \* thread's priority: {"delete"}
  LockTicks,   \* 300000
  MaxErr,      \* 2: the errors that do not lock yet
  DrawTicks,   \* how long drawing takes at most, and for the message about a
               \* wrong password at least
  NoOp         \* no button was touched

(***************************************************************************)
(* The message is 17 characters of 12 * 24 points each, a dozen register   *)
(* writes to the panel per point: some milliseconds.  Three matter.        *)
(***************************************************************************)
ASSUME LockoutAssumption ==
  /\ TimerPrio \subseteq Ops
  /\ LockTicks \in Nat \ {0}
  /\ MaxErr \in Nat
  /\ DrawTicks \in Nat /\ DrawTicks >= 3
  /\ NoOp \notin Ops

VARIABLES
  touch,     \* where the touch thread is
  sel,       \* the operation whose button was touched
  asleep,    \* it sleeps in rt_thread_mdelay (or waits for match_thread_lock)
  slept,     \* it sleeps, and a tick has passed since it began to
  drawn,     \* ticks it has been drawing
  lock,      \* register_lock, delete_lock, psd_lock: 1 when not locked
  err,       \* reg_err_cnt, del_err_cnt, psd_err_cnt
  armed,     \* the operation's timer is in the soft timer list
  left,      \* ticks until it expires
  calling,   \* the timer thread has "taken" it off the list, has "called" its
             \* function, or "no"
  sem,       \* the semaphore of the countdown thread
  cd,        \* where the countdown thread is
  woken,     \* its rt_thread_mdelay(1) is over
  tick,      \* psd_tick, register_tick, delete_tick
  shown,     \* the tick last written to the text of down_count since the
             \* operation was locked, or NoText
  since,     \* history: ticks since the operation was locked, up to LockTicks
  raced,     \* history: it was locked while its function was about to be called
  outrun     \* history: it was once locked between the call and the restart

touchVars == <<touch, sel, asleep, slept, drawn>>
timerVars == <<armed, left, calling>>
cdVars == <<sem, cd, woken, tick, shown>>
history == <<since, raced, outrun>>
lvars == <<touchVars, lock, err, timerVars, cdVars, history>>

NoText == -1

LInit ==
  /\ touch = "poll" /\ sel = NoOp /\ asleep = TRUE /\ slept = FALSE /\ drawn = 0
  /\ lock = [o \in Ops |-> 1]
  /\ err = [o \in Ops |-> 0]
  /\ armed = [o \in Ops |-> FALSE] /\ left = [o \in Ops |-> 0]
  /\ calling = [o \in Ops |-> "no"]
  /\ sem = [o \in Ops |-> 0]
  /\ cd = [o \in Ops |-> "take"]
  /\ woken = [o \in Ops |-> FALSE]
  /\ tick = [o \in Ops |-> LockTicks]
  /\ shown = [o \in Ops |-> NoText]
  /\ since = [o \in Ops |-> LockTicks] /\ raced = {} /\ outrun = {}

-----------------------------------------------------------------------------
(***************************************************************************)
(* The touch thread.                                                       *)
(***************************************************************************)
Running(pc) == touch = pc /\ ~ asleep
Goto(pc, sleeps) ==
  /\ touch' = pc /\ asleep' = sleeps /\ slept' = FALSE
  /\ sel' = IF pc = "poll" THEN NoOp ELSE sel
  /\ drawn' = 0
TouchOnly == UNCHANGED <<lock, err, timerVars, cdVars, history>>

(***************************************************************************)
(* The scan finds nothing, or one of the three buttons: beeponce sleeps.   *)
(***************************************************************************)
Poll == Running("poll") /\ Goto("poll", TRUE) /\ TouchOnly

Touched(o) ==
  /\ Running("poll")
  /\ touch' = "button" /\ sel' = o /\ asleep' = TRUE /\ slept' = FALSE /\ drawn' = 0
  /\ TouchOnly

(***************************************************************************)
(* Not locked: Match_psw asks for the password.  Locked: down_count.       *)
(***************************************************************************)
Admit ==
  /\ Running("button")
  /\ IF lock[sel] = 1 THEN Goto("dialog", FALSE) ELSE Goto("show", TRUE)
  /\ TouchOnly

(***************************************************************************)
(* Every key beeps.  After the beep the dialog goes on, is left (Match_psw *)
(* = 0), or the password matches (1) and the operation runs, sleeping now  *)
(* and then, until the user leaves it.                                     *)
(***************************************************************************)
Key == Running("dialog") /\ Goto("key", TRUE) /\ TouchOnly
NextKey == Running("key") /\ Goto("dialog", FALSE) /\ TouchOnly
Cancelled == Running("key") /\ Goto("poll", TRUE) /\ TouchOnly

Correct ==
  /\ Running("key")
  /\ err' = [err EXCEPT ![sel] = 0]
  /\ Goto("serve", FALSE)
  /\ UNCHANGED <<lock, timerVars, cdVars, history>>

Serve ==
  /\ Running("serve")
  /\ Goto("serve", TRUE) \/ Goto("poll", TRUE)
  /\ TouchOnly

(***************************************************************************)
(* Match_psw = 2: one more error.  More than MaxErr lock the operation,    *)
(* wake its countdown thread and start its timer, wherever the timer       *)
(* thread is with an earlier expiry; none of the threads this concerns     *)
(* runs before the touch thread sleeps again, after it has drawn the       *)
(* message.                                                                *)
(***************************************************************************)
rt_timer_start(o) ==
  /\ armed' = [armed EXCEPT ![o] = TRUE]
  /\ left' = [left EXCEPT ![o] = LockTicks]

Locked(o) ==
  /\ err' = [err EXCEPT ![o] = 0]
  /\ lock' = [lock EXCEPT ![o] = 0]
  /\ sem' = [sem EXCEPT ![o] = @ + 1]
  /\ shown' = [shown EXCEPT ![o] = NoText]
  /\ since' = [since EXCEPT ![o] = 0]
  /\ raced' = IF calling[o] = "taken" THEN raced \cup {o} ELSE raced
  /\ outrun' = IF calling[o] = "called" THEN outrun \cup {o} ELSE outrun

LockOutNoTimer(o) ==                   \* slip: the timer is not started
  Locked(o) /\ UNCHANGED <<armed, left>>
LockOutTimerRuns(o) ==                 \* slip: a running timer is not restarted
  Locked(o) /\ IF armed[o] THEN UNCHANGED <<armed, left>> ELSE rt_timer_start(o)
LockOut(o) == Locked(o) /\ rt_timer_start(o)

TooManyLate(o) == err[o] > MaxErr      \* slip: compared before it is counted
TooMany(o) == err[o] + 1 > MaxErr

Wrong ==
  /\ Running("key")
  /\ IF TooMany(sel)
     THEN LockOut(sel)
     ELSE /\ err' = [err EXCEPT ![sel] = @ + 1]
          /\ UNCHANGED <<lock, sem, shown, armed, left, history>>
  /\ Goto("wrong", FALSE)
  /\ UNCHANGED <<calling, cd, woken, tick>>

Message ==
  /\ Running("wrong") /\ drawn = DrawTicks
  /\ Goto("sleep", TRUE)
  /\ TouchOnly

Done == Running("sleep") /\ Goto("poll", TRUE) /\ TouchOnly

(***************************************************************************)
(* down_count sleeps, shows the text, and does so again or ends.           *)
(***************************************************************************)
Show ==
  /\ Running("show")
  /\ Goto("show", TRUE) \/ Goto("poll", TRUE)
  /\ TouchOnly

TouchStep ==
  \/ Poll \/ Admit \/ Key \/ NextKey \/ Cancelled \/ Correct \/ Serve
  \/ Wrong \/ Message \/ Done \/ Show
  \/ \E o \in Ops : Touched(o)

-----------------------------------------------------------------------------
(***************************************************************************)
(* The timer thread (rt_soft_timer_check).  A timer that is due is taken   *)
(* off the list in a critical section; that is left, and the timeout       *)
(* function unlocks; then it is entered again and the timer started again, *)
(* as RT_TIMER_CTRL_SET_ONESHOT, with which the timers are created for a   *)
(* flag, is the value of RT_TIMER_FLAG_PERIODIC.                           *)
(***************************************************************************)
Due(o) == armed[o] /\ left[o] = 0
TimerBusy == \E o \in Ops : Due(o) \/ calling[o] # "no"

Expire(o) ==
  /\ asleep /\ Due(o) /\ \A p \in Ops : calling[p] = "no"
  /\ calling' = [calling EXCEPT ![o] = "taken"]
  /\ armed' = [armed EXCEPT ![o] = FALSE]
  /\ UNCHANGED <<touchVars, lock, err, left, cdVars, history>>

Timeout(o) ==
  /\ asleep /\ calling[o] = "taken"
  /\ calling' = [calling EXCEPT ![o] = "called"]
  /\ lock' = [lock EXCEPT ![o] = 1]
  /\ since' = [since EXCEPT ![o] = LockTicks] /\ raced' = raced \ {o}
  /\ UNCHANGED <<touchVars, err, armed, left, cdVars, outrun>>

Restart(o) ==
  /\ asleep /\ calling[o] = "called"
  /\ calling' = [calling EXCEPT ![o] = "no"]
  /\ rt_timer_start(o)
  /\ UNCHANGED <<touchVars, lock, err, cdVars, history>>

TimerThread(o) == Expire(o) \/ Timeout(o) \/ Restart(o)

(***************************************************************************)
(* A countdown thread takes its semaphore, and counts one tick down each   *)
(* time its rt_thread_mdelay(1) is over.  The loop ends when nothing is    *)
(* left, or when the operation is no longer locked: only then does the     *)
(* next lock-out start from LockTicks again.  (static, the tick survives.) *)
(***************************************************************************)
MayCount(o) == asleep /\ (o \in TimerPrio \/ ~ TimerBusy)

LoopTestKeep(o, t) ==                     \* slip: no reset before the break
  /\ tick' = [tick EXCEPT ![o] = t]
  /\ cd' = [cd EXCEPT ![o] = IF t = 0 \/ lock[o] = 1 THEN "rest" ELSE "count"]

LoopTest(o, t) ==
  IF t = 0
  THEN /\ tick' = [tick EXCEPT ![o] = 0]
       /\ cd' = [cd EXCEPT ![o] = "rest"]
  ELSE IF lock[o] = 1
  THEN /\ tick' = [tick EXCEPT ![o] = LockTicks]
       /\ cd' = [cd EXCEPT ![o] = "rest"]
  ELSE /\ tick' = [tick EXCEPT ![o] = t]
       /\ cd' = [cd EXCEPT ![o] = "count"]

Take(o) ==
  /\ MayCount(o)
  /\ cd[o] = "take" /\ sem[o] > 0
  /\ sem' = [sem EXCEPT ![o] = @ - 1]
  /\ LoopTest(o, tick[o])
  /\ UNCHANGED <<touchVars, lock, err, timerVars, woken, shown, history>>

Count(o) ==
  /\ MayCount(o)
  /\ cd[o] = "count" /\ woken[o]
  /\ woken' = [woken EXCEPT ![o] = FALSE]
  /\ shown' = [shown EXCEPT ![o] = IF lock[o] = 0 THEN tick[o] - 1 ELSE NoText]
  /\ LoopTest(o, tick[o] - 1)
  /\ UNCHANGED <<touchVars, lock, err, timerVars, sem, history>>

-----------------------------------------------------------------------------
(***************************************************************************)
(* One tick.  It may end a sleep of the touch thread: all are longer than  *)
(* one tick, and the two seconds after a wrong password are longer than    *)
(* the ten ticks a countdown thread rests between two lock-outs.           *)
(***************************************************************************)
LowerReady ==
  \/ TimerBusy
  \/ \E o \in Ops : cd[o] = "take" /\ sem[o] > 0
  \/ \E o \in Ops : cd[o] = "count" /\ woken[o]

MayWake == touch = "sleep" => \A o \in Ops : cd[o] # "rest" /\ sem[o] = 0

WaitsForUser == touch \in {"dialog", "serve"}

Passes ==
  /\ left' = [o \in Ops |-> IF left[o] > 0 THEN left[o] - 1 ELSE 0]
  /\ since' = [o \in Ops |-> IF since[o] < LockTicks THEN since[o] + 1 ELSE since[o]]
  /\ woken' = [o \in Ops |-> cd[o] = "count"]
  /\ \E R \in SUBSET {o \in Ops : cd[o] = "rest"} :
       cd' = [o \in Ops |-> IF o \in R THEN "take" ELSE cd[o]]
  /\ UNCHANGED <<touch, sel, lock, err, armed, calling, sem, tick, shown, raced, outrun>>

Tick ==
  /\ ~ asleep \/ ~ LowerReady
  /\ asleep \/ WaitsForUser \/ drawn < DrawTicks
  /\ asleep' \in IF asleep /\ MayWake THEN BOOLEAN ELSE {asleep}
  /\ slept' = asleep'
  /\ drawn' = IF asleep \/ WaitsForUser THEN 0 ELSE drawn + 1
  /\ Passes

(***************************************************************************)
(* The tick that ends the sleep finds the timer thread still busy with the *)
(* timers of the tick before: the touch thread preempts it.                *)
(***************************************************************************)
TickPreempts ==
  /\ slept /\ TimerBusy /\ MayWake
  /\ asleep' = FALSE /\ slept' = FALSE /\ drawn' = 0
  /\ Passes

LNext ==
  \/ TouchStep
  \/ \E o \in Ops : TimerThread(o) \/ Take(o) \/ Count(o)
  \/ Tick \/ TickPreempts

LSpec == LInit /\ [][LNext]_lvars

(***************************************************************************)
(* The clock does not stop, the scheduler runs what is ready, and the user *)
(* does not leave a dialog waiting for a key for ever.                     *)
(***************************************************************************)
LFairness ==
  /\ WF_lvars(Tick) /\ WF_lvars(TouchStep)
  /\ \A o \in Ops :
       WF_lvars(TimerThread(o)) /\ WF_lvars(Take(o)) /\ WF_lvars(Count(o))

LFairSpec == LSpec /\ LFairness
-----------------------------------------------------------------------------
(***************************************************************************)
(* Properties                                                              *)
(***************************************************************************)

(***************************************************************************)
(* The types of the variables.  No semaphore counts above one.             *)
(***************************************************************************)
LTypeOK ==
  /\ touch \in {"poll", "button", "dialog", "key", "serve", "wrong", "sleep", "show"}
  /\ sel \in Ops \cup {NoOp} /\ (touch # "poll" => sel \in Ops)
  /\ asleep \in BOOLEAN /\ slept \in BOOLEAN /\ (slept => asleep)
  /\ drawn \in 0 .. DrawTicks
  /\ lock \in [Ops -> {0, 1}]
  /\ err \in [Ops -> 0 .. MaxErr]
  /\ armed \in [Ops -> BOOLEAN]
  /\ left \in [Ops -> 0 .. LockTicks]
  /\ calling \in [Ops -> {"no", "taken", "called"}]
  /\ sem \in [Ops -> {0, 1}]
  /\ cd \in [Ops -> {"take", "count", "rest"}]
  /\ woken \in [Ops -> BOOLEAN]
  /\ tick \in [Ops -> 0 .. LockTicks]
  /\ shown \in [Ops -> {NoText} \cup 0 .. LockTicks - 1]
  /\ since \in [Ops -> 0 .. LockTicks]
  /\ raced \subseteq Ops /\ outrun \subseteq Ops

(***************************************************************************)
(* "enters the five-minute lock" (touch_thread, main.c:309): an operation  *)
(* that was locked is unlocked no earlier, although its timer was already  *)
(* running with some other phase, and may have been due, when it was       *)
(* locked.  One case is left out, in which the code breaks its word: the   *)
(* timer had been taken off the list for an earlier expiry, and its        *)
(* function not been called yet (timer.c:603 to 605).                      *)
(***************************************************************************)
LockHeld ==
  [][\A o \in Ops :
       lock[o] = 0 /\ lock'[o] = 1 => since[o] = LockTicks \/ o \in raced]_lvars

(***************************************************************************)
(* When down_count shows the time left of a locked operation, there is a   *)
(* text of this lock-out to show, and it does not promise an earlier end   *)
(* than the timer's.  This is lost for good by a lock-out between the call *)
(* of the function and the restart of the timer (timer.c:605 to 614): the  *)
(* countdown may then reach 0 before the unlocking, and its tick stays 0.  *)
(***************************************************************************)
CountdownNotEarly ==
  Running("show") /\ lock[sel] = 0 /\ sel \notin outrun => shown[sel] >= left[sel]

(***************************************************************************)
(* A locked operation is unlocked some time.                               *)
(***************************************************************************)
Unlocked == \A o \in Ops : lock[o] = 0 ~> lock[o] = 1
=============================================================================
