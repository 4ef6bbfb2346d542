----------------------------- MODULE SoftTimer -----------------------------
(***************************************************************************)
(* The kernel's soft timers (rt-thread/src/timer.c) under the lock-outs of *)
(* user/main.c.  Module Lockout has a timer that is armed or not, and the  *)
(* call of its function; here are the list, its order and the walk through *)
(* it, and the timer thread's own sleep and suspension.  Ticks are         *)
(* unsigned and wrap around.                                               *)
(*                                                                         *)
(*   timer thread   priority 4: next time-out, delay, rt_soft_timer_check  *)
(*   touch_thread   priority 3: preempts it outside the critical section,  *)
(*                  does not sleep in a dialog, starts timers              *)
(*   the tick       at any point                                           *)
(***************************************************************************)
EXTENDS Integers, Sequences, FiniteSets, SequencesExt

CONSTANTS
  Ops,       \* the operations, each with a timer
  W,         \* 2^32: ticks are numbers modulo W
  Period,    \* 300000: init_tick of the timers
  MaxLate,   \* bound: no dialog keeps a timer that is due waiting for longer
  NoOp

RT_TICK_MAX == W - 1
Half == RT_TICK_MAX \div 2

(***************************************************************************)
(* rt_timer_start asserts that a period is short; "the new tick shall be   *)
(* less than the half duration of tick max" is what rt_soft_timer_check    *)
(* supposes.  A time-out that rt_thread_timer_entry has read may get old   *)
(* in two dialogs, before and after its timer is started again, and must   *)
(* still be seen to be over.                                               *)
(***************************************************************************)
ASSUME SoftTimerAssumption ==
  /\ W \in Nat /\ Period \in Nat \ {0} /\ MaxLate \in Nat
  /\ 2 * Period + MaxLate < Half
  /\ 2 * (Period + MaxLate) <= W - Half
  /\ NoOp \notin Ops

VARIABLES
  now,       \* rt_tick
  list,      \* rt_soft_timer_list (the skip list has one level)
  active,    \* the timers with RT_TIMER_FLAG_ACTIVATED
  expiry,    \* timeout_tick
  tt,        \* where the timer thread is
  next,      \* its next_timeout, then the delay
  cur,       \* its current_tick
  n,         \* the node rt_soft_timer_check visits next, NoOp for the list's end
  t,         \* the timer it has taken off the list
  sleep,     \* ticks until its rt_thread_delay ends
  touch,     \* the touch thread: "asleep", "runs", "locked"
  lock,      \* register_lock, delete_lock, psd_lock
  since,     \* history: ticks since the operation was locked, up to Period
  raced,     \* history: it was locked while its function was about to be called
  mistaken   \* history: next_timeout = RT_TICK_MAX was the expiry of a timer

listVars == <<list, active, expiry>>
threadVars == <<next, cur, n, t>>
history == <<since, raced, mistaken>>
vars == <<now, listVars, tt, threadVars, sleep, touch, lock, history>>

(***************************************************************************)
(* The timer thread has run before the touch thread exists.                *)
(***************************************************************************)
Init ==
  /\ now = 0
  /\ list = <<>> /\ active = {} /\ expiry = [o \in Ops |-> 0]
  /\ tt = "suspended" /\ next = RT_TICK_MAX /\ cur = 0 /\ n = NoOp /\ t = NoOp
  /\ sleep = 0
  /\ touch = "asleep"
  /\ lock = [o \in Ops |-> 1]
  /\ since = [o \in Ops |-> Period]
  /\ raced = {} /\ mistaken = FALSE

Minus(a, b) == (a - b) % W
-----------------------------------------------------------------------------
(***************************************************************************)
(* rt_timer_start: take the timer off the list, if it is there, and put it *)
(* behind all that expire earlier or at the same tick.                     *)
(***************************************************************************)
Pending(o) == \E i \in DOMAIN list : list[i] = o
Position(o) == CHOOSE i \in DOMAIN list : list[i] = o
Without(o) == IF Pending(o) THEN RemoveAt(list, Position(o)) ELSE list

Place(l, e) ==
  LET After(i) == Minus(expiry[l[i]], e) \in 1 .. Half - 1
      Passed == {i \in DOMAIN l : \A j \in 1 .. i : ~ After(j)}
  IN Cardinality(Passed) + 1

StartedTwice(o) ==                  \* slip: a timer on the list is left there
  LET e == (now + Period) % W IN
  [list |-> InsertAt(list, Place(list, e), o), expiry |-> [expiry EXCEPT ![o] = e]]
StartedOnce(o) ==                   \* slip: a running timer keeps its expiry
  LET e == IF o \in active THEN expiry[o] ELSE (now + Period) % W IN
  [list |-> InsertAt(Without(o), Place(Without(o), e), o),
   expiry |-> [expiry EXCEPT ![o] = e]]
Started(o) ==
  LET e == (now + Period) % W IN
  [list |-> InsertAt(Without(o), Place(Without(o), e), o),
   expiry |-> [expiry EXCEPT ![o] = e]]

(***************************************************************************)
(* Its end: a timer thread that is not ready is resumed.                   *)
(***************************************************************************)
ResumeAsleep ==                     \* slip: only a delay is cut short
  IF tt = "asleep"
  THEN tt' = "check" /\ sleep' = 0 /\ mistaken' = FALSE
  ELSE UNCHANGED <<tt, sleep, mistaken>>
Resume ==
  IF tt \in {"asleep", "suspended"}
  THEN tt' = "check" /\ sleep' = 0 /\ mistaken' = FALSE
  ELSE UNCHANGED <<tt, sleep, mistaken>>
-----------------------------------------------------------------------------
(***************************************************************************)
(* The touch thread, woken by a tick.  It runs as soon as the scheduler is *)
(* not locked, as it is from the restart of a timer to the visit of the    *)
(* next.  It may lock an operation that it found unlocked; then it sleeps. *)
(***************************************************************************)
TouchRuns == touch # "asleep" /\ tt # "visit"

LockOut(o) ==
  /\ TouchRuns /\ touch = "runs" /\ lock[o] = 1
  /\ lock' = [lock EXCEPT ![o] = 0]
  /\ list' = Started(o).list /\ expiry' = Started(o).expiry
  /\ active' = active \cup {o}
  /\ Resume
  /\ touch' = "locked"
  /\ since' = [since EXCEPT ![o] = 0]
  /\ raced' = IF tt = "call" /\ t = o THEN raced \cup {o} ELSE raced
  /\ UNCHANGED <<now, threadVars>>

TouchSleeps ==
  /\ TouchRuns /\ touch' = "asleep"
  /\ UNCHANGED <<now, listVars, tt, threadVars, sleep, lock, history>>
-----------------------------------------------------------------------------
(***************************************************************************)
(* The timer thread, while the touch thread sleeps.  NextTimeout,          *)
(* NextTick, Delay and Suspend are rt_thread_timer_entry; RT_TICK_MAX      *)
(* stands for an empty list.  A local that is not read again becomes 0.    *)
(***************************************************************************)
At(pc) == touch = "asleep" /\ tt = pc

NextTimeout ==
  /\ At("entry") /\ tt' = "timeout"
  /\ next' = IF list = <<>> THEN RT_TICK_MAX ELSE expiry[Head(list)]
  /\ mistaken' = (list # <<>> /\ expiry[Head(list)] = RT_TICK_MAX)
  /\ UNCHANGED <<now, listVars, cur, n, t, sleep, touch, lock, since, raced>>

Suspend ==
  /\ At("timeout") /\ next = RT_TICK_MAX
  /\ tt' = "suspended"
  /\ UNCHANGED <<now, listVars, threadVars, sleep, touch, lock, history>>

NextTickAny ==                      \* slip: no test for a time-out that is over
  /\ At("timeout") /\ next # RT_TICK_MAX
  /\ tt' = "delay" /\ next' = Minus(next, now)
  /\ UNCHANGED <<now, listVars, cur, n, t, sleep, touch, lock, history>>
NextTick ==
  /\ At("timeout") /\ next # RT_TICK_MAX
  /\ IF Minus(next, now) < Half
     THEN tt' = "delay" /\ next' = Minus(next, now)
     ELSE tt' = "check" /\ next' = 0
  /\ UNCHANGED <<now, listVars, cur, n, t, sleep, touch, lock, history>>

(***************************************************************************)
(* A delay of no ticks ends at the next one, like a delay of one.          *)
(***************************************************************************)
Delay ==
  /\ At("delay") /\ tt' = "asleep"
  /\ sleep' = IF next = 0 THEN 1 ELSE next
  /\ next' = 0
  /\ UNCHANGED <<now, listVars, cur, n, t, touch, lock, history>>

(***************************************************************************)
(* rt_soft_timer_check reads the tick, and visits nodes in the critical    *)
(* section: a timer that is due is taken off the list, then the section    *)
(* is left and the function called; any other ends the check.              *)
(***************************************************************************)
CurrentTick(pc, to) ==
  /\ At(pc) /\ tt' = to
  /\ cur' = now
  /\ UNCHANGED <<now, listVars, next, n, t, sleep, touch, lock, history>>

NodeAfter(o) == IF o = Last(list) THEN NoOp ELSE list[Position(o) + 1]

DueEarly(e) == Minus(cur + 1, e) < Half       \* slip: a tick too early
Due(e) == Minus(cur, e) < Half

Visit(o) ==
  /\ cur' = 0
  /\ IF o # NoOp /\ Due(expiry[o])
     THEN /\ tt' = "call" /\ t' = o
          /\ n' = NodeAfter(o)
          /\ list' = Without(o)
     ELSE /\ tt' = "entry" /\ t' = NoOp /\ n' = NoOp
          /\ UNCHANGED list

FirstNode ==
  /\ At("enter")
  /\ Visit(IF list = <<>> THEN NoOp ELSE Head(list))
  /\ UNCHANGED <<now, active, expiry, next, sleep, touch, lock, history>>

TimeoutFunc ==
  /\ At("call") /\ tt' = "called"
  /\ lock' = [lock EXCEPT ![t] = 1]
  /\ since' = [since EXCEPT ![t] = Period] /\ raced' = raced \ {t}
  /\ UNCHANGED <<now, listVars, threadVars, sleep, touch, mistaken>>

(***************************************************************************)
(* Back in the critical section the timer is started again: it was created *)
(* with the flag of a periodic one.  The next node visited is the one that *)
(* was behind it before the call.                                          *)
(***************************************************************************)
AgainOneShot ==                     \* slip: the timers are one-shot
  /\ At("again") /\ tt' = "visit"
  /\ active' = active \ {t} /\ t' = NoOp
  /\ UNCHANGED <<now, list, expiry, next, cur, n, sleep, touch, lock, history>>
Again ==
  /\ At("again") /\ tt' = "visit"
  /\ IF t \in active
     THEN list' = Started(t).list /\ expiry' = Started(t).expiry
     ELSE UNCHANGED <<list, expiry>>
  /\ t' = NoOp
  /\ UNCHANGED <<now, active, next, cur, n, sleep, touch, lock, history>>

NextNode ==
  /\ tt = "visit"
  /\ Visit(n)
  /\ UNCHANGED <<now, active, expiry, next, sleep, touch, lock, history>>

TimerThread ==
  \/ NextTimeout \/ Suspend \/ NextTick \/ Delay
  \/ CurrentTick("check", "enter") \/ FirstNode
  \/ TimeoutFunc \/ CurrentTick("called", "again") \/ Again \/ NextNode
-----------------------------------------------------------------------------
(***************************************************************************)
(* The tick interrupt ends the timer thread's delay and, some time, the    *)
(* touch thread's sleep.                                                   *)
(***************************************************************************)
Late(o) == Pending(o) /\ Minus(now, expiry[o]) \in MaxLate .. Half - 1

Tick ==
  /\ (touch = "asleep" /\ sleep > 0) \/ \A o \in Ops : ~ Late(o)
  /\ now' = (now + 1) % W
  /\ sleep' = IF sleep > 0 THEN sleep - 1 ELSE 0
  /\ tt' = IF sleep = 1 THEN "check" ELSE tt
  /\ touch' \in IF touch = "asleep" THEN {"asleep", "runs"} ELSE {touch}
  /\ since' = [o \in Ops |-> IF since[o] < Period THEN since[o] + 1 ELSE since[o]]
  /\ UNCHANGED <<listVars, threadVars, lock, raced, mistaken>>

(***************************************************************************)
(* The bound MaxLate stops the time of the model when the timer thread is  *)
(* suspended with a timer on the list.  The touch thread is still woken.   *)
(***************************************************************************)
Stuck == tt = "suspended" /\ list # <<>>

WokenLate ==
  /\ Stuck /\ touch = "asleep" /\ touch' = "runs"
  /\ UNCHANGED <<now, listVars, tt, threadVars, sleep, lock, history>>

Next ==
  \/ TouchSleeps \/ TimerThread \/ Tick \/ WokenLate
  \/ \E o \in Ops : LockOut(o)

Spec == Init /\ [][Next]_vars

(***************************************************************************)
(* The clock ticks, a dialog ends, and the timer thread, which is ready    *)
(* whenever the touch thread sleeps, for milliseconds, gets on.            *)
(***************************************************************************)
FairSpec == Spec /\ WF_vars(Tick) /\ WF_vars(TouchSleeps) /\ SF_vars(TimerThread)
-----------------------------------------------------------------------------
(***************************************************************************)
(* Properties                                                              *)
(***************************************************************************)

(***************************************************************************)
(* The types of the variables.                                             *)
(***************************************************************************)
TypeOK ==
  /\ now \in 0 .. RT_TICK_MAX /\ cur \in 0 .. RT_TICK_MAX
  /\ list \in Seq(Ops) /\ active \subseteq Ops
  /\ expiry \in [Ops -> 0 .. RT_TICK_MAX]
  /\ tt \in {"suspended", "entry", "timeout", "delay", "asleep",
            "check", "enter", "call", "called", "again", "visit"}
  /\ next \in 0 .. RT_TICK_MAX /\ sleep \in 0 .. Half
  /\ (sleep > 0 <=> tt = "asleep")
  /\ n \in Ops \cup {NoOp} /\ t \in Ops \cup {NoOp}
  /\ (t \in Ops <=> tt \in {"call", "called", "again"})
  /\ touch \in {"asleep", "runs", "locked"}
  /\ lock \in [Ops -> {0, 1}] /\ since \in [Ops -> 0 .. Period]
  /\ raced \subseteq Ops /\ mistaken \in BOOLEAN

(***************************************************************************)
(* The list under restarts from two threads: no timer is on it twice, the  *)
(* earliest is first, an active timer is on it unless it is the one being  *)
(* called, and the node the check will visit next is on it.                *)
(***************************************************************************)
ListRight ==
  /\ \A i, j \in DOMAIN list : i # j => list[i] # list[j]
  /\ \A i, j \in DOMAIN list : i < j => Minus(expiry[list[j]], expiry[list[i]]) < Half
  /\ \A o \in Ops : Pending(o) => o \in active
  /\ \A o \in active : Pending(o) \/ o = t
  /\ n # NoOp => Pending(n)

(***************************************************************************)
(* The timer thread tests the list and suspends itself in two steps, and a *)
(* timer started in between does not resume it.  Yet it is never suspended *)
(* with a timer on the list, unless the earliest one expired at the very   *)
(* tick that stands for "no software timer".                               *)
(***************************************************************************)
NoLostWakeup == Stuck => mistaken

(***************************************************************************)
(* An operation is unlocked before its time only if it was locked between  *)
(* the moment its periodic timer was taken off the list and the call of    *)
(* the function (timer.c leaves the critical section there).               *)
(***************************************************************************)
EarlyOnlyInWindow ==
  [][\A o \in Ops :
       lock[o] = 0 /\ lock'[o] = 1 => since[o] = Period \/ o \in raced]_vars

(***************************************************************************)
(* A locked operation is unlocked some time, unless the timer thread takes *)
(* the earliest timer for an empty list.                                   *)
(***************************************************************************)
UnlockedInTheEnd == \A o \in Ops : lock[o] = 0 ~> lock[o] = 1 \/ (Stuck /\ mistaken)

(***************************************************************************)
(* The list, the window and the restarts implement the timer service.      *)
(***************************************************************************)
Age(o) ==
  IF ~ Pending(o) THEN 0
  ELSE IF Minus(now, expiry[o]) < Half THEN Period
  ELSE Period - Minus(expiry[o], now)

Service == INSTANCE TimerService
  WITH Timers <- Ops,
       armed <- {o \in Ops : Pending(o)},
       age <- [o \in Ops |-> Age(o)],
       expired <- IF tt = "call" THEN {t} ELSE {}

ImplementsTimerService == Service!SSpec
=============================================================================
