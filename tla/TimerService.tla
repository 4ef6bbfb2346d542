---------------------------- MODULE TimerService ----------------------------
(***************************************************************************)
(* What a timer service promises to who starts periodic timers: a timer's  *)
(* function is called once per expiry, and a timer expires only when the   *)
(* whole period has passed since it was started, or started again, last.   *)
(***************************************************************************)
EXTENDS Integers, FiniteSets

CONSTANTS Timers, Period

VARIABLES
  armed,     \* the timers that run
  age,       \* ticks since a timer was started, up to Period
  expired    \* the timers that have expired and whose function is not called yet

svars == <<armed, age, expired>>

SInit == armed = {} /\ age = [o \in Timers |-> 0] /\ expired = {}

Arm(o) ==
  /\ armed' = armed \cup {o}
  /\ age' = [age EXCEPT ![o] = 0]
  /\ UNCHANGED expired

Expire(o) ==
  /\ o \in armed /\ age[o] = Period
  /\ expired = {} /\ expired' = {o}
  /\ armed' = armed \ {o}
  /\ age' = [age EXCEPT ![o] = 0]

Call(o) == o \in expired /\ expired' = {} /\ UNCHANGED <<armed, age>>

Time ==
  /\ age' = [o \in Timers |-> IF o \in armed /\ age[o] < Period THEN age[o] + 1 ELSE age[o]]
  /\ UNCHANGED <<armed, expired>>

SNext == Time \/ \E o \in Timers : Arm(o) \/ Expire(o) \/ Call(o)

SSpec == SInit /\ [][SNext]_svars
=============================================================================
